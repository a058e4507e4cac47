------------------------- MODULE DataSourceRefProofs -------------------------
(***************************************************************************)
(* What an id stands for in the data source, for any number of threads:    *)
(* the references of a data set, which the mapping, the buffer and the     *)
(* running Adds must agree about, and the entry that a consumer has read   *)
(* and will delete.  The properties hold within limits of use, which are   *)
(* assumptions of the theorems (OneRefEach, LimitsOfUse, OneDeleter).      *)
(***************************************************************************)
EXTENDS DataSourceProofs

-----------------------------------------------------------------------------
(* The ids of the stored data sets. *)

\* In counter mode 0 the ids grow, otherwise they differ.
IdsDiffer(buf) ==
  \A i, j \in DOMAIN buf : i < j =>
    IF CounterMode = 0 THEN buf[i].id < buf[j].id ELSE buf[i].id # buf[j].id

LEMMA AddIdsAreNumbers == DataIds \subseteq Int
<1> SUFFICES ASSUME NEW c \in AddCalls PROVE c.id \in Int
  BY DEF DataIds
<1>1. PICK t \in Threads : c \in Calls[t] /\ c.op = "Add"
  BY DEF AddCalls, AllCalls
<1>2. QED
  BY <1>1, CallsAreCalls

LEMMA EntryIds ==
  ASSUME NEW buf \in Seq(Entry)
  PROVE  /\ Len(buf) \in Nat /\ DOMAIN buf = 1..Len(buf)
         /\ \A i \in DOMAIN buf : buf[i] \in Entry /\ buf[i].id \in DataIds /\ buf[i].id \in Int
<1>1. Len(buf) \in Nat /\ DOMAIN buf = 1..Len(buf)
  BY LenProperties
<1>2. ASSUME NEW i \in DOMAIN buf
      PROVE  buf[i] \in Entry /\ buf[i].id \in DataIds /\ buf[i].id \in Int
  <2>1. buf[i] \in Entry
    BY <1>1, ElementOfSeq
  <2>2. buf[i].id \in DataIds
    BY <2>1 DEF Entry
  <2>3. QED
    BY <2>1, <2>2, AddIdsAreNumbers
<1>3. QED
  BY <1>1, <1>2

LEMMA EraseKeepsIdsDiffer ==
  ASSUME NEW buf \in Seq(Entry), IdsDiffer(buf), NEW i \in 1..Len(buf)
  PROVE  IdsDiffer(RemoveAt(buf, i))
<1> DEFINE r == RemoveAt(buf, i)
           At(j) == IF j < i THEN j ELSE j + 1
<1>1. /\ Len(buf) \in Nat /\ DOMAIN buf = 1..Len(buf)
      /\ r \in Seq(Entry) /\ Len(r) = Len(buf) - 1
      /\ \A j \in 1..(Len(buf) - 1) : r[j] = IF j < i THEN buf[j] ELSE buf[j + 1]
  BY RemoveAtProperties, EntryIds
<1>2. DOMAIN r = 1..(Len(buf) - 1)
  BY <1>1, LenProperties
<1> HIDE DEF r
<1> SUFFICES ASSUME NEW j \in DOMAIN r, NEW k \in DOMAIN r, j < k
             PROVE  IF CounterMode = 0 THEN r[j].id < r[k].id ELSE r[j].id # r[k].id
  BY DEF IdsDiffer, r
<1>3. /\ r[j] = buf[At(j)] /\ r[k] = buf[At(k)]
      /\ At(j) \in DOMAIN buf /\ At(k) \in DOMAIN buf /\ At(j) < At(k)
  BY <1>1, <1>2
<1> HIDE DEF At
<1>4. QED
  BY <1>3 DEF IdsDiffer

LEMMA AppendKeepsIdsDiffer ==
  ASSUME NEW buf \in Seq(Entry), IdsDiffer(buf), NEW e \in Entry,
         ~BadId(buf, e.id), CounterMode # 0 => Holding(buf, e.id) = {}
  PROVE  IdsDiffer(Append(buf, e))
<1> DEFINE a == Append(buf, e)
           n == Len(buf)
<1>1. /\ n \in Nat /\ DOMAIN buf = 1..n
      /\ \A i \in DOMAIN buf : buf[i].id \in Int
      /\ e.id \in Int
  BY EntryIds, AddIdsAreNumbers DEF Entry
<1>2. /\ a \in Seq(Entry) /\ Len(a) = n + 1
      /\ \A j \in 1..n : a[j] = buf[j]
      /\ a[n + 1] = e
  BY AppendProperties
<1>3. DOMAIN a = 1..(n + 1)
  BY <1>2, LenProperties
<1> HIDE DEF a
<1>4. ASSUME NEW j \in 1..n
      PROVE  IF CounterMode = 0 THEN buf[j].id < e.id ELSE buf[j].id # e.id
  <2>1. CASE CounterMode # 0
    BY <1>1, <2>1 DEF Holding
  <2>2. CASE CounterMode = 0
    <3>1. buf # <<>> /\ n \in 1..n
      BY <1>1, EmptySeq
    <3>2. buf[n].id < e.id
      BY <1>1, <2>2, <3>1 DEF BadId, Last
    <3>3. CASE j = n
      BY <2>2, <3>2, <3>3
    <3>4. CASE j # n
      <4>1. j < n
        BY <1>1, <3>4
      <4> j \in DOMAIN buf /\ n \in DOMAIN buf
        BY <1>1, <3>1
      <4>2. buf[j].id < buf[n].id
        BY <2>2, <4>1 DEF IdsDiffer
      <4>3. buf[j].id \in Int /\ buf[n].id \in Int
        BY <1>1, <4>1
      <4>4. QED
        BY <1>1, <2>2, <3>2, <4>2, <4>3
    <3>5. QED
      BY <3>3, <3>4
  <2>3. QED
    BY <2>1, <2>2
<1> HIDE DEF n
<1> SUFFICES ASSUME NEW j \in DOMAIN a, NEW k \in DOMAIN a, j < k
             PROVE  IF CounterMode = 0 THEN a[j].id < a[k].id ELSE a[j].id # a[k].id
  BY DEF IdsDiffer, a
<1>5. CASE k = n + 1
  <2>1. j \in 1..n
    BY <1>1, <1>3, <1>5
  <2>2. QED
    BY <1>2, <1>4, <1>5, <2>1
<1>6. CASE k # n + 1
  <2>1. j \in DOMAIN buf /\ k \in DOMAIN buf /\ a[j] = buf[j] /\ a[k] = buf[k]
    BY <1>1, <1>2, <1>3, <1>6
  <2>2. QED
    BY <2>1 DEF IdsDiffer
<1>7. QED
  BY <1>5, <1>6

\* Whoever has an id is found by it.
LEMMA OneHolds ==
  ASSUME NEW buf \in Seq(Entry), IdsDiffer(buf), NEW i \in DOMAIN buf, NEW j \in DOMAIN buf,
         buf[i].id = buf[j].id
  PROVE  i = j
<1>1. i \in Int /\ j \in Int /\ buf[i].id \in Int /\ buf[j].id \in Int
  BY EntryIds
<1>2. ~(i < j) /\ ~(j < i)
  BY <1>1 DEF IdsDiffer
<1>3. QED
  BY <1>1, <1>2

LEMMA NextKeepsIdsDiffer ==
  ASSUME Safe, Typed, IdsDiffer(buffer), [Next]_vars
  PROVE  IdsDiffer(buffer')
<1>1. buffer \in Seq(Entry) /\ CallsTyped /\ BufferTyped
  BY DEF Typed, BufferTyped
<1>2. ASSUME NEW t \in Threads, ChangesMembers(t)
      PROVE  IdsDiffer(buffer')
  <2>1. CASE Discard(t)
    BY <1>1, <2>1, TakenEntry, EraseKeepsIdsDiffer DEF Discard, Safe
  <2>2. CASE Store(t)
    <3>1. NewEntry(t) \in Entry /\ NewEntry(t).id = call[t].id
      BY <1>1, <2>2, NewEntryTyped DEF Store, NewEntry
    <3>2. /\ buffer' = Append(buffer, NewEntry(t))
          /\ ~BadId(buffer, call[t].id) /\ ~Duplicate(buffer, call[t].id)
      BY <2>2 DEF Store
    <3>3. QED
      BY <1>1, <3>1, <3>2, AppendKeepsIdsDiffer DEF Duplicate
  <2>3. CASE Replace(t)
    <3> DEFINE id == call[t].id
               f == FirstHolding(buffer, id)
               r == RemoveAt(buffer, f)
    <3>1. NewEntry(t) \in Entry /\ NewEntry(t).id = id /\ buffer' = Append(r, NewEntry(t))
      BY <1>1, <2>3, NewEntryTyped DEF Replace, NewEntry
    <3>2. CounterMode # 0 /\ Holding(buffer, id) # {}
      BY <2>3 DEF Replace, Safe, Sections, FoundOut, Duplicate
    <3>3. f \in 1..Len(buffer) /\ buffer[f].id = id
      BY <1>1, <3>2, FirstHoldingIs
    <3>4. r \in Seq(Entry) /\ IdsDiffer(r)
      BY <1>1, <3>3, RemoveAtProperties, EraseKeepsIdsDiffer
    <3>5. \A e \in ToSet(r) : \E k \in 1..Len(buffer) : k # f /\ e = buffer[k]
      BY <1>1, <3>3, EraseKeeps
    <3> HIDE DEF r, f
    <3>6. Holding(r, id) = {}
      <4> SUFFICES ASSUME NEW k \in DOMAIN r, r[k].id = id PROVE FALSE
        BY DEF Holding
      <4>1. r[k] \in ToSet(r)
        BY DEF ToSet
      <4>2. PICK m \in 1..Len(buffer) : m # f /\ r[k] = buffer[m]
        BY <3>5, <4>1
      <4>3. m \in DOMAIN buffer /\ f \in DOMAIN buffer
        BY <1>1, <3>3, EntryIds
      <4>4. QED
        BY <1>1, <3>3, <4>2, <4>3, OneHolds
    <3>7. QED
      BY <3>1, <3>2, <3>4, <3>6, AppendKeepsIdsDiffer DEF BadId
  <2>4. CASE Erase(t)
    BY <1>1, <2>4, TakenEntry, EraseKeepsIdsDiffer DEF Erase, Safe
  <2>5. CASE Clear(t)
    BY <2>5, EmptySeq DEF Clear, IdsDiffer
  <2>6. QED
    BY <1>2, <2>1, <2>2, <2>3, <2>4, <2>5 DEF ChangesMembers
<1>3. ASSUME NEW t \in Threads, Visit(t)
      PROVE  IdsDiffer(buffer')
  <2>1. PICK i \in DOMAIN buffer : buffer' = [buffer EXCEPT ![i].locked = TRUE]
    BY <1>3 DEF Visit
  <2>2. /\ DOMAIN buffer' = DOMAIN buffer
        /\ \A j \in DOMAIN buffer : buffer'[j].id = buffer[j].id
    BY <2>1, LockIsBuffer DEF Safe
  <2>3. QED
    BY <2>2 DEF IdsDiffer
<1>4. QED
  BY <1>2, <1>3, WhoChangesTheBuffer DEF Safe

Basics == Safe /\ Ledger /\ Typed /\ IdsDiffer(buffer)

LEMMA NextKeepsBasics == Basics /\ [Next]_vars => Basics'
<1>1. Safe => Locks
  BY DEF Safe
<1>2. Safe /\ [Next]_vars => Safe'
  BY NextKeepsLocks, NextKeepsSections, NextKeepsBuffer DEF Safe
<1>3. QED
  BY <1>1, <1>2, NextKeepsLedger, NextKeepsTyped, NextKeepsIdsDiffer DEF Basics

LEMMA BasicsAlways == Spec => []Basics
<1>1. Init => IdsDiffer(buffer)
  BY EmptySeq DEF Init, IdsDiffer
<1>2. Safe /\ Ledger /\ Typed /\ IdsDiffer(buffer) /\ [Next]_vars => IdsDiffer(buffer)'
  BY NextKeepsIdsDiffer
<1>3. QED
  BY <1>1, <1>2, TypedAlways, PTL DEF Spec, Basics

\* ring_buffer.cpp:53-75: the ids in the buffer grow in counter mode 0 and differ
\* in counter mode 1, also when producers that use the same ids race each other
\* and the callbacks come between the check and the store.
THEOREM StoredIdsDiffer == Spec => []IdsDiffer(buffer)
BY BasicsAlways, PTL DEF Basics

-----------------------------------------------------------------------------
(* What the steps do to the set of entries. *)

LEMMA SameIdSameEntry ==
  ASSUME NEW buf \in Seq(Entry), IdsDiffer(buf), NEW e \in ToSet(buf), NEW f \in ToSet(buf),
         e.id = f.id
  PROVE  e = f
<1>1. PICK i \in DOMAIN buf, j \in DOMAIN buf : e = buf[i] /\ f = buf[j]
  BY DEF ToSet
<1>2. QED
  BY <1>1, OneHolds

\* Erasing an entry takes out what has its id.
LEMMA EraseTakes ==
  ASSUME NEW buf \in Seq(Entry), IdsDiffer(buf), NEW i \in 1..Len(buf)
  PROVE  ToSet(RemoveAt(buf, i)) = {e \in ToSet(buf) : e.id # buf[i].id}
<1>1. DOMAIN buf = 1..Len(buf)
  BY EntryIds
<1>2. ASSUME NEW e \in ToSet(RemoveAt(buf, i))
      PROVE  e \in ToSet(buf) /\ e.id # buf[i].id
  <2>1. PICK k \in 1..Len(buf) : k # i /\ e = buf[k]
    BY EraseKeeps
  <2>2. QED
    BY <1>1, <2>1, OneHolds DEF ToSet
<1>3. ASSUME NEW e \in ToSet(buf), e.id # buf[i].id
      PROVE  e \in ToSet(RemoveAt(buf, i))
  <2>1. PICK k \in 1..Len(buf) : e = buf[k]
    BY <1>1 DEF ToSet
  <2>2. QED
    BY <1>3, <2>1, EraseKeeps
<1>4. QED
  BY <1>2, <1>3

Others(id) == {e \in Entries : e.id # id}

LEMMA DiscardIs ==
  ASSUME Basics, NEW t \in Threads, Discard(t)
  PROVE  \E d \in Entries : /\ ~d.locked
                            /\ EraseRefs(RefsOf(d.id))
                            /\ Entries' = Others(d.id)
                            /\ lost' = lost \cup {d.data}
<1>1. buffer \in Seq(Entry) /\ IdsDiffer(buffer) /\ DOMAIN buffer = 1..Len(buffer)
  BY LenProperties DEF Basics, Typed, BufferTyped
<1> DEFINE i == OldestUnlocked(buffer)
<1>2. i \in 1..Len(buffer) /\ ~buffer[i].locked
  BY TakenEntry DEF Discard, Basics, Safe
<1>3. /\ EraseRefs(RefsOf(buffer[i].id)) /\ lost' = lost \cup {buffer[i].data}
      /\ buffer' = RemoveAt(buffer, i)
  BY DEF Discard
<1> HIDE DEF i
<1>4. buffer[i] \in Entries
  BY <1>1, <1>2 DEF Entries, ToSet
<1>5. Entries' = Others(buffer[i].id)
  BY <1>1, <1>2, <1>3, EraseTakes DEF Entries, Others
<1>6. QED
  BY <1>2, <1>3, <1>4, <1>5

LEMMA EraseIs ==
  ASSUME Basics, NEW t \in Threads, Erase(t)
  PROVE  /\ EraseRefs(RefsOf(call[t].id))
         /\ Entries' = Others(call[t].id)
         /\ \E d \in Entries : d.id = call[t].id
<1>1. buffer \in Seq(Entry) /\ IdsDiffer(buffer) /\ DOMAIN buffer = 1..Len(buffer)
  BY LenProperties DEF Basics, Typed, BufferTyped
<1> DEFINE i == FirstHolding(buffer, call[t].id)
<1>2. i \in 1..Len(buffer) /\ buffer[i].id = call[t].id
  BY TakenEntry DEF Erase, Basics, Safe
<1>3. EraseRefs(RefsOf(call[t].id)) /\ buffer' = RemoveAt(buffer, i)
  BY DEF Erase
<1> HIDE DEF i
<1>4. buffer[i] \in Entries
  BY <1>1, <1>2 DEF Entries, ToSet
<1>5. Entries' = Others(call[t].id)
  BY <1>1, <1>2, <1>3, EraseTakes DEF Entries, Others
<1>6. QED
  BY <1>2, <1>3, <1>4, <1>5

LEMMA StoreIs ==
  ASSUME Basics, NEW t \in Threads, Store(t)
  PROVE  Entries' = Entries \cup {NewEntry(t)} /\ UNCHANGED refVars
<1>1. buffer \in Seq(Entry) /\ NewEntry(t) \in Entry
  BY NewEntryTyped DEF Store, Basics, Typed, BufferTyped
<1>2. QED
  BY <1>1, AppendKeeps DEF Store, Entries

LEMMA ReplaceIs ==
  ASSUME Basics, NEW t \in Threads, Replace(t)
  PROVE  /\ EraseRefs(RefsOf(call[t].id))
         /\ Entries' = Others(call[t].id) \cup {NewEntry(t)}
         /\ \E d \in Entries : d.id = call[t].id /\ ~d.locked
<1>1. buffer \in Seq(Entry) /\ IdsDiffer(buffer) /\ DOMAIN buffer = 1..Len(buffer)
  BY LenProperties DEF Basics, Typed, BufferTyped
<1> DEFINE i == FirstHolding(buffer, call[t].id)
           r == RemoveAt(buffer, i)
<1>2. NewEntry(t) \in Entry
  BY NewEntryTyped DEF Replace, Basics, Typed
<1>3. i \in 1..Len(buffer) /\ buffer[i].id = call[t].id /\ ~buffer[i].locked
  BY <1>1, FirstHoldingIs DEF Replace, Basics, Safe, Sections, FoundOut, Duplicate
<1>4. EraseRefs(RefsOf(call[t].id)) /\ buffer' = Append(r, NewEntry(t))
  BY DEF Replace
<1> HIDE DEF i
<1>5. r \in Seq(Entry) /\ ToSet(r) = Others(call[t].id)
  BY <1>1, <1>3, RemoveAtProperties, EraseTakes DEF Others, Entries
<1> HIDE DEF r
<1>6. Entries' = Others(call[t].id) \cup {NewEntry(t)}
  BY <1>2, <1>4, <1>5, AppendKeeps DEF Entries
<1>7. buffer[i] \in Entries
  BY <1>1, <1>3 DEF Entries, ToSet
<1>8. QED
  BY <1>3, <1>4, <1>6, <1>7

\* The same data sets, whether locked or not.
Same(e, f) == e.id = f.id /\ e.refs = f.refs /\ e.data = f.data

LEMMA VisitIs ==
  ASSUME Basics, NEW t \in Threads, Visit(t)
  PROVE  /\ \A e \in Entries : \E f \in Entries' : Same(e, f) /\ (e.locked => f.locked)
         /\ \A f \in Entries' : \E e \in Entries : Same(e, f)
         /\ UNCHANGED <<refVars, pc, call, local, todo, lost>>
<1>1. PICK i \in DOMAIN buffer : buffer' = [buffer EXCEPT ![i].locked = TRUE]
  BY DEF Visit
<1>2. /\ DOMAIN buffer' = DOMAIN buffer
      /\ \A j \in DOMAIN buffer :
           Same(buffer[j], buffer'[j]) /\ (buffer[j].locked => buffer'[j].locked)
  BY <1>1, LockIsBuffer DEF Basics, Safe, Same
<1>3. UNCHANGED <<refVars, pc, call, local, todo, lost>>
  BY DEF Visit, resetVars
<1>4. QED
  BY <1>2, <1>3 DEF Entries, ToSet

-----------------------------------------------------------------------------
(* The other steps. *)

Adding(t) == pc[t] \in AddPlaces

\* The steps of the references and of the entries, and the ends of an Add.
Noisy(u) ==
  ChangesMembers(u) \/ ChangesRefs(u) \/ Visit(u) \/ BeginAdd(u) \/ RejectRef(u)

LEMMA QuietSteps ==
  ASSUME Locks, NEW u \in Threads, Begin(u) \/ Continue(u), ~Noisy(u)
  PROVE  /\ UNCHANGED <<buffer, refMapping, refCounter, files>>
         /\ Adding(u)' <=> Adding(u)
         /\ Adding(u) => UNCHANGED <<call, local>>
         /\ local'[u].refs = local[u].refs \/ local'[u].refs = <<>>
<1> USE DEF Locks, ThreadTypes, Goto, Leave, NoLocal, Enter, EnterAny, Ready, Adding,
            AddPlaces, Noisy, ChangesMembers, ChangesRefs, bufferVars, refVars
<1>1. CASE Begin(u)
  <2>1. CASE BeginDelete(u)
    BY <2>1 DEF BeginDelete
  <2>2. CASE BeginReset(u) \/ BeginAcknowledgeReset(u) \/ BeginShared(u)
    BY <2>2 DEF BeginReset, BeginAcknowledgeReset, BeginShared
  <2>3. CASE AcknowledgeOverflow(u) \/ GetReference(u)
    BY <2>3 DEF AcknowledgeOverflow, GetReference
  <2>4. QED
    BY <1>1, <2>1, <2>2, <2>3 DEF Begin
<1>2. CASE Add(u)
  <2>1. CASE RefsDone(u) \/ BeginPush(u)
    BY <2>1 DEF RefsDone, BeginPush, LockForPush, Lock
  <2>2. CASE NoRoom(u) \/ ReportDiscard(u)
    BY <2>2 DEF NoRoom, ReportDiscard
  <2>3. CASE RefuseId(u) \/ ReportReplaced(u)
    BY <2>3 DEF RefuseId, ReportReplaced
  <2>4. QED
    BY <1>2, <2>1, <2>2, <2>3 DEF Add
<1>3. CASE Delete(u)
  <2>1. CASE LockForDelete(u) \/ NotFound(u)
    BY <2>1 DEF LockForDelete, Lock, NotFound
  <2>2. CASE ReportFound(u)
    BY <2>2 DEF ReportFound
  <2>3. QED
    BY <1>3, <2>1, <2>2 DEF Delete
<1>4. CASE Reset(u)
  BY <1>4 DEF Reset, LockResetList, LockForReset, Lock, NothingToReset, RecordReset
<1>5. CASE AcknowledgeReset(u) \/ Share(u)
  BY <1>5 DEF AcknowledgeReset, Share
<1>6. CASE Wait(u) \/ EndIterate(u) \/ DropReference(u)
  BY <1>6 DEF Wait, EndIterate, DropReference, threadVars
<1>7. QED
  BY <1>1, <1>2, <1>3, <1>4, <1>5, <1>6 DEF Continue

-----------------------------------------------------------------------------
(* A data set with one REF has bound it or still has to. *)

OneAtATime ==
  \A t \in Threads :
    /\ Adding(t) => Len(local[t].rest) + Len(local[t].refs) <= 1
    /\ ~Adding(t) => local[t].refs = <<>>

LEMMA NothingBoundYet ==
  ASSUME Basics, OneAtATime, NEW t \in Threads, Adding(t), local[t].rest # <<>>
  PROVE  local[t].refs = <<>> /\ Len(local[t].rest) = 1 /\ Len(local[t].refs) = 0
<1>1. local[t].rest \in Seq(Names) /\ local[t].refs \in Seq(Names)
  BY DEF Basics, Typed, CallsTyped, Making
<1>2. Len(local[t].rest) \in Nat \ {0} /\ Len(local[t].refs) \in Nat
  BY <1>1, EmptySeq, LenProperties
<1>3. Len(local[t].rest) + Len(local[t].refs) <= 1
  BY DEF OneAtATime
<1>4. ASSUME NEW m \in Nat \ {0}, NEW n \in Nat, m + n <= 1
      PROVE  n = 0 /\ m = 1
  BY <1>4
<1>5. Len(local[t].refs) = 0 /\ Len(local[t].rest) = 1
  BY <1>2, <1>3, <1>4
<1>6. QED
  BY <1>1, <1>5, EmptySeq

\* What the one REF is bound to.
LEMMA BindRefIs ==
  ASSUME Basics, OneAtATime, NEW t \in Threads, BindRef(t)
  PROVE  /\ refMapping' = [refMapping EXCEPT ![NextRef(t)].id = call[t].id]
         /\ NextRef(t) \in DOMAIN refMapping /\ refMapping[NextRef(t)].id = 0
         /\ local'[t].rest = <<>> /\ local'[t].refs \in Seq(Names)
         /\ Len(local'[t].refs) = 1 /\ ToSet(local'[t].refs) = {NextRef(t)}
         /\ Adding(t) /\ Adding(t)' /\ UNCHANGED <<buffer, call, files>>
<1>1. /\ pc[t] = "refs" /\ pc' = [pc EXCEPT ![t] = "push"] /\ local[t].rest # <<>>
      /\ local' = [local EXCEPT ![t].refs = @ \o local[t].rest, ![t].rest = <<>>]
      /\ UNCHANGED <<buffer, call, files>>
  BY DEF BindRef, InRefs, Goto, bufferVars
<1>2. Adding(t) /\ Adding(t)'
  BY <1>1 DEF Adding, AddPlaces, Basics, Safe, Locks, ThreadTypes
<1>3. local[t].refs = <<>> /\ Len(local[t].rest) = 1
  BY <1>1, <1>2, NothingBoundYet
<1>4. local[t].rest \in Seq(Names)
  BY DEF Basics, Typed, CallsTyped, Making
<1>5. <<>> \o local[t].rest = local[t].rest
  BY <1>4, ConcatEmptySeq
<1>6. local'[t] = [rest |-> <<>>, refs |-> local[t].refs \o local[t].rest, gone |-> local[t].gone]
  BY <1>1, LocalRefs DEF Basics, Safe
<1>7. local'[t].rest = <<>> /\ local'[t].refs = local[t].rest
  BY <1>3, <1>5, <1>6
<1>8. DOMAIN local[t].rest = {1}
  BY <1>3, <1>4, LenProperties
<1>9. ToSet(local[t].rest) = {NextRef(t)}
  <2>1. NextRef(t) = local[t].rest[1]
    BY <1>3, <1>4 DEF NextRef
  <2>2. QED
    BY <1>8, <2>1 DEF ToSet
<1>10. /\ refMapping' = [refMapping EXCEPT ![NextRef(t)].id = call[t].id]
       /\ NextRef(t) \in DOMAIN refMapping /\ refMapping[NextRef(t)].id = 0
  BY DEF BindRef, InUse
<1>11. QED
  BY <1>1, <1>2, <1>3, <1>4, <1>7, <1>9, <1>10

LEMMA LoadFileIs ==
  ASSUME Basics, OneAtATime, NEW t \in Threads, LoadFile(t)
  PROVE  \E ref \in Names :
           /\ ref = GeneratedRef[refCounter + 1] /\ refCounter + 1 \in DOMAIN GeneratedRef
           /\ refCounter' = refCounter + 1
           /\ refMapping' = Emplaced(ref, call[t].id, NextRef(t))
           /\ local'[t].rest = <<>> /\ local'[t].refs \in Seq(Names)
           /\ Len(local'[t].refs) = 1 /\ ToSet(local'[t].refs) = {ref}
           /\ Adding(t) /\ Adding(t)' /\ UNCHANGED <<buffer, call>>
           /\ files' = files \ {NextRef(t)}
<1> DEFINE ref == GeneratedRef[refCounter + 1]
<1>1. /\ pc[t] = "refs" /\ UNCHANGED <<pc, call, buffer>> /\ local[t].rest # <<>>
      /\ local' = [local EXCEPT ![t].refs = Append(@, ref), ![t].rest = Tail(@)]
      /\ refCounter' = refCounter + 1 /\ refCounter < Len(GeneratedRef)
      /\ refMapping' = Emplaced(ref, call[t].id, NextRef(t))
      /\ files' = files \ {NextRef(t)}
  BY DEF LoadFile, InRefs, bufferVars
<1>2. Adding(t) /\ Adding(t)'
  BY <1>1 DEF Adding, AddPlaces
<1>3. local[t].refs = <<>> /\ Len(local[t].rest) = 1
  BY <1>1, <1>2, NothingBoundYet
<1>4. refCounter + 1 \in DOMAIN GeneratedRef
  BY <1>1, DataSourceAssumption, LenProperties DEF Basics, Typed, RefsTyped
<1>5. ref \in Names
  BY <1>4 DEF Names, ToSet
<1> HIDE DEF ref
<1>6. local[t].rest \in Seq(Names)
  BY DEF Basics, Typed, CallsTyped, Making
<1>7. Tail(local[t].rest) = <<>>
  <2>1. Tail(local[t].rest) \in Seq(Names) /\ Len(Tail(local[t].rest)) = 0
    BY <1>1, <1>3, <1>6, HeadTailProperties
  <2>2. QED
    BY <2>1, EmptySeq
<1> DEFINE a == Append(<<>>, ref)
<1>8. /\ a \in Seq(Names) /\ Len(a) = 1 /\ a[1] = ref /\ DOMAIN a = {1}
  <2>1. <<>> \in Seq(Names) /\ Len(<<>>) = 0
    BY EmptySeq
  <2>2. a \in Seq(Names) /\ Len(a) = Len(<<>>) + 1 /\ a[Len(<<>>) + 1] = ref
    BY <1>5, <2>1, AppendProperties
  <2>3. QED
    BY <2>1, <2>2, LenProperties
<1>9. local'[t] = [rest |-> Tail(local[t].rest), refs |-> Append(local[t].refs, ref),
                   gone |-> local[t].gone]
  BY <1>1, LocalRefs DEF Basics, Safe
<1>10. local'[t].rest = <<>> /\ local'[t].refs = a
  BY <1>3, <1>7, <1>9
<1> HIDE DEF a
<1>11. ToSet(a) = {ref}
  BY <1>8 DEF ToSet
<1>12. QED
  BY <1>1, <1>2, <1>4, <1>5, <1>8, <1>10, <1>11 DEF ref

\* An Add that throws before Push has bound nothing.
LEMMA RejectBoundNothing ==
  ASSUME Basics, OneAtATime, NEW t \in Threads, RejectRef(t) \/ LoadFileFails(t)
  PROVE  /\ local[t].refs = <<>> /\ Adding(t) /\ ~Adding(t)'
         /\ local'[t].refs = <<>>
         /\ UNCHANGED <<buffer, refMapping, files>>
<1>1. pc[t] = "refs" /\ local[t].rest # <<>> /\ Leave(t) /\ UNCHANGED <<buffer, refMapping, files>>
  BY DEF RejectRef, LoadFileFails, InRefs, bufferVars, refVars
<1>2. Adding(t)
  BY <1>1 DEF Adding, AddPlaces
<1>3. local[t].refs = <<>>
  BY <1>1, <1>2, NothingBoundYet
<1>4. pc'[t] = "ready" /\ local'[t].refs = <<>>
  BY <1>1 DEF Leave, NoLocal, Basics, Safe, Locks, ThreadTypes
<1>5. QED
  BY <1>1, <1>2, <1>3, <1>4 DEF Adding, AddPlaces

\* The ends of an Add that reached Push.
LEMMA AddEnds ==
  ASSUME Basics, NEW t \in Threads, Store(t) \/ Replace(t) \/ Cleanup(t)
  PROVE  Adding(t) /\ ~Adding(t)' /\ local'[t].refs = <<>>
<1>1. pc[t] \in {"room", "replace", "cleanup"} /\ Leave(t)
  BY DEF Store, Replace, Cleanup
<1>2. pc'[t] = "ready" /\ local'[t].refs = <<>>
  BY <1>1 DEF Leave, NoLocal, Basics, Safe, Locks, ThreadTypes
<1>3. QED
  BY <1>1, <1>2 DEF Adding, AddPlaces

LEMMA BeginAddIs ==
  ASSUME Basics, NEW t \in Threads, BeginAdd(t)
  PROVE  \E c \in todo[t] :
           /\ c.op = "Add" /\ c \in AddCalls /\ c \in Calls[t]
           /\ call'[t] = c /\ todo'[t] = todo[t] \ {c}
           /\ local'[t].rest = c.refs /\ local'[t].refs = local[t].refs
           /\ ~Adding(t) /\ Adding(t)' /\ UNCHANGED <<buffer, refVars>>
<1>1. PICK c \in todo[t] :
        /\ c.op = "Add" /\ pc[t] = "ready"
        /\ todo' = [todo EXCEPT ![t] = @ \ {c}]
        /\ call' = [call EXCEPT ![t] = c]
        /\ pc' = [pc EXCEPT ![t] = "refs"]
        /\ local' = [local EXCEPT ![t].rest = c.refs]
        /\ UNCHANGED <<buffer, refVars>>
  BY DEF BeginAdd, Ready, Enter, Take, bufferVars
<1>2. c \in Calls[t]
  BY DEF Basics, Typed, CallsTyped, Making
<1>3. c \in AddCalls
  BY <1>1, <1>2, CallsAreCalls DEF AddCalls
<1>4. local'[t].rest = c.refs /\ local'[t].refs = local[t].refs
  BY <1>1 DEF Basics, Safe, Locks, ThreadTypes
<1>5. call'[t] = c /\ todo'[t] = todo[t] \ {c} /\ pc'[t] = "refs"
  BY <1>1 DEF Basics, Safe, Locks, ThreadTypes, Typed, CallsTyped
<1>6. QED
  BY <1>1, <1>2, <1>3, <1>4, <1>5 DEF Adding, AddPlaces

\* The noisy steps of which nobody's Add takes notice.
LEMMA AddsGoOn ==
  ASSUME Basics, NEW t \in Threads,
         SetReference(t) \/ Discard(t) \/ Erase(t) \/ Clear(t) \/ Visit(t)
  PROVE  /\ Adding(t)' <=> Adding(t)
         /\ Adding(t) => call'[t] = call[t] /\ local'[t] = local[t]
         /\ local'[t].refs = local[t].refs \/ local'[t].refs = <<>>
<1> USE DEF Basics, Safe, Locks, ThreadTypes, Goto, Leave, NoLocal, Ready, Adding, AddPlaces
<1>1. CASE SetReference(t) \/ Visit(t)
  BY <1>1 DEF SetReference, Visit
<1>2. CASE Discard(t)
  BY <1>2 DEF Discard
<1>3. CASE Erase(t)
  BY <1>3 DEF Erase
<1>4. CASE Clear(t)
  BY <1>4 DEF Clear
<1>5. QED
  BY <1>1, <1>2, <1>3, <1>4

\* Every step of a thread is one of these.
LEMMA StepKinds ==
  ASSUME NEW u \in Threads, Noisy(u)
  PROVE  \/ BeginAdd(u)
         \/ BindRef(u)
         \/ LoadFile(u)
         \/ RejectRef(u) \/ LoadFileFails(u)
         \/ Store(u) \/ Replace(u) \/ Cleanup(u)
         \/ SetReference(u) \/ Discard(u) \/ Erase(u) \/ Clear(u) \/ Visit(u)
BY DEF Noisy, ChangesMembers, ChangesRefs

LEMMA NextKeepsOneAtATime ==
  ASSUME OneRefEach, Basics, OneAtATime, [Next]_vars
  PROVE  OneAtATime'
<1>1. CASE UNCHANGED vars
  BY <1>1 DEF vars, threadVars, OneAtATime, Adding
<1>2. ASSUME NEW u \in Threads, Begin(u) \/ Continue(u)
      PROVE  OneAtATime'
  <2> SUFFICES ASSUME NEW t \in Threads
               PROVE  /\ Adding(t)' => Len(local'[t].rest) + Len(local'[t].refs) <= 1
                      /\ ~Adding(t)' => local'[t].refs = <<>>
    BY DEF OneAtATime
  <2>1. CASE t # u
    BY <1>2, <2>1, OthersStay DEF OneAtATime, Adding, Basics, Safe
  <2>2. CASE t = u /\ ~Noisy(u)
    BY <1>2, <2>2, QuietSteps DEF OneAtATime, Basics, Safe
  <2>3. CASE t = u /\ BeginAdd(u)
    <3>1. PICK c \in AddCalls : /\ local'[u].rest = c.refs /\ local'[u].refs = local[u].refs
                                /\ ~Adding(u) /\ Adding(u)' /\ c \in Calls[u] /\ c.op = "Add"
      BY <2>3, BeginAddIs
    <3>2. Len(c.refs) <= 1 /\ Len(c.refs) \in Nat /\ Len(<<>>) = 0
      BY <3>1, CallsAreCalls, LenProperties, EmptySeq DEF OneRefEach
    <3>3. QED
      <4>1. local'[u].refs = <<>>
        BY <3>1 DEF OneAtATime
      <4>2. Len(local'[u].rest) + Len(local'[u].refs) <= 1
        BY <3>1, <3>2, <4>1
      <4>3. QED
        BY <2>3, <3>1, <4>2
  <2>4. CASE t = u /\ (BindRef(u) \/ LoadFile(u))
    <3>1. local'[u].rest = <<>> /\ Len(local'[u].refs) = 1 /\ Adding(u)'
      BY <2>4, BindRefIs, LoadFileIs
    <3>2. Len(<<>>) = 0
      BY EmptySeq
    <3>3. Len(local'[u].rest) + Len(local'[u].refs) <= 1
      BY <3>1, <3>2
    <3>4. QED
      BY <2>4, <3>1, <3>3
  <2>5. CASE t = u /\ (RejectRef(u) \/ LoadFileFails(u))
    BY <2>5, RejectBoundNothing
  <2>6. CASE t = u /\ (Store(u) \/ Replace(u) \/ Cleanup(u))
    BY <2>6, AddEnds
  <2>7. CASE t = u /\ (SetReference(u) \/ Discard(u) \/ Erase(u) \/ Clear(u) \/ Visit(u))
    BY <2>7, AddsGoOn DEF OneAtATime
  <2>8. QED
    BY <2>1, <2>2, <2>3, <2>4, <2>5, <2>6, <2>7, StepKinds
<1>3. QED
  BY <1>1, <1>2 DEF Next, Rest

-----------------------------------------------------------------------------
(* A reference in use belongs to an entry or to an Add that will store it  *)
(* or clean up.                                                            *)

InEntry(r) == \E e \in Entries : e.id = refMapping[r].id /\ r \in ToSet(e.refs)

InAdd(r) ==
  \E t \in Threads : Adding(t) /\ call[t].id = refMapping[r].id /\ r \in ToSet(local[t].refs)

Owned(r) == InEntry(r) \/ InAdd(r)

AllOwned == \A r \in DOMAIN refMapping : refMapping[r].id # 0 => Owned(r)

\* What has id, and nothing else, may be taken away.
EntriesGoOn(id) ==
  \A e \in Entries : e.id # id => \E f \in Entries' : f.id = e.id /\ f.refs = e.refs

\* An Add with another id goes on, has bound nothing, or has stored its entry.
AddsGoOnOrStore(id) ==
  \A t \in Threads : Adding(t) /\ call[t].id # id /\ local[t].refs # <<>> =>
    \/ Adding(t)' /\ call'[t] = call[t] /\ local'[t].refs = local[t].refs
    \/ \E f \in Entries' : f.id = call[t].id /\ f.refs = local[t].refs

LEMMA OwnedStays ==
  ASSUME NEW id, EntriesGoOn(id), AddsGoOnOrStore(id),
         NEW r, Owned(r), refMapping[r].id # id, refMapping'[r].id = refMapping[r].id
  PROVE  Owned(r)'
<1>1. CASE InEntry(r)
  BY <1>1 DEF InEntry, EntriesGoOn, Owned
<1>2. CASE InAdd(r)
  <2>1. PICK t \in Threads : /\ Adding(t) /\ call[t].id = refMapping[r].id
                             /\ r \in ToSet(local[t].refs)
    BY <1>2 DEF InAdd
  <2>2. local[t].refs # <<>>
    <3>1. DOMAIN <<>> = {}
      BY EmptySeq, LenProperties
    <3>2. QED
      BY <2>1, <3>1 DEF ToSet
  <2>3. CASE Adding(t)' /\ call'[t] = call[t] /\ local'[t].refs = local[t].refs
    BY <2>1, <2>3 DEF InAdd, Owned
  <2>4. CASE \E f \in Entries' : f.id = call[t].id /\ f.refs = local[t].refs
    BY <2>1, <2>4 DEF InEntry, Owned
  <2>5. QED
    BY <2>1, <2>2, <2>3, <2>4 DEF AddsGoOnOrStore
<1>3. QED
  BY <1>1, <1>2 DEF Owned

\* Erasing the references of an id leaves the others owned.
LEMMA EraseRefsKeepsOwned ==
  ASSUME AllOwned, NEW S, refMapping \in [DOMAIN refMapping -> S],
         NEW id, EraseRefs(RefsOf(id)), EntriesGoOn(id), AddsGoOnOrStore(id)
  PROVE  AllOwned'
<1> SUFFICES ASSUME NEW r \in DOMAIN refMapping', refMapping'[r].id # 0
             PROVE  Owned(r)'
  BY DEF AllOwned
<1>1. r \in DOMAIN refMapping /\ r \notin RefsOf(id) /\ refMapping'[r] = refMapping[r]
  BY EraseRefsIs
<1>2. refMapping[r].id # id
  BY <1>1 DEF RefsOf
<1>3. QED
  BY <1>1, <1>2, OwnedStays DEF AllOwned

\* A step that leaves the references and lets everything go on.
LEMMA NothingTakenKeepsOwned ==
  ASSUME AllOwned, UNCHANGED refMapping, NEW id, id = 0, EntriesGoOn(id), AddsGoOnOrStore(id)
  PROVE  AllOwned'
BY OwnedStays DEF AllOwned

\* emplace adds a name or nothing.
LEMMA EmplaceKeeps ==
  ASSUME NEW r, NEW id, NEW content, refMapping' = Emplaced(r, id, content)
  PROVE  /\ DOMAIN refMapping' = DOMAIN refMapping \cup {r}
         /\ \A n \in DOMAIN refMapping : refMapping'[n] = refMapping[n]
         /\ r \notin DOMAIN refMapping =>
              refMapping'[r].id = id /\ refMapping'[r].content = content
<1>1. CASE r \in DOMAIN refMapping
  BY <1>1 DEF Emplaced
<1>2. CASE r \notin DOMAIN refMapping
  BY <1>2 DEF Emplaced
<1>3. QED
  BY <1>1, <1>2

LEMMA NextKeepsOwned ==
  ASSUME Basics, OneAtATime, AllOwned, [Next]_vars
  PROVE  AllOwned'
<1>1. CASE UNCHANGED vars
  BY <1>1 DEF vars, bufferVars, refVars, threadVars, AllOwned, Owned, InEntry, InAdd, Adding,
              Entries
<1>2. ASSUME NEW u \in Threads, Begin(u) \/ Continue(u)
      PROVE  AllOwned'
  <2>1. refMapping \in [DOMAIN refMapping -> RefRecord]
    BY DEF Basics, Typed, RefsTyped
  <2>2. \A t \in Threads \ {u} :
          (Adding(t)' <=> Adding(t)) /\ call'[t] = call[t] /\ local'[t] = local[t]
    BY <1>2, OthersStay DEF Basics, Safe, Adding
  <2>3. ASSUME UNCHANGED buffer, NEW id
        PROVE  EntriesGoOn(id)
    BY <2>3 DEF EntriesGoOn, Entries
  <2>4. ASSUME NEW id,
               Adding(u) /\ call[u].id # id /\ local[u].refs # <<>> =>
                 \/ Adding(u)' /\ call'[u] = call[u] /\ local'[u].refs = local[u].refs
                 \/ \E f \in Entries' : f.id = call[u].id /\ f.refs = local[u].refs
        PROVE  AddsGoOnOrStore(id)
    BY <2>2, <2>4 DEF AddsGoOnOrStore
  <2>5. CASE ~Noisy(u)
    <3>1. UNCHANGED <<buffer, refMapping>> /\ (Adding(u) => Adding(u)' /\ UNCHANGED <<call, local>>)
      BY <1>2, <2>5, QuietSteps DEF Basics, Safe
    <3>2. QED
      BY <2>3, <2>4, <3>1, NothingTakenKeepsOwned
  <2>6. CASE BeginAdd(u)
    <3>1. UNCHANGED <<buffer, refMapping>> /\ ~Adding(u)
      BY <2>6, BeginAddIs DEF refVars
    <3>2. QED
      BY <2>3, <2>4, <3>1, NothingTakenKeepsOwned
  <2>7. CASE RejectRef(u) \/ LoadFileFails(u)
    <3>1. UNCHANGED <<buffer, refMapping>> /\ local[u].refs = <<>>
      BY <2>7, RejectBoundNothing
    <3>2. QED
      BY <2>3, <2>4, <3>1, NothingTakenKeepsOwned
  <2>8. CASE BindRef(u)
    <3>1. /\ refMapping' = [refMapping EXCEPT ![NextRef(u)].id = call[u].id]
          /\ NextRef(u) \in DOMAIN refMapping /\ refMapping[NextRef(u)].id = 0
          /\ ToSet(local'[u].refs) = {NextRef(u)} /\ Adding(u)'
          /\ UNCHANGED <<buffer, call>> /\ Adding(u)
      BY <2>8, BindRefIs
    <3>2. local[u].refs = <<>>
      BY <2>8, <3>1, NothingBoundYet DEF BindRef, InRefs
    <3>3. EntriesGoOn(0) /\ AddsGoOnOrStore(0)
      BY <2>3, <2>4, <3>1, <3>2
    <3>4. ASSUME NEW r \in DOMAIN refMapping', refMapping'[r].id # 0
          PROVE  Owned(r)'
      <4>1. CASE r = NextRef(u)
        <5>1. refMapping'[r].id = call'[u].id
          BY <2>1, <3>1, <4>1 DEF RefRecord
        <5>2. QED
          BY <3>1, <4>1, <5>1 DEF Owned, InAdd
      <4>2. CASE r # NextRef(u)
        <5>1. r \in DOMAIN refMapping /\ refMapping'[r] = refMapping[r]
          BY <3>1, <3>4, <4>2
        <5>2. QED
          BY <3>3, <3>4, <5>1, OwnedStays DEF AllOwned
      <4>3. QED
        BY <4>1, <4>2
    <3>5. QED
      BY <3>4 DEF AllOwned
  <2>9. CASE LoadFile(u)
    <3>1. PICK ref : /\ refMapping' = Emplaced(ref, call[u].id, NextRef(u))
                     /\ ToSet(local'[u].refs) = {ref} /\ Adding(u)'
                     /\ UNCHANGED <<buffer, call>> /\ Adding(u)
      BY <2>9, LoadFileIs
    <3>2. local[u].refs = <<>>
      BY <2>9, <3>1, NothingBoundYet DEF LoadFile, InRefs
    <3>3. EntriesGoOn(0) /\ AddsGoOnOrStore(0)
      BY <2>3, <2>4, <3>1, <3>2
    <3>5. /\ DOMAIN refMapping' = DOMAIN refMapping \cup {ref}
          /\ \A n \in DOMAIN refMapping : refMapping'[n] = refMapping[n]
          /\ ref \notin DOMAIN refMapping => refMapping'[ref].id = call[u].id
      BY <3>1, EmplaceKeeps
    <3>6. ASSUME NEW r \in DOMAIN refMapping', refMapping'[r].id # 0
          PROVE  Owned(r)'
      <4>1. CASE r \notin DOMAIN refMapping
        <5>1. r = ref /\ refMapping'[r].id = call'[u].id
          BY <3>1, <3>5, <4>1
        <5>2. QED
          BY <3>1, <5>1 DEF Owned, InAdd
      <4>2. CASE r \in DOMAIN refMapping
        <5>1. refMapping'[r] = refMapping[r]
          BY <3>5, <4>2
        <5>2. QED
          BY <3>3, <3>6, <4>2, <5>1, OwnedStays DEF AllOwned
      <4>3. QED
        BY <4>1, <4>2
    <3>7. QED
      BY <3>6 DEF AllOwned
  <2>10. CASE Store(u)
    <3>1. Entries' = Entries \cup {NewEntry(u)} /\ UNCHANGED refMapping
      BY <2>10, StoreIs DEF refVars
    <3>2. NewEntry(u).id = call[u].id /\ NewEntry(u).refs = local[u].refs
      BY DEF NewEntry
    <3>3. EntriesGoOn(0)
      BY <3>1 DEF EntriesGoOn
    <3>4. AddsGoOnOrStore(0)
      BY <2>4, <3>1, <3>2
    <3>5. QED
      BY <3>1, <3>3, <3>4, NothingTakenKeepsOwned
  <2>11. CASE Replace(u)
    <3>1. EraseRefs(RefsOf(call[u].id)) /\ Entries' = Others(call[u].id) \cup {NewEntry(u)}
      BY <2>11, ReplaceIs
    <3>2. EntriesGoOn(call[u].id) /\ AddsGoOnOrStore(call[u].id)
      BY <2>4, <3>1 DEF EntriesGoOn, Others
    <3>3. QED
      BY <2>1, <3>1, <3>2, EraseRefsKeepsOwned
  <2>12. CASE Cleanup(u)
    <3>1. EraseRefs(RefsOf(call[u].id)) /\ UNCHANGED buffer
      BY <2>12 DEF Cleanup, bufferVars
    <3>2. EntriesGoOn(call[u].id) /\ AddsGoOnOrStore(call[u].id)
      BY <2>3, <2>4, <3>1
    <3>3. QED
      BY <2>1, <3>1, <3>2, EraseRefsKeepsOwned
  <2>13. CASE SetReference(u)
    <3>1. PICK ref \in UserRefs : refMapping' = Emplaced(ref, 0, ref)
      BY <2>13, CallsAreCalls
         DEF SetReference, Ready, Basics, Typed, CallsTyped, Making, IsCall
    <3>3. /\ DOMAIN refMapping' = DOMAIN refMapping \cup {ref}
          /\ \A n \in DOMAIN refMapping : refMapping'[n] = refMapping[n]
          /\ ref \notin DOMAIN refMapping => refMapping'[ref].id = 0
      BY <3>1, EmplaceKeeps
    <3>4. UNCHANGED buffer /\ (Adding(u) => Adding(u)' /\ call'[u] = call[u] /\ local'[u] = local[u])
      BY <2>13, AddsGoOn DEF SetReference, bufferVars
    <3>5. EntriesGoOn(0) /\ AddsGoOnOrStore(0)
      BY <2>3, <2>4, <3>4
    <3>6. ASSUME NEW r \in DOMAIN refMapping', refMapping'[r].id # 0
          PROVE  Owned(r)'
      <4>1. r \in DOMAIN refMapping /\ refMapping'[r] = refMapping[r]
        BY <3>3, <3>6
      <4>2. QED
        BY <3>5, <3>6, <4>1, OwnedStays DEF AllOwned
    <3>7. QED
      BY <3>6 DEF AllOwned
  <2>14. CASE Discard(u)
    <3>1. PICK d : EraseRefs(RefsOf(d.id)) /\ Entries' = Others(d.id)
      BY <2>14, DiscardIs
    <3>2. Adding(u) => Adding(u)' /\ call'[u] = call[u] /\ local'[u] = local[u]
      BY <2>14, AddsGoOn
    <3>3. EntriesGoOn(d.id) /\ AddsGoOnOrStore(d.id)
      BY <2>4, <3>1, <3>2 DEF EntriesGoOn, Others
    <3>4. QED
      BY <2>1, <3>1, <3>3, EraseRefsKeepsOwned
  <2>15. CASE Erase(u)
    <3>1. EraseRefs(RefsOf(call[u].id)) /\ Entries' = Others(call[u].id)
      BY <2>15, EraseIs
    <3>2. Adding(u) => Adding(u)' /\ call'[u] = call[u] /\ local'[u] = local[u]
      BY <2>15, AddsGoOn
    <3>3. EntriesGoOn(call[u].id) /\ AddsGoOnOrStore(call[u].id)
      BY <2>4, <3>1, <3>2 DEF EntriesGoOn, Others
    <3>4. QED
      BY <2>1, <3>1, <3>3, EraseRefsKeepsOwned
  <2>16. CASE Clear(u)
    <3>1. EraseRefs(DOMAIN refMapping)
      BY <2>16 DEF Clear, AllRefs
    <3>2. DOMAIN refMapping' = {}
      BY <2>1, <3>1, EraseRefsIs
    <3>3. QED
      BY <3>2 DEF AllOwned
  <2>17. CASE Visit(u)
    <3>1. /\ \A e \in Entries : \E f \in Entries' : f.id = e.id /\ f.refs = e.refs
          /\ UNCHANGED refMapping
      BY <2>17, VisitIs DEF Same, refVars
    <3>2. Adding(u) => Adding(u)' /\ call'[u] = call[u] /\ local'[u] = local[u]
      BY <2>17, AddsGoOn
    <3>3. EntriesGoOn(0) /\ AddsGoOnOrStore(0)
      BY <2>4, <3>1, <3>2 DEF EntriesGoOn
    <3>4. QED
      BY <3>1, <3>3, NothingTakenKeepsOwned
  <2>18. QED
    BY <2>5, <2>6, <2>7, <2>8, <2>9, <2>10, <2>11, <2>12, <2>13, <2>14, <2>15, <2>16, <2>17,
       StepKinds
<1>3. QED
  BY <1>1, <1>2 DEF Next, Rest

LEMMA InitOwned == Init => OneAtATime /\ AllOwned
<1> SUFFICES ASSUME Init PROVE OneAtATime /\ AllOwned
  OBVIOUS
<1>1. OneAtATime
  BY DEF Init, OneAtATime, Adding, AddPlaces, NoLocal
<1>2. DOMAIN refMapping = {}
  BY EmptySeq, LenProperties DEF Init
<1>3. QED
  BY <1>1, <1>2 DEF AllOwned

\* No reference is left behind in use (data_source_internal.cpp:65, :82, :207),
\* whatever producers, consumers and resets do at once, if no data set has more
\* than one REF: with two, an Add that fails at the second one forgets the first.
THEOREM NoReferenceIsForgotten ==
  ASSUME OneRefEach
  PROVE  Spec => []NoOrphanRefs
<1>1. Basics /\ AllOwned => NoOrphanRefs
  <2> SUFFICES ASSUME Basics, AllOwned, NEW r \in DOMAIN refMapping, refMapping[r].id # 0
               PROVE  \/ \E e \in Entries : e.id = refMapping[r].id /\ r \in ToSet(e.refs)
                      \/ \E t \in Threads : call[t].op = "Add" /\ call[t].id = refMapping[r].id
    BY DEF NoOrphanRefs
  <2>1. CASE InEntry(r)
    BY <2>1 DEF InEntry
  <2>2. CASE InAdd(r)
    BY <2>2 DEF InAdd, Adding, Basics, Typed, CallsTyped, Making
  <2>3. QED
    BY <2>1, <2>2 DEF AllOwned, Owned
<1>2. Basics /\ OneAtATime /\ AllOwned /\ [Next]_vars => (OneAtATime /\ AllOwned)'
  BY NextKeepsOneAtATime, NextKeepsOwned
<1>3. QED
  BY <1>1, <1>2, InitOwned, BasicsAlways, PTL DEF Spec

-----------------------------------------------------------------------------
(* Within the limits of use: ids that come once, and no Reset.             *)

NoResetRuns == \A t \in Threads : pc[t] \notin {"resetList", "reset", "clear", "record"}

\* No Add has, or will have, the id of a stored data set.
IdsAreFresh ==
  \A e \in Entries : \A t \in Threads :
    /\ \A c \in todo[t] : c.op = "Add" => c.id # e.id
    /\ Adding(t) => call[t].id # e.id

\* The names that are still to be generated are free.
NamesAreFresh ==
  \A n \in DOMAIN GeneratedRef : n > refCounter => GeneratedRef[n] \notin DOMAIN refMapping

\* The REFs of an Add are in use by it.
BoundBy(t) ==
  \A r \in ToSet(local[t].refs) : r \in DOMAIN refMapping /\ refMapping[r].id = call[t].id

AddsBound == \A t \in Threads : Adding(t) => BoundBy(t)

WithinLimits ==
  Basics /\ OneAtATime /\ AllOwned /\ NoResetRuns /\ IdsAreFresh /\ NamesAreFresh
         /\ RefsResolve /\ AddsBound

\* The ids of the data sets that are added, or will be, differ, and are not 0.
LEMMA AddsApart ==
  ASSUME LimitsOfUse, Basics, NEW t \in Threads, Adding(t)
  PROVE  /\ call[t].id # 0
         /\ \A u \in Threads : Adding(u) /\ call[u].id = call[t].id => u = t
         /\ \A u \in Threads : \A c \in todo[u] : c.op = "Add" => c.id # call[t].id
<1>1. \A u \in Threads :
        /\ todo[u] \subseteq Calls[u]
        /\ Adding(u) => call[u] \in Calls[u] \ todo[u] /\ call[u].op = "Add"
  BY DEF Basics, Typed, CallsTyped, Making, Adding
<1>2. call[t] \in AddCalls
  BY <1>1, CallsAreCalls DEF AddCalls
<1>3. QED
  BY <1>1, <1>2 DEF LimitsOfUse

\* Nor are those of the stored ones.
LEMMA EntryIdNotZero ==
  ASSUME LimitsOfUse, Basics, NEW e \in Entries
  PROVE  e \in Entry /\ e.id # 0
<1>1. buffer \in Seq(Entry)
  BY DEF Basics, Typed, BufferTyped
<1>2. e \in Entry /\ e.id \in DataIds
  BY <1>1, EntryIds DEF Entries, ToSet
<1>3. QED
  BY <1>2 DEF DataIds, LimitsOfUse

LEMMA NextKeepsNoResetRuns ==
  ASSUME NoResetYet', Basics, NoResetRuns, [Next]_vars
  PROVE  NoResetRuns'
<1>1. CASE UNCHANGED vars
  BY <1>1 DEF NoResetRuns, vars, threadVars
<1>2. ASSUME NEW u \in Threads, Begin(u) \/ Continue(u)
      PROVE  NoResetRuns'
  <2>1. pc'[u] \notin {"resetList", "reset", "clear", "record"}
    <3> USE DEF Basics, Safe, Locks, ThreadTypes, Goto, Leave, Enter, EnterAny, NoResetRuns
    <3>1. CASE Begin(u)
      <4>1. ~BeginReset(u)
        <5>1. SUFFICES ASSUME BeginReset(u) PROVE FALSE
          OBVIOUS
        <5>2. PICK c \in todo[u] : c.op = "Reset" /\ todo' = [todo EXCEPT ![u] = @ \ {c}]
          BY <5>1 DEF BeginReset, Ready, Take
        <5>3. c \in Calls[u] /\ c \notin todo'[u]
          BY <5>2 DEF Typed, CallsTyped, Making
        <5>4. QED
          BY <5>2, <5>3 DEF NoResetYet
      <4>2. QED
        BY <3>1, <4>1 DEF Begin, BeginAdd, BeginDelete, BeginAcknowledgeReset, BeginShared,
              SetReference, AcknowledgeOverflow, GetReference, Visit
    <3>2. CASE Add(u)
      BY <3>2 DEF Add, BindRef, RejectRef, LoadFile, LoadFileFails, RefsDone, BeginPush,
              NoRoom, ReportDiscard, Discard, RefuseId, Store, ReportReplaced, Replace, Cleanup
    <3>3. CASE Delete(u)
      BY <3>3 DEF Delete, LockForDelete, NotFound, ReportFound, Erase
    <3>4. ~Reset(u)
      BY DEF Reset, LockResetList, LockForReset, NothingToReset, Clear, RecordReset
    <3>5. CASE Wait(u) \/ AcknowledgeReset(u) \/ Share(u) \/ EndIterate(u) \/ DropReference(u)
      BY <3>5 DEF Wait, AcknowledgeReset, Share, EndIterate, DropReference, threadVars
    <3>6. QED
      BY <1>2, <3>1, <3>2, <3>3, <3>4, <3>5 DEF Continue
  <2>2. QED
    BY <1>2, <2>1, OthersStay DEF NoResetRuns, Basics, Safe
<1>3. QED
  BY <1>1, <1>2 DEF Next, Rest

-----------------------------------------------------------------------------
(* Where entries and Adds come from. *)

\* An entry was there before, or is that of an Add that ends with it.
LEMMA EntriesCome ==
  ASSUME Basics, NEW u \in Threads, Begin(u) \/ Continue(u), NEW f \in Entries'
  PROVE  \/ \E e \in Entries : Same(e, f)
         \/ Adding(u) /\ ~Adding(u)' /\ f = NewEntry(u)
<1>1. CASE UNCHANGED buffer
  BY <1>1 DEF Entries, Same
<1>2. CASE Visit(u)
  BY <1>2, VisitIs
<1>3. CASE ChangesMembers(u)
  <2>1. CASE Discard(u)
    BY <2>1, DiscardIs DEF Others, Same
  <2>2. CASE Erase(u)
    BY <2>2, EraseIs DEF Others, Same
  <2>3. CASE Store(u)
    BY <2>3, StoreIs, AddEnds DEF Same
  <2>4. CASE Replace(u)
    BY <2>4, ReplaceIs, AddEnds DEF Others, Same
  <2>5. CASE Clear(u)
    <3>1. DOMAIN <<>> = {}
      BY EmptySeq, LenProperties
    <3>2. QED
      BY <2>5, <3>1 DEF Clear, Entries, ToSet
  <2>6. QED
    BY <1>3, <2>1, <2>2, <2>3, <2>4, <2>5 DEF ChangesMembers
<1>4. CASE ~ChangesMembers(u) /\ ~Visit(u)
  <2>1. CASE ~Noisy(u)
    BY <1>1, <2>1, QuietSteps DEF Basics, Safe
  <2>2. CASE Noisy(u)
    BY <1>1, <1>4, <2>2 DEF Noisy, ChangesMembers, ChangesRefs, BeginAdd, RejectRef, BindRef,
          LoadFile, LoadFileFails, Cleanup, SetReference, bufferVars
  <2>3. QED
    BY <2>1, <2>2
<1>5. QED
  BY <1>1, <1>2, <1>3, <1>4

\* An Add was there before, or is one of the calls that were still to be made.
LEMMA AddsCome ==
  ASSUME Basics, NEW u \in Threads, Begin(u) \/ Continue(u), NEW t \in Threads, Adding(t)'
  PROVE  \/ Adding(t) /\ call'[t] = call[t]
         \/ t = u /\ BeginAdd(u) /\ call'[t] \in todo[t] /\ call'[t].op = "Add"
<1>1. CASE t # u
  BY <1>1, OthersStay DEF Basics, Safe, Adding
<1>2. CASE t = u /\ ~Noisy(u)
  BY <1>2, QuietSteps DEF Basics, Safe
<1>3. CASE t = u /\ BeginAdd(u)
  BY <1>3, BeginAddIs
<1>4. CASE t = u /\ (BindRef(u) \/ LoadFile(u))
  <2>1. pc[u] = "refs" /\ UNCHANGED call
    BY <1>4 DEF BindRef, LoadFile, InRefs, Goto
  <2>2. QED
    BY <1>4, <2>1 DEF Adding, AddPlaces
<1>5. CASE t = u /\ (RejectRef(u) \/ LoadFileFails(u))
  <2>1. pc'[u] = "ready"
    BY <1>5 DEF RejectRef, LoadFileFails, Leave, Basics, Safe, Locks, ThreadTypes
  <2>2. QED
    BY <1>5, <2>1 DEF Adding, AddPlaces
<1>6. CASE t = u /\ (Store(u) \/ Replace(u) \/ Cleanup(u))
  BY <1>6, AddEnds
<1>7. CASE t = u /\ (SetReference(u) \/ Discard(u) \/ Erase(u) \/ Clear(u) \/ Visit(u))
  BY <1>7, AddsGoOn
<1>8. QED
  BY <1>1, <1>2, <1>3, <1>4, <1>5, <1>6, <1>7, StepKinds

LEMMA NextKeepsIdsAreFresh ==
  ASSUME LimitsOfUse, Basics, IdsAreFresh, [Next]_vars
  PROVE  IdsAreFresh'
<1>1. CASE UNCHANGED vars
  BY <1>1 DEF vars, bufferVars, threadVars, IdsAreFresh, Entries, Adding
<1>2. ASSUME NEW u \in Threads, Begin(u) \/ Continue(u)
      PROVE  IdsAreFresh'
  <2>1. \A t \in Threads : todo'[t] \subseteq todo[t]
    BY <1>2, StepsOfCalls DEF Basics, Safe, Typed
  <2>2. SUFFICES ASSUME NEW f \in Entries', NEW t \in Threads
                 PROVE  /\ \A c \in todo'[t] : c.op = "Add" => c.id # f.id
                        /\ Adding(t)' => call'[t].id # f.id
    BY DEF IdsAreFresh
  <2>3. \/ ~Adding(t)'
        \/ Adding(t) /\ call'[t] = call[t]
        \/ call'[t] \in todo[t] /\ call'[t].op = "Add"
    BY <1>2, AddsCome
  <2>4. CASE \E e \in Entries : Same(e, f)
    BY <2>1, <2>3, <2>4 DEF IdsAreFresh, Same
  <2>5. CASE Adding(u) /\ ~Adding(u)' /\ f = NewEntry(u)
    <3>1. f.id = call[u].id
      BY <2>5 DEF NewEntry
    <3>2. \A c \in todo[t] : c.op = "Add" => c.id # call[u].id
      BY <2>5, AddsApart
    <3>3. Adding(t) /\ Adding(t)' => call[t].id # call[u].id
      BY <2>5, AddsApart
    <3>4. QED
      BY <2>1, <2>3, <3>1, <3>2, <3>3
  <2>6. QED
    BY <1>2, <2>4, <2>5, EntriesCome
<1>3. QED
  BY <1>1, <1>2 DEF Next, Rest

\* A thread that adds finds no entry with its id.
LEMMA NothingToReplace ==
  ASSUME Basics, IdsAreFresh, NEW t \in Threads
  PROVE  ~Replace(t)
<1> SUFFICES ASSUME Replace(t) PROVE FALSE
  OBVIOUS
<1>1. PICK d \in Entries : d.id = call[t].id
  BY ReplaceIs
<1>2. Adding(t)
  BY DEF Replace, Adding, AddPlaces
<1>3. QED
  BY <1>1, <1>2 DEF IdsAreFresh

LEMMA NextKeepsNamesAreFresh ==
  ASSUME LimitsOfUse, Basics, OneAtATime, NamesAreFresh, [Next]_vars
  PROVE  NamesAreFresh'
<1>1. refCounter \in Nat /\ DOMAIN GeneratedRef \subseteq Nat
  BY LenProperties, DataSourceAssumption DEF Basics, Typed, RefsTyped
<1>2. ASSUME DOMAIN refMapping' \subseteq DOMAIN refMapping, refCounter' \in Nat,
             refCounter' >= refCounter
      PROVE  NamesAreFresh'
  BY <1>1, <1>2 DEF NamesAreFresh
<1>3. CASE UNCHANGED refVars
  BY <1>1, <1>2, <1>3 DEF refVars
<1>4. ASSUME NEW t \in Threads, GetReference(t) \/ DropReference(t),
             UNCHANGED <<refMapping, refCounter, files>>
      PROVE  NamesAreFresh'
  BY <1>1, <1>2, <1>4
<1>5. ASSUME NEW t \in Threads, Discard(t) \/ Replace(t) \/ Cleanup(t) \/ Erase(t) \/ Clear(t)
      PROVE  NamesAreFresh'
  <2>1. PICK names : EraseRefs(names)
    BY <1>5 DEF Discard, Replace, Cleanup, Erase, Clear
  <2>2. DOMAIN refMapping' \subseteq DOMAIN refMapping /\ UNCHANGED refCounter
    BY <2>1 DEF EraseRefs
  <2>3. QED
    BY <1>1, <1>2, <2>2
<1>6. ASSUME NEW t \in Threads, SetReference(t)
      PROVE  NamesAreFresh'
  <2>1. PICK r \in UserRefs : refMapping' = Emplaced(r, 0, r)
    BY <1>6, CallsAreCalls
       DEF SetReference, Ready, Basics, Typed, CallsTyped, Making, IsCall
  <2>2. DOMAIN refMapping' = DOMAIN refMapping \cup {r} /\ UNCHANGED refCounter
    BY <1>6, <2>1, EmplaceKeeps DEF SetReference
  <2>3. \A n \in DOMAIN GeneratedRef : GeneratedRef[n] # r
    BY <2>1 DEF LimitsOfUse, ToSet
  <2>4. QED
    BY <2>2, <2>3 DEF NamesAreFresh
<1>7. ASSUME NEW t \in Threads, BindRef(t)
      PROVE  NamesAreFresh'
  <2>1. DOMAIN refMapping' = DOMAIN refMapping /\ UNCHANGED refCounter
    BY <1>7 DEF BindRef
  <2>2. QED
    BY <2>1 DEF NamesAreFresh
<1>8. ASSUME NEW t \in Threads, LoadFile(t)
      PROVE  NamesAreFresh'
  <2>1. PICK r : /\ r = GeneratedRef[refCounter + 1] /\ refCounter + 1 \in DOMAIN GeneratedRef
                 /\ refCounter' = refCounter + 1
                 /\ refMapping' = Emplaced(r, call[t].id, NextRef(t))
    BY <1>8, LoadFileIs
  <2>2. DOMAIN refMapping' = DOMAIN refMapping \cup {r}
    BY <2>1, EmplaceKeeps
  <2>3. SUFFICES ASSUME NEW n \in DOMAIN GeneratedRef, n > refCounter + 1
                 PROVE  GeneratedRef[n] \notin DOMAIN refMapping'
    BY <2>1 DEF NamesAreFresh
  <2>4. n # refCounter + 1 /\ n > refCounter
    BY <1>1, <2>3
  <2>5. GeneratedRef[n] # r
    BY <2>1, <2>4 DEF LimitsOfUse
  <2>6. QED
    BY <2>2, <2>4, <2>5 DEF NamesAreFresh
<1>9. ASSUME NEW t \in Threads, LoadFileFails(t)
      PROVE  NamesAreFresh'
  <2>1. UNCHANGED refMapping /\ refCounter' = refCounter + 1
    BY <1>9 DEF LoadFileFails
  <2>2. QED
    BY <1>1, <1>2, <2>1
<1>10. QED
  BY <1>3, <1>4, <1>5, <1>6, <1>7, <1>8, <1>9, WhoChangesTheRefs DEF ChangesRefs

-----------------------------------------------------------------------------
(* The REFs of entries and of Adds stay bound.                             *)

\* What belongs to a data set with another id than gone stays as it is.
RefsGoOn(gone) ==
  \A r \in DOMAIN refMapping : refMapping[r].id \notin {0, gone} =>
    r \in DOMAIN refMapping' /\ refMapping'[r].id = refMapping[r].id

\* Where the entries after a step that erases the references of gone come from.
EntriesFrom(gone) ==
  \A f \in Entries' :
    \/ \E e \in Entries : Same(e, f) /\ e.id # gone
    \/ \E t \in Threads : Adding(t) /\ f = NewEntry(t) /\ call[t].id # gone

\* An Add goes on with another id, or what it has bound is in the mapping.
AddsFrom(gone) ==
  \A t \in Threads : Adding(t)' =>
    \/ /\ Adding(t) /\ call[t].id # gone
       /\ call'[t] = call[t] /\ local'[t].refs = local[t].refs
    \/ BoundBy(t)'

LEMMA BoundStays ==
  ASSUME LimitsOfUse, WithinLimits, NEW gone, RefsGoOn(gone), EntriesFrom(gone), AddsFrom(gone)
  PROVE  RefsResolve' /\ AddsBound'
<1>1. ASSUME NEW t \in Threads, Adding(t), call[t].id # gone, NEW r \in ToSet(local[t].refs)
      PROVE  r \in DOMAIN refMapping' /\ refMapping'[r].id = call[t].id
  <2>1. r \in DOMAIN refMapping /\ refMapping[r].id = call[t].id
    BY <1>1 DEF WithinLimits, AddsBound, BoundBy
  <2>2. call[t].id # 0
    BY <1>1, AddsApart DEF WithinLimits
  <2>3. QED
    BY <1>1, <2>1, <2>2 DEF RefsGoOn
<1>2. ASSUME NEW f \in Entries', NEW r \in ToSet(f.refs)
      PROVE  r \in DOMAIN refMapping' /\ refMapping'[r].id = f.id
  <2>1. CASE \E e \in Entries : Same(e, f) /\ e.id # gone
    <3>1. PICK e \in Entries : f.id = e.id /\ f.refs = e.refs /\ e.id # gone
      BY <2>1 DEF Same
    <3>2. r \in DOMAIN refMapping /\ refMapping[r].id = e.id
      BY <1>2, <3>1 DEF WithinLimits, RefsResolve
    <3>3. e.id # 0
      BY EntryIdNotZero DEF WithinLimits
    <3>4. QED
      BY <3>1, <3>2, <3>3 DEF RefsGoOn
  <2>2. CASE \E t \in Threads : Adding(t) /\ f = NewEntry(t) /\ call[t].id # gone
    <3>1. PICK t \in Threads : Adding(t) /\ f = NewEntry(t) /\ call[t].id # gone
      BY <2>2
    <3>2. f.id = call[t].id /\ f.refs = local[t].refs
      BY <3>1 DEF NewEntry
    <3>3. QED
      BY <1>1, <1>2, <3>1, <3>2
  <2>3. QED
    BY <2>1, <2>2 DEF EntriesFrom
<1>3. ASSUME NEW t \in Threads, Adding(t)'
      PROVE  BoundBy(t)'
  BY <1>1, <1>3 DEF AddsFrom, BoundBy
<1>4. QED
  BY <1>2, <1>3 DEF RefsResolve, AddsBound

\* Ids and refs of 0 are nobody's: nothing of a data set goes.
LEMMA NothingGoes ==
  ASSUME LimitsOfUse, WithinLimits,
         \A r \in DOMAIN refMapping : refMapping[r].id # 0 =>
           r \in DOMAIN refMapping' /\ refMapping'[r].id = refMapping[r].id,
         \A f \in Entries' :
           \/ \E e \in Entries : Same(e, f)
           \/ \E t \in Threads : Adding(t) /\ f = NewEntry(t),
         \A t \in Threads : Adding(t)' =>
           \/ Adding(t) /\ call'[t] = call[t] /\ local'[t].refs = local[t].refs
           \/ BoundBy(t)'
  PROVE  RefsResolve' /\ AddsBound'
<1>1. RefsGoOn(0)
  BY DEF RefsGoOn
<1>2. EntriesFrom(0)
  BY EntryIdNotZero, AddsApart DEF EntriesFrom, WithinLimits
<1>3. AddsFrom(0)
  BY AddsApart DEF AddsFrom, WithinLimits
<1>4. QED
  BY <1>1, <1>2, <1>3, BoundStays

\* The references of a data set that no Add has the id of are erased.
LEMMA ErasedKeepsBound ==
  ASSUME LimitsOfUse, WithinLimits, NEW gone,
         EraseRefs(RefsOf(gone)), Entries' = Others(gone),
         \A t \in Threads : Adding(t)' =>
           /\ Adding(t) /\ call[t].id # gone
           /\ call'[t] = call[t] /\ local'[t].refs = local[t].refs
  PROVE  RefsResolve' /\ AddsBound'
<1>1. RefsGoOn(gone)
  <2>1. refMapping \in [DOMAIN refMapping -> RefRecord]
    BY DEF WithinLimits, Basics, Typed, RefsTyped
  <2>2. /\ DOMAIN refMapping' = DOMAIN refMapping \ RefsOf(gone)
        /\ \A r \in DOMAIN refMapping' : refMapping'[r] = refMapping[r]
    BY <2>1, EraseRefsIs
  <2>3. QED
    BY <2>2 DEF RefsGoOn, RefsOf
<1>2. EntriesFrom(gone)
  BY DEF EntriesFrom, Others, Same
<1>3. AddsFrom(gone)
  BY DEF AddsFrom
<1>4. QED
  BY <1>1, <1>2, <1>3, BoundStays

LEMMA NextKeepsBound ==
  ASSUME LimitsOfUse, WithinLimits, [Next]_vars
  PROVE  RefsResolve' /\ AddsBound'
<1>1. CASE UNCHANGED vars
  BY <1>1 DEF vars, bufferVars, refVars, threadVars, WithinLimits, RefsResolve, AddsBound,
              BoundBy, Entries, Adding
<1>2. ASSUME NEW u \in Threads, Begin(u) \/ Continue(u)
      PROVE  RefsResolve' /\ AddsBound'
  <2> USE DEF WithinLimits
  <2>1. \A t \in Threads \ {u} :
          (Adding(t)' <=> Adding(t)) /\ call'[t] = call[t] /\ local'[t] = local[t]
    BY <1>2, OthersStay DEF Basics, Safe, Adding
  <2>2. ASSUME UNCHANGED buffer
        PROVE  \A f \in Entries' : \E e \in Entries : Same(e, f)
    BY <2>2 DEF Entries, Same
  <2>3. ASSUME Adding(u)' =>
                 \/ Adding(u) /\ call'[u] = call[u] /\ local'[u].refs = local[u].refs
                 \/ BoundBy(u)'
        PROVE  \A t \in Threads : Adding(t)' =>
                 \/ Adding(t) /\ call'[t] = call[t] /\ local'[t].refs = local[t].refs
                 \/ BoundBy(t)'
    BY <2>1, <2>3
  <2>4. CASE ~Noisy(u)
    <3>1. UNCHANGED <<buffer, refMapping>>
          /\ (Adding(u)' => Adding(u) /\ UNCHANGED <<call, local>>)
      BY <1>2, <2>4, QuietSteps DEF Basics, Safe
    <3>2. QED
      BY <2>2, <2>3, <3>1, NothingGoes
  <2>5. CASE BeginAdd(u)
    <3>1. UNCHANGED <<buffer, refMapping>> /\ ~Adding(u) /\ local'[u].refs = local[u].refs
      BY <2>5, BeginAddIs DEF refVars
    <3>2. local[u].refs = <<>>
      BY <3>1 DEF OneAtATime
    <3>3. BoundBy(u)'
      <4>1. DOMAIN <<>> = {}
        BY EmptySeq, LenProperties
      <4>2. QED
        BY <3>1, <3>2, <4>1 DEF BoundBy, ToSet
    <3>4. QED
      BY <2>2, <2>3, <3>1, <3>3, NothingGoes
  <2>6. CASE RejectRef(u) \/ LoadFileFails(u)
    <3>1. UNCHANGED <<buffer, refMapping>> /\ ~Adding(u)'
      BY <2>6, RejectBoundNothing
    <3>2. QED
      BY <2>2, <2>3, <3>1, NothingGoes
  <2>7. CASE BindRef(u)
    <3>1. /\ refMapping' = [refMapping EXCEPT ![NextRef(u)].id = call[u].id]
          /\ NextRef(u) \in DOMAIN refMapping /\ refMapping[NextRef(u)].id = 0
          /\ ToSet(local'[u].refs) = {NextRef(u)} /\ UNCHANGED <<buffer, call>>
      BY <2>7, BindRefIs
    <3>2. \A r \in DOMAIN refMapping : refMapping[r].id # 0 =>
            r \in DOMAIN refMapping' /\ refMapping'[r].id = refMapping[r].id
      BY <3>1
    <3>3. BoundBy(u)'
      <4>1. refMapping'[NextRef(u)].id = call'[u].id
        BY <3>1 DEF Basics, Typed, RefsTyped, RefRecord
      <4>2. QED
        BY <3>1, <4>1 DEF BoundBy
    <3>4. QED
      BY <2>2, <2>3, <3>1, <3>2, <3>3, NothingGoes
  <2>8. CASE LoadFile(u)
    <3>1. PICK ref : /\ ref = GeneratedRef[refCounter + 1] /\ refCounter + 1 \in DOMAIN GeneratedRef
                     /\ refMapping' = Emplaced(ref, call[u].id, NextRef(u))
                     /\ ToSet(local'[u].refs) = {ref} /\ UNCHANGED <<buffer, call>>
      BY <2>8, LoadFileIs
    <3>2. ref \notin DOMAIN refMapping
      <4>1. refCounter + 1 > refCounter
        BY DEF Basics, Typed, RefsTyped
      <4>2. QED
        BY <3>1, <4>1 DEF NamesAreFresh
    <3>3. /\ DOMAIN refMapping' = DOMAIN refMapping \cup {ref}
          /\ \A n \in DOMAIN refMapping : refMapping'[n] = refMapping[n]
          /\ refMapping'[ref].id = call[u].id
      BY <3>1, <3>2, EmplaceKeeps
    <3>4. BoundBy(u)'
      BY <3>1, <3>3 DEF BoundBy
    <3>5. QED
      BY <2>2, <2>3, <3>1, <3>3, <3>4, NothingGoes
  <2>9. CASE Store(u)
    <3>1. Entries' = Entries \cup {NewEntry(u)} /\ UNCHANGED refMapping
      BY <2>9, StoreIs DEF refVars
    <3>2. Adding(u) /\ ~Adding(u)'
      BY <2>9, AddEnds
    <3>3. QED
      BY <2>3, <3>1, <3>2, NothingGoes DEF Same
  <2>10. CASE Cleanup(u)
    <3>1. EraseRefs(RefsOf(call[u].id)) /\ UNCHANGED buffer /\ Adding(u) /\ ~Adding(u)'
      BY <2>10, AddEnds DEF Cleanup, bufferVars
    <3>2. Entries' = Others(call[u].id)
      BY <3>1 DEF IdsAreFresh, Others, Entries
    <3>3. \A t \in Threads : Adding(t)' => t # u /\ Adding(t) /\ call[t].id # call[u].id
      BY <2>1, <3>1, AddsApart
    <3>4. QED
      BY <2>1, <3>1, <3>2, <3>3, ErasedKeepsBound
  <2>11. CASE SetReference(u)
    <3>1. PICK ref : refMapping' = Emplaced(ref, 0, ref)
      BY <2>11 DEF SetReference
    <3>2. /\ DOMAIN refMapping' = DOMAIN refMapping \cup {ref}
          /\ \A n \in DOMAIN refMapping : refMapping'[n] = refMapping[n]
      BY <3>1, EmplaceKeeps
    <3>3. UNCHANGED buffer
      BY <2>11 DEF SetReference, bufferVars
    <3>4. Adding(u)' => Adding(u) /\ call'[u] = call[u] /\ local'[u] = local[u]
      BY <2>11, AddsGoOn
    <3>5. QED
      BY <2>2, <2>3, <3>2, <3>3, <3>4, NothingGoes
  <2>12. CASE Discard(u) \/ Erase(u)
    <3>1. PICK d \in Entries : EraseRefs(RefsOf(d.id)) /\ Entries' = Others(d.id)
      BY <2>12, DiscardIs, EraseIs
    <3>2. Adding(u)' => Adding(u) /\ call'[u] = call[u] /\ local'[u] = local[u]
      BY <2>12, AddsGoOn
    <3>3. \A t \in Threads : Adding(t) => call[t].id # d.id
      BY DEF IdsAreFresh
    <3>4. QED
      BY <2>1, <3>1, <3>2, <3>3, ErasedKeepsBound
  <2>13. ~Clear(u) /\ ~Replace(u)
    BY NothingToReplace DEF Clear, NoResetRuns
  <2>14. CASE Visit(u)
    <3>1. (\A f \in Entries' : \E e \in Entries : Same(e, f)) /\ UNCHANGED refMapping
      BY <2>14, VisitIs DEF refVars
    <3>2. Adding(u)' => Adding(u) /\ call'[u] = call[u] /\ local'[u] = local[u]
      BY <2>14, AddsGoOn
    <3>3. QED
      BY <2>3, <3>1, <3>2, NothingGoes
  <2>15. QED
    BY <2>4, <2>5, <2>6, <2>7, <2>8, <2>9, <2>10, <2>11, <2>12, <2>13, <2>14, StepKinds
<1>3. QED
  BY <1>1, <1>2 DEF Next, Rest

LEMMA InitWithinLimits == Init => WithinLimits
<1> SUFFICES ASSUME Init PROVE WithinLimits
  OBVIOUS
<1>1. buffer = <<>> /\ DOMAIN buffer = {} /\ refMapping = <<>> /\ DOMAIN refMapping = {}
  BY EmptySeq, LenProperties DEF Init
<1>2. Entries = {}
  BY <1>1 DEF Entries, ToSet
<1>3. Basics
  <2>1. IsBuffer(buffer)
    BY <1>1 DEF IsBuffer, ToSet
  <2>2. QED
    BY <1>1, <2>1, InitLocks, InitSections, InitLedger, InitTyped DEF Basics, Safe, IdsDiffer
<1>4. NoResetRuns /\ AddsBound
  BY DEF Init, NoResetRuns, AddsBound, Adding, AddPlaces
<1>5. IdsAreFresh /\ NamesAreFresh /\ RefsResolve
  BY <1>1, <1>2 DEF IdsAreFresh, NamesAreFresh, RefsResolve
<1>6. QED
  BY <1>3, <1>4, <1>5, InitOwned DEF WithinLimits

LEMMA NextKeepsWithinLimits ==
  ASSUME LimitsOfUse
  PROVE  WithinLimits /\ [Next]_vars => WithinLimits'
<1> SUFFICES ASSUME WithinLimits, [Next]_vars PROVE WithinLimits'
  OBVIOUS
<1>1. Basics'
  BY NextKeepsBasics DEF WithinLimits
<1>2. OneAtATime' /\ AllOwned'
  BY NextKeepsOneAtATime, NextKeepsOwned DEF WithinLimits, LimitsOfUse
<1>3. NoResetRuns'
  <2>1. NoResetYet'
    BY CallsAreCalls DEF LimitsOfUse, NobodyResets, NoResetYet
  <2>2. QED
    BY <2>1, NextKeepsNoResetRuns DEF WithinLimits
<1>4. IdsAreFresh' /\ NamesAreFresh'
  BY NextKeepsIdsAreFresh, NextKeepsNamesAreFresh DEF WithinLimits
<1>5. QED
  BY <1>1, <1>2, <1>3, <1>4, NextKeepsBound DEF WithinLimits

LEMMA WithinLimitsAlways ==
  ASSUME LimitsOfUse
  PROVE  Spec => []WithinLimits
<1>1. WithinLimits /\ [Next]_vars => WithinLimits'
  BY NextKeepsWithinLimits
<1>2. QED
  BY <1>1, InitWithinLimits, PTL DEF Spec

\* A consumer that reads an entry finds what its REFs name: no cleaning up by id
\* (data_source_internal.cpp:65, :82, :207) and no race of producers takes it
\* away, if ids come once, are not 0, come with one REF at most and nobody resets.
THEOREM StoredRefsResolve ==
  ASSUME LimitsOfUse
  PROVE  Spec => []RefsResolve
<1>1. WithinLimits => RefsResolve
  BY DEF WithinLimits
<1>2. QED
  BY <1>1, WithinLimitsAlways, PTL

\* Under the same limits no two stored data sets share a reference: the check at
\* data_source_internal.cpp:235 keeps the one that another data set has.
THEOREM StoredRefsAreOwn ==
  ASSUME LimitsOfUse
  PROVE  Spec => []NoSharedRefs
<1>1. WithinLimits => NoSharedRefs
  <2> SUFFICES ASSUME WithinLimits, NEW i \in DOMAIN buffer, NEW j \in DOMAIN buffer, i # j,
                      NEW r \in ToSet(buffer[i].refs), r \in ToSet(buffer[j].refs)
               PROVE  FALSE
    BY DEF NoSharedRefs
  <2>1. buffer[i] \in Entries /\ buffer[j] \in Entries
    BY DEF Entries, ToSet
  <2>2. buffer[i].id = buffer[j].id
    BY <2>1 DEF WithinLimits, RefsResolve
  <2>3. QED
    BY <2>2, OneHolds DEF WithinLimits, Basics, Typed, BufferTyped
<1>2. QED
  BY <1>1, WithinLimitsAlways, PTL

-----------------------------------------------------------------------------
(* What a consumer has looked up, and what was handed in. *)

\* Only an erased reference dangles.
LEMMA HeldSteps ==
  ASSUME Basics, [Next]_vars, \A u \in Threads : ~ChangesMembers(u),
         NEW t \in Threads, held[t] \in DOMAIN refMapping, held'[t] = Dangling
  PROVE  \E u \in Threads : Cleanup(u) /\ held[t] \in RefsOf(call[u].id)
<1>1. held \in [Threads -> Names \cup {NoRef, Dangling}] /\ DOMAIN refMapping \subseteq Names
      /\ Dangling \notin Names /\ Dangling # NoRef
  BY DataSourceAssumption DEF Basics, Typed, RefsTyped
<1>2. ~UNCHANGED held
  BY <1>1
<1>3. ASSUME NEW u \in Threads
      PROVE  ~SetReference(u) /\ ~BindRef(u) /\ ~LoadFile(u) /\ ~LoadFileFails(u)
  BY <1>2 DEF SetReference, BindRef, LoadFile, LoadFileFails
<1>4. ASSUME NEW u \in Threads, Cleanup(u)
      PROVE  held[t] \in RefsOf(call[u].id)
  <2>1. held'[t] = IF held[t] \in RefsOf(call[u].id) THEN Dangling ELSE held[t]
    BY <1>4 DEF Cleanup, EraseRefs
  <2>2. QED
    BY <1>1, <2>1
<1>5. ASSUME NEW u \in Threads, GetReference(u)
      PROVE  FALSE
  <2>1. PICK c : held' = [held EXCEPT ![u] = IF c.ref \in DOMAIN refMapping THEN c.ref ELSE NoRef]
    BY <1>5 DEF GetReference
  <2>2. QED
    BY <1>1, <2>1
<1>6. ASSUME NEW u \in Threads
      PROVE  ~DropReference(u)
  BY <1>1 DEF DropReference
<1>7. QED
  BY <1>2, <1>3, <1>4, <1>5, <1>6, WhoChangesTheRefs DEF refVars, ChangesRefs, ChangesMembers

\* types.hpp:24 and data_source_internal.cpp:82: the reference that a consumer has
\* looked up for an entry it iterates over lives as long as it iterates, although
\* another mutex guards the mapping, within the limits of use.
THEOREM ReferencesLast ==
  ASSUME LimitsOfUse
  PROVE  Spec => ReferenceLastsInLoop
<1> DEFINE A == \A t \in readers : \A e \in Entries :
                  held[t] \in ToSet(e.refs) => held'[t] # Dangling
<1>1. ASSUME WithinLimits, [Next]_vars
      PROVE  [A]_vars
  <2>1. SUFFICES ASSUME NEW t \in readers, NEW e \in Entries, held[t] \in ToSet(e.refs),
                        held'[t] = Dangling, Next
                 PROVE  FALSE
    BY <1>1
  <2>2. held[t] \in DOMAIN refMapping /\ refMapping[held[t]].id = e.id
    BY <1>1, <2>1 DEF WithinLimits, RefsResolve
  <2>3. t \in Threads /\ owner = Nobody
    BY <1>1 DEF WithinLimits, Basics, Typed, Safe, Locks
  <2>4. \A u \in Threads : ~ChangesMembers(u)
    BY <1>1, <2>3, DataSourceAssumption
       DEF ChangesMembers, Discard, Store, Replace, Erase, Clear, InSection,
           WithinLimits, Basics, Safe, Locks
  <2>5. PICK u \in Threads : Cleanup(u) /\ held[t] \in RefsOf(call[u].id)
    BY <1>1, <2>1, <2>2, <2>3, <2>4, HeldSteps DEF WithinLimits
  <2>6. Adding(u) /\ call[u].id = e.id
    BY <2>2, <2>5 DEF Cleanup, RefsOf, Adding, AddPlaces
  <2>7. QED
    BY <1>1, <2>6 DEF WithinLimits, IdsAreFresh
<1>2. WithinLimits /\ [Next]_vars => [A]_vars
  BY <1>1
<1>3. QED
  BY <1>2, WithinLimitsAlways, PTL DEF Spec, ReferenceLastsInLoop

\* What no step but an erasing one does: something handed in is gone.
LEMMA WhatIsErased ==
  ASSUME WithinLimits, NEW u \in Threads, Begin(u) \/ Continue(u),
         NEW c \in Contents \ Contents'
  PROVE  /\ Cleanup(u) \/ Discard(u) \/ Erase(u)
         /\ \A id : EraseRefs(RefsOf(id)) =>
              \E r \in RefsOf(id) : refMapping[r].content = c
<1> USE DEF WithinLimits
<1>1. refMapping \in [DOMAIN refMapping -> RefRecord]
  BY DEF Basics, Typed, RefsTyped
<1>2. ~UNCHANGED <<refMapping, files>>
  BY DEF Contents
<1>3. ASSUME NEW r, NEW id, NEW content, refMapping' = Emplaced(r, id, content),
             files' = files \/ (files' = files \ {content} /\ r \notin DOMAIN refMapping)
      PROVE  FALSE
  <2>1. /\ DOMAIN refMapping' = DOMAIN refMapping \cup {r}
        /\ \A n \in DOMAIN refMapping : refMapping'[n] = refMapping[n]
        /\ r \notin DOMAIN refMapping => refMapping'[r].content = content
    BY <1>3, EmplaceKeeps
  <2>2. QED
    BY <1>3, <2>1 DEF Contents
<1>4. Cleanup(u) \/ Discard(u) \/ Erase(u)
  <2>1. CASE ~Noisy(u)
    BY <1>2, <2>1, QuietSteps DEF Basics, Safe
  <2>2. ~BeginAdd(u) /\ ~RejectRef(u) /\ ~LoadFileFails(u) /\ ~Store(u) /\ ~Visit(u)
    BY <1>2 DEF BeginAdd, RejectRef, LoadFileFails, Store, Visit, refVars
  <2>3. CASE SetReference(u)
    <3>1. PICK ref : refMapping' = Emplaced(ref, 0, ref) /\ UNCHANGED files
      BY <2>3 DEF SetReference
    <3>2. QED
      BY <1>3, <3>1
  <2>4. CASE BindRef(u)
    <3>1. refMapping' = [refMapping EXCEPT ![NextRef(u)].id = call[u].id] /\ UNCHANGED files
      BY <2>4 DEF BindRef
    <3>2. /\ DOMAIN refMapping' = DOMAIN refMapping
          /\ \A r \in DOMAIN refMapping : refMapping'[r].content = refMapping[r].content
      BY <1>1, <3>1 DEF RefRecord
    <3>3. QED
      BY <3>1, <3>2 DEF Contents
  <2>5. CASE LoadFile(u)
    <3>1. PICK ref : /\ ref = GeneratedRef[refCounter + 1] /\ refCounter + 1 \in DOMAIN GeneratedRef
                     /\ refMapping' = Emplaced(ref, call[u].id, NextRef(u))
                     /\ files' = files \ {NextRef(u)}
      BY <2>5, LoadFileIs
    <3>2. ref \notin DOMAIN refMapping
      <4>1. refCounter + 1 > refCounter
        BY DEF Basics, Typed, RefsTyped
      <4>2. QED
        BY <3>1, <4>1 DEF NamesAreFresh
    <3>3. QED
      BY <1>3, <3>1, <3>2
  <2>6. ~Clear(u) /\ ~Replace(u)
    BY NothingToReplace DEF Clear, NoResetRuns
  <2>7. QED
    BY <2>1, <2>2, <2>3, <2>4, <2>5, <2>6, StepKinds
<1>5. ASSUME NEW id, EraseRefs(RefsOf(id))
      PROVE  \E r \in RefsOf(id) : refMapping[r].content = c
  <2>1. /\ DOMAIN refMapping' = DOMAIN refMapping \ RefsOf(id)
        /\ \A r \in DOMAIN refMapping' : refMapping'[r] = refMapping[r]
        /\ UNCHANGED files
    BY <1>1, <1>5, EraseRefsIs
  <2>2. PICK r \in DOMAIN refMapping : refMapping[r].content = c
    BY <2>1 DEF Contents
  <2>3. r \in RefsOf(id)
    BY <2>1, <2>2 DEF Contents
  <2>4. QED
    BY <2>2, <2>3
<1>6. QED
  BY <1>4, <1>5

\* data_source_internal.cpp:65, :82, :207: within the limits of use, what was handed
\* in leaves with its data set, or with the Add that failed, and with nothing else.
THEOREM ContentsLeaveWithData ==
  ASSUME LimitsOfUse
  PROVE  Spec => ContentLeavesWithData
<1> DEFINE Why(c) ==
             \E r \in DOMAIN refMapping :
               /\ refMapping[r].content = c
               /\ \/ owner # Nobody /\ call[owner].op = "Reset"
                  \/ \E e \in Entries \ ToSet(buffer') :
                       e.id = refMapping[r].id /\ r \in ToSet(e.refs)
                  \/ \E t \in Threads :
                       /\ pc[t] = "cleanup" /\ pc'[t] # "cleanup"
                       /\ call[t].id = refMapping[r].id /\ r \in ToSet(local[t].refs)
           A == \A c \in Contents \ Contents' : Why(c)
<1>1. ASSUME WithinLimits, [Next]_vars
      PROVE  [A]_vars
  <2>1. SUFFICES ASSUME NEW u \in Threads, Begin(u) \/ Continue(u), NEW c \in Contents \ Contents'
                 PROVE  Why(c)
    BY <1>1 DEF Next, Rest
  <2>2. CASE Cleanup(u)
    <3>1. PICK r \in RefsOf(call[u].id) : refMapping[r].content = c
      BY <1>1, <2>1, <2>2, WhatIsErased DEF Cleanup
    <3>2. Adding(u) /\ pc[u] = "cleanup" /\ pc'[u] # "cleanup"
      BY <1>1, <2>2 DEF Cleanup, Adding, AddPlaces, Leave, WithinLimits, Basics, Safe, Locks,
                        ThreadTypes
    <3>3. r \in DOMAIN refMapping /\ refMapping[r].id = call[u].id /\ call[u].id # 0
      BY <1>1, <3>1, <3>2, AddsApart DEF RefsOf, WithinLimits
    <3>4. InAdd(r)
      BY <1>1, <3>2, <3>3 DEF WithinLimits, AllOwned, Owned, InEntry, IdsAreFresh
    <3>5. r \in ToSet(local[u].refs)
      BY <1>1, <3>2, <3>3, <3>4, AddsApart DEF InAdd, WithinLimits
    <3>6. QED
      BY <3>1, <3>2, <3>3, <3>5
  <2>3. CASE Discard(u) \/ Erase(u)
    <3>1. PICK d \in Entries : EraseRefs(RefsOf(d.id)) /\ Entries' = Others(d.id)
      BY <1>1, <2>3, DiscardIs, EraseIs DEF WithinLimits
    <3>2. PICK r \in RefsOf(d.id) : refMapping[r].content = c
      BY <1>1, <2>1, <3>1, WhatIsErased
    <3>3. r \in DOMAIN refMapping /\ refMapping[r].id = d.id /\ d.id # 0
      BY <1>1, <3>1, <3>2, EntryIdNotZero DEF RefsOf, WithinLimits
    <3>4. InEntry(r)
      BY <1>1, <3>1, <3>3 DEF WithinLimits, AllOwned, Owned, InAdd, IdsAreFresh
    <3>5. PICK e \in Entries : e.id = refMapping[r].id /\ r \in ToSet(e.refs)
      BY <3>4 DEF InEntry
    <3>6. e \notin ToSet(buffer')
      BY <3>1, <3>3, <3>5 DEF Others, Entries
    <3>7. QED
      BY <3>2, <3>3, <3>5, <3>6
  <2>4. QED
    BY <1>1, <2>1, <2>2, <2>3, WhatIsErased
<1>2. WithinLimits /\ [Next]_vars => [A]_vars
  BY <1>1
<1>3. QED
  BY <1>2, WithinLimitsAlways, PTL DEF Spec, ContentLeavesWithData

-----------------------------------------------------------------------------
(* One thread deletes what it has read: its entries are still there, with  *)
(* their lock, as long as no Reset has begun.                              *)

Deleter(t) == \E c \in Calls[t] : c.op = "DeleteRead"
DeletesMore(t) == \E c \in todo[t] : c.op = "DeleteRead"
Deleting(t) == pc[t] \in DeletePlaces

Kept(s) == \E e \in Entries : e.id = s.id /\ e.data = s.data /\ e.locked

\* What the thread is deleting.
Doomed(t) == [id |-> call[t].id, data |-> call[t].data]

InHand(t) ==
  /\ DeletesMore(t) => \A s \in seen[t] : Kept(s)
  /\ Deleting(t) => /\ call[t].op = "DeleteRead" /\ Deleter(t)
                    /\ Kept(Doomed(t)) /\ Doomed(t) \notin seen[t]

AllInHand == NoResetRuns /\ \A t \in Threads : InHand(t)

ReadIsKept == Basics /\ (NoResetYet => AllInHand)

\* Nothing but Erase takes a locked entry away.
LEMMA KeptStays ==
  ASSUME Basics, NoResetRuns, NEW u \in Threads, Begin(u) \/ Continue(u),
         ~Erase(u), NEW s, Kept(s)
  PROVE  Kept(s)'
<1>1. PICK e \in Entries : e.id = s.id /\ e.data = s.data /\ e.locked
  BY DEF Kept
<1>2. ASSUME NEW d \in Entries, d.id = e.id
      PROVE  d = e
  BY <1>2, SameIdSameEntry DEF Basics, Typed, BufferTyped, Entries
<1>3. CASE Discard(u)
  <2>1. PICK d \in Entries : ~d.locked /\ Entries' = Others(d.id)
    BY <1>3, DiscardIs
  <2>2. e \in Entries'
    BY <1>1, <1>2, <2>1 DEF Others
  <2>3. QED
    BY <1>1, <2>2 DEF Kept
<1>4. CASE Store(u)
  BY <1>1, <1>4, StoreIs DEF Kept
<1>5. CASE Replace(u)
  <2>1. PICK d \in Entries : d.id = call[u].id /\ ~d.locked
    BY <1>5, ReplaceIs
  <2>2. e \in Entries'
    BY <1>1, <1>2, <1>5, <2>1, ReplaceIs DEF Others
  <2>3. QED
    BY <1>1, <2>2 DEF Kept
<1>6. ~Clear(u)
  BY DEF Clear, NoResetRuns
<1>7. CASE Visit(u)
  BY <1>1, <1>7, VisitIs DEF Kept, Same
<1>8. CASE ~ChangesMembers(u) /\ ~Visit(u)
  <2>1. UNCHANGED buffer
    <3>1. CASE ~Noisy(u)
      BY <3>1, QuietSteps DEF Basics, Safe
    <3>2. CASE Noisy(u)
      BY <1>8, <3>2 DEF Noisy, ChangesMembers, ChangesRefs, BeginAdd, RejectRef, BindRef,
            LoadFile, LoadFileFails, Cleanup, SetReference, bufferVars
    <3>3. QED
      BY <3>1, <3>2
  <2>2. QED
    BY <1>1, <2>1 DEF Kept, Entries
<1>9. QED
  BY <1>3, <1>4, <1>5, <1>6, <1>7, <1>8 DEF ChangesMembers

\* Who reads entries, and who gives up what it has read.
LEMMA SeenSteps ==
  ASSUME Basics, NEW u \in Threads, Begin(u) \/ Continue(u)
  PROVE  /\ ~Visit(u) /\ ~BeginDelete(u) => UNCHANGED seen
         /\ \A t \in Threads \ {u} : seen'[t] = seen[t]
<1> USE DEF Basics, Typed, CallsTyped, EnterAny
<1>1. CASE Begin(u)
  BY <1>1 DEF Begin, BeginAdd, BeginDelete, BeginReset, BeginAcknowledgeReset, BeginShared,
        SetReference, AcknowledgeOverflow, GetReference, Visit
<1>2. CASE Add(u)
  BY <1>2 DEF Add, BindRef, RejectRef, LoadFile, LoadFileFails, RefsDone, BeginPush, NoRoom,
        ReportDiscard, Discard, RefuseId, Store, ReportReplaced, Replace, Cleanup
<1>3. CASE Delete(u)
  BY <1>3 DEF Delete, LockForDelete, NotFound, ReportFound, Erase
<1>4. CASE Reset(u)
  BY <1>4 DEF Reset, LockResetList, LockForReset, NothingToReset, Clear, RecordReset
<1>5. CASE Wait(u) \/ AcknowledgeReset(u) \/ Share(u) \/ EndIterate(u) \/ DropReference(u)
  BY <1>5 DEF Wait, AcknowledgeReset, Share, EndIterate, DropReference, threadVars
<1>6. QED
  BY <1>1, <1>2, <1>3, <1>4, <1>5 DEF Continue

LEMMA VisitReads ==
  ASSUME Basics, NEW u \in Threads, Visit(u), NEW s \in seen'[u], s \notin seen[u]
  PROVE  \E e \in Entries' : e.id = s.id /\ e.data = s.data /\ e.locked
<1>1. PICK i \in DOMAIN buffer :
        /\ buffer' = [buffer EXCEPT ![i].locked = TRUE]
        /\ seen' = [seen EXCEPT ![u] = @ \cup {[id |-> buffer[i].id, data |-> buffer[i].data]}]
  BY DEF Visit
<1>2. s = [id |-> buffer[i].id, data |-> buffer[i].data]
  BY <1>1 DEF Basics, Typed, CallsTyped
<1>3. DOMAIN buffer' = DOMAIN buffer /\ buffer'[i].id = buffer[i].id /\ buffer'[i].data = buffer[i].data
  BY <1>1, LockIsBuffer DEF Basics, Safe
<1>4. buffer'[i].locked
  <2>1. buffer[i] \in Entry
    BY EntryIds DEF Basics, Typed, BufferTyped
  <2>2. buffer'[i] = [buffer[i] EXCEPT !.locked = TRUE]
    BY <1>1
  <2>3. QED
    BY <2>1, <2>2 DEF Entry
<1>5. QED
  BY <1>2, <1>3, <1>4 DEF Entries, ToSet

LEMMA BeginDeleteIs ==
  ASSUME OneDeleter, Basics, NEW u \in Threads, BeginDelete(u)
  PROVE  \E c \in todo[u] : \E s \in seen[u] :
           /\ c.op = "DeleteRead" /\ c \in Calls[u] /\ todo'[u] = todo[u] \ {c}
           /\ call'[u].op = "DeleteRead" /\ Doomed(u)' = s /\ seen'[u] = seen[u] \ {s}
<1> USE DEF Basics, Safe, Locks, ThreadTypes, Typed, CallsTyped
<1>1. \A c \in todo[u] : c \in Calls[u] /\ c.op # "Delete"
  BY CallsAreCalls DEF Making, OneDeleter
<1>2. PICK c \in todo[u], s \in seen[u] :
        /\ c.op = "DeleteRead" /\ todo' = [todo EXCEPT ![u] = @ \ {c}]
        /\ call' = [call EXCEPT ![u] = [op |-> "DeleteRead", id |-> s.id, data |-> s.data]]
        /\ seen' = [seen EXCEPT ![u] = @ \ {s}]
  BY <1>1 DEF BeginDelete, Ready, Take, Enter
<1>3. s = [id |-> s.id, data |-> s.data]
  BY DEF Seeable
<1>4. call'[u] = [op |-> "DeleteRead", id |-> s.id, data |-> s.data]
  BY <1>2
<1>5. call'[u].op = "DeleteRead" /\ Doomed(u)' = s
  BY <1>3, <1>4 DEF Doomed
<1>6. QED
  BY <1>1, <1>2, <1>5

\* A deletion goes on with what it has to delete, or begins.
LEMMA DeletesCome ==
  ASSUME Basics, NEW u \in Threads, Begin(u) \/ Continue(u), NEW t \in Threads, Deleting(t)'
  PROVE  \/ Deleting(t) /\ call'[t] = call[t] /\ seen'[t] = seen[t]
         \/ t = u /\ BeginDelete(u)
<1> USE DEF Basics, Safe, Locks, ThreadTypes, Typed, CallsTyped, Deleting, DeletePlaces
<1>1. CASE t # u
  <2>1. pc'[t] = pc[t] /\ call'[t] = call[t]
    BY <1>1, OthersStay
  <2>2. seen'[t] = seen[t]
    BY <1>1, SeenSteps
  <2>3. QED
    BY <2>1, <2>2
<1> USE DEF Goto, Leave, Enter, EnterAny, Ready
<1>2. CASE t = u /\ Begin(u) /\ ~BeginDelete(u)
  BY <1>2 DEF Begin, BeginAdd, BeginReset, BeginAcknowledgeReset, BeginShared,
        SetReference, AcknowledgeOverflow, GetReference, Visit
<1>3. CASE t = u /\ Add(u)
  BY <1>3 DEF Add, BindRef, RejectRef, LoadFile, LoadFileFails, RefsDone, BeginPush, NoRoom,
        ReportDiscard, Discard, RefuseId, Store, ReportReplaced, Replace, Cleanup, InRefs
<1>4. CASE t = u /\ Delete(u)
  BY <1>4 DEF Delete, LockForDelete, NotFound, ReportFound, Erase
<1>5. CASE t = u /\ Reset(u)
  BY <1>5 DEF Reset, LockResetList, LockForReset, NothingToReset, Clear, RecordReset
<1>6. CASE t = u /\ (AcknowledgeReset(u) \/ Share(u))
  BY <1>6 DEF AcknowledgeReset, Share
<1>7. CASE t = u /\ (Wait(u) \/ EndIterate(u) \/ DropReference(u))
  BY <1>7 DEF Wait, EndIterate, DropReference, threadVars
<1>8. QED
  BY <1>1, <1>2, <1>3, <1>4, <1>5, <1>6, <1>7 DEF Continue

LEMMA EraseKeepsInHand ==
  ASSUME OneDeleter, Basics, AllInHand, NEW u \in Threads, Erase(u), NEW t \in Threads
  PROVE  InHand(t)'
<1> USE DEF AllInHand
<1>1. /\ Deleting(u) /\ Deleter(u) /\ Kept(Doomed(u)) /\ Doomed(u) \notin seen[u]
  BY DEF InHand, Erase, Deleting, DeletePlaces
<1>2. UNCHANGED <<todo, seen>> /\ ~Deleting(u)'
  BY DEF Erase, Leave, Deleting, DeletePlaces, Basics, Safe, Locks, ThreadTypes
<1>3. CASE t # u
  <2>1. ~Deleter(t)
    BY <1>1, <1>3 DEF Deleter, OneDeleter
  <2>2. ~DeletesMore(t) /\ ~Deleting(t)
    BY <2>1 DEF InHand, DeletesMore, Deleter, Basics, Typed, CallsTyped, Making
  <2>3. pc'[t] = pc[t]
    BY <1>3, OthersStay DEF Continue, Delete, Basics, Safe
  <2>4. QED
    BY <1>2, <2>2, <2>3 DEF InHand, DeletesMore, Deleting
<1>4. CASE t = u
  <2>1. SUFFICES ASSUME DeletesMore(u), NEW s \in seen[u]
                 PROVE  Kept(s)'
    BY <1>2, <1>4 DEF InHand, DeletesMore
  <2>2. PICK d \in Entries : d.id = call[u].id /\ d.data = call[u].data
    BY <1>1, <2>1 DEF Kept, Doomed
  <2>3. PICK e \in Entries : e.id = s.id /\ e.data = s.data /\ e.locked
    BY <1>1, <2>1 DEF Kept, InHand
  <2>4. e.id # call[u].id
    <3>1. SUFFICES ASSUME e.id = call[u].id PROVE FALSE
      OBVIOUS
    <3>2. d = e
      BY <2>2, <3>1, SameIdSameEntry DEF Basics, Typed, BufferTyped, Entries
    <3>3. s = [id |-> s.id, data |-> s.data]
      BY DEF Seeable, Basics, Typed, CallsTyped
    <3>4. QED
      BY <1>1, <2>2, <2>3, <3>2, <3>3 DEF Doomed
  <2>5. e \in Entries'
    BY <2>4, EraseIs DEF Others
  <2>6. QED
    BY <2>3, <2>5 DEF Kept
<1>5. QED
  BY <1>3, <1>4

LEMMA NextKeepsReadIsKept ==
  ASSUME OneDeleter
  PROVE  ReadIsKept /\ [Next]_vars => ReadIsKept'
<1> SUFFICES ASSUME Basics, NoResetYet => AllInHand, [Next]_vars, NoResetYet'
             PROVE  AllInHand'
  BY NextKeepsBasics DEF ReadIsKept
<1>a. NoResetYet
  <2>1. CASE UNCHANGED todo
    BY <2>1 DEF NoResetYet
  <2>2. ASSUME NEW u \in Threads, Begin(u) \/ Continue(u)
        PROVE  \A t \in Threads : todo'[t] \subseteq todo[t]
    BY <2>2, StepsOfCalls DEF Basics, Safe, Typed
  <2>3. QED
    BY <2>1, <2>2 DEF NoResetYet, Next, Rest, vars, threadVars
<1> USE DEF AllInHand
<1>1. NoResetRuns'
  BY <1>a, NextKeepsNoResetRuns
<1>2. CASE UNCHANGED vars
  BY <1>a, <1>1, <1>2 DEF vars, bufferVars, resetVars, threadVars, InHand, DeletesMore, Deleting, Kept,
                    Doomed, Entries
<1>3. ASSUME NEW u \in Threads, Begin(u) \/ Continue(u), NEW t \in Threads
      PROVE  InHand(t)'
  <2>1. CASE Erase(u)
    BY <1>a, <2>1, EraseKeepsInHand
  <2>2. CASE ~Erase(u)
    <3>1. ASSUME NEW s, Kept(s)
          PROVE  Kept(s)'
      BY <1>a, <1>3, <2>2, <3>1, KeptStays
    <3>2. todo'[t] \subseteq todo[t]
      BY <1>3, StepsOfCalls DEF Basics, Safe, Typed
    <3>3. ASSUME DeletesMore(t)', NEW s \in seen'[t]
          PROVE  Kept(s)'
      <4>1. DeletesMore(t)
        BY <3>2, <3>3 DEF DeletesMore
      <4>2. CASE s \in seen[t]
        BY <1>a, <3>1, <4>1, <4>2 DEF InHand
      <4>3. CASE s \notin seen[t]
        <5>1. ~BeginDelete(u) \/ t # u
          BY <3>3, <4>3, BeginDeleteIs
        <5>2. Visit(u) /\ t = u
          BY <1>3, <3>3, <4>3, <5>1, SeenSteps
        <5>3. QED
          BY <3>3, <4>3, <5>2, VisitReads DEF Kept
      <4>4. QED
        BY <4>2, <4>3
    <3>4. ASSUME Deleting(t)'
          PROVE  /\ call'[t].op = "DeleteRead" /\ Deleter(t)
                 /\ Kept(Doomed(t))' /\ Doomed(t)' \notin seen'[t]
      <4>1. CASE Deleting(t) /\ call'[t] = call[t] /\ seen'[t] = seen[t]
        <5>1. Doomed(t)' = Doomed(t)
          BY <4>1 DEF Doomed
        <5>2. Kept(Doomed(t)) /\ Doomed(t) \notin seen[t] /\ call[t].op = "DeleteRead"
              /\ Deleter(t)
          BY <1>a, <4>1 DEF InHand
        <5>3. Kept(Doomed(t))'
          <6>1. PICK s : s = Doomed(t)
            OBVIOUS
          <6>2. Kept(s)'
            BY <3>1, <5>2, <6>1
          <6>3. QED
            BY <5>1, <6>1, <6>2 DEF Kept
        <5>4. QED
          BY <4>1, <5>1, <5>2, <5>3
      <4>2. CASE t = u /\ BeginDelete(u)
        <5>1. PICK c \in todo[t], s \in seen[t] :
                /\ c.op = "DeleteRead" /\ c \in Calls[t] /\ todo'[t] = todo[t] \ {c}
                /\ call'[t].op = "DeleteRead" /\ Doomed(t)' = s /\ seen'[t] = seen[t] \ {s}
          BY <4>2, BeginDeleteIs
        <5>2. Kept(s)
          BY <1>a, <5>1 DEF InHand, DeletesMore
        <5>3. Kept(s)'
          BY <3>1, <5>2
        <5>4. QED
          BY <5>1, <5>3 DEF Deleter, Kept
      <4>3. QED
        BY <1>3, <3>4, <4>1, <4>2, DeletesCome
    <3>5. QED
      BY <3>3, <3>4 DEF InHand
  <2>3. QED
    BY <2>1, <2>2
<1>4. QED
  BY <1>1, <1>2, <1>3 DEF Next, Rest

\* README.md:192 with include/types.hpp:24: a consumer deletes by id what it has read
\* (ring_buffer.cpp:80-99), and a deletion takes no other data set: the lock keeps the
\* data set that was read, and so its id, against every Add until it is deleted.
\* Nobody else deletes, and no Reset has begun.
THEOREM DeletionsHitWhatWasRead ==
  ASSUME OneDeleter
  PROVE  Spec => DeletesWhatItRead
<1> DEFINE A == NoResetYet /\ owner # Nobody /\ call[owner].op = "DeleteRead" =>
                  DataIn(buffer) \ DataIn(buffer') \subseteq {call[owner].data}
<1>1. ASSUME ReadIsKept, [Next]_vars
      PROVE  A
  <2> USE DEF ReadIsKept, AllInHand
  <2>1. SUFFICES ASSUME NoResetYet, owner # Nobody, call[owner].op = "DeleteRead",
                        NEW x \in DataIn(buffer) \ DataIn(buffer')
                 PROVE  x = call[owner].data
    OBVIOUS
  <2>2. PICK t \in Threads : ChangesMembers(t) /\ owner = t
    BY <1>1, <2>1, WhoChangesTheBuffer, VisitKeepsData DEF Basics, Safe
  <2>3. Erase(t)
    <3>1. pc[t] \notin AddPlaces
      BY <1>1, <2>1, <2>2 DEF Basics, Typed, CallsTyped, Making
    <3>2. pc[t] # "clear"
      BY <1>1, <2>1, <2>2 DEF Basics, Safe, Sections, FoundOut
    <3>3. QED
      BY <2>2, <3>1, <3>2 DEF ChangesMembers, Discard, Store, Replace, Clear, AddPlaces
  <2>4. Kept(Doomed(t))
    BY <1>1, <2>1, <2>3 DEF InHand, Erase, Deleting, DeletePlaces
  <2>5. PICK e \in Entries : e.id = call[t].id /\ e.data = call[t].data
    BY <2>1, <2>2, <2>4 DEF Kept, Doomed
  <2>6. PICK f \in Entries : x = f.data
    BY <2>1 DEF DataIn, Entries, ToSet
  <2>7. f \notin Entries'
    BY <2>1, <2>6 DEF DataIn, Entries, ToSet
  <2>8. f.id = call[t].id
    BY <1>1, <2>3, <2>7, EraseIs DEF Others
  <2>9. f = e
    BY <1>1, <2>5, <2>8, SameIdSameEntry DEF Basics, Typed, BufferTyped, Entries
  <2>10. QED
    BY <2>2, <2>5, <2>6, <2>9
<1>2. ReadIsKept /\ [Next]_vars => [A]_vars
  BY <1>1
<1>3. Init => ReadIsKept
  <2> SUFFICES ASSUME Init PROVE ReadIsKept
    OBVIOUS
  <2>1. Basics
    BY InitWithinLimits DEF WithinLimits
  <2>2. \A t \in Threads : pc[t] = "ready" /\ seen[t] = {}
    BY DEF Init
  <2>3. QED
    BY <2>1, <2>2 DEF ReadIsKept, AllInHand, NoResetRuns, InHand, Deleting, DeletePlaces
<1>4. QED
  BY <1>2, <1>3, NextKeepsReadIsKept, PTL DEF Spec, DeletesWhatItRead
=============================================================================
