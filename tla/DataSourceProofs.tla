-------------------------- MODULE DataSourceProofs --------------------------
(***************************************************************************)
(* What the mutexes of the data source achieve, for any number of threads, *)
(* any calls and any sizes.  The first invariant, Locks, says who is where *)
(* when a mutex is taken; from it follows who can change the buffer at     *)
(* all.                                                                    *)
(***************************************************************************)
EXTENDS DataSource, BufferQueueProofs

\* Places between locking the buffer's mutex and releasing it.
InSection == {"room", "discard", "replace", "search", "erase", "clear"}

\* Places between locking the mutex of the reset list and releasing it.
InReset == {"reset", "clear", "record"}

\* The variables of the threads are functions over them.
ThreadTypes ==
  /\ pc \in [Threads -> Places]
  /\ call = [t \in Threads |-> call[t]]
  /\ local = [t \in Threads |-> local[t]]
  /\ \A t \in Threads :
       local[t] = [rest |-> local[t].rest, refs |-> local[t].refs, gone |-> local[t].gone]

\* Whoever is inside a section has its mutex, and readers keep writers out.
Locks ==
  /\ ThreadTypes
  /\ owner \in Threads \cup {Nobody}
  /\ resetOwner \in Threads \cup {Nobody}
  /\ readers # {} => owner = Nobody
  /\ \A t \in Threads : owner = t <=> pc[t] \in InSection
  /\ \A t \in Threads : resetOwner = t <=> pc[t] \in InReset

-----------------------------------------------------------------------------
(* Every step keeps the locks. *)

LEMMA InitLocks == Init => Locks
BY DataSourceAssumption
   DEF Init, Locks, ThreadTypes, Places, NoCall, NoLocal, InSection, InReset

LEMMA BeginKeepsLocks ==
  ASSUME Locks, NEW t \in Threads, Begin(t)
  PROVE  Locks'
<1>1. CASE BeginAdd(t)
  <2>1. PICK c : /\ pc[t] = "ready"
                 /\ call' = [call EXCEPT ![t] = c]
                 /\ pc' = [pc EXCEPT ![t] = "refs"]
                 /\ local' = [local EXCEPT ![t].rest = c.refs]
    BY <1>1 DEF BeginAdd, Ready, Enter
  <2>2. UNCHANGED <<owner, readers, resetOwner>>
    BY <1>1 DEF BeginAdd, bufferVars, resetVars
  <2>3. ThreadTypes'
    BY <2>1 DEF Locks, ThreadTypes, Places
  <2>4. QED
    BY <2>1, <2>2, <2>3 DEF Locks, ThreadTypes, InSection, InReset
<1> USE DEF Locks, ThreadTypes, Places, InSection, InReset, Ready, Enter, EnterAny
<1>2. CASE BeginDelete(t)
  BY <1>2 DEF BeginDelete, bufferVars, resetVars
<1>3. CASE BeginReset(t) \/ BeginAcknowledgeReset(t) \/ BeginShared(t)
  BY <1>3 DEF BeginReset, BeginAcknowledgeReset, BeginShared, bufferVars, resetVars
<1>4. CASE SetReference(t)
  BY <1>4 DEF SetReference, bufferVars, resetVars
<1>5. CASE AcknowledgeOverflow(t)
  BY <1>5 DEF AcknowledgeOverflow, bufferVars, resetVars
<1>6. CASE GetReference(t)
  BY <1>6 DEF GetReference, bufferVars, resetVars
<1>7. CASE Visit(t)
  BY <1>7 DEF Visit, resetVars
<1>8. QED
  BY <1>1, <1>2, <1>3, <1>4, <1>5, <1>6, <1>7 DEF Begin

LEMMA AddKeepsLocks ==
  ASSUME Locks, NEW t \in Threads, Add(t)
  PROVE  Locks'
<1> USE DataSourceAssumption
    DEF Locks, ThreadTypes, Places, InSection, InReset, Goto, Leave, NoLocal, InRefs,
        Unlock, bufferVars, resetVars
<1>1. CASE BindRef(t)
  BY <1>1 DEF BindRef
<1>2. CASE RejectRef(t)
  BY <1>2 DEF RejectRef
<1>3. CASE LoadFile(t)
  BY <1>3 DEF LoadFile
<1>4. CASE LoadFileFails(t)
  BY <1>4 DEF LoadFileFails
<1>5. CASE RefsDone(t)
  BY <1>5 DEF RefsDone
<1>6. CASE BeginPush(t)
  BY <1>6 DEF BeginPush, LockForPush, Lock, CanLock
<1>7. CASE NoRoom(t)
  BY <1>7 DEF NoRoom
<1>8. CASE ReportDiscard(t)
  BY <1>8 DEF ReportDiscard, HoldForCallback
<1>9. CASE Discard(t)
  BY <1>9 DEF Discard
<1>10. CASE RefuseId(t)
  BY <1>10 DEF RefuseId
<1>11. CASE Store(t)
  BY <1>11 DEF Store
<1>12. CASE ReportReplaced(t)
  BY <1>12 DEF ReportReplaced
<1>13. CASE Replace(t)
  BY <1>13 DEF Replace
<1>14. CASE Cleanup(t)
  BY <1>14 DEF Cleanup
<1>15. QED
  BY <1>1, <1>2, <1>3, <1>4, <1>5, <1>6, <1>7, <1>8, <1>9, <1>10, <1>11, <1>12,
     <1>13, <1>14 DEF Add

LEMMA DeleteKeepsLocks ==
  ASSUME Locks, NEW t \in Threads, Delete(t)
  PROVE  Locks'
<1> USE DataSourceAssumption
    DEF Locks, ThreadTypes, Places, InSection, InReset, Goto, Leave, NoLocal,
        Unlock, bufferVars, resetVars
<1>1. CASE LockForDelete(t)
  BY <1>1 DEF LockForDelete, Lock, CanLock
<1>2. CASE NotFound(t)
  BY <1>2 DEF NotFound
<1>3. CASE ReportFound(t)
  BY <1>3 DEF ReportFound
<1>4. CASE Erase(t)
  BY <1>4 DEF Erase
<1>5. QED
  BY <1>1, <1>2, <1>3, <1>4 DEF Delete

LEMMA ResetKeepsLocks ==
  ASSUME Locks, NEW t \in Threads, Reset(t)
  PROVE  Locks'
<1> USE DataSourceAssumption
    DEF Locks, ThreadTypes, Places, InSection, InReset, Goto, Leave, NoLocal,
        Unlock, UnlockResetList, bufferVars, resetVars
<1>1. CASE LockResetList(t)
  BY <1>1 DEF LockResetList
<1>2. CASE LockForReset(t)
  BY <1>2 DEF LockForReset, Lock, CanLock
<1>3. CASE NothingToReset(t)
  BY <1>3 DEF NothingToReset
<1>4. CASE Clear(t)
  BY <1>4 DEF Clear
<1>5. CASE RecordReset(t)
  BY <1>5 DEF RecordReset
<1>6. QED
  BY <1>1, <1>2, <1>3, <1>4, <1>5 DEF Reset

LEMMA OthersKeepLocks ==
  ASSUME Locks, NEW t \in Threads,
         Wait(t) \/ AcknowledgeReset(t) \/ Share(t) \/ EndIterate(t) \/ DropReference(t)
  PROVE  Locks'
<1> USE DataSourceAssumption
    DEF Locks, ThreadTypes, Places, InSection, InReset, Leave, NoLocal,
        bufferVars, resetVars, threadVars
<1>1. CASE Wait(t)
  BY <1>1 DEF Wait
<1>2. CASE AcknowledgeReset(t)
  BY <1>2 DEF AcknowledgeReset
<1>3. CASE Share(t)
  BY <1>3 DEF Share, CanShare
<1>4. CASE EndIterate(t)
  BY <1>4 DEF EndIterate
<1>5. CASE DropReference(t)
  BY <1>5 DEF DropReference
<1>6. QED
  BY <1>1, <1>2, <1>3, <1>4, <1>5

LEMMA NextKeepsLocks == Locks /\ [Next]_vars => Locks'
<1> SUFFICES ASSUME Locks, [Next]_vars PROVE Locks'
  OBVIOUS
<1>1. ASSUME NEW t \in Threads, Begin(t)
      PROVE  Locks'
  BY <1>1, BeginKeepsLocks
<1>2. ASSUME NEW t \in Threads, Continue(t)
      PROVE  Locks'
  BY <1>2, AddKeepsLocks, DeleteKeepsLocks, ResetKeepsLocks, OthersKeepLocks DEF Continue
<1>3. ASSUME UNCHANGED vars
      PROVE  Locks'
  BY <1>3 DEF vars, bufferVars, resetVars, threadVars, Locks, ThreadTypes
<1>4. QED
  BY <1>1, <1>2, <1>3 DEF Next, Rest

\* The mutexes exclude each other as they should (ring_buffer.cpp:24, :82, :102,
\* data_source_internal.cpp:89): a thread inside a section has its mutex, and
\* while a consumer iterates no thread is inside a section of the buffer.
THEOREM LocksHold == Spec => []Locks
<1>1. QED
  BY InitLocks, NextKeepsLocks, PTL DEF Spec

-----------------------------------------------------------------------------
(* Who changes the buffer. *)

\* The steps that put a data set into the buffer or take one out.
ChangesMembers(t) ==
  Discard(t) \/ Store(t) \/ Replace(t) \/ Erase(t) \/ Clear(t)

\* All other steps of a thread leave the buffer as it is, but a consumer may
\* lock an entry.
LEMMA WhoChangesTheBuffer ==
  ASSUME Locks, [Next]_vars
  PROVE  \/ UNCHANGED buffer
         \/ \E t \in Threads : ChangesMembers(t) /\ owner = t
         \/ \E t \in Threads : Visit(t) /\ t \in readers
<1>1. ASSUME NEW t \in Threads, Begin(t), ~Visit(t)
      PROVE  UNCHANGED buffer
  BY <1>1 DEF Begin, BeginAdd, BeginDelete, BeginReset, BeginAcknowledgeReset, BeginShared,
              EnterAny, SetReference, AcknowledgeOverflow, GetReference, bufferVars
<1>2. ASSUME NEW t \in Threads, Add(t), ~ChangesMembers(t)
      PROVE  UNCHANGED buffer
  BY <1>2 DEF ChangesMembers, Add, BindRef, RejectRef, LoadFile, LoadFileFails, RefsDone,
              BeginPush, LockForPush, Lock, NoRoom, ReportDiscard, RefuseId,
              ReportReplaced, Cleanup, bufferVars
<1>3. ASSUME NEW t \in Threads, Delete(t) \/ Reset(t), ~ChangesMembers(t)
      PROVE  UNCHANGED buffer
  BY <1>3 DEF ChangesMembers, Delete, LockForDelete, Lock, NotFound, ReportFound,
              Reset, LockResetList, LockForReset, NothingToReset, RecordReset, bufferVars
<1>4. ASSUME NEW t \in Threads,
             Wait(t) \/ AcknowledgeReset(t) \/ Share(t) \/ EndIterate(t) \/ DropReference(t)
      PROVE  UNCHANGED buffer
  BY <1>4 DEF Wait, AcknowledgeReset, Share, EndIterate, DropReference, bufferVars
<1>5. ASSUME NEW t \in Threads, ChangesMembers(t)
      PROVE  owner = t
  BY <1>5 DEF ChangesMembers, Discard, Store, Replace, Erase, Clear, Locks, InSection
<1>6. ASSUME NEW t \in Threads, Visit(t)
      PROVE  t \in readers
  BY <1>6 DEF Visit
<1>7. ASSUME NEW t \in Threads, Begin(t) \/ Continue(t), ~ChangesMembers(t), ~Visit(t)
      PROVE  UNCHANGED buffer
  BY <1>1, <1>2, <1>3, <1>4, <1>7 DEF Continue
<1>8. ASSUME UNCHANGED vars
      PROVE  UNCHANGED buffer
  BY <1>8 DEF vars, bufferVars
<1>9. QED
  BY <1>5, <1>6, <1>7, <1>8 DEF Next, Rest

-----------------------------------------------------------------------------
(* The buffer is a deque of entries. *)

IsEntry(e) ==
  e \in [id : {e.id}, refs : {e.refs}, data : {e.data}, locked : BOOLEAN]

IsBuffer(buf) ==
  buf \in Seq(ToSet(buf)) /\ \A e \in ToSet(buf) : IsEntry(e)

\* A sequence is one of its own elements.
LEMMA SeqOfItsElements ==
  ASSUME NEW S, NEW s \in Seq(S)
  PROVE  s \in Seq(ToSet(s)) /\ ToSet(s) \subseteq S
<1>1. Len(s) \in Nat /\ DOMAIN s = 1..Len(s) /\ \A i \in 1..Len(s) : s[i] \in S
  BY LenProperties, ElementOfSeq
<1>2. \A i \in 1..Len(s) : s[i] \in ToSet(s)
  BY <1>1 DEF ToSet
<1>3. s \in [1..Len(s) -> ToSet(s)]
  BY <1>1, <1>2, SeqDef
<1>4. s \in Seq(ToSet(s))
  BY <1>1, <1>3, SeqDef
<1>5. QED
  BY <1>1, <1>4 DEF ToSet

LEMMA ElementsOfSeq ==
  ASSUME NEW S, NEW s \in Seq(S), \A e \in S : IsEntry(e)
  PROVE  IsBuffer(s)
BY SeqOfItsElements DEF IsBuffer

\* Erasing, appending and locking give a deque of entries again.
LEMMA EraseIsBuffer ==
  ASSUME NEW buf, IsBuffer(buf), NEW i \in 1..Len(buf)
  PROVE  IsBuffer(RemoveAt(buf, i))
BY RemoveAtProperties, ElementsOfSeq DEF IsBuffer

LEMMA AppendIsBuffer ==
  ASSUME NEW buf, IsBuffer(buf), NEW e, IsEntry(e)
  PROVE  IsBuffer(Append(buf, e))
<1> DEFINE S == ToSet(buf) \cup {e}
<1>1. buf \in Seq(S)
  BY SeqMonotonic DEF IsBuffer
<1>2. Append(buf, e) \in Seq(S)
  BY <1>1, AppendProperties
<1>3. \A x \in S : IsEntry(x)
  BY DEF IsBuffer
<1> HIDE DEF S
<1>4. QED
  BY <1>2, <1>3, ElementsOfSeq

LEMMA LockIsBuffer ==
  ASSUME NEW buf, IsBuffer(buf), NEW i \in DOMAIN buf
  PROVE  LET new == [buf EXCEPT ![i].locked = TRUE] IN
           /\ IsBuffer(new)
           /\ DOMAIN new = DOMAIN buf
           /\ \A j \in DOMAIN buf :
                /\ new[j].id = buf[j].id /\ new[j].refs = buf[j].refs
                /\ new[j].data = buf[j].data
                /\ buf[j].locked => new[j].locked
<1> DEFINE e == [buf[i] EXCEPT !.locked = TRUE]
           new == [buf EXCEPT ![i] = e]
           S == ToSet(buf) \cup {e}
<1>1. /\ Len(buf) \in Nat /\ DOMAIN buf = 1..Len(buf)
      /\ \A j \in DOMAIN buf : buf[j] \in ToSet(buf)
  BY LenProperties DEF IsBuffer, ToSet
<1>2. IsEntry(buf[i])
  BY <1>1 DEF IsBuffer
<1>3. /\ IsEntry(e) /\ e.locked
      /\ e.id = buf[i].id /\ e.refs = buf[i].refs /\ e.data = buf[i].data
  BY <1>2 DEF IsEntry
<1> HIDE DEF e
<1>4. buf \in Seq(S) /\ e \in S
  BY SeqMonotonic DEF IsBuffer
<1>5. new \in Seq(S)
  BY <1>1, <1>4, ExceptSeq
<1>6. \A x \in S : IsEntry(x)
  BY <1>3 DEF IsBuffer
<1>7. IsBuffer(new)
  <2> HIDE DEF new, S
  <2>1. QED
    BY <1>5, <1>6, ElementsOfSeq
<1>8. /\ DOMAIN new = DOMAIN buf
      /\ \A j \in DOMAIN buf : new[j] = IF j = i THEN e ELSE buf[j]
  OBVIOUS
<1>9. [buf EXCEPT ![i].locked = TRUE] = new
  BY DEF e
<1> HIDE DEF new
<1>10. QED
  BY <1>3, <1>7, <1>8, <1>9

-----------------------------------------------------------------------------
(* What a thread found out in a section still holds when it relies on it.  *)

FoundOut(t) ==
  /\ pc[t] = "discard" => Full(buffer) /\ AllowOverflow /\ Unlocked(buffer) # {}
  /\ pc[t] = "replace" => /\ ~Full(buffer) /\ Duplicate(buffer, call[t].id)
                          /\ ~buffer[FirstHolding(buffer, call[t].id)].locked
  /\ pc[t] = "erase" => Found(buffer, call[t].id) # {}
  /\ pc[t] \in {"delete", "search", "erase"} => call[t].op \in {"Delete", "DeleteRead"}
  /\ pc[t] \in {"resetList", "reset", "clear", "record"} => call[t].op = "Reset"

Sections == \A t \in Threads : FoundOut(t)

\* A step of one thread does not move another.
LEMMA OthersStay ==
  ASSUME Locks, NEW u \in Threads, Begin(u) \/ Continue(u), NEW t \in Threads, t # u
  PROVE  pc'[t] = pc[t] /\ call'[t] = call[t] /\ local'[t] = local[t]
<1> USE DEF Locks, ThreadTypes, Goto, Leave, Enter, EnterAny, threadVars
<1>1. CASE Begin(u)
  BY <1>1 DEF Begin, BeginAdd, BeginDelete, BeginReset, BeginAcknowledgeReset, BeginShared,
              SetReference, AcknowledgeOverflow, GetReference, Visit
<1>2. CASE Add(u)
  BY <1>2 DEF Add, BindRef, RejectRef, LoadFile, LoadFileFails, RefsDone, BeginPush, NoRoom,
              ReportDiscard, Discard, RefuseId, Store, ReportReplaced, Replace, Cleanup
<1>3. CASE Delete(u)
  BY <1>3 DEF Delete, LockForDelete, NotFound, ReportFound, Erase
<1>4. CASE Reset(u)
  BY <1>4 DEF Reset, LockResetList, LockForReset, NothingToReset, Clear, RecordReset
<1>5. CASE Wait(u) \/ AcknowledgeReset(u) \/ Share(u) \/ EndIterate(u) \/ DropReference(u)
  BY <1>5 DEF Wait, AcknowledgeReset, Share, EndIterate, DropReference
<1>6. QED
  BY <1>1, <1>2, <1>3, <1>4, <1>5 DEF Continue

LEMMA OwnStepFindsOut ==
  ASSUME Locks, NEW t \in Threads, FoundOut(t), Begin(t) \/ Continue(t)
  PROVE  FoundOut(t)'
<1> USE DEF Locks, ThreadTypes, FoundOut, Goto, Leave, Enter, EnterAny
<1>1. CASE Begin(t)
  <2> USE DEF Ready
  <2>1. CASE BeginDelete(t) \/ BeginReset(t)
    BY <2>1 DEF BeginDelete, BeginReset
  <2>2. CASE BeginAdd(t) \/ BeginAcknowledgeReset(t) \/ BeginShared(t)
    BY <2>2 DEF BeginAdd, BeginAcknowledgeReset, BeginShared
  <2>3. CASE SetReference(t) \/ AcknowledgeOverflow(t) \/ GetReference(t) \/ Visit(t)
    BY <2>3 DEF SetReference, AcknowledgeOverflow, GetReference, Visit
  <2>4. QED
    BY <1>1, <2>1, <2>2, <2>3 DEF Begin
<1>2. CASE Add(t)
  <2>1. CASE ReportDiscard(t)
    BY <2>1 DEF ReportDiscard
  <2>2. CASE ReportReplaced(t)
    BY <2>2 DEF ReportReplaced, bufferVars
  <2>3. CASE BindRef(t) \/ RejectRef(t) \/ LoadFile(t) \/ LoadFileFails(t) \/ RefsDone(t)
    BY <2>3 DEF BindRef, RejectRef, LoadFile, LoadFileFails, RefsDone, InRefs
  <2>4. CASE BeginPush(t) \/ NoRoom(t) \/ Discard(t) \/ RefuseId(t)
    BY <2>4 DEF BeginPush, NoRoom, Discard, RefuseId
  <2>5. CASE Store(t) \/ Replace(t) \/ Cleanup(t)
    BY <2>5 DEF Store, Replace, Cleanup
  <2>6. QED
    BY <1>2, <2>1, <2>2, <2>3, <2>4, <2>5 DEF Add
<1>3. CASE Delete(t)
  <2>1. CASE ReportFound(t)
    BY <2>1 DEF ReportFound, bufferVars
  <2>2. CASE LockForDelete(t) \/ NotFound(t) \/ Erase(t)
    BY <2>2 DEF LockForDelete, NotFound, Erase
  <2>3. QED
    BY <1>3, <2>1, <2>2 DEF Delete
<1>4. CASE Reset(t)
  BY <1>4 DEF Reset, LockResetList, LockForReset, NothingToReset, Clear, RecordReset
<1>5. CASE Wait(t)
  BY <1>5 DEF Wait, threadVars
<1>6. CASE AcknowledgeReset(t) \/ Share(t)
  BY <1>6 DEF AcknowledgeReset, Share
<1>7. CASE EndIterate(t) \/ DropReference(t)
  BY <1>7 DEF EndIterate, DropReference, bufferVars, threadVars
<1>8. QED
  BY <1>1, <1>2, <1>3, <1>4, <1>5, <1>6, <1>7 DEF Continue

\* While a thread is inside a section, no other one changes the buffer.
LEMMA SectionIsMine ==
  ASSUME Locks, [Next]_vars, NEW t \in Threads, pc[t] \in InSection,
         NEW u \in Threads, u # t, Begin(u) \/ Continue(u)
  PROVE  buffer' = buffer
<1>1. owner = t /\ t # Nobody /\ readers = {}
  BY DataSourceAssumption DEF Locks
<1>2. ASSUME ChangesMembers(t)
      PROVE  FALSE
  <2>1. pc[t] # pc'[t]
    BY <1>2 DEF ChangesMembers, Discard, Store, Replace, Erase, Clear, Goto, Leave,
                Locks, ThreadTypes
  <2>2. QED
    BY <2>1, OthersStay
<1>3. QED
  BY <1>1, <1>2, WhoChangesTheBuffer

LEMMA NextKeepsSections == Locks /\ Sections /\ [Next]_vars => Sections'
<1> SUFFICES ASSUME Locks, Sections, [Next]_vars, NEW t \in Threads
             PROVE  FoundOut(t)'
  BY DEF Sections
<1>1. FoundOut(t)
  BY DEF Sections
<1>2. CASE UNCHANGED vars
  BY <1>1, <1>2 DEF FoundOut, vars, bufferVars, threadVars
<1>3. CASE Begin(t) \/ Continue(t)
  BY <1>1, <1>3, OwnStepFindsOut
<1>4. ASSUME NEW u \in Threads, u # t, Begin(u) \/ Continue(u)
      PROVE  FoundOut(t)'
  <2>1. pc'[t] = pc[t] /\ call'[t] = call[t]
    BY <1>4, OthersStay
  <2>2. pc[t] \in InSection => buffer' = buffer
    BY <1>4, SectionIsMine
  <2>3. QED
    BY <1>1, <2>1, <2>2 DEF FoundOut, InSection
<1>5. QED
  BY <1>2, <1>3, <1>4 DEF Next, Rest

LEMMA InitSections == Init => Sections
BY DEF Init, Sections, FoundOut

-----------------------------------------------------------------------------
(* The data in the buffer. *)

\* Where the steps that take an entry out find it.
LEMMA TakenEntry ==
  ASSUME Locks, Sections, IsBuffer(buffer), NEW t \in Threads
  PROVE  /\ pc[t] = "discard" => /\ OldestUnlocked(buffer) \in 1..Len(buffer)
                                 /\ ~buffer[OldestUnlocked(buffer)].locked
         /\ pc[t] = "replace" => /\ FirstHolding(buffer, call[t].id) \in 1..Len(buffer)
                                 /\ ~buffer[FirstHolding(buffer, call[t].id)].locked
         /\ pc[t] = "erase" => /\ FirstHolding(buffer, call[t].id) \in 1..Len(buffer)
                               /\ buffer[FirstHolding(buffer, call[t].id)].id = call[t].id
BY OldestUnlockedIs, FirstHoldingIs DEF Sections, FoundOut, IsBuffer, Duplicate, Found

LEMMA NextKeepsBuffer == Locks /\ Sections /\ IsBuffer(buffer) /\ [Next]_vars => IsBuffer(buffer)'
<1> SUFFICES ASSUME Locks, Sections, IsBuffer(buffer), [Next]_vars
             PROVE  IsBuffer(buffer')
  OBVIOUS
<1>1. CASE UNCHANGED buffer
  BY <1>1
<1>2. ASSUME NEW t \in Threads, ChangesMembers(t)
      PROVE  IsBuffer(buffer')
  <2>1. IsEntry(NewEntry(t))
    BY DEF NewEntry, IsEntry
  <2>2. CASE Discard(t)
    BY <2>2, TakenEntry, EraseIsBuffer DEF Discard
  <2>3. CASE Store(t)
    BY <2>1, <2>3, AppendIsBuffer DEF Store
  <2>4. CASE Replace(t)
    BY <2>1, <2>4, TakenEntry, EraseIsBuffer, AppendIsBuffer DEF Replace
  <2>5. CASE Erase(t)
    BY <2>5, TakenEntry, EraseIsBuffer DEF Erase
  <2>6. CASE Clear(t)
    <3>1. IsBuffer(<<>>)
      BY DEF IsBuffer, ToSet
    <3>2. QED
      BY <2>6, <3>1 DEF Clear
  <2>7. QED
    BY <1>2, <2>2, <2>3, <2>4, <2>5, <2>6 DEF ChangesMembers
<1>3. ASSUME NEW t \in Threads, Visit(t)
      PROVE  IsBuffer(buffer')
  BY <1>3, LockIsBuffer DEF Visit
<1>4. QED
  BY <1>1, <1>2, <1>3, WhoChangesTheBuffer

Safe == Locks /\ Sections /\ IsBuffer(buffer)

LEMMA SafeAlways == Spec => []Safe
<1>1. Init => IsBuffer(buffer)
  BY DEF Init, IsBuffer, ToSet
<1>2. QED
  BY <1>1, InitLocks, InitSections, NextKeepsLocks, NextKeepsSections, NextKeepsBuffer, PTL
     DEF Spec, Safe

\* Locking an entry does not change the data in the buffer.
LEMMA VisitKeepsData ==
  ASSUME IsBuffer(buffer), NEW t \in Threads, Visit(t)
  PROVE  DataIn(buffer') = DataIn(buffer)
<1>1. PICK i \in DOMAIN buffer : buffer' = [buffer EXCEPT ![i].locked = TRUE]
  BY DEF Visit
<1>2. /\ DOMAIN buffer' = DOMAIN buffer
      /\ \A j \in DOMAIN buffer : buffer'[j].data = buffer[j].data
  BY <1>1, LockIsBuffer
<1>3. QED
  BY <1>2 DEF DataIn

\* GetBufferSharedMutex (i_data_source_out.hpp): between begin() and end() no
\* thread puts a data set into the buffer or takes one out.
THEOREM IterationsAreStable == Spec => IterationStable
<1>1. Safe /\ [Next]_vars => [readers # {} => DataIn(buffer') = DataIn(buffer)]_vars
  <2> SUFFICES ASSUME Safe, [Next]_vars, readers # {}
               PROVE  DataIn(buffer') = DataIn(buffer)
    OBVIOUS
  <2>1. owner = Nobody
    BY DEF Safe, Locks
  <2>2. UNCHANGED buffer \/ \E t \in Threads : Visit(t)
    BY <2>1, WhoChangesTheBuffer, DataSourceAssumption DEF Safe
  <2>3. QED
    BY <2>2, VisitKeepsData DEF Safe
<1>2. QED
  BY <1>1, SafeAlways, PTL DEF Spec, IterationStable

\* Data stays when the entry that is taken out is another one.
LEMMA OtherEntriesStay ==
  ASSUME IsBuffer(buffer), NEW i \in 1..Len(buffer), NEW k \in 1..Len(buffer), k # i
  PROVE  /\ buffer[k].data \in DataIn(RemoveAt(buffer, i))
         /\ \A e : buffer[k].data \in DataIn(Append(RemoveAt(buffer, i), e))
<1> DEFINE r == RemoveAt(buffer, i)
           S == ToSet(buffer)
<1>1. buffer \in Seq(S) /\ r \in Seq(S) /\ buffer[k] \in ToSet(r)
  BY EraseKeeps, RemoveAtProperties DEF IsBuffer
<1> HIDE DEF r
<1>2. PICK j \in DOMAIN r : r[j] = buffer[k]
  BY <1>1 DEF ToSet
<1>3. buffer[k].data \in DataIn(r)
  BY <1>2 DEF DataIn
<1>4. ASSUME NEW e
      PROVE  buffer[k].data \in DataIn(Append(r, e))
  <2>1. j \in DOMAIN Append(r, e) /\ Append(r, e)[j] = r[j]
    <3>1. r \in Seq(S \cup {e})
      BY <1>1, SeqMonotonic
    <3>2. QED
      BY <1>2, <3>1, AppendProperties, LenProperties
  <2>2. QED
    BY <1>2, <2>1 DEF DataIn
<1>5. QED
  BY <1>3, <1>4 DEF r

\* types.hpp:24: from the moment a consumer has locked an entry its data stays,
\* whatever producers add, until its id is deleted or the buffer is reset.
THEOREM LockedDataStays == Spec => LockedStays
<1> DEFINE Goes(e) == e.locked /\ e.data \notin DataIn(buffer')
           Asked(e) == \/ call[owner].op = "Reset"
                       \/ call[owner].op \in {"Delete", "DeleteRead"} /\ call[owner].id = e.id
<1>1. ASSUME Safe, [Next]_vars, NEW e \in Entries, Goes(e)
      PROVE  Asked(e)
  <2>1. IsBuffer(buffer) /\ Len(buffer) \in Nat /\ DOMAIN buffer = 1..Len(buffer)
    BY <1>1, LenProperties DEF Safe, IsBuffer
  <2>2. PICK k \in 1..Len(buffer) : e = buffer[k]
    BY <1>1, <2>1 DEF Entries, ToSet
  <2>3. e.data \in DataIn(buffer)
    BY <2>1, <2>2 DEF DataIn
  <2>4. PICK t \in Threads : ChangesMembers(t) /\ owner = t
    BY <1>1, <2>1, <2>3, WhoChangesTheBuffer, VisitKeepsData DEF Safe
  <2>5. CASE Discard(t)
    BY <1>1, <2>1, <2>2, <2>5, TakenEntry, OtherEntriesStay DEF Discard, Safe
  <2>6. CASE Store(t)
    <3>1. k \in DOMAIN buffer' /\ buffer'[k] = buffer[k]
      <4>1. buffer \in Seq(ToSet(buffer) \cup {NewEntry(t)})
        BY <2>1, SeqMonotonic DEF IsBuffer
      <4>2. QED
        BY <2>1, <2>6, <4>1, AppendProperties, LenProperties DEF Store
    <3>2. QED
      BY <1>1, <2>2, <3>1 DEF DataIn
  <2>7. CASE Replace(t)
    BY <1>1, <2>1, <2>2, <2>7, TakenEntry, OtherEntriesStay DEF Replace, Safe
  <2>8. CASE Erase(t)
    <3>1. k = FirstHolding(buffer, call[t].id)
      BY <1>1, <2>1, <2>2, <2>8, TakenEntry, OtherEntriesStay DEF Erase, Safe
    <3>2. call[t].op \in {"Delete", "DeleteRead"} /\ call[t].id = e.id
      BY <1>1, <2>1, <2>2, <2>8, <3>1, TakenEntry DEF Erase, Safe, Sections, FoundOut
    <3>3. QED
      BY <2>4, <3>2
  <2>9. CASE Clear(t)
    BY <1>1, <2>4, <2>9 DEF Clear, Safe, Sections, FoundOut
  <2>10. QED
    BY <2>4, <2>5, <2>6, <2>7, <2>8, <2>9 DEF ChangesMembers
<1>2. Safe /\ [Next]_vars => [\A e \in Entries : Goes(e) => Asked(e)]_vars
  BY <1>1
<1>3. QED
  BY <1>2, SafeAlways, PTL DEF Spec, LockedStays

-----------------------------------------------------------------------------
(* What became of the data that was lost. *)

IsReports(reports) ==
  /\ reports = [list |-> reports.list, exceeded |-> reports.exceeded]
  /\ reports.list \in Seq(ToSet(reports.list))
  /\ reports.exceeded \in BOOLEAN

\* A list takes a report, and keeps the others or says that it did not; only a
\* list of size 0 is empty after that.
LEMMA RecordedIs ==
  ASSUME NEW reports, IsReports(reports), NEW r, NEW size \in Nat
  PROVE  /\ IsReports(Recorded(reports, r, size))
         /\ reports.exceeded => Recorded(reports, r, size).exceeded
         /\ ~Recorded(reports, r, size).exceeded =>
              ToSet(Recorded(reports, r, size).list) = ToSet(reports.list) \cup {r}
         /\ size > 0 => Recorded(reports, r, size).list # <<>>
<1> DEFINE S == ToSet(reports.list) \cup {r}
           longer == Append(reports.list, r)
           rest == Tail(longer)
<1>1. reports.list \in Seq(S) /\ Len(reports.list) \in Nat
  BY SeqMonotonic, LenProperties DEF IsReports
<1>2. /\ longer \in Seq(S) /\ Len(longer) = Len(reports.list) + 1
      /\ ToSet(longer) = ToSet(reports.list) \cup {r}
  BY <1>1, AppendProperties, AppendKeeps
<1>3. rest \in Seq(S) /\ Len(rest) = Len(longer) - 1
  BY <1>1, <1>2, HeadTailProperties
<1> HIDE DEF longer
<1>4. ASSUME NEW s \in Seq(S)
      PROVE  s \in Seq(ToSet(s))
  BY <1>4, SeqOfItsElements
<1> HIDE DEF rest, S
<1>5. CASE Len(longer) > size
  <2>1. Recorded(reports, r, size) = [list |-> rest, exceeded |-> TRUE]
    BY <1>5 DEF Recorded, longer, rest
  <2>2. size > 0 => rest # <<>>
    BY <1>1, <1>2, <1>3, <1>5
  <2>3. QED
    BY <1>3, <1>4, <2>1, <2>2 DEF IsReports
<1>6. CASE ~(Len(longer) > size)
  <2>1. Recorded(reports, r, size) = [list |-> longer, exceeded |-> reports.exceeded]
    BY <1>6 DEF Recorded, longer, IsReports
  <2>2. longer # <<>>
    BY <1>1, <1>2
  <2>3. QED
    BY <1>2, <1>4, <2>1, <2>2 DEF IsReports
<1>7. QED
  BY <1>5, <1>6

\* Only the Reset that is about to report them has local data.
NothingGone == \A t \in Threads : pc[t] # "record" => local[t].gone = {}

InDeletionList == {r.data : r \in ToSet(deletionList.list)}
InResetList == UNION ToSet(resetList.list)

\* The data that the consumer was told of, or still can be.
Known == told \cup InResetList \cup InDeletionList

Exceeded == truncated \/ deletionList.exceeded \/ resetList.exceeded

\* What was lost is known or about to be reported; what is about to be
\* discarded is known already.
LossKnown ==
  /\ lost \subseteq Known \cup UNION {local[t].gone : t \in Threads}
  /\ \A t \in Threads :
       pc[t] = "discard" => buffer[OldestUnlocked(buffer)].data \in told \cup InDeletionList

Ledger ==
  /\ IsReports(resetList) /\ IsReports(deletionList)
  /\ NothingGone
  /\ Exceeded \/ LossKnown

\* The steps that touch a list of reports.
ChangesLists(t) ==
  \/ ReportDiscard(t) \/ ReportReplaced(t) \/ ReportFound(t) \/ RecordReset(t)
  \/ AcknowledgeReset(t) \/ AcknowledgeOverflow(t)

listVars == <<resetList, deletionList, told, truncated>>

LEMMA WhoChangesTheLists ==
  ASSUME [Next]_vars
  PROVE  UNCHANGED listVars \/ \E t \in Threads : ChangesLists(t)
<1> USE DEF listVars, resetVars, reportVars
<1>1. ASSUME NEW t \in Threads, Begin(t), ~ChangesLists(t)
      PROVE  UNCHANGED listVars
  BY <1>1 DEF ChangesLists, Begin, BeginAdd, BeginDelete, BeginReset, BeginAcknowledgeReset,
              BeginShared, EnterAny, SetReference, GetReference, Visit
<1>2. ASSUME NEW t \in Threads, Add(t), ~ChangesLists(t)
      PROVE  UNCHANGED listVars
  BY <1>2 DEF ChangesLists, Add, BindRef, RejectRef, LoadFile, LoadFileFails, RefsDone,
              BeginPush, NoRoom, Discard, RefuseId, Store, Replace, Cleanup
<1>3. ASSUME NEW t \in Threads, Delete(t) \/ Reset(t), ~ChangesLists(t)
      PROVE  UNCHANGED listVars
  BY <1>3 DEF ChangesLists, Delete, LockForDelete, NotFound, Erase, Reset, LockResetList,
              LockForReset, NothingToReset, Clear
<1>4. ASSUME NEW t \in Threads, Wait(t) \/ Share(t) \/ EndIterate(t) \/ DropReference(t)
      PROVE  UNCHANGED listVars
  BY <1>4 DEF Wait, Share, EndIterate, DropReference
<1>5. ASSUME NEW t \in Threads, Begin(t) \/ Continue(t), ~ChangesLists(t)
      PROVE  UNCHANGED listVars
  BY <1>1, <1>2, <1>3, <1>4, <1>5 DEF Continue, ChangesLists
<1>6. ASSUME UNCHANGED vars
      PROVE  UNCHANGED listVars
  BY <1>6 DEF vars
<1>7. QED
  BY <1>5, <1>6 DEF Next, Rest

\* What is known stays known, and what exceeded stays exceeded.
LEMMA KnownGrows ==
  ASSUME IsReports(resetList), IsReports(deletionList), [Next]_vars
  PROVE  /\ IsReports(resetList') /\ IsReports(deletionList')
         /\ Exceeded => Exceeded'
         /\ ~Exceeded' => /\ told \cup InDeletionList \subseteq told' \cup InDeletionList'
                          /\ Known \subseteq Known'
<1> DEFINE Goal == /\ IsReports(resetList') /\ IsReports(deletionList')
                   /\ Exceeded => Exceeded'
                   /\ ~Exceeded' =>
                        /\ told \cup InDeletionList \subseteq told' \cup InDeletionList'
                        /\ Known \subseteq Known'
<1> USE DEF Known, InDeletionList, InResetList, Exceeded, resetVars, reportVars
<1>1. CASE UNCHANGED listVars
  BY <1>1 DEF listVars
<1>2. ASSUME NEW t \in Threads, ReportDiscard(t) \/ ReportReplaced(t) \/ ReportFound(t)
      PROVE  Goal
  <2>1. PICK r : /\ deletionList' = Recorded(deletionList, r, DeletionInformationSize)
                 /\ UNCHANGED <<resetList, told, truncated>>
    BY <1>2 DEF ReportDiscard, ReportReplaced, ReportFound, ReportDeletion
  <2>2. /\ IsReports(deletionList')
        /\ deletionList.exceeded => deletionList'.exceeded
        /\ ~deletionList'.exceeded =>
             ToSet(deletionList.list) \subseteq ToSet(deletionList'.list)
    BY <2>1, RecordedIs, DataSourceAssumption
  <2>3. QED
    BY <2>1, <2>2
<1>3. ASSUME NEW t \in Threads, RecordReset(t)
      PROVE  Goal
  <2>1. /\ resetList' = Recorded(resetList, local[t].gone, ResetInformationSize)
        /\ UNCHANGED <<deletionList, told, truncated>>
    BY <1>3 DEF RecordReset
  <2>2. /\ IsReports(resetList')
        /\ resetList.exceeded => resetList'.exceeded
        /\ ~resetList'.exceeded => ToSet(resetList.list) \subseteq ToSet(resetList'.list)
    BY <2>1, RecordedIs, DataSourceAssumption
  <2>3. QED
    BY <2>1, <2>2
<1>4. IsReports(Empty)
  <2>1. <<>> \in Seq(ToSet(<<>>))
    OBVIOUS
  <2>2. QED
    BY <2>1 DEF IsReports, Empty
<1>5. ASSUME NEW t \in Threads, AcknowledgeReset(t)
      PROVE  Goal
  BY <1>4, <1>5 DEF AcknowledgeReset
<1>6. ASSUME NEW t \in Threads, AcknowledgeOverflow(t)
      PROVE  Goal
  BY <1>4, <1>6 DEF AcknowledgeOverflow
<1>7. QED
  BY <1>1, <1>2, <1>3, <1>5, <1>6, WhoChangesTheLists DEF ChangesLists

\* A Reset that is about to record its report stays there until it does.
LEMMA RecordWaits ==
  ASSUME Locks, [Next]_vars, NEW t \in Threads, pc[t] = "record", ~RecordReset(t)
  PROVE  pc'[t] = pc[t] /\ local'[t] = local[t]
<1>1. CASE UNCHANGED vars
  BY <1>1 DEF vars, threadVars
<1>2. ASSUME NEW u \in Threads, u # t, Begin(u) \/ Continue(u)
      PROVE  pc'[t] = pc[t] /\ local'[t] = local[t]
  BY <1>2, OthersStay
<1>3. CASE Begin(t)
  BY <1>3 DEF Begin, BeginAdd, BeginDelete, BeginReset, BeginAcknowledgeReset,
                    BeginShared, EnterAny, Ready, SetReference, AcknowledgeOverflow,
                    GetReference, Visit
<1>4. CASE Continue(t)
  <2>1. ~Add(t)
    BY DEF Add, BindRef, RejectRef, LoadFile, LoadFileFails, InRefs, RefsDone,
           BeginPush, NoRoom, ReportDiscard, Discard, RefuseId, Store,
           ReportReplaced, Replace, Cleanup
  <2>2. ~Delete(t) /\ ~Reset(t)
    BY DEF Delete, LockForDelete, NotFound, ReportFound, Erase,
           Reset, LockResetList, LockForReset, NothingToReset, Clear
  <2>3. Wait(t) \/ EndIterate(t) \/ DropReference(t)
    BY <1>4, <2>1, <2>2 DEF Continue, AcknowledgeReset, Share
  <2>4. QED
    BY <2>3 DEF Wait, EndIterate, DropReference, threadVars
<1>5. QED
  BY <1>1, <1>2, <1>3, <1>4 DEF Next, Rest

\* What a Reset has cleared stays with it until it is in the list.
LEMMA GoneIsKnown ==
  ASSUME Locks, IsReports(resetList), NothingGone, [Next]_vars, NEW t \in Threads,
         ~Exceeded'
  PROVE  local[t].gone \subseteq InResetList' \cup local'[t].gone
<1>1. CASE pc[t] # "record"
  BY <1>1 DEF NothingGone
<1>2. CASE RecordReset(t)
  <2>1. local[t].gone \in ToSet(resetList'.list)
    BY <1>2, RecordedIs, DataSourceAssumption DEF RecordReset, Exceeded
  <2>2. QED
    BY <2>1 DEF InResetList
<1>3. CASE pc[t] = "record" /\ ~RecordReset(t)
  BY <1>3, RecordWaits
<1>4. QED
  BY <1>1, <1>2, <1>3

\* Only Clear leaves a thread with data to report.
LEMMA NextKeepsNothingGone ==
  ASSUME Locks, NothingGone, [Next]_vars
  PROVE  NothingGone'
<1> SUFFICES ASSUME NEW t \in Threads, pc'[t] # "record"
             PROVE  local'[t].gone = {}
  BY DEF NothingGone
<1> USE DEF Locks, ThreadTypes
<1>1. CASE UNCHANGED vars
  BY <1>1 DEF NothingGone, vars, threadVars
<1>2. ASSUME NEW u \in Threads, u # t, Begin(u) \/ Continue(u)
      PROVE  local'[t].gone = {}
  BY <1>2, OthersStay DEF NothingGone
<1>3. CASE Begin(t)
  BY <1>3 DEF Begin, BeginAdd, BeginDelete, BeginReset, BeginAcknowledgeReset,
              BeginShared, Enter, EnterAny, Ready, SetReference, AcknowledgeOverflow,
              GetReference, Visit, NothingGone
<1>4. CASE Add(t)
  <2> USE DEF NothingGone, Goto, Leave, NoLocal, InRefs
  <2>1. CASE BindRef(t)
    BY <2>1 DEF BindRef
  <2>2. CASE LoadFile(t)
    BY <2>2 DEF LoadFile
  <2>3. CASE RejectRef(t)
    BY <2>3 DEF RejectRef
  <2>4. CASE LoadFileFails(t)
    BY <2>4 DEF LoadFileFails
  <2>5. CASE RefsDone(t) \/ BeginPush(t) \/ NoRoom(t) \/ RefuseId(t)
    BY <2>5 DEF RefsDone, BeginPush, NoRoom, RefuseId
  <2>6. CASE ReportDiscard(t) \/ Discard(t) \/ ReportReplaced(t)
    BY <2>6 DEF ReportDiscard, Discard, ReportReplaced
  <2>7. CASE Store(t)
    BY <2>7 DEF Store
  <2>8. CASE Replace(t)
    BY <2>8 DEF Replace
  <2>9. CASE Cleanup(t)
    BY <2>9 DEF Cleanup
  <2>10. QED
    BY <1>4, <2>1, <2>2, <2>3, <2>4, <2>5, <2>6, <2>7, <2>8, <2>9 DEF Add
<1>5. CASE Delete(t)
  <2> USE DEF NothingGone, Goto, Leave, NoLocal
  <2>1. CASE LockForDelete(t) \/ ReportFound(t)
    BY <2>1 DEF LockForDelete, ReportFound
  <2>2. CASE NotFound(t)
    BY <2>2 DEF NotFound
  <2>3. CASE Erase(t)
    BY <2>3 DEF Erase
  <2>4. QED
    BY <1>5, <2>1, <2>2, <2>3 DEF Delete
<1>6. CASE Reset(t)
  <2> USE DEF NothingGone, Goto, Leave, NoLocal
  <2>1. CASE LockResetList(t) \/ LockForReset(t)
    BY <2>1 DEF LockResetList, LockForReset
  <2>2. CASE NothingToReset(t)
    BY <2>2 DEF NothingToReset
  <2>3. CASE Clear(t)
    BY <2>3 DEF Clear
  <2>4. CASE RecordReset(t)
    BY <2>4 DEF RecordReset
  <2>5. QED
    BY <1>6, <2>1, <2>2, <2>3, <2>4 DEF Reset
<1>7. CASE Wait(t) \/ AcknowledgeReset(t) \/ Share(t) \/ EndIterate(t) \/ DropReference(t)
  BY <1>7 DEF NothingGone, Leave, NoLocal, Wait, AcknowledgeReset, Share, EndIterate,
              DropReference, threadVars
<1>8. QED
  BY <1>1, <1>2, <1>3, <1>4, <1>5, <1>6, <1>7 DEF Next, Rest, Continue

\* Data is lost by Discard and by Clear only.
LEMMA WhatIsLost ==
  ASSUME [Next]_vars
  PROVE  \/ UNCHANGED <<lost, cleared>>
         \/ \E t \in Threads : AcknowledgeReset(t) /\ UNCHANGED lost
         \/ \E t \in Threads :
              /\ Discard(t)
              /\ lost' = lost \cup {buffer[OldestUnlocked(buffer)].data}
              /\ UNCHANGED cleared
         \/ \E t \in Threads : Clear(t) /\ lost' = lost \cup DataIn(buffer)
<1> USE DEF resetVars
<1>1. ASSUME NEW t \in Threads, Begin(t)
      PROVE  UNCHANGED <<lost, cleared>>
  BY <1>1 DEF Begin, BeginAdd, BeginDelete, BeginReset, BeginAcknowledgeReset,
              BeginShared, EnterAny, SetReference, AcknowledgeOverflow, GetReference, Visit
<1>2. ASSUME NEW t \in Threads, Add(t), ~Discard(t)
      PROVE  UNCHANGED <<lost, cleared>>
  BY <1>2 DEF Add, BindRef, RejectRef, LoadFile, LoadFileFails, RefsDone, BeginPush, NoRoom,
              ReportDiscard, RefuseId, Store, ReportReplaced, Replace, Cleanup
<1>3. ASSUME NEW t \in Threads, Delete(t) \/ Reset(t), ~Clear(t)
      PROVE  UNCHANGED <<lost, cleared>>
  BY <1>3 DEF Delete, LockForDelete, NotFound, ReportFound, Erase, Reset, LockResetList,
              LockForReset, NothingToReset, RecordReset
<1>4. ASSUME NEW t \in Threads, Wait(t) \/ Share(t) \/ EndIterate(t) \/ DropReference(t)
      PROVE  UNCHANGED <<lost, cleared>>
  BY <1>4 DEF Wait, Share, EndIterate, DropReference
<1>5. ASSUME NEW t \in Threads, AcknowledgeReset(t)
      PROVE  UNCHANGED lost
  BY <1>5 DEF AcknowledgeReset
<1>6. ASSUME NEW t \in Threads, Discard(t)
      PROVE  lost' = lost \cup {buffer[OldestUnlocked(buffer)].data} /\ UNCHANGED cleared
  BY <1>6 DEF Discard
<1>7. ASSUME NEW t \in Threads, Clear(t)
      PROVE  lost' = lost \cup DataIn(buffer)
  BY <1>7 DEF Clear
<1>8. CASE UNCHANGED vars
  BY <1>8 DEF vars
<1>9. ASSUME NEW t \in Threads, Continue(t)
      PROVE  \/ UNCHANGED <<lost, cleared>>
             \/ AcknowledgeReset(t) \/ Discard(t) \/ Clear(t)
  BY <1>2, <1>3, <1>4, <1>9 DEF Continue
<1>10. QED
  BY <1>1, <1>5, <1>6, <1>7, <1>8, <1>9 DEF Next, Rest

\* A thread that is about to discard has reported the entry, or is where it was.
LEMMA DiscardIsKnown ==
  ASSUME Locks, Ledger, [Next]_vars, ~Exceeded', NEW t \in Threads, pc'[t] = "discard"
  PROVE  buffer'[OldestUnlocked(buffer')].data \in told' \cup InDeletionList'
<1>1. LossKnown
  BY KnownGrows DEF Ledger
<1>2. ASSUME pc[t] = "discard", buffer' = buffer
      PROVE  buffer'[OldestUnlocked(buffer')].data \in told' \cup InDeletionList'
  BY <1>1, <1>2, KnownGrows DEF Ledger, LossKnown
<1>3. CASE UNCHANGED vars
  BY <1>2, <1>3 DEF vars, bufferVars, threadVars
<1>4. ASSUME NEW u \in Threads, u # t, Begin(u) \/ Continue(u)
      PROVE  buffer'[OldestUnlocked(buffer')].data \in told' \cup InDeletionList'
  BY <1>2, <1>4, OthersStay, SectionIsMine DEF InSection
<1>5. CASE ReportDiscard(t)
  <2> DEFINE d == buffer[OldestUnlocked(buffer)].data
             r == [data |-> d, overflow |-> TRUE]
  <2>1. deletionList' = Recorded(deletionList, r, DeletionInformationSize) /\ buffer' = buffer
    BY <1>5 DEF ReportDiscard, ReportDeletion
  <2>2. r.data = d
    OBVIOUS
  <2> HIDE DEF r
  <2>3. r \in ToSet(deletionList'.list)
    BY <2>1, RecordedIs, DataSourceAssumption DEF Ledger, Exceeded
  <2>4. d \in InDeletionList'
    BY <2>2, <2>3 DEF InDeletionList
  <2>5. QED
    BY <2>1, <2>4
<1>6. CASE (Begin(t) \/ Continue(t)) /\ ~ReportDiscard(t)
  <2> USE DEF Locks, ThreadTypes
  <2>1. ~(pc'[t] # pc[t])
    <3>1. ASSUME Begin(t)
          PROVE  pc'[t] = pc[t]
      BY <3>1 DEF Begin, BeginAdd, BeginDelete, BeginReset, BeginAcknowledgeReset,
                  BeginShared, Enter, EnterAny, SetReference, AcknowledgeOverflow,
                  GetReference, Visit
    <3>2. ~Add(t) \/ LoadFile(t)
      BY <1>6 DEF Add, BindRef, RejectRef, LoadFileFails, RefsDone, BeginPush, NoRoom,
                  Discard, RefuseId, Store, ReportReplaced, Replace, Cleanup, Goto, Leave
    <3>3. ~Delete(t)
      BY DEF Delete, LockForDelete, NotFound, ReportFound, Erase, Goto, Leave
    <3>4. ~Reset(t)
      BY DEF Reset, LockResetList, LockForReset, NothingToReset, Clear, RecordReset,
             Goto, Leave
    <3>5. ~AcknowledgeReset(t) /\ ~Share(t)
      BY DEF AcknowledgeReset, Share, Leave
    <3>6. LoadFile(t) \/ Wait(t) \/ EndIterate(t) \/ DropReference(t) => pc'[t] = pc[t]
      BY DEF LoadFile, Wait, EndIterate, DropReference, threadVars
    <3>7. QED
      BY <1>6, <3>1, <3>2, <3>3, <3>4, <3>5, <3>6 DEF Continue
  <2>2. pc[t] = "discard"
    BY <2>1
  <2>3. buffer' = buffer
    <3>1. owner = t /\ t # Nobody /\ readers = {}
      BY <2>2, DataSourceAssumption DEF InSection
    <3>2. ~ChangesMembers(t)
      BY <2>1, <2>2 DEF ChangesMembers, Discard, Store, Replace, Erase, Clear, Goto, Leave
    <3>3. QED
      BY <3>1, <3>2, WhoChangesTheBuffer
  <2>4. QED
    BY <1>2, <2>2, <2>3
<1>7. QED
  BY <1>3, <1>4, <1>5, <1>6 DEF Next, Rest

LEMMA NextKeepsLedger == Locks /\ Ledger /\ [Next]_vars => Ledger'
<1> SUFFICES ASSUME Locks, Ledger, [Next]_vars PROVE Ledger'
  OBVIOUS
<1>1. /\ IsReports(resetList') /\ IsReports(deletionList') /\ NothingGone'
      /\ Exceeded => Exceeded'
  BY KnownGrows, NextKeepsNothingGone DEF Ledger
<1>2. ASSUME ~Exceeded'
      PROVE  LossKnown'
  <2>1. LossKnown /\ Known \subseteq Known' /\ told \cup InDeletionList \subseteq Known'
    BY <1>1, <1>2, KnownGrows DEF Ledger, Known
  <2> DEFINE here  == UNION {local[t].gone : t \in Threads}
             there == UNION {local'[t].gone : t \in Threads}
  <2>2. here \subseteq Known' \cup there
    BY <1>2, GoneIsKnown DEF Ledger, Known
  <2>3. ASSUME NEW t \in Threads, Discard(t)
        PROVE  buffer[OldestUnlocked(buffer)].data \in Known'
    BY <2>1, <2>3 DEF LossKnown, Discard
  <2>4. ASSUME NEW t \in Threads, Clear(t)
        PROVE  DataIn(buffer) \subseteq there
    <3>1. local'[t].gone = DataIn(buffer)
      BY <2>4 DEF Clear, Locks, ThreadTypes
    <3>2. QED
      BY <3>1
  <2> HIDE DEF here, there
  <2>5. lost \subseteq Known' \cup there
    BY <2>1, <2>2 DEF LossKnown, here
  <2>6. lost' \subseteq Known' \cup there
    BY <2>3, <2>4, <2>5, WhatIsLost
  <2>7. QED
    BY <1>2, <2>6, DiscardIsKnown DEF LossKnown, there
<1>3. QED
  BY <1>1, <1>2 DEF Ledger

LEMMA InitLedger == Init => Ledger
<1> SUFFICES ASSUME Init PROVE Ledger
  OBVIOUS
<1>1. IsReports(Empty)
  <2>1. <<>> \in Seq(ToSet(<<>>))
    OBVIOUS
  <2>2. QED
    BY <2>1 DEF IsReports, Empty
<1>2. QED
  BY <1>1 DEF Init, Ledger, NothingGone, NoLocal, LossKnown

\* What Push discards or Reset clears is in a list that the consumer can get or
\* has got, or in the hands of the Reset that is about to record it, unless a
\* list has said that it exceeded its size (data_source_internal.cpp:99, :200).
THEOREM LossesAreReported == Spec => []NothingLostSilently
<1>1. Locks /\ Ledger => NothingLostSilently
  <2> SUFFICES ASSUME Locks, Ledger, ~Exceeded
               PROVE  lost \subseteq UNION {told, UNION ToSet(resetList.list),
                        {r.data : r \in ToSet(deletionList.list)},
                        IF resetOwner = Nobody THEN {} ELSE local[resetOwner].gone}
    BY DEF NothingLostSilently, Exceeded
  <2>1. ASSUME NEW t \in Threads, local[t].gone # {}
        PROVE  resetOwner = t /\ t # Nobody
    BY <2>1, DataSourceAssumption DEF Ledger, NothingGone, Locks, InReset
  <2>2. UNION {local[t].gone : t \in Threads}
          \subseteq IF resetOwner = Nobody THEN {} ELSE local[resetOwner].gone
    BY <2>1
  <2>3. lost \subseteq Known \cup UNION {local[t].gone : t \in Threads}
    BY DEF Ledger, LossKnown
  <2>4. QED
    BY <2>2, <2>3 DEF Known, InResetList, InDeletionList
<1>2. QED
  BY <1>1, InitLocks, InitLedger, NextKeepsLocks, NextKeepsLedger, PTL DEF Spec

-----------------------------------------------------------------------------
(* IsReset. *)

\* What was cleared is in the list, or a Reset is about to record it.
Noticed ==
  cleared # {} => resetList.list # <<>> \/ \E t \in Threads : pc[t] = "record"

LEMMA NextKeepsNoticed ==
  ASSUME Locks, Ledger, Noticed, [Next]_vars, ResetInformationSize > 0
  PROVE  Noticed'
<1>1. ASSUME NEW t \in Threads, RecordReset(t)
      PROVE  Noticed'
  BY <1>1, RecordedIs, DataSourceAssumption DEF RecordReset, Ledger, Noticed
<1>2. ASSUME NEW t \in Threads, AcknowledgeReset(t)
      PROVE  Noticed'
  BY <1>2 DEF AcknowledgeReset, Noticed
<1>3. ASSUME NEW t \in Threads, Clear(t)
      PROVE  Noticed'
  BY <1>3 DEF Clear, Goto, Noticed, Locks, ThreadTypes
<1>4. ASSUME UNCHANGED cleared,
             \A t \in Threads : ~RecordReset(t) /\ ~AcknowledgeReset(t)
      PROVE  Noticed'
  <2>1. resetList' = resetList
    BY <1>4, WhoChangesTheLists
       DEF ChangesLists, listVars, ReportDiscard, ReportReplaced, ReportFound,
           AcknowledgeOverflow, resetVars
  <2>2. \A t \in Threads : pc[t] = "record" => pc'[t] = "record"
    BY <1>4, RecordWaits
  <2>3. QED
    BY <1>4, <2>1, <2>2 DEF Noticed
<1>5. QED
  BY <1>1, <1>2, <1>3, <1>4, WhatIsLost

\* IsReset (i_data_source_out.hpp:42) says that data was cleared until it is
\* acknowledged, provided that the list can hold a report.
THEOREM ResetsAreNoticed ==
  ASSUME ResetInformationSize > 0
  PROVE  Spec => []ResetNoticed
<1>1. Init => Noticed
  BY DEF Init, Noticed
<1>2. Locks /\ Ledger /\ Noticed /\ [Next]_vars => Noticed'
  BY NextKeepsNoticed
<1>3. Locks /\ Noticed => ResetNoticed
  BY DataSourceAssumption DEF Locks, InReset, Noticed, ResetNoticed
<1>4. QED
  BY <1>1, <1>2, <1>3, InitLocks, InitLedger, NextKeepsLocks, NextKeepsLedger, PTL DEF Spec

-----------------------------------------------------------------------------
(* The types. *)

\* Places inside of Add and of Delete.
AddPlaces == {"refs", "push", "room", "discard", "replace", "cleanup"}
DeletePlaces == {"delete", "search", "erase"}

\* The ids of which an entry may be asked for.
CallIds == {c.id : c \in {d \in AllCalls : d.op \in {"Add", "Delete"}}}

\* What a thread does is a call of its own, which it makes once.
Making(t) ==
  /\ todo[t] \subseteq Calls[t]
  /\ pc[t] \in AddPlaces => call[t] \in Calls[t] \ todo[t] /\ call[t].op = "Add"
  /\ pc[t] \in DeletePlaces => call[t].id \in CallIds
  /\ local[t].rest \in Seq(Names) /\ local[t].refs \in Seq(Names)
  /\ local[t].gone \subseteq Data

Seeable == [id : DataIds, data : Data]

CallsTyped ==
  /\ todo \in [Threads -> SUBSET AllCalls]
  /\ seen \in [Threads -> SUBSET Seeable]
  /\ \A t \in Threads : Making(t)

BufferTyped == buffer \in Seq(Entry) /\ Len(buffer) <= MaxSize

\* A call is an Add of the thread that makes it.
LEMMA CallsAreCalls ==
  ASSUME NEW t \in Threads, NEW c \in Calls[t]
  PROVE  /\ IsCall(c) /\ c \in AllCalls
         /\ c.op = "Add" => c.id \in DataIds /\ c.data \in Data /\ c.id \in Int
         /\ c.op \in {"Add", "Delete"} => c.id \in CallIds
         /\ c.op = "Add" => c.refs \in Seq(UserRefs \cup FileNames) /\ c.refs \in Seq(Names)
<1>1. IsCall(c) /\ c \in AllCalls
  BY DataSourceAssumption DEF AllCalls
<1>2. Seq(UserRefs \cup FileNames) \subseteq Seq(Names)
  BY SeqMonotonic DEF Names
<1>3. QED
  BY <1>1, <1>2 DEF IsCall, AddCalls, DataIds, Data, CallIds

LEMMA SeenIdsAreCallIds == DataIds \subseteq CallIds
BY DEF DataIds, CallIds, AddCalls

\* How the calls left and the entries seen change.
LEMMA StepsOfCalls ==
  ASSUME Locks, CallsTyped, BufferTyped, NEW u \in Threads, Begin(u) \/ Continue(u)
  PROVE  /\ todo' \in [Threads -> SUBSET AllCalls]
         /\ seen' \in [Threads -> SUBSET Seeable]
         /\ todo'[u] \subseteq todo[u]
         /\ \A t \in Threads \ {u} : todo'[t] = todo[t]
<1> USE DEF CallsTyped, Ready, Take, Enter, EnterAny
<1>1. CASE Begin(u) /\ ~Visit(u)
  <2>1. CASE BeginAdd(u)
    BY <2>1 DEF BeginAdd
  <2>2. CASE BeginDelete(u)
    BY <2>2 DEF BeginDelete
  <2>3. CASE BeginReset(u) \/ BeginAcknowledgeReset(u) \/ BeginShared(u)
    BY <2>3 DEF BeginReset, BeginAcknowledgeReset, BeginShared
  <2>4. CASE SetReference(u) \/ AcknowledgeOverflow(u) \/ GetReference(u)
    BY <2>4 DEF SetReference, AcknowledgeOverflow, GetReference
  <2>5. QED
    BY <1>1, <2>1, <2>2, <2>3, <2>4 DEF Begin
<1>2. CASE Visit(u)
  <2>1. PICK i \in DOMAIN buffer :
          seen' = [seen EXCEPT ![u] = @ \cup {[id |-> buffer[i].id, data |-> buffer[i].data]}]
    BY <1>2 DEF Visit
  <2>2. [id |-> buffer[i].id, data |-> buffer[i].data] \in Seeable
    <3>1. buffer[i] \in Entry
      BY <2>1, ElementOfSeq, LenProperties DEF BufferTyped
    <3>2. buffer[i].id \in DataIds /\ buffer[i].data \in Data
      BY <3>1 DEF Entry
    <3>3. QED
      BY <3>2 DEF Seeable
  <2>3. UNCHANGED todo
    BY <1>2 DEF Visit
  <2>4. QED
    BY <2>1, <2>2, <2>3
<1>3. CASE Continue(u)
  <2>1. UNCHANGED <<todo, seen>>
    <3>1. CASE Add(u)
      BY <3>1 DEF Add, BindRef, RejectRef, LoadFile, LoadFileFails, RefsDone, BeginPush,
         NoRoom, ReportDiscard, Discard, RefuseId, Store, ReportReplaced, Replace, Cleanup
    <3>2. CASE Delete(u)
      BY <3>2 DEF Delete, LockForDelete, NotFound, ReportFound, Erase
    <3>3. CASE Reset(u)
      BY <3>3 DEF Reset, LockResetList, LockForReset, NothingToReset, Clear, RecordReset
    <3>4. CASE Wait(u) \/ AcknowledgeReset(u) \/ Share(u) \/ EndIterate(u) \/ DropReference(u)
      BY <3>4 DEF Wait, AcknowledgeReset, Share, EndIterate, DropReference, threadVars
    <3>5. QED
      BY <1>3, <3>1, <3>2, <3>3, <3>4 DEF Continue
  <2>2. QED
    BY <2>1
<1>4. QED
  BY <1>1, <1>2, <1>3

\* A call that begins is one of the thread's own.
LEMMA BeginMakes ==
  ASSUME Locks, CallsTyped, NEW t \in Threads, Begin(t)
  PROVE  Making(t)'
<1> USE DEF CallsTyped, Making, Ready, Take, Enter, EnterAny, AddPlaces, DeletePlaces,
            Locks, ThreadTypes
<1>1. CASE BeginAdd(t)
  <2>1. PICK c \in todo[t] :
          /\ c.op = "Add"
          /\ todo' = [todo EXCEPT ![t] = @ \ {c}]
          /\ call' = [call EXCEPT ![t] = c]
          /\ pc' = [pc EXCEPT ![t] = "refs"]
          /\ local' = [local EXCEPT ![t].rest = c.refs]
    BY <1>1 DEF BeginAdd
  <2>2. c \in Calls[t]
    BY <2>1
  <2>3. c.refs \in Seq(Names)
    BY <2>1, <2>2, CallsAreCalls
  <2>4. /\ local'[t].rest = c.refs /\ local'[t].refs = local[t].refs
        /\ local'[t].gone = local[t].gone
    BY <2>1
  <2>5. pc'[t] = "refs" /\ call'[t] = c /\ todo'[t] = todo[t] \ {c}
    BY <2>1
  <2>6. QED
    BY <2>1, <2>2, <2>3, <2>4, <2>5
<1>2. CASE BeginDelete(t)
  <2>1. CASE \E c \in Ready(t, "Delete") : Take(t, c) /\ Enter(t, c, "delete")
    <3>1. PICK c \in todo[t] :
            /\ c.op = "Delete"
            /\ todo' = [todo EXCEPT ![t] = @ \ {c}]
            /\ call' = [call EXCEPT ![t] = c]
            /\ pc' = [pc EXCEPT ![t] = "delete"]
      BY <2>1
    <3>2. c.id \in CallIds
      BY <3>1, CallsAreCalls
    <3>3. UNCHANGED local
      BY <1>2 DEF BeginDelete
    <3>4. QED
      BY <3>1, <3>2, <3>3
  <2>2. CASE \E c \in Ready(t, "DeleteRead"), e \in seen[t] :
               /\ Take(t, c)
               /\ Enter(t, [op |-> "DeleteRead", id |-> e.id, data |-> e.data], "delete")
    <3>1. PICK c \in todo[t], e \in seen[t] :
            /\ todo' = [todo EXCEPT ![t] = @ \ {c}]
            /\ call' = [call EXCEPT ![t] = [op |-> "DeleteRead", id |-> e.id, data |-> e.data]]
            /\ pc' = [pc EXCEPT ![t] = "delete"]
      BY <2>2
    <3>2. e.id \in CallIds
      BY <3>1, SeenIdsAreCallIds DEF Seeable
    <3>3. UNCHANGED local
      BY <1>2 DEF BeginDelete
    <3>4. QED
      BY <3>1, <3>2, <3>3
  <2>3. QED
    BY <1>2, <2>1, <2>2 DEF BeginDelete
<1>3. CASE BeginReset(t) \/ BeginAcknowledgeReset(t) \/ BeginShared(t)
  BY <1>3 DEF BeginReset, BeginAcknowledgeReset, BeginShared
<1>4. CASE SetReference(t) \/ AcknowledgeOverflow(t) \/ GetReference(t)
  BY <1>4 DEF SetReference, AcknowledgeOverflow, GetReference
<1>5. CASE Visit(t)
  BY <1>5 DEF Visit
<1>6. QED
  BY <1>1, <1>2, <1>3, <1>4, <1>5 DEF Begin

\* The local variables of a call have two parts that change together.
LEMMA LocalRefs ==
  ASSUME Locks, NEW t \in Threads, NEW refs, NEW rest,
         local' = [local EXCEPT ![t].refs = refs, ![t].rest = rest]
  PROVE  local'[t] = [rest |-> rest, refs |-> refs, gone |-> local[t].gone]
<1> DEFINE l == local[t]
           m == [l EXCEPT !.refs = refs]
<1>1. l = [rest |-> l.rest, refs |-> l.refs, gone |-> l.gone]
  BY DEF Locks, ThreadTypes
<1>2. t \in DOMAIN local
  BY DEF Locks, ThreadTypes
<1>3. local'[t] = [m EXCEPT !.rest = rest]
  BY <1>2
<1> HIDE DEF l
<1>4. m = [rest |-> l.rest, refs |-> refs, gone |-> l.gone]
  BY <1>1
<1> HIDE DEF m
<1>5. [m EXCEPT !.rest = rest] = [rest |-> rest, refs |-> refs, gone |-> l.gone]
  BY <1>4
<1>6. QED
  BY <1>3, <1>5 DEF l

LEMMA LeaveMakes ==
  ASSUME Locks, CallsTyped, NEW t \in Threads, Leave(t), UNCHANGED todo
  PROVE  Making(t)'
<1>1. pc'[t] = "ready" /\ local'[t] = NoLocal
  BY DEF Locks, ThreadTypes, Leave
<1>2. <<>> \in Seq(Names)
  OBVIOUS
<1>3. todo'[t] \subseteq Calls[t]
  BY DEF CallsTyped, Making
<1>4. QED
  BY <1>1, <1>2, <1>3 DEF Making, NoLocal, AddPlaces, DeletePlaces

\* A call that goes on is still the thread's own.
LEMMA AddMakes ==
  ASSUME Locks, CallsTyped, refCounter \in 0..Len(GeneratedRef), NEW t \in Threads, Add(t)
  PROVE  Making(t)'
<1> USE DEF CallsTyped, Making, AddPlaces, DeletePlaces, Locks, ThreadTypes, Goto, Leave,
            NoLocal, InRefs
<1>1. <<>> \in Seq(Names)
  OBVIOUS
<1>2. CASE BindRef(t)
  <2>1. local' = [local EXCEPT ![t].refs = @ \o local[t].rest, ![t].rest = <<>>]
    BY <1>2 DEF BindRef
  <2>2. local[t].refs \o local[t].rest \in Seq(Names)
    BY ConcatProperties
  <2>3. local'[t] = [rest |-> <<>>, refs |-> local[t].refs \o local[t].rest,
                     gone |-> local[t].gone]
    BY <2>1, LocalRefs
  <2>4. pc[t] = "refs" /\ pc'[t] = "push" /\ call'[t] = call[t] /\ todo'[t] = todo[t]
    BY <1>2 DEF BindRef
  <2>5. QED
    BY <1>1, <2>2, <2>3, <2>4
<1>3. CASE LoadFile(t)
  <2> DEFINE ref == GeneratedRef[refCounter + 1]
  <2>1. local' = [local EXCEPT ![t].refs = Append(@, ref), ![t].rest = Tail(@)]
    BY <1>3 DEF LoadFile
  <2>2. ref \in Names
    <3>1. refCounter + 1 \in DOMAIN GeneratedRef
      BY <1>3, DataSourceAssumption, LenProperties DEF LoadFile
    <3>2. QED
      BY <3>1 DEF Names, ToSet
  <2> HIDE DEF ref
  <2>3. Append(local[t].refs, ref) \in Seq(Names)
    BY <2>2, AppendProperties
  <2>4. Tail(local[t].rest) \in Seq(Names)
    BY <1>3, HeadTailProperties DEF LoadFile
  <2>5. local'[t] = [rest |-> Tail(local[t].rest), refs |-> Append(local[t].refs, ref),
                     gone |-> local[t].gone]
    BY <2>1, LocalRefs
  <2>6. UNCHANGED <<pc, call, todo>>
    BY <1>3 DEF LoadFile
  <2>7. QED
    BY <2>3, <2>4, <2>5, <2>6
<1>4. CASE RejectRef(t) \/ LoadFileFails(t)
  BY <1>4, LeaveMakes DEF RejectRef, LoadFileFails
<1>5. CASE RefsDone(t) \/ BeginPush(t) \/ NoRoom(t) \/ RefuseId(t)
  BY <1>5 DEF RefsDone, BeginPush, NoRoom, RefuseId
<1>6. CASE ReportDiscard(t) \/ Discard(t) \/ ReportReplaced(t)
  BY <1>6 DEF ReportDiscard, Discard, ReportReplaced
<1>7. CASE Store(t) \/ Replace(t) \/ Cleanup(t)
  BY <1>7, LeaveMakes DEF Store, Replace, Cleanup
<1>8. QED
  BY <1>2, <1>3, <1>4, <1>5, <1>6, <1>7 DEF Add

LEMMA DataInBufferIsData ==
  ASSUME BufferTyped
  PROVE  DataIn(buffer) \subseteq Data
<1>1. \A i \in DOMAIN buffer : buffer[i] \in Entry
  BY ElementOfSeq, LenProperties DEF BufferTyped
<1>2. QED
  BY <1>1 DEF DataIn, Entry

LEMMA ContinueMakes ==
  ASSUME Locks, CallsTyped, BufferTyped, refCounter \in 0..Len(GeneratedRef),
         NEW t \in Threads, Continue(t)
  PROVE  Making(t)'
<1> USE DEF CallsTyped, Making, AddPlaces, DeletePlaces, Locks, ThreadTypes, Goto, Leave,
            NoLocal
<1>2. CASE Add(t)
  BY <1>2, AddMakes
<1>3. CASE Delete(t)
  <2>1. CASE LockForDelete(t) \/ ReportFound(t)
    BY <2>1 DEF LockForDelete, ReportFound
  <2>2. CASE NotFound(t) \/ Erase(t)
    BY <2>2, LeaveMakes DEF NotFound, Erase
  <2>3. QED
    BY <1>3, <2>1, <2>2 DEF Delete
<1>4. CASE Reset(t)
  <2>1. CASE LockResetList(t) \/ LockForReset(t)
    BY <2>1 DEF LockResetList, LockForReset
  <2>2. CASE NothingToReset(t) \/ RecordReset(t)
    BY <2>2, LeaveMakes DEF NothingToReset, RecordReset
  <2>3. CASE Clear(t)
    <3>1. /\ local' = [local EXCEPT ![t].gone = DataIn(buffer)]
          /\ pc'[t] = "record" /\ UNCHANGED todo
      BY <2>3 DEF Clear
    <3>2. /\ local'[t].gone = DataIn(buffer)
          /\ local'[t].rest = local[t].rest /\ local'[t].refs = local[t].refs
      BY <3>1
    <3>3. QED
      BY <3>1, <3>2, DataInBufferIsData
  <2>4. QED
    BY <1>4, <2>1, <2>2, <2>3 DEF Reset
<1>5. CASE AcknowledgeReset(t) \/ Share(t)
  BY <1>5, LeaveMakes DEF AcknowledgeReset, Share
<1>6. CASE Wait(t) \/ EndIterate(t) \/ DropReference(t)
  BY <1>6 DEF Wait, EndIterate, DropReference, threadVars
<1>7. QED
  BY <1>2, <1>3, <1>4, <1>5, <1>6 DEF Continue

LEMMA NextKeepsCallsTyped ==
  ASSUME Locks, CallsTyped, BufferTyped, refCounter \in 0..Len(GeneratedRef), [Next]_vars
  PROVE  CallsTyped'
<1>1. CASE UNCHANGED vars
  BY <1>1 DEF vars, threadVars, CallsTyped, Making
<1>2. ASSUME NEW u \in Threads, Begin(u) \/ Continue(u)
      PROVE  CallsTyped'
  <2>1. ASSUME NEW t \in Threads, t # u
        PROVE  Making(t)'
    <3>1. pc'[t] = pc[t] /\ call'[t] = call[t] /\ local'[t] = local[t]
      BY <1>2, <2>1, OthersStay
    <3>2. todo'[t] = todo[t]
      BY <1>2, <2>1, StepsOfCalls
    <3>3. QED
      BY <3>1, <3>2 DEF CallsTyped, Making
  <2>2. Making(u)'
    BY <1>2, BeginMakes, ContinueMakes
  <2>3. todo' \in [Threads -> SUBSET AllCalls] /\ seen' \in [Threads -> SUBSET Seeable]
    BY <1>2, StepsOfCalls
  <2>4. QED
    BY <2>1, <2>2, <2>3 DEF CallsTyped
<1>3. QED
  BY <1>1, <1>2 DEF Next, Rest

\* What Push stores is the data set of the call.
LEMMA NewEntryTyped ==
  ASSUME CallsTyped, NEW t \in Threads, pc[t] \in {"room", "replace"}
  PROVE  NewEntry(t) \in Entry
<1>1. call[t] \in Calls[t] /\ call[t].op = "Add" /\ local[t].refs \in Seq(Names)
  BY DEF CallsTyped, Making, AddPlaces
<1>2. call[t].id \in DataIds /\ call[t].data \in Data
  BY <1>1, CallsAreCalls
<1>3. QED
  BY <1>1, <1>2 DEF NewEntry, Entry

LEMMA NextKeepsBufferTyped ==
  ASSUME Safe, CallsTyped, BufferTyped, [Next]_vars
  PROVE  BufferTyped'
<1>1. buffer \in Seq(Entry) /\ Len(buffer) \in Nat /\ Len(buffer) <= MaxSize /\ MaxSize \in Nat
  BY BufferAssumption, LenProperties DEF BufferTyped
<1>2. ASSUME NEW t \in Threads, ChangesMembers(t)
      PROVE  BufferTyped'
  <2>1. CASE Discard(t)
    BY <1>1, <2>1, TakenEntry, RemoveAtProperties DEF Discard, Safe, BufferTyped
  <2>2. CASE Store(t)
    <3>1. ~(Len(buffer) >= MaxSize) /\ NewEntry(t) \in Entry /\ buffer' = Append(buffer, NewEntry(t))
      BY <2>2, NewEntryTyped DEF Store, Full
    <3>2. QED
      BY <1>1, <3>1, AppendProperties DEF BufferTyped
  <2>3. CASE Replace(t)
    <3> DEFINE r == RemoveAt(buffer, FirstHolding(buffer, call[t].id))
    <3>1. r \in Seq(Entry) /\ Len(r) = Len(buffer) - 1
      BY <1>1, <2>3, TakenEntry, RemoveAtProperties DEF Replace, Safe
    <3>2. NewEntry(t) \in Entry /\ buffer' = Append(r, NewEntry(t))
      BY <2>3, NewEntryTyped DEF Replace
    <3> HIDE DEF r
    <3>3. QED
      BY <1>1, <3>1, <3>2, AppendProperties DEF BufferTyped
  <2>4. CASE Erase(t)
    BY <1>1, <2>4, TakenEntry, RemoveAtProperties DEF Erase, Safe, BufferTyped
  <2>5. CASE Clear(t)
    BY <1>1, <2>5 DEF Clear, BufferTyped
  <2>6. QED
    BY <1>2, <2>1, <2>2, <2>3, <2>4, <2>5 DEF ChangesMembers
<1>3. ASSUME NEW t \in Threads, Visit(t)
      PROVE  BufferTyped'
  <2>1. PICK i \in DOMAIN buffer : buffer' = [buffer EXCEPT ![i].locked = TRUE]
    BY <1>3 DEF Visit
  <2> DEFINE e == [buffer[i] EXCEPT !.locked = TRUE]
  <2>2. i \in 1..Len(buffer) /\ buffer[i] \in Entry
    BY <1>1, <2>1, ElementOfSeq, LenProperties
  <2>3. buffer' = [buffer EXCEPT ![i] = e]
    BY <2>1
  <2>4. e \in Entry
    BY <2>2 DEF Entry
  <2> HIDE DEF e
  <2>5. buffer' \in Seq(Entry) /\ Len(buffer') = Len(buffer)
    BY <1>1, <2>2, <2>3, <2>4, ExceptSeq
  <2>6. QED
    BY <1>1, <2>5 DEF BufferTyped
<1>4. CASE UNCHANGED buffer
  BY <1>4 DEF BufferTyped
<1>5. QED
  BY <1>2, <1>3, <1>4, WhoChangesTheBuffer DEF Safe

-----------------------------------------------------------------------------
(* The mapping and the lists. *)

RefRecord == [id : DataIds \cup {0}, content : UserRefs \cup FileNames]

RefsTyped ==
  /\ refCounter \in 0..Len(GeneratedRef)
  /\ files \subseteq FileNames
  /\ DOMAIN refMapping \subseteq Names
  /\ refMapping \in [DOMAIN refMapping -> RefRecord]
  /\ held \in [Threads -> Names \cup {NoRef, Dangling}]

\* The steps that touch the mapping, the counter or the files.
ChangesRefs(t) ==
  \/ SetReference(t) \/ BindRef(t) \/ LoadFile(t) \/ LoadFileFails(t)
  \/ Discard(t) \/ Replace(t) \/ Cleanup(t) \/ Erase(t) \/ Clear(t)

LEMMA WhoChangesTheRefs ==
  ASSUME [Next]_vars
  PROVE  \/ UNCHANGED refVars
         \/ \E t \in Threads : ChangesRefs(t)
         \/ \E t \in Threads :
              (GetReference(t) \/ DropReference(t)) /\ UNCHANGED <<refMapping, refCounter, files>>
<1> USE DEF ChangesRefs
<1>1. ASSUME NEW t \in Threads, Begin(t), ~ChangesRefs(t), ~GetReference(t)
      PROVE  UNCHANGED refVars
  BY <1>1 DEF Begin, BeginAdd, BeginDelete, BeginReset, BeginAcknowledgeReset, BeginShared,
              EnterAny, AcknowledgeOverflow, Visit
<1>2. ASSUME NEW t \in Threads, Add(t), ~ChangesRefs(t)
      PROVE  UNCHANGED refVars
  BY <1>2 DEF Add, RejectRef, RefsDone, BeginPush, NoRoom, ReportDiscard, RefuseId, Store,
              ReportReplaced
<1>3. ASSUME NEW t \in Threads, Delete(t) \/ Reset(t), ~ChangesRefs(t)
      PROVE  UNCHANGED refVars
  BY <1>3 DEF Delete, LockForDelete, NotFound, ReportFound,
              Reset, LockResetList, LockForReset, NothingToReset, RecordReset
<1>4. ASSUME NEW t \in Threads, Wait(t) \/ AcknowledgeReset(t) \/ Share(t) \/ EndIterate(t)
      PROVE  UNCHANGED refVars
  BY <1>4 DEF Wait, AcknowledgeReset, Share, EndIterate
<1>5. ASSUME NEW t \in Threads, GetReference(t) \/ DropReference(t)
      PROVE  UNCHANGED <<refMapping, refCounter, files>>
  BY <1>5 DEF GetReference, DropReference
<1>6. CASE UNCHANGED vars
  BY <1>6 DEF vars
<1>7. ASSUME NEW t \in Threads, Continue(t), ~ChangesRefs(t), ~DropReference(t)
      PROVE  UNCHANGED refVars
  BY <1>2, <1>3, <1>4, <1>7 DEF Continue
<1>8. QED
  BY <1>1, <1>5, <1>6, <1>7 DEF Next, Rest

\* What emplace leaves in the mapping.
LEMMA EmplacedIs ==
  ASSUME NEW S, refMapping \in [DOMAIN refMapping -> S], NEW r, NEW id, NEW content,
         [id |-> id, content |-> content] \in S
  PROVE  /\ Emplaced(r, id, content) \in [DOMAIN refMapping \cup {r} -> S]
         /\ \A n \in DOMAIN refMapping : Emplaced(r, id, content)[n] = refMapping[n]
         /\ r \notin DOMAIN refMapping =>
              Emplaced(r, id, content)[r] = [id |-> id, content |-> content]
<1>1. CASE r \in DOMAIN refMapping
  BY <1>1 DEF Emplaced
<1>2. CASE r \notin DOMAIN refMapping
  BY <1>2 DEF Emplaced
<1>3. QED
  BY <1>1, <1>2

\* What erasing leaves in it.
LEMMA EraseRefsIs ==
  ASSUME NEW S, refMapping \in [DOMAIN refMapping -> S], NEW names, EraseRefs(names)
  PROVE  /\ DOMAIN refMapping' = DOMAIN refMapping \ names
         /\ refMapping' \in [DOMAIN refMapping' -> S]
         /\ \A r \in DOMAIN refMapping' : refMapping'[r] = refMapping[r]
         /\ UNCHANGED <<refCounter, files>>
BY DEF EraseRefs

\* A data set that is being added has an id.
LEMMA AddIdTyped ==
  ASSUME CallsTyped, NEW t \in Threads, pc[t] = "refs"
  PROVE  call[t].id \in DataIds
BY CallsAreCalls DEF CallsTyped, Making, AddPlaces

LEMMA NextKeepsRefsTyped ==
  ASSUME CallsTyped, RefsTyped, [Next]_vars
  PROVE  RefsTyped'
<1> USE DEF RefsTyped
<1>1. Len(GeneratedRef) \in Nat
  BY DataSourceAssumption, LenProperties
<1>2. CASE UNCHANGED refVars
  BY <1>2 DEF refVars
<1>3. ASSUME NEW names, EraseRefs(names)
      PROVE  RefsTyped'
  <2>1. /\ DOMAIN refMapping' \subseteq DOMAIN refMapping
        /\ refMapping' \in [DOMAIN refMapping' -> RefRecord]
        /\ UNCHANGED <<refCounter, files>>
    BY <1>3, EraseRefsIs
  <2>2. held' \in [Threads -> Names \cup {NoRef, Dangling}]
    BY <1>3 DEF EraseRefs
  <2>3. QED
    BY <2>1, <2>2
<1>4. ASSUME NEW t \in Threads, Discard(t) \/ Replace(t) \/ Cleanup(t) \/ Erase(t) \/ Clear(t)
      PROVE  RefsTyped'
  BY <1>3, <1>4 DEF Discard, Replace, Cleanup, Erase, Clear
<1>5. ASSUME NEW t \in Threads, SetReference(t)
      PROVE  RefsTyped'
  <2>1. PICK c \in todo[t] : c.op = "SetReference" /\ refMapping' = Emplaced(c.ref, 0, c.ref)
    BY <1>5 DEF SetReference, Ready
  <2>2. c.ref \in UserRefs
    BY <2>1, CallsAreCalls DEF CallsTyped, Making, IsCall
  <2>3. [id |-> 0, content |-> c.ref] \in RefRecord /\ c.ref \in Names
    BY <2>2 DEF RefRecord, Names
  <2>4. UNCHANGED <<refCounter, files, held>>
    BY <1>5 DEF SetReference
  <2>5. refMapping' \in [DOMAIN refMapping \cup {c.ref} -> RefRecord]
    BY <2>1, <2>3, EmplacedIs
  <2>6. QED
    BY <2>3, <2>4, <2>5
<1>6. ASSUME NEW t \in Threads, BindRef(t)
      PROVE  RefsTyped'
  <2>1. call[t].id \in DataIds
    BY <1>6, AddIdTyped DEF BindRef, InRefs
  <2>2. /\ refMapping' = [refMapping EXCEPT ![NextRef(t)].id = call[t].id]
        /\ NextRef(t) \in DOMAIN refMapping
        /\ UNCHANGED <<refCounter, files, held>>
    BY <1>6 DEF BindRef
  <2>3. DOMAIN refMapping' = DOMAIN refMapping
    BY <2>2
  <2>4. refMapping' \in [DOMAIN refMapping -> RefRecord]
    BY <2>1, <2>2 DEF RefRecord
  <2>5. QED
    BY <2>2, <2>3, <2>4
<1>7. ASSUME NEW t \in Threads, LoadFile(t)
      PROVE  RefsTyped'
  <2> DEFINE ref == GeneratedRef[refCounter + 1]
  <2>1. call[t].id \in DataIds
    BY <1>7, AddIdTyped DEF LoadFile, InRefs
  <2>2. /\ refMapping' = Emplaced(ref, call[t].id, NextRef(t))
        /\ NextRef(t) \in files /\ files' \subseteq files
        /\ refCounter < Len(GeneratedRef) /\ refCounter' = refCounter + 1
        /\ UNCHANGED held
    BY <1>7 DEF LoadFile
  <2>3. ref \in Names
    <3>1. refCounter + 1 \in DOMAIN GeneratedRef
      BY <2>2, DataSourceAssumption, LenProperties
    <3>2. QED
      BY <3>1 DEF Names, ToSet
  <2>4. [id |-> call[t].id, content |-> NextRef(t)] \in RefRecord
    BY <2>1, <2>2 DEF RefRecord
  <2>5. refCounter' \in 0..Len(GeneratedRef)
    BY <1>1, <2>2
  <2> HIDE DEF ref
  <2>6. refMapping' \in [DOMAIN refMapping \cup {ref} -> RefRecord]
    BY <2>2, <2>4, EmplacedIs
  <2>7. QED
    BY <2>2, <2>3, <2>5, <2>6
<1>8. ASSUME NEW t \in Threads, LoadFileFails(t)
      PROVE  RefsTyped'
  BY <1>1, <1>8 DEF LoadFileFails
<1>9. ASSUME NEW t \in Threads, GetReference(t) \/ DropReference(t),
             UNCHANGED <<refMapping, refCounter, files>>
      PROVE  RefsTyped'
  BY <1>9 DEF GetReference, DropReference
<1>10. QED
  BY <1>2, <1>4, <1>5, <1>6, <1>7, <1>8, <1>9, WhoChangesTheRefs DEF ChangesRefs

\* A list takes a report and does not grow beyond its size.
LEMMA RecordedTyped ==
  ASSUME NEW S, NEW reports, IsReports(reports), reports.list \in Seq(S), NEW r \in S,
         NEW size \in Nat, Len(reports.list) <= size
  PROVE  /\ Recorded(reports, r, size).list \in Seq(S)
         /\ Len(Recorded(reports, r, size).list) <= size
<1> DEFINE longer == Append(reports.list, r)
<1>1. /\ longer \in Seq(S) /\ Len(longer) = Len(reports.list) + 1
      /\ Len(reports.list) \in Nat
  BY AppendProperties, LenProperties
<1>2. Tail(longer) \in Seq(S) /\ Len(Tail(longer)) = Len(longer) - 1
  BY <1>1, HeadTailProperties
<1> HIDE DEF longer
<1>3. CASE Len(longer) > size
  <2>1. Recorded(reports, r, size).list = Tail(longer)
    BY <1>3 DEF Recorded, longer
  <2>2. QED
    BY <1>1, <1>2, <2>1
<1>4. CASE ~(Len(longer) > size)
  <2>1. Recorded(reports, r, size).list = longer
    BY <1>4 DEF Recorded, longer, IsReports
  <2>2. QED
    BY <1>1, <1>4, <2>1
<1>5. QED
  BY <1>3, <1>4

DeletionReport == [data : Data, overflow : BOOLEAN]

ListsTyped ==
  /\ resetList.list \in Seq(SUBSET Data) /\ Len(resetList.list) <= ResetInformationSize
  /\ deletionList.list \in Seq(DeletionReport)
  /\ Len(deletionList.list) <= DeletionInformationSize

LEMMA NextKeepsListsTyped ==
  ASSUME Locks, CallsTyped, BufferTyped, Ledger, ListsTyped, [Next]_vars
  PROVE  ListsTyped'
<1> USE DEF ListsTyped
<1>1. /\ IsReports(resetList) /\ IsReports(deletionList)
      /\ ResetInformationSize \in Nat /\ DeletionInformationSize \in Nat
  BY DataSourceAssumption DEF Ledger
<1>2. CASE UNCHANGED listVars
  BY <1>2 DEF listVars
<1>3. ASSUME NEW i \in 1..Len(buffer), NEW overflow \in BOOLEAN,
             ReportDeletion(buffer[i], overflow), UNCHANGED resetList
      PROVE  ListsTyped'
  <2>1. buffer[i].data \in Data
    <3>1. buffer[i] \in Entry
      BY <1>3, ElementOfSeq DEF BufferTyped
    <3>2. QED
      BY <3>1 DEF Entry
  <2>2. [data |-> buffer[i].data, overflow |-> overflow] \in DeletionReport
    BY <2>1 DEF DeletionReport
  <2>3. /\ deletionList'.list \in Seq(DeletionReport)
        /\ Len(deletionList'.list) <= DeletionInformationSize
    BY <1>1, <1>3, <2>2, RecordedTyped DEF ReportDeletion
  <2>4. QED
    BY <1>3, <2>3
<1>4. ASSUME NEW t \in Threads, ReportDiscard(t)
      PROVE  ListsTyped'
  BY <1>3, <1>4, OldestUnlockedIs DEF ReportDiscard, BufferTyped, resetVars
<1>5. ASSUME NEW t \in Threads, ReportReplaced(t) \/ ReportFound(t)
      PROVE  ListsTyped'
  BY <1>3, <1>5, FirstHoldingIs
     DEF ReportReplaced, ReportFound, Duplicate, Found, BufferTyped, resetVars
<1>6. ASSUME NEW t \in Threads, RecordReset(t)
      PROVE  ListsTyped'
  <2>1. local[t].gone \in SUBSET Data
    BY DEF CallsTyped, Making
  <2>2. /\ resetList' = Recorded(resetList, local[t].gone, ResetInformationSize)
        /\ UNCHANGED deletionList
    BY <1>6 DEF RecordReset, reportVars
  <2>3. /\ resetList'.list \in Seq(SUBSET Data)
        /\ Len(resetList'.list) <= ResetInformationSize
    BY <1>1, <2>1, <2>2, RecordedTyped
  <2>4. QED
    BY <2>2, <2>3
<1>7. ASSUME NEW t \in Threads, AcknowledgeReset(t) \/ AcknowledgeOverflow(t)
      PROVE  ListsTyped'
  <2>1. Empty.list \in Seq(SUBSET Data) /\ Empty.list \in Seq(DeletionReport)
    BY DEF Empty
  <2>2. Len(Empty.list) = 0
    BY DEF Empty
  <2>3. /\ resetList' = resetList \/ resetList' = Empty
        /\ deletionList' = deletionList \/ deletionList' = Empty
    BY <1>7 DEF AcknowledgeReset, AcknowledgeOverflow, resetVars
  <2>4. QED
    BY <1>1, <2>1, <2>2, <2>3
<1>8. QED
  BY <1>2, <1>4, <1>5, <1>6, <1>7, WhoChangesTheLists DEF ChangesLists

\* Who shares the buffer's mutex, and whether somebody waits for it.
LEMMA SharingTyped ==
  ASSUME readers \subseteq Threads, writerWaits \in BOOLEAN, [Next]_vars
  PROVE  readers' \subseteq Threads /\ writerWaits' \in BOOLEAN
<1> USE DEF bufferVars, Unlock, Lock
<1>1. ASSUME NEW t \in Threads, Begin(t)
      PROVE  UNCHANGED <<readers, writerWaits>>
  BY <1>1 DEF Begin, BeginAdd, BeginDelete, BeginReset, BeginAcknowledgeReset, BeginShared,
              EnterAny, SetReference, AcknowledgeOverflow, GetReference, Visit
<1>2. ASSUME NEW t \in Threads, Add(t)
      PROVE  readers' = readers /\ (writerWaits' = writerWaits \/ writerWaits' = FALSE)
  BY <1>2 DEF Add, BindRef, RejectRef, LoadFile, LoadFileFails, RefsDone, BeginPush,
              LockForPush, NoRoom, ReportDiscard, HoldForCallback, Discard, RefuseId, Store,
              ReportReplaced, Replace, Cleanup
<1>3. ASSUME NEW t \in Threads, Delete(t) \/ Reset(t)
      PROVE  readers' = readers /\ (writerWaits' = writerWaits \/ writerWaits' = FALSE)
  BY <1>3 DEF Delete, LockForDelete, NotFound, ReportFound, Erase,
              Reset, LockResetList, LockForReset, NothingToReset, Clear, RecordReset
<1>4. ASSUME NEW t \in Threads,
             Wait(t) \/ AcknowledgeReset(t) \/ Share(t) \/ EndIterate(t) \/ DropReference(t)
      PROVE  readers' \subseteq readers \cup {t} /\ writerWaits' \in BOOLEAN
  BY <1>4 DEF Wait, AcknowledgeReset, Share, EndIterate, DropReference
<1>5. ASSUME UNCHANGED vars
      PROVE  UNCHANGED <<readers, writerWaits>>
  BY <1>5 DEF vars
<1>6. ASSUME NEW t \in Threads, Continue(t)
      PROVE  readers' \subseteq Threads /\ writerWaits' \in BOOLEAN
  BY <1>2, <1>3, <1>4, <1>6 DEF Continue
<1>7. QED
  BY <1>1, <1>5, <1>6 DEF Next, Rest

-----------------------------------------------------------------------------
(* The types of all variables. *)

Typed ==
  /\ CallsTyped /\ BufferTyped /\ RefsTyped /\ ListsTyped
  /\ readers \subseteq Threads /\ writerWaits \in BOOLEAN

LEMMA InitTyped == Init => Typed
<1> SUFFICES ASSUME Init PROVE Typed
  OBVIOUS
<1> USE DEF Init
<1>1. CallsTyped
  <2>1. \A t \in Threads : Calls[t] \in SUBSET AllCalls
    BY DEF AllCalls
  <2>2. Calls = [t \in Threads |-> Calls[t]]
    BY DataSourceAssumption
  <2>3. <<>> \in Seq(Names)
    OBVIOUS
  <2>4. \A t \in Threads : Making(t)
    BY <2>3 DEF Making, NoLocal, AddPlaces, DeletePlaces
  <2>5. QED
    BY <2>1, <2>2, <2>4 DEF CallsTyped
<1>2. BufferTyped /\ ListsTyped
  BY BufferAssumption, DataSourceAssumption DEF BufferTyped, ListsTyped, Empty
<1>3. RefsTyped
  <2>1. DOMAIN refMapping = {} /\ refMapping \in [{} -> RefRecord]
    BY LenProperties
  <2>2. QED
    BY <2>1, DataSourceAssumption, LenProperties DEF RefsTyped
<1>4. QED
  BY <1>1, <1>2, <1>3 DEF Typed

LEMMA NextKeepsTyped == Safe /\ Ledger /\ Typed /\ [Next]_vars => Typed'
BY NextKeepsCallsTyped, NextKeepsBufferTyped, NextKeepsRefsTyped, NextKeepsListsTyped,
   SharingTyped DEF Typed, Safe, RefsTyped

LEMMA TypedAlways == Spec => [](Safe /\ Ledger /\ Typed)
<1>1. Safe => Locks
  BY DEF Safe
<1>2. QED
  BY <1>1, SafeAlways, InitLedger, NextKeepsLedger, InitTyped, NextKeepsTyped, PTL DEF Spec

\* Every variable has its type: in particular the buffer never has more entries
\* than its size, though a Push looks before the callbacks (ring_buffer.cpp:27)
\* and stores after them, and no list has more reports than its size
\* (data_source_internal.cpp:103, :207).
THEOREM TypesHold == Spec => []TypeOK
<1>1. Safe /\ Ledger /\ Typed => TypeOK
  <2> SUFFICES ASSUME Safe, Ledger, Typed PROVE TypeOK
    OBVIOUS
  <2>1. buffer \in Seq(Entry) /\ Len(buffer) <= MaxSize
    BY DEF Typed, BufferTyped
  <2>2. /\ owner \in Threads \cup {Nobody} /\ resetOwner \in Threads \cup {Nobody}
        /\ pc \in [Threads -> Places]
    BY DEF Safe, Locks, ThreadTypes
  <2>3. /\ DOMAIN refMapping \subseteq Names
        /\ \A r \in DOMAIN refMapping :
             refMapping[r] \in [id : DataIds \cup {0}, content : UserRefs \cup FileNames]
        /\ refCounter \in 0..Len(GeneratedRef) /\ files \subseteq FileNames
        /\ held \in [Threads -> Names \cup {NoRef, Dangling}]
    BY DEF Typed, RefsTyped, RefRecord
  <2>4. /\ resetList.list \in Seq(SUBSET Data) /\ Len(resetList.list) <= ResetInformationSize
        /\ deletionList.list \in Seq([data : Data, overflow : BOOLEAN])
        /\ Len(deletionList.list) <= DeletionInformationSize
    BY DEF Typed, ListsTyped, DeletionReport
  <2>5. \A t \in Threads :
          /\ local[t].rest \in Seq(Names) /\ local[t].refs \in Seq(Names)
          /\ local[t].gone \subseteq Data
          /\ todo[t] \subseteq Calls[t]
          /\ seen[t] \subseteq [id : DataIds, data : Data]
    BY DEF Typed, CallsTyped, Making, Seeable
  <2>6. QED
    BY <2>1, <2>2, <2>3, <2>4, <2>5 DEF Typed, TypeOK
<1>2. QED
  BY <1>1, TypedAlways, PTL
=============================================================================
