-------------------------- MODULE RingBufferProofs --------------------------
(***************************************************************************)
(* The invariants of RingBuffer for every capacity, counter mode, overflow *)
(* policy, set of ids and clock.                                           *)
(*                                                                         *)
(* Every operation changes the buffer by erasing one entry, appending one, *)
(* marking one as locked, or clearing it.  WellFormed collects what must   *)
(* hold of the deque; one lemma per elementary change shows that it        *)
(* survives, and the actions are compositions of these changes.            *)
(***************************************************************************)
EXTENDS RingBuffer, BufferQueueProofs

WellFormed(buf, t) ==
  /\ buf \in Seq(Entry)
  /\ Len(buf) <= MaxSize
  /\ \A i, j \in 1..Len(buf) : buf[i].id = buf[j].id => i = j
  /\ CounterMode = 0 =>
       \A i, j \in 1..Len(buf) : i < j => buf[i].id < buf[j].id
  /\ SteadyClock =>
       /\ \A i, j \in 1..Len(buf) : i < j => buf[i].ts <= buf[j].ts
       /\ \A i \in 1..Len(buf) : buf[i].ts <= t

-----------------------------------------------------------------------------
(* The deque operations on a well-formed deque. *)

\* A deque is well-formed after any one entry is erased.
LEMMA ErasePreserves ==
  ASSUME NEW t \in Int, NEW buf, WellFormed(buf, t), NEW i \in 1..Len(buf)
  PROVE  WellFormed(RemoveAt(buf, i), t)
<1> DEFINE rest == RemoveAt(buf, i)
           old(j) == IF j < i THEN j ELSE j + 1
<1>1. /\ buf \in Seq(Entry)
      /\ Len(buf) \in Nat
      /\ Len(buf) <= MaxSize
  BY LenProperties DEF WellFormed
<1>2. /\ rest \in Seq(Entry)
      /\ Len(rest) = Len(buf) - 1
      /\ \A j \in 1..Len(rest) : rest[j] = buf[old(j)]
  BY <1>1, RemoveAtProperties
<1>3. /\ \A j \in 1..Len(rest) : old(j) \in 1..Len(buf)
      /\ \A j, k \in 1..Len(rest) : j < k <=> old(j) < old(k)
      /\ \A j, k \in 1..Len(rest) : old(j) = old(k) => j = k
  BY <1>1, <1>2
<1> HIDE DEF rest, old
<1>4. Len(rest) <= MaxSize
  BY <1>1, <1>2, BufferAssumption
<1>5. \A j, k \in 1..Len(rest) : rest[j].id = rest[k].id => j = k
  BY <1>2, <1>3 DEF WellFormed
<1>6. ASSUME CounterMode = 0, NEW j \in 1..Len(rest), NEW k \in 1..Len(rest),
             j < k
      PROVE  rest[j].id < rest[k].id
  BY <1>2, <1>3, <1>6 DEF WellFormed
<1>7. ASSUME SteadyClock
      PROVE  /\ \A j, k \in 1..Len(rest) : j < k => rest[j].ts <= rest[k].ts
             /\ \A j \in 1..Len(rest) : rest[j].ts <= t
  BY <1>2, <1>3, <1>7 DEF WellFormed
<1>8. WellFormed(rest, t)
  BY <1>2, <1>4, <1>5, <1>6, <1>7 DEF WellFormed
<1>9. QED
  BY <1>8 DEF rest

\* A deque with room takes a new entry at its back, if the id is new and in
\* order and the entry is stamped with the current time.
LEMMA AppendPreserves ==
  ASSUME NEW t \in Int, NEW buf, WellFormed(buf, t), Len(buf) < MaxSize,
         NEW e \in Entry, e.ts = t,
         \A i \in 1..Len(buf) : buf[i].id # e.id,
         CounterMode = 0 => \A i \in 1..Len(buf) : buf[i].id < e.id
  PROVE  WellFormed(Append(buf, e), t)
<1> DEFINE new == Append(buf, e)
<1>1. buf \in Seq(Entry) /\ Len(buf) \in Nat
  BY LenProperties DEF WellFormed
<1>2. /\ new \in Seq(Entry)
      /\ Len(new) = Len(buf) + 1
      /\ \A i \in 1..Len(buf) : new[i] = buf[i]
      /\ new[Len(buf) + 1] = e
  BY <1>1
<1> HIDE DEF new
<1>3. Len(new) <= MaxSize
  BY <1>1, <1>2, BufferAssumption
<1>4. ASSUME NEW i \in 1..Len(new)
      PROVE  i \in 1..Len(buf) \/ i = Len(buf) + 1
  BY <1>1, <1>2
<1>5. \A i, j \in 1..Len(new) : new[i].id = new[j].id => i = j
  BY <1>2, <1>4 DEF WellFormed
<1>6. ASSUME CounterMode = 0, NEW i \in 1..Len(new), NEW j \in 1..Len(new),
             i < j
      PROVE  new[i].id < new[j].id
  BY <1>1, <1>2, <1>6 DEF WellFormed
<1>7. ASSUME SteadyClock
      PROVE  /\ \A i, j \in 1..Len(new) : i < j => new[i].ts <= new[j].ts
             /\ \A i \in 1..Len(new) : new[i].ts <= t
  BY <1>1, <1>2, <1>7 DEF WellFormed
<1>8. WellFormed(new, t)
  BY <1>2, <1>3, <1>5, <1>6, <1>7 DEF WellFormed
<1>9. QED
  BY <1>8 DEF new

\* Marking an entry as locked disturbs nothing.
LEMMA LockPreserves ==
  ASSUME NEW t \in Int, NEW buf, WellFormed(buf, t), NEW i \in 1..Len(buf)
  PROVE  WellFormed([buf EXCEPT ![i].locked = TRUE], t)
<1> DEFINE e   == [buf[i] EXCEPT !.locked = TRUE]
           new == [buf EXCEPT ![i] = e]
<1>1. /\ buf \in Seq(Entry)
      /\ Len(buf) \in Nat
      /\ \A j \in 1..Len(buf) : buf[j] \in Entry
  BY LenProperties, ElementOfSeq DEF WellFormed
<1>2. e \in Entry /\ e.id = buf[i].id /\ e.ts = buf[i].ts
  <2>1. buf[i] \in Entry
    BY <1>1
  <2>2. QED
    BY <2>1 DEF Entry
<1> HIDE DEF e
<1>3. /\ new \in Seq(Entry)
      /\ Len(new) = Len(buf)
      /\ \A j \in 1..Len(buf) : new[j] = IF j = i THEN e ELSE buf[j]
  BY <1>1, <1>2, ExceptSeq
<1>4. \A j \in 1..Len(buf) : new[j].id = buf[j].id /\ new[j].ts = buf[j].ts
  BY <1>2, <1>3
<1> HIDE DEF new
<1>5. WellFormed(new, t)
  BY <1>3, <1>4 DEF WellFormed
<1>6. QED
  BY <1>5 DEF new, e

\* A later reading of a steady clock is as good.
LEMMA TimePasses ==
  ASSUME NEW t \in Times, NEW u \in Times, SteadyClock => u >= t,
         NEW buf, WellFormed(buf, t)
  PROVE  WellFormed(buf, u)
<1>1. ASSUME NEW i \in 1..Len(buf)
      PROVE  buf[i].ts \in Int
  <2>1. buf[i] \in Entry
    BY ElementOfSeq DEF WellFormed
  <2>2. QED
    BY <2>1, RingBufferAssumption DEF Entry, Times
<1>2. t \in Int /\ u \in Int
  BY RingBufferAssumption DEF Times
<1>3. QED
  BY <1>1, <1>2 DEF WellFormed

-----------------------------------------------------------------------------
(* The inductive invariant.  TypeOK alone is not inductive: the appends    *)
(* need the order of the ids and the room made by the discard.             *)

IInv ==
  /\ TypeOK
  /\ WellFormed(buffer, now)

\* Line 53 is reached with room for an entry, and with the overflow reported.
LEMMA RoomMade ==
  ASSUME IInv, CanMakeRoom
  PROVE  /\ WellFormed(Roomy, now)
         /\ Len(Roomy) \in Nat /\ Len(Roomy) < MaxSize
         /\ Roomy \in Seq(Entry)
         /\ Discarded \in Seq(Notice) /\ Len(Discarded) \in Nat
<1>1. /\ now \in Times /\ now \in Int
      /\ buffer \in Seq(Entry)
      /\ Len(buffer) \in Nat
      /\ WellFormed(buffer, now)
  BY LenProperties, RingBufferAssumption DEF IInv, TypeOK, Times
<1>2. CASE ~Full(buffer)
  <2>1. Roomy = buffer /\ Discarded = <<>>
    BY <1>2 DEF Roomy, Discarded
  <2>2. Len(buffer) < MaxSize
    BY <1>1, <1>2, BufferAssumption DEF Full
  <2>3. QED
    BY <1>1, <2>1, <2>2
<1>3. CASE Full(buffer)
  <2> DEFINE i == OldestUnlocked(buffer)
             n == [id |-> buffer[i].id, clear |-> FALSE, ts |-> now]
  <2>1. i \in 1..Len(buffer)
    BY <1>1, <1>3, OldestUnlockedIs DEF CanMakeRoom
  <2>2. Roomy = RemoveAt(buffer, i) /\ Discarded = <<n>>
    BY <1>3 DEF Roomy, Discarded
  <2>3. Len(buffer) <= MaxSize
    BY <1>1 DEF WellFormed
  <2> HIDE DEF i
  <2>4. /\ WellFormed(Roomy, now)
        /\ Roomy \in Seq(Entry)
        /\ Len(Roomy) = Len(buffer) - 1
    BY <1>1, <2>1, <2>2, ErasePreserves, RemoveAtProperties
  <2>5. Len(Roomy) \in Nat /\ Len(Roomy) < MaxSize
    BY <1>1, <2>1, <2>3, <2>4, BufferAssumption
  <2>6. n \in Notice
    <3>1. buffer[i] \in Entry
      BY <1>1, <2>1, ElementOfSeq
    <3>2. buffer[i].id \in Int
      BY <3>1, RingBufferAssumption DEF Entry
    <3>3. QED
      BY <1>1, <3>2 DEF Notice
  <2> HIDE DEF n
  <2>7. QED
    BY <2>2, <2>4, <2>5, <2>6
<1>4. QED
  BY <1>2, <1>3

LEMMA InitEstablishes == Init => IInv
<1> SUFFICES ASSUME Init
             PROVE  IInv
  OBVIOUS
<1>1. buffer \in Seq(Entry) /\ Len(buffer) = 0
  BY EmptySeq DEF Init
<1>2. TypeOK
  <2>1. reply \in Reply
    BY DEF Init, Reply, Operations, Outcomes
  <2>2. info \in Info
    BY RingBufferAssumption DEF Init, Info, NoInfo, Times
  <2>3. QED
    BY <1>1, <2>1, <2>2 DEF Init, TypeOK
<1>3. WellFormed(buffer, now)
  BY <1>1, BufferAssumption DEF WellFormed
<1>4. QED
  BY <1>2, <1>3 DEF IInv

\* What a Push returns has its type.
LEMMA PushReturnsTyped ==
  ASSUME NEW outcome \in Outcomes, NEW count \in {-1} \cup Nat,
         PushReturns(outcome, count)
  PROVE  /\ reply' \in Reply
         /\ info' \in Info
         /\ now' = now
<1>1. reply' \in Reply
  BY DEF PushReturns, Reply, Operations
<1>2. info' \in Info
  BY RingBufferAssumption DEF PushReturns, Info, NoInfo, Times
<1>3. QED
  BY <1>1, <1>2 DEF PushReturns

\* An id that passes the checks of lines 53-75 is new, and in order.
LEMMA AcceptedIdIsNew ==
  ASSUME NEW t \in Int, NEW buf, WellFormed(buf, t), NEW id \in Ids,
         ~BadId(buf, id), ~Duplicate(buf, id)
  PROVE  /\ \A i \in 1..Len(buf) : buf[i].id # id
         /\ CounterMode = 0 => \A i \in 1..Len(buf) : buf[i].id < id
<1>1. /\ buf \in Seq(Entry)
      /\ Len(buf) \in Nat
      /\ DOMAIN buf = 1..Len(buf)
  BY LenProperties DEF WellFormed
<1>2. ASSUME NEW i \in 1..Len(buf)
      PROVE  buf[i].id \in Int
  <2>1. buf[i] \in Entry
    BY <1>1, ElementOfSeq
  <2>2. QED
    BY <2>1, RingBufferAssumption DEF Entry
<1>3. id \in Int
  BY RingBufferAssumption
<1>4. CASE CounterMode = 0
  <2>1. ASSUME NEW i \in 1..Len(buf)
        PROVE  buf[i].id < id
    <3>1. buf # <<>> /\ Len(buf) \in 1..Len(buf)
      BY <1>1, EmptySeq
    <3>2. buf[Len(buf)].id < id
      BY <1>2, <1>3, <1>4, <3>1 DEF BadId, Last
    <3>3. i < Len(buf) => buf[i].id < buf[Len(buf)].id
      BY <1>4, <3>1 DEF WellFormed
    <3>4. i = Len(buf) \/ i < Len(buf)
      <4>1. Len(buf) \in Nat
        BY <1>1
      <4>2. QED
        BY <4>1
    <3>5. QED
      BY <1>2, <1>3, <3>1, <3>2, <3>3, <3>4
  <2>2. \A i \in 1..Len(buf) : buf[i].id # id
    BY <1>2, <1>3, <2>1
  <2>3. QED
    BY <2>1, <2>2
<1>5. CASE CounterMode # 0
  <2>1. Holding(buf, id) = {}
    BY <1>5 DEF Duplicate
  <2>2. QED
    BY <1>1, <1>5, <2>1 DEF Holding
<1>6. QED
  BY <1>4, <1>5

LEMMA PushPreserves ==
  ASSUME IInv, NEW id \in Ids, Push(id)
  PROVE  IInv'
<1>1. /\ now \in Times \ {0} /\ now \in Int
      /\ buffer \in Seq(Entry)
      /\ WellFormed(buffer, now)
  BY RingBufferAssumption DEF IInv, TypeOK, Times
<1>2. NewEntry(id) \in Entry /\ NewEntry(id).ts = now /\ NewEntry(id).id = id
  BY <1>1 DEF NewEntry, Entry
<1>3. CASE PushNoRoom
  <2>1. PushReturns(IF AllowOverflow THEN "refused" ELSE "overflow",
                    IF AllowOverflow THEN -1 ELSE 0)
    BY <1>3 DEF PushNoRoom
  <2>2. /\ reply' \in Reply
        /\ info' \in Info
        /\ now' = now
    BY <2>1, PushReturnsTyped DEF Outcomes
  <2>3. QED
    BY <1>1, <1>3, <2>2, EmptySeq DEF PushNoRoom, IInv, TypeOK
<1>4. CASE PushBadId(id)
  <2>1. /\ reply' \in Reply
        /\ info' \in Info
        /\ now' = now
    BY <1>4, PushReturnsTyped DEF PushBadId, Outcomes
  <2>2. QED
    BY <1>1, <1>4, <2>1, RoomMade DEF PushBadId, IInv, TypeOK
<1>5. CASE PushLockedDuplicate(id)
  <2>1. /\ reply' \in Reply
        /\ info' \in Info
        /\ now' = now
    BY <1>5, PushReturnsTyped DEF PushLockedDuplicate, Outcomes
  <2>2. QED
    BY <1>1, <1>5, <2>1, RoomMade DEF PushLockedDuplicate, IInv, TypeOK
<1>6. CASE PushReplace(id)
  <2> DEFINE old  == FirstHolding(Roomy, id)
             rest == RemoveAt(Roomy, old)
             n    == [id |-> id, clear |-> FALSE, ts |-> 0]
  <2>1. /\ reply' \in Reply
        /\ info' \in Info
        /\ now' = now
    BY <1>6, RoomMade, PushReturnsTyped DEF PushReplace, Outcomes
  <2>2. /\ WellFormed(Roomy, now)
        /\ Roomy \in Seq(Entry)
        /\ Len(Roomy) \in Nat /\ Len(Roomy) < MaxSize
        /\ Discarded \in Seq(Notice)
    BY <1>6, RoomMade DEF PushReplace
  <2>3. CounterMode # 0 /\ Holding(Roomy, id) # {}
    BY <1>6 DEF PushReplace, Duplicate
  <2>4. old \in 1..Len(Roomy) /\ Roomy[old].id = id
    BY <2>2, <2>3, FirstHoldingIs
  <2>5. buffer' = Append(rest, NewEntry(id)) /\ notified' = Append(Discarded, n)
    BY <1>6 DEF PushReplace
  <2>6. n \in Notice
    BY RingBufferAssumption DEF Notice, Times
  <2> HIDE DEF n, old
  <2>7. /\ rest \in Seq(Entry)
        /\ Len(rest) = Len(Roomy) - 1
        /\ \A j \in 1..(Len(Roomy) - 1) :
             rest[j] = IF j < old THEN Roomy[j] ELSE Roomy[j + 1]
    BY <2>2, <2>4, RemoveAtProperties
  <2>8. WellFormed(rest, now)
    BY <1>1, <2>2, <2>4, ErasePreserves
  <2> HIDE DEF rest
  <2>9. ASSUME NEW j \in 1..Len(rest)
        PROVE  rest[j].id # id
    <3> DEFINE k == IF j < old THEN j ELSE j + 1
    <3>1. rest[j] = Roomy[k] /\ k \in 1..Len(Roomy) /\ k # old
      BY <2>2, <2>4, <2>7
    <3>2. QED
      BY <2>2, <2>4, <3>1 DEF WellFormed
  <2>10. Len(rest) < MaxSize
    BY <2>2, <2>7, BufferAssumption
  <2>11. WellFormed(Append(rest, NewEntry(id)), now)
    BY <1>1, <1>2, <2>3, <2>8, <2>9, <2>10, AppendPreserves
  <2>12. notified' \in Seq(Notice)
    BY <2>2, <2>5, <2>6
  <2>13. QED
    BY <1>1, <2>1, <2>5, <2>11, <2>12 DEF IInv, TypeOK, WellFormed
<1>7. CASE PushNew(id)
  <2>1. /\ reply' \in Reply
        /\ info' \in Info
        /\ now' = now
    BY <1>7, RoomMade, PushReturnsTyped DEF PushNew, Outcomes
  <2>2. /\ WellFormed(Roomy, now)
        /\ Len(Roomy) < MaxSize
        /\ Discarded \in Seq(Notice)
    BY <1>7, RoomMade DEF PushNew
  <2>3. /\ \A i \in 1..Len(Roomy) : Roomy[i].id # id
        /\ CounterMode = 0 => \A i \in 1..Len(Roomy) : Roomy[i].id < id
    BY <1>1, <1>7, <2>2, AcceptedIdIsNew DEF PushNew
  <2>4. WellFormed(Append(Roomy, NewEntry(id)), now)
    BY <1>1, <1>2, <2>2, <2>3, AppendPreserves
  <2>5. buffer' = Append(Roomy, NewEntry(id)) /\ notified' = Discarded
    BY <1>7 DEF PushNew
  <2>6. QED
    BY <1>1, <2>1, <2>2, <2>4, <2>5 DEF IInv, TypeOK, WellFormed
<1>8. QED
  BY <1>3, <1>4, <1>5, <1>6, <1>7 DEF Push

LEMMA DeletePreserves ==
  ASSUME IInv, NEW id \in Ids, Delete(id)
  PROVE  IInv'
<1>1. /\ now \in Times \ {0} /\ now \in Int
      /\ buffer \in Seq(Entry)
      /\ WellFormed(buffer, now)
  BY RingBufferAssumption DEF IInv, TypeOK, Times
<1>2. /\ now' = now
      /\ reply' \in Reply
      /\ info' \in Info
  BY RingBufferAssumption
     DEF Delete, Returns, Reply, Operations, Outcomes, Info, NoInfo, Times
<1>3. CASE Found(buffer, id) # {}
  <2> DEFINE i == FirstHolding(buffer, id)
             n == [id |-> id, clear |-> FALSE, ts |-> 0]
  <2>1. Holding(buffer, id) # {}
    BY <1>3 DEF Found
  <2>2. i \in 1..Len(buffer)
    BY <1>1, <2>1, FirstHoldingIs
  <2>3. buffer' = RemoveAt(buffer, i) /\ notified' = <<n>>
    BY <1>3 DEF Delete
  <2>4. n \in Notice
    BY RingBufferAssumption DEF Notice, Times
  <2> HIDE DEF i, n
  <2>5. WellFormed(RemoveAt(buffer, i), now)
    BY <1>1, <2>2, ErasePreserves
  <2>6. notified' \in Seq(Notice)
    BY <2>3, <2>4
  <2>7. QED
    BY <1>1, <1>2, <2>3, <2>5, <2>6 DEF IInv, TypeOK, WellFormed
<1>4. CASE Found(buffer, id) = {}
  <2>1. notified' = <<>> /\ buffer' = buffer
    BY <1>4 DEF Delete
  <2>2. QED
    BY <1>1, <1>2, <2>1, EmptySeq DEF IInv, TypeOK
<1>5. QED
  BY <1>3, <1>4

LEMMA ResetPreserves ==
  ASSUME IInv, Reset
  PROVE  IInv'
<1>1. /\ now \in Times \ {0}
      /\ buffer \in Seq(Entry)
      /\ Len(buffer) \in Nat
  BY LenProperties DEF IInv, TypeOK
<1>2. /\ now' = now
      /\ reply' \in Reply
  BY DEF Reset, Returns, Reply, Operations, Outcomes
<1>3. buffer' \in Seq(Entry) /\ Len(buffer') = 0
  BY EmptySeq DEF Reset
<1>4. WellFormed(buffer', now')
  BY <1>3, BufferAssumption DEF WellFormed
<1>5. CASE buffer # <<>>
  <2> DEFINE n == [id |-> 0, clear |-> TRUE, ts |-> 0]
             r == [time |-> now, oldest |-> Head(buffer).ts,
                   newest |-> Last(buffer).ts, count |-> Len(buffer)]
  <2>1. notified' = <<n>> /\ info' = r
    BY <1>5 DEF Reset
  <2>2. n \in Notice
    BY RingBufferAssumption DEF Notice, Times
  <2>3. r \in Info
    <3>1. Head(buffer) \in Entry
      BY <1>1, <1>5, HeadTailProperties
    <3>2. Len(buffer) \in 1..Len(buffer)
      BY <1>1, <1>5, EmptySeq
    <3>3. Last(buffer) \in Entry
      BY <1>1, <3>2, ElementOfSeq DEF Last
    <3>4. Head(buffer).ts \in Times /\ Last(buffer).ts \in Times
      BY <3>1, <3>3 DEF Entry
    <3>5. QED
      BY <1>1, <3>4 DEF Info
  <2> HIDE DEF n, r
  <2>4. QED
    BY <1>1, <1>2, <1>3, <1>4, <2>1, <2>2, <2>3 DEF IInv, TypeOK, WellFormed
<1>6. CASE buffer = <<>>
  <2>1. notified' = <<>> /\ info' = NoInfo
    BY <1>6 DEF Reset
  <2>2. info' \in Info /\ notified' \in Seq(Notice)
    BY <2>1, RingBufferAssumption, EmptySeq DEF Info, NoInfo, Times
  <2>3. QED
    BY <1>1, <1>2, <1>3, <1>4, <2>2 DEF IInv, TypeOK, WellFormed
<1>7. QED
  BY <1>5, <1>6

LEMMA LockEntryPreserves ==
  ASSUME IInv, NEW i \in DOMAIN buffer, LockEntry(i)
  PROVE  IInv'
<1>1. /\ now \in Times \ {0} /\ now \in Int
      /\ buffer \in Seq(Entry)
      /\ i \in 1..Len(buffer)
      /\ WellFormed(buffer, now)
  BY LenProperties, RingBufferAssumption DEF IInv, TypeOK, Times
<1>2. /\ now' = now
      /\ reply' \in Reply
      /\ info' \in Info
      /\ notified' \in Seq(Notice)
  BY RingBufferAssumption, EmptySeq
     DEF LockEntry, Returns, Reply, Operations, Outcomes, Info, NoInfo, Times
<1>3. WellFormed(buffer', now)
  BY <1>1, LockPreserves DEF LockEntry
<1>4. QED
  BY <1>1, <1>2, <1>3 DEF IInv, TypeOK, WellFormed

LEMMA TickPreserves ==
  ASSUME IInv, NEW t \in Times \ {0}, Tick(t)
  PROVE  IInv'
<1>1. /\ now \in Times \ {0} /\ now \in Int /\ t \in Int
      /\ WellFormed(buffer, now)
  BY RingBufferAssumption DEF IInv, TypeOK, Times
<1>2. /\ now' = t
      /\ buffer' = buffer
      /\ reply' \in Reply
      /\ info' \in Info
      /\ notified' \in Seq(Notice)
  BY RingBufferAssumption, EmptySeq
     DEF Tick, Reply, Operations, Outcomes, Info, NoInfo, Times
<1>3. WellFormed(buffer, t)
  BY <1>1, TimePasses DEF Tick
<1>4. QED
  BY <1>1, <1>2, <1>3 DEF IInv, TypeOK

LEMMA NextPreserves == IInv /\ [Next]_vars => IInv'
<1> SUFFICES ASSUME IInv, [Next]_vars
             PROVE  IInv'
  OBVIOUS
<1>1. ASSUME NEW id \in Ids, Push(id)
      PROVE  IInv'
  BY <1>1, PushPreserves
<1>2. ASSUME NEW id \in Ids, Delete(id)
      PROVE  IInv'
  BY <1>2, DeletePreserves
<1>3. CASE Reset
  BY <1>3, ResetPreserves
<1>4. ASSUME NEW i \in DOMAIN buffer, LockEntry(i)
      PROVE  IInv'
  BY <1>4, LockEntryPreserves
<1>5. ASSUME NEW t \in Times \ {0}, Tick(t)
      PROVE  IInv'
  BY <1>5, TickPreserves
<1>6. CASE UNCHANGED vars
  BY <1>6 DEF vars, IInv, TypeOK
<1>7. QED
  BY <1>1, <1>2, <1>3, <1>4, <1>5, <1>6 DEF Next

LEMMA Inductive == Spec => []IInv
<1>1. QED
  BY InitEstablishes, NextPreserves, PTL DEF Spec

-----------------------------------------------------------------------------
(* The theorems. *)

\* Every variable of the ring buffer keeps its type, for every capacity,
\* counter mode and overflow policy.
THEOREM TypeCorrect == Spec => []TypeOK
<1>1. IInv => TypeOK
  BY DEF IInv
<1>2. QED
  BY <1>1, Inductive, PTL

\* Push never stores more than kMaxSize_ entries, however many are locked.
THEOREM NeverTooMany == Spec => []WithinCapacity
<1>1. IInv => WithinCapacity
  BY DEF IInv, WellFormed, WithinCapacity
<1>2. QED
  BY <1>1, Inductive, PTL

\* No id is stored twice, in either counter mode.
THEOREM IdsAreUnique == Spec => []UniqueIds
<1>1. IInv => UniqueIds
  BY LenProperties DEF IInv, WellFormed, UniqueIds
<1>2. QED
  BY <1>1, Inductive, PTL

\* Counter mode 0 keeps the entries sorted by id, which Delete relies on.
THEOREM IdsAreSorted == Spec => []IdsIncrease
<1>1. IInv => IdsIncrease
  BY LenProperties DEF IInv, WellFormed, IdsIncrease
<1>2. QED
  BY <1>1, Inductive, PTL

\* As long as the clock is not set back, the oldest entry is at the front and
\* the newest at the back.
THEOREM EntriesInTimeOrder == Spec => []TimeOrdered
<1>1. IInv => TimeOrdered
  BY LenProperties DEF IInv, WellFormed, TimeOrdered
<1>2. QED
  BY <1>1, Inductive, PTL
-----------------------------------------------------------------------------
(* What a call may never do: the action properties of RingBuffer.  Each       *)
(* follows from IInv and from what erasing or appending an entry leaves in the *)
(* deque.                                                                      *)

\* Ids and timestamps are integers.
LEMMA FieldsTyped ==
  ASSUME NEW s \in Seq(Entry), NEW k \in 1..Len(s)
  PROVE  s[k] \in Entry /\ s[k].id \in Int /\ s[k].ts \in Int
<1>1. s[k] \in Entry
  BY ElementOfSeq
<1>2. s[k].id \in Ids /\ s[k].ts \in Times
  BY <1>1 DEF Entry
<1>3. Ids \subseteq Int /\ Times \subseteq Int
  BY RingBufferAssumption DEF Times
<1>4. QED
  BY <1>1, <1>2, <1>3

\* Making room costs an unlocked entry of a full buffer, or nothing.
LEMMA RoomCosts ==
  ASSUME IInv, CanMakeRoom
  PROVE  \/ /\ ~Full(buffer)
            /\ Roomy = buffer
            /\ Discarded = <<>>
         \/ /\ AllowOverflow /\ Full(buffer)
            /\ OldestUnlocked(buffer) \in Unlocked(buffer)
            /\ Roomy = RemoveAt(buffer, OldestUnlocked(buffer))
<1>1. CASE ~Full(buffer)
  BY <1>1 DEF Roomy, Discarded
<1>2. CASE Full(buffer)
  <2>1. AllowOverflow /\ Unlocked(buffer) # {}
    BY <1>2 DEF CanMakeRoom
  <2>2. buffer \in Seq(Entry)
    BY DEF IInv, TypeOK
  <2>3. OldestUnlocked(buffer) \in Unlocked(buffer)
    BY <2>1, <2>2, OldestUnlockedIs, LenProperties DEF Unlocked
  <2>4. QED
    BY <1>2, <2>1, <2>3 DEF Roomy
<1>3. QED
  BY <1>1, <1>2

\* The entry that Push stores is an Entry.
LEMMA NewEntryTyped ==
  ASSUME IInv, NEW id \in Ids
  PROVE  NewEntry(id) \in Entry
<1>1. QED
  BY DEF IInv, TypeOK, NewEntry, Entry

\* Only Push reports a Push.
LEMMA OnlyPush ==
  ASSUME Next, reply'.op = "Push"
  PROVE  \E id \in Ids : Push(id)
<1>1. ASSUME NEW id \in Ids, Delete(id)
      PROVE  FALSE
  BY <1>1 DEF Delete, Returns
<1>2. CASE Reset
  BY <1>2 DEF Reset, Returns
<1>3. ASSUME NEW i \in DOMAIN buffer, LockEntry(i)
      PROVE  FALSE
  BY <1>3 DEF LockEntry, Returns
<1>4. ASSUME NEW t \in Times \ {0}, Tick(t)
      PROVE  FALSE
  BY <1>4 DEF Tick
<1>5. QED
  BY <1>1, <1>2, <1>3, <1>4 DEF Next

-----------------------------------------------------------------------------
(* Locked entries. *)

\* Whatever Push discards or overrides, a locked entry stays as it is.
LEMMA PushKeepsLocked ==
  ASSUME IInv, NEW id \in Ids, Push(id),
         NEW e \in ToSet(buffer), e.locked
  PROVE  e \in ToSet(buffer')
<1>1. buffer \in Seq(Entry) /\ DOMAIN buffer = 1..Len(buffer)
  BY LenProperties DEF IInv, TypeOK
<1>2. PICK k \in 1..Len(buffer) : e = buffer[k]
  BY <1>1 DEF ToSet
<1>3. CASE PushNoRoom
  BY <1>3 DEF PushNoRoom
<1>4. ASSUME CanMakeRoom
      PROVE  e \in ToSet(Roomy)
  <2>1. CASE Roomy = buffer
    BY <2>1
  <2>2. CASE /\ OldestUnlocked(buffer) \in Unlocked(buffer)
             /\ Roomy = RemoveAt(buffer, OldestUnlocked(buffer))
    <3>1. OldestUnlocked(buffer) \in 1..Len(buffer)
      BY <1>1, <2>2 DEF Unlocked
    <3>2. k # OldestUnlocked(buffer)
      BY <1>2, <2>2 DEF Unlocked
    <3>3. QED
      BY <1>1, <1>2, <2>2, <3>1, <3>2, EraseKeeps
  <2>3. QED
    BY <1>4, <2>1, <2>2, RoomCosts
<1>5. CASE PushBadId(id) \/ PushLockedDuplicate(id)
  BY <1>4, <1>5 DEF PushBadId, PushLockedDuplicate
<1>6. CASE PushReplace(id)
  <2> DEFINE i == FirstHolding(Roomy, id)
             rest == RemoveAt(Roomy, i)
  <2>1. CanMakeRoom /\ Roomy \in Seq(Entry)
    BY <1>6, RoomMade DEF PushReplace
  <2>2. i \in 1..Len(Roomy) /\ ~Roomy[i].locked
    BY <1>6, <2>1, FirstHoldingIs DEF PushReplace, Duplicate
  <2>3. buffer' = Append(rest, NewEntry(id))
    BY <1>6 DEF PushReplace
  <2> HIDE DEF i
  <2>4. PICK j \in 1..Len(Roomy) : e = Roomy[j]
    BY <1>4, <2>1, LenProperties DEF ToSet
  <2>5. e \in ToSet(rest)
    BY <2>1, <2>2, <2>4, EraseKeeps
  <2>6. rest \in Seq(Entry)
    BY <2>1, <2>2, RemoveAtProperties
  <2> HIDE DEF rest
  <2>7. QED
    BY <2>3, <2>5, <2>6, NewEntryTyped, AppendKeeps
<1>7. CASE PushNew(id)
  <2>1. CanMakeRoom /\ Roomy \in Seq(Entry)
    BY <1>7, RoomMade DEF PushNew
  <2>2. buffer' = Append(Roomy, NewEntry(id))
    BY <1>7 DEF PushNew
  <2>3. QED
    BY <1>4, <2>1, <2>2, NewEntryTyped, AppendKeeps
<1>8. QED
  BY <1>3, <1>5, <1>6, <1>7 DEF Push

\* No Push removes or changes a locked entry (include/types.hpp), for every
\* capacity, counter mode and overflow policy.
THEOREM LockedAreKept == Spec => LockedSurvives
<1>1. ASSUME IInv, Next, reply'.op = "Push",
             NEW e \in ToSet(buffer), e.locked
      PROVE  e \in ToSet(buffer')
  BY <1>1, OnlyPush, PushKeepsLocked
<1>2. IInv /\ [Next]_vars =>
        [reply'.op = "Push" =>
           \A e \in ToSet(buffer) : e.locked => e \in ToSet(buffer')]_vars
  BY <1>1
<1>3. QED
  BY <1>2, Inductive, PTL DEF Spec, LockedSurvives

-----------------------------------------------------------------------------
(* Failing pushes. *)

\* A Push that fails stores nothing and costs at most one entry, an unlocked
\* one of a full buffer; the others keep their order.
THEOREM FailuresCostOne == Spec => FailedPushKeeps
<1>1. ASSUME IInv, NEW id \in Ids, Push(id), reply'.outcome # "stored"
      PROVE  \/ buffer' = buffer
             \/ /\ AllowOverflow /\ Full(buffer)
                /\ \E i \in Unlocked(buffer) : buffer' = RemoveAt(buffer, i)
  <2>1. CASE PushNoRoom
    BY <2>1 DEF PushNoRoom
  <2>2. CASE PushBadId(id) \/ PushLockedDuplicate(id)
    <3>1. CanMakeRoom /\ buffer' = Roomy
      BY <2>2 DEF PushBadId, PushLockedDuplicate
    <3>2. QED
      BY <1>1, <3>1, RoomCosts
  <2>3. CASE PushReplace(id) \/ PushNew(id)
    BY <1>1, <2>3 DEF PushReplace, PushNew, PushReturns
  <2>4. QED
    BY <1>1, <2>1, <2>2, <2>3 DEF Push
<1>2. IInv /\ [Next]_vars =>
        [reply'.op = "Push" /\ reply'.outcome # "stored" =>
           \/ buffer' = buffer
           \/ /\ AllowOverflow /\ Full(buffer)
              /\ \E i \in Unlocked(buffer) : buffer' = RemoveAt(buffer, i)]_vars
  BY <1>1, OnlyPush
<1>3. QED
  BY <1>2, Inductive, PTL DEF Spec, FailedPushKeeps

-----------------------------------------------------------------------------
(* Nothing is lost while overflow is disallowed. *)

\* A Push keeps every stored id, because it discards nothing, and what it
\* overrides it stores again under the same id.
THEOREM StoredIdsStay ==
  ASSUME ~AllowOverflow
  PROVE  Spec => StoredUntilDeleted
<1>1. ASSUME IInv, NEW id \in Ids, Push(id),
             NEW k \in 1..Len(buffer)
      PROVE  \E e \in ToSet(buffer') : e.id = buffer[k].id
  <2>1. buffer \in Seq(Entry) /\ DOMAIN buffer = 1..Len(buffer)
    BY <1>1, LenProperties DEF IInv, TypeOK
  <2>2. buffer[k] \in ToSet(buffer)
    BY <2>1 DEF ToSet
  <2>3. CanMakeRoom => Roomy = buffer
    BY <1>1, RoomCosts
  <2>4. CASE PushNoRoom \/ PushBadId(id) \/ PushLockedDuplicate(id)
    BY <2>2, <2>3, <2>4 DEF PushNoRoom, PushBadId, PushLockedDuplicate
  <2>5. CASE PushReplace(id)
    <3> DEFINE i == FirstHolding(buffer, id)
               rest == RemoveAt(buffer, i)
    <3>1. /\ i \in 1..Len(buffer)
          /\ buffer[i].id = id
          /\ buffer' = Append(rest, NewEntry(id))
      BY <2>1, <2>3, <2>5, FirstHoldingIs DEF PushReplace, Duplicate
    <3> HIDE DEF i
    <3>2. rest \in Seq(Entry)
      BY <2>1, <3>1, RemoveAtProperties
    <3>3. k # i => buffer[k] \in ToSet(rest)
      BY <2>1, <3>1, EraseKeeps
    <3> HIDE DEF rest
    <3>4. ToSet(buffer') = ToSet(rest) \cup {NewEntry(id)}
      BY <1>1, <3>1, <3>2, NewEntryTyped, AppendKeeps
    <3>5. NewEntry(id).id = id
      BY DEF NewEntry
    <3>6. QED
      BY <3>1, <3>3, <3>4, <3>5
  <2>6. CASE PushNew(id)
    <3>1. buffer' = Append(buffer, NewEntry(id))
      BY <2>3, <2>6 DEF PushNew
    <3>2. ToSet(buffer') = ToSet(buffer) \cup {NewEntry(id)}
      BY <1>1, <2>1, <3>1, NewEntryTyped, AppendKeeps
    <3>3. QED
      BY <2>2, <3>2
  <2>7. QED
    BY <1>1, <2>4, <2>5, <2>6 DEF Push
<1>2. ASSUME IInv, NEW id \in Ids, Push(id)
      PROVE  IdsOf(buffer) \subseteq IdsOf(buffer')
  <2>1. buffer \in Seq(Entry) /\ DOMAIN buffer = 1..Len(buffer)
    BY <1>2, LenProperties DEF IInv, TypeOK
  <2>2. QED
    BY <1>1, <1>2, <2>1 DEF IdsOf, ToSet
<1>3. IInv /\ [Next]_vars =>
        [reply'.op = "Push" => IdsOf(buffer) \subseteq IdsOf(buffer')]_vars
  BY <1>2, OnlyPush
<1>4. QED
  BY <1>3, Inductive, PTL DEF Spec, StoredUntilDeleted

-----------------------------------------------------------------------------
(* Delete and Reset. *)

\* Delete removes the entry with the id and no other one: its early exit in
\* counter mode 0 never misses an entry, since the ids are sorted.
THEOREM DeletesExactly == Spec => DeleteIsExact
<1>1. ASSUME IInv, NEW id \in Ids, Delete(id)
      PROVE  ToSet(buffer') = {e \in ToSet(buffer) : e.id # id}
  <2>1. /\ buffer \in Seq(Entry)
        /\ Len(buffer) \in Nat
        /\ DOMAIN buffer = 1..Len(buffer)
        /\ \A i, j \in 1..Len(buffer) : buffer[i].id = buffer[j].id => i = j
        /\ CounterMode = 0 =>
             \A i, j \in 1..Len(buffer) :
               i < j => buffer[i].id < buffer[j].id
    BY <1>1, LenProperties DEF IInv, WellFormed
  <2>2. \A k \in 1..Len(buffer) : buffer[k].id \in Int
    BY <2>1, FieldsTyped
  <2>3. Found(buffer, id) = Holding(buffer, id)
    <3>1. ASSUME NEW i \in Holding(buffer, id), CounterMode = 0,
                 NEW j \in 1..(i - 1)
          PROVE  buffer[j].id <= id
      <4>1. i \in 1..Len(buffer) /\ buffer[i].id = id
        BY <2>1 DEF Holding
      <4>2. j \in 1..Len(buffer) /\ j < i
        BY <2>1, <4>1
      <4>3. buffer[j].id < buffer[i].id
        BY <2>1, <3>1, <4>1, <4>2
      <4>4. QED
        BY <2>2, <4>1, <4>2, <4>3
    <3>2. QED
      BY <3>1 DEF Found
  <2>4. CASE Holding(buffer, id) # {}
    <3> DEFINE i == FirstHolding(buffer, id)
    <3>1. i \in 1..Len(buffer) /\ buffer[i].id = id
      BY <2>1, <2>4, FirstHoldingIs
    <3>2. buffer' = RemoveAt(buffer, i)
      BY <1>1, <2>3, <2>4 DEF Delete
    <3> HIDE DEF i
    <3>3. \A k \in 1..Len(buffer) : k # i <=> buffer[k].id # id
      BY <2>1, <3>1
    <3>4. ASSUME NEW e \in ToSet(buffer), e.id # id
          PROVE  e \in ToSet(buffer')
      <4>1. PICK k \in 1..Len(buffer) : e = buffer[k]
        BY <2>1 DEF ToSet
      <4>2. QED
        BY <2>1, <3>1, <3>2, <3>4, <4>1, EraseKeeps
    <3>5. ASSUME NEW e \in ToSet(buffer')
          PROVE  e \in ToSet(buffer) /\ e.id # id
      <4>1. PICK k \in 1..Len(buffer) : k # i /\ e = buffer[k]
        BY <2>1, <3>1, <3>2, <3>5, EraseKeeps
      <4>2. QED
        BY <2>1, <3>3, <4>1 DEF ToSet
    <3>6. QED
      BY <3>4, <3>5
  <2>5. CASE Holding(buffer, id) = {}
    <3>1. buffer' = buffer
      BY <1>1, <2>3, <2>5 DEF Delete
    <3>2. \A e \in ToSet(buffer) : e.id # id
      BY <2>5 DEF Holding, ToSet
    <3>3. QED
      BY <3>1, <3>2
  <2>6. QED
    BY <2>4, <2>5
<1>2. IInv /\ [Next]_vars =>
        [\A id \in Ids : Delete(id) =>
           ToSet(buffer') = {e \in ToSet(buffer) : e.id # id}]_vars
  BY <1>1
<1>3. QED
  BY <1>2, Inductive, PTL DEF Spec, DeleteIsExact

\* With a steady clock, the report of a Reset counts every entry it deletes,
\* and their times lie between the two it names.
THEOREM ReportsCover ==
  ASSUME SteadyClock
  PROVE  Spec => ResetReportCovers
<1>1. ASSUME IInv, Reset, info' # NoInfo
      PROVE  /\ info'.count = Len(buffer)
             /\ \A e \in ToSet(buffer) :
                  info'.oldest <= e.ts /\ e.ts <= info'.newest
             /\ info'.newest <= info'.time
  <2>1. /\ buffer \in Seq(Entry)
        /\ Len(buffer) \in Nat
        /\ DOMAIN buffer = 1..Len(buffer)
        /\ \A i, j \in 1..Len(buffer) : i < j => buffer[i].ts <= buffer[j].ts
        /\ \A i \in 1..Len(buffer) : buffer[i].ts <= now
    BY <1>1, LenProperties DEF IInv, WellFormed
  <2>2. \A k \in 1..Len(buffer) : buffer[k].ts \in Int
    BY <2>1, FieldsTyped
  <2>3. /\ buffer # <<>>
        /\ info'.time = now /\ info'.count = Len(buffer)
        /\ info'.oldest = Head(buffer).ts /\ info'.newest = Last(buffer).ts
    BY <1>1 DEF Reset
  <2>4. Len(buffer) >= 1
    BY <2>1, <2>3, EmptySeq
  <2>5. Head(buffer) = buffer[1] /\ Last(buffer) = buffer[Len(buffer)]
    BY <2>1, <2>3, HeadTailProperties DEF Last
  <2>6. ASSUME NEW k \in 1..Len(buffer)
        PROVE  buffer[1].ts <= buffer[k].ts
               /\ buffer[k].ts <= buffer[Len(buffer)].ts
    <3>1. 1 \in 1..Len(buffer) /\ Len(buffer) \in 1..Len(buffer)
      BY <2>1, <2>4
    <3>2. /\ k = 1 \/ 1 < k
          /\ k = Len(buffer) \/ k < Len(buffer)
      <4>1. Len(buffer) \in Nat
        BY <2>1
      <4>2. QED
        BY <4>1
    <3>3. \A i, j \in 1..Len(buffer) :
            i = j \/ i < j => buffer[i].ts <= buffer[j].ts
      BY <2>1, <2>2
    <3>4. QED
      BY <3>1, <3>2, <3>3
  <2>7. Len(buffer) \in 1..Len(buffer)
    BY <2>1, <2>4
  <2>8. QED
    BY <2>1, <2>3, <2>5, <2>6, <2>7 DEF ToSet
<1>2. ASSUME Next, info' # NoInfo
      PROVE  Reset
  <2>1. ASSUME NEW id \in Ids, Push(id)
        PROVE  info' = NoInfo
    BY <2>1 DEF Push, PushNoRoom, PushBadId, PushLockedDuplicate,
                PushReplace, PushNew, PushReturns
  <2>2. QED
    BY <1>2, <2>1 DEF Next, Delete, LockEntry, Tick
<1>3. IInv /\ [Next]_vars =>
        [info' # NoInfo =>
           /\ info'.count = Len(buffer)
           /\ \A e \in ToSet(buffer) :
                info'.oldest <= e.ts /\ e.ts <= info'.newest
           /\ info'.newest <= info'.time]_vars
  BY <1>1, <1>2
<1>4. QED
  BY <1>3, Inductive, PTL DEF Spec, ResetReportCovers

-----------------------------------------------------------------------------
(* The delete callbacks. *)

\* The sequences of callbacks that occur: none, one, and one more.
LEMMA ShortSequences ==
  /\ ToSet(<<>>) = {} /\ Len(<<>>) = 0
  /\ \A n : ToSet(<<n>>) = {n} /\ Len(<<n>>) = 1
<1>1. QED
  BY DEF ToSet

\* The ids of a deque are the ids of its entries.
LEMMA IdsOfSet ==
  \A s, x : x \in IdsOf(s) <=> \E e \in ToSet(s) : e.id = x
<1>1. QED
  BY DEF IdsOf, ToSet

\* Erasing an entry of a deque without duplicates erases its id.
LEMMA EraseIds ==
  ASSUME NEW S, NEW s \in Seq(S), NEW i \in 1..Len(s),
         \A j, k \in 1..Len(s) : s[j].id = s[k].id => j = k
  PROVE  IdsOf(RemoveAt(s, i)) = IdsOf(s) \ {s[i].id}
<1> DEFINE r == RemoveAt(s, i)
<1>1. DOMAIN s = 1..Len(s)
  BY LenProperties
<1>2. /\ \A k \in 1..Len(s) : k # i => s[k] \in ToSet(r)
      /\ \A e \in ToSet(r) : \E k \in 1..Len(s) : k # i /\ e = s[k]
  BY EraseKeeps
<1> HIDE DEF r
<1>3. ASSUME NEW x \in IdsOf(r)
      PROVE  x \in IdsOf(s) /\ x # s[i].id
  <2>1. PICK e \in ToSet(r) : e.id = x
    BY <1>3, IdsOfSet
  <2>2. PICK k \in 1..Len(s) : k # i /\ e = s[k]
    BY <1>2
  <2>3. QED
    BY <1>1, <2>1, <2>2 DEF IdsOf
<1>4. ASSUME NEW x \in IdsOf(s), x # s[i].id
      PROVE  x \in IdsOf(r)
  <2>1. PICK k \in 1..Len(s) : s[k].id = x
    BY <1>1 DEF IdsOf
  <2>2. s[k] \in ToSet(r)
    BY <1>2, <1>4, <2>1
  <2>3. QED
    BY <2>1, <2>2, IdsOfSet
<1>5. QED
  BY <1>3, <1>4 DEF r

\* What Push discards to make room is reported: the oldest unlocked entry of
\* a full buffer, with the time of the overflow.
LEMMA RoomNotified ==
  ASSUME IInv, CanMakeRoom
  PROVE  /\ Len(Roomy) = Len(buffer) - Len(Discarded)
         /\ IdsOf(Roomy) \subseteq IdsOf(buffer)
         /\ IdsOf(buffer) \subseteq IdsOf(Roomy) \cup IdsOf(Discarded)
         /\ \A n \in ToSet(Discarded) :
              /\ ~n.clear
              /\ n.id \in IdsOf(buffer) \ IdsOf(Roomy)
              /\ AllowOverflow /\ Full(buffer)
              /\ \E i \in DOMAIN buffer :
                   /\ buffer[i].id = n.id /\ ~buffer[i].locked
                   /\ \A j \in 1..(i - 1) : buffer[j].locked
<1>1. /\ buffer \in Seq(Entry)
      /\ Len(buffer) \in Nat
      /\ DOMAIN buffer = 1..Len(buffer)
      /\ \A i, j \in 1..Len(buffer) : buffer[i].id = buffer[j].id => i = j
  BY LenProperties DEF IInv, WellFormed
<1>2. CASE ~Full(buffer)
  <2>1. Roomy = buffer /\ Discarded = <<>>
    BY <1>2 DEF Roomy, Discarded
  <2>2. QED
    BY <1>1, <2>1, ShortSequences
<1>3. CASE Full(buffer)
  <2> DEFINE i == OldestUnlocked(buffer)
             n == [id |-> buffer[i].id, clear |-> FALSE, ts |-> now]
  <2>1. AllowOverflow /\ Unlocked(buffer) # {}
    BY <1>3 DEF CanMakeRoom
  <2>2. /\ i \in 1..Len(buffer)
        /\ ~buffer[i].locked
        /\ \A j \in 1..(i - 1) : buffer[j].locked
    BY <1>1, <2>1, OldestUnlockedIs
  <2>3. Roomy = RemoveAt(buffer, i) /\ Discarded = <<n>>
    BY <1>3 DEF Roomy, Discarded
  <2>4. n.id = buffer[i].id /\ ~n.clear
    OBVIOUS
  <2> HIDE DEF i, n
  <2>5. ToSet(Discarded) = {n} /\ Len(Discarded) = 1
    BY <2>3, ShortSequences
  <2>6. Len(Roomy) = Len(buffer) - 1
    BY <1>1, <2>2, <2>3, RemoveAtProperties
  <2>7. IdsOf(Roomy) = IdsOf(buffer) \ {n.id}
    BY <1>1, <2>2, <2>3, <2>4, EraseIds
  <2>8. n.id \in IdsOf(Discarded)
    BY <2>5, IdsOfSet
  <2>9. n.id \in IdsOf(buffer)
    BY <1>1, <2>2, <2>4 DEF IdsOf
  <2>10. QED
    BY <1>1, <1>3, <2>1, <2>2, <2>4, <2>5, <2>6, <2>7, <2>8, <2>9
<1>4. QED
  BY <1>2, <1>3

\* An overflow is reported for a full buffer only, and for its oldest entry
\* that is not locked.
THEOREM OverflowTakesOldest == Spec => OldestUnlockedFirst
<1> DEFINE Oldest(n) ==
      /\ reply'.op = "Push" /\ AllowOverflow /\ Full(buffer)
      /\ \E i \in DOMAIN buffer :
           /\ buffer[i].id = n.id /\ ~buffer[i].locked
           /\ \A j \in 1..(i - 1) : buffer[j].locked
<1>1. ASSUME IInv, NEW id \in Ids, Push(id),
             NEW n \in ToSet(notified'), n.ts # 0
      PROVE  Oldest(n)
  <2>1. reply'.op = "Push"
    BY <1>1 DEF Push, PushNoRoom, PushBadId, PushLockedDuplicate,
                PushReplace, PushNew, PushReturns
  <2>2. CASE PushNoRoom
    BY <1>1, <2>2, ShortSequences DEF PushNoRoom
  <2>3. CASE PushBadId(id) \/ PushLockedDuplicate(id) \/ PushNew(id)
    <3>1. CanMakeRoom /\ n \in ToSet(Discarded)
      BY <1>1, <2>3 DEF PushBadId, PushLockedDuplicate, PushNew
    <3>2. QED
      BY <1>1, <2>1, <3>1, RoomNotified
  <2>4. CASE PushReplace(id)
    <3> DEFINE m == [id |-> id, clear |-> FALSE, ts |-> 0]
    <3>1. CanMakeRoom /\ notified' = Append(Discarded, m)
      BY <2>4 DEF PushReplace
    <3>2. m \in Notice
      BY RingBufferAssumption DEF Notice, Times
    <3>3. m.ts = 0
      OBVIOUS
    <3> HIDE DEF m
    <3>4. Discarded \in Seq(Notice)
      BY <1>1, <3>1, RoomMade
    <3>5. ToSet(notified') = ToSet(Discarded) \cup {m}
      BY <3>1, <3>2, <3>4, AppendKeeps
    <3>6. n \in ToSet(Discarded)
      BY <1>1, <3>3, <3>5
    <3>7. QED
      BY <1>1, <2>1, <3>1, <3>6, RoomNotified
  <2>5. QED
    BY <1>1, <2>2, <2>3, <2>4 DEF Push
<1>2. ASSUME NEW id \in Ids, Delete(id), NEW n \in ToSet(notified')
      PROVE  n.ts = 0
  BY <1>2, ShortSequences DEF Delete
<1>3. ASSUME Reset, NEW n \in ToSet(notified')
      PROVE  n.ts = 0
  BY <1>3, ShortSequences DEF Reset
<1>4. ASSUME NEW i \in DOMAIN buffer, LockEntry(i), NEW n \in ToSet(notified')
      PROVE  FALSE
  BY <1>4, ShortSequences DEF LockEntry
<1>5. ASSUME NEW t \in Times \ {0}, Tick(t), NEW n \in ToSet(notified')
      PROVE  FALSE
  BY <1>5, ShortSequences DEF Tick
<1>6. IInv /\ [Next]_vars =>
        [\A n \in ToSet(notified') : n.ts # 0 => Oldest(n)]_vars
  BY <1>1, <1>2, <1>3, <1>4, <1>5 DEF Next
<1>7. QED
  BY <1>6, Inductive, PTL DEF Spec, OldestUnlockedFirst

\* The callbacks of a step are exactly the entries that left the deque.
THEOREM RemovalsAreNotified == Spec => RemovalsNotified
<1> DEFINE clear  == \E n \in ToSet(notified') : n.clear
           leaves == IF clear THEN Len(buffer) ELSE Len(notified')
           enters == IF reply'.outcome = "stored" THEN 1 ELSE 0
           Told ==
             /\ Len(buffer') = Len(buffer) - leaves + enters
             /\ clear \/ IdsOf(buffer) \subseteq IdsOf(buffer') \cup IdsOf(notified')
             /\ \A n \in ToSet(notified') : ~n.clear =>
                  /\ n.id \in IdsOf(buffer)
                  /\ n.id \in IdsOf(buffer') => enters = 1 /\ Last(buffer').id = n.id
<1>1. ASSUME IInv
      PROVE  /\ buffer \in Seq(Entry)
             /\ Len(buffer) \in Nat
             /\ DOMAIN buffer = 1..Len(buffer)
             /\ \A i, j \in 1..Len(buffer) :
                  buffer[i].id = buffer[j].id => i = j
  BY <1>1, LenProperties DEF IInv, WellFormed
<1>2. ASSUME IInv, notified' = <<>>, Len(buffer') = Len(buffer),
             IdsOf(buffer') = IdsOf(buffer), reply'.outcome # "stored"
      PROVE  Told
  <2>1. ToSet(notified') = {} /\ Len(notified') = 0
    BY <1>2, ShortSequences
  <2>2. ~clear /\ leaves = 0 /\ enters = 0
    BY <1>2, <2>1
  <2> HIDE DEF clear, leaves, enters
  <2>3. Len(buffer') = Len(buffer) - leaves + enters
    BY <1>1, <1>2, <2>2
  <2>4. QED
    BY <1>2, <2>1, <2>3
<1>3. ASSUME IInv, NEW id \in Ids, Push(id)
      PROVE  Told
  <2>1. CASE PushNoRoom
    BY <1>2, <1>3, <2>1 DEF PushNoRoom, PushReturns
  <2>2. ASSUME CanMakeRoom
        PROVE  /\ Roomy \in Seq(Entry) /\ Len(Roomy) \in Nat
               /\ Discarded \in Seq(Notice) /\ Len(Discarded) \in Nat
               /\ Len(Roomy) = Len(buffer) - Len(Discarded)
               /\ IdsOf(Roomy) \subseteq IdsOf(buffer)
               /\ IdsOf(buffer) \subseteq IdsOf(Roomy) \cup IdsOf(Discarded)
               /\ \A n \in ToSet(Discarded) :
                    ~n.clear /\ n.id \in IdsOf(buffer) \ IdsOf(Roomy)
    BY <1>3, <2>2, RoomMade, RoomNotified
  <2>3. CASE PushBadId(id) \/ PushLockedDuplicate(id)
    <3>1. /\ CanMakeRoom /\ notified' = Discarded /\ buffer' = Roomy
          /\ reply'.outcome # "stored"
      BY <2>3 DEF PushBadId, PushLockedDuplicate, PushReturns
    <3>2. ~clear /\ leaves = Len(Discarded) /\ enters = 0
      BY <2>2, <3>1
    <3> HIDE DEF clear, leaves, enters
    <3>3. Len(buffer') = Len(buffer) - leaves + enters
      <4>1. /\ Len(buffer) \in Nat /\ Len(Discarded) \in Nat
            /\ Len(Roomy) = Len(buffer) - Len(Discarded)
        BY <1>1, <1>3, <2>2, <3>1
      <4>2. Len(buffer') = Len(Roomy)
        BY <3>1
      <4>3. QED
        BY <3>2, <4>1, <4>2
    <3>4. QED
      BY <2>2, <3>1, <3>3
  <2>4. ASSUME NEW s \in Seq(Entry), buffer' = Append(s, NewEntry(id))
        PROVE  /\ Len(buffer') = Len(s) + 1
               /\ IdsOf(buffer') = IdsOf(s) \cup {id}
               /\ Last(buffer').id = id
    <3>1. NewEntry(id) \in Entry /\ NewEntry(id).id = id
      BY <1>3, NewEntryTyped DEF NewEntry
    <3>2. /\ Len(buffer') = Len(s) + 1
          /\ buffer'[Len(buffer')] = NewEntry(id)
      BY <2>4, <3>1, AppendProperties
    <3>3. \A e : e \in ToSet(buffer') <=> e \in ToSet(s) \/ e = NewEntry(id)
      BY <2>4, <3>1, AppendKeeps
    <3>4. \A x : x \in IdsOf(buffer') <=> x \in IdsOf(s) \/ x = id
      BY <3>1, <3>3, IdsOfSet
    <3>5. QED
      BY <3>1, <3>2, <3>4 DEF Last
  <2>5. CASE PushReplace(id)
    <3> DEFINE m == [id |-> id, clear |-> FALSE, ts |-> 0]
               i == FirstHolding(Roomy, id)
               rest == RemoveAt(Roomy, i)
    <3>1. /\ CanMakeRoom /\ notified' = Append(Discarded, m)
          /\ buffer' = Append(rest, NewEntry(id))
          /\ Holding(Roomy, id) # {}
          /\ reply'.outcome = "stored"
      BY <2>5 DEF PushReplace, PushReturns, Duplicate
    <3>2. m \in Notice
      BY RingBufferAssumption DEF Notice, Times
    <3>3. m.id = id /\ ~m.clear
      OBVIOUS
    <3>4. i \in 1..Len(Roomy) /\ Roomy[i].id = id
      BY <2>2, <3>1, FirstHoldingIs
    <3> HIDE DEF m, i
    <3>5. \A j, k \in 1..Len(Roomy) : Roomy[j].id = Roomy[k].id => j = k
      BY <1>3, <3>1, RoomMade DEF WellFormed
    <3>6. /\ rest \in Seq(Entry)
          /\ Len(rest) = Len(Roomy) - 1
          /\ IdsOf(rest) = IdsOf(Roomy) \ {id}
      BY <2>2, <3>1, <3>4, <3>5, RemoveAtProperties, EraseIds
    <3>7. id \in IdsOf(Roomy)
      BY <2>2, <3>1, <3>4, LenProperties DEF IdsOf
    <3> HIDE DEF rest
    <3>8. /\ Len(buffer') = Len(Roomy)
          /\ IdsOf(buffer') = IdsOf(Roomy)
          /\ Last(buffer').id = id
      <4>1. /\ Len(buffer') = Len(rest) + 1
            /\ IdsOf(buffer') = IdsOf(rest) \cup {id}
            /\ Last(buffer').id = id
        BY <2>4, <3>1, <3>6
      <4>2. Len(rest) + 1 = Len(Roomy)
        BY <2>2, <3>1, <3>6
      <4>3. IdsOf(rest) \cup {id} = IdsOf(Roomy)
        BY <3>6, <3>7
      <4>4. QED
        BY <4>1, <4>2, <4>3
    <3>9. /\ ToSet(notified') = ToSet(Discarded) \cup {m}
          /\ Len(notified') = Len(Discarded) + 1
      BY <2>2, <3>1, <3>2, AppendKeeps, AppendProperties
    <3>10. IdsOf(Discarded) \subseteq IdsOf(notified')
      BY <3>9, IdsOfSet
    <3>11. ~clear
      BY <2>2, <3>1, <3>3, <3>9
    <3>12. enters = 1 /\ leaves = Len(Discarded) + 1
      BY <3>1, <3>9, <3>11
    <3> HIDE DEF clear, leaves, enters
    <3>13. Len(buffer') = Len(buffer) - leaves + enters
      <4>1. /\ Len(buffer) \in Nat /\ Len(Discarded) \in Nat
            /\ Len(Roomy) = Len(buffer) - Len(Discarded)
        BY <1>1, <1>3, <2>2, <3>1
      <4>2. QED
        BY <3>8, <3>12, <4>1
    <3>14. ASSUME NEW n \in ToSet(notified')
           PROVE  /\ n.id \in IdsOf(buffer)
                  /\ n.id \in IdsOf(buffer') => Last(buffer').id = n.id
      BY <2>2, <3>1, <3>3, <3>7, <3>8, <3>9
    <3>15. QED
      BY <2>2, <3>1, <3>8, <3>10, <3>12, <3>13, <3>14
  <2>6. CASE PushNew(id)
    <3>1. /\ CanMakeRoom /\ notified' = Discarded
          /\ buffer' = Append(Roomy, NewEntry(id))
          /\ reply'.outcome = "stored"
      BY <2>6 DEF PushNew, PushReturns
    <3>2. /\ Len(buffer') = Len(Roomy) + 1
          /\ IdsOf(buffer') = IdsOf(Roomy) \cup {id}
          /\ Last(buffer').id = id
      BY <2>2, <2>4, <3>1
    <3>3. ~clear /\ leaves = Len(Discarded) /\ enters = 1
      BY <2>2, <3>1
    <3> HIDE DEF clear, leaves, enters
    <3>4. QED
      BY <1>1, <1>3, <2>2, <3>1, <3>2, <3>3
  <2>7. QED
    BY <1>3, <2>1, <2>3, <2>5, <2>6 DEF Push
<1>4. ASSUME IInv, NEW id \in Ids, Delete(id)
      PROVE  Told
  <2>1. reply'.outcome # "stored"
    BY <1>4 DEF Delete, Returns
  <2>2. CASE Found(buffer, id) = {}
    BY <1>2, <1>4, <2>1, <2>2 DEF Delete
  <2>3. CASE Found(buffer, id) # {}
    <3> DEFINE i == FirstHolding(buffer, id)
               m == [id |-> id, clear |-> FALSE, ts |-> 0]
    <3>1. notified' = <<m>> /\ buffer' = RemoveAt(buffer, i)
      BY <1>4, <2>3 DEF Delete
    <3>2. i \in 1..Len(buffer) /\ buffer[i].id = id
      BY <1>1, <1>4, <2>3, FirstHoldingIs DEF Found
    <3>3. m.id = id /\ ~m.clear
      OBVIOUS
    <3> HIDE DEF i, m
    <3>4. /\ Len(buffer') = Len(buffer) - 1
          /\ IdsOf(buffer') = IdsOf(buffer) \ {id}
      BY <1>1, <1>4, <3>1, <3>2, RemoveAtProperties, EraseIds
    <3>5. ToSet(notified') = {m} /\ Len(notified') = 1
      BY <3>1, ShortSequences
    <3>6. id \in IdsOf(notified')
      BY <3>3, <3>5, IdsOfSet
    <3>7. id \in IdsOf(buffer)
      BY <1>1, <1>4, <3>2 DEF IdsOf
    <3>8. ~clear /\ leaves = 1 /\ enters = 0
      BY <2>1, <3>3, <3>5
    <3> HIDE DEF clear, leaves, enters
    <3>9. QED
      BY <1>1, <1>4, <3>3, <3>4, <3>5, <3>6, <3>7, <3>8
  <2>4. QED
    BY <2>2, <2>3
<1>5. ASSUME IInv, Reset
      PROVE  Told
  <2>1. buffer' = <<>> /\ reply'.outcome # "stored"
    BY <1>5 DEF Reset, Returns
  <2>2. CASE buffer = <<>>
    BY <1>2, <1>5, <2>1, <2>2 DEF Reset
  <2>3. CASE buffer # <<>>
    <3> DEFINE m == [id |-> 0, clear |-> TRUE, ts |-> 0]
    <3>1. notified' = <<m>>
      BY <1>5, <2>3 DEF Reset
    <3>2. m.clear
      OBVIOUS
    <3> HIDE DEF m
    <3>3. ToSet(notified') = {m}
      BY <3>1, ShortSequences
    <3>4. clear /\ leaves = Len(buffer) /\ enters = 0
      BY <2>1, <3>2, <3>3
    <3>5. Len(buffer') = 0
      BY <2>1, ShortSequences
    <3> HIDE DEF clear, leaves, enters
    <3>6. QED
      BY <1>1, <1>5, <3>2, <3>3, <3>4, <3>5
  <2>4. QED
    BY <2>2, <2>3
<1>6. ASSUME IInv, NEW i \in DOMAIN buffer, LockEntry(i)
      PROVE  Told
  <2>1. /\ notified' = <<>> /\ reply'.outcome # "stored"
        /\ buffer' = [buffer EXCEPT ![i].locked = TRUE]
    BY <1>6 DEF LockEntry, Returns
  <2>2. /\ DOMAIN buffer' = DOMAIN buffer
        /\ Len(buffer') = Len(buffer)
    BY <1>1, <1>6, <2>1, ExceptSeq, LenProperties
  <2>3. \A k \in DOMAIN buffer : buffer'[k].id = buffer[k].id
    BY <2>1
  <2>4. IdsOf(buffer') = IdsOf(buffer)
    BY <2>2, <2>3 DEF IdsOf
  <2>5. QED
    BY <1>2, <1>6, <2>1, <2>2, <2>4
<1>7. ASSUME IInv, NEW t \in Times \ {0}, Tick(t)
      PROVE  Told
  BY <1>2, <1>7 DEF Tick
<1>8. IInv /\ [Next]_vars => [Told]_vars
  BY <1>3, <1>4, <1>5, <1>6, <1>7 DEF Next
<1>9. QED
  BY <1>8, Inductive, PTL DEF Spec, RemovalsNotified
=============================================================================
