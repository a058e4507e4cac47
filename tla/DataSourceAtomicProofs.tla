----------------------- MODULE DataSourceAtomicProofs -----------------------
(***************************************************************************)
(* The data source implements the ring buffer: for any number of threads,  *)
(* any calls, sizes and modes, each call takes effect on the buffer at     *)
(* once.                                                                   *)
(*                                                                         *)
(* The invariant, Published, relates the buffer to what RingBuffer shows   *)
(* of it.  Outside of a Push that has discarded they are the same; in one, *)
(* the buffer is where RingBuffer's Push has made room, and calls are the  *)
(* callbacks of that.                                                      *)
(***************************************************************************)
EXTENDS DataSourceAtomic, DataSourceProofs

RingEntry == [id : Int, ts : {1}, locked : BOOLEAN]

-----------------------------------------------------------------------------
(* The entries as RingBuffer has them. *)

LEMMA EntryIds == DataIds \subseteq Int
BY CallsAreCalls DEF DataIds, AddCalls, AllCalls

LEMMA StampedIs ==
  ASSUME NEW buf \in Seq(Entry)
  PROVE  /\ Stamped(buf) \in Seq(RingEntry)
         /\ Len(Stamped(buf)) = Len(buf)
         /\ DOMAIN Stamped(buf) = DOMAIN buf
         /\ \A i \in 1..Len(buf) :
              /\ i \in DOMAIN buf
              /\ Stamped(buf)[i] = [id |-> buf[i].id, ts |-> 1, locked |-> buf[i].locked]
              /\ Stamped(buf)[i].id = buf[i].id /\ Stamped(buf)[i].locked = buf[i].locked
<1>1. Len(buf) \in Nat /\ DOMAIN buf = 1..Len(buf)
  BY LenProperties
<1>2. ASSUME NEW i \in 1..Len(buf)
      PROVE  [id |-> buf[i].id, ts |-> 1, locked |-> buf[i].locked] \in RingEntry
  <2>1. buf[i] \in Entry
    BY <1>2, ElementOfSeq
  <2>2. buf[i].id \in Int /\ buf[i].locked \in BOOLEAN
    BY <2>1, EntryIds DEF Entry
  <2>3. QED
    BY <2>2 DEF RingEntry
<1>3. Stamped(buf) \in [1..Len(buf) -> RingEntry]
  BY <1>1, <1>2 DEF Stamped
<1>4. Stamped(buf) \in Seq(RingEntry)
  BY <1>1, <1>3, SeqDef
<1>5. Len(Stamped(buf)) = Len(buf)
  BY <1>1, <1>3, <1>4, LenProperties
<1>6. \A i \in 1..Len(buf) :
         Stamped(buf)[i] = [id |-> buf[i].id, ts |-> 1, locked |-> buf[i].locked]
  BY <1>1 DEF Stamped
<1>7. QED
  BY <1>1, <1>4, <1>5, <1>6, LenProperties

\* Two views of as many entries that agree on each are the same.
LEMMA SameViews ==
  ASSUME NEW buf \in Seq(Entry), NEW s \in Seq(RingEntry), Len(s) = Len(buf),
         \A i \in 1..Len(buf) :
           s[i] = [id |-> buf[i].id, ts |-> 1, locked |-> buf[i].locked]
  PROVE  Stamped(buf) = s
<1>1. /\ Stamped(buf) \in Seq(RingEntry) /\ Len(Stamped(buf)) = Len(s)
      /\ \A i \in 1..Len(Stamped(buf)) : Stamped(buf)[i] = s[i]
  BY StampedIs
<1>2. QED
  BY <1>1, SeqEqual

\* Erasing, appending and locking are the same in both.
LEMMA StampedErase ==
  ASSUME NEW buf \in Seq(Entry), NEW i \in 1..Len(buf)
  PROVE  Stamped(RemoveAt(buf, i)) = RemoveAt(Stamped(buf), i)
<1> DEFINE r == RemoveAt(buf, i)
           s == RemoveAt(Stamped(buf), i)
<1>1. Len(buf) \in Nat
  BY LenProperties
<1>2. /\ r \in Seq(Entry) /\ Len(r) = Len(buf) - 1
      /\ \A j \in 1..(Len(buf) - 1) : r[j] = IF j < i THEN buf[j] ELSE buf[j + 1]
  BY RemoveAtProperties
<1>3. /\ Stamped(buf) \in Seq(RingEntry) /\ Len(Stamped(buf)) = Len(buf)
      /\ \A j \in 1..Len(buf) :
           Stamped(buf)[j] = [id |-> buf[j].id, ts |-> 1, locked |-> buf[j].locked]
  BY StampedIs
<1>4. /\ s \in Seq(RingEntry) /\ Len(s) = Len(buf) - 1
      /\ \A j \in 1..(Len(buf) - 1) :
           s[j] = IF j < i THEN Stamped(buf)[j] ELSE Stamped(buf)[j + 1]
  BY <1>3, RemoveAtProperties
<1> HIDE DEF r, s
<1>5. \A j \in 1..Len(r) : s[j] = [id |-> r[j].id, ts |-> 1, locked |-> r[j].locked]
  <2> SUFFICES ASSUME NEW j \in 1..(Len(buf) - 1)
               PROVE  s[j] = [id |-> r[j].id, ts |-> 1, locked |-> r[j].locked]
    BY <1>2
  <2>1. j \in 1..Len(buf) /\ j + 1 \in 1..Len(buf)
    BY <1>1
  <2>2. QED
    BY <1>2, <1>3, <1>4, <2>1
<1>6. Stamped(r) = s
  BY <1>2, <1>4, <1>5, SameViews
<1>7. QED
  BY <1>6 DEF r, s

LEMMA StampedAppend ==
  ASSUME NEW buf \in Seq(Entry), NEW e \in Entry
  PROVE  Stamped(Append(buf, e))
           = Append(Stamped(buf), [id |-> e.id, ts |-> 1, locked |-> e.locked])
<1> DEFINE r == Append(buf, e)
           x == [id |-> e.id, ts |-> 1, locked |-> e.locked]
           s == Append(Stamped(buf), x)
<1>1. Len(buf) \in Nat
  BY LenProperties
<1>2. /\ r \in Seq(Entry) /\ Len(r) = Len(buf) + 1
      /\ \A j \in 1..Len(buf) : r[j] = buf[j]
      /\ r[Len(buf) + 1] = e
  BY AppendProperties
<1>3. x \in RingEntry
  BY EntryIds DEF Entry, RingEntry
<1>4. /\ Stamped(buf) \in Seq(RingEntry) /\ Len(Stamped(buf)) = Len(buf)
      /\ \A j \in 1..Len(buf) :
           Stamped(buf)[j] = [id |-> buf[j].id, ts |-> 1, locked |-> buf[j].locked]
  BY StampedIs
<1>5. /\ s \in Seq(RingEntry) /\ Len(s) = Len(buf) + 1
      /\ \A j \in 1..Len(buf) : s[j] = Stamped(buf)[j]
      /\ s[Len(buf) + 1] = x
  <2> HIDE DEF x
  <2>1. QED
    BY <1>3, <1>4, AppendProperties
<1> HIDE DEF r, s
<1>6. \A j \in 1..Len(r) : s[j] = [id |-> r[j].id, ts |-> 1, locked |-> r[j].locked]
  <2> SUFFICES ASSUME NEW j \in 1..(Len(buf) + 1)
               PROVE  s[j] = [id |-> r[j].id, ts |-> 1, locked |-> r[j].locked]
    BY <1>2
  <2>1. j \in 1..Len(buf) \/ j = Len(buf) + 1
    BY <1>1
  <2>2. QED
    BY <1>2, <1>4, <1>5, <2>1
<1>7. Stamped(r) = s
  BY <1>2, <1>5, <1>6, SameViews
<1>8. QED
  BY <1>7 DEF r, s

LEMMA StampedLock ==
  ASSUME NEW buf \in Seq(Entry), NEW i \in 1..Len(buf)
  PROVE  /\ Stamped([buf EXCEPT ![i].locked = TRUE])
              = [Stamped(buf) EXCEPT ![i].locked = TRUE]
         /\ buf[i].locked => [buf EXCEPT ![i].locked = TRUE] = buf
<1> DEFINE e == [buf[i] EXCEPT !.locked = TRUE]
           r == [buf EXCEPT ![i] = e]
           x == [Stamped(buf)[i] EXCEPT !.locked = TRUE]
           s == [Stamped(buf) EXCEPT ![i] = x]
<1>1. buf[i] \in Entry /\ Len(buf) \in Nat
  BY ElementOfSeq, LenProperties
<1>2. e \in Entry /\ e.id = buf[i].id /\ e.locked = TRUE /\ (buf[i].locked => e = buf[i])
  BY <1>1 DEF Entry
<1>3. /\ Stamped(buf) \in Seq(RingEntry) /\ Len(Stamped(buf)) = Len(buf)
      /\ \A j \in 1..Len(buf) :
           Stamped(buf)[j] = [id |-> buf[j].id, ts |-> 1, locked |-> buf[j].locked]
  BY StampedIs
<1>4. x \in RingEntry /\ x.id = e.id /\ x.locked = e.locked
  <2> DEFINE y == Stamped(buf)[i]
  <2>1. y \in RingEntry /\ y.id = buf[i].id
    BY StampedIs, ElementOfSeq
  <2> HIDE DEF y
  <2>2. /\ [y EXCEPT !.locked = TRUE] \in RingEntry
        /\ [y EXCEPT !.locked = TRUE].id = y.id
        /\ [y EXCEPT !.locked = TRUE].locked = TRUE
    BY <2>1 DEF RingEntry
  <2>3. x = [y EXCEPT !.locked = TRUE]
    BY DEF y
  <2> HIDE DEF e, x
  <2>4. QED
    BY <1>2, <2>1, <2>2, <2>3
<1> HIDE DEF e, x
<1>5. x = [id |-> e.id, ts |-> 1, locked |-> e.locked]
  BY <1>4 DEF RingEntry
<1>6. /\ r \in Seq(Entry) /\ Len(r) = Len(buf)
      /\ \A j \in 1..Len(buf) : r[j] = IF j = i THEN e ELSE buf[j]
  BY <1>2, ExceptSeq
<1>7. /\ s \in Seq(RingEntry) /\ Len(s) = Len(buf)
      /\ \A j \in 1..Len(buf) : s[j] = IF j = i THEN x ELSE Stamped(buf)[j]
  BY <1>3, <1>4, ExceptSeq
<1>8. /\ [buf EXCEPT ![i].locked = TRUE] = r
      /\ [Stamped(buf) EXCEPT ![i].locked = TRUE] = s
  BY DEF e, x
<1> HIDE DEF r, s
<1>9. \A j \in 1..Len(r) : s[j] = [id |-> r[j].id, ts |-> 1, locked |-> r[j].locked]
  BY <1>3, <1>5, <1>6, <1>7
<1>10. Stamped(r) = s
  BY <1>6, <1>7, <1>9, SameViews
<1>11. buf[i].locked => r = buf
  <2> HAVE buf[i].locked
  <2>1. \A j \in 1..Len(r) : r[j] = buf[j]
    BY <1>2, <1>6
  <2>2. QED
    BY <1>6, <2>1, SeqEqual
<1>12. QED
  BY <1>8, <1>10, <1>11

\* The scans find the same.
LEMMA StampedScans ==
  ASSUME NEW buf \in Seq(Entry), NEW id
  PROVE  /\ Full(Stamped(buf)) = Full(buf)
         /\ Unlocked(Stamped(buf)) = Unlocked(buf)
         /\ OldestUnlocked(Stamped(buf)) = OldestUnlocked(buf)
         /\ Holding(Stamped(buf), id) = Holding(buf, id)
         /\ FirstHolding(Stamped(buf), id) = FirstHolding(buf, id)
         /\ Found(Stamped(buf), id) = Found(buf, id)
         /\ BadId(Stamped(buf), id) = BadId(buf, id)
         /\ Duplicate(Stamped(buf), id) = Duplicate(buf, id)
<1>1. /\ Stamped(buf) \in Seq(RingEntry) /\ Len(Stamped(buf)) = Len(buf)
      /\ DOMAIN Stamped(buf) = DOMAIN buf
      /\ Len(buf) \in Nat /\ DOMAIN buf = 1..Len(buf)
      /\ \A i \in 1..Len(buf) : /\ Stamped(buf)[i].id = buf[i].id
                                /\ Stamped(buf)[i].locked = buf[i].locked
  BY StampedIs, LenProperties
<1>2. Full(Stamped(buf)) = Full(buf)
  BY <1>1 DEF Full
<1>3. Unlocked(Stamped(buf)) = Unlocked(buf)
  BY <1>1 DEF Unlocked
<1>4. OldestUnlocked(Stamped(buf)) = OldestUnlocked(buf)
  BY <1>3 DEF OldestUnlocked
<1>5. Holding(Stamped(buf), id) = Holding(buf, id)
  BY <1>1 DEF Holding
<1>6. FirstHolding(Stamped(buf), id) = FirstHolding(buf, id)
  BY <1>5 DEF FirstHolding
<1>7. Found(Stamped(buf), id) = Found(buf, id)
  <2>1. \A i \in Holding(buf, id) : \A j \in 1..(i - 1) : Stamped(buf)[j].id = buf[j].id
    BY <1>1 DEF Holding
  <2>2. QED
    BY <1>5, <2>1 DEF Found
<1>8. BadId(Stamped(buf), id) = BadId(buf, id)
  <2>1. Stamped(buf) = <<>> <=> buf = <<>>
    BY <1>1, EmptySeq
  <2>2. buf # <<>> => Last(Stamped(buf)).id = Last(buf).id
    <3> HAVE buf # <<>>
    <3>1. Len(buf) \in 1..Len(buf)
      BY <1>1, EmptySeq
    <3>2. QED
      BY <1>1, <3>1 DEF Last
  <2>3. QED
    BY <2>1, <2>2 DEF BadId
<1>9. Duplicate(Stamped(buf), id) = Duplicate(buf, id)
  BY <1>5 DEF Duplicate
<1>10. QED
  BY <1>2, <1>3, <1>4, <1>5, <1>6, <1>7, <1>8, <1>9

\* The instance scans as BufferQueue does.
LEMMA RingScans ==
  ASSUME NEW buf, NEW id
  PROVE  /\ Ring!Full(buf) = Full(buf)
         /\ Ring!Unlocked(buf) = Unlocked(buf)
         /\ Ring!OldestUnlocked(buf) = OldestUnlocked(buf)
         /\ Ring!FirstHolding(buf, id) = FirstHolding(buf, id)
         /\ Ring!Found(buf, id) = Found(buf, id)
         /\ Ring!BadId(buf, id) = BadId(buf, id)
         /\ Ring!Duplicate(buf, id) = Duplicate(buf, id)
<1>1. Ring!Full(buf) = Full(buf)
  BY DEF Ring!Full, Full
<1>2. Ring!Unlocked(buf) = Unlocked(buf)
  BY DEF Ring!Unlocked, Unlocked
<1>3. Ring!OldestUnlocked(buf) = OldestUnlocked(buf)
  BY <1>2 DEF Ring!OldestUnlocked, OldestUnlocked
<1>4. Ring!Holding(buf, id) = Holding(buf, id)
  BY DEF Ring!Holding, Holding
<1>5. Ring!FirstHolding(buf, id) = FirstHolding(buf, id)
  BY <1>4 DEF Ring!FirstHolding, FirstHolding
<1>6. Ring!Found(buf, id) = Found(buf, id)
  BY <1>4 DEF Ring!Found, Found
<1>7. Ring!BadId(buf, id) = BadId(buf, id)
  BY DEF Ring!BadId, BadId, Ring!Last, Last
<1>8. Ring!Duplicate(buf, id) = Duplicate(buf, id)
  BY <1>4 DEF Ring!Duplicate, Duplicate
<1>9. QED
  BY <1>1, <1>2, <1>3, <1>5, <1>6, <1>7, <1>8

LEMMA RingErase ==
  ASSUME NEW s, NEW i
  PROVE  Ring!RemoveAt(s, i) = RemoveAt(s, i) /\ Ring!Last(s) = Last(s)
BY DEF Ring!RemoveAt, RemoveAt, Ring!Last, Last

-----------------------------------------------------------------------------
(* The invariant. *)

\* A Push has discarded the oldest unlocked entry of what RingBuffer shows.
Discarding(t) ==
  /\ pc[t] \in {"room", "replace"}
  /\ AllowOverflow /\ Full(view.buffer) /\ Unlocked(view.buffer) # {}
  /\ Stamped(buffer) = RemoveAt(view.buffer, OldestUnlocked(view.buffer))
  /\ calls = NoticeOf(view.buffer[OldestUnlocked(view.buffer)].id, FALSE, 1)

Published ==
  /\ view.buffer \in Seq(RingEntry) /\ Len(view.buffer) <= MaxSize
  /\ \/ calls = <<>> /\ view.buffer = Stamped(buffer)
     \/ \E t \in Threads : Discarding(t)

Implements == Safe /\ Typed /\ Published

\* Only the thread that has the mutex can have discarded, and it made room.
LEMMA WhoDiscards ==
  ASSUME Implements, NEW t \in Threads, Discarding(t)
  PROVE  /\ owner = t /\ \A u \in Threads : u # t => pc[u] \notin InSection
         /\ pc[t] \in {"room", "replace"}
         /\ readers = {}
         /\ ~Full(buffer)
         /\ calls # <<>>
<1>1. owner = t /\ t # Nobody /\ pc[t] \in {"room", "replace"}
  BY DataSourceAssumption DEF Implements, Safe, Locks, Discarding, InSection
<1>2. readers = {} /\ \A u \in Threads : u # t => pc[u] \notin InSection
  BY <1>1 DEF Implements, Safe, Locks
<1>3. ~Full(buffer)
  <2>1. /\ view.buffer \in Seq(RingEntry) /\ Len(view.buffer) <= MaxSize
        /\ Len(view.buffer) \in Nat /\ MaxSize \in Nat
    BY BufferAssumption, LenProperties DEF Implements, Published
  <2>2. OldestUnlocked(view.buffer) \in 1..Len(view.buffer)
    BY <2>1, OldestUnlockedIs DEF Discarding
  <2>3. Len(Stamped(buffer)) = Len(view.buffer) - 1
    BY <2>1, <2>2, RemoveAtProperties DEF Discarding
  <2>4. Len(buffer) = Len(view.buffer) - 1
    BY <2>3, StampedIs DEF Implements, Typed, BufferTyped
  <2>5. QED
    BY <2>1, <2>4 DEF Full
<1>4. calls # <<>>
  BY DEF Discarding, NoticeOf
<1>5. QED
  BY <1>1, <1>2, <1>3, <1>4

\* Any other thread finds what RingBuffer shows, and so does a full Push.
LEMMA NobodyDiscards ==
  ASSUME Implements, NEW t \in Threads,
         \/ pc[t] \in InSection \ {"room", "replace"}
         \/ pc[t] = "room" /\ Full(buffer)
         \/ t \in readers
  PROVE  calls = <<>> /\ view.buffer = Stamped(buffer)
<1>1. ASSUME NEW u \in Threads, Discarding(u)
      PROVE  FALSE
  BY <1>1, WhoDiscards
<1>2. QED
  BY <1>1 DEF Implements, Published

\* Where a Push has room, it is where RingBuffer's Push has made it.
LEMMA PushView ==
  ASSUME Implements, NEW t \in Threads, pc[t] \in {"room", "replace"}, ~Full(buffer)
  PROVE  /\ Ring!CanMakeRoom
         /\ Ring!Roomy = Stamped(buffer)
         /\ Ring!Discarded = calls
<1>1. CASE calls = <<>> /\ view.buffer = Stamped(buffer)
  <2>1. ~Full(view.buffer)
    BY <1>1, StampedScans DEF Implements, Typed, BufferTyped
  <2>2. QED
    BY <1>1, <2>1, RingScans DEF Ring!CanMakeRoom, Ring!Roomy, Ring!Discarded
<1>2. ASSUME NEW u \in Threads, Discarding(u)
      PROVE  /\ Ring!CanMakeRoom
             /\ Ring!Roomy = Stamped(buffer)
             /\ Ring!Discarded = calls
  <2>1. Full(view.buffer) /\ AllowOverflow /\ Unlocked(view.buffer) # {}
    BY <1>2 DEF Discarding
  <2>2. Ring!CanMakeRoom
    BY <2>1, RingScans DEF Ring!CanMakeRoom
  <2>3. Ring!Roomy = Stamped(buffer)
    BY <1>2, <2>1, RingScans, RingErase DEF Ring!Roomy, Discarding
  <2>4. Ring!Discarded = calls
    BY <1>2, <2>1, RingScans DEF Ring!Discarded, Discarding, NoticeOf
  <2>5. QED
    BY <2>2, <2>3, <2>4
<1>3. QED
  BY <1>1, <1>2 DEF Implements, Published

\* The callbacks of a Push are a sequence of at most one.
LEMMA CallsAre ==
  ASSUME Implements
  PROVE  calls = <<>> \/ \E n : calls = <<n>>
BY DEF Implements, Published, Discarding, NoticeOf

-----------------------------------------------------------------------------
(* Each effect is a step of RingBuffer. *)

LEMMA PublishIs ==
  ASSUME NEW op, NEW outcome, NEW last, Publish(op, outcome, last)
  PROVE  /\ calls' = <<>> /\ view'.buffer = Stamped(buffer')
         /\ view'.notified = calls \o last
         /\ view'.reply.op = op /\ view'.reply.outcome = outcome
         /\ view'.reply = [op |-> op, outcome |-> outcome, count |-> view'.reply.count]
         /\ outcome = "refused" => view'.reply.count = -1
         /\ outcome = "stored" => view'.reply.count = Len(calls)
         /\ outcome \notin {"refused", "stored"} => view'.reply.count = 0
         /\ op # "Reset" \/ last = <<>> => view'.info = Ring!NoInfo
         /\ op = "Reset" /\ last # <<>> =>
              view'.info = [time |-> 1, oldest |-> 1, newest |-> 1, count |-> Len(buffer)]
BY DEF Publish, Ring!NoInfo

\* An effect with no callbacks before it, and none or one of its own.
LEMMA PublishNone ==
  ASSUME calls = <<>>, NEW op, Publish(op, "done", <<>>)
  PROVE  /\ view'.buffer = Stamped(buffer') /\ view'.notified = <<>>
         /\ view'.reply = [op |-> op, outcome |-> "done", count |-> 0]
         /\ view'.info = Ring!NoInfo
<1>1. <<>> \o <<>> = <<>>
  OBVIOUS
<1>2. QED
  BY <1>1 DEF Publish, Ring!NoInfo

LEMMA PublishOne ==
  ASSUME calls = <<>>, NEW op, NEW n, Publish(op, "done", <<n>>)
  PROVE  /\ view'.buffer = Stamped(buffer') /\ view'.notified = <<n>>
         /\ view'.reply = [op |-> op, outcome |-> "done", count |-> 0]
         /\ op # "Reset" => view'.info = Ring!NoInfo
         /\ op = "Reset" =>
              view'.info = [time |-> 1, oldest |-> 1, newest |-> 1, count |-> Len(buffer)]
<1>1. <<>> \o <<n>> = <<n>> /\ <<n>> # <<>>
  OBVIOUS
<1>2. QED
  BY <1>1 DEF Publish, Ring!NoInfo

LEMMA NoRoomIsPush ==
  ASSUME Implements, NEW t \in Threads, NoRoom(t),
         Publish("Push", IF AllowOverflow THEN "refused" ELSE "overflow", <<>>)
  PROVE  Ring!PushNoRoom
<1>1. calls = <<>> /\ view.buffer = Stamped(buffer)
  BY NobodyDiscards DEF NoRoom
<1>2. Full(view.buffer) /\ (~AllowOverflow \/ Unlocked(view.buffer) = {})
  BY <1>1, StampedScans DEF NoRoom, Implements, Typed, BufferTyped
<1>3. ~Ring!CanMakeRoom
  BY <1>2, RingScans DEF Ring!CanMakeRoom
<1>4. buffer' = buffer
  BY DEF NoRoom
<1>5. /\ view'.buffer = view.buffer /\ view'.notified = <<>>
      /\ view'.info = Ring!NoInfo
      /\ view'.reply = [op |-> "Push", outcome |-> IF AllowOverflow THEN "refused" ELSE "overflow",
                        count |-> IF AllowOverflow THEN -1 ELSE 0]
  <2> DEFINE outcome == IF AllowOverflow THEN "refused" ELSE "overflow"
  <2>1. Publish("Push", outcome, <<>>)
    OBVIOUS
  <2>2. /\ AllowOverflow => outcome = "refused"
        /\ ~AllowOverflow => outcome = "overflow"
    OBVIOUS
  <2> HIDE DEF outcome
  <2>3. /\ view'.buffer = Stamped(buffer') /\ view'.notified = calls \o <<>>
        /\ view'.info = Ring!NoInfo
        /\ view'.reply = [op |-> "Push", outcome |-> outcome, count |-> view'.reply.count]
        /\ outcome = "refused" => view'.reply.count = -1
        /\ outcome \notin {"refused", "stored"} => view'.reply.count = 0
    BY <2>1, PublishIs
  <2>4. <<>> \o <<>> = <<>>
    OBVIOUS
  <2>5. QED
    BY <1>1, <1>4, <2>2, <2>3, <2>4
<1>6. QED
  BY <1>3, <1>5 DEF Ring!PushNoRoom, Ring!PushReturns

LEMMA RefuseIdIsPush ==
  ASSUME Implements, NEW t \in Threads, RefuseId(t),
         Publish("Push", IF BadId(buffer, call[t].id) THEN "badId" ELSE "refused", <<>>)
  PROVE  Ring!PushBadId(call[t].id) \/ Ring!PushLockedDuplicate(call[t].id)
<1> DEFINE id == call[t].id
<1>1. Ring!CanMakeRoom /\ Ring!Roomy = Stamped(buffer) /\ Ring!Discarded = calls
  BY PushView DEF RefuseId
<1>2. buffer' = buffer /\ calls \o <<>> = calls
  BY CallsAre DEF RefuseId
<1>3. /\ view'.buffer = Ring!Roomy /\ view'.notified = Ring!Discarded
      /\ view'.info = Ring!NoInfo
      /\ view'.reply = [op |-> "Push",
                        outcome |-> IF BadId(buffer, id) THEN "badId" ELSE "refused",
                        count |-> IF BadId(buffer, id) THEN 0 ELSE -1]
  <2> DEFINE outcome == IF BadId(buffer, id) THEN "badId" ELSE "refused"
  <2>1. Publish("Push", outcome, <<>>)
    OBVIOUS
  <2>2. /\ BadId(buffer, id) => outcome = "badId"
        /\ ~BadId(buffer, id) => outcome = "refused"
    OBVIOUS
  <2> HIDE DEF outcome
  <2>3. /\ view'.buffer = Stamped(buffer') /\ view'.notified = calls \o <<>>
        /\ view'.info = Ring!NoInfo
        /\ view'.reply = [op |-> "Push", outcome |-> outcome, count |-> view'.reply.count]
        /\ outcome = "refused" => view'.reply.count = -1
        /\ outcome \notin {"refused", "stored"} => view'.reply.count = 0
    BY <2>1, PublishIs
  <2>4. QED
    BY <1>1, <1>2, <2>2, <2>3
<1>4. CASE BadId(buffer, id)
  <2>1. Ring!BadId(Ring!Roomy, id)
    BY <1>1, <1>4, StampedScans, RingScans DEF Implements, Typed, BufferTyped
  <2>2. QED
    BY <1>1, <1>3, <1>4, <2>1 DEF Ring!PushBadId, Ring!PushReturns
<1>5. CASE ~BadId(buffer, id)
  <2>1. Duplicate(buffer, id) /\ buffer[FirstHolding(buffer, id)].locked
    BY <1>5 DEF RefuseId
  <2>2. FirstHolding(buffer, id) \in 1..Len(buffer)
    BY <2>1, FirstHoldingIs DEF Duplicate, Implements, Typed, BufferTyped
  <2>3. /\ Ring!Duplicate(Ring!Roomy, id)
        /\ Ring!Roomy[Ring!FirstHolding(Ring!Roomy, id)].locked
    <3>1. buffer \in Seq(Entry)
      BY DEF Implements, Typed, BufferTyped
    <3>2. /\ Duplicate(Stamped(buffer), id)
          /\ FirstHolding(Stamped(buffer), id) = FirstHolding(buffer, id)
      BY <2>1, <3>1, StampedScans
    <3>3. Stamped(buffer)[FirstHolding(buffer, id)].locked
      BY <2>1, <2>2, <3>1, StampedIs
    <3>4. QED
      BY <1>1, <3>2, <3>3, RingScans
  <2>4. QED
    BY <1>1, <1>3, <1>5, <2>3 DEF Ring!PushLockedDuplicate, Ring!PushReturns
<1>6. QED
  BY <1>4, <1>5

LEMMA StoreIsPush ==
  ASSUME Implements, NEW t \in Threads, Store(t), Publish("Push", "stored", <<>>)
  PROVE  Ring!PushNew(call[t].id)
<1> DEFINE id == call[t].id
<1>1. Ring!CanMakeRoom /\ Ring!Roomy = Stamped(buffer) /\ Ring!Discarded = calls
  BY PushView DEF Store
<1>2. buffer \in Seq(Entry) /\ NewEntry(t) \in Entry
  BY NewEntryTyped DEF Store, Implements, Typed, BufferTyped
<1>3. buffer' = Append(buffer, NewEntry(t)) /\ calls \o <<>> = calls
  BY CallsAre DEF Store
<1>4. Stamped(buffer') = Append(Stamped(buffer), Ring!NewEntry(id))
  <2>1. [id |-> NewEntry(t).id, ts |-> 1, locked |-> NewEntry(t).locked] = Ring!NewEntry(id)
    BY DEF NewEntry, Ring!NewEntry
  <2>2. QED
    BY <1>2, <1>3, <2>1, StampedAppend
<1>5. ~Ring!BadId(Ring!Roomy, id) /\ ~Ring!Duplicate(Ring!Roomy, id)
  BY <1>1, <1>2, StampedScans, RingScans DEF Store
<1>6. /\ view'.buffer = Stamped(buffer') /\ view'.notified = calls
      /\ view'.info = Ring!NoInfo
      /\ view'.reply = [op |-> "Push", outcome |-> "stored", count |-> Len(calls)]
  BY <1>3, PublishIs
<1>7. QED
  BY <1>1, <1>4, <1>5, <1>6 DEF Ring!PushNew, Ring!PushReturns

LEMMA ReplaceIsPush ==
  ASSUME Implements, NEW t \in Threads, Replace(t),
         Publish("Push", "stored", NoticeOf(call[t].id, FALSE, 0))
  PROVE  Ring!PushReplace(call[t].id)
<1> DEFINE id == call[t].id
           i == FirstHolding(buffer, id)
<1>1. pc[t] = "replace" /\ ~Full(buffer) /\ Duplicate(buffer, id) /\ ~buffer[i].locked
  BY DEF Replace, Implements, Safe, Sections, FoundOut
<1>2. Ring!CanMakeRoom /\ Ring!Roomy = Stamped(buffer) /\ Ring!Discarded = calls
  BY <1>1, PushView
<1>3. buffer \in Seq(Entry) /\ NewEntry(t) \in Entry /\ i \in 1..Len(buffer)
  BY <1>1, NewEntryTyped, FirstHoldingIs DEF Duplicate, Implements, Typed, BufferTyped
<1>4. FirstHolding(Stamped(buffer), id) = i /\ Duplicate(Stamped(buffer), id)
  BY <1>1, <1>3, StampedScans
<1>5. ~Stamped(buffer)[i].locked
  BY <1>1, <1>3, StampedIs
<1>6. Stamped(buffer') = Append(RemoveAt(Stamped(buffer), i), Ring!NewEntry(id))
  <2>1. [id |-> NewEntry(t).id, ts |-> 1, locked |-> NewEntry(t).locked] = Ring!NewEntry(id)
    BY DEF NewEntry, Ring!NewEntry
  <2>2. RemoveAt(buffer, i) \in Seq(Entry)
    BY <1>3, RemoveAtProperties
  <2>3. buffer' = Append(RemoveAt(buffer, i), NewEntry(t))
    BY DEF Replace
  <2> HIDE DEF i
  <2>4. Stamped(buffer') = Append(Stamped(RemoveAt(buffer, i)), Ring!NewEntry(id))
    BY <1>3, <2>1, <2>2, <2>3, StampedAppend
  <2>5. QED
    BY <1>3, <2>4, StampedErase
<1>7. calls \o NoticeOf(id, FALSE, 0) = Append(calls, [id |-> id, clear |-> FALSE, ts |-> 0])
  BY CallsAre DEF NoticeOf
<1>8. /\ view'.buffer = Stamped(buffer') /\ view'.notified = calls \o NoticeOf(id, FALSE, 0)
      /\ view'.info = Ring!NoInfo
      /\ view'.reply = [op |-> "Push", outcome |-> "stored", count |-> Len(calls)]
  BY PublishIs
<1> HIDE DEF i
<1>9. /\ Ring!FirstHolding(Ring!Roomy, id) = i
      /\ Ring!Duplicate(Ring!Roomy, id)
      /\ ~Ring!Roomy[Ring!FirstHolding(Ring!Roomy, id)].locked
  BY <1>2, <1>4, <1>5, RingScans
<1>10. QED
  BY <1>2, <1>6, <1>7, <1>8, <1>9, RingErase DEF Ring!PushReplace, Ring!PushReturns

LEMMA DeleteIsDelete ==
  ASSUME Implements, NEW t \in Threads,
         \/ NotFound(t) /\ Publish("Delete", "done", <<>>)
         \/ Erase(t) /\ Publish("Delete", "done", NoticeOf(call[t].id, FALSE, 0))
  PROVE  Ring!Delete(call[t].id)
<1> DEFINE id == call[t].id
           i == FirstHolding(buffer, id)
<1>1. calls = <<>> /\ view.buffer = Stamped(buffer)
  BY NobodyDiscards DEF NotFound, Erase, InSection
<1>2. buffer \in Seq(Entry)
  BY DEF Implements, Typed, BufferTyped
<1>3. CASE NotFound(t) /\ Publish("Delete", "done", <<>>)
  <2>1. Ring!Found(view.buffer, id) = {} /\ buffer' = buffer
    BY <1>1, <1>2, <1>3, StampedScans, RingScans DEF NotFound
  <2>2. /\ view'.buffer = view.buffer /\ view'.notified = <<>>
        /\ view'.info = Ring!NoInfo
        /\ view'.reply = [op |-> "Delete", outcome |-> "done", count |-> 0]
    BY <1>1, <1>3, <2>1, PublishNone
  <2>3. QED
    BY <2>1, <2>2 DEF Ring!Delete, Ring!Returns
<1>4. CASE Erase(t) /\ Publish("Delete", "done", NoticeOf(id, FALSE, 0))
  <2>1. Found(buffer, id) # {} /\ buffer' = RemoveAt(buffer, i)
    BY <1>4 DEF Erase, Implements, Safe, Sections, FoundOut
  <2>2. i \in 1..Len(buffer)
    BY <1>2, <2>1, FirstHoldingIs DEF Found
  <2>3. Ring!Found(view.buffer, id) # {} /\ Ring!FirstHolding(view.buffer, id) = i
    BY <1>1, <1>2, <2>1, StampedScans, RingScans
  <2> HIDE DEF i
  <2>4. view'.buffer = Ring!RemoveAt(view.buffer, i)
    <3>1. Stamped(buffer') = RemoveAt(view.buffer, i)
      BY <1>1, <1>2, <2>1, <2>2, StampedErase DEF i
    <3>2. view'.buffer = Stamped(buffer')
      BY <1>4, PublishIs
    <3>3. QED
      BY <3>1, <3>2, RingErase
  <2>5. /\ view'.notified = <<[id |-> id, clear |-> FALSE, ts |-> 0]>>
        /\ view'.info = Ring!NoInfo
        /\ view'.reply = [op |-> "Delete", outcome |-> "done", count |-> 0]
    <3> DEFINE n == [id |-> id, clear |-> FALSE, ts |-> 0]
    <3>1. Publish("Delete", "done", <<n>>)
      BY <1>4 DEF NoticeOf
    <3> HIDE DEF n
    <3>2. /\ view'.notified = <<n>> /\ view'.info = Ring!NoInfo
          /\ view'.reply = [op |-> "Delete", outcome |-> "done", count |-> 0]
      BY <1>1, <3>1, PublishOne
    <3>3. QED
      BY <3>2 DEF n
  <2>6. QED
    BY <2>3, <2>4, <2>5 DEF Ring!Delete, Ring!Returns
<1>5. QED
  BY <1>3, <1>4

LEMMA ResetIsReset ==
  ASSUME Implements, NEW t \in Threads,
         \/ NothingToReset(t) /\ Publish("Reset", "done", <<>>)
         \/ Clear(t) /\ Publish("Reset", "done", NoticeOf(0, TRUE, 0))
  PROVE  Ring!Reset
<1>1. calls = <<>> /\ view.buffer = Stamped(buffer)
  BY NobodyDiscards DEF NothingToReset, Clear, InSection
<1>2. buffer \in Seq(Entry) /\ Len(buffer) \in Nat
  BY LenProperties DEF Implements, Typed, BufferTyped
<1>3. Stamped(<<>>) = <<>>
  <2>1. <<>> \in Seq(Entry) /\ Len(<<>>) = 0
    OBVIOUS
  <2>2. Stamped(<<>>) \in Seq(RingEntry) /\ Len(Stamped(<<>>)) = 0
    BY <2>1, StampedIs
  <2>3. QED
    BY <2>2, EmptySeq
<1>4. CASE NothingToReset(t) /\ Publish("Reset", "done", <<>>)
  <2>1. buffer' = <<>> /\ view.buffer = <<>>
    BY <1>1, <1>3, <1>4 DEF NothingToReset
  <2>2. /\ view'.buffer = <<>> /\ view'.notified = <<>>
        /\ view'.info = Ring!NoInfo
        /\ view'.reply = [op |-> "Reset", outcome |-> "done", count |-> 0]
    BY <1>1, <1>3, <1>4, <2>1, PublishNone
  <2>3. QED
    BY <2>1, <2>2 DEF Ring!Reset, Ring!Returns
<1>5. CASE Clear(t) /\ Publish("Reset", "done", NoticeOf(0, TRUE, 0))
  <2>1. buffer # <<>> /\ buffer' = <<>>
    BY <1>5 DEF Clear
  <2>2. Len(buffer) \in Nat \ {0}
    BY <1>2, <2>1, EmptySeq
  <2>3. /\ Stamped(buffer) \in Seq(RingEntry) /\ Len(Stamped(buffer)) = Len(buffer)
        /\ Stamped(buffer)[1].ts = 1 /\ Stamped(buffer)[Len(buffer)].ts = 1
    <3>1. 1 \in 1..Len(buffer) /\ Len(buffer) \in 1..Len(buffer)
      BY <2>2
    <3>2. \A i \in 1..Len(buffer) : Stamped(buffer)[i].ts = 1
      <4> SUFFICES ASSUME NEW i \in 1..Len(buffer) PROVE Stamped(buffer)[i].ts = 1
        OBVIOUS
      <4>1. Stamped(buffer)[i] = [id |-> buffer[i].id, ts |-> 1, locked |-> buffer[i].locked]
        BY <1>2, StampedIs
      <4>2. QED
        BY <4>1
    <3>3. QED
      BY <1>2, <3>1, <3>2, StampedIs
  <2>4. Head(Stamped(buffer)).ts = 1 /\ Last(Stamped(buffer)).ts = 1
    BY <2>2, <2>3 DEF Last
  <2>5. Stamped(buffer) # <<>>
    BY <2>2, <2>3, EmptySeq
  <2>6. /\ view'.buffer = <<>>
        /\ view'.notified = <<[id |-> 0, clear |-> TRUE, ts |-> 0]>>
        /\ view'.info = [time |-> 1, oldest |-> 1, newest |-> 1, count |-> Len(buffer)]
        /\ view'.reply = [op |-> "Reset", outcome |-> "done", count |-> 0]
    <3> DEFINE n == [id |-> 0, clear |-> TRUE, ts |-> 0]
    <3>1. Publish("Reset", "done", <<n>>)
      BY <1>5 DEF NoticeOf
    <3> HIDE DEF n
    <3>2. /\ view'.buffer = Stamped(buffer') /\ view'.notified = <<n>>
          /\ view'.info = [time |-> 1, oldest |-> 1, newest |-> 1, count |-> Len(buffer)]
          /\ view'.reply = [op |-> "Reset", outcome |-> "done", count |-> 0]
      BY <1>1, <3>1, PublishOne
    <3>3. QED
      BY <1>3, <2>1, <3>2 DEF n
  <2>7. QED
    BY <1>1, <2>3, <2>4, <2>5, <2>6, RingErase DEF Ring!Reset, Ring!Returns
<1>6. QED
  BY <1>4, <1>5

LEMMA VisitIsLock ==
  ASSUME Implements, NEW t \in Threads, Visit(t), buffer' # buffer,
         Publish("Lock", "done", <<>>)
  PROVE  \E i \in DOMAIN view.buffer : Ring!LockEntry(i)
<1>1. calls = <<>> /\ view.buffer = Stamped(buffer)
  BY NobodyDiscards DEF Visit
<1>2. buffer \in Seq(Entry) /\ DOMAIN buffer = 1..Len(buffer)
  BY LenProperties DEF Implements, Typed, BufferTyped
<1>3. PICK i \in 1..Len(buffer) : buffer' = [buffer EXCEPT ![i].locked = TRUE]
  BY <1>2 DEF Visit
<1>4. ~buffer[i].locked
  BY <1>2, <1>3, StampedLock
<1>5. /\ Stamped(buffer') = [Stamped(buffer) EXCEPT ![i].locked = TRUE]
      /\ i \in DOMAIN Stamped(buffer) /\ ~Stamped(buffer)[i].locked
  BY <1>2, <1>3, <1>4, StampedLock, StampedIs
<1>6. /\ view'.buffer = Stamped(buffer') /\ view'.notified = <<>>
      /\ view'.info = Ring!NoInfo
      /\ view'.reply = [op |-> "Lock", outcome |-> "done", count |-> 0]
  BY <1>1, PublishNone
<1>7. Ring!LockEntry(i)
  BY <1>1, <1>5, <1>6 DEF Ring!LockEntry, Ring!Returns
<1>8. QED
  BY <1>1, <1>5, <1>7

-----------------------------------------------------------------------------
(* Every step. *)

\* The ids of the calls are the Ids of RingBuffer.
LEMMA CallIdTyped ==
  ASSUME Implements, NEW t \in Threads
  PROVE  pc[t] \in {"room", "replace", "search", "erase"} => call[t].id \in CallIds
<1>1. Making(t)
  BY DEF Implements, Typed, CallsTyped
<1>2. pc[t] \in {"room", "replace"} => call[t] \in Calls[t] /\ call[t].op = "Add"
  BY <1>1 DEF Making, AddPlaces
<1>3. QED
  BY <1>1, <1>2, CallsAreCalls DEF Making, DeletePlaces

LEMMA EffectIsStep ==
  ASSUME Implements, NEW t \in Threads, Effect(t)
  PROVE  Ring!Next
<1>1. ASSUME NEW id \in CallIds, Ring!Push(id) \/ Ring!Delete(id)
      PROVE  Ring!Next
  BY <1>1 DEF Ring!Next, CallIds
<1>2. CASE NoRoom(t) /\ Publish("Push", IF AllowOverflow THEN "refused" ELSE "overflow", <<>>)
  <2>1. call[t].id \in CallIds
    BY <1>2, CallIdTyped DEF NoRoom
  <2>2. QED
    BY <1>1, <1>2, <2>1, NoRoomIsPush DEF Ring!Push
<1>3. CASE /\ RefuseId(t)
           /\ Publish("Push", IF BadId(buffer, call[t].id) THEN "badId" ELSE "refused", <<>>)
  <2>1. call[t].id \in CallIds
    BY <1>3, CallIdTyped DEF RefuseId
  <2>2. QED
    BY <1>1, <1>3, <2>1, RefuseIdIsPush DEF Ring!Push
<1>4. CASE Store(t) /\ Publish("Push", "stored", <<>>)
  <2>1. call[t].id \in CallIds
    BY <1>4, CallIdTyped DEF Store
  <2>2. QED
    BY <1>1, <1>4, <2>1, StoreIsPush DEF Ring!Push
<1>5. CASE Replace(t) /\ Publish("Push", "stored", NoticeOf(call[t].id, FALSE, 0))
  <2>1. call[t].id \in CallIds
    BY <1>5, CallIdTyped DEF Replace
  <2>2. QED
    BY <1>1, <1>5, <2>1, ReplaceIsPush DEF Ring!Push
<1>6. CASE \/ NotFound(t) /\ Publish("Delete", "done", <<>>)
           \/ Erase(t) /\ Publish("Delete", "done", NoticeOf(call[t].id, FALSE, 0))
  <2>1. call[t].id \in CallIds
    BY <1>6, CallIdTyped DEF NotFound, Erase
  <2>2. QED
    BY <1>1, <1>6, <2>1, DeleteIsDelete
<1>7. CASE \/ NothingToReset(t) /\ Publish("Reset", "done", <<>>)
           \/ Clear(t) /\ Publish("Reset", "done", NoticeOf(0, TRUE, 0))
  BY <1>7, ResetIsReset DEF Ring!Next
<1>8. CASE Visit(t) /\ buffer' # buffer /\ Publish("Lock", "done", <<>>)
  BY <1>8, VisitIsLock DEF Ring!Next
<1>9. QED
  BY <1>2, <1>3, <1>4, <1>5, <1>6, <1>7, <1>8 DEF Effect

\* After an effect, RingBuffer shows the buffer as it is.
LEMMA EffectPublishes ==
  ASSUME Implements, Typed', NEW t \in Threads, Effect(t)
  PROVE  Published'
<1>1. calls' = <<>> /\ view'.buffer = Stamped(buffer')
  BY PublishIs DEF Effect
<1>2. buffer' \in Seq(Entry) /\ Len(buffer') <= MaxSize
  BY DEF Typed, BufferTyped
<1>3. QED
  BY <1>1, <1>2, StampedIs DEF Published

LEMMA DiscardPublishes ==
  ASSUME Implements, NEW t \in Threads, PartOfPush(t)
  PROVE  Published' /\ UNCHANGED view
<1>1. pc[t] = "discard" /\ Full(buffer) /\ AllowOverflow /\ Unlocked(buffer) # {}
  BY DEF PartOfPush, Discard, Implements, Safe, Sections, FoundOut
<1>2. calls = <<>> /\ view.buffer = Stamped(buffer)
  BY <1>1, NobodyDiscards DEF InSection
<1>3. buffer \in Seq(Entry) /\ Len(buffer) <= MaxSize
  BY DEF Implements, Typed, BufferTyped
<1> DEFINE i == OldestUnlocked(buffer)
<1>4. i \in 1..Len(buffer)
  BY <1>1, <1>3, OldestUnlockedIs
<1>5. buffer' = RemoveAt(buffer, i) /\ pc'[t] = "room"
  BY DEF PartOfPush, Discard, Goto, Implements, Safe, Locks, ThreadTypes
<1>6. /\ Full(view.buffer) /\ Unlocked(view.buffer) # {} /\ OldestUnlocked(view.buffer) = i
  BY <1>1, <1>2, <1>3, StampedScans
<1>7. view.buffer[i].id = buffer[i].id
  BY <1>2, <1>3, <1>4, StampedIs
<1>8. calls' = NoticeOf(buffer[i].id, FALSE, 1) /\ view' = view
  BY <1>2 DEF PartOfPush, NoticeOf
<1> HIDE DEF i
<1>9. Stamped(buffer') = RemoveAt(view.buffer, i)
  BY <1>2, <1>3, <1>4, <1>5, StampedErase
<1>10. Discarding(t)'
  BY <1>1, <1>5, <1>6, <1>7, <1>8, <1>9 DEF Discarding
<1>11. QED
  BY <1>8, <1>10 DEF Implements, Published

\* A Push that has discarded goes on, unless it ends.
LEMMA DiscardingGoesOn ==
  ASSUME Implements, [Next]_vars, NEW t \in Threads, Discarding(t)
  PROVE  pc'[t] \in {"room", "replace", "ready", "cleanup"}
<1>1. pc[t] \in {"room", "replace"} /\ ~Full(buffer)
  BY WhoDiscards
<1> USE DEF Implements, Safe, Locks, ThreadTypes
<1>2. CASE UNCHANGED vars
  BY <1>1, <1>2 DEF vars, threadVars
<1>3. ASSUME NEW u \in Threads, u # t, Begin(u) \/ Continue(u)
      PROVE  pc'[t] = pc[t]
  BY <1>3, OthersStay
<1>4. CASE Begin(t)
  BY <1>1, <1>4 DEF Begin, BeginAdd, BeginDelete, BeginReset, BeginAcknowledgeReset,
                    BeginShared, EnterAny, Ready, SetReference, AcknowledgeOverflow,
                    GetReference, Visit
<1>5. CASE Add(t)
  BY <1>1, <1>5 DEF Add, BindRef, RejectRef, LoadFile, LoadFileFails, InRefs, RefsDone,
                    BeginPush, NoRoom, ReportDiscard, Discard, RefuseId, Store,
                    ReportReplaced, Replace, Cleanup, Goto, Leave
<1>6. CASE Continue(t) /\ ~Add(t)
  BY <1>1, <1>6 DEF Continue, Delete, LockForDelete, NotFound, ReportFound, Erase,
                    Reset, LockResetList, LockForReset, NothingToReset, Clear, RecordReset,
                    Wait, AcknowledgeReset, Share, EndIterate, DropReference, threadVars
<1>7. QED
  BY <1>1, <1>2, <1>3, <1>4, <1>5, <1>6 DEF Next, Rest

LEMMA ElsewherePublishes ==
  ASSUME Implements, [Next]_vars, buffer' = buffer, UNCHANGED auxVars,
         ~ \E t \in Threads : /\ pc[t] \in {"room", "replace", "search", "erase", "clear"}
                              /\ pc'[t] \in {"ready", "cleanup"}
  PROVE  Published' /\ UNCHANGED view
<1>1. view' = view /\ calls' = calls
  BY DEF auxVars
<1>2. ASSUME NEW t \in Threads, Discarding(t)
      PROVE  Discarding(t)'
  <2>1. pc'[t] \in {"room", "replace"}
    BY <1>2, DiscardingGoesOn DEF Discarding
  <2>2. QED
    BY <1>1, <1>2, <2>1 DEF Discarding
<1>3. QED
  BY <1>1, <1>2 DEF Implements, Published

\* A step of the detailed specification is one of DataSource.
LEMMA StepsAreSteps == [NextAtomic]_<<vars, auxVars>> => [Next]_vars
<1>1. ASSUME NEW t \in Threads, Effect(t) \/ PartOfPush(t)
      PROVE  Begin(t) \/ Continue(t)
  BY <1>1 DEF Effect, PartOfPush, Begin, Continue, Add, Delete, Reset
<1>2. QED
  BY <1>1 DEF NextAtomic, Elsewhere, Next

LEMMA NextPublishes ==
  ASSUME Implements, Typed', [NextAtomic]_<<vars, auxVars>>
  PROVE  Published' /\ [Ring!Next]_Ring!vars
<1>1. ASSUME UNCHANGED view
      PROVE  UNCHANGED Ring!vars
  BY <1>1 DEF Ring!vars
<1>2. ASSUME NEW t \in Threads, Effect(t)
      PROVE  Published' /\ Ring!Next
  BY <1>2, EffectIsStep, EffectPublishes
<1>3. ASSUME NEW t \in Threads, PartOfPush(t)
      PROVE  Published' /\ UNCHANGED view
  BY <1>3, DiscardPublishes
<1>4. CASE Elsewhere
  <2>1. Published' /\ UNCHANGED view
    BY <1>4, ElsewherePublishes DEF Elsewhere
  <2>2. QED
    BY <1>1, <2>1
<1>5. CASE UNCHANGED <<vars, auxVars>>
  <2>1. UNCHANGED <<view, calls, buffer, pc>>
    BY <1>5 DEF vars, auxVars, bufferVars, threadVars
  <2>2. Published'
    BY <2>1 DEF Implements, Published, Discarding
  <2>3. QED
    BY <1>1, <2>1, <2>2
<1>6. QED
  BY <1>1, <1>2, <1>3, <1>4, <1>5 DEF NextAtomic

LEMMA InitPublishes == InitAtomic => Published /\ Ring!Init
<1> SUFFICES ASSUME InitAtomic PROVE Published /\ Ring!Init
  OBVIOUS
<1>1. Stamped(<<>>) = <<>>
  <2>1. <<>> \in Seq(Entry) /\ Len(<<>>) = 0
    OBVIOUS
  <2>2. Stamped(<<>>) \in Seq(RingEntry) /\ Len(Stamped(<<>>)) = 0
    BY <2>1, StampedIs
  <2>3. QED
    BY <2>2, EmptySeq
<1>2. Published
  BY <1>1, BufferAssumption DEF InitAtomic, Init, Published
<1>3. Ring!Init
  BY DEF InitAtomic, Ring!Init, Ring!Times, Ring!NoInfo
<1>4. QED
  BY <1>2, <1>3

\* Each Add, Delete and Reset, and each entry a consumer locks, is one step of
\* RingBuffer, whatever the other threads do between the steps of the call: the
\* mutex of the ring buffer is held from the first look at the buffer until the
\* last callback (ring_buffer.cpp:24, :82, :102), and the numbers Push returns
\* and the callbacks it makes are those of one call.
THEOREM CallsTakeEffectAtOnce == SpecAtomic => CallsAreAtomic
<1>1. SpecAtomic => Spec
  BY StepsAreSteps, PTL DEF SpecAtomic, Spec, InitAtomic
<1>2. SpecAtomic => [](Safe /\ Typed)
  BY <1>1, TypedAlways, PTL
<1>3. InitAtomic => Published /\ Ring!Init
  BY InitPublishes
<1>4. /\ Safe /\ Typed /\ (Safe /\ Typed)' /\ Published /\ [NextAtomic]_<<vars, auxVars>>
      => Published' /\ [Ring!Next]_Ring!vars
  BY NextPublishes DEF Implements
<1>5. QED
  BY <1>2, <1>3, <1>4, PTL DEF SpecAtomic, CallsAreAtomic, Ring!Spec

-----------------------------------------------------------------------------
(* The auxiliary variables restrict nothing. *)

\* The steps for which NextAtomic says how view or calls changes.
Tracked(t) ==
  \/ NoRoom(t) \/ RefuseId(t) \/ Store(t) \/ Replace(t) \/ NotFound(t) \/ Erase(t)
  \/ NothingToReset(t) \/ Clear(t) \/ (Visit(t) /\ buffer' # buffer) \/ Discard(t)

\* A thread that ends its part in the buffer is tracked.
LEMMA EndsAreTracked ==
  ASSUME Safe, Next, NEW t \in Threads,
         pc[t] \in {"room", "replace", "search", "erase", "clear"},
         pc'[t] \in {"ready", "cleanup"}
  PROVE  Tracked(t)
<1> USE DEF Safe, Locks, ThreadTypes
<1>1. CASE UNCHANGED vars
  BY <1>1 DEF vars, threadVars
<1>2. ASSUME NEW u \in Threads, u # t, Begin(u) \/ Continue(u)
      PROVE  FALSE
  BY <1>2, OthersStay
<1>3. ~Begin(t)
  BY DEF Begin, BeginAdd, BeginDelete, BeginReset, BeginAcknowledgeReset, BeginShared,
         EnterAny, Ready, SetReference, AcknowledgeOverflow, GetReference, Visit
<1>4. Add(t) => Tracked(t)
  BY DEF Tracked, Add, BindRef, RejectRef, LoadFile, LoadFileFails, InRefs, RefsDone,
         BeginPush, ReportDiscard, ReportReplaced, Cleanup, Goto
<1>5. Delete(t) \/ Reset(t) => Tracked(t)
  BY DEF Tracked, Delete, LockForDelete, ReportFound,
         Reset, LockResetList, LockForReset, RecordReset, Goto
<1>6. ~(Wait(t) \/ AcknowledgeReset(t) \/ Share(t) \/ EndIterate(t) \/ DropReference(t))
  BY DEF Wait, AcknowledgeReset, Share, EndIterate, DropReference, threadVars
<1>7. QED
  BY <1>1, <1>2, <1>3, <1>4, <1>5, <1>6 DEF Next, Rest, Continue

\* NextAtomic has a step for every step of DataSource: each is tracked, or changes
\* no entry and ends no call's part in the buffer, so that Elsewhere allows it.
\* What CallsTakeEffectAtOnce says of SpecAtomic is so of every behaviour of
\* DataSource.
THEOREM EveryStepIsAllowed ==
  ASSUME Safe, Next
  PROVE  \/ \E t \in Threads : Tracked(t)
         \/ /\ buffer' = buffer
            /\ ~ \E t \in Threads :
                   /\ pc[t] \in {"room", "replace", "search", "erase", "clear"}
                   /\ pc'[t] \in {"ready", "cleanup"}
<1> SUFFICES ASSUME \A t \in Threads : ~Tracked(t)
             PROVE  /\ buffer' = buffer
                    /\ ~ \E t \in Threads :
                           /\ pc[t] \in {"room", "replace", "search", "erase", "clear"}
                           /\ pc'[t] \in {"ready", "cleanup"}
  OBVIOUS
<1>1. buffer' = buffer
  BY WhoChangesTheBuffer DEF Safe, Tracked, ChangesMembers
<1>2. QED
  BY <1>1, EndsAreTracked
=============================================================================
