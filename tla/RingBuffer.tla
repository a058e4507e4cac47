----------------------------- MODULE RingBuffer -----------------------------
(***************************************************************************)
(* The ring buffer of the data source (src/ring_buffer.cpp).  Every method *)
(* holds mutex_ from its first to its last line, so one call is one step;  *)
(* a consumer that iterates holds it shared, and nothing else runs.        *)
(*                                                                         *)
(* reply is what the latest call returned or threw, notified the calls of  *)
(* on_delete_callback_ it made, info the ResetInformation it returned.     *)
(***************************************************************************)
EXTENDS BufferQueue

CONSTANTS
  Ids,          (* the data set ids the callers use                        *)
  MaxTime,      (* bound of the clock, in ticks                            *)
  SteadyClock   (* nobody sets system_clock back                           *)

ASSUME RingBufferAssumption ==
  /\ Ids \subseteq Int
  /\ MaxTime \in Nat \ {0}
  /\ SteadyClock \in BOOLEAN

VARIABLES
  buffer,    (* buffer_: oldest entry first                                *)
  now,       (* the millisecond clock GetCurrentTimeMs reads               *)
  reply,     (* operation, outcome and count of the latest step            *)
  notified,  (* on_delete_callback_ calls of the latest step, in order     *)
  info       (* ResetInformation returned by the latest step               *)

vars == <<buffer, now, reply, notified, info>>

Times == 0..MaxTime

Entry == [id : Ids, ts : Times, locked : BOOLEAN]

Outcomes == {"stored", "refused", "badId", "overflow", "done"}
Operations == {"none", "Push", "Delete", "Reset", "Lock", "Tick"}

\* count is the int Push returns: the number of discarded entries, or -1.
Reply == [op : Operations, outcome : Outcomes, count : {-1} \cup Nat]

Notice == [id : Int, clear : BOOLEAN, ts : Times]

Info == [time : Times, oldest : Times, newest : Times, count : Nat]

\* What Reset returns when there was nothing to delete.
NoInfo == [time |-> 0, oldest |-> 0, newest |-> 0, count |-> 0]

Init ==
  /\ buffer = <<>>
  /\ now \in Times \ {0}
  /\ reply = [op |-> "none", outcome |-> "done", count |-> 0]
  /\ notified = <<>>
  /\ info = NoInfo

-----------------------------------------------------------------------------
(* Push.  The loop of lines 33-44 discards unlocked entries until the size *)
(* drops below kMaxSize_; since the buffer never exceeds kMaxSize_         *)
(* (WithinCapacity), it discards one entry or none.                        *)

\* Mutant: discards although overflow is disallowed.
CanAlwaysDiscard == ~Full(buffer) \/ Unlocked(buffer) # {}

CanMakeRoom == ~Full(buffer) \/ (AllowOverflow /\ Unlocked(buffer) # {})

\* The buffer when Push reaches line 53, and the callbacks until then.
Roomy ==
  IF Full(buffer) THEN RemoveAt(buffer, OldestUnlocked(buffer)) ELSE buffer

\* Mutant: discards without telling the data source.
DiscardedSilently == <<>>

Discarded ==
  IF Full(buffer)
  THEN <<[id |-> buffer[OldestUnlocked(buffer)].id, clear |-> FALSE, ts |-> now]>>
  ELSE <<>>

\* Mutant: stamps the entry with a time relative to the end of time.
NewEntryRelative(id) == [id |-> id, ts |-> now - MaxTime, locked |-> FALSE]

NewEntry(id) == [id |-> id, ts |-> now, locked |-> FALSE]

PushReturns(outcome, count) ==
  /\ reply' = [op |-> "Push", outcome |-> outcome, count |-> count]
  /\ info' = NoInfo
  /\ UNCHANGED now

\* Lines 28-30 throw RingBufferOverflowException, lines 46-50 return -1.
PushNoRoom ==
  /\ ~CanMakeRoom
  /\ PushReturns(IF AllowOverflow THEN "refused" ELSE "overflow",
                 IF AllowOverflow THEN -1 ELSE 0)
  /\ notified' = <<>>
  /\ UNCHANGED buffer

\* Lines 53-57: the exception leaves the discarded entry discarded.
PushBadId(id) ==
  /\ CanMakeRoom
  /\ BadId(Roomy, id)
  /\ PushReturns("badId", 0)
  /\ notified' = Discarded
  /\ buffer' = Roomy

\* Lines 71-72: the entry with this id is locked.
PushLockedDuplicate(id) ==
  /\ CanMakeRoom
  /\ Duplicate(Roomy, id)
  /\ Roomy[FirstHolding(Roomy, id)].locked
  /\ PushReturns("refused", -1)
  /\ notified' = Discarded
  /\ buffer' = Roomy

\* Mutant: leaves the new entry where the old one was.
PushReplaceInPlace(id) ==
  /\ CanMakeRoom
  /\ Duplicate(Roomy, id)
  /\ ~Roomy[FirstHolding(Roomy, id)].locked
  /\ PushReturns("stored", Len(Discarded))
  /\ notified' = Append(Discarded, [id |-> id, clear |-> FALSE, ts |-> 0])
  /\ buffer' = ReplaceAt(Roomy, FirstHolding(Roomy, id), NewEntry(id))

\* Lines 62-69: the unlocked entry with this id makes way for the new one.
PushReplace(id) ==
  /\ CanMakeRoom
  /\ Duplicate(Roomy, id)
  /\ ~Roomy[FirstHolding(Roomy, id)].locked
  /\ PushReturns("stored", Len(Discarded))
  /\ notified' = Append(Discarded, [id |-> id, clear |-> FALSE, ts |-> 0])
  /\ buffer' = Append(RemoveAt(Roomy, FirstHolding(Roomy, id)), NewEntry(id))

PushNew(id) ==
  /\ CanMakeRoom
  /\ ~BadId(Roomy, id)
  /\ ~Duplicate(Roomy, id)
  /\ PushReturns("stored", Len(Discarded))
  /\ notified' = Discarded
  /\ buffer' = Append(Roomy, NewEntry(id))

Push(id) ==
  \/ PushNoRoom
  \/ PushBadId(id)
  \/ PushLockedDuplicate(id)
  \/ PushReplace(id)
  \/ PushNew(id)

-----------------------------------------------------------------------------
(* Delete treats an absent id as success. *)

Returns(op) ==
  /\ reply' = [op |-> op, outcome |-> "done", count |-> 0]
  /\ UNCHANGED now

Delete(id) ==
  /\ Returns("Delete")
  /\ info' = NoInfo
  /\ \/ /\ Found(buffer, id) # {}
        /\ notified' = <<[id |-> id, clear |-> FALSE, ts |-> 0]>>
        /\ buffer' = RemoveAt(buffer, FirstHolding(buffer, id))
     \/ /\ Found(buffer, id) = {}
        /\ notified' = <<>>
        /\ UNCHANGED buffer

(* Reset: one callback that clears everything, and a report on what was    *)
(* there.  An empty buffer returns the empty report and calls nobody.      *)

Reset ==
  /\ Returns("Reset")
  /\ buffer' = <<>>
  /\ \/ /\ buffer # <<>>
        /\ notified' = <<[id |-> 0, clear |-> TRUE, ts |-> 0]>>
        /\ info' = [time |-> now, oldest |-> Head(buffer).ts,
                    newest |-> Last(buffer).ts, count |-> Len(buffer)]
     \/ /\ buffer = <<>>
        /\ notified' = <<>>
        /\ info' = NoInfo

(* begin()/end(): a consumer iterating under the shared mutex marks an     *)
(* entry so that Push will not discard or override it.                     *)

LockEntry(i) ==
  /\ Returns("Lock")
  /\ ~buffer[i].locked
  /\ buffer' = [buffer EXCEPT ![i].locked = TRUE]
  /\ notified' = <<>>
  /\ info' = NoInfo

(* std::chrono::system_clock moves on, or is set to another time. *)

Tick(t) ==
  /\ SteadyClock => t > now
  /\ now' = t
  /\ reply' = [op |-> "Tick", outcome |-> "done", count |-> 0]
  /\ notified' = <<>>
  /\ info' = NoInfo
  /\ UNCHANGED buffer

Next ==
  \/ \E id \in Ids : Push(id)
  \/ \E id \in Ids : Delete(id)
  \/ Reset
  \/ \E i \in DOMAIN buffer : LockEntry(i)
  \/ \E t \in Times \ {0} : Tick(t)

Spec == Init /\ [][Next]_vars

-----------------------------------------------------------------------------
(* Invariants. *)

IdsOf(buf) == {buf[i].id : i \in DOMAIN buf}

\* Every variable has its type; the clock is past 0, the value Reset keeps
\* for "nothing was deleted".
TypeOK ==
  /\ buffer \in Seq(Entry)
  /\ now \in Times \ {0}
  /\ reply \in Reply
  /\ notified \in Seq(Notice)
  /\ info \in Info

\* Push never stores more entries than kMaxSize_, whatever is locked: the
\* loop of Push may rely on having to discard one entry at most.
WithinCapacity == Len(buffer) <= MaxSize

\* Counter mode 0 keeps the entries sorted by id, through discards, deletions
\* and rejected pushes; Delete's early exit (line 92) relies on it.
IdsIncrease ==
  CounterMode = 0 =>
    \A i, j \in DOMAIN buffer : i < j => buffer[i].id < buffer[j].id

\* No id is stored twice, in either counter mode.
UniqueIds ==
  \A i, j \in DOMAIN buffer : buffer[i].id = buffer[j].id => i = j

\* Entries lie in the order they were added, so that Reset finds the oldest
\* timestamp at the front and the newest at the back, even after an entry was
\* overridden in counter mode 1; as long as nobody sets the clock back.
TimeOrdered ==
  SteadyClock =>
    \A i, j \in DOMAIN buffer :
      /\ i < j => buffer[i].ts <= buffer[j].ts
      /\ buffer[i].ts <= now

-----------------------------------------------------------------------------
(* Action properties. *)

\* include/types.hpp: a locked entry is not deleted if the buffer overflows
\* or overridden with counter mode 1.  No Push removes or changes one.
LockedSurvives ==
  [][reply'.op = "Push" =>
       \A e \in ToSet(buffer) : e.locked => e \in ToSet(buffer')]_vars

\* An overflow (the callbacks that carry a time) discards from a full buffer
\* only, and takes the oldest entry that is not locked.
OldestUnlockedFirst ==
  [][\A n \in ToSet(notified') : n.ts # 0 =>
       /\ reply'.op = "Push" /\ AllowOverflow /\ Full(buffer)
       /\ \E i \in DOMAIN buffer :
            /\ buffer[i].id = n.id /\ ~buffer[i].locked
            /\ \A j \in 1..(i - 1) : buffer[j].locked]_vars

\* The callback sees exactly the entries that leave: one call for each, none
\* for an entry that stays, and one clearing call for a Reset.  The reference
\* mapping of the data source is maintained by these calls alone.
RemovalsNotified ==
  [][LET leaves == IF \E n \in ToSet(notified') : n.clear
                   THEN Len(buffer) ELSE Len(notified')
         enters == IF reply'.outcome = "stored" THEN 1 ELSE 0
         clear  == \E n \in ToSet(notified') : n.clear
     IN /\ Len(buffer') = Len(buffer) - leaves + enters
        /\ clear \/ IdsOf(buffer) \subseteq IdsOf(buffer') \cup IdsOf(notified')
        /\ \A n \in ToSet(notified') : ~n.clear =>
             /\ n.id \in IdsOf(buffer)
             /\ n.id \in IdsOf(buffer') => enters = 1 /\ Last(buffer').id = n.id
    ]_vars

\* A Push that fails stores nothing and costs at most one entry, an unlocked
\* one of a full buffer; all the others stay as they were, in their order.
FailedPushKeeps ==
  [][reply'.op = "Push" /\ reply'.outcome # "stored" =>
       \/ buffer' = buffer
       \/ /\ AllowOverflow /\ Full(buffer)
          /\ \E i \in Unlocked(buffer) : buffer' = RemoveAt(buffer, i)]_vars

\* Delete(id) removes every entry with the id and no other one, although its
\* scan stops at the first hit and, in counter mode 0, at a greater id.
DeleteIsExact ==
  [][\A id \in Ids : Delete(id) =>
       ToSet(buffer') = {e \in ToSet(buffer) : e.id # id}]_vars

\* The report of a Reset covers every entry it deletes: none is older than
\* the oldest or newer than the newest time, and their number is right.
ResetReportCovers ==
  [][info' # NoInfo =>
       /\ info'.count = Len(buffer)
       /\ \A e \in ToSet(buffer) :
            info'.oldest <= e.ts /\ e.ts <= info'.newest
       /\ info'.newest <= info'.time]_vars

\* With overflow disallowed, no Push makes a stored id disappear: data leaves
\* through Delete and Reset only.
StoredUntilDeleted ==
  [][reply'.op = "Push" => IdsOf(buffer) \subseteq IdsOf(buffer')]_vars
=============================================================================
