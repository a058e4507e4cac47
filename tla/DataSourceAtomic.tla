-------------------------- MODULE DataSourceAtomic --------------------------
(***************************************************************************)
(* The calls of a data source take effect on its buffer at once, as if     *)
(* they were the atomic methods of RingBuffer: whatever the threads do     *)
(* between the steps of a call, nobody sees a part of it, and it returns   *)
(* what RingBuffer returns.  DataSource implements RingBuffer under the    *)
(* refinement mapping below, and with it all that is proved of RingBuffer. *)
(*                                                                         *)
(* Two auxiliary variables change along with the steps of DataSource and   *)
(* restrict none of them.  view is the state of RingBuffer, as it was when *)
(* the buffer's mutex was last released; calls are the callbacks that the  *)
(* thread which has the mutex has made since it took it.  There is no      *)
(* clock here: every entry has the time 1.                                 *)
(***************************************************************************)
EXTENDS DataSource

VARIABLES view, calls

auxVars == <<view, calls>>

NoticeOf(id, clear, ts) == <<[id |-> id, clear |-> clear, ts |-> ts]>>

\* The entries as RingBuffer has them.
Stamped(buf) ==
  [i \in DOMAIN buf |-> [id |-> buf[i].id, ts |-> 1, locked |-> buf[i].locked]]

InitAtomic ==
  /\ Init
  /\ calls = <<>>
  /\ view = [buffer |-> <<>>, notified |-> <<>>,
             reply |-> [op |-> "none", outcome |-> "done", count |-> 0],
             info |-> [time |-> 0, oldest |-> 0, newest |-> 0, count |-> 0]]

\* A step that ends a call's part in the buffer, with its last callbacks; each
\* callback before it discarded an entry, which deletion_counter has counted.
Publish(op, outcome, last) ==
  /\ calls' = <<>>
  /\ view' = [buffer |-> Stamped(buffer'), notified |-> calls \o last,
              reply |-> [op |-> op, outcome |-> outcome,
                         count |-> CASE outcome = "refused" -> -1
                                     [] outcome = "stored" -> Len(calls)
                                     [] OTHER -> 0],
              info |-> IF op = "Reset" /\ last # <<>>
                       THEN [time |-> 1, oldest |-> 1, newest |-> 1, count |-> Len(buffer)]
                       ELSE [time |-> 0, oldest |-> 0, newest |-> 0, count |-> 0]]

Effect(t) ==
  \/ NoRoom(t) /\ Publish("Push", IF AllowOverflow THEN "refused" ELSE "overflow", <<>>)
  \/ RefuseId(t) /\ Publish("Push", IF BadId(buffer, call[t].id) THEN "badId" ELSE "refused", <<>>)
  \/ Store(t) /\ Publish("Push", "stored", <<>>)
  \/ Replace(t) /\ Publish("Push", "stored", NoticeOf(call[t].id, FALSE, 0))
  \/ NotFound(t) /\ Publish("Delete", "done", <<>>)
  \/ Erase(t) /\ Publish("Delete", "done", NoticeOf(call[t].id, FALSE, 0))
  \/ NothingToReset(t) /\ Publish("Reset", "done", <<>>)
  \/ Clear(t) /\ Publish("Reset", "done", NoticeOf(0, TRUE, 0))
  \/ Visit(t) /\ buffer' # buffer /\ Publish("Lock", "done", <<>>)

\* A discard is part of the Push that goes on.
PartOfPush(t) ==
  /\ Discard(t)
  /\ calls' = calls \o NoticeOf(buffer[OldestUnlocked(buffer)].id, FALSE, 1)
  /\ UNCHANGED view

\* All other steps leave the buffer alone, and none of them ends a call's part in
\* it.
Elsewhere ==
  /\ Next
  /\ buffer' = buffer
  /\ ~ \E t \in Threads : /\ pc[t] \in {"room", "replace", "search", "erase", "clear"}
                          /\ pc'[t] \in {"ready", "cleanup"}
  /\ UNCHANGED auxVars

NextAtomic == (\E t \in Threads : Effect(t) \/ PartOfPush(t)) \/ Elsewhere

SpecAtomic == InitAtomic /\ [][NextAtomic]_<<vars, auxVars>>

-----------------------------------------------------------------------------

Ring == INSTANCE RingBuffer WITH
  Ids <- {c.id : c \in {d \in AllCalls : d.op \in {"Add", "Delete"}}},
  MaxTime <- 1, SteadyClock <- FALSE, now <- 1,
  buffer <- view.buffer, reply <- view.reply, notified <- view.notified,
  info <- view.info

\* Each Add, Delete and Reset of a thread, and each entry a consumer locks, is
\* one step of RingBuffer, with the same callbacks and the same return value;
\* everything else is none.  In particular the number Add returns counts the
\* entries it discarded and not the one it overrode.
CallsAreAtomic == Ring!Spec
=============================================================================
