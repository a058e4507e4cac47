----------------------------- MODULE DataSource -----------------------------
(***************************************************************************)
(* The data source (src/data_source_internal.cpp) used by several threads: *)
(* producers call Add, SetReference and Reset, consumers iterate, look up  *)
(* references, Delete and acknowledge.                                     *)
(*                                                                         *)
(* The object has four mutexes.  The reference mapping and the deletion    *)
(* list are locked around sections that wait for nothing, so such a        *)
(* section is one step.  The buffer's mutex is held by Push, Delete and    *)
(* Reset across callbacks into those sections and by a consumer for a      *)
(* whole iteration; the mutex of the reset list is held by Reset while it  *)
(* waits for the buffer's.  These two are variables here.                  *)
(*                                                                         *)
(* Parse (the first thing Add does) touches nothing but the parser, and a  *)
(* rejected text changes nothing here: it is no step of this module.  A    *)
(* data set is what Add is called with: the id, the REF values in the      *)
(* order of the measurements, and data, the identity of the measurements.  *)
(* Each thread makes every call of Calls[t] once at most, in any order.    *)
(***************************************************************************)
EXTENDS BufferQueue

CONSTANTS
  Threads,
  Calls,          (* [Threads -> set of calls]                             *)
  NestedOps,      (* operations a consumer calls while it iterates         *)
  UserRefs,       (* names given to SetReference                           *)
  FileNames,      (* paths of files a REF may name                         *)
  GeneratedRef,   (* GeneratedRef[n + 1] is "ref-" + std::to_string(n);
                     its length is the bound of ref_counter_               *)
  FilesMayFail,   (* reading or removing an existing file may fail         *)
  ResetInformationSize,     (* kResetInformationSize_                      *)
  DeletionInformationSize,  (* kDeletionInformationSize_                   *)
  Nobody, NoRef, Dangling   (* model values                                *)

Operations == {"Add", "SetReference", "Reset", "Delete", "DeleteRead",
               "Iterate", "GetReference", "GetSize", "AcknowledgeReset",
               "AcknowledgeOverflow"}

Names == UserRefs \cup FileNames \cup ToSet(GeneratedRef)

\* The arguments a call has, as far as the steps below use them.
IsCall(c) ==
  /\ c.op \in Operations
  /\ c.op \in {"Add", "Delete"} => c.id \in Int
  /\ c.op = "Add" => c.refs \in Seq(UserRefs \cup FileNames)
  /\ c.op = "SetReference" => c.ref \in UserRefs

ASSUME DataSourceAssumption ==
  /\ ResetInformationSize \in Nat /\ DeletionInformationSize \in Nat
  /\ NestedOps \subseteq Operations
  /\ FilesMayFail \in BOOLEAN
  /\ Nobody \notin Threads
  /\ GeneratedRef \in Seq(STRING)
  /\ NoRef # Dangling /\ {NoRef, Dangling} \cap Names = {}
  /\ UserRefs \cap FileNames = {}
  /\ Calls = [t \in Threads |-> Calls[t]]
  /\ \A t \in Threads : \A c \in Calls[t] : IsCall(c)

VARIABLES
  buffer,        (* buffer_.buffer_                                        *)
  owner,         (* thread that has locked the buffer's mutex_             *)
  readers,       (* threads that share it                                  *)
  writerWaits,   (* a thread waits to lock it                              *)
  refMapping,    (* ref_mapping_: name |-> [id, content]                   *)
  refCounter,    (* ref_counter_                                           *)
  files,         (* the files that exist                                   *)
  resetOwner,    (* thread that has locked reset_information_list_mutex_   *)
  resetList,     (* reset_information_list_                                *)
  deletionList,  (* deletion_information_list_                             *)
  pc,            (* where each thread is                                   *)
  call,          (* the call each thread is in                             *)
  local,         (* the local variables of that call                       *)
  todo,          (* the calls each thread has left                         *)
  seen,          (* the entries each thread has locked as a consumer       *)
  held,          (* the reference GetReference returned to each thread     *)
  (* History: *)
  lost,          (* data that Push discarded or Reset cleared              *)
  cleared,       (* data that Reset cleared since the last AcknowledgeReset*)
  told,          (* data in the lists that were acknowledged               *)
  truncated      (* an acknowledged list had exceeded_max_entries_         *)

bufferVars  == <<buffer, owner, readers, writerWaits>>
refVars     == <<refMapping, refCounter, files, held>>
resetVars   == <<resetOwner, resetList, cleared, lost>>
reportVars  == <<deletionList, told, truncated>>
threadVars  == <<pc, call, local, todo, seen>>
vars == <<bufferVars, refVars, resetVars, reportVars, threadVars>>

NoCall  == [op |-> "none"]
NoLocal == [rest |-> <<>>, refs |-> <<>>, gone |-> {}]
Empty   == [list |-> <<>>, exceeded |-> FALSE]

Init ==
  /\ buffer = <<>> /\ owner = Nobody /\ readers = {} /\ writerWaits = FALSE
  /\ refMapping = <<>> /\ refCounter = 0
  /\ files = FileNames
  /\ resetOwner = Nobody /\ resetList = Empty /\ deletionList = Empty
  /\ pc = [t \in Threads |-> "ready"]
  /\ call = [t \in Threads |-> NoCall]
  /\ local = [t \in Threads |-> NoLocal]
  /\ todo = Calls
  /\ seen = [t \in Threads |-> {}]
  /\ held = [t \in Threads |-> NoRef]
  /\ lost = {} /\ cleared = {} /\ told = {} /\ truncated = FALSE

-----------------------------------------------------------------------------
(* Calls and returns. *)

\* The calls t may make now: all, or those it makes in the middle of its loop.
Ready(t, op) ==
  {c \in todo[t] : /\ pc[t] = "ready"
                   /\ c.op = op
                   /\ t \in readers => op \in NestedOps}

Take(t, c) == todo' = [todo EXCEPT ![t] = @ \ {c}]

\* Thread t enters a call; c is the call, as the code sees its arguments.
Enter(t, c, where) ==
  /\ call' = [call EXCEPT ![t] = c]
  /\ pc' = [pc EXCEPT ![t] = where]

\* A call that begins by waiting for a mutex.
EnterAny(t, op, where) ==
  \E c \in Ready(t, op) :
    /\ Take(t, c) /\ Enter(t, c, where)
    /\ UNCHANGED <<bufferVars, refVars, resetVars, reportVars, local, seen>>

Goto(t, where) ==
  /\ pc' = [pc EXCEPT ![t] = where]
  /\ UNCHANGED call

\* Return or throw.
Leave(t) ==
  /\ pc' = [pc EXCEPT ![t] = "ready"]
  /\ call' = [call EXCEPT ![t] = NoCall]
  /\ local' = [local EXCEPT ![t] = NoLocal]

-----------------------------------------------------------------------------
(* boost::shared_mutex: a waiting writer keeps new readers out until the   *)
(* mutex is released by its owner or by the last reader.                   *)

CanLock  == owner = Nobody /\ readers = {}
CanShare == owner = Nobody /\ ~writerWaits

Lock(t) ==
  /\ CanLock
  /\ owner' = t
  /\ UNCHANGED <<buffer, readers, writerWaits>>

Unlock ==
  /\ owner' = Nobody
  /\ writerWaits' = FALSE
  /\ UNCHANGED readers

\* A thread that finds the mutex taken waits for it.
Wait(t) ==
  /\ pc[t] \in {"push", "delete", "reset"}
  /\ ~CanLock
  /\ ~writerWaits
  /\ writerWaits' = TRUE
  /\ UNCHANGED <<buffer, owner, readers, refVars, resetVars, reportVars, threadVars>>

-----------------------------------------------------------------------------
(* The reference mapping, with its two keys. *)

\* Mutant: erases from the beginning of the index to the end of the range.
RefsUpTo(id) == {r \in DOMAIN refMapping : refMapping[r].id <= id}

\* Mutant: calls that do not clear erase nothing.
RefsOfNobody(id) == {}

RefsOf(id) == {r \in DOMAIN refMapping : refMapping[r].id = id}

\* Erasing an element leaves whoever holds it with a dangling reference.
EraseRefs(names) ==
  /\ refMapping' = [r \in DOMAIN refMapping \ names |-> refMapping[r]]
  /\ held' = [t \in Threads |-> IF held[t] \in names THEN Dangling ELSE held[t]]
  /\ UNCHANGED <<refCounter, files>>

\* emplace has no effect when the name is taken.
Emplaced(r, id, content) ==
  IF r \in DOMAIN refMapping THEN refMapping
  ELSE [n \in DOMAIN refMapping \cup {r} |->
          IF n = r THEN [id |-> id, content |-> content] ELSE refMapping[n]]

SetReference(t) ==
  \E c \in Ready(t, "SetReference") :
    /\ Take(t, c)
    /\ refMapping' = Emplaced(c.ref, 0, c.ref)
    /\ UNCHANGED <<refCounter, files, held, bufferVars, resetVars, reportVars,
                   pc, call, local, seen>>

-----------------------------------------------------------------------------
(* Add, first part: ProcessRefMapping, one locked section for each REF.    *)

BeginAdd(t) ==
  \E c \in Ready(t, "Add") :
    /\ Take(t, c)
    /\ Enter(t, c, "refs")
    /\ local' = [local EXCEPT ![t].rest = c.refs]
    /\ UNCHANGED <<bufferVars, refVars, resetVars, reportVars, seen>>

InRefs(t) == pc[t] = "refs" /\ local[t].rest # <<>>
NextRef(t) == Head(local[t].rest)

\* Mutant: a reference in use is bound to another data set.
NeverInUse(r) == FALSE

InUse(r) == r \in DOMAIN refMapping /\ refMapping[r].id # 0

\* Lines 232-238: a reference set before is bound to the data set, and the
\* REFs after it are left as they are.
BindRef(t) ==
  /\ InRefs(t)
  /\ NextRef(t) \in DOMAIN refMapping /\ ~InUse(NextRef(t))
  /\ refMapping' = [refMapping EXCEPT ![NextRef(t)].id = call[t].id]
  /\ local' = [local EXCEPT ![t].refs = @ \o local[t].rest, ![t].rest = <<>>]
  /\ Goto(t, "push")
  /\ UNCHANGED <<refCounter, files, held, bufferVars, resetVars, reportVars, todo, seen>>

\* Lines 227-230 and 235-237: RefException, and nothing is taken back.
RejectRef(t) ==
  /\ InRefs(t)
  /\ InUse(NextRef(t)) \/ NextRef(t) \notin files \cup DOMAIN refMapping
  /\ Leave(t)
  /\ UNCHANGED <<bufferVars, refVars, resetVars, reportVars, todo, seen>>

\* Lines 241-282: the file moves into the mapping under a generated name.
LoadFile(t) ==
  /\ InRefs(t)
  /\ NextRef(t) \in files \ DOMAIN refMapping
  /\ refCounter < Len(GeneratedRef)
  /\ LET ref == GeneratedRef[refCounter + 1] IN
       /\ refMapping' = Emplaced(ref, call[t].id, NextRef(t))
       /\ local' = [local EXCEPT ![t].refs = Append(@, ref), ![t].rest = Tail(@)]
  /\ refCounter' = refCounter + 1
  /\ files' = files \ {NextRef(t)}
  /\ UNCHANGED <<held, bufferVars, resetVars, reportVars, pc, call, todo, seen>>

\* Lines 253-276: FileIoException; the name is used up, the file stays.
LoadFileFails(t) ==
  /\ InRefs(t)
  /\ FilesMayFail
  /\ NextRef(t) \in files \ DOMAIN refMapping
  /\ refCounter < Len(GeneratedRef)
  /\ refCounter' = refCounter + 1
  /\ Leave(t)
  /\ UNCHANGED <<refMapping, files, held, bufferVars, resetVars, reportVars, todo, seen>>

RefsDone(t) ==
  /\ pc[t] = "refs" /\ local[t].rest = <<>>
  /\ Goto(t, "push")
  /\ UNCHANGED <<bufferVars, refVars, resetVars, reportVars, local, todo, seen>>

-----------------------------------------------------------------------------
(* The lists of reports: OnDeleteCallback and Reset append, and drop the   *)
(* oldest report of a list that has grown too long.                        *)

\* Mutant: the list is not trimmed.
RecordedUntrimmed(reports, r, size) ==
  [reports EXCEPT !.list = Append(@, r)]

\* Mutant: trims a list that has just reached its size.
RecordedTooFew(reports, r, size) ==
  LET longer == Append(reports.list, r) IN
    IF Len(longer) >= size THEN [list |-> Tail(longer), exceeded |-> TRUE]
    ELSE [reports EXCEPT !.list = longer]

\* Mutant: exceeded_max_entries_ is not set.
RecordedSilently(reports, r, size) ==
  LET longer == Append(reports.list, r) IN
    [reports EXCEPT !.list = IF Len(longer) > size THEN Tail(longer) ELSE longer]

Recorded(reports, r, size) ==
  LET longer == Append(reports.list, r) IN
    IF Len(longer) > size THEN [list |-> Tail(longer), exceeded |-> TRUE]
    ELSE [reports EXCEPT !.list = longer]

\* DeletionInformation: the entry's own time identifies the data set, and the
\* deletion time is 0 unless Push discards the entry.
ReportDeletion(e, overflow) ==
  /\ deletionList' = Recorded(deletionList, [data |-> e.data, overflow |-> overflow],
                              DeletionInformationSize)
  /\ UNCHANGED <<told, truncated>>

-----------------------------------------------------------------------------
(* Add, second part: RingBuffer::Push.  Each callback is a step that       *)
(* appends the report and a step that erases the references; the entry     *)
(* leaves the buffer with the latter, since nobody sees the buffer before  *)
(* the mutex is released.                                                  *)

\* Mutant: Push does not wait for the consumers that iterate.
LockSharedForPush(t) ==
  /\ owner = Nobody
  /\ owner' = t
  /\ UNCHANGED <<buffer, readers, writerWaits>>

LockForPush(t) == Lock(t)

BeginPush(t) ==
  /\ pc[t] = "push"
  /\ LockForPush(t)
  /\ Goto(t, "room")
  /\ UNCHANGED <<refVars, resetVars, reportVars, local, todo, seen>>

\* Mutant: the mutex is released around the callback.
ReleaseForCallback == owner' = Nobody /\ UNCHANGED <<readers, writerWaits>>

\* The callbacks are made with the mutex locked.
HoldForCallback == UNCHANGED <<owner, readers, writerWaits>>

\* RingBufferOverflowException, or -1 because everything is locked.
NoRoom(t) ==
  /\ pc[t] = "room" /\ Full(buffer)
  /\ ~AllowOverflow \/ Unlocked(buffer) = {}
  /\ Unlock
  /\ Goto(t, "cleanup")
  /\ UNCHANGED <<buffer, refVars, resetVars, reportVars, local, todo, seen>>

ReportDiscard(t) ==
  /\ pc[t] = "room" /\ Full(buffer)
  /\ AllowOverflow /\ Unlocked(buffer) # {}
  /\ ReportDeletion(buffer[OldestUnlocked(buffer)], TRUE)
  /\ HoldForCallback
  /\ Goto(t, "discard")
  /\ UNCHANGED <<buffer, refVars, resetVars, local, todo, seen>>

Discard(t) ==
  /\ pc[t] = "discard"
  /\ LET e == buffer[OldestUnlocked(buffer)] IN
       /\ EraseRefs(RefsOf(e.id))
       /\ lost' = lost \cup {e.data}
  /\ buffer' = RemoveAt(buffer, OldestUnlocked(buffer))
  /\ Goto(t, "room")
  /\ UNCHANGED <<owner, readers, writerWaits, resetOwner, resetList, cleared,
                 reportVars, local, todo, seen>>

\* RingBufferException("Bad Id"), or -1 because the entry to override is locked.
RefuseId(t) ==
  /\ pc[t] = "room" /\ ~Full(buffer)
  /\ \/ BadId(buffer, call[t].id)
     \/ /\ Duplicate(buffer, call[t].id)
        /\ buffer[FirstHolding(buffer, call[t].id)].locked
  /\ Unlock
  /\ Goto(t, "cleanup")
  /\ UNCHANGED <<buffer, refVars, resetVars, reportVars, local, todo, seen>>

NewEntry(t) ==
  [id |-> call[t].id, refs |-> local[t].refs, data |-> call[t].data,
   locked |-> FALSE]

Store(t) ==
  /\ pc[t] = "room" /\ ~Full(buffer)
  /\ ~BadId(buffer, call[t].id) /\ ~Duplicate(buffer, call[t].id)
  /\ buffer' = Append(buffer, NewEntry(t))
  /\ Unlock
  /\ Leave(t)
  /\ UNCHANGED <<refVars, resetVars, reportVars, todo, seen>>

ReportReplaced(t) ==
  /\ pc[t] = "room" /\ ~Full(buffer)
  /\ Duplicate(buffer, call[t].id)
  /\ ~buffer[FirstHolding(buffer, call[t].id)].locked
  /\ ReportDeletion(buffer[FirstHolding(buffer, call[t].id)], FALSE)
  /\ Goto(t, "replace")
  /\ UNCHANGED <<bufferVars, refVars, resetVars, local, todo, seen>>

Replace(t) ==
  /\ pc[t] = "replace"
  /\ EraseRefs(RefsOf(call[t].id))
  /\ buffer' = Append(RemoveAt(buffer, FirstHolding(buffer, call[t].id)), NewEntry(t))
  /\ Unlock
  /\ Leave(t)
  /\ UNCHANGED <<resetVars, reportVars, todo, seen>>

\* Lines 61-67: DeleteRefMapping(id, false) when the data was not stored.
Cleanup(t) ==
  /\ pc[t] = "cleanup"
  /\ EraseRefs(RefsOf(call[t].id))
  /\ Leave(t)
  /\ UNCHANGED <<bufferVars, resetVars, reportVars, todo, seen>>

Add(t) ==
  \/ BindRef(t) \/ RejectRef(t) \/ LoadFile(t) \/ LoadFileFails(t) \/ RefsDone(t)
  \/ BeginPush(t) \/ NoRoom(t) \/ ReportDiscard(t) \/ Discard(t)
  \/ RefuseId(t) \/ Store(t) \/ ReportReplaced(t) \/ Replace(t) \/ Cleanup(t)

-----------------------------------------------------------------------------
(* Delete.  A consumer deletes an id it knows (call "Delete") or that of   *)
(* an entry it has read and locked (call "DeleteRead").                    *)

BeginDelete(t) ==
  /\ \/ \E c \in Ready(t, "Delete") :
          /\ Take(t, c)
          /\ Enter(t, c, "delete")
          /\ UNCHANGED seen
     \/ \E c \in Ready(t, "DeleteRead"), e \in seen[t] :
          /\ Take(t, c)
          /\ Enter(t, [op |-> "DeleteRead", id |-> e.id, data |-> e.data], "delete")
          /\ seen' = [seen EXCEPT ![t] = @ \ {e}]
  /\ UNCHANGED <<bufferVars, refVars, resetVars, reportVars, local>>

LockForDelete(t) ==
  /\ pc[t] = "delete"
  /\ Lock(t)
  /\ Goto(t, "search")
  /\ UNCHANGED <<refVars, resetVars, reportVars, local, todo, seen>>

NotFound(t) ==
  /\ pc[t] = "search"
  /\ Found(buffer, call[t].id) = {}
  /\ Unlock
  /\ Leave(t)
  /\ UNCHANGED <<buffer, refVars, resetVars, reportVars, todo, seen>>

ReportFound(t) ==
  /\ pc[t] = "search"
  /\ Found(buffer, call[t].id) # {}
  /\ ReportDeletion(buffer[FirstHolding(buffer, call[t].id)], FALSE)
  /\ Goto(t, "erase")
  /\ UNCHANGED <<bufferVars, refVars, resetVars, local, todo, seen>>

Erase(t) ==
  /\ pc[t] = "erase"
  /\ EraseRefs(RefsOf(call[t].id))
  /\ buffer' = RemoveAt(buffer, FirstHolding(buffer, call[t].id))
  /\ Unlock
  /\ Leave(t)
  /\ UNCHANGED <<resetVars, reportVars, todo, seen>>

Delete(t) == LockForDelete(t) \/ NotFound(t) \/ ReportFound(t) \/ Erase(t)

-----------------------------------------------------------------------------
(* Reset, with the reset list locked from the first to the last step.      *)

BeginReset(t) == EnterAny(t, "Reset", "resetList")

LockResetList(t) ==
  /\ pc[t] = "resetList"
  /\ resetOwner = Nobody
  /\ resetOwner' = t
  /\ Goto(t, "reset")
  /\ UNCHANGED <<resetList, cleared, lost, bufferVars, refVars, reportVars, local, todo, seen>>

LockForReset(t) ==
  /\ pc[t] = "reset"
  /\ Lock(t)
  /\ Goto(t, "clear")
  /\ UNCHANGED <<refVars, resetVars, reportVars, local, todo, seen>>

\* Mutant: the early return leaves the list locked.
KeepResetList == UNCHANGED resetOwner

UnlockResetList == resetOwner' = Nobody

\* The empty report of an empty buffer is popped again.
NothingToReset(t) ==
  /\ pc[t] = "clear" /\ buffer = <<>>
  /\ Unlock
  /\ UnlockResetList
  /\ Leave(t)
  /\ UNCHANGED <<buffer, refVars, resetList, cleared, lost, reportVars, todo, seen>>

DataIn(buf) == {buf[i].data : i \in DOMAIN buf}

\* Mutant: the flag of the clearing callback is ignored, its id is 0.
RefsWaiting == RefsOf(0)

AllRefs == DOMAIN refMapping

Clear(t) ==
  /\ pc[t] = "clear" /\ buffer # <<>>
  /\ EraseRefs(AllRefs)
  /\ buffer' = <<>>
  /\ cleared' = cleared \cup DataIn(buffer)
  /\ lost' = lost \cup DataIn(buffer)
  /\ local' = [local EXCEPT ![t].gone = DataIn(buffer)]
  /\ Unlock
  /\ Goto(t, "record")
  /\ UNCHANGED <<resetOwner, resetList, reportVars, todo, seen>>

\* The number and the times of the deleted data sets stand for the set.
RecordReset(t) ==
  /\ pc[t] = "record"
  /\ resetList' = Recorded(resetList, local[t].gone, ResetInformationSize)
  /\ UnlockResetList
  /\ Leave(t)
  /\ UNCHANGED <<cleared, lost, bufferVars, refVars, reportVars, todo, seen>>

Reset(t) ==
  LockResetList(t) \/ LockForReset(t) \/ NothingToReset(t) \/ Clear(t) \/ RecordReset(t)

-----------------------------------------------------------------------------
(* Acknowledging.  IsReset locks as AcknowledgeReset does.                 *)

BeginAcknowledgeReset(t) == EnterAny(t, "AcknowledgeReset", "ackReset")

AcknowledgeReset(t) ==
  /\ pc[t] = "ackReset"
  /\ resetOwner = Nobody
  /\ resetList' = Empty
  /\ cleared' = {}
  /\ told' = told \cup UNION ToSet(resetList.list)
  /\ truncated' = (truncated \/ resetList.exceeded)
  /\ Leave(t)
  /\ UNCHANGED <<resetOwner, lost, deletionList, bufferVars, refVars, todo, seen>>

AcknowledgeOverflow(t) ==
  \E c \in Ready(t, "AcknowledgeOverflow") :
    /\ Take(t, c)
    /\ deletionList' = Empty
    /\ told' = told \cup {r.data : r \in ToSet(deletionList.list)}
    /\ truncated' = (truncated \/ deletionList.exceeded)
    /\ UNCHANGED <<bufferVars, refVars, resetVars, pc, call, local, seen>>

-----------------------------------------------------------------------------
(* Consumers: GetBufferSharedMutex, begin and end, GetReference, GetSize   *)
(* and GetLastId.                                                          *)

BeginShared(t) == EnterAny(t, "Iterate", "share") \/ EnterAny(t, "GetSize", "share")

\* GetSize reads and leaves, an iterating consumer keeps the mutex.
Share(t) ==
  /\ pc[t] = "share"
  /\ CanShare
  /\ readers' = IF call[t].op = "Iterate" THEN readers \cup {t} ELSE readers
  /\ Leave(t)
  /\ UNCHANGED <<buffer, owner, writerWaits, refVars, resetVars, reportVars, todo, seen>>

\* The loop body of the README: read an entry, and lock it against discarding.
Visit(t) ==
  /\ t \in readers /\ pc[t] = "ready"
  /\ \E i \in DOMAIN buffer :
       /\ [id |-> buffer[i].id, data |-> buffer[i].data] \notin seen[t]
       /\ buffer' = [buffer EXCEPT ![i].locked = TRUE]
       /\ seen' = [seen EXCEPT ![t] = @ \cup {[id |-> buffer[i].id, data |-> buffer[i].data]}]
  /\ UNCHANGED <<owner, readers, writerWaits, refVars, resetVars, reportVars,
                 pc, call, local, todo>>

EndIterate(t) ==
  /\ t \in readers /\ pc[t] = "ready" /\ held[t] = NoRef
  /\ readers' = readers \ {t}
  /\ writerWaits' = (writerWaits /\ readers # {t})
  /\ UNCHANGED <<buffer, owner, refVars, resetVars, reportVars, threadVars>>

\* The reference returned is one into the container, used after the unlock.
GetReference(t) ==
  \E c \in Ready(t, "GetReference") :
    /\ Take(t, c)
    /\ held[t] = NoRef
    /\ held' = [held EXCEPT ![t] = IF c.ref \in DOMAIN refMapping THEN c.ref ELSE NoRef]
    /\ UNCHANGED <<refMapping, refCounter, files, bufferVars, resetVars, reportVars,
                   pc, call, local, seen>>

DropReference(t) ==
  /\ held[t] # NoRef
  /\ held' = [held EXCEPT ![t] = NoRef]
  /\ UNCHANGED <<refMapping, refCounter, files, bufferVars, resetVars, reportVars, threadVars>>

-----------------------------------------------------------------------------

\* Steps that carry on what a thread has begun.
Continue(t) ==
  \/ Wait(t) \/ Add(t) \/ Delete(t) \/ Reset(t) \/ AcknowledgeReset(t)
  \/ Share(t) \/ EndIterate(t) \/ DropReference(t)

Begin(t) ==
  \/ BeginAdd(t) \/ BeginDelete(t) \/ BeginReset(t) \/ BeginAcknowledgeReset(t)
  \/ BeginShared(t) \/ SetReference(t) \/ AcknowledgeOverflow(t)
  \/ GetReference(t) \/ Visit(t)

AllReturned ==
  /\ \A t \in Threads : pc[t] = "ready" /\ held[t] = NoRef
  /\ readers = {}

\* Nobody has anything more to do.
Rest == AllReturned /\ UNCHANGED vars

Next == (\E t \in Threads : Begin(t) \/ Continue(t)) \/ Rest

Spec == Init /\ [][Next]_vars

\* A thread that is running keeps running, and a consumer ends its loop.
Fairness == \A t \in Threads : WF_vars(Continue(t))

FairSpec == Spec /\ Fairness

-----------------------------------------------------------------------------
(* Invariants. *)

AllCalls == UNION {Calls[t] : t \in Threads}
AddCalls == {c \in AllCalls : c.op = "Add"}
DataIds == {c.id : c \in AddCalls}
Data == {c.data : c \in AddCalls}
Entry == [id : DataIds, refs : Seq(Names), data : Data, locked : BOOLEAN]

Places == {"ready", "refs", "push", "room", "discard", "replace", "cleanup",
           "delete", "search", "erase", "resetList", "reset", "clear", "record",
           "ackReset", "share"}

\* Every variable has its type.
TypeOK ==
  /\ buffer \in Seq(Entry) /\ Len(buffer) <= MaxSize
  /\ owner \in Threads \cup {Nobody} /\ readers \subseteq Threads
  /\ writerWaits \in BOOLEAN
  /\ DOMAIN refMapping \subseteq Names
  /\ \A r \in DOMAIN refMapping :
       refMapping[r] \in [id : DataIds \cup {0}, content : UserRefs \cup FileNames]
  /\ refCounter \in 0..Len(GeneratedRef) /\ files \subseteq FileNames
  /\ resetOwner \in Threads \cup {Nobody}
  /\ resetList.list \in Seq(SUBSET Data) /\ Len(resetList.list) <= ResetInformationSize
  /\ deletionList.list \in Seq([data : Data, overflow : BOOLEAN])
  /\ Len(deletionList.list) <= DeletionInformationSize
  /\ pc \in [Threads -> Places]
  /\ \A t \in Threads :
       /\ local[t].rest \in Seq(Names) /\ local[t].refs \in Seq(Names)
       /\ local[t].gone \subseteq Data
       /\ todo[t] \subseteq Calls[t]
       /\ seen[t] \subseteq [id : DataIds, data : Data]
  /\ held \in [Threads -> Names \cup {NoRef, Dangling}]

Entries == ToSet(buffer)

\* Limits of use, under which the properties of the references hold: what goes
\* wrong beyond them is shown by runs of their own.  A data set has one REF at
\* most ...
OneRefEach == \A c \in AddCalls : Len(c.refs) <= 1

NobodyResets == \A c \in AllCalls : c.op # "Reset"

\* ... its id is not 0 and comes once, nobody resets, and no name that is given
\* to SetReference looks like a generated one.
LimitsOfUse ==
  /\ OneRefEach
  /\ \A c \in AddCalls : c.id # 0
  /\ \A t, u \in Threads : \A c \in Calls[t], d \in Calls[u] :
       c.op = "Add" /\ d.op = "Add" /\ c.id = d.id => t = u /\ c = d
  /\ NobodyResets
  /\ \A m, n \in DOMAIN GeneratedRef : GeneratedRef[m] = GeneratedRef[n] => m = n
  /\ ToSet(GeneratedRef) \cap UserRefs = {}

\* One thread deletes, only what it has read.
OneDeleter ==
  /\ \A c \in AllCalls : c.op # "Delete"
  /\ \A t, u \in Threads : \A c \in Calls[t], d \in Calls[u] :
       c.op = "DeleteRead" /\ d.op = "DeleteRead" => t = u

\* A REF of a stored data set names a reference that exists and belongs to
\* that data set: a consumer that reads the entry can look it up.
RefsResolve ==
  \A e \in Entries : \A r \in ToSet(e.refs) :
    r \in DOMAIN refMapping /\ refMapping[r].id = e.id

\* A reference that belongs to a data set is in use: the data set is stored,
\* with a REF to it, or is being added.  Nothing else would ever remove it.
NoOrphanRefs ==
  \A r \in DOMAIN refMapping : refMapping[r].id # 0 =>
    \/ \E e \in Entries : e.id = refMapping[r].id /\ r \in ToSet(e.refs)
    \/ \E t \in Threads : call[t].op = "Add" /\ call[t].id = refMapping[r].id

\* No two stored data sets refer to the same reference, whose deletion with
\* one of them would take it from the other.
NoSharedRefs ==
  \A i, j \in DOMAIN buffer :
    i # j => ToSet(buffer[i].refs) \cap ToSet(buffer[j].refs) = {}

\* Whatever Push discards or Reset clears is in a list the consumer can still
\* get or has got, or is about to be recorded by the Reset that has the list
\* locked; unless a list has said that it exceeded its size.
NothingLostSilently ==
  \/ truncated \/ deletionList.exceeded \/ resetList.exceeded
  \/ lost \subseteq UNION {told, UNION ToSet(resetList.list),
                          {r.data : r \in ToSet(deletionList.list)},
                          IF resetOwner = Nobody THEN {} ELSE local[resetOwner].gone}

\* i_data_source_out.hpp:42: once a Reset has deleted data, IsReset (which
\* waits while a Reset has the list locked) says so until it is acknowledged.
ResetNoticed ==
  cleared # {} /\ resetOwner = Nobody => resetList.list # <<>>

-----------------------------------------------------------------------------
(* Action properties. *)

\* While a consumer iterates, no data set enters or leaves the buffer: its
\* iterators stay valid from begin() to end().
IterationStable ==
  [][readers # {} => DataIn(buffer') = DataIn(buffer)]_vars

\* The reference a consumer has looked up for an entry it iterates over lives
\* as long as it iterates, although it is not the buffer's mutex that guards
\* the mapping.
ReferenceLastsInLoop ==
  [][\A t \in readers : \A e \in Entries :
       held[t] \in ToSet(e.refs) => held'[t] # Dangling]_vars

Contents == files \cup {refMapping[r].content : r \in DOMAIN refMapping}

\* What was handed in, as a file or by SetReference, is kept until the data set
\* that refers to it leaves the buffer, or its own Add fails, or a Reset: no
\* cleaning up by id takes what waits or belongs to another data set
\* (data_source_internal.cpp:65, :82, :207), and no file is removed for nothing.
ContentLeavesWithData ==
  [][\A c \in Contents \ Contents' : \E r \in DOMAIN refMapping :
       /\ refMapping[r].content = c
       /\ \/ owner # Nobody /\ call[owner].op = "Reset"
          \/ \E e \in Entries \ ToSet(buffer') :
               e.id = refMapping[r].id /\ r \in ToSet(e.refs)
          \/ \E t \in Threads :
               /\ pc[t] = "cleanup" /\ pc'[t] # "cleanup"
               /\ call[t].id = refMapping[r].id /\ r \in ToSet(local[t].refs)]_vars

\* include/types.hpp:24: from the moment a consumer has locked an entry, only
\* a Delete of its id or a Reset makes the data go, whoever adds what.
LockedStays ==
  [][\A e \in Entries : e.locked /\ e.data \notin DataIn(buffer') =>
       \/ call[owner].op = "Reset"
       \/ call[owner].op \in {"Delete", "DeleteRead"} /\ call[owner].id = e.id]_vars

\* No Reset has begun.
NoResetYet == \A t \in Threads : \A c \in Calls[t] : c.op = "Reset" => c \in todo[t]

\* README.md:192: a consumer that deletes what it has read and locked deletes that
\* data set, and none that was added with the same id before or after it, whatever
\* producers add, discard and override between the reading and the deletion.  It
\* is the only one that deletes (OneDeleter).  A Reset would break the lock: after
\* it the id may be that of a data set that nobody has read.
DeletesWhatItRead ==
  [][NoResetYet /\ owner # Nobody /\ call[owner].op = "DeleteRead" =>
       DataIn(buffer) \ DataIn(buffer') \subseteq {call[owner].data}]_vars

-----------------------------------------------------------------------------
(* Liveness. *)

\* Every call returns: no thread waits forever for a mutex.
CallsReturn == \A t \in Threads : pc[t] # "ready" ~> pc[t] = "ready"
=============================================================================
