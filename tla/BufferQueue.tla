---------------------------- MODULE BufferQueue ----------------------------
(***************************************************************************)
(* The deque of BufferEntry that RingBuffer keeps (include/types.hpp) and  *)
(* the decisions the ring buffer takes by looking at it: is it full, which *)
(* entry is discarded first, is an id acceptable, where does Delete find   *)
(* an entry.  No state is kept here: RingBuffer uses the operators in its  *)
(* atomic methods, DataSource in the steps of its concurrent calls.        *)
(*                                                                         *)
(* An entry is a record with at least the fields id, ts and locked         *)
(* (id_, timestamp_ms_ and locked_).  measurements_ is a pointer no        *)
(* operation of the ring buffer looks through.                             *)
(***************************************************************************)
EXTENDS Integers, Sequences, SequencesExt

CONSTANTS
  MaxSize,        (* kMaxSize_: number of storable entries                 *)
  CounterMode,    (* kCounterMode_: 0 ordered ids, anything else unique ids*)
  AllowOverflow   (* kAllowOverflow_: discard old data or throw            *)

ASSUME BufferAssumption ==
  /\ MaxSize \in Nat
  /\ CounterMode \in -128..127
  /\ AllowOverflow \in BOOLEAN

-----------------------------------------------------------------------------
(* Push, lines 27-51: room for one more entry. *)

\* Mutant: compares with > instead of >=.
FullOffByOne(buf) == Len(buf) > MaxSize

Full(buf) == Len(buf) >= MaxSize

Unlocked(buf) == {i \in DOMAIN buf : ~buf[i].locked}

\* Mutant: scans from the back.
NewestUnlocked(buf) ==
  CHOOSE i \in Unlocked(buf) : \A j \in Unlocked(buf) : i >= j

\* Mutant: the scan ignores locked_.
OldestAtAll(buf) == 1

\* The scan for old data starts at begin() and skips what is locked.
OldestUnlocked(buf) ==
  CHOOSE i \in Unlocked(buf) : \A j \in Unlocked(buf) : i <= j

-----------------------------------------------------------------------------
(* Push, lines 53-75: is the id acceptable. *)

\* Mutant: accepts the id of the newest entry again.
BadIdUnlessSmaller(buf, id) ==
  /\ CounterMode = 0
  /\ buf # <<>>
  /\ Last(buf).id > id

\* Counter mode 0: only ids greater than that of the newest entry.
BadId(buf, id) ==
  /\ CounterMode = 0
  /\ buf # <<>>
  /\ Last(buf).id >= id

\* The scan for an entry with the id, from begin(): none, or the first one.
Holding(buf, id) == {i \in DOMAIN buf : buf[i].id = id}

FirstHolding(buf, id) ==
  CHOOSE i \in Holding(buf, id) : \A j \in Holding(buf, id) : i <= j

\* Mutant: looks at the newest entry only.
DuplicateOfNewest(buf, id) ==
  CounterMode # 0 /\ buf # <<>> /\ Last(buf).id = id

\* Counter mode 1 looks for an earlier entry with the same id.
Duplicate(buf, id) == CounterMode # 0 /\ Holding(buf, id) # {}

-----------------------------------------------------------------------------
(* Delete, lines 84-96: where the scan finds the id.  In counter mode 0 it *)
(* gives up at the first greater id, trusting the entries to be sorted.    *)

\* Mutant: the early exit compares the wrong way round.
FoundInReverse(buf, id) ==
  {i \in Holding(buf, id) :
     CounterMode = 0 => \A j \in 1..(i - 1) : buf[j].id >= id}

Found(buf, id) ==
  {i \in Holding(buf, id) :
     CounterMode = 0 => \A j \in 1..(i - 1) : buf[j].id <= id}

=============================================================================
