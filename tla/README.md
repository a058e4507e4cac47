# A TLA+ model of qdsDataInterface

This directory specifies the core of `qdsDataInterface`, the in-memory store of
TRUMPF Quality Data Storage (QDS) data: a ring buffer of data sets, the data
source that wraps it with reference data and reports, the parser and the
validator that turn JSON text into measurements, and the way measurements are
written as text again. The modules are model-checked with TLC. Every safety
property that the passing runs check is also proved with TLAPS, for every value
of the constants; section 4 says from which assumptions, and what is left to TLC.

Paths below are relative to the repository (`src/ring_buffer.cpp` is the source
file of the ring buffer).

## 1. Inventory

| Component | State | Operations that change it |
|---|---|---|
| Ring buffer, `src/ring_buffer.*` | `buffer_`, a deque of entries (id, measurements, time, `locked_`) under `mutex_` | `Push`, `Delete`, `Reset`; consumers set `locked_` through `begin()`/`end()` |
| Data source, `src/data_source_internal.*` | reset list and deletion list, each under a mutex of its own; the ring buffer; the reference mapping | `Add`, `SetReference`, `Reset`, `Delete`, `AcknowledgeReset`, `AcknowledgeOverflow` |
| Reference mapping, in the data source | `ref_mapping_` (unique by name, indexed by id), `ref_counter_`, the files it loads and deletes | `SetReference`, `ProcessRefMapping` (in `Add`), `DeleteRefMapping` (callback of the buffer, and after a failed `Push`) |
| Data validator, `src/parsing/data_validator.*` | the `ParsingState` of one `Add` | `OnObjectBegin`, `OnKey`, `OnValue`, `OnObjectEnd` |
| JSON parser, `src/parsing/json_parser.hpp` | a Boost parser and a state pointer under a mutex | `Parse`, which calls the validator back |
| Measurement, `include/measurement.hpp` | none | none; `ToJson` writes measurements as a text |
| Exceptions, factory, heap statistics | none | none |

How they interact:

- `Add` parses (parser to validator, by callback), binds or loads references
  (`ProcessRefMapping`, one locked section per REF), then calls `Push`. A failed
  `Push` is followed by `DeleteRefMapping(id)`.
- The ring buffer calls `OnDeleteCallback` for every entry it removes, while it
  holds its mutex: the callback appends to the deletion list (its own mutex) and
  then erases the references with the entry's id (the mapping's mutex).
- `DataSourceInternal::Reset` locks the reset list, then calls
  `RingBuffer::Reset`, which locks the buffer and calls back once to clear the
  mapping.
- A consumer shares the buffer's mutex while it iterates, marks entries as
  locked, and calls `GetReference`, `Delete` and the acknowledging methods inside
  or outside of its loop.

What is hard here: `Add` is not atomic (parse, bind, push and clean up are
separate critical sections); removal is reported and references are maintained by
callbacks under three nested locks; references are removed *by id*, and an id can
be absent, stored, stored by another call, or 0; a failing step in the middle
(`RefException`, `FileIoException`, `Bad Id`, all entries locked) leaves the
earlier steps done; lists and buffer have limits; the clock can be set back.
`PROJECT.json` lists each hazard with its line.

What makes each component correct:

- *Ring buffer*: never more than `kMaxSize_` entries; sorted ids in counter mode
  0, unique ids in both; a locked entry survives every `Push`; an overflow takes
  the oldest unlocked entry of a full buffer; a failed `Push` costs at most that
  entry; `Delete` is exact; every removal is called back; `Reset` reports the
  right times and number.
- *References*: every REF of a stored data set resolves to a reference that
  belongs to it; no reference belongs to a data set that is gone; none is shared;
  one that waits for its data set is not removed.
- *Reports*: what left the buffer is in a list, or a list says it overflowed.
- *Threads*: iteration sees a stable buffer, calls return, a consumer deletes what
  it read, and what a call does to the buffer happens at once.
- *Validator*: an accepted text gives exactly the measurements it describes, all
  of them checked; what is not in the format is refused.
- *Parser*: no text sees what another one left in the parser.
- *Serialization*: what `ToJson` writes is read back as it was, or refused.

## 2. Modules

```
BufferQueue               decisions on the deque (operators only)
  BufferQueueProofs       lemmas about them, shared by the proofs below
  RingBuffer              one atomic step per method, with clock and callbacks
    RingBufferProofs      its invariants and action properties, proved
  DataSource              threads, mutexes, references, reports
    DataSourceProofs      what the mutexes and the reports achieve, proved
      DataSourceRefProofs what an id stands for: references and deletions, proved
    DataSourceAtomic      DataSource implements RingBuffer
      DataSourceAtomicProofs  the refinement, proved
    MCDataSource, MCDataSourceAtomic  which thread calls what, per run
DataValidator             the SAX events of a text and the validator's callbacks
  DataValidatorProofs     what is accepted is complete and what the text says, proved
  Serialization           ToJson, and its text read back
    SerializationProofs   a copy is the original, or is refused, proved
    MCSerialization       keys and scalars, per run
JsonParser                the sessions of the parser that all Adds share
  JsonParserProofs        no session sees another one, proved
  MCJsonParser            the texts, per run
```

**BufferQueue** holds what `Push` and `Delete` decide by looking at the deque:
`Full`, `OldestUnlocked`, `BadId`, `Duplicate`, `Found`. `RingBuffer` and
`DataSource` share it, so that the ring buffer inside the data source is the one
the theorems are about.

**RingBuffer** models each method as one step, which is what its mutex makes of
it. `buffer`, `now` are the state; `reply`, `notified` and `info` are what the
latest call returned or threw, the callbacks it made in order, and the
`ResetInformation` it returned. `Push` has one action for each way out of the
function. `LockEntry` is a consumer's `entry.locked_ = true` under the shared
mutex. `Tick` moves `system_clock`; it goes forward only if `SteadyClock`.

**DataSource** models a data source used by threads. `pc`, `call` and `local` are
a thread's place in a method, the arguments and the local variables. A section
that is locked and waits for nothing is one step. Two mutexes are held across
others and are explicit: the buffer's (`owner`, `readers`, `writerWaits`, after
`boost::shared_mutex`: a waiting writer keeps new readers out) and that of the
reset list (`resetOwner`). A callback of the ring buffer is two steps, the report
and the erasing of references, since it locks twice. The entry leaves `buffer`
with the second one; nobody can see the difference before the mutex is released.
`held` is the result of `GetReference`, a reference into the container; it
becomes `Dangling` when the element is destroyed. `lost`, `cleared`, `told` and
`truncated` are history variables for the properties about reports. Every call
belongs to a thread that makes it once (`todo`), which bounds the behaviours.

**DataSourceAtomic** states what a data source promises of its buffer: that of
`RingBuffer`, whose methods are atomic. It adds two auxiliary variables to
`DataSource`, which restrict none of its steps: `view`, the state of the ring
buffer as the last release of the mutex left it, and `calls`, the callbacks made
since the mutex was taken. A section that ends its work on the buffer publishes
(`Publish`): the buffer, the callbacks of the whole call, the value it returns or
the exception. `CallsAreAtomic` is the specification of `RingBuffer` under this
mapping. There is no clock in `DataSource`, so every time is 1.

**DataValidator** chooses a JSON text event by event: containers (two deep at
most, as `SetOptions` says), keys and scalars. `data`, `hasKey`, `validator`,
`completed` are the fields of `ParsingState`. Arrays make no callback, so the
validator cannot tell the elements of an array from values of the object around
it. Keys are abstracted to the entry `strncmp` finds for them (`Matches`), strings
to what the checks tell apart, integer widths to `Int32Max` and `Int64Max`.
`text` is a history variable: what each object said. `Meaning` is the measurement
that an object describes, in terms of the text alone: under each key, spelled out,
there is one scalar, and it is what the measurement has. That is no meaning for an
object beyond the format (`InFormat`: keys spelled out, a name or a unit once,
numbers within an int64), which the validator accepts all the same; what it should
do is stated by `AcceptedIsInFormat`. `Arranged` says in which order the
measurements of all objects should
stand, timestamps first and in reverse, by a bijection between the measurements
and the objects they come from.

**Serialization** lets a consumer write the measurements of an accepted text with
`ToJson` and gives the events of that text to the validator's callbacks, the same
actions that read the original. `ToJson` writes a sequence of parts: the bracket,
one part for each measurement, the bracket. `sent` are the measurements that were
written, `part` and `place` how far their text has been read.
`SerializationAssumption` says that the four keys that `ToJson` writes are among the
keys of the texts.

**JsonParser** is the other side of the callbacks: one Boost parser and one state
pointer for all producers, under a mutex. `target` is the pointer, `read` what the
Boost parser has read since its last reset. A text is a sequence of pieces, each a
callback or an error; a callback throws when its state has had that piece before,
as the validator does for a key. So whether a text is accepted depends on whether
the state and the parser are fresh, which is what a session must not take from the
one before it.

## 3. Runs

Passing:

| Run | Asks | Bounds |
|---|---|---|
| `ring_ordered` | counter mode 0 with overflow: type, capacity, sorted ids, which entry is discarded, failed pushes, exact deletes | 3 entries, 4 ids, 3 ticks |
| `ring_unique` | counter mode 1 with overflow: unique ids, time order, locked entries, callbacks, report of `Reset` | same |
| `ring_no_overflow` | overflow disallowed, and a clock that may be set back: no `Push` removes an id | same |
| `data_source_refs` | buffer and reference mapping agree, no content is lost | counter mode 0; 2 producers with 2 data sets each, one of them with a file that may fail to load, 1 consumer that iterates, looks up and deletes; 2 entries |
| `data_source_consumers` | iteration stable, locked data stays, deletes hit what was read, every call is a step of `RingBuffer` | counter mode 1; 3 data sets of 2 producers with an id that comes again, a reset, 2 iterating consumers, one of which has 2 loops and 2 deletions of what it read; 2 entries |
| `data_source_returns` | every call returns (liveness), nothing lost silently, resets noticed, a `Reset` leaves no orphan | counter mode 1; 3 data sets with an override, a reset, a delete, acknowledgements in and out of a loop; 2 entries, lists of 1 |
| `validator_object` | one object: every key, a prefix of one and an unknown one, values of right and wrong kinds at the limits of their types; in the format it becomes what it describes; its copy through `ToJson` | 4 scalars |
| `validator_list` | order and completeness over several objects and nestings; their copy through `ToJson` | 3 objects, 3 scalars each |
| `parser_sessions` | no session sees another one | 2 threads, any number of calls; 42 texts of up to 3 pieces |

Why these bounds: with three entries a locked entry can lie before, between and
after unlocked ones, and there is one id more than places. Two entries in the
data source make the third `Add` overflow while the two others still have their
references; lists of one report overflow at the second. Two loops and two deletions
let an id that the consumer has deleted come again and be read, while the first
deletion of it is over and the second is to come. A list of one report is
also the smallest in which a deletion or an override pushes out the report of an
overflow: `NothingLostSilently` says that the flag then tells. Three threads are needed
for a reader, a writer that waits for it and a reader that waits behind the
writer. Three objects are the fewest for which moving a timestamp to the front
differs from swapping it there; three scalars make a complete measurement, four
one with a UNIT, a DECIMALS or a NAME given twice. In the parser a session can
inherit something only from the one that ended before it, so two threads and texts
that end in each of the ways (accepted, refused by a callback, broken, cut short,
too long) are enough; the proof removes the bound. In the validator runs TLC also
evaluates
`ArrangedIsSelected`, for all pairs of lists of up to three measurements: that two
lists are `Arranged` means that the first is the timestamps of the second in
reverse, followed by its other measurements.

The refinement is checked with overflow allowed, in counter mode 1, the mode in
which a call may both discard and override. `CallsTakeEffectAtOnce` proves it for
both modes and all sizes, so that the theorems about `RingBuffer` hold of the
buffer inside a data source as well, whatever the threads do.

Runs that show a disagreement between the code and what its documentation or
comments say (each is a finding in `PROJECT.json`, with the quoted line):

| Run | What the code does |
|---|---|
| `data_source_reset_race` | a `Reset` between the binding of a reference and the storing of its data set leaves a REF to nothing |
| `data_source_lock_order` | `Reset` and an `AcknowledgeReset` inside a consumer's loop lock two mutexes in opposite orders and wait forever; a consumer that calls `GetSize` inside its loop waits behind a writer that waits for it |
| `validator_format` | errors that `exception.hpp` lists are accepted: a number beyond an int64, stored as a negative one; an INTEGER or a FLOAT however far below the lower limit; a second NAME or UNIT after an empty one; a prefix of a key for the key |

TLC stops at the first counterexample it finds. Each of the four parts of
`AcceptedIsInFormat` (`NumbersAreKept`, `NumbersInRange`, `GivenOnce`,
`KeysAreEntries`) is violated on its own when it takes the place of the whole in
`Serialization_format.cfg`.

The model reproduces more behaviours that a reader of the headers may not expect.
They have no run of their own; each follows from the named definition with the
calls given here. In the first group entry, mapping and reports end in
disagreement:

- A data set with two REFs: when the first names an existing reference, the second
  is not bound (`BindRef` ends the loop).
- A data set with a file and then a REF to nothing leaves the loaded file in the
  mapping, with the id of a data set that never came (`RejectRef` takes nothing
  back).
- A stored id added again in counter mode 0: it is refused, and the clean-up erases
  the references of the data set that is stored (`Cleanup`).
- An override in counter mode 1 by a data set with a REF: the callback erases the
  reference that was just bound (`Replace`).
- A `Delete` or a refused `Add` of id 0 erases the references that wait for their
  data set, since they have the id 0 (`Erase`, `Cleanup`).
- A user's reference with the name the next loaded file gets: the file is gone and
  its content is not kept (`Emplaced` has no effect).
- After a `Reset` an id is used again: a consumer that read the earlier data set
  deletes the later one, which it has not read (`Erase`).
- With list sizes of 0 `IsReset` and `IsOverflown` are never true (`Recorded`).

In the second group nothing is lost:

- What `GetReference` returns may be destroyed by another thread's `Delete` outside
  of the consumer's loop (`held` is `Dangling`); `ReferenceLastsInLoop` says when it
  may be used.
- A `Delete` adds to the deletion list, so `IsOverflown` is true after it
  (`ReportFound`).
- An override is not counted in what `Push` returns (`PushReplace`); when the clock
  is set back, the times `Reset` reports are those of the ends of the deque, not the
  oldest and the newest (`SteadyClock`).
- The validator accepts a measurement without a UNIT (`Invalid` does not ask for it).

The passing runs about references and deletions stay clear of these, and so do the
theorems: `DataSource` defines the limits of use, which the theorems assume and
which TLC evaluates for the calls of each run (`RunsKeepToLimits` in
`MCDataSource`).

- `OneRefEach`: a data set has one REF at most. `NoOrphanRefs` needs no more, so
  that references, resets, overrides and deletions do meet in
  `data_source_returns`.
- `LimitsOfUse`: in addition an id is not 0 and comes once, nobody resets, and a
  name given to `SetReference` is not one of the generated ones. The other
  properties of references are checked and proved within these limits; the first
  group above says what happens beyond each of them.
- `OneDeleter`, for `DeletesWhatItRead`: one consumer deletes, only what it has read
  and locked. Ids may come again, by an override or after a deletion. The property
  itself says nothing once a `Reset` has begun (`NoResetYet`).
- `ResetNoticed` needs a list that can hold a report, and `CallsReturn` that a
  consumer's loop calls none of the methods that share the buffer's mutex or lock
  the reset list (`data_source_lock_order`).
- `InFormat`, for `AcceptedIsFaithful`: keys spelled out, a name or a unit once,
  numbers within an int64 (`validator_format`). That a type or a value comes once is
  not assumed, but proved.

The other properties of the data source hold without such limits.

Deadlock checking is on, except where the system really stops: a parse ends
(the validator runs), and `data_source_lock_order` is about the deadlock itself
and states it as a call that never returns. `DataSource` stutters in `Rest` only
when every call has returned and nobody holds the mutex.

**Fairness** (`FairSpec`): weak fairness of `Continue(t)` for each thread, that is,
a thread inside a method is scheduled again when it can run, a consumer ends its
loop and drops what it looked up. No fairness is assumed of starting a call. A
mutex that is free is eventually taken by one of those who wait; weak fairness is
enough for each of them because every thread makes finitely many calls.

## 4. Proofs

`RingBufferProofs` proves, for every `MaxSize`, `CounterMode`, `AllowOverflow`,
set of integer `Ids`, `MaxTime` and `SteadyClock` that the named assumptions
allow:

- `TypeCorrect`: `Spec => []TypeOK`
- `NeverTooMany`: `Spec => []WithinCapacity`
- `IdsAreUnique`: `Spec => []UniqueIds`
- `IdsAreSorted`: `Spec => []IdsIncrease`
- `EntriesInTimeOrder`: `Spec => []TimeOrdered`

The inductive invariant is `IInv`, the type invariant together with
`WellFormed(buffer, now)`: capacity, sorted ids in mode 0, unique ids, and times
that are sorted and not in the future while the clock is steady. The parts need
each other: `WithinCapacity` is what lets `Push` get away with one discard
(`RoomMade`), sorted ids are what makes the comparison with the newest entry
enough for an id to be new (`AcceptedIdIsNew`), and a time not in the future is
what keeps an append sorted. The argument follows the code: erasing an entry
(`ErasePreserves`) and appending a new one with the current time
(`AppendPreserves`) both preserve `WellFormed`; every method is made of these two,
so each action has a lemma of its own, and `NextPreserves` puts them together.
That `OldestUnlocked` and `FirstHolding` denote an element of the buffer rests on
`MinExists`, by well-founded induction on the natural numbers.

The action properties the runs check follow from `IInv` as well:

- `LockedAreKept`: `Spec => LockedSurvives`
- `OverflowTakesOldest`: `Spec => OldestUnlockedFirst`
- `FailuresCostOne`: `Spec => FailedPushKeeps`
- `RemovalsAreNotified`: `Spec => RemovalsNotified`
- `DeletesExactly`: `Spec => DeleteIsExact`
- `ReportsCover`: `Spec => ResetReportCovers`, assuming `SteadyClock`
- `StoredIdsStay`: `Spec => StoredUntilDeleted`, assuming `~AllowOverflow`

They rest on what erasing and appending leave in the deque (`EraseKeeps`,
`EraseIds`, `AppendKeeps`) and on `RoomCosts` and `RoomNotified`: making room
costs nothing, or the oldest unlocked entry of a full buffer, and is reported.
The invariant is needed where it is easily overlooked: `DeletesExactly` uses that
the ids are sorted, otherwise the early exit of the scan could miss the entry, and
that they are unique, otherwise erasing the first hit would not be enough;
`RemovalsAreNotified` uses uniqueness for "nothing that is reported stays".
The two assumptions are those of the runs, and both are needed: `Reset` reports
the times of the first and the last entry, which are the extremes only while the
clock is not set back, and an overflow is a Push that makes an id disappear.

`DataSourceProofs` proves, for any threads, any calls, any sizes of the buffer and
the lists, and either counter mode:

- `LocksHold`: `Spec => []Locks`
- `IterationsAreStable`: `Spec => IterationStable`
- `LockedDataStays`: `Spec => LockedStays`
- `LossesAreReported`: `Spec => []NothingLostSilently`
- `ResetsAreNoticed`: `Spec => []ResetNoticed`, assuming
  `ResetInformationSize > 0`, without which the list is empty after every Reset

- `TypesHold`: `Spec => []TypeOK`

The argument starts from the mutexes. `Locks` says that a thread is inside a
section of the buffer exactly when it is the owner, that readers exclude an owner,
and the same of the reset list; it is inductive by itself. With
`WhoChangesTheBuffer` (five steps change what is in the buffer, all of them inside
a section) it gives `IterationsAreStable`. `Sections` adds what a thread has found
out in an earlier step of its section and relies on in a later one, for instance
that an unlocked entry exists when it discards; it is preserved because nobody
else changes the buffer meanwhile (`SectionIsMine`). From that `LockedDataStays`:
the steps that take an entry out take one they found unlocked, or are a Delete of
its id, or a Reset. For the reports, `Ledger` strengthens `NothingLostSilently` in
the two places where a loss and its report are separate steps: what is about to be
discarded is in the deletion list already (`DiscardIsKnown`), and what a Reset has
cleared is with that Reset until it is in the list (`GoneIsKnown`). `Noticed` does
the same for `ResetNoticed`. `RecordedIs` says what appending to a list of any size
does. `TypesHold` rests on `Typed`, which says of each place what the call and the
local variables there are.

`DataSourceAtomicProofs` proves the refinement, for any threads and calls, any
sizes, either counter mode, with or without overflow:

- `CallsTakeEffectAtOnce`: `SpecAtomic => CallsAreAtomic`
- `EveryStepIsAllowed`: the auxiliary variables forbid no step of `DataSource`

The invariant `Published` relates the buffer to `view`, what `RingBuffer` sees of
it: they are the same, except while a `Push` has discarded and has not ended;
then the buffer is where the atomic `Push` has made room and `calls` is what that
reported. That nobody else touches the buffer meanwhile is `Safe`. Each section
that publishes is shown to be one of `RingBuffer`'s actions, every other step a
stutter. `EveryStepIsAllowed` is what keeps `SpecAtomic` honest: a step that it
did not allow would be one the refinement says nothing about.

`DataSourceRefProofs` proves what an id stands for, for any threads, calls and
sizes:

- `StoredIdsDiffer`: stored ids differ, and grow in counter mode 0
- `NoReferenceIsForgotten`: `Spec => []NoOrphanRefs`, assuming `OneRefEach`
- `StoredRefsResolve`: `Spec => []RefsResolve`, assuming `LimitsOfUse`
- `StoredRefsAreOwn`: `Spec => []NoSharedRefs`, assuming `LimitsOfUse`
- `ReferencesLast`: `Spec => ReferenceLastsInLoop`, assuming `LimitsOfUse`
- `ContentsLeaveWithData`: `Spec => ContentLeavesWithData`, assuming `LimitsOfUse`
- `DeletionsHitWhatWasRead`: `Spec => DeletesWhatItRead`, assuming `OneDeleter`

The mapping knows an id only, so the proofs are about who has that id when.
`AllOwned` strengthens `NoOrphanRefs`: a reference with an id is among the REFs of
the entry with that id, or among those that a running `Add` of it has bound. It is
preserved because an entry goes in one step with the references of its id, because
an `Add` that stores nothing ends with erasing them, and because a data set with one REF has nothing bound while it still
looks for it (`OneAtATime`). `RefsResolve` is the other direction. It needs that
nobody erases by an id that is in use, that is `IdsAreFresh` (no `Add` has, or will
have, the id of a stored data set), and that a loaded file gets a name of its own
(`NamesAreFresh`); `AddsBound` says the same of what an `Add` has bound and not
stored yet. `WithinLimits` puts these together and is inductive; the other three
follow from it. `ReadIsKept` is the invariant for deletions: what the consumer has
read and is going to delete is still stored and locked, with the data it read, until
it deletes it or a `Reset` begins. So before a `Reset` an id comes again only after
that, and what has it then was read anew or not at all.

`DataValidatorProofs` proves, for any keys and scalars and texts of any length:

- `TypesHold`: `Spec => []TypeOK`
- `AcceptedMeasurementsAreComplete`: `Spec => []AcceptedIsComplete`
- `AcceptedMeasurementsAreFaithful`: `Spec => []AcceptedIsFaithful`

The validator sees objects only, and checks the last measurement whenever one
ends. `Shape` goes through the ways in which two containers can nest and says in
each which measurements have been checked: all outside of an element, all but the
last inside of one. `Faithful` adds what they are. The measurement of an object is
what the validator has been told by the object so far, `Told`: the last name, type
and unit, and the first value, of the keys that match (`BeginIsTraced`,
`ValueIsTraced`); a key waits for its value with the entry that the key matches
(`KeyWaits`). A type or a value leaves a trace, so it is never given again
(`OnceEach`, `OnceLasts`), and in the format `Told` is `Meaning` (`ToldIsMeaning`).
A name or a unit leaves none if it is empty, a number beyond an int64 changes, and a
prefix is not the key: hence the three parts of `InFormat`. The list of
measurements is
traced to the objects by a bijection, `from`, that grows when an object begins and
turns when a timestamp is moved to the front (`BijectionGrows`, `BijectionTurns`,
`EndIsTraced`). The bijection takes the place of an induction over the text: the
step that ends an object changes it at the last measurement only, and no fold over
the earlier ones has to be evaluated. One case breaks the order: an object that
ends within an object is moved though it is not the last of the text. Such a text
is `Doomed`, since nothing that the outer object may still bring, its own end
included, is accepted.

`SerializationProofs` proves, for measurements of any number and kind:

- `CopiesAreOriginals`: `SpecCopy => []CopyIsOriginal`
- `CopiesAreParsed`: `SpecCopy => [](TypeOK /\ AcceptedIsComplete /\ AcceptedIsFaithful)`

Reading a copy is parsing, by the same actions, so `Typed`, `Shape` and `Faithful`
hold of a copy as they do of the original. `Copied` says how far the reading has
come: the text is `Unread`, or its first objects say what the first measurements
sent are (`Between`), or one object is being read and its measurement has the
fields that were written up to this place (`Within`, `ReadTo`), or the text is
accepted (`Finished`), or `Refused`. An object is refused only at its end
(`EndIsRead`): the measurement sent was complete, and the type is read as the one
that was written, since the two tables of types agree (`TypeIsRead`), so only a
value that has become a string, and was none, does not fit. `FinishedIsOriginal`
then gets `CopyIsOriginal` from `AcceptedIsFaithful` of the copy.

`JsonParserProofs` proves, for any threads and any set of texts:

- `EventsReachTheirOwnState`: `Spec => []StateIsOwn`
- `SessionsAreIndependent`: `Spec => []ResultIsOwn`

The inductive invariant `IInv` says that the thread that has the mutex is the one
that parses and the one whose state the handler points to, and that this state has
received what the Boost parser has read (`SessionIsOwn`). The beginning of a
session has to establish the last part whatever the session before it left; that
is the first reset, and the reason why the state pointer that an exception leaves
behind does no harm. `VerdictAtStop` and `VerdictAtEnd` relate the piece at which a
session ends to the verdict on the whole text.

`BufferQueueProofs` holds the lemmas about the deque that both sides need: erasing
(`EraseKeeps`), appending (`AppendKeeps`), and where the scans of the code find
their entry (`OldestUnlockedIs`, `FirstHoldingIs`).

Only model-checked:

- `CallsReturn`, which is liveness under fairness: `tlapm` proves neither `ENABLED`
  nor the steps of a fairness argument.
- The three disagreements with the documentation, which are counterexamples.
- `ArrangedIsSelected`, which relates `Arranged` to `SelectSeq` and `Reverse`. For
  lists of any length it needs induction over the list, and the induction theorems
  of the library take an operator as a parameter, which the installed provers
  cannot instantiate.

## 5. Not modelled

- Strings that Boost delivers in parts: the handler ignores all parts but the
  last, so such a value is cut. Where Boost splits a string depends on the size
  of a buffer inside it.
- The exception types, the factory, the interfaces and heap statistics: no state
  and no decisions. Which exception is thrown where is part of the actions.
- The content and the format of references, the text of messages, and the reset
  reason, which is only passed on.
- The data race of two iterating consumers that both write `locked_`: both write
  the same value.
- Time in `DataSource`: the times of entries and reports are in `RingBuffer`.

## 6. Plan

1. Done: `BufferQueue`, `RingBuffer`, `DataSource`, `DataValidator`, then
   `DataSourceAtomic`, `JsonParser` and `Serialization`, with the runs above.
2. Done: the proofs of section 4, of every safety property that a passing run
   checks.
3. To do: the limits of use one by one, that is, which of the theorems about
   references hold without some part of `LimitsOfUse` (ids that come again after
   their data set has gone, resets while no `Add` runs).
