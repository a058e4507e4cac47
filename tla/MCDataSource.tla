---------------------------- MODULE MCDataSource ----------------------------
(***************************************************************************)
(* DataSource for TLC: who calls what in each run.                         *)
(***************************************************************************)
EXTENDS DataSource

AddOf(id, data, refs) == [op |-> "Add", id |-> id, data |-> data, refs |-> refs]
SetOf(ref) == [op |-> "SetReference", ref |-> ref]
GetOf(ref) == [op |-> "GetReference", ref |-> ref]
DeleteOf(id) == [op |-> "Delete", id |-> id]
Plain(op) == [op |-> op]

\* A call that a thread makes several times.
Nth(op, n) == [op |-> op, n |-> n]

GeneratedNames == <<"ref-0", "ref-1", "ref-2">>

-----------------------------------------------------------------------------
\* Two producers with ids of their own, a REF in each data set, and a file.
RefCalls ==
  [p1 |-> {AddOf(1, "d1", <<"r1">>), AddOf(3, "d3", <<"f1">>), SetOf("r1")},
   p2 |-> {AddOf(2, "d2", <<"r1">>), AddOf(4, "d4", <<"r2">>), SetOf("r2")},
   c1 |-> {Plain("Iterate"), GetOf("r1"), DeleteOf(1), DeleteOf(3)}]

\* Counter mode 1, an id that comes again, and a reset: a consumer locks what it
\* reads and deletes it, in two loops, so that an id it has deleted may come again
\* and be read again, while another one only reads.
ConsumerCalls ==
  [p1 |-> {AddOf(1, "d1", <<>>), AddOf(2, "d2", <<>>)},
   p2 |-> {AddOf(1, "e1", <<>>), Plain("Reset")},
   c1 |-> {Nth("Iterate", 1), Nth("Iterate", 2), Nth("DeleteRead", 1), Nth("DeleteRead", 2)},
   c2 |-> {Plain("Iterate")}]

\* Everything at once: consumers that acknowledge, one of them while it
\* iterates, and a producer that overflows, overrides and resets; the lists hold
\* fewer reports than there are losses.
MixedCalls ==
  [p1 |-> {SetOf("r1"), AddOf(1, "d1", <<"r1">>), AddOf(2, "d2", <<>>),
           AddOf(2, "e2", <<>>), Plain("Reset")},
   c1 |-> {Plain("Iterate"), Plain("AcknowledgeOverflow")},
   c2 |-> {Plain("GetSize"), Plain("AcknowledgeReset"), DeleteOf(1)}]

\* The theorems about references and deletions assume limits of use: these runs
\* keep to them.
ASSUME RunsKeepToLimits ==
  /\ Calls = RefCalls => LimitsOfUse
  /\ Calls = MixedCalls => OneRefEach
  /\ Calls = ConsumerCalls => OneDeleter

-----------------------------------------------------------------------------
(* The fewest calls that show a disagreement. *)

\* A producer adds while another thread resets.
ResetRaceCalls ==
  [p1 |-> {SetOf("r1"), AddOf(1, "d1", <<>>), AddOf(2, "d2", <<"r1">>)},
   p2 |-> {Plain("Reset")}]

\* A consumer acknowledges a reset, or asks for the size, while it iterates.
LockOrderCalls ==
  [p1 |-> {AddOf(1, "d1", <<>>), Plain("Reset")},
   c1 |-> {Plain("Iterate"), Plain("AcknowledgeReset"), Plain("GetSize")}]
=============================================================================
