----------------------------- MODULE JsonParser -----------------------------
(***************************************************************************)
(* The sessions of the one parser a data source has                        *)
(* (src/parsing/json_parser.hpp).  Every Add calls Parse with its text and *)
(* the address of a ParsingState of its own; a session has the parser's    *)
(* mutex.  A callback that throws ends the session where it is: the Boost  *)
(* parser stays in the middle of the text, and its handler keeps the       *)
(* address of a state that is gone.  The next session has to clean up.     *)
(*                                                                         *)
(* A text is a sequence of pieces.  "null" is where the parser finds an    *)
(* error (on_null returns false, or the syntax is wrong), every other      *)
(* piece makes a callback.  document is the number of pieces after which   *)
(* the parser has a whole JSON text.  The validator behind the callback is *)
(* modelled in DataValidator; here a state accepts each piece once, as the *)
(* validator accepts each key of a measurement.                            *)
(***************************************************************************)
EXTENDS Integers, Sequences, SequencesExt

CONSTANTS
  Threads,
  Texts,    (* set of records [pieces, document]                           *)
  Nowhere   (* the null pointer                                            *)

ASSUME ParserAssumption ==
  /\ Nowhere \notin Threads
  /\ Texts \subseteq [pieces : Seq(STRING), document : Nat \ {0}]

VARIABLES
  holder,   (* thread that has locked mutex_                               *)
  target,   (* state_ of the handler: the thread whose state it points to  *)
  read,     (* what the Boost parser has read since its last reset         *)
  text,     (* the text of each thread's latest Parse                      *)
  state,    (* the ParsingState it passed: the pieces it was called with   *)
  status    (* "waiting" for the mutex, "parsing", or what Parse returned  *)

vars == <<holder, target, read, text, state, status>>

Init ==
  /\ holder = Nowhere /\ target = Nowhere /\ read = <<>>
  /\ text = [t \in Threads |-> [pieces |-> <<>>, document |-> 1]]
  /\ state = [t \in Threads |-> <<>>]
  /\ status = [t \in Threads |-> "error"]

-----------------------------------------------------------------------------

\* Add makes a state and calls Parse with its address.
Call(t) ==
  \E x \in Texts :
    /\ status[t] \notin {"waiting", "parsing"}
    /\ status' = [status EXCEPT ![t] = "waiting"]
    /\ text' = [text EXCEPT ![t] = x]
    /\ state' = [state EXCEPT ![t] = <<>>]
    /\ UNCHANGED <<holder, target, read>>

\* Mutant: relies on the session before to have reset the parser.
StartInTheMiddle(t) == holder = Nowhere /\ target' = t /\ UNCHANGED read

\* Mutant: the mutex is not locked.
StartAnyway(t) == target' = t /\ read' = <<>>

\* The mutex, set_state, and the first reset.
StartAfresh(t) == holder = Nowhere /\ target' = t /\ read' = <<>>

Start(t) ==
  /\ status[t] = "waiting"
  /\ StartAfresh(t)
  /\ holder' = t
  /\ status' = [status EXCEPT ![t] = "parsing"]
  /\ UNCHANGED <<text, state>>

\* The parser goes on from where it is until it has a document.
Reading(t) ==
  /\ status[t] = "parsing"
  /\ Len(read) < text[t].document /\ Len(read) < Len(text[t].pieces)

Piece(t) == text[t].pieces[Len(read) + 1]

\* Whether the callback throws depends on the state it gets.
Throws(t) == Piece(t) \in ToSet(state[target])

\* on_key, on_string and the others: the callback gets state_.
Event(t) ==
  /\ Reading(t) /\ Piece(t) # "null" /\ ~Throws(t)
  /\ state' = [state EXCEPT ![target] = Append(@, Piece(t))]
  /\ read' = Append(read, Piece(t))
  /\ UNCHANGED <<holder, target, text, status>>

Return(t, outcome) ==
  /\ status' = [status EXCEPT ![t] = outcome]
  /\ holder' = Nowhere
  /\ UNCHANGED <<text, state>>

\* The exception passes through Boost and Parse; only the mutex is released.
Throw(t) ==
  /\ Reading(t) /\ Piece(t) # "null" /\ Throws(t)
  /\ read' = Append(read, Piece(t))
  /\ Return(t, "thrown")
  /\ UNCHANGED target

\* An error, the end of the document, or that of the text; the document has to
\* be the whole text.
Finish(t) ==
  /\ status[t] = "parsing"
  /\ Reading(t) => Piece(t) = "null"
  /\ read' = <<>> /\ target' = Nowhere
  /\ Return(t, IF Len(read) = text[t].document /\ Len(read) = Len(text[t].pieces)
               THEN "ok" ELSE "error")

Parse(t) == Start(t) \/ Event(t) \/ Throw(t) \/ Finish(t)

Next == \E t \in Threads : Call(t) \/ Parse(t)

Spec == Init /\ [][Next]_vars

-----------------------------------------------------------------------------
(* Properties. *)

\* A state receives the pieces of the text it was made for, in their order,
\* and nothing of what another thread's text or an earlier one says
\* (json_parser.hpp:48, :51).
StateIsOwn == \A t \in Threads : IsPrefix(state[t], text[t].pieces)

\* A piece the callback refuses, or where the parser finds an error.
Stops(x, i) ==
  x.pieces[i] = "null" \/ \E j \in 1..(i - 1) : x.pieces[j] = x.pieces[i]

\* What a parser that has never seen another text says of x.
Verdict(x) ==
  LET stops == {i \in DOMAIN x.pieces : i <= x.document /\ Stops(x, i)}
      first == CHOOSE i \in stops : \A j \in stops : i <= j
  IN IF stops # {} THEN IF x.pieces[first] = "null" THEN "error" ELSE "thrown"
     ELSE IF Len(x.pieces) = x.document THEN "ok" ELSE "error"

\* What Parse says of a text does not depend on the texts before it, on the way
\* they ended (json_parser.hpp:52 may throw), or on what other threads parse;
\* and an accepted text is in the state as a whole when Add goes on with it.
ResultIsOwn ==
  \A t \in Threads : status[t] \notin {"waiting", "parsing"} =>
    /\ status[t] = Verdict(text[t])
    /\ status[t] = "ok" => state[t] = text[t].pieces
=============================================================================
