-------------------------- MODULE JsonParserProofs --------------------------
(***************************************************************************)
(* No session of the parser sees what another one left behind, whatever    *)
(* the texts are and however many threads parse.  The invariant says what  *)
(* the mutex, set_state and the first reset achieve together: the thread   *)
(* that has the mutex is the one whose state the handler points to, and    *)
(* what the Boost parser has read is what that state was told.             *)
(***************************************************************************)
EXTENDS JsonParser, TLAPS

\* s is the beginning of t, element by element.
Begins(s, t) == Len(s) <= Len(t) /\ \A i \in 1..Len(s) : s[i] = t[i]

TypeInv ==
  /\ holder \in Threads \cup {Nowhere}
  /\ read \in Seq(STRING)
  /\ text \in [Threads -> {x \in [pieces : Seq(STRING), document : Nat] : x.document > 0}]
  /\ state \in [Threads -> Seq(STRING)]
  /\ status \in [Threads -> {"waiting", "parsing", "ok", "error", "thrown"}]

\* Whoever parses has the mutex.
HolderParses == \A t \in Threads : status[t] = "parsing" <=> holder = t

\* A state that waits is still empty.
WaitingIsEmpty == \A t \in Threads : status[t] = "waiting" => state[t] = <<>>

OwnPieces == \A t \in Threads : Begins(state[t], text[t].pieces)

\* The session that runs has got through the pieces before this one.
SessionIsOwn ==
  holder # Nowhere =>
    /\ target = holder
    /\ state[holder] = read
    /\ Len(read) <= text[holder].document
    /\ \A i \in 1..Len(read) : ~Stops(text[holder], i)

IInv ==
  TypeInv /\ HolderParses /\ WaitingIsEmpty /\ OwnPieces /\ SessionIsOwn /\ ResultIsOwn

-----------------------------------------------------------------------------
(* The verdict on a text. *)

IsText(x) == x.pieces \in Seq(STRING) /\ x.document \in Nat \ {0}

\* A parser that gets to a piece which stops it ends there.
LEMMA VerdictAtStop ==
  ASSUME NEW x, IsText(x), NEW n \in Nat,
         n < Len(x.pieces), n < x.document, Stops(x, n + 1),
         \A i \in 1..n : ~Stops(x, i)
  PROVE  Verdict(x) = IF x.pieces[n + 1] = "null" THEN "error" ELSE "thrown"
<1> DEFINE stops == {i \in DOMAIN x.pieces : i <= x.document /\ Stops(x, i)}
           first == CHOOSE i \in stops : \A j \in stops : i <= j
<1>1. Len(x.pieces) \in Nat /\ DOMAIN x.pieces = 1..Len(x.pieces)
  BY DEF IsText
<1>2. n + 1 \in stops
  BY <1>1 DEF IsText
<1>3. \A j \in stops : j \in Nat /\ n + 1 <= j
  BY <1>1
<1> HIDE DEF stops
<1>4. first = n + 1
  BY <1>2, <1>3
<1>5. stops # {}
  BY <1>2
<1>6. QED
  BY <1>4, <1>5 DEF Verdict, stops

\* A parser that nothing stops ends with the document or with the text.
LEMMA VerdictAtEnd ==
  ASSUME NEW x, IsText(x), NEW n \in Nat,
         n <= Len(x.pieces), n <= x.document,
         n = Len(x.pieces) \/ n = x.document,
         \A i \in 1..n : ~Stops(x, i)
  PROVE  Verdict(x) = IF n = x.document /\ n = Len(x.pieces) THEN "ok" ELSE "error"
<1> DEFINE stops == {i \in DOMAIN x.pieces : i <= x.document /\ Stops(x, i)}
<1>1. Len(x.pieces) \in Nat /\ DOMAIN x.pieces = 1..Len(x.pieces) /\ x.document \in Nat
  BY DEF IsText
<1>2. \A i \in 1..Len(x.pieces) : i <= x.document => i \in 1..n
  BY <1>1
<1>3. stops = {}
  BY <1>1, <1>2
<1>4. Verdict(x) = IF Len(x.pieces) = x.document THEN "ok" ELSE "error"
  <2> HIDE DEF stops
  <2>1. QED
    BY <1>3 DEF Verdict, stops
<1>5. QED
  BY <1>1, <1>4

-----------------------------------------------------------------------------

LEMMA InitEstablishes == Init => IInv
<1> SUFFICES ASSUME Init PROVE IInv
  OBVIOUS
<1> DEFINE x == [pieces |-> <<>>, document |-> 1]
<1>1. TypeInv
  BY DEF Init, TypeInv
<1>2. HolderParses /\ WaitingIsEmpty
  BY ParserAssumption DEF Init, HolderParses, WaitingIsEmpty
<1>3. OwnPieces
  BY DEF Init, OwnPieces, Begins
<1>4. SessionIsOwn
  BY DEF Init, SessionIsOwn
<1>5. IsText(x) /\ Len(x.pieces) = 0
  BY DEF IsText
<1>6. Verdict(x) = "error"
  <2>1. \A i \in 1..0 : ~Stops(x, i)
    OBVIOUS
  <2>2. x.document = 1
    OBVIOUS
  <2> HIDE DEF x
  <2>3. QED
    BY <1>5, <2>1, <2>2, VerdictAtEnd
<1>7. ResultIsOwn
  BY <1>6 DEF Init, ResultIsOwn
<1>8. QED
  BY <1>1, <1>2, <1>3, <1>4, <1>7 DEF IInv

LEMMA CallPreserves ==
  ASSUME IInv, NEW t \in Threads, Call(t)
  PROVE  IInv'
<1>1. PICK x \in Texts :
        /\ status[t] \notin {"waiting", "parsing"}
        /\ status' = [status EXCEPT ![t] = "waiting"]
        /\ text' = [text EXCEPT ![t] = x]
        /\ state' = [state EXCEPT ![t] = <<>>]
        /\ UNCHANGED <<holder, target, read>>
  BY DEF Call
<1>2. x \in [pieces : Seq(STRING), document : Nat] /\ x.document > 0
  BY ParserAssumption
<1>3. TypeInv'
  BY <1>1, <1>2 DEF IInv, TypeInv
<1>4. holder # t
  BY <1>1 DEF IInv, HolderParses
<1>5. HolderParses' /\ WaitingIsEmpty'
  BY <1>1, <1>4 DEF IInv, TypeInv, HolderParses, WaitingIsEmpty
<1>6. OwnPieces'
  BY <1>1, <1>2 DEF IInv, TypeInv, OwnPieces, Begins
<1>7. SessionIsOwn'
  BY <1>1, <1>4 DEF IInv, TypeInv, SessionIsOwn, Stops
<1>8. ResultIsOwn'
  BY <1>1 DEF IInv, TypeInv, ResultIsOwn
<1>9. QED
  BY <1>3, <1>5, <1>6, <1>7, <1>8 DEF IInv

LEMMA StartPreserves ==
  ASSUME IInv, NEW t \in Threads, Start(t)
  PROVE  IInv'
<1> USE DEF Start, StartAfresh
<1>1. TypeInv'
  BY DEF IInv, TypeInv
<1>2. HolderParses' /\ WaitingIsEmpty'
  BY ParserAssumption DEF IInv, TypeInv, HolderParses, WaitingIsEmpty
<1>3. OwnPieces'
  BY DEF IInv, OwnPieces
<1>4. SessionIsOwn'
  BY DEF IInv, TypeInv, WaitingIsEmpty, SessionIsOwn
<1>5. ResultIsOwn'
  BY DEF IInv, TypeInv, ResultIsOwn
<1>6. QED
  BY <1>1, <1>2, <1>3, <1>4, <1>5 DEF IInv

\* What the invariant says of the thread that parses.
LEMMA SessionFacts ==
  ASSUME IInv, NEW t \in Threads, status[t] = "parsing"
  PROVE  /\ holder = t /\ target = t /\ t # Nowhere
         /\ state[t] = read /\ read \in Seq(STRING) /\ Len(read) \in Nat
         /\ IsText(text[t]) /\ Begins(read, text[t].pieces)
         /\ Len(read) <= text[t].document
         /\ \A i \in 1..Len(read) : ~Stops(text[t], i)
<1>1. holder = t /\ t # Nowhere
  BY ParserAssumption DEF IInv, HolderParses
<1>2. QED
  BY <1>1 DEF IInv, TypeInv, OwnPieces, SessionIsOwn, IsText

LEMMA EventPreserves ==
  ASSUME IInv, NEW t \in Threads, Event(t)
  PROVE  IInv'
<1> DEFINE n == Len(read)
           p == Piece(t)
<1>1. /\ status[t] = "parsing"
      /\ n < text[t].document /\ n < Len(text[t].pieces)
      /\ p # "null" /\ ~Throws(t)
      /\ state' = [state EXCEPT ![target] = Append(@, p)]
      /\ read' = Append(read, p)
      /\ UNCHANGED <<holder, target, text, status>>
  BY DEF Event, Reading
<1>2. /\ holder = t /\ target = t /\ t # Nowhere
      /\ state[t] = read /\ read \in Seq(STRING) /\ n \in Nat
      /\ IsText(text[t]) /\ Begins(read, text[t].pieces)
      /\ \A i \in 1..n : ~Stops(text[t], i)
  BY <1>1, SessionFacts
<1>3. p = text[t].pieces[n + 1] /\ p \in STRING
  BY <1>1, <1>2 DEF Piece, IsText
<1> HIDE DEF p
<1>4. /\ read' \in Seq(STRING) /\ Len(read') = n + 1
      /\ \A i \in 1..n : read'[i] = read[i]
      /\ read'[n + 1] = p
  BY <1>1, <1>2, <1>3
<1>5. state' = [state EXCEPT ![t] = read']
  BY <1>1, <1>2
<1>6. TypeInv'
  BY <1>1, <1>4, <1>5 DEF IInv, TypeInv
<1>7. HolderParses' /\ WaitingIsEmpty'
  BY <1>1, <1>5 DEF IInv, TypeInv, HolderParses, WaitingIsEmpty
<1>8. Begins(read', text[t].pieces)
  BY <1>1, <1>2, <1>3, <1>4 DEF Begins, IsText
<1>9. OwnPieces'
  BY <1>1, <1>5, <1>8 DEF IInv, TypeInv, OwnPieces
<1>10. ~Stops(text[t], n + 1)
  <2>1. \A j \in 1..n : text[t].pieces[j] # p
    <3>1. \A j \in 1..n : read[j] # p
      BY <1>1, <1>2 DEF Throws, ToSet, p
    <3>2. QED
      BY <1>2, <3>1 DEF Begins
  <2>2. QED
    BY <1>1, <1>2, <1>3, <2>1 DEF Stops
<1>11. SessionIsOwn'
  <2>1. \A i \in 1..(n + 1) : ~Stops(text[t], i)
    BY <1>2, <1>10
  <2>2. n + 1 <= text[t].document
    BY <1>1, <1>2 DEF IsText
  <2>3. state'[t] = read'
    BY <1>5 DEF IInv, TypeInv
  <2>4. QED
    BY <1>1, <1>2, <1>4, <2>1, <2>2, <2>3 DEF SessionIsOwn, Stops
<1>12. ResultIsOwn'
  BY <1>1, <1>5 DEF IInv, TypeInv, ResultIsOwn
<1>13. QED
  BY <1>6, <1>7, <1>9, <1>11, <1>12 DEF IInv

\* The session ends with what Parse has to say of the text.
LEMMA ReturnPreserves ==
  ASSUME IInv, NEW t \in Threads, status[t] = "parsing",
         NEW outcome \in {"ok", "error", "thrown"}, Return(t, outcome),
         read' \in Seq(STRING),
         outcome = Verdict(text[t]),
         outcome = "ok" => read = text[t].pieces
  PROVE  IInv'
<1>1. /\ holder = t /\ state[t] = read
  BY SessionFacts
<1>2. /\ status' = [status EXCEPT ![t] = outcome]
      /\ holder' = Nowhere /\ text' = text /\ state' = state
  BY DEF Return
<1>3. TypeInv'
  BY <1>2 DEF IInv, TypeInv
<1>4. HolderParses' /\ WaitingIsEmpty'
  BY <1>1, <1>2, ParserAssumption DEF IInv, TypeInv, HolderParses, WaitingIsEmpty
<1>5. OwnPieces' /\ SessionIsOwn'
  BY <1>2 DEF IInv, OwnPieces, SessionIsOwn
<1>6. ResultIsOwn'
  BY <1>1, <1>2 DEF IInv, TypeInv, ResultIsOwn, Verdict
<1>7. QED
  BY <1>3, <1>4, <1>5, <1>6 DEF IInv

LEMMA ThrowPreserves ==
  ASSUME IInv, NEW t \in Threads, Throw(t)
  PROVE  IInv'
<1> DEFINE n == Len(read)
<1>1. /\ status[t] = "parsing"
      /\ n < text[t].document /\ n < Len(text[t].pieces)
      /\ Piece(t) # "null" /\ Throws(t)
      /\ read' = Append(read, Piece(t))
      /\ Return(t, "thrown")
  BY DEF Throw, Reading
<1>2. /\ target = t
      /\ state[t] = read /\ read \in Seq(STRING) /\ n \in Nat
      /\ IsText(text[t]) /\ Begins(read, text[t].pieces)
      /\ \A i \in 1..n : ~Stops(text[t], i)
  BY <1>1, SessionFacts
<1>3. Piece(t) = text[t].pieces[n + 1] /\ Piece(t) \in STRING
  BY <1>1, <1>2 DEF Piece, IsText
<1>4. Stops(text[t], n + 1)
  <2>1. PICK j \in 1..n : read[j] = Piece(t)
    BY <1>1, <1>2 DEF Throws, ToSet
  <2>2. text[t].pieces[j] = text[t].pieces[n + 1]
    BY <1>2, <1>3, <2>1 DEF Begins
  <2>3. QED
    BY <1>2, <2>2 DEF Stops
<1>5. Verdict(text[t]) = "thrown"
  BY <1>1, <1>2, <1>3, <1>4, VerdictAtStop
<1>6. read' \in Seq(STRING)
  BY <1>1, <1>2, <1>3
<1>7. QED
  BY <1>1, <1>5, <1>6, ReturnPreserves

LEMMA FinishPreserves ==
  ASSUME IInv, NEW t \in Threads, Finish(t)
  PROVE  IInv'
<1> DEFINE n == Len(read)
           outcome == IF n = text[t].document /\ n = Len(text[t].pieces)
                      THEN "ok" ELSE "error"
<1>1. /\ status[t] = "parsing"
      /\ Reading(t) => Piece(t) = "null"
      /\ read' = <<>>
      /\ Return(t, outcome)
  BY DEF Finish
<1>2. /\ read \in Seq(STRING) /\ n \in Nat
      /\ IsText(text[t]) /\ Begins(read, text[t].pieces)
      /\ n <= text[t].document
      /\ \A i \in 1..n : ~Stops(text[t], i)
  BY <1>1, SessionFacts
<1>3. /\ Len(text[t].pieces) \in Nat /\ text[t].document \in Nat
      /\ n <= Len(text[t].pieces)
  BY <1>2 DEF IsText, Begins
<1>4. outcome = Verdict(text[t])
  <2>1. CASE n < text[t].document /\ n < Len(text[t].pieces)
    <3>1. text[t].pieces[n + 1] = "null"
      BY <1>1, <2>1 DEF Reading, Piece
    <3>2. Verdict(text[t]) = "error"
      BY <1>2, <2>1, <3>1, VerdictAtStop DEF Stops
    <3>3. QED
      BY <1>2, <1>3, <2>1, <3>2
  <2>2. CASE n = text[t].document \/ n = Len(text[t].pieces)
    BY <1>2, <1>3, <2>2, VerdictAtEnd
  <2>3. QED
    BY <1>2, <1>3, <2>1, <2>2
<1>5. outcome = "ok" => read = text[t].pieces
  BY <1>2, <1>3 DEF Begins, IsText
<1>6. QED
  BY <1>1, <1>4, <1>5, ReturnPreserves

LEMMA NextPreserves == IInv /\ [Next]_vars => IInv'
<1> SUFFICES ASSUME IInv, [Next]_vars PROVE IInv'
  OBVIOUS
<1>1. ASSUME NEW t \in Threads, Call(t)
      PROVE  IInv'
  BY <1>1, CallPreserves
<1>2. ASSUME NEW t \in Threads, Parse(t)
      PROVE  IInv'
  BY <1>2, StartPreserves, EventPreserves, ThrowPreserves, FinishPreserves DEF Parse
<1>3. ASSUME UNCHANGED vars
      PROVE  IInv'
  BY <1>3 DEF vars, IInv, TypeInv, HolderParses, WaitingIsEmpty, OwnPieces,
              SessionIsOwn, ResultIsOwn
<1>4. QED
  BY <1>1, <1>2, <1>3 DEF Next

\* The invariant holds of every session, whatever ended the ones before it
\* (json_parser.hpp:45-65).
THEOREM Invariance == Spec => []IInv
<1>1. QED
  BY InitEstablishes, NextPreserves, PTL DEF Spec

\* The events of a text reach the state of the Add that parses it and no other,
\* for any number of threads and any texts (json_parser.hpp:48, :51).
THEOREM EventsReachTheirOwnState == Spec => []StateIsOwn
<1>1. IInv => StateIsOwn
  <2> SUFFICES ASSUME IInv, NEW t \in Threads
               PROVE  IsPrefix(state[t], text[t].pieces)
    BY DEF StateIsOwn
  <2>1. /\ state[t] \in Seq(STRING) /\ text[t].pieces \in Seq(STRING)
        /\ Begins(state[t], text[t].pieces)
    BY DEF IInv, TypeInv, OwnPieces
  <2>2. SubSeq(state[t], 1, Len(state[t])) = SubSeq(text[t].pieces, 1, Len(state[t]))
    BY <2>1 DEF Begins
  <2>3. QED
    BY <2>1, <2>2 DEF Begins, IsPrefix
<1>2. QED
  BY <1>1, Invariance, PTL

\* What Parse returns or throws depends on the text alone, and an accepted text
\* has been handed on as a whole (json_parser.hpp:45-65).
THEOREM SessionsAreIndependent == Spec => []ResultIsOwn
<1>1. IInv => ResultIsOwn
  BY DEF IInv
<1>2. QED
  BY <1>1, Invariance, PTL
=============================================================================
