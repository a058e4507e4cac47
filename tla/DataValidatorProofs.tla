------------------------- MODULE DataValidatorProofs -------------------------
(***************************************************************************)
(* What the validator guarantees for texts of any length, over any keys    *)
(* and scalars.                                                            *)
(*                                                                         *)
(* An array opens and closes without a callback, so the validator cannot   *)
(* tell where a value stands; what it knows of the open element depends on *)
(* the containers around it.  The invariant, Shape, goes through the ways  *)
(* in which two containers can nest.                                       *)
(***************************************************************************)
EXTENDS DataValidator, SequenceTheorems, WellFoundedInduction, TLAPS

Types == Range(TypeNames) \cup {"kNotSet"}

\* The texts of tokens, those that Measurement::ToJson makes of values among them:
\* to the provers, a literal and what ToString returns are no STRINGs.
Strings ==
  UNION {STRING, {"", "true", "false"}, DOMAIN TypeNames,
         {ToString(n) : n \in Int}, {ToString(n) \o ".000000" : n \in Int}}

\* The tokens of any text.
Token == {t \in [kind : Kinds, text : Strings, num : Int] :
            /\ t.kind = "string" => t.num = 0
            /\ t.kind = "int" => t.num \in -(Int64Max + 1)..(2 * Int64Max + 1)}

\* A value_ holds the number of an int64.
Value == {v \in [kind : Kinds \cup {"blank"}, text : Strings, num : Int] :
            /\ v = Blank \/ v.kind \in Kinds
            /\ v.kind = "string" => v.num = 0
            /\ v.kind = "int" => v.num \in -(Int64Max + 1)..Int64Max}

Measurement == [name : Strings, type : Types, unit : Strings, value : Value]

Scalar == [key : Keys \cup {""}, token : Token]

-----------------------------------------------------------------------------
(* Sequences. *)

LEMMA FrontProperties ==
  ASSUME NEW S, NEW s \in Seq(S), s # <<>>
  PROVE  /\ Len(s) \in Nat \ {0}
         /\ Front(s) \in Seq(S) /\ Len(Front(s)) = Len(s) - 1
         /\ \A i \in 1..(Len(s) - 1) : Front(s)[i] = s[i]
         /\ Last(s) \in S /\ Last(s) = s[Len(s)]
<1>1. Len(s) \in Nat \ {0}
  BY EmptySeq
<1>2. \A i \in 1..Len(s) : s[i] \in S
  BY ElementOfSeq
<1>3. \A i \in 1..(Len(s) - 1) : s[i] \in S
  BY <1>1, <1>2
<1>4. /\ SubSeq(s, 1, Len(s) - 1) \in Seq(S)
      /\ Len(SubSeq(s, 1, Len(s) - 1)) = IF 1 <= Len(s) - 1 THEN (Len(s) - 1) - 1 + 1 ELSE 0
      /\ \A i \in 1..((Len(s) - 1) - 1 + 1) : SubSeq(s, 1, Len(s) - 1)[i] = s[1 + i - 1]
  BY <1>1, <1>3, SubSeqProperties
<1>5. Front(s) = SubSeq(s, 1, Len(s) - 1) /\ Last(s) = s[Len(s)]
  BY DEF Front, Last
<1>6. Len(Front(s)) = Len(s) - 1
  <2>1. ASSUME NEW n \in Nat \ {0}, NEW m, m = IF 1 <= n - 1 THEN (n - 1) - 1 + 1 ELSE 0
        PROVE  m = n - 1
    BY <2>1
  <2>2. Len(SubSeq(s, 1, Len(s) - 1)) = Len(s) - 1
    BY <1>1, <1>4, <2>1
  <2>3. QED
    BY <1>5, <2>2
<1>7. ASSUME NEW i \in 1..(Len(s) - 1) PROVE Front(s)[i] = s[i]
  BY <1>1, <1>4, <1>5
<1>8. QED
  BY <1>1, <1>2, <1>4, <1>5, <1>6, <1>7

-----------------------------------------------------------------------------
(* The types. *)

Typed ==
  /\ stack \in Seq({"object", "array"}) /\ Len(stack) <= 2
  /\ pending \in BOOLEAN /\ hasKey \in BOOLEAN /\ completed \in BOOLEAN
  /\ key \in Keys \cup {""}
  /\ data \in Seq(Measurement) /\ text \in Seq(Seq(Scalar)) /\ Len(data) = Len(text)
  /\ validator \in Entries \cup {"none"}
  /\ hasKey <=> validator # "none"
  /\ outcome \in {"parsing", "accepted", "rejected"}

LEMMA NewMeasurementTyped == NewMeasurement \in Measurement
<1>1. Blank \in Value
  <2>1. Blank \in [kind : Kinds \cup {"blank"}, text : Strings, num : Int]
    BY DEF Blank, Strings
  <2>2. Blank.kind = "blank"
    BY DEF Blank
  <2>3. QED
    BY <2>1, <2>2 DEF Value
<1>2. "kNotSet" \in Types
  BY DEF Types
<1>3. QED
  BY <1>1, <1>2 DEF NewMeasurement, Measurement, Strings

\* A uint64 is stored as an int64, whatever its value.
LEMMA StoredTyped ==
  ASSUME NEW token \in Token
  PROVE  Stored(token) \in Value
<1>1. /\ token \in [kind : Kinds, text : Strings, num : Int]
      /\ token.kind = "string" => token.num = 0
      /\ token.kind = "int" => token.num \in -(Int64Max + 1)..(2 * Int64Max + 1)
      /\ Int64Max \in Nat
  BY ValidatorAssumption DEF Token
<1>2. CASE token.kind = "int" /\ token.num > Int64Max
  <2> DEFINE n == token.num - 2 * (Int64Max + 1)
             t == [token EXCEPT !.num = n]
  <2>1. n \in -(Int64Max + 1)..Int64Max
    BY <1>1, <1>2
  <2> HIDE DEF n
  <2>2. t \in [kind : Kinds, text : Strings, num : Int] /\ t.kind = token.kind /\ t.num = n
    BY <1>1, <2>1
  <2>3. Stored(token) = t
    BY <1>2 DEF Stored, n
  <2> HIDE DEF t
  <2>4. t \in Value
    BY <1>2, <2>1, <2>2 DEF Value
  <2>5. QED
    BY <2>3, <2>4
<1>3. CASE ~(token.kind = "int" /\ token.num > Int64Max)
  <2>1. Stored(token) = token
    BY <1>3 DEF Stored
  <2>2. token \in Value
    BY <1>1, <1>3 DEF Value
  <2>3. QED
    BY <2>1, <2>2
<1>4. QED
  BY <1>2, <1>3

LEMMA UpdatedTyped ==
  ASSUME NEW entry \in Entries, NEW m \in Measurement, NEW token \in Token
  PROVE  Updated(entry, m, token) \in Measurement
<1>1. Stored(token) \in Value /\ token.text \in Strings
  BY StoredTyped DEF Token
<1>2. TypeOf(token.text) \in Types
  BY DEF TypeOf, Types, Range
<1>3. CASE entry = "NAME"
  BY <1>1, <1>3 DEF Updated, Measurement
<1>4. CASE entry = "TYPE"
  BY <1>2, <1>4 DEF Updated, Measurement
<1>5. CASE entry = "UNIT"
  BY <1>1, <1>5 DEF Updated, Measurement
<1>6. CASE entry = "VALUE"
  BY <1>1, <1>6 DEF Updated, Measurement
<1>7. CASE entry = "DECIMALS"
  BY <1>7 DEF Updated
<1>8. QED
  BY <1>3, <1>4, <1>5, <1>6, <1>7 DEF Entries

\* Moving the last measurement to the front keeps their set.
LEMMA MovedIs ==
  ASSUME NEW S, NEW ms \in Seq(S), ms # <<>>
  PROVE  /\ Moved(ms) \in Seq(S) /\ Len(Moved(ms)) = Len(ms)
         /\ \A i \in 1..Len(ms) : \E j \in 1..Len(ms) : Moved(ms)[i] = ms[j]
<1>1. /\ Len(ms) \in Nat \ {0}
      /\ Front(ms) \in Seq(S) /\ Len(Front(ms)) = Len(ms) - 1
      /\ \A i \in 1..(Len(ms) - 1) : Front(ms)[i] = ms[i]
      /\ Last(ms) \in S /\ Last(ms) = ms[Len(ms)]
  BY FrontProperties
<1>2. CASE Last(ms).type = "kTimestamp"
  <2> DEFINE l == <<Last(ms)>>
  <2>1. l \in Seq(S) /\ Len(l) = 1 /\ l[1] = ms[Len(ms)]
    BY <1>1
  <2> HIDE DEF l
  <2>2. /\ l \o Front(ms) \in Seq(S) /\ Len(l \o Front(ms)) = Len(l) + Len(Front(ms))
        /\ \A i \in 1..Len(l) + Len(Front(ms)) :
             (l \o Front(ms))[i] = IF i <= Len(l) THEN l[i] ELSE Front(ms)[i - Len(l)]
    BY <1>1, <2>1, ConcatProperties
  <2>3. Moved(ms) = l \o Front(ms)
    BY <1>2 DEF Moved, l
  <2>4. ASSUME NEW i \in 1..Len(ms)
        PROVE  \E j \in 1..Len(ms) : Moved(ms)[i] = ms[j]
    <3>1. CASE i = 1
      <4>1. Moved(ms)[i] = ms[Len(ms)]
        BY <1>1, <2>1, <2>2, <2>3, <3>1
      <4>2. QED
        BY <1>1, <4>1
    <3>2. CASE i # 1
      <4>1. Moved(ms)[i] = ms[i - 1] /\ i - 1 \in 1..Len(ms)
        BY <1>1, <2>1, <2>2, <2>3, <3>2
      <4>2. QED
        BY <4>1
    <3>3. QED
      BY <3>1, <3>2
  <2>5. Moved(ms) \in Seq(S) /\ Len(Moved(ms)) = Len(ms)
    BY <1>1, <2>1, <2>2, <2>3
  <2>6. QED
    BY <2>4, <2>5
<1>3. CASE Last(ms).type # "kTimestamp"
  <2>1. Moved(ms) = ms
    BY <1>3 DEF Moved
  <2>2. QED
    BY <2>1
<1>4. QED
  BY <1>2, <1>3

\* Nothing is open and nothing was parsed, before the text and after it was
\* rejected.
LEMMA NothingIsTyped ==
  ASSUME NEW s, NEW d, NEW t, s = <<>>, d = <<>>, t = <<>>
  PROVE  /\ s \in Seq({"object", "array"}) /\ Len(s) <= 2
         /\ d \in Seq(Measurement) /\ t \in Seq(Seq(Scalar)) /\ Len(d) = Len(t)
BY EmptySeq

LEMMA RejectIsTyped ==
  ASSUME Reject
  PROVE  Typed'
<1>1. stack' = <<>> /\ data' = <<>> /\ text' = <<>>
  BY DEF Reject
<1>2. /\ stack' \in Seq({"object", "array"}) /\ Len(stack') <= 2
      /\ data' \in Seq(Measurement) /\ text' \in Seq(Seq(Scalar)) /\ Len(data') = Len(text')
  BY <1>1, NothingIsTyped
<1>3. pending' = FALSE /\ hasKey' = FALSE /\ completed' = FALSE
  BY DEF Reject
<1>4. key' = "" /\ validator' = "none" /\ outcome' = "rejected"
  BY DEF Reject
<1>5. "none" \notin Entries
  BY DEF Entries
<1>6. QED
  BY <1>2, <1>3, <1>4, <1>5 DEF Typed

\* A step of the parser, whatever text it reads.
Step ==
  \/ BeginArray \/ EndArray \/ Reject
  \/ OnObjectBegin \/ OnObjectEnd
  \/ \E k \in Keys : OnKey(k)
  \/ \E token \in Token : OnValue(token)
  \/ UNCHANGED vars

LEMMA NextIsStep == Typed /\ [Next]_vars => Step
<1>1. ASSUME Typed, NEW token \in Tokens[key] PROVE token \in Token
  <2>1. IsToken(token)
    BY <1>1, ValidatorAssumption DEF Typed
  <2>2. token \in [kind : Kinds, text : Strings, num : Int]
    BY <2>1 DEF IsToken, Strings
  <2>3. QED
    BY <2>1, <2>2 DEF IsToken, Token
<1>2. QED
  BY <1>1 DEF Next, Step, SyntaxError

LEMMA StepKeepsTyped == Typed /\ Step => Typed'
<1> SUFFICES ASSUME Typed, Step PROVE Typed'
  OBVIOUS
<1>1. ASSUME NEW container \in {"object", "array"}, Open(container)
      PROVE  stack' \in Seq({"object", "array"}) /\ Len(stack') <= 2
  <2>1. stack \in Seq({"object", "array"}) /\ stack' = Append(stack, container)
    BY <1>1 DEF Typed, Open
  <2>2. Len(stack) \in Nat /\ Len(stack) < 2
    BY <1>1, <2>1, LenProperties DEF Open
  <2>3. stack' \in Seq({"object", "array"}) /\ Len(stack') = Len(stack) + 1
    BY <2>1, AppendProperties
  <2>4. QED
    BY <2>2, <2>3
<1>2. ASSUME Close, stack # <<>>, outcome = "parsing"
      PROVE  /\ stack' \in Seq({"object", "array"}) /\ Len(stack') <= 2
             /\ outcome' \in {"parsing", "accepted", "rejected"} /\ pending' = FALSE
  <2>1. stack \in Seq({"object", "array"}) /\ stack' = Front(stack) /\ Len(stack) <= 2
    BY <1>2 DEF Typed, Close
  <2>2. stack' \in Seq({"object", "array"}) /\ Len(stack) \in Nat /\ Len(stack') = Len(stack) - 1
    BY <1>2, <2>1, FrontProperties
  <2>3. QED
    BY <1>2, <2>1, <2>2 DEF Close
<1>3. CASE BeginArray
  BY <1>1, <1>3 DEF BeginArray, Open, Typed, stateVars
<1>4. CASE EndArray
  BY <1>2, <1>4 DEF EndArray, Innermost, Typed, stateVars
<1>5. CASE Reject
  BY <1>5, RejectIsTyped
<1>6. CASE OnObjectBegin
  <2>1. data' = Append(data, NewMeasurement) /\ text' = Append(text, <<>>)
    BY <1>6 DEF OnObjectBegin
  <2>2. data' \in Seq(Measurement) /\ Len(data') = Len(data) + 1
    BY <2>1, NewMeasurementTyped, AppendProperties DEF Typed
  <2>3. text' \in Seq(Seq(Scalar)) /\ Len(text') = Len(text) + 1
    <3>1. <<>> \in Seq(Scalar) /\ text \in Seq(Seq(Scalar))
      BY EmptySeq DEF Typed
    <3>2. QED
      BY <2>1, <3>1, AppendProperties
  <2>4. QED
    BY <1>1, <1>6, <2>2, <2>3 DEF OnObjectBegin, Open, Typed
<1>7. ASSUME NEW k \in Keys, OnKey(k)
      PROVE  Typed'
  <2>1. Matches[k] \in Entries \cup {"none"}
    BY ValidatorAssumption
  <2>2. QED
    BY <1>5, <1>7, <2>1 DEF OnKey, Typed
<1>8. ASSUME NEW token \in Token, OnValue(token)
      PROVE  Typed'
  <2>2. CASE Reject
    BY <1>5, <2>2
  <2>3. CASE ~Reject
    <3>1. /\ Accepts(token)
          /\ data' = [data EXCEPT ![Len(data)] = Updated(validator, data[Len(data)], token)]
          /\ text' = [text EXCEPT ![Len(text)] =
                        Append(text[Len(text)], [key |-> key, token |-> token])]
          /\ hasKey' = FALSE /\ validator' = "none" /\ pending' = FALSE /\ key' = ""
          /\ UNCHANGED <<stack, completed, outcome>>
      BY <1>8, <2>3 DEF OnValue, ForgetKey
    <3>2. data # <<>> /\ validator \in Entries
      BY <3>1 DEF Accepts, NotInElement, Typed
    <3>3. Len(data) \in 1..Len(data) /\ Len(text) \in 1..Len(text)
      <4>1. data \in Seq(Measurement) /\ text \in Seq(Seq(Scalar)) /\ Len(data) = Len(text)
        BY DEF Typed
      <4>2. Len(data) \in Nat \ {0}
        BY <3>2, <4>1, EmptySeq
      <4>3. QED
        BY <4>1, <4>2
    <3>4. data[Len(data)] \in Measurement /\ text[Len(text)] \in Seq(Scalar)
      BY <3>3, ElementOfSeq DEF Typed
    <3>5. data' \in Seq(Measurement) /\ Len(data') = Len(data)
      <4> DEFINE m == Updated(validator, data[Len(data)], token)
      <4>1. m \in Measurement
        BY <3>2, <3>4, UpdatedTyped
      <4> HIDE DEF m
      <4>2. QED
        <5>1. data \in Seq(Measurement) /\ data' = [data EXCEPT ![Len(data)] = m]
          BY <3>1 DEF Typed, m
        <5>2. QED
          BY <3>3, <4>1, <5>1, ExceptSeq
    <3>6. text' \in Seq(Seq(Scalar)) /\ Len(text') = Len(text)
      <4> DEFINE s == Append(text[Len(text)], [key |-> key, token |-> token])
      <4>1. [key |-> key, token |-> token] \in Scalar
        BY DEF Scalar, Typed
      <4>2. s \in Seq(Scalar)
        BY <3>4, <4>1, AppendProperties
      <4> HIDE DEF s
      <4>3. QED
        <5>1. text \in Seq(Seq(Scalar)) /\ text' = [text EXCEPT ![Len(text)] = s]
          BY <3>1 DEF Typed, s
        <5>2. QED
          BY <3>3, <4>2, <5>1, ExceptSeq
    <3>7. QED
      BY <3>1, <3>5, <3>6 DEF Typed
  <2>4. QED
    BY <2>2, <2>3
<1>9. CASE OnObjectEnd /\ ~Reject
  <2>1. /\ data # <<>> /\ data' = Moved(data) /\ completed' = TRUE /\ Close
        /\ stack # <<>> /\ outcome = "parsing"
        /\ UNCHANGED <<key, text, hasKey, validator>>
    BY <1>9 DEF OnObjectEnd, NotInElement, KeyExpected, Innermost
  <2>2. data' \in Seq(Measurement) /\ Len(data') = Len(data)
    BY <2>1, MovedIs DEF Typed
  <2>3. QED
    BY <1>2, <2>1, <2>2 DEF Typed
<1>10. CASE UNCHANGED vars
  BY <1>10 DEF vars, textVars, stateVars, Typed
<1>11. QED
  BY <1>3, <1>4, <1>5, <1>6, <1>7, <1>8, <1>9, <1>10 DEF Step

LEMMA InitTyped == Init => Typed
<1>1. SUFFICES ASSUME Init PROVE Typed
  OBVIOUS
<1>2. stack = <<>> /\ data = <<>> /\ text = <<>>
  BY <1>1 DEF Init
<1>3. /\ stack \in Seq({"object", "array"}) /\ Len(stack) <= 2
      /\ data \in Seq(Measurement) /\ text \in Seq(Seq(Scalar)) /\ Len(data) = Len(text)
  BY <1>2, NothingIsTyped
<1>4. pending = FALSE /\ hasKey = FALSE /\ completed = FALSE
  BY <1>1 DEF Init
<1>5. key = "" /\ validator = "none" /\ outcome = "parsing"
  BY <1>1 DEF Init
<1>6. "none" \notin Entries
  BY DEF Entries
<1>7. QED
  BY <1>3, <1>4, <1>5, <1>6 DEF Typed

LEMMA TypedAlways == Spec => []Typed
BY InitTyped, NextIsStep, StepKeepsTyped, PTL DEF Spec

LEMMA TypedIsTypeOK == Typed => TypeOK
<1> SUFFICES ASSUME Typed PROVE TypeOK
  OBVIOUS
<1>1. ASSUME NEW i \in DOMAIN data
      PROVE  /\ data[i].type \in Range(TypeNames) \cup {"kNotSet"}
             /\ data[i].value = Blank \/ data[i].value.kind \in Kinds
             /\ data[i].value.kind = "int" =>
                  data[i].value.num \in -(Int64Max + 1)..Int64Max
  <2>1. data[i] \in Measurement
    BY <1>1, LenProperties, ElementOfSeq DEF Typed
  <2>2. data[i].value \in Value /\ data[i].type \in Types
    BY <2>1 DEF Measurement
  <2>3. QED
    BY <2>2 DEF Value, Types
<1>2. QED
  BY <1>1 DEF Typed, TypeOK

\* Every variable has its type: in particular a number that was stored is an
\* int64, though the handler delivers numbers up to the limit of a uint64
\* (data_validator.cpp:24, json_parser.hpp:101).
THEOREM TypesHold == Spec => []TypeOK
BY TypedIsTypeOK, TypedAlways, PTL

-----------------------------------------------------------------------------
(* Complete measurements. *)

\* What a consumer relies on.
Complete(m) ==
  /\ m.name # "" /\ m.type # "kNotSet"
  /\ m.value.kind = KindOf(m.type)
  /\ m.type = "kTimestamp" => m.value.text \in TimeTexts
  /\ m.type = "kWord" => m.value.text \in WordTexts

AllComplete == \A i \in 1..Len(data) : Complete(data[i])

AllButLastComplete == \A i \in 1..(Len(data) - 1) : Complete(data[i])

\* The open containers, outermost first.
One(container) == Len(stack) = 1 /\ stack[1] = container
Two(outer, inner) == Len(stack) = 2 /\ stack[1] = outer /\ stack[2] = inner

\* Within arrays alone no element is open; within one object its element is,
\* and scalars of an inner array go to it too.  When an object in an object
\* ends, its element ends for both: nothing the outer object may still contain
\* is accepted, so the text is not.
Shape ==
  \/ /\ stack = <<>>
     /\ NotInElement
     /\ outcome = "parsing" => data = <<>>
     /\ outcome = "accepted" => AllComplete
  \/ /\ outcome = "parsing"
     /\ One("array") \/ Two("array", "array")
     /\ NotInElement /\ AllComplete
  \/ /\ outcome = "parsing"
     /\ One("object") \/ Two("object", "array") \/ Two("array", "object")
     /\ data # <<>> /\ ~completed /\ AllButLastComplete
  \/ /\ outcome = "parsing"
     /\ One("object")
     /\ data # <<>> /\ completed /\ ~pending
  \/ /\ outcome = "parsing"
     /\ Two("object", "object")
     /\ data # <<>> /\ ~completed

LEMMA OpenIs ==
  ASSUME Typed, NEW container \in {"object", "array"}, Open(container)
  PROVE  /\ stack = <<>> => One(container)'
         /\ One("array") => Two("array", container)'
         /\ One("object") => Two("object", container)'
         /\ ~Two("array", "array") /\ ~Two("array", "object")
         /\ ~Two("object", "array") /\ ~Two("object", "object")
<1>1. stack \in Seq({"object", "array"}) /\ Len(stack) < 2 /\ stack' = Append(stack, container)
  BY DEF Typed, Open
<1>2. /\ Len(stack) \in Nat /\ Len(stack') = Len(stack) + 1
      /\ \A i \in 1..Len(stack) : stack'[i] = stack[i]
      /\ stack'[Len(stack) + 1] = container
  BY <1>1, LenProperties, AppendProperties
<1>3. ASSUME stack = <<>> PROVE One(container)'
  <2>1. Len(stack) = 0
    BY <1>3, EmptySeq
  <2>2. QED
    BY <1>2, <2>1 DEF One
<1>4. ASSUME NEW c, One(c) PROVE Two(c, container)'
  BY <1>2, <1>4 DEF One, Two
<1>5. ASSUME NEW c, NEW d PROVE ~Two(c, d)
  BY <1>1 DEF Two
<1>6. QED
  BY <1>3, <1>4, <1>5

LEMMA CloseIs ==
  ASSUME Typed, Close
  PROVE  /\ pending' = FALSE
         /\ \A c : One(c) => stack' = <<>> /\ outcome' = "accepted"
         /\ \A c, d : Two(c, d) => One(c)' /\ outcome' = outcome
<1>1. stack \in Seq({"object", "array"}) /\ stack' = Front(stack)
  BY DEF Typed, Close
<1>2. pending' = FALSE /\ outcome' = IF Len(stack) = 1 THEN "accepted" ELSE outcome
  BY DEF Close
<1>3. ASSUME NEW c, One(c) PROVE stack' = <<>> /\ outcome' = "accepted"
  <2>1. stack' = SubSeq(stack, 1, 0)
    BY <1>1, <1>3 DEF One, Front
  <2>2. QED
    BY <1>2, <1>3, <2>1, SubSeqEmpty DEF One
<1>4. ASSUME NEW c, NEW d, Two(c, d) PROVE One(c)' /\ outcome' = outcome
  <2>1. stack # <<>>
    BY <1>4, EmptySeq DEF Two
  <2>2. Len(stack') = 1 /\ stack'[1] = stack[1]
    <3>1. /\ Len(stack') = Len(stack) - 1
          /\ \A i \in 1..(Len(stack) - 1) : stack'[i] = stack[i]
      BY <1>1, <2>1, FrontProperties
    <3>2. Len(stack) = 2
      BY <1>4 DEF Two
    <3>3. QED
      BY <3>1, <3>2
  <2>3. QED
    BY <1>2, <1>4, <2>2 DEF One, Two
<1>5. QED
  BY <1>2, <1>3, <1>4

\* What ends an element is what its type says.
LEMMA ValidIsComplete ==
  ASSUME NEW m, ~Invalid(m)
  PROVE  Complete(m)
<1>1. m.name # "" /\ m.type # "kNotSet" /\ m.value.kind = KindOf(m.type)
  BY DEF Invalid
<1>2. m.type = "kTimestamp" => m.value.text \in TimeTexts
  BY DEF Invalid
<1>3. m.type = "kWord" => m.value.text \in WordTexts
  BY DEF Invalid
<1>4. QED
  BY <1>1, <1>2, <1>3 DEF Complete

LEMMA EndCompletes ==
  ASSUME Typed, data # <<>>, ~Invalid(Last(data)), data' = Moved(data)
  PROVE  data' # <<>> /\ (AllButLastComplete => AllComplete')
<1>1. data \in Seq(Measurement) /\ Len(data) \in Nat \ {0} /\ Last(data) = data[Len(data)]
  BY FrontProperties DEF Typed
<1>2. /\ Moved(data) \in Seq(Measurement) /\ Len(Moved(data)) = Len(data)
      /\ \A i \in 1..Len(data) : \E j \in 1..Len(data) : Moved(data)[i] = data[j]
  BY <1>1, MovedIs
<1>3. data' # <<>>
  BY <1>1, <1>2, EmptySeq
<1>4. ASSUME AllButLastComplete, NEW i \in 1..Len(data')
      PROVE  Complete(data'[i])
  <2>1. PICK j \in 1..Len(data) : Moved(data)[i] = data[j]
    BY <1>2, <1>4
  <2>2. Complete(data[j])
    <3>1. CASE j = Len(data)
      BY <1>1, <3>1, ValidIsComplete
    <3>2. CASE j # Len(data)
      BY <1>1, <1>4, <3>2 DEF AllButLastComplete
    <3>3. QED
      BY <3>1, <3>2
  <2>3. QED
    BY <2>1, <2>2
<1>5. QED
  BY <1>3, <1>4 DEF AllComplete

LEMMA InitShape == Init => Shape
BY DEF Init, Shape, NotInElement

LEMMA StepKeepsShape == Typed /\ Shape /\ Step => Shape'
<1> SUFFICES ASSUME Typed, Shape, Step PROVE Shape'
  OBVIOUS
<1>1. ASSUME Reject PROVE Shape'
  BY <1>1 DEF Reject, Shape, NotInElement
<1>2. CASE BeginArray
  <2>1. Open("array") /\ outcome = "parsing" /\ UNCHANGED <<data, completed, outcome>>
    BY <1>2 DEF BeginArray, ValueExpected, stateVars
  <2>2. CASE stack = <<>>
    <3>1. data = <<>>
      BY <2>1, <2>2, EmptySeq DEF Shape, One, Two
    <3>2. NotInElement' /\ AllComplete'
      BY <2>1, <3>1, EmptySeq DEF NotInElement, AllComplete
    <3>3. QED
      BY <2>1, <2>2, <3>2, OpenIs DEF Shape
  <2>3. CASE One("array")
    <3>1. NotInElement /\ AllComplete
      BY <2>1, <2>3, EmptySeq DEF Shape, One, Two
    <3>2. NotInElement' /\ AllComplete'
      BY <2>1, <3>1 DEF NotInElement, AllComplete
    <3>3. QED
      BY <2>1, <2>3, <3>2, OpenIs DEF Shape
  <2>4. CASE One("object")
    <3>1. pending
      BY <1>2, <2>4, EmptySeq DEF BeginArray, ValueExpected, Innermost, Last, One
    <3>2. data # <<>> /\ ~completed /\ AllButLastComplete
      BY <2>1, <2>4, <3>1, EmptySeq DEF Shape, One, Two
    <3>3. data' # <<>> /\ ~completed' /\ AllButLastComplete'
      BY <2>1, <3>2 DEF AllButLastComplete
    <3>4. QED
      BY <2>1, <2>4, <3>3, OpenIs DEF Shape
  <2>5. QED
    BY <2>1, <2>2, <2>3, <2>4, OpenIs DEF Shape
<1>3. CASE EndArray
  <2>1. /\ Close /\ outcome = "parsing" /\ UNCHANGED <<data, completed>>
        /\ stack # <<>> /\ stack[Len(stack)] = "array"
    BY <1>3 DEF EndArray, Innermost, Last, stateVars
  <2>2. ~One("object") /\ ~Two("array", "object") /\ ~Two("object", "object")
    BY <2>1 DEF One, Two
  <2>3. CASE (One("array") \/ Two("array", "array")) /\ NotInElement /\ AllComplete
    <3>1. NotInElement' /\ AllComplete'
      BY <2>1, <2>3 DEF NotInElement, AllComplete
    <3>2. \/ stack' = <<>> /\ outcome' = "accepted"
          \/ One("array")' /\ outcome' = "parsing"
      BY <2>1, <2>3, CloseIs
    <3>3. QED
      BY <3>1, <3>2 DEF Shape
  <2>4. CASE Two("object", "array") /\ data # <<>> /\ ~completed /\ AllButLastComplete
    <3>1. data' # <<>> /\ ~completed' /\ AllButLastComplete'
      BY <2>1, <2>4 DEF AllButLastComplete
    <3>2. One("object")' /\ outcome' = "parsing"
      BY <2>1, <2>4, CloseIs
    <3>3. QED
      BY <3>1, <3>2 DEF Shape
  <2>5. QED
    BY <2>1, <2>2, <2>3, <2>4 DEF Shape
<1>4. CASE OnObjectBegin
  <2>1. /\ Open("object") /\ outcome = "parsing" /\ outcome' = outcome
        /\ data' = Append(data, NewMeasurement) /\ completed' = FALSE
    BY <1>4 DEF OnObjectBegin, ValueExpected
  <2>2. /\ data' # <<>> /\ Len(data') = Len(data) + 1 /\ Len(data) \in Nat
        /\ \A i \in 1..Len(data) : data'[i] = data[i]
    <3>1. data \in Seq(Measurement) /\ NewMeasurement \in Measurement
      BY NewMeasurementTyped DEF Typed
    <3>2. QED
      BY <2>1, <3>1, LenProperties, AppendProperties
  <2>3. ASSUME AllComplete PROVE AllButLastComplete'
    BY <2>2, <2>3 DEF AllComplete, AllButLastComplete
  <2>4. CASE stack = <<>>
    <3>1. data = <<>>
      BY <2>1, <2>4, EmptySeq DEF Shape, One, Two
    <3>2. AllComplete
      BY <3>1, EmptySeq DEF AllComplete
    <3>3. QED
      BY <2>1, <2>2, <2>3, <2>4, <3>2, OpenIs DEF Shape
  <2>5. CASE One("array")
    <3>1. AllComplete
      BY <2>1, <2>5, EmptySeq DEF Shape, One, Two
    <3>2. QED
      BY <2>1, <2>2, <2>3, <2>5, <3>1, OpenIs DEF Shape
  <2>6. CASE One("object")
    BY <2>1, <2>2, <2>6, OpenIs DEF Shape
  <2>7. QED
    BY <2>1, <2>4, <2>5, <2>6, OpenIs DEF Shape
<1>5. ASSUME NEW k \in Keys, OnKey(k)
      PROVE  Shape'
  <2>1. CASE Reject
    BY <1>1, <2>1
  <2>2. CASE ~Reject
    <3>1. ~NotInElement /\ UNCHANGED <<stack, data, completed, outcome>> /\ pending' = TRUE
      BY <1>5, <2>2 DEF OnKey
    <3>2. ~completed
      BY <3>1 DEF NotInElement
    <3>3. /\ AllComplete' <=> AllComplete
          /\ AllButLastComplete' <=> AllButLastComplete
          /\ NotInElement' <=> NotInElement
      BY <3>1 DEF AllComplete, AllButLastComplete, NotInElement
    <3>4. QED
      BY <3>1, <3>2, <3>3 DEF Shape, One, Two
  <2>3. QED
    BY <2>1, <2>2
<1>6. ASSUME NEW token \in Token, OnValue(token)
      PROVE  Shape'
  <2>1. CASE Reject
    BY <1>1, <2>1
  <2>2. CASE ~Reject
    <3>1. /\ ~NotInElement
          /\ data' = [data EXCEPT ![Len(data)] = Updated(validator, data[Len(data)], token)]
          /\ UNCHANGED <<stack, completed, outcome>>
      BY <1>6, <2>2 DEF OnValue, Accepts
    <3>2. outcome = "parsing" /\ data # <<>> /\ ~completed
      BY <1>6, <3>1 DEF OnValue, ValueExpected, NotInElement
    <3>3. data \in Seq(Measurement) /\ Len(data) \in Nat \ {0}
      BY <3>2, EmptySeq DEF Typed
    <3>4. data' \in Seq(Measurement)
      BY StepKeepsTyped DEF Typed
    <3>5. /\ Len(data') = Len(data) /\ data' # <<>>
          /\ \A i \in 1..(Len(data) - 1) : data'[i] = data[i]
      <4>1. DOMAIN data' = 1..Len(data) /\ DOMAIN data' = 1..Len(data') /\ Len(data') \in Nat
        BY <3>1, <3>3, <3>4, LenProperties
      <4>2. Len(data') = Len(data)
        BY <3>3, <4>1
      <4>3. data' # <<>>
        BY <3>3, <4>2, EmptySeq
      <4>4. \A i \in 1..(Len(data) - 1) : data'[i] = data[i]
        BY <3>1, <3>3, LenProperties
      <4>5. QED
        BY <4>2, <4>3, <4>4
    <3>6. AllButLastComplete' <=> AllButLastComplete
      BY <3>5 DEF AllButLastComplete
    <3>7. ~One("array") /\ ~Two("array", "array")
      BY <3>1, <3>2, EmptySeq DEF Shape, One, Two
    <3>8. QED
      BY <3>1, <3>2, <3>5, <3>6, <3>7 DEF Shape, One, Two
  <2>3. QED
    BY <2>1, <2>2
<1>7. CASE OnObjectEnd
  <2>1. CASE Reject
    BY <1>1, <2>1
  <2>2. CASE ~Reject
    <3>1. /\ ~NotInElement /\ ~Invalid(Last(data)) /\ data' = Moved(data) /\ completed' = TRUE
          /\ Close /\ outcome = "parsing" /\ stack # <<>> /\ stack[Len(stack)] = "object"
      BY <1>7, <2>2 DEF OnObjectEnd, KeyExpected, Innermost, Last
    <3>2. data # <<>> /\ ~completed
      BY <3>1 DEF NotInElement
    <3>3. data' # <<>> /\ (AllButLastComplete => AllComplete')
      BY <3>1, <3>2, EndCompletes
    <3>4. pending' = FALSE
      BY <3>1, CloseIs
    <3>5. ~One("array") /\ ~Two("array", "array") /\ ~Two("object", "array")
      BY <3>1 DEF One, Two
    <3>6. CASE One("object") /\ AllButLastComplete
      BY <3>1, <3>3, <3>6, CloseIs DEF Shape, NotInElement
    <3>7. CASE Two("array", "object") /\ AllButLastComplete
      <4>1. One("array")' /\ outcome' = "parsing"
        BY <3>1, <3>7, CloseIs
      <4>2. NotInElement'
        BY <3>1 DEF NotInElement
      <4>3. QED
        BY <3>3, <3>7, <4>1, <4>2 DEF Shape
    <3>8. CASE Two("object", "object")
      <4>1. One("object")' /\ outcome' = "parsing"
        BY <3>1, <3>8, CloseIs
      <4>2. QED
        BY <3>1, <3>3, <3>4, <4>1 DEF Shape
    <3>9. QED
      BY <3>1, <3>2, <3>5, <3>6, <3>7, <3>8 DEF Shape
  <2>3. QED
    BY <2>1, <2>2
<1>8. CASE UNCHANGED vars
  BY <1>8 DEF vars, textVars, stateVars, Shape, One, Two, NotInElement, AllComplete,
              AllButLastComplete
<1>9. QED
  BY <1>1, <1>2, <1>3, <1>4, <1>5, <1>6, <1>7, <1>8 DEF Step

LEMMA ShapeIsComplete == Typed /\ Shape => AcceptedIsComplete
<1> SUFFICES ASSUME Typed, Shape, Accepted, NEW i \in DOMAIN data
             PROVE  Complete(data[i])
  BY DEF AcceptedIsComplete, Complete
<1>1. AllComplete
  BY DEF Accepted, Shape
<1>2. DOMAIN data = 1..Len(data)
  BY LenProperties DEF Typed
<1>3. QED
  BY <1>1, <1>2 DEF AllComplete

\* Every measurement of an accepted text has a name, a type, a value of that
\* type's kind and, where the type asks for one, a text of the right form,
\* however objects and arrays are nested and although an array calls nothing:
\* OnObjectEnd checks the element that is still open (data_validator.cpp:45).
THEOREM AcceptedMeasurementsAreComplete == Spec => []AcceptedIsComplete
<1>1. Typed /\ Shape /\ [Next]_vars => (Typed /\ Shape)'
  BY NextIsStep, StepKeepsTyped, StepKeepsShape
<1>2. QED
  BY InitTyped, InitShape, ShapeIsComplete, <1>1, PTL DEF Spec
-----------------------------------------------------------------------------
(* What the objects of a text say. *)

LEMMA SmallestExists ==
  ASSUME NEW T \in SUBSET Nat, T # {}
  PROVE  \E x \in T : \A y \in T : x <= y
<1> DEFINE less == {ss \in Nat \X Nat : ss[1] < ss[2]}
<1>1. OpToRel(<, Nat) = less
  BY Zenon DEF OpToRel
<1>2. IsWellFoundedOn(less, Nat)
  BY <1>1, NatLessThanWellFounded
<1> HIDE DEF less
<1>3. PICK x \in T : \A y \in T : ~ (<<y, x>> \in less)
  BY <1>2, WFMin
<1>4. ASSUME NEW y \in T
      PROVE  x <= y
  <2>1. <<y, x>> \in Nat \X Nat /\ ~ (<<y, x>> \in less)
    BY <1>3
  <2>2. QED
    BY <2>1 DEF less
<1>5. QED
  BY <1>4

\* The first and the last position in a set of them.
LEMMA MinMaxAreIn ==
  ASSUME NEW n \in Nat, NEW T \in SUBSET (1..n), T # {}
  PROVE  Min(T) \in T /\ Max(T) \in T
<1>1. \E x \in T : \A y \in T : x <= y
  <2>1. T \in SUBSET Nat
    OBVIOUS
  <2>2. QED
    BY <2>1, SmallestExists
<1>2. \E x \in T : \A y \in T : x >= y
  <2> DEFINE U == {n - x : x \in T}
  <2>1. U \in SUBSET Nat /\ U # {}
    <3>1. \A x \in T : n - x \in Nat
      OBVIOUS
    <3>2. QED
      BY <3>1
  <2>2. PICK u \in U : \A v \in U : u <= v
    BY <2>1, SmallestExists
  <2>3. PICK x \in T : u = n - x
    BY <2>2
  <2>4. ASSUME NEW y \in T PROVE x >= y
    <3>1. n - y \in U
      OBVIOUS
    <3>2. u <= n - y /\ x \in Int /\ y \in Int
      BY <2>2, <3>1
    <3>3. QED
      BY <2>3, <3>2
  <2>5. QED
    BY <2>4
<1>3. QED
  BY <1>1, <1>2 DEF Min, Max

\* Where an object gives a scalar for an entry, in the eyes of the validator.
Given(object, entry) == {i \in DOMAIN object : Matches[object[i].key] = entry}

\* What the validator has made of an object so far; the VALUE may be still to come.
TextGiven(object, entry) ==
  IF Given(object, entry) = {} THEN "" ELSE object[Max(Given(object, entry))].token.text

ValueGiven(object) ==
  IF Given(object, "VALUE") = {} THEN Blank
  ELSE Stored(object[Min(Given(object, "VALUE"))].token)

Told(object) ==
  [name |-> TextGiven(object, "NAME"), type |-> TypeOf(TextGiven(object, "TYPE")),
   unit |-> TextGiven(object, "UNIT"), value |-> ValueGiven(object)]

\* A type or a value is never given again: both leave a trace in the measurement.
\* An empty name or unit leaves none.
OnceEach(object) ==
  /\ \A i, j \in Given(object, "TYPE") : i = j
  /\ \A i, j \in Given(object, "VALUE") : i = j
  /\ \A i \in Given(object, "TYPE") : TypeOf(object[i].token.text) # "kNotSet"

LEMMA NothingIsTold == Told(<<>>) = NewMeasurement
<1>1. \A entry : Given(<<>>, entry) = {}
  BY DEF Given
<1>2. TypeOf("") = "kNotSet"
  BY DEF TypeOf, TypeNames
<1>3. QED
  BY <1>1, <1>2 DEF Told, TextGiven, ValueGiven, NewMeasurement

LEMMA NothingIsOnce == OnceEach(<<>>)
<1>1. \A entry : Given(<<>>, entry) = {}
  BY DEF Given
<1>2. QED
  BY <1>1 DEF OnceEach

LEMMA GivenIsIn ==
  ASSUME NEW object \in Seq(Scalar), NEW entry, Given(object, entry) # {}
  PROVE  /\ Max(Given(object, entry)) \in 1..Len(object)
         /\ Min(Given(object, entry)) \in 1..Len(object)
         /\ Max(Given(object, entry)) \in Given(object, entry)
         /\ Min(Given(object, entry)) \in Given(object, entry)
<1>1. DOMAIN object = 1..Len(object) /\ Len(object) \in Nat
  BY LenProperties
<1>2. Given(object, entry) \in SUBSET (1..Len(object))
  BY <1>1 DEF Given
<1>3. Min(Given(object, entry)) \in Given(object, entry) /\ Max(Given(object, entry)) \in Given(object, entry)
  BY <1>1, <1>2, MinMaxAreIn
<1>4. QED
  BY <1>2, <1>3

LEMMA ValueIsNotBlank ==
  ASSUME NEW object \in Seq(Scalar), Given(object, "VALUE") # {}
  PROVE  ValueGiven(object) # Blank
<1> DEFINE token == object[Min(Given(object, "VALUE"))].token
<1>1. token \in Token
  <2>1. object[Min(Given(object, "VALUE"))] \in Scalar
    BY GivenIsIn, ElementOfSeq
  <2>2. QED
    BY <2>1 DEF Scalar
<1> HIDE DEF token
<1>2. Stored(token).kind = token.kind
  BY <1>1 DEF Stored, Token
<1>3. Stored(token).kind \in Kinds
  BY <1>1, <1>2 DEF Token
<1>4. ValueGiven(object) = Stored(token)
  BY DEF ValueGiven, token
<1>5. Blank.kind \notin Kinds
  BY DEF Blank, Kinds
<1>6. QED
  BY <1>3, <1>4, <1>5

\* The object, with one more scalar.
Longer(object, k, token) == Append(object, [key |-> k, token |-> token])

\* The next scalar of an object is the last for its entry.
LEMMA NextGiven ==
  ASSUME NEW object \in Seq(Scalar), NEW k \in Keys, NEW token \in Token,
         NEW longer, longer = Longer(object, k, token)
  PROVE  \A entry :
           /\ TextGiven(longer, entry) =
                IF entry = Matches[k] THEN token.text ELSE TextGiven(object, entry)
           /\ entry # Matches[k] => Given(longer, entry) = Given(object, entry)
           /\ longer[Len(object) + 1].token = token
           /\ Given(longer, Matches[k]) = Given(object, Matches[k]) \cup {Len(object) + 1}
           /\ \A i \in 1..Len(object) : longer[i] = object[i]
<1> SUFFICES ASSUME NEW entry
             PROVE  /\ TextGiven(longer, entry) =
                         IF entry = Matches[k] THEN token.text ELSE TextGiven(object, entry)
                    /\ entry # Matches[k] => Given(longer, entry) = Given(object, entry)
                    /\ longer[Len(object) + 1].token = token
                    /\ Given(longer, Matches[k]) = Given(object, Matches[k]) \cup {Len(object) + 1}
                    /\ \A i \in 1..Len(object) : longer[i] = object[i]
  OBVIOUS
<1> DEFINE last == Len(object) + 1
<1>1. [key |-> k, token |-> token] \in Scalar
  BY DEF Scalar
<1>2. /\ longer \in Seq(Scalar) /\ Len(longer) = last /\ Len(object) \in Nat
      /\ \A i \in 1..Len(object) : longer[i] = object[i]
      /\ longer[last] = [key |-> k, token |-> token]
  BY <1>1, AppendProperties, LenProperties DEF Longer
<1>3. DOMAIN longer = 1..last /\ DOMAIN object = 1..Len(object)
  BY <1>2, LenProperties
<1>4. ASSUME NEW e
      PROVE  Given(longer, e) = IF e = Matches[k] THEN Given(object, e) \cup {last} ELSE Given(object, e)
  BY <1>2, <1>3 DEF Given
<1>5. CASE entry = Matches[k]
  <2>1. last \in Given(longer, entry) /\ \A i \in Given(longer, entry) : last >= i /\ i \in Int
    BY <1>2, <1>3, <1>4, <1>5 DEF Given
  <2>2. Max(Given(longer, entry)) = last
    <3>1. \A x \in Given(longer, entry) :
            (\A y \in Given(longer, entry) : x >= y) => x = last
      BY <1>2, <2>1
    <3>2. QED
      BY <2>1, <3>1 DEF Max
  <2>3. TextGiven(longer, entry) = token.text
    <3>1. TextGiven(longer, entry) = longer[last].token.text
      BY <2>1, <2>2, Zenon DEF TextGiven
    <3> HIDE DEF last
    <3>2. longer[last].token = token
      BY <1>2
    <3>3. QED
      BY <3>1, <3>2
  <2> HIDE DEF last
  <2>4. Given(longer, Matches[k]) = Given(object, Matches[k]) \cup {last}
    BY <1>4
  <2>5. QED
    BY <1>2, <1>5, <2>3, <2>4 DEF last
<1>6. CASE entry # Matches[k]
  <2>1. Given(longer, entry) = Given(object, entry)
    BY <1>4, <1>6
  <2>2. TextGiven(longer, entry) = TextGiven(object, entry)
    BY <1>2, <2>1, GivenIsIn DEF TextGiven
  <2>3. Given(longer, Matches[k]) = Given(object, Matches[k]) \cup {last}
    BY <1>4
  <2>4. QED
    BY <1>2, <1>6, <2>1, <2>2, <2>3
<1>7. QED
  BY <1>5, <1>6

\* A value that is accepted changes what has been told as the validator changes
\* its measurement.
LEMMA ToldIsUpdated ==
  ASSUME NEW object \in Seq(Scalar), NEW k \in Keys, NEW token \in Token,
         Matches[k] \in Entries, ~Objects(Matches[k], Told(object), token)
  PROVE  Told(Longer(object, k, token)) =
           Updated(Matches[k], Told(object), token)
<1> SUFFICES ASSUME NEW longer, longer = Longer(object, k, token)
             PROVE  Told(longer) = Updated(Matches[k], Told(object), token)
  OBVIOUS
<1>1. \A entry :
        /\ TextGiven(longer, entry) =
             IF entry = Matches[k] THEN token.text ELSE TextGiven(object, entry)
        /\ entry # Matches[k] => Given(longer, entry) = Given(object, entry)
        /\ longer[Len(object) + 1].token = token
        /\ Given(longer, Matches[k]) = Given(object, Matches[k]) \cup {Len(object) + 1}
        /\ \A i \in 1..Len(object) : longer[i] = object[i]
  BY NextGiven
<1>2. ASSUME Matches[k] # "VALUE"
      PROVE  ValueGiven(longer) = ValueGiven(object)
  BY <1>1, <1>2, GivenIsIn DEF ValueGiven
<1>3. CASE Matches[k] = "NAME"
  BY <1>1, <1>2, <1>3 DEF Told, Updated
<1>4. CASE Matches[k] = "TYPE"
  BY <1>1, <1>2, <1>4 DEF Told, Updated
<1>5. CASE Matches[k] = "UNIT"
  BY <1>1, <1>2, <1>5 DEF Told, Updated
<1>6. CASE Matches[k] = "VALUE"
  <2>1. Told(object).value = Blank
    BY <1>6 DEF Objects
  <2>2. Given(object, "VALUE") = {}
    BY <2>1, ValueIsNotBlank DEF Told
  <2>3. Given(longer, "VALUE") = {Len(object) + 1}
    BY <1>1, <1>6, <2>2
  <2>4. Min({Len(object) + 1}) = Len(object) + 1
    <3>1. Len(object) + 1 >= Len(object) + 1
      BY LenProperties
    <3>2. QED
      BY <3>1 DEF Min
  <2>5. ValueGiven(longer) = Stored(token)
    BY <1>1, <2>3, <2>4 DEF ValueGiven
  <2>6. QED
    BY <1>1, <1>6, <2>5 DEF Told, Updated
<1>7. CASE Matches[k] = "DECIMALS"
  BY <1>1, <1>2, <1>7 DEF Told, Updated
<1>8. QED
  BY <1>3, <1>4, <1>5, <1>6, <1>7 DEF Entries

\* The validator objects to a second type and to a second value.
LEMMA OnceLasts ==
  ASSUME NEW object \in Seq(Scalar), NEW k \in Keys, NEW token \in Token,
         Matches[k] \in Entries, ~Objects(Matches[k], Told(object), token)
  PROVE  OnceEach(object) => OnceEach(Longer(object, k, token))
<1> SUFFICES ASSUME NEW longer, longer = Longer(object, k, token)
             PROVE  OnceEach(object) => OnceEach(longer)
  OBVIOUS
<1>1. \A entry :
        /\ TextGiven(longer, entry) =
             IF entry = Matches[k] THEN token.text ELSE TextGiven(object, entry)
        /\ entry # Matches[k] => Given(longer, entry) = Given(object, entry)
        /\ longer[Len(object) + 1].token = token
        /\ Given(longer, Matches[k]) = Given(object, Matches[k]) \cup {Len(object) + 1}
        /\ \A i \in 1..Len(object) : longer[i] = object[i]
  BY NextGiven
<1> HAVE OnceEach(object)
<1>2. \A entry : Given(object, entry) \subseteq 1..Len(object)
  BY LenProperties DEF Given
<1>3. CASE Matches[k] = "TYPE"
  <2>1. TypeOf(TextGiven(object, "TYPE")) = "kNotSet" /\ TypeOf(token.text) # "kNotSet"
    BY <1>3 DEF Objects, Told
  <2>2. Given(object, "TYPE") = {}
    BY <2>1, GivenIsIn DEF TextGiven, OnceEach
  <2>3. Given(longer, "TYPE") = {Len(object) + 1} /\ Given(longer, "VALUE") = Given(object, "VALUE")
    BY <1>1, <1>3, <2>2
  <2>4. QED
    BY <1>1, <2>1, <2>3 DEF OnceEach
<1>4. CASE Matches[k] = "VALUE"
  <2>1. Told(object).value = Blank
    BY <1>4 DEF Objects
  <2>2. Given(object, "VALUE") = {}
    BY <2>1, ValueIsNotBlank DEF Told
  <2>3. Given(longer, "VALUE") = {Len(object) + 1} /\ Given(longer, "TYPE") = Given(object, "TYPE")
    BY <1>1, <1>4, <2>2
  <2>4. QED
    BY <1>1, <1>2, <2>3 DEF OnceEach
<1>5. CASE Matches[k] # "TYPE" /\ Matches[k] # "VALUE"
  <2>1. Given(longer, "VALUE") = Given(object, "VALUE") /\ Given(longer, "TYPE") = Given(object, "TYPE")
    BY <1>1, <1>5
  <2>2. QED
    BY <1>1, <1>2, <2>1 DEF OnceEach
<1>6. QED
  BY <1>3, <1>4, <1>5

\* In the format, what the validator makes of an object is what the object says.
LEMMA ToldIsMeaning ==
  ASSUME NEW object \in Seq(Scalar), OnceEach(object), InFormat(object),
         Given(object, "VALUE") # {}
  PROVE  Told(object) = Meaning(object)
<1>1. ASSUME NEW i \in DOMAIN object
      PROVE  Matches[object[i].key] = object[i].key
  <2>1. object[i] \in Scalar
    BY LenProperties, ElementOfSeq
  <2>2. object[i].key \in Keys \cup {""} /\ object[i].key \in Entries
    BY <2>1 DEF Scalar, InFormat
  <2>3. "" \notin Entries
    BY DEF Entries
  <2>4. QED
    BY <2>2, <2>3, ValidatorAssumption
<1>2. ASSUME NEW entry
      PROVE  Given(object, entry) = Positions(object, entry)
  BY <1>1 DEF Given, Positions
<1>3. ASSUME NEW entry, Given(object, entry) # {},
             \A i, j \in Given(object, entry) : i = j
      PROVE  /\ object[Max(Given(object, entry))].token = TokenOf(object, entry)
             /\ object[Min(Given(object, entry))].token = TokenOf(object, entry)
  <2>1. (CHOOSE i \in Positions(object, entry) : TRUE) \in Given(object, entry)
    BY <1>2, <1>3
  <2>2. QED
    BY <1>3, <2>1, GivenIsIn DEF TokenOf
<1>4. ASSUME NEW entry, \A i, j \in Given(object, entry) : i = j
      PROVE  TextGiven(object, entry) = TextOf(object, entry)
  <2>1. CASE Given(object, entry) = {}
    BY <1>2, <2>1 DEF TextGiven, TextOf
  <2>2. CASE Given(object, entry) # {}
    BY <1>2, <1>3, <1>4, <2>2 DEF TextGiven, TextOf
  <2>3. QED
    BY <2>1, <2>2
<1>5. /\ TextGiven(object, "NAME") = TextOf(object, "NAME")
      /\ TextGiven(object, "TYPE") = TextOf(object, "TYPE")
      /\ TextGiven(object, "UNIT") = TextOf(object, "UNIT")
  BY <1>2, <1>4 DEF InFormat, OnceEach
<1>6. ValueGiven(object) = TokenOf(object, "VALUE")
  <2> DEFINE i == Min(Given(object, "VALUE"))
  <2>1. i \in DOMAIN object
    BY GivenIsIn, LenProperties
  <2> HIDE DEF i
  <2>2. Stored(object[i].token) = object[i].token
    <3>1. object[i].token.kind = "int" => object[i].token.num <= Int64Max
      BY <2>1 DEF InFormat
    <3>2. object[i].token.kind = "int" => object[i].token.num \in Int
      <4>1. object[i] \in Scalar
        BY <2>1, LenProperties, ElementOfSeq
      <4>2. QED
        BY <4>1 DEF Scalar, Token
    <3>3. ~(object[i].token.kind = "int" /\ object[i].token.num > Int64Max)
      <4>1. Int64Max \in Nat
        BY ValidatorAssumption, Zenon
      <4>2. ASSUME NEW num \in Int, num <= Int64Max PROVE ~(num > Int64Max)
        BY <4>1, <4>2
      <4>3. QED
        BY <3>1, <3>2, <4>2
    <3>4. QED
      BY <3>3 DEF Stored
  <2>3. object[i].token = TokenOf(object, "VALUE")
    BY <1>3 DEF OnceEach, i
  <2>4. QED
    BY <2>2, <2>3 DEF ValueGiven, i
<1>7. QED
  BY <1>5, <1>6 DEF Told, Meaning
-----------------------------------------------------------------------------
(* The measurements are what the objects say, in their order. *)

\* from says which object each measurement was told by.
Traces(ms, objects, from) ==
  /\ from \in Bijection(1..Len(ms), 1..Len(ms))
  /\ \A i \in 1..Len(ms) : ms[i] = Told(objects[from[i]])
  /\ \A i \in 1..Len(ms) : OnceEach(objects[i])

\* The first n measurements have the order of a text that is accepted.
InOrder(ms, from, n) ==
  \A i, j \in 1..n : i < j =>
    IF IsTimestamp(ms[j]) THEN IsTimestamp(ms[i]) /\ from[i] > from[j]
    ELSE IsTimestamp(ms[i]) \/ from[i] < from[j]

LEMMA BijectionIs ==
  ASSUME NEW n \in Nat, NEW from
  PROVE  from \in Bijection(1..n, 1..n) <=>
           /\ from \in [1..n -> 1..n]
           /\ \A i, j \in 1..n : from[i] = from[j] => i = j
           /\ \A m \in 1..n : \E i \in 1..n : from[i] = m
BY DEF Bijection, Injection, Surjection, IsInjective

\* A bijection between the first n positions, and one between one more.
LEMMA BijectionGrows ==
  ASSUME NEW n \in Nat, NEW from \in Bijection(1..n, 1..n)
  PROVE  \E from2 \in Bijection(1..(n + 1), 1..(n + 1)) :
           from2[n + 1] = n + 1 /\ \A i \in 1..n : from2[i] = from[i]
<1>1. /\ from \in [1..n -> 1..n]
      /\ \A i, j \in 1..n : from[i] = from[j] => i = j
      /\ \A m \in 1..n : \E i \in 1..n : from[i] = m
  BY BijectionIs
<1>2. PICK o \in Nat : o = n + 1
  OBVIOUS
<1>3. \A i \in 1..n : i \in 1..o /\ i # o /\ from[i] \in 1..o /\ from[i] # o
  <2>1. \A i \in 1..n : from[i] \in 1..n
    BY <1>1
  <2>2. \A i \in 1..n : i \in 1..o /\ i # o
    BY <1>2
  <2>3. QED
    BY <2>1, <2>2
<1>4. /\ \A i \in 1..o : i # o => i \in 1..n
      /\ o \in 1..o
  BY <1>2
<1>5. PICK from2 \in [1..o -> 1..o] : from2[o] = o /\ \A i \in 1..n : from2[i] = from[i]
  <2> DEFINE f == [i \in 1..o |-> IF i = o THEN o ELSE from[i]]
  <2>1. ASSUME NEW i \in 1..o
        PROVE  (IF i = o THEN o ELSE from[i]) \in 1..o
    BY <1>3, <1>4
  <2>2. f \in [1..o -> 1..o]
    BY <2>1
  <2>3. f[o] = o /\ \A i \in 1..n : f[i] = from[i]
    BY <1>3, <1>4
  <2> HIDE DEF f
  <2>4. QED
    BY <2>2, <2>3
<1>6. ASSUME NEW i \in 1..o, NEW j \in 1..o, from2[i] = from2[j]
      PROVE  i = j
  BY <1>1, <1>3, <1>4, <1>5, <1>6
<1>7. ASSUME NEW m \in 1..o
      PROVE  \E i \in 1..o : from2[i] = m
  <2>1. CASE m = o
    BY <1>4, <1>5, <2>1
  <2>2. CASE m # o
    <3>1. PICK i \in 1..n : from[i] = m
      BY <1>1, <1>4, <2>2
    <3>2. i \in 1..o /\ from2[i] = m
      BY <1>3, <1>5, <3>1
    <3>3. QED
      BY <3>2
  <2>3. QED
    BY <2>1, <2>2
<1>8. from2 \in Bijection(1..o, 1..o)
  BY <1>6, <1>7, BijectionIs
<1>9. QED
  BY <1>2, <1>5, <1>8

\* The last of n positions comes first, and the others move on.
LEMMA BijectionTurns ==
  ASSUME NEW n \in Nat \ {0}, NEW from \in Bijection(1..n, 1..n), from[n] = n
  PROVE  \E from2 \in Bijection(1..n, 1..n) :
           from2[1] = n /\ \A i \in 2..n : from2[i] = from[i - 1] /\ from2[i] < n
<1>1. /\ from \in [1..n -> 1..n]
      /\ \A i, j \in 1..n : from[i] = from[j] => i = j
      /\ \A m \in 1..n : \E i \in 1..n : from[i] = m
  BY BijectionIs
<1>2. n \in 1..n /\ 1 \in 1..n /\ n \in Nat
  OBVIOUS
<1>3. \A i \in 1..n : i # 1 => i \in 2..n
  OBVIOUS
<1>4. ASSUME NEW i \in 2..n
      PROVE  i - 1 \in 1..n /\ from[i - 1] \in 1..n /\ from[i - 1] < n
  <2>1. i - 1 \in 1..n /\ i - 1 # n
    OBVIOUS
  <2>2. from[i - 1] \in 1..n
    BY <1>1, <2>1
  <2>3. from[i - 1] # n
    BY <1>1, <1>2, <2>1
  <2>4. QED
    BY <2>1, <2>2, <2>3
<1>5. PICK from2 \in [1..n -> 1..n] :
        from2[1] = n /\ \A i \in 2..n : from2[i] = from[i - 1] /\ from2[i] < n
  <2> DEFINE f == [i \in 1..n |-> IF i = 1 THEN n ELSE from[i - 1]]
  <2>1. ASSUME NEW i \in 1..n
        PROVE  (IF i = 1 THEN n ELSE from[i - 1]) \in 1..n
    BY <1>2, <1>3, <1>4
  <2>2. f \in [1..n -> 1..n]
    BY <2>1
  <2>3. f[1] = n /\ \A i \in 2..n : f[i] = from[i - 1]
    BY <1>2
  <2>4. \A i \in 2..n : f[i] < n
    <3> HIDE DEF f
    <3>1. QED
      BY <1>4, <2>3
  <2> HIDE DEF f
  <2>5. QED
    BY <2>2, <2>3, <2>4
<1>6. ASSUME NEW i \in 1..n, NEW j \in 1..n, from2[i] = from2[j]
      PROVE  i = j
  <2>1. CASE i = 1 \/ j = 1
    <3>1. ~(n < n)
      OBVIOUS
    <3>2. QED
      BY <1>3, <1>5, <1>6, <2>1, <3>1
  <2>2. CASE i # 1 /\ j # 1
    <3>1. i \in 2..n /\ j \in 2..n /\ i - 1 \in 1..n /\ j - 1 \in 1..n
      BY <2>2
    <3>2. from[i - 1] = from[j - 1]
      BY <1>5, <1>6, <3>1
    <3>3. i - 1 = j - 1
      BY <1>1, <3>1, <3>2
    <3>4. QED
      BY <3>3
  <2>3. QED
    BY <2>1, <2>2
<1>7. ASSUME NEW m \in 1..n
      PROVE  \E i \in 1..n : from2[i] = m
  <2>1. CASE m = n
    BY <1>2, <1>5, <2>1
  <2>2. CASE m # n
    <3>1. PICK i \in 1..n : from[i] = m
      BY <1>1
    <3>2. i # n
      BY <2>2, <3>1
    <3>3. PICK j \in 2..n : j - 1 = i /\ j \in 1..n
      <4>1. i + 1 \in 2..n /\ i + 1 - 1 = i /\ i + 1 \in 1..n
        BY <3>2
      <4>2. QED
        BY <4>1
    <3>4. from2[j] = m
      BY <1>5, <3>1, <3>3
    <3>5. QED
      BY <3>3, <3>4
  <2>3. QED
    BY <2>1, <2>2
<1>8. from2 \in Bijection(1..n, 1..n)
  BY <1>2, <1>6, <1>7, BijectionIs
<1>9. QED
  BY <1>5, <1>8

LEMMA NothingIsTraced ==
  ASSUME NEW ms, ms = <<>>, NEW objects
  PROVE  \E from : Traces(ms, objects, from) /\ InOrder(ms, from, Len(ms))
<1>1. PICK n : n = 0
  OBVIOUS
<1>2. Len(ms) = n /\ n \in Nat
  BY <1>1, EmptySeq
<1>3. PICK from : from = [i \in 1..n |-> i]
  OBVIOUS
<1>4. from \in Bijection(1..n, 1..n)
  <2>1. /\ from \in [1..n -> 1..n]
        /\ \A i, j \in 1..n : from[i] = from[j] => i = j
        /\ \A m \in 1..n : \E i \in 1..n : from[i] = m
    BY <1>1, <1>3
  <2>2. QED
    BY <1>2, <2>1, BijectionIs
<1>5. QED
  BY <1>1, <1>2, <1>4 DEF Traces, InOrder

\* What each callback does to the n measurements and the objects of the text.
Begun(n, ms, objects, ms2, objects2) ==
  /\ Len(ms) = n /\ Len(ms2) = n + 1
  /\ \A i \in 1..n : ms2[i] = ms[i] /\ objects2[i] = objects[i]
  /\ ms2[n + 1] = NewMeasurement /\ objects2[n + 1] = <<>>

Valued(n, k, token, ms, objects, ms2, objects2) ==
  /\ Len(ms) = n /\ Len(ms2) = n /\ objects[n] \in Seq(Scalar)
  /\ Matches[k] \in Entries /\ ~Objects(Matches[k], ms[n], token)
  /\ \A i \in 1..(n - 1) : ms2[i] = ms[i] /\ objects2[i] = objects[i]
  /\ ms2[n] = Updated(Matches[k], ms[n], token)
  /\ objects2[n] = Longer(objects[n], k, token)

Ended(n, ms, ms2) ==
  /\ Len(ms) = n /\ Len(ms2) = n
  /\ ~IsTimestamp(ms[n]) => ms2 = ms
  /\ IsTimestamp(ms[n]) => ms2[1] = ms[n] /\ \A i \in 2..n : ms2[i] = ms[i - 1]

\* A new measurement is told by the new object.
LEMMA BeginIsTraced ==
  ASSUME NEW ms, NEW objects, NEW n \in Nat,
         NEW from, Traces(ms, objects, from),
         NEW ms2, NEW objects2, Begun(n, ms, objects, ms2, objects2)
  PROVE  \E from2 : /\ Traces(ms2, objects2, from2) /\ from2[n + 1] = n + 1
                    /\ InOrder(ms, from, n) => InOrder(ms2, from2, n)
<1> USE DEF Begun
<1>1. /\ from \in Bijection(1..n, 1..n) /\ from \in [1..n -> 1..n]
      /\ \A i \in 1..n : ms[i] = Told(objects[from[i]]) /\ OnceEach(objects[i])
  BY BijectionIs DEF Traces
<1>2. PICK from2 \in Bijection(1..(n + 1), 1..(n + 1)) :
        from2[n + 1] = n + 1 /\ \A i \in 1..n : from2[i] = from[i]
  BY <1>1, BijectionGrows
<1>3. /\ from2 \in Bijection(1..(n + 1), 1..(n + 1))
      /\ from2[n + 1] = n + 1 /\ \A i \in 1..n : from2[i] = from[i]
  BY <1>2
<1>4. ASSUME NEW i \in 1..(n + 1)
      PROVE  ms2[i] = Told(objects2[from2[i]])
  <2>1. CASE i = n + 1
    BY <1>3, <2>1, NothingIsTold
  <2>2. CASE i # n + 1
    <3>1. i \in 1..n
      BY <2>2
    <3>2. from[i] \in 1..n
      BY <1>1, <3>1
    <3>3. QED
      BY <1>1, <1>3, <3>1, <3>2
  <2>3. QED
    BY <2>1, <2>2
<1>5. InOrder(ms, from, n) => InOrder(ms2, from2, n)
  BY <1>3 DEF InOrder
<1>6. ASSUME NEW i \in 1..(n + 1)
      PROVE  OnceEach(objects2[i])
  <2>1. CASE i = n + 1
    BY <2>1, NothingIsOnce
  <2>2. CASE i # n + 1
    BY <1>1, <2>2
  <2>3. QED
    BY <2>1, <2>2
<1>7. QED
  BY <1>3, <1>4, <1>5, <1>6 DEF Traces

\* A scalar of the last object changes the last measurement.
LEMMA ValueIsTraced ==
  ASSUME NEW ms, NEW objects, NEW n \in Nat \ {0},
         NEW from, Traces(ms, objects, from), from[n] = n,
         NEW k \in Keys, NEW token \in Token,
         NEW ms2, NEW objects2, Valued(n, k, token, ms, objects, ms2, objects2)
  PROVE  /\ Traces(ms2, objects2, from)
         /\ InOrder(ms, from, n - 1) => InOrder(ms2, from, n - 1)
<1> USE DEF Valued
<1>1. /\ from \in Bijection(1..n, 1..n) /\ from \in [1..n -> 1..n]
      /\ \A i, j \in 1..n : from[i] = from[j] => i = j
      /\ \A i \in 1..n : ms[i] = Told(objects[from[i]]) /\ OnceEach(objects[i])
  BY BijectionIs DEF Traces
<1>2. n \in 1..n
  OBVIOUS
<1>3. ms[n] = Told(objects[n])
  BY <1>1, <1>2
<1>4. ms2[n] = Told(objects2[n])
  BY <1>3, ToldIsUpdated
<1>5. ASSUME NEW i \in 1..n
      PROVE  ms2[i] = Told(objects2[from[i]])
  <2>1. CASE i = n
    BY <1>4, <2>1
  <2>2. CASE i # n
    <3>1. from[i] # n /\ from[i] \in 1..n
      BY <1>1, <1>2, <2>2
    <3>2. i \in 1..(n - 1) /\ from[i] \in 1..(n - 1)
      BY <2>2, <3>1
    <3>3. QED
      BY <1>1, <3>2
  <2>3. QED
    BY <2>1, <2>2
<1>6. InOrder(ms, from, n - 1) => InOrder(ms2, from, n - 1)
  BY DEF InOrder
<1>7. OnceEach(objects2[n])
  BY <1>1, <1>2, <1>3, OnceLasts
<1>8. ASSUME NEW i \in 1..n PROVE OnceEach(objects2[i])
  BY <1>1, <1>7
<1>9. QED
  BY <1>1, <1>5, <1>6, <1>8 DEF Traces

\* The last measurement comes first if it is a timestamp, or else stays.
LEMMA MovedAt ==
  ASSUME NEW S, NEW ms \in Seq(S), ms # <<>>
  PROVE  /\ Len(ms) \in Nat \ {0} /\ Len(Moved(ms)) = Len(ms) /\ Last(ms) = ms[Len(ms)]
         /\ ~IsTimestamp(Last(ms)) => Moved(ms) = ms
         /\ IsTimestamp(Last(ms)) =>
              /\ Moved(ms)[1] = ms[Len(ms)]
              /\ \A i \in 2..Len(ms) : Moved(ms)[i] = ms[i - 1]
<1>1. /\ Len(ms) \in Nat \ {0} /\ Len(Moved(ms)) = Len(ms)
      /\ Front(ms) \in Seq(S) /\ Len(Front(ms)) = Len(ms) - 1
      /\ \A i \in 1..(Len(ms) - 1) : Front(ms)[i] = ms[i]
      /\ Last(ms) \in S /\ Last(ms) = ms[Len(ms)]
  BY FrontProperties, MovedIs
<1>2. ~IsTimestamp(Last(ms)) => Moved(ms) = ms
  BY DEF Moved, IsTimestamp
<1>3. ASSUME IsTimestamp(Last(ms))
      PROVE  /\ Moved(ms)[1] = ms[Len(ms)]
             /\ \A i \in 2..Len(ms) : Moved(ms)[i] = ms[i - 1]
  <2>1. PICK l : l = <<Last(ms)>>
    OBVIOUS
  <2>2. l \in Seq(S) /\ Len(l) = 1 /\ l[1] = ms[Len(ms)]
    BY <1>1, <2>1
  <2>3. Moved(ms) = l \o Front(ms)
    BY <1>3, <2>1 DEF Moved, IsTimestamp
  <2>4. \A i \in 1..Len(l) + Len(Front(ms)) :
          (l \o Front(ms))[i] = IF i <= Len(l) THEN l[i] ELSE Front(ms)[i - Len(l)]
    BY <1>1, <2>2, ConcatProperties
  <2>5. Moved(ms)[1] = ms[Len(ms)]
    BY <1>1, <2>2, <2>3, <2>4
  <2>6. ASSUME NEW i \in 2..Len(ms) PROVE Moved(ms)[i] = ms[i - 1]
    BY <1>1, <2>2, <2>3, <2>4
  <2>7. QED
    BY <2>5, <2>6
<1>4. QED
  BY <1>1, <1>2, <1>3

\* The last measurement takes its place when its object ends.
LEMMA EndIsTraced ==
  ASSUME NEW ms, NEW objects, NEW n \in Nat \ {0},
         NEW from, Traces(ms, objects, from), from[n] = n,
         NEW ms2, Ended(n, ms, ms2)
  PROVE  \E from2 : /\ Traces(ms2, objects, from2)
                    /\ InOrder(ms, from, n - 1) => InOrder(ms2, from2, n)
<1> USE DEF Ended
<1>1. /\ from \in Bijection(1..n, 1..n) /\ from \in [1..n -> 1..n]
      /\ \A i, j \in 1..n : from[i] = from[j] => i = j
      /\ \A i \in 1..n : ms[i] = Told(objects[from[i]]) /\ OnceEach(objects[i])
  BY BijectionIs DEF Traces
<1>2. CASE IsTimestamp(ms[n])
  <2>1. PICK from2 \in Bijection(1..n, 1..n) :
          from2[1] = n /\ \A i \in 2..n : from2[i] = from[i - 1] /\ from2[i] < n
    BY <1>1, BijectionTurns
  <2>2. /\ from2 \in Bijection(1..n, 1..n) /\ from2[1] = n
        /\ \A i \in 2..n : from2[i] = from[i - 1] /\ from2[i] < n
    BY <2>1
  <2>3. ASSUME NEW i \in 1..n
        PROVE  ms2[i] = Told(objects[from2[i]])
    <3>1. CASE i = 1
      <4>1. n \in 1..n
        OBVIOUS
      <4>2. QED
        BY <1>1, <1>2, <2>2, <3>1, <4>1
    <3>2. CASE i # 1
      <4>1. i \in 2..n /\ i - 1 \in 1..n
        BY <3>2
      <4>2. QED
        BY <1>1, <1>2, <2>2, <4>1
    <3>3. QED
      BY <3>1, <3>2
  <2>4. ASSUME InOrder(ms, from, n - 1), NEW i \in 1..n, NEW j \in 1..n, i < j
        PROVE  IF IsTimestamp(ms2[j]) THEN IsTimestamp(ms2[i]) /\ from2[i] > from2[j]
               ELSE IsTimestamp(ms2[i]) \/ from2[i] < from2[j]
    <3>1. j \in 2..n /\ j - 1 \in 1..(n - 1)
      BY <2>4
    <3>2. ms2[j] = ms[j - 1] /\ from2[j] = from[j - 1] /\ from2[j] < n
      BY <1>2, <2>2, <3>1
    <3>3. CASE i = 1
      <4>1. from2[i] = n /\ IsTimestamp(ms2[i])
        BY <1>2, <2>2, <3>3
      <4>2. from2[i] > from2[j]
        <5>1. from[j - 1] \in 1..n
          BY <1>1, <3>1
        <5>2. QED
          BY <3>2, <4>1, <5>1
      <4>3. QED
        BY <4>1, <4>2
    <3>4. CASE i # 1
      <4>1. i \in 2..n /\ i - 1 \in 1..(n - 1) /\ i - 1 < j - 1
        BY <2>4, <3>4
      <4>2. ms2[i] = ms[i - 1] /\ from2[i] = from[i - 1]
        BY <1>2, <2>2, <4>1
      <4>3. IF IsTimestamp(ms[j - 1]) THEN IsTimestamp(ms[i - 1]) /\ from[i - 1] > from[j - 1]
            ELSE IsTimestamp(ms[i - 1]) \/ from[i - 1] < from[j - 1]
        BY <2>4, <3>1, <4>1 DEF InOrder
      <4>4. QED
        BY <3>2, <4>2, <4>3
    <3>5. QED
      BY <3>3, <3>4
  <2>5. InOrder(ms, from, n - 1) => InOrder(ms2, from2, n)
    BY <2>4 DEF InOrder
  <2>6. QED
    BY <1>1, <2>2, <2>3, <2>5 DEF Traces
<1>3. CASE ~IsTimestamp(ms[n])
  <2>1. ASSUME InOrder(ms, from, n - 1), NEW i \in 1..n, NEW j \in 1..n, i < j
        PROVE  IF IsTimestamp(ms[j]) THEN IsTimestamp(ms[i]) /\ from[i] > from[j]
               ELSE IsTimestamp(ms[i]) \/ from[i] < from[j]
    <3>1. i \in 1..(n - 1) /\ n \in 1..n /\ i # n
      BY <2>1
    <3>2. CASE j = n
      <4>1. from[i] # n /\ from[i] \in 1..n
        BY <1>1, <3>1
      <4>2. from[i] < from[j]
        BY <3>2, <4>1
      <4>3. QED
        BY <1>3, <3>2, <4>2
    <3>3. CASE j # n
      <4>1. j \in 1..(n - 1)
        BY <3>3
      <4>2. QED
        BY <2>1, <3>1, <4>1 DEF InOrder
    <3>4. QED
      BY <3>2, <3>3
  <2>2. InOrder(ms, from, n - 1) => InOrder(ms, from, n)
    BY <2>1 DEF InOrder
  <2>3. QED
    BY <1>3, <2>2
<1>4. QED
  BY <1>2, <1>3

\* An object has ended within an object: the text will not be accepted.
Doomed == Two("object", "object") \/ (One("object") /\ completed)

\* The order holds for the measurements whose objects have ended.
Ordered(from) ==
  /\ Traces(data, text, from)
  /\ IF NotInElement THEN Doomed \/ InOrder(data, from, Len(data))
     ELSE from[Len(data)] = Len(data) /\ (Doomed \/ InOrder(data, from, Len(data) - 1))

KeyWaits == hasKey => key \in Keys /\ validator = Matches[key]

Faithful == KeyWaits /\ \E from : Ordered(from)

LEMMA NothingIsFaithful ==
  ASSUME data = <<>>, ~hasKey
  PROVE  Faithful
BY NothingIsTraced DEF Faithful, KeyWaits, Ordered, NotInElement

\* Nothing can begin in a doomed text.
LEMMA ValueIsNotDoomed ==
  ASSUME Typed, Shape, ValueExpected, Len(stack) < 2
  PROVE  ~Doomed
<1>1. ~Two("object", "object")
  BY DEF Two
<1>2. ASSUME One("object"), completed
      PROVE  FALSE
  <2>1. stack # <<>> /\ Last(stack) = "object"
    BY <1>2, EmptySeq DEF One, Last
  <2>2. pending
    BY <2>1 DEF ValueExpected, Innermost
  <2>3. QED
    BY <1>2, <2>1, <2>2 DEF Shape, One, Two
<1>3. QED
  BY <1>1, <1>2 DEF Doomed

LEMMA ObjectBeginIsFaithful ==
  ASSUME Typed, Shape, Faithful, OnObjectBegin
  PROVE  Faithful'
<1>1. /\ Open("object") /\ ValueExpected /\ Len(stack) < 2
      /\ data' = Append(data, NewMeasurement) /\ text' = Append(text, <<>>)
      /\ completed' = FALSE /\ UNCHANGED <<key, hasKey, validator>>
  BY DEF OnObjectBegin, Open
<1>2. ~Doomed
  BY <1>1, ValueIsNotDoomed
<1>3. PICK from : Ordered(from)
  BY DEF Faithful
<1>4. PICK n \in Nat : n = Len(data)
  BY LenProperties DEF Typed
<1>5. /\ Len(data') = n + 1
      /\ \A i \in 1..n : data'[i] = data[i] /\ text'[i] = text[i]
      /\ data'[n + 1] = NewMeasurement /\ text'[n + 1] = <<>>
  <2>1. data \in Seq(Measurement) /\ text \in Seq(Seq(Scalar)) /\ Len(text) = n
    BY <1>4 DEF Typed
  <2>2. <<>> \in Seq(Scalar)
    BY EmptySeq
  <2>3. QED
    BY <1>1, <1>4, <2>1, <2>2, NewMeasurementTyped, AppendProperties
<1>6. PICK from2 : /\ Traces(data', text', from2) /\ from2[n + 1] = n + 1
                   /\ InOrder(data, from, n) => InOrder(data', from2, n)
  <2>1. Traces(data, text, from)
    BY <1>3 DEF Ordered
  <2>2. Begun(n, data, text, data', text')
    BY <1>4, <1>5 DEF Begun
  <2>3. QED
    BY <2>1, <2>2, BeginIsTraced
<1>7. ~NotInElement'
  BY <1>1, <1>4, <1>5, EmptySeq DEF NotInElement
<1>8. Doomed' \/ InOrder(data, from, n)
  <2>1. CASE NotInElement
    BY <1>2, <1>3, <1>4, <2>1 DEF Ordered
  <2>2. CASE ~NotInElement
    <3>1. data # <<>> /\ ~completed /\ outcome = "parsing"
      BY <1>1, <2>2 DEF NotInElement, ValueExpected
    <3>2. One("object")
      BY <1>1, <2>2, <3>1, OpenIs DEF Shape
    <3>3. Two("object", "object")'
      BY <1>1, <3>2, OpenIs
    <3>4. QED
      BY <3>3 DEF Doomed
  <2>3. QED
    BY <2>1, <2>2
<1>9. n + 1 - 1 = n
  OBVIOUS
<1>10. Ordered(from2)'
  BY <1>5, <1>6, <1>7, <1>8, <1>9 DEF Ordered
<1>11. QED
  BY <1>1, <1>10 DEF Faithful, KeyWaits

LEMMA ValueIsFaithful ==
  ASSUME Typed, Shape, Faithful, NEW token \in Token, OnValue(token), ~Reject
  PROVE  Faithful'
<1>1. /\ ~NotInElement /\ hasKey /\ ~Objects(validator, Last(data), token)
      /\ data' = [data EXCEPT ![Len(data)] = Updated(validator, data[Len(data)], token)]
      /\ text' = [text EXCEPT ![Len(text)] = Append(text[Len(text)], [key |-> key, token |-> token])]
      /\ hasKey' = FALSE /\ UNCHANGED <<stack, completed>>
  BY DEF OnValue, Accepts, ForgetKey
<1>2. key \in Keys /\ validator = Matches[key] /\ validator \in Entries
  BY <1>1 DEF Faithful, KeyWaits, Typed
<1>3. PICK from : Ordered(from)
  BY DEF Faithful
<1>4. /\ data \in Seq(Measurement) /\ text \in Seq(Seq(Scalar)) /\ Len(data) = Len(text)
      /\ data' \in Seq(Measurement)
  BY StepKeepsTyped DEF Typed, Step
<1>5. PICK n \in Nat \ {0} : n = Len(data) /\ n = Len(text)
  <2>1. data # <<>>
    BY <1>1 DEF NotInElement
  <2>2. QED
    BY <1>4, <2>1, EmptySeq
<1>6. Last(data) = data[n]
  BY <1>5 DEF Last
<1>7. PICK m : m = Updated(validator, data[n], token)
  OBVIOUS
<1>8. PICK object : object = Longer(text[n], key, token)
  OBVIOUS
<1>9. DOMAIN data = 1..n /\ DOMAIN text = 1..n /\ n \in 1..n
  BY <1>4, <1>5, LenProperties
<1>10. /\ \A i \in 1..(n - 1) : data'[i] = data[i] /\ text'[i] = text[i]
       /\ data'[n] = m /\ text'[n] = object
  <2>1. data' = [data EXCEPT ![n] = m]
    BY <1>1, <1>5, <1>7
  <2>2. text' = [text EXCEPT ![n] = object]
    BY <1>1, <1>5, <1>8 DEF Longer
  <2>3. \A i \in 1..(n - 1) : i \in 1..n /\ i # n
    OBVIOUS
  <2>4. QED
    BY <1>9, <2>1, <2>2, <2>3
<1>11. Len(data') = n
  <2>1. DOMAIN data' = 1..n
    BY <1>1, <1>9
  <2>2. DOMAIN data' = 1..Len(data') /\ Len(data') \in Nat
    BY <1>4, LenProperties
  <2>3. QED
    BY <2>1, <2>2
<1>12. from[n] = n /\ Traces(data, text, from) /\ (Doomed \/ InOrder(data, from, n - 1))
  BY <1>1, <1>3, <1>5 DEF Ordered
<1>13. text[n] \in Seq(Scalar)
  BY <1>4, <1>5, <1>9, ElementOfSeq
<1>14. /\ Traces(data', text', from)
       /\ InOrder(data, from, n - 1) => InOrder(data', from, n - 1)
  <2>1. /\ Matches[key] \in Entries /\ ~Objects(Matches[key], data[n], token)
        /\ data'[n] = Updated(Matches[key], data[n], token)
        /\ text'[n] = Longer(text[n], key, token)
    BY <1>1, <1>2, <1>6, <1>7, <1>8, <1>10
  <2>2. Valued(n, key, token, data, text, data', text')
    BY <1>5, <1>10, <1>11, <1>13, <2>1 DEF Valued
  <2>3. QED
    BY <1>2, <1>12, <2>2, ValueIsTraced
<1>15. ~NotInElement' /\ (Doomed' <=> Doomed)
  BY <1>1, <1>5, <1>11, EmptySeq DEF NotInElement, Doomed, One, Two
<1>16. Ordered(from)'
  BY <1>11, <1>12, <1>14, <1>15 DEF Ordered
<1>17. QED
  BY <1>1, <1>16 DEF Faithful, KeyWaits

LEMMA ObjectEndIsFaithful ==
  ASSUME Typed, Shape, Faithful, OnObjectEnd, ~Reject
  PROVE  Faithful'
<1>1. /\ ~NotInElement /\ data' = Moved(data) /\ completed' = TRUE /\ Close
      /\ UNCHANGED <<key, text, hasKey, validator>>
  BY DEF OnObjectEnd
<1>2. PICK from : Ordered(from)
  BY DEF Faithful
<1>3. data \in Seq(Measurement) /\ data # <<>>
  BY <1>1 DEF Typed, NotInElement
<1>4. PICK n \in Nat \ {0} : n = Len(data)
  BY <1>3, EmptySeq
<1>5. Len(data') = n /\ Ended(n, data, data')
  BY <1>1, <1>3, <1>4, MovedAt DEF Ended
<1>6. from[n] = n /\ Traces(data, text, from) /\ (Doomed \/ InOrder(data, from, n - 1))
  BY <1>1, <1>2, <1>4 DEF Ordered
<1>7. PICK from2 : /\ Traces(data', text, from2)
                   /\ InOrder(data, from, n - 1) => InOrder(data', from2, n)
  BY <1>4, <1>5, <1>6, EndIsTraced
<1>8. NotInElement'
  BY <1>1 DEF NotInElement
<1>9. Doomed => Doomed'
  <2>1. ASSUME Two("object", "object") PROVE One("object")'
    BY <1>1, <2>1, CloseIs
  <2>2. QED
    BY <1>1, <2>1 DEF Doomed, NotInElement
<1>10. Ordered(from2)'
  BY <1>1, <1>5, <1>6, <1>7, <1>8, <1>9 DEF Ordered
<1>11. QED
  BY <1>1, <1>10 DEF Faithful, KeyWaits

LEMMA InitFaithful == Init => Faithful
BY NothingIsFaithful DEF Init

LEMMA StepKeepsFaithful == Typed /\ Shape /\ Faithful /\ Step => Faithful'
<1> SUFFICES ASSUME Typed, Shape, Faithful, Step PROVE Faithful'
  OBVIOUS
<1>1. ASSUME data' = <<>>, hasKey' = FALSE PROVE Faithful'
  <2>1. PICK from : Traces(data', text', from) /\ InOrder(data', from, Len(data'))
    BY <1>1, NothingIsTraced
  <2>2. Ordered(from)'
    BY <1>1, <2>1 DEF Ordered, NotInElement
  <2>3. QED
    BY <1>1, <2>2 DEF Faithful, KeyWaits
<1>2. CASE Reject
  BY <1>1, <1>2 DEF Reject
<1>3. ASSUME ~Doomed, UNCHANGED <<data, text, completed, key, hasKey, validator>>
      PROVE  Faithful'
  <2>1. PICK from : Ordered(from)
    BY DEF Faithful
  <2>2. Ordered(from)'
    BY <1>3, <2>1 DEF Ordered, NotInElement
  <2>3. QED
    BY <1>3, <2>2 DEF Faithful, KeyWaits
<1>4. CASE BeginArray
  <2>1. ~Doomed
    BY <1>4, ValueIsNotDoomed DEF BeginArray, Open
  <2>2. QED
    BY <1>3, <1>4, <2>1 DEF BeginArray, stateVars
<1>5. CASE EndArray
  <2>1. stack[Len(stack)] = "array"
    BY <1>5 DEF EndArray, Innermost, Last
  <2>2. ~Doomed
    BY <2>1 DEF Doomed, One, Two
  <2>3. QED
    BY <1>3, <1>5, <2>2 DEF EndArray, stateVars
<1>6. CASE OnObjectBegin
  BY <1>6, ObjectBeginIsFaithful
<1>7. ASSUME NEW k \in Keys, OnKey(k), ~Reject
      PROVE  Faithful'
  <2>1. /\ UNCHANGED <<stack, text, data, completed>>
        /\ key' = k /\ validator' = Matches[k]
    BY <1>7 DEF OnKey
  <2>2. PICK from : Ordered(from)
    BY DEF Faithful
  <2>3. Ordered(from)'
    BY <2>1, <2>2 DEF Ordered, NotInElement, Doomed, One, Two
  <2>4. QED
    BY <2>1, <2>3 DEF Faithful, KeyWaits
<1>8. ASSUME NEW token \in Token, OnValue(token), ~Reject
      PROVE  Faithful'
  BY <1>8, ValueIsFaithful
<1>9. CASE OnObjectEnd /\ ~Reject
  BY <1>9, ObjectEndIsFaithful
<1>10. CASE UNCHANGED vars
  <2>1. UNCHANGED <<stack, data, text, completed, key, hasKey, validator>>
    BY <1>10 DEF vars, textVars, stateVars
  <2>2. PICK from : Ordered(from)
    BY DEF Faithful
  <2>3. Ordered(from)'
    BY <2>1, <2>2 DEF Ordered, NotInElement, Doomed, One, Two
  <2>4. QED
    BY <2>1, <2>3 DEF Faithful, KeyWaits
<1>11. QED
  BY <1>2, <1>4, <1>5, <1>6, <1>7, <1>8, <1>9, <1>10 DEF Step

LEMMA KindIs ==
  ASSUME NEW type
  PROVE  KindOf(type) \in Kinds
BY DEF KindOf, Kinds

\* What is known of an accepted text.
LEMMA AcceptedIs ==
  ASSUME Typed, Shape, Faithful
  PROVE  AcceptedIsFaithful
<1> SUFFICES ASSUME Accepted, \A i \in DOMAIN text : InFormat(text[i])
             PROVE  Arranged(data, [i \in DOMAIN text |-> Meaning(text[i])])
  BY DEF AcceptedIsFaithful
<1>1. stack = <<>> /\ NotInElement /\ AllComplete
  BY DEF Accepted, Shape
<1>2. PICK from : Ordered(from)
  BY DEF Faithful
<1>3. ~Doomed
  BY <1>1, EmptySeq DEF Doomed, One, Two
<1>4. PICK n \in Nat : n = Len(data)
  BY LenProperties DEF Typed
<1>5. DOMAIN data = 1..n /\ DOMAIN text = 1..n
  BY <1>4, LenProperties DEF Typed
<1>6. /\ from \in Bijection(1..n, 1..n) /\ from \in [1..n -> 1..n]
      /\ \A i \in 1..n : data[i] = Told(text[from[i]]) /\ OnceEach(text[i])
      /\ InOrder(data, from, n)
  <2>1. Traces(data, text, from) /\ InOrder(data, from, n)
    BY <1>1, <1>2, <1>3, <1>4 DEF Ordered
  <2>2. QED
    BY <1>4, <2>1, BijectionIs DEF Traces
<1>7. ASSUME NEW i \in 1..n
      PROVE  data[i] = Meaning(text[from[i]])
  <2>1. data[i] = Told(text[from[i]])
    BY <1>6
  <2>2. data[i].value # Blank
    <3>1. data[i].value.kind = KindOf(data[i].type)
      BY <1>1, <1>4 DEF AllComplete, Complete
    <3>2. data[i].value.kind \in Kinds
      BY <3>1, KindIs
    <3>3. Blank.kind \notin Kinds
      BY DEF Blank, Kinds
    <3>4. QED
      BY <3>2, <3>3
  <2>3. Given(text[from[i]], "VALUE") # {}
    BY <2>1, <2>2 DEF Told, ValueGiven
  <2>4. from[i] \in 1..n /\ InFormat(text[from[i]]) /\ OnceEach(text[from[i]])
    BY <1>5, <1>6
  <2>5. text[from[i]] \in Seq(Scalar)
    BY <1>5, <2>4, LenProperties, ElementOfSeq DEF Typed
  <2>6. QED
    BY <2>1, <2>3, <2>4, <2>5, ToldIsMeaning
<1>8. PICK said : said = [i \in 1..n |-> Meaning(text[i])]
  OBVIOUS
<1>9. /\ DOMAIN said = 1..n
      /\ \A i \in 1..n : data[i] = said[from[i]]
  BY <1>6, <1>7, <1>8
<1>10. Arranged(data, said)
  BY <1>5, <1>6, <1>9 DEF Arranged, InOrder
<1>11. QED
  BY <1>5, <1>8, <1>10

\* The measurements of an accepted text in the format are the ones its objects describe,
\* one for one: no name, type, unit or value gets into another measurement, none is
\* changed, and the timestamps come before the others, in reverse order, though an array
\* calls nothing and a timestamp is moved when its object ends (data_validator.cpp:45,
\* :117): a text in which an object ends within an object, whose measurements would be
\* out of place, is not accepted.
THEOREM AcceptedMeasurementsAreFaithful == Spec => []AcceptedIsFaithful
<1>1. Typed /\ Shape /\ Faithful => AcceptedIsFaithful
  BY AcceptedIs
<1>2. Typed /\ Shape /\ Faithful /\ [Next]_vars => (Typed /\ Shape /\ Faithful)'
  BY NextIsStep, StepKeepsTyped, StepKeepsShape, StepKeepsFaithful
<1>3. QED
  BY InitTyped, InitShape, InitFaithful, <1>1, <1>2, PTL DEF Spec
=============================================================================
