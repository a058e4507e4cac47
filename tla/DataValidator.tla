--------------------------- MODULE DataValidator ---------------------------
(***************************************************************************)
(* The validator that turns the JSON text of a data set into measurements  *)
(* (src/parsing/data_validator.cpp), driven by the events of the SAX       *)
(* handler in src/parsing/json_parser.hpp.                                 *)
(*                                                                         *)
(* The text is any JSON text that nests at most two containers, the limit  *)
(* SetOptions gives the parser; it is chosen event by event.  An array     *)
(* opens and closes without a callback: the validator cannot tell its      *)
(* elements from values of the object around it.                           *)
(*                                                                         *)
(* Integers are scaled down: Int32Max and Int64Max are the limits of the   *)
(* two widths.  A token is a scalar as the handler delivers it: its kind,  *)
(* its text when it is a string, its number when it is one.                *)
(***************************************************************************)
EXTENDS Integers, Sequences, SequencesExt

CONSTANTS
  Keys,         (* the keys of the text's objects                          *)
  Matches,      (* [Keys -> Entries \cup {"none"}]: the entry strncmp finds
                   for a key, itself for an entry's own                    *)
  Tokens,       (* Tokens[k]: the scalars the text has for key k, or for no
                   key when k is ""                                        *)
  WordTexts,    (* strings of four hexadecimal digits                      *)
  TimeTexts,    (* strings the ISO 8601 expression matches                 *)
  Int32Max, Int64Max, FloatMax,
  MaxObjects, MaxScalars   (* bounds of the text                           *)

Entries == {"NAME", "TYPE", "UNIT", "VALUE", "DECIMALS"}

\* The table of SetTypeFromString, from names to MeasurementType.
TypeNames ==
  [STRING |-> "kString", INTEGER |-> "kInteger", INT |-> "kInteger",
   FLOAT |-> "kFloat", LONG |-> "kLong", DOUBLE |-> "kDouble", BOOL |-> "kBool",
   WORD |-> "kWord", TIMESTAMP |-> "kTimestamp", REF |-> "kRef",
   FOREIGN_KEY |-> "kForeignKey"]

TypeOf(name) == IF name \in DOMAIN TypeNames THEN TypeNames[name] ELSE "kNotSet"

Kinds == {"string", "int", "double", "bool"}

\* The handler delivers an integer as an int64 or, beyond its limit, as a uint64.
\* A string has no number.
IsToken(token) ==
  /\ token \in [kind : Kinds, text : STRING, num : Int]
  /\ token.kind = "string" => token.num = 0
  /\ token.kind = "int" => token.num \in -(Int64Max + 1)..(2 * Int64Max + 1)

ASSUME ValidatorAssumption ==
  /\ Matches \in [Keys -> Entries \cup {"none"}]
  /\ \A k \in Keys \cap Entries : Matches[k] = k
  /\ DOMAIN Tokens = Keys \cup {""}
  /\ \A k \in DOMAIN Tokens : \A token \in Tokens[k] : IsToken(token)
  /\ Int32Max \in Nat /\ Int64Max \in Nat /\ FloatMax \in Nat
  /\ MaxObjects \in Nat /\ MaxScalars \in Nat

VARIABLES
  stack,      (* the open containers of the text, outermost first          *)
  pending,    (* the innermost object has a key without its value          *)
  key,        (* the key that waits for its value, or ""                   *)
  text,       (* history: the objects so far, each the scalars it gave     *)
  data,       (* state.data_                                               *)
  hasKey,     (* state.has_key_                                            *)
  validator,  (* state.validator_, by the name of its entry                *)
  completed,  (* state.current_element_completed_                          *)
  outcome     (* of the parse                                              *)

textVars  == <<stack, pending, key, text>>
stateVars == <<data, hasKey, validator, completed>>
vars == <<textVars, stateVars, outcome>>

Blank == [kind |-> "blank", text |-> "", num |-> 0]

NewMeasurement == [name |-> "", type |-> "kNotSet", unit |-> "", value |-> Blank]

Init ==
  /\ stack = <<>> /\ pending = FALSE /\ key = "" /\ text = <<>>
  /\ data = <<>> /\ hasKey = FALSE /\ validator = "none" /\ completed = FALSE
  /\ outcome = "parsing"

-----------------------------------------------------------------------------
(* The text. *)

Innermost(container) == stack # <<>> /\ Last(stack) = container

\* A value may come here: the whole text, an element, or the value of a key.
ValueExpected ==
  /\ outcome = "parsing"
  /\ \/ stack = <<>>
     \/ Innermost("array")
     \/ Innermost("object") /\ pending

KeyExpected == outcome = "parsing" /\ Innermost("object") /\ ~pending

Open(container) ==
  /\ Len(stack) < 2
  /\ stack' = Append(stack, container)
  /\ pending' = FALSE

\* Closing the outermost container ends the text, and the parse succeeds.
Close ==
  /\ stack' = Front(stack)
  /\ pending' = FALSE
  /\ outcome' = IF Len(stack) = 1 THEN "accepted" ELSE outcome

\* A ParsingException, or an error_code that makes Add throw one: the parsing
\* state is a variable of Add and goes with it.
Reject ==
  /\ stack' = <<>> /\ pending' = FALSE /\ key' = "" /\ text' = <<>>
  /\ data' = <<>> /\ hasKey' = FALSE /\ validator' = "none" /\ completed' = FALSE
  /\ outcome' = "rejected"

BeginArray ==
  /\ ValueExpected
  /\ Open("array")
  /\ UNCHANGED <<key, text, stateVars, outcome>>

EndArray ==
  /\ outcome = "parsing" /\ Innermost("array")
  /\ Close
  /\ UNCHANGED <<key, text, stateVars>>

\* The text ends early, nests deeper, goes on after its end, or has a null.
SyntaxError ==
  /\ outcome = "parsing"
  /\ Reject

-----------------------------------------------------------------------------
(* Callbacks. *)

OnObjectBegin ==
  /\ ValueExpected
  /\ Len(text) < MaxObjects
  /\ Open("object")
  /\ text' = Append(text, <<>>)
  /\ data' = Append(data, NewMeasurement)
  /\ completed' = FALSE
  /\ UNCHANGED <<key, hasKey, validator, outcome>>

\* A scalar, a key or the end of an object that belongs to no open element.
NotInElement == data = <<>> \/ completed

OnKey(k) ==
  /\ KeyExpected
  /\ \/ /\ NotInElement \/ Matches[k] = "none"
        /\ Reject
     \/ /\ ~NotInElement /\ Matches[k] # "none"
        /\ hasKey' = TRUE
        /\ validator' = Matches[k]
        /\ key' = k
        /\ pending' = TRUE
        /\ UNCHANGED <<stack, text, data, completed, outcome>>

\* BuildParseValidation: what makes an entry's function throw ...
Objects(entry, m, token) ==
  CASE entry = "NAME" -> token.kind # "string" \/ m.name # ""
    [] entry = "TYPE" -> \/ token.kind # "string" \/ m.type # "kNotSet"
                         \/ TypeOf(token.text) = "kNotSet"
    [] entry = "UNIT" -> token.kind # "string" \/ m.unit # ""
    [] entry = "VALUE" -> m.value # Blank
    [] entry = "DECIMALS" -> FALSE

\* Mutant: reads 32 bits of the number.
StoredNarrow(token) ==
  IF token.kind = "int"
  THEN [token EXCEPT !.num = ((@ + Int32Max + 1) % (2 * (Int32Max + 1))) - (Int32Max + 1)]
  ELSE token

\* A uint64 is read as the int64 with the same bits.
Stored(token) ==
  IF token.kind = "int" /\ token.num > Int64Max
  THEN [token EXCEPT !.num = @ - 2 * (Int64Max + 1)]
  ELSE token

\* ... and what it changes otherwise.
Updated(entry, m, token) ==
  CASE entry = "NAME" -> [m EXCEPT !.name = token.text]
    [] entry = "TYPE" -> [m EXCEPT !.type = TypeOf(token.text)]
    [] entry = "UNIT" -> [m EXCEPT !.unit = token.text]
    [] entry = "VALUE" -> [m EXCEPT !.value = Stored(token)]
    [] entry = "DECIMALS" -> m

Accepts(token) ==
  ~NotInElement /\ hasKey /\ ~Objects(validator, Last(data), token)

\* Mutant: the key is not taken for used.
ForgetValidator == validator' = "none" /\ UNCHANGED hasKey

ForgetKey == hasKey' = FALSE /\ validator' = "none"

OnValue(token) ==
  /\ ValueExpected
  /\ \/ /\ ~Accepts(token)
        /\ Reject
     \/ /\ Accepts(token)
        /\ Len(Last(text)) < MaxScalars
        /\ data' = [data EXCEPT ![Len(data)] = Updated(validator, @, token)]
        /\ ForgetKey
        /\ pending' = FALSE
        /\ text' = [text EXCEPT ![Len(text)] = Append(@, [key |-> key, token |-> token])]
        /\ key' = ""
        /\ UNCHANGED <<stack, completed, outcome>>

\* The kind of value OnObjectEnd gets out of the variant for each type.
KindOf(type) ==
  CASE type \in {"kInteger", "kLong"} -> "int"
    [] type \in {"kFloat", "kDouble"} -> "double"
    [] type = "kBool" -> "bool"
    [] OTHER -> "string"

Invalid(m) ==
  \/ m.name = "" \/ m.type = "kNotSet" \/ m.value = Blank
  \/ m.value.kind # KindOf(m.type)
  \/ m.type = "kInteger" /\ m.value.num > Int32Max
  \/ m.type = "kFloat" /\ m.value.num > FloatMax
  \/ m.type = "kWord" /\ m.value.text \notin WordTexts
  \/ m.type = "kTimestamp" /\ m.value.text \notin TimeTexts

\* Mutant: swaps the first and the last measurement.
MovedSwapping(ms) ==
  IF Last(ms).type = "kTimestamp"
  THEN [ms EXCEPT ![1] = Last(ms), ![Len(ms)] = ms[1]] ELSE ms

\* A timestamp moves to the front (std::rotate).
Moved(ms) ==
  IF Last(ms).type = "kTimestamp" THEN <<Last(ms)>> \o Front(ms) ELSE ms

\* Mutant: does not check that the element is still open.
OnObjectEndAgain ==
  /\ KeyExpected
  /\ \/ /\ Invalid(Last(data))
        /\ Reject
     \/ /\ ~Invalid(Last(data))
        /\ data' = Moved(data)
        /\ completed' = TRUE
        /\ Close
        /\ UNCHANGED <<key, text, hasKey, validator>>

OnObjectEnd ==
  /\ KeyExpected
  /\ \/ /\ NotInElement \/ Invalid(Last(data))
        /\ Reject
     \/ /\ ~NotInElement /\ ~Invalid(Last(data))
        /\ data' = Moved(data)
        /\ completed' = TRUE
        /\ Close
        /\ UNCHANGED <<key, text, hasKey, validator>>

Next ==
  \/ BeginArray \/ EndArray \/ SyntaxError
  \/ OnObjectBegin \/ OnObjectEnd
  \/ \E k \in Keys : OnKey(k)
  \/ \E token \in Tokens[key] : OnValue(token)

Spec == Init /\ [][Next]_vars

-----------------------------------------------------------------------------
(* Properties. *)

\* Every variable has its type.
TypeOK ==
  /\ stack \in Seq({"object", "array"}) /\ Len(stack) <= 2
  /\ pending \in BOOLEAN /\ hasKey \in BOOLEAN /\ completed \in BOOLEAN
  /\ key \in Keys \cup {""}
  /\ Len(data) = Len(text)
  /\ \A i \in DOMAIN data :
       /\ data[i].type \in Range(TypeNames) \cup {"kNotSet"}
       /\ data[i].value = Blank \/ data[i].value.kind \in Kinds
       /\ data[i].value.kind = "int" =>
            data[i].value.num \in -(Int64Max + 1)..Int64Max
  /\ validator \in Entries \cup {"none"}
  /\ hasKey <=> validator # "none"
  /\ outcome \in {"parsing", "accepted", "rejected"}

Accepted == outcome = "accepted"

\* Where an object has an entry's key, spelled out.
Positions(object, entry) == {i \in DOMAIN object : object[i].key = entry}

TokenOf(object, entry) == object[CHOOSE i \in Positions(object, entry) : TRUE].token

TextOf(object, entry) ==
  IF Positions(object, entry) = {} THEN "" ELSE TokenOf(object, entry).text

\* The measurement an object describes: a missing unit is an empty one.
Meaning(object) ==
  [name |-> TextOf(object, "NAME"), type |-> TypeOf(TextOf(object, "TYPE")),
   unit |-> TextOf(object, "UNIT"), value |-> TokenOf(object, "VALUE")]

\* Limits of AcceptedIsFaithful, of which each is needed: keys are spelled out
\* (KeysAreEntries), a name or a unit comes once (GivenOnce), and no number is
\* beyond an int64 (NumbersAreKept).
InFormat(object) ==
  /\ \A i \in DOMAIN object :
       /\ object[i].key \in Entries
       /\ object[i].token.kind = "int" => object[i].token.num <= Int64Max
  /\ \A entry \in {"NAME", "UNIT"} :
       \A i, j \in Positions(object, entry) : i = j

IsTimestamp(m) == m.type = "kTimestamp"

\* ms are the measurements of said, one for one: the timestamps in reverse order,
\* before the others in the order of said.
Arranged(ms, said) ==
  \E from \in Bijection(DOMAIN ms, DOMAIN said) :
    /\ \A i \in DOMAIN ms : ms[i] = said[from[i]]
    /\ \A i, j \in DOMAIN ms : i < j =>
         IF IsTimestamp(ms[j]) THEN IsTimestamp(ms[i]) /\ from[i] > from[j]
         ELSE IsTimestamp(ms[i]) \/ from[i] < from[j]

\* The measurements of an accepted text are the ones its objects describe, one for
\* one, none mixed up with another's name, type or value: the others in the order
\* of the text, behind the timestamps in reverse.
AcceptedIsFaithful ==
  Accepted /\ (\A i \in DOMAIN text : InFormat(text[i])) =>
    Arranged(data, [i \in DOMAIN text |-> Meaning(text[i])])

\* Every measurement of an accepted text has been checked to its end, however
\* objects and arrays are nested: a consumer may read value_ as type_ says.
AcceptedIsComplete ==
  Accepted =>
    \A i \in DOMAIN data :
      /\ data[i].name # "" /\ data[i].type # "kNotSet"
      /\ data[i].value.kind = KindOf(data[i].type)
      /\ data[i].type = "kTimestamp" => data[i].value.text \in TimeTexts
      /\ data[i].type = "kWord" => data[i].value.text \in WordTexts

-----------------------------------------------------------------------------
(* What exception.hpp, a comment and a test say of accepted texts. No part of it
   holds on its own. *)

\* A number is refused or stored as it is: "currently no unsigned values are
\* supported" (data_validator.cpp:232), and the test of a uint64 expects the same
\* number (data_validator.test.cpp:385).
NumbersAreKept ==
  Accepted =>
    \A i \in DOMAIN text : \A j \in Positions(text[i], "VALUE") :
      \E m \in Range(data) : m.value = text[i][j].token

\* A second NAME, TYPE, VALUE or UNIT is an error: "Duplicate NAME/TYPE/VALUE/UNIT
\* key" (exception.hpp:58).
GivenOnce ==
  Accepted =>
    \A i \in DOMAIN text : \A entry \in Entries \ {"DECIMALS"} :
      \A j, k \in Positions(text[i], entry) : j = k

\* A key that is no entry's is an error: "Invalid key" (exception.hpp:55).
KeysAreEntries ==
  Accepted =>
    \A i \in DOMAIN text : \A j \in DOMAIN text[i] : text[i][j].key \in Entries

\* An INTEGER beyond an int32, or a FLOAT beyond a float, is an error: "Invalid
\* INTEGER/FLOAT/WORD/TIMESTAMP value" (exception.hpp:54).
NumbersInRange ==
  Accepted =>
    \A m \in Range(data) :
      /\ m.type = "kInteger" => m.value.num \in -(Int32Max + 1)..Int32Max
      /\ m.type = "kFloat" => m.value.num \in -FloatMax..FloatMax

\* What exception.hpp lists as errors is refused, in all its parts.
AcceptedIsInFormat ==
  NumbersAreKept /\ GivenOnce /\ KeysAreEntries /\ NumbersInRange
=============================================================================
