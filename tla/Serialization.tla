---------------------------- MODULE Serialization ----------------------------
(***************************************************************************)
(* What Measurement::ToJson writes (include/measurement.hpp), read back by *)
(* the parser and the validator of DataValidator: a consumer hands on the  *)
(* measurements of an entry as a text, and another data source adds them.  *)
(*                                                                         *)
(* ToJson writes an array of objects.  sent are the measurements it was    *)
(* written from; part and place are how far the text has been parsed.      *)
(***************************************************************************)
EXTENDS DataValidator

\* The keys that ToJson writes are among those of the texts.
ASSUME SerializationAssumption == {"NAME", "TYPE", "UNIT", "VALUE"} \subseteq Keys

VARIABLES sent, part, place

copyVars == <<sent, part, place>>

Nothing == <<>>

InitCopy == Init /\ sent = Nothing /\ part = 1 /\ place = 1

-----------------------------------------------------------------------------

\* The table of TypeToString, from MeasurementType to names.
TypeTexts ==
  [kString |-> "STRING", kInteger |-> "INTEGER", kFloat |-> "FLOAT",
   kLong |-> "LONG", kDouble |-> "DOUBLE", kBool |-> "BOOL", kWord |-> "WORD",
   kTimestamp |-> "TIMESTAMP", kRef |-> "REF", kForeignKey |-> "FOREIGN_KEY"]

\* Mutant: the type for points in time is missing from the table.
TypeToStringTimeless(type) ==
  IF type \in DOMAIN TypeTexts \ {"kTimestamp"} THEN TypeTexts[type] ELSE ""

TypeToString(type) == IF type \in DOMAIN TypeTexts THEN TypeTexts[type] ELSE ""

\* ValueToString: strings as they are, the others by std::to_string, which
\* keeps six decimals of a double, or in words.
ValueToString(value) ==
  CASE value.kind = "string" -> value.text
    [] value.kind = "int" -> ToString(value.num)
    [] value.kind = "double" -> ToString(value.num) \o ".000000"
    [] value.kind = "bool" -> IF value.num = 1 THEN "true" ELSE "false"
    [] OTHER -> ""

Said(k, t) == <<[event |-> "key", key |-> k],
                [event |-> "value", token |-> [kind |-> "string", text |-> t, num |-> 0]]>>

\* Mutant: leaves the unit out where the others are.
ObjectWithoutUnit(m) ==
  <<[event |-> "{"]>> \o Said("NAME", m.name) \o Said("TYPE", TypeToString(m.type))
    \o Said("VALUE", ValueToString(m.value)) \o <<[event |-> "}"]>>

\* A unit is written when there is one, a value always as a string.
ObjectText(m) ==
  <<[event |-> "{"]>> \o Said("NAME", m.name) \o Said("TYPE", TypeToString(m.type))
    \o (IF m.unit # "" THEN Said("UNIT", m.unit) ELSE <<>>)
    \o Said("VALUE", ValueToString(m.value)) \o <<[event |-> "}"]>>

\* The events of the text in parts: an object for each measurement, and the
\* brackets around them.
ToJson(list) ==
  << <<[event |-> "["]>> >> \o [i \in DOMAIN list |-> ObjectText(list[i])]
    \o << <<[event |-> "]"]>> >>

-----------------------------------------------------------------------------

\* The measurements of an accepted text are written and given to another Add.
Send ==
  /\ Accepted /\ sent = Nothing /\ data # <<>>
  /\ sent' = data /\ part' = 1 /\ place' = 1
  /\ stack' = <<>> /\ pending' = FALSE /\ key' = "" /\ text' = <<>>
  /\ data' = <<>> /\ hasKey' = FALSE /\ validator' = "none" /\ completed' = FALSE
  /\ outcome' = "parsing"

\* The parser takes the next event of the text.
ReadBack ==
  /\ sent # Nothing /\ part <= Len(ToJson(sent))
  /\ IF place < Len(ToJson(sent)[part])
     THEN place' = place + 1 /\ part' = part
     ELSE place' = 1 /\ part' = part + 1
  /\ LET e == ToJson(sent)[part][place] IN
       \/ e.event = "[" /\ BeginArray
       \/ e.event = "]" /\ EndArray
       \/ e.event = "{" /\ OnObjectBegin
       \/ e.event = "}" /\ OnObjectEnd
       \/ e.event = "key" /\ OnKey(e.key)
       \/ e.event = "value" /\ OnValue(e.token)
  /\ UNCHANGED sent

NextCopy ==
  \/ Next /\ sent = Nothing /\ UNCHANGED copyVars
  \/ Send
  \/ ReadBack

SpecCopy == InitCopy /\ [][NextCopy]_<<vars, copyVars>>

-----------------------------------------------------------------------------
(* Properties. *)

\* The copy that is read back is the original, except that its timestamps are
\* reversed again, if every type is one whose values are strings.  A text with
\* any other value is refused: ToJson writes all values as strings, and the
\* validator takes strings for no number.
CopyIsOriginal ==
  sent # Nothing =>
    /\ Accepted => Arranged(data, sent)
    /\ outcome = "rejected" => \E i \in DOMAIN sent : KindOf(sent[i].type) # "string"
=============================================================================
