------------------------- MODULE SerializationProofs -------------------------
(***************************************************************************)
(* A copy of the measurements of an accepted text, written by ToJson and    *)
(* read back, for texts and lists of any length.                            *)
(*                                                                          *)
(* Reading back is parsing a text, so what DataValidatorProofs shows holds  *)
(* of the copy too: its measurements are what its objects say, in order.    *)
(* What is left is what the objects say: the measurements they were written *)
(* from.                                                                    *)
(***************************************************************************)
EXTENDS Serialization, DataValidatorProofs

-----------------------------------------------------------------------------
(* The text. *)

NoText == ""

HasUnit(m) == m.unit # NoText

\* Where the text of an object has the VALUE.
ValuePlace(m) == IF HasUnit(m) THEN 9 ELSE 7

Key(k) == [event |-> "key", key |-> k]

Str(t) == [kind |-> "string", text |-> t, num |-> 0]

LEMMA TypeIsRead ==
  ASSUME NEW type \in Types, type # "kNotSet"
  PROVE  TypeToString(type) \in Strings /\ TypeOf(TypeToString(type)) = type
<1>1. PICK name \in DOMAIN TypeNames : type = TypeNames[name]
  BY DEF Types, Range
<1>2. name \in {"STRING", "INTEGER", "INT", "FLOAT", "LONG", "DOUBLE", "BOOL", "WORD",
                "TIMESTAMP", "REF", "FOREIGN_KEY"}
  BY DEF TypeNames
<1>3. type \in {"kString", "kInteger", "kFloat", "kLong", "kDouble", "kBool", "kWord",
                "kTimestamp", "kRef", "kForeignKey"}
  BY <1>1, <1>2 DEF TypeNames
<1>4. TypeToString(type) \in {TypeTexts[t] : t \in DOMAIN TypeTexts} /\ type \in DOMAIN TypeTexts
  BY <1>3 DEF TypeToString, TypeTexts
<1>5. TypeToString(type) = TypeTexts[type]
  BY <1>4 DEF TypeToString
<1>6. TypeTexts[type] \in DOMAIN TypeNames /\ TypeNames[TypeTexts[type]] = type
  BY <1>3 DEF TypeTexts, TypeNames
<1>7. \A t \in DOMAIN TypeNames : t \in Strings
  BY DEF TypeNames, Strings
<1>8. QED
  BY <1>5, <1>6, <1>7 DEF TypeOf

LEMMA ValueIsWritten ==
  ASSUME NEW value \in Value
  PROVE  /\ ValueToString(value) \in Strings
         /\ value.kind = "string" => Str(ValueToString(value)) = value
<1>1. value \in [kind : Kinds \cup {"blank"}, text : Strings, num : Int]
  BY DEF Value
<1>2. CASE value.kind = "string"
  <2>1. value.num = 0
    BY <1>2 DEF Value
  <2>2. QED
    BY <1>1, <1>2, <2>1 DEF ValueToString, Str
<1>3. CASE value.kind # "string"
  BY <1>1, <1>3 DEF ValueToString, Strings, Kinds
<1>4. QED
  BY <1>2, <1>3

LEMMA ObjectTextIs ==
  ASSUME NEW m
  PROVE  /\ Len(ObjectText(m)) = ValuePlace(m) + 1
         /\ ObjectText(m)[1] = [event |-> "{"]
         /\ ObjectText(m)[2] = Key("NAME")
         /\ ObjectText(m)[3] = [event |-> "value", token |-> Str(m.name)]
         /\ ObjectText(m)[4] = Key("TYPE")
         /\ ObjectText(m)[5] = [event |-> "value", token |-> Str(TypeToString(m.type))]
         /\ HasUnit(m) =>
              /\ ObjectText(m)[6] = Key("UNIT")
              /\ ObjectText(m)[7] = [event |-> "value", token |-> Str(m.unit)]
         /\ ObjectText(m)[ValuePlace(m) - 1] = Key("VALUE")
         /\ ObjectText(m)[ValuePlace(m)] =
              [event |-> "value", token |-> Str(ValueToString(m.value))]
         /\ ObjectText(m)[ValuePlace(m) + 1] = [event |-> "}"]
<1>1. PICK t : t = TypeToString(m.type)
  OBVIOUS
<1>2. PICK v : v = ValueToString(m.value)
  OBVIOUS
<1>3. CASE ~HasUnit(m)
  <2>1. PICK a, b, c, d, e, f, g, h :
            /\ a = [event |-> "{"]
            /\ b = Key("NAME")
            /\ c = [event |-> "value", token |-> Str(m.name)]
            /\ d = Key("TYPE")
            /\ e = [event |-> "value", token |-> Str(t)]
            /\ f = Key("VALUE")
            /\ g = [event |-> "value", token |-> Str(v)]
            /\ h = [event |-> "}"]
    OBVIOUS
  <2>2. ObjectText(m) = <<a>> \o <<b, c>> \o <<d, e>> \o <<>> \o <<f, g>> \o <<h>>
    BY <1>1, <1>2, <1>3, <2>1 DEF ObjectText, Said, Key, Str, HasUnit, NoText
  <2>3. /\ Len(ObjectText(m)) = 8
        /\ ObjectText(m)[1] = a
        /\ ObjectText(m)[2] = b
        /\ ObjectText(m)[3] = c
        /\ ObjectText(m)[4] = d
        /\ ObjectText(m)[5] = e
        /\ ObjectText(m)[6] = f
        /\ ObjectText(m)[7] = g
        /\ ObjectText(m)[8] = h
    BY <2>2
  <2>4. ValuePlace(m) = 7
    BY <1>3 DEF ValuePlace
  <2>5. 7 - 1 = 6 /\ 7 + 1 = 8
    OBVIOUS
  <2>6. QED
    BY <1>1, <1>2, <1>3, <2>1, <2>3, <2>4, <2>5
<1>4. CASE HasUnit(m)
  <2>1. PICK a, b, c, d, e, f, g, h, i, j :
            /\ a = [event |-> "{"]
            /\ b = Key("NAME")
            /\ c = [event |-> "value", token |-> Str(m.name)]
            /\ d = Key("TYPE")
            /\ e = [event |-> "value", token |-> Str(t)]
            /\ f = Key("UNIT")
            /\ g = [event |-> "value", token |-> Str(m.unit)]
            /\ h = Key("VALUE")
            /\ i = [event |-> "value", token |-> Str(v)]
            /\ j = [event |-> "}"]
    OBVIOUS
  <2>2. ObjectText(m) = <<a>> \o <<b, c>> \o <<d, e>> \o <<f, g>> \o <<h, i>> \o <<j>>
    BY <1>1, <1>2, <1>4, <2>1 DEF ObjectText, Said, Key, Str, HasUnit, NoText
  <2>3. /\ Len(ObjectText(m)) = 10
        /\ ObjectText(m)[1] = a
        /\ ObjectText(m)[2] = b
        /\ ObjectText(m)[3] = c
        /\ ObjectText(m)[4] = d
        /\ ObjectText(m)[5] = e
        /\ ObjectText(m)[6] = f
        /\ ObjectText(m)[7] = g
        /\ ObjectText(m)[8] = h
        /\ ObjectText(m)[9] = i
        /\ ObjectText(m)[10] = j
    BY <2>2
  <2>4. ValuePlace(m) = 9
    BY <1>4 DEF ValuePlace
  <2>5. 9 - 1 = 8 /\ 9 + 1 = 10
    OBVIOUS
  <2>6. QED
    BY <1>1, <1>2, <1>4, <2>1, <2>3, <2>4, <2>5
<1>5. QED
  BY <1>3, <1>4

LEMMA ToJsonIs ==
  ASSUME NEW list \in Seq(Measurement)
  PROVE  /\ Len(list) \in Nat /\ Len(ToJson(list)) = Len(list) + 2
         /\ ToJson(list)[1] = <<[event |-> "["]>>
         /\ \A p \in 2..(Len(list) + 1) : ToJson(list)[p] = ObjectText(list[p - 1])
         /\ ToJson(list)[Len(list) + 2] = <<[event |-> "]"]>>
<1>1. PICK n \in Nat : n = Len(list) /\ DOMAIN list = 1..n
  BY LenProperties
<1>2. PICK first : first = <<[event |-> "["]>>
  OBVIOUS
<1>3. PICK last : last = <<[event |-> "]"]>>
  OBVIOUS
<1>4. PICK objects : objects = [i \in 1..n |-> ObjectText(list[i])]
  OBVIOUS
<1>5. PICK S : S = {first, last} \cup {ObjectText(list[i]) : i \in 1..n}
  OBVIOUS
<1>6. PICK f : f = <<first>>
  OBVIOUS
<1>7. PICK l : l = <<last>>
  OBVIOUS
<1>8. f \in Seq(S) /\ Len(f) = 1 /\ f[1] = first
  BY <1>5, <1>6
<1>9. l \in Seq(S) /\ Len(l) = 1 /\ l[1] = last
  BY <1>5, <1>7
<1>10. objects \in Seq(S) /\ Len(objects) = n /\ \A i \in 1..n : objects[i] = ObjectText(list[i])
  <2>1. \A i \in 1..n : ObjectText(list[i]) \in S
    BY <1>5
  <2>2. objects \in [1..n -> S]
    BY <1>4, <2>1
  <2>3. objects \in Seq(S)
    BY <1>1, <2>2, SeqDef
  <2>4. DOMAIN objects = 1..n /\ DOMAIN objects = 1..Len(objects) /\ Len(objects) \in Nat
    BY <2>2, <2>3, LenProperties
  <2>5. QED
    BY <1>4, <2>3, <2>4
<1>11. PICK fo : fo = f \o objects
  OBVIOUS
<1>12. /\ fo \in Seq(S) /\ Len(fo) = 1 + n
       /\ \A i \in 1..(1 + n) : fo[i] = IF i <= 1 THEN f[i] ELSE objects[i - 1]
  <2>1. /\ f \o objects \in Seq(S) /\ Len(f \o objects) = Len(f) + Len(objects)
        /\ \A i \in 1..Len(f) + Len(objects) :
             (f \o objects)[i] = IF i <= Len(f) THEN f[i] ELSE objects[i - Len(f)]
    BY <1>8, <1>10, ConcatProperties
  <2>2. QED
    BY <1>8, <1>10, <1>11, <2>1
<1>13. PICK all : all = fo \o l
  OBVIOUS
<1>14. /\ Len(all) = 1 + n + 1
       /\ \A i \in 1..(1 + n + 1) : all[i] = IF i <= 1 + n THEN fo[i] ELSE l[i - (1 + n)]
  <2>1. /\ fo \o l \in Seq(S) /\ Len(fo \o l) = Len(fo) + Len(l)
        /\ \A i \in 1..Len(fo) + Len(l) :
             (fo \o l)[i] = IF i <= Len(fo) THEN fo[i] ELSE l[i - Len(fo)]
    BY <1>9, <1>12, ConcatProperties
  <2>2. QED
    BY <1>9, <1>12, <1>13, <2>1
<1>15. ToJson(list) = all
  BY <1>1, <1>2, <1>3, <1>4, <1>6, <1>7, <1>11, <1>13 DEF ToJson
<1>16. Len(all) = n + 2 /\ all[1] = first
  BY <1>8, <1>12, <1>14
<1>17. all[n + 2] = last
  BY <1>9, <1>14
<1>18. ASSUME NEW p \in 2..(n + 1)
       PROVE  all[p] = ObjectText(list[p - 1])
  <2>1. p - 1 \in 1..n
    OBVIOUS
  <2>2. all[p] = objects[p - 1]
    BY <1>12, <1>14
  <2>3. QED
    BY <1>10, <2>1, <2>2
<1>19. QED
  BY <1>1, <1>2, <1>3, <1>15, <1>16, <1>17, <1>18

LEMMA ValuePlaceIs ==
  ASSUME NEW m
  PROVE  /\ ValuePlace(m) \in {7, 9}
         /\ ~HasUnit(m) => ValuePlace(m) = 7
         /\ HasUnit(m) => ValuePlace(m) = 9
BY DEF ValuePlace

\* The entry whose value stands at a place, and its text.
EntryAt(m, at) ==
  CASE at = 3 -> "NAME"
    [] at = 5 -> "TYPE"
    [] at = 7 /\ HasUnit(m) -> "UNIT"
    [] OTHER -> "VALUE"

TextAt(m, at) ==
  CASE at = 3 -> m.name
    [] at = 5 -> TypeToString(m.type)
    [] at = 7 /\ HasUnit(m) -> m.unit
    [] OTHER -> ValueToString(m.value)

\* Keys and values take turns.
LEMMA ObjectTextAt ==
  ASSUME NEW m, NEW at \in 2..ValuePlace(m)
  PROVE  \/ /\ at \in {2, 4, 6, 8} /\ at + 1 \in {3, 5, 7, 9} /\ at + 1 <= ValuePlace(m)
            /\ ObjectText(m)[at] = Key(EntryAt(m, at + 1))
         \/ /\ at \in {3, 5, 7, 9}
            /\ ObjectText(m)[at] = [event |-> "value", token |-> Str(TextAt(m, at))]
<1>1. PICK vp \in {7, 9} : vp = ValuePlace(m)
  BY ValuePlaceIs
<1>2. at \in {2, 3, 4, 5, 6, 7, 8, 9}
  BY <1>1
<1>3. /\ ObjectText(m)[2] = Key("NAME")
      /\ ObjectText(m)[3] = [event |-> "value", token |-> Str(m.name)]
      /\ ObjectText(m)[4] = Key("TYPE")
      /\ ObjectText(m)[5] = [event |-> "value", token |-> Str(TypeToString(m.type))]
      /\ HasUnit(m) =>
           /\ ObjectText(m)[6] = Key("UNIT")
           /\ ObjectText(m)[7] = [event |-> "value", token |-> Str(m.unit)]
      /\ ObjectText(m)[vp - 1] = Key("VALUE")
      /\ ObjectText(m)[vp] = [event |-> "value", token |-> Str(ValueToString(m.value))]
  BY <1>1, ObjectTextIs
<1>4. CASE at \in {2, 4}
  <2>1. at + 1 \in {3, 5} /\ at + 1 <= vp
    BY <1>1, <1>4
  <2>2. ObjectText(m)[at] = Key(EntryAt(m, at + 1))
    <3>1. EntryAt(m, 3) = "NAME" /\ EntryAt(m, 5) = "TYPE" /\ 2 + 1 = 3 /\ 4 + 1 = 5
      BY DEF EntryAt
    <3>2. QED
      BY <1>3, <1>4, <3>1
  <2>3. QED
    BY <1>1, <1>4, <2>1, <2>2
<1>5. CASE at \in {3, 5}
  <2>1. TextAt(m, 3) = m.name /\ TextAt(m, 5) = TypeToString(m.type)
    BY DEF TextAt
  <2>2. QED
    BY <1>3, <1>5, <2>1
<1>6. CASE HasUnit(m) /\ at \in {6, 7, 8, 9}
  <2>1. vp = 9 /\ 9 - 1 = 8 /\ 6 + 1 = 7 /\ 8 + 1 = 9 /\ 7 <= 9 /\ 9 <= 9
    BY <1>1, <1>6, ValuePlaceIs
  <2>2. EntryAt(m, 7) = "UNIT" /\ EntryAt(m, 9) = "VALUE"
    BY <1>6 DEF EntryAt
  <2>3. TextAt(m, 7) = m.unit /\ TextAt(m, 9) = ValueToString(m.value)
    BY <1>6 DEF TextAt
  <2>4. QED
    BY <1>1, <1>3, <1>6, <2>1, <2>2, <2>3
<1>7. CASE ~HasUnit(m) /\ at \in {6, 7, 8, 9}
  <2>1. vp = 7 /\ 7 - 1 = 6 /\ 6 + 1 = 7 /\ 7 <= 7 /\ at \in {6, 7}
    BY <1>1, <1>7, ValuePlaceIs
  <2>2. EntryAt(m, 7) = "VALUE"
    BY <1>7 DEF EntryAt
  <2>3. TextAt(m, 7) = ValueToString(m.value)
    BY <1>7 DEF TextAt
  <2>4. QED
    BY <1>1, <1>3, <1>7, <2>1, <2>2, <2>3
<1>8. QED
  BY <1>2, <1>4, <1>5, <1>6, <1>7

LEMMA TextAtTyped ==
  ASSUME NEW m \in Measurement, m.type # "kNotSet", NEW at
  PROVE  Str(TextAt(m, at)) \in Token
<1>1. m.name \in Strings /\ m.unit \in Strings /\ m.type \in Types /\ m.value \in Value
  BY DEF Measurement
<1>2. TextAt(m, at) \in Strings
  BY <1>1, TypeIsRead, ValueIsWritten DEF TextAt
<1>3. QED
  BY <1>2 DEF Str, Token, Kinds

-----------------------------------------------------------------------------
(* What has been read of an object. *)

\* The measurement when the event at a place is the next.
ReadTo(m, at) ==
  [name  |-> IF at > 3 THEN m.name ELSE NoText,
   type  |-> IF at > 5 THEN m.type ELSE "kNotSet",
   unit  |-> IF at > 7 THEN m.unit ELSE NoText,
   value |-> IF at > ValuePlace(m) THEN Str(ValueToString(m.value)) ELSE Blank]

LEMMA NothingIsRead ==
  ASSUME NEW m
  PROVE  ReadTo(m, 2) = NewMeasurement
<1>1. ~(2 > ValuePlace(m)) /\ ~(2 > 3) /\ ~(2 > 5) /\ ~(2 > 7)
  BY ValuePlaceIs
<1>2. QED
  BY <1>1 DEF ReadTo, NewMeasurement, NoText

\* A key changes nothing.
LEMMA KeyIsRead ==
  ASSUME NEW m, NEW at \in {2, 4, 6, 8}, at + 1 <= ValuePlace(m)
  PROVE  ReadTo(m, at + 1) = ReadTo(m, at)
<1>1. /\ at + 1 > 3 <=> at > 3
      /\ at + 1 > 5 <=> at > 5
      /\ at + 1 > 7 <=> at > 7
      /\ ~(at + 1 > ValuePlace(m)) /\ ~(at > ValuePlace(m))
  BY ValuePlaceIs
<1>2. QED
  BY <1>1 DEF ReadTo

\* The validator takes each value, and stores what ReadTo says.
LEMMA ValueIsRead ==
  ASSUME NEW m \in Measurement, Complete(m),
         NEW at \in {3, 5, 7, 9}, at <= ValuePlace(m)
  PROVE  /\ ~Objects(EntryAt(m, at), ReadTo(m, at), Str(TextAt(m, at)))
         /\ Updated(EntryAt(m, at), ReadTo(m, at), Str(TextAt(m, at))) = ReadTo(m, at + 1)
<1>1. m.type # "kNotSet" /\ m.type \in Types
  BY DEF Complete, Measurement
<1>2. /\ \A t : Str(t).kind = "string" /\ Str(t).text = t /\ Stored(Str(t)) = Str(t)
      /\ \A t : Str(t) # Blank
  BY DEF Str, Stored, Blank
<1>3. PICK vp \in {7, 9} : vp = ValuePlace(m)
  BY ValuePlaceIs
<1>4. PICK v : v = Str(ValueToString(m.value))
  OBVIOUS
<1>5. ASSUME NEW x \in {3, 4, 5, 6, 7, 8, 9, 10}
      PROVE  ReadTo(m, x) = [name  |-> IF x > 3 THEN m.name ELSE NoText,
                             type  |-> IF x > 5 THEN m.type ELSE "kNotSet",
                             unit  |-> IF x > 7 THEN m.unit ELSE NoText,
                             value |-> IF x > vp THEN v ELSE Blank]
  BY <1>3, <1>4 DEF ReadTo
<1>6. CASE at = 3
  <2>1. ReadTo(m, 3) = [name |-> NoText, type |-> "kNotSet", unit |-> NoText, value |-> Blank]
    BY <1>3, <1>5
  <2>2. ReadTo(m, 4) = [name |-> m.name, type |-> "kNotSet", unit |-> NoText, value |-> Blank]
    BY <1>3, <1>5
  <2>3. EntryAt(m, 3) = "NAME" /\ TextAt(m, 3) = m.name /\ 3 + 1 = 4
    BY DEF EntryAt, TextAt
  <2>4. ReadTo(m, 3).name = NoText
    BY <2>1
  <2>5. ~Objects("NAME", ReadTo(m, 3), Str(m.name))
    BY <1>2, <2>4 DEF Objects, NoText
  <2>6. Updated("NAME", ReadTo(m, 3), Str(m.name)) = ReadTo(m, 4)
    BY <1>2, <2>1, <2>2 DEF Updated
  <2>7. QED
    BY <1>6, <2>3, <2>5, <2>6
<1>7. CASE at = 5
  <2>1. ReadTo(m, 5) = [name |-> m.name, type |-> "kNotSet", unit |-> NoText, value |-> Blank]
    BY <1>3, <1>5
  <2>2. ReadTo(m, 6) = [name |-> m.name, type |-> m.type, unit |-> NoText, value |-> Blank]
    BY <1>3, <1>5
  <2>3. EntryAt(m, 5) = "TYPE" /\ TextAt(m, 5) = TypeToString(m.type) /\ 5 + 1 = 6
    BY DEF EntryAt, TextAt
  <2>4. TypeOf(TypeToString(m.type)) = m.type
    BY <1>1, TypeIsRead
  <2>5. ReadTo(m, 5).type = "kNotSet"
    BY <2>1
  <2>6. ~Objects("TYPE", ReadTo(m, 5), Str(TypeToString(m.type)))
    BY <1>1, <1>2, <2>4, <2>5 DEF Objects
  <2>7. Updated("TYPE", ReadTo(m, 5), Str(TypeToString(m.type))) = ReadTo(m, 6)
    BY <1>2, <2>1, <2>2, <2>4 DEF Updated
  <2>8. QED
    BY <1>7, <2>3, <2>6, <2>7
<1>8. CASE at = 7 /\ HasUnit(m)
  <2>1. vp = 9
    BY <1>3, <1>8, ValuePlaceIs
  <2>2. ReadTo(m, 7) = [name |-> m.name, type |-> m.type, unit |-> NoText, value |-> Blank]
    BY <1>5, <2>1
  <2>3. ReadTo(m, 8) = [name |-> m.name, type |-> m.type, unit |-> m.unit, value |-> Blank]
    BY <1>5, <2>1
  <2>4. EntryAt(m, 7) = "UNIT" /\ TextAt(m, 7) = m.unit /\ 7 + 1 = 8
    BY <1>8 DEF EntryAt, TextAt
  <2>5. ReadTo(m, 7).unit = NoText
    BY <2>2
  <2>6. ~Objects("UNIT", ReadTo(m, 7), Str(m.unit))
    BY <1>2, <2>5 DEF Objects, NoText
  <2>7. Updated("UNIT", ReadTo(m, 7), Str(m.unit)) = ReadTo(m, 8)
    BY <1>2, <2>2, <2>3 DEF Updated
  <2>8. QED
    BY <1>8, <2>4, <2>6, <2>7
<1>9. CASE at = 9 \/ (~HasUnit(m) /\ at = 7)
  <2>1. at = vp
    BY <1>3, <1>9, ValuePlaceIs
  <2>2. ReadTo(m, vp) = [name |-> m.name, type |-> m.type, unit |-> m.unit, value |-> Blank]
    <3>1. CASE ~HasUnit(m)
      <4>1. vp = 7
        BY <1>3, <3>1, ValuePlaceIs
      <4>2. m.unit = NoText
        BY <3>1 DEF HasUnit
      <4>3. QED
        BY <1>5, <4>1, <4>2
    <3>2. CASE HasUnit(m)
      <4>1. vp = 9
        BY <1>3, <3>2, ValuePlaceIs
      <4>2. QED
        BY <1>5, <4>1
    <3>3. QED
      BY <3>1, <3>2
  <2>3. ReadTo(m, vp + 1) = [name |-> m.name, type |-> m.type, unit |-> m.unit, value |-> v]
    <3>1. vp + 1 \in {8, 10} /\ vp + 1 > vp /\ vp + 1 > 7 /\ vp + 1 > 5 /\ vp + 1 > 3
      BY <1>3
    <3>2. QED
      BY <1>5, <3>1
  <2>4. EntryAt(m, vp) = "VALUE" /\ TextAt(m, vp) = ValueToString(m.value)
    BY <1>3, <1>9, <2>1 DEF EntryAt, TextAt
  <2>5. QED
    BY <1>2, <1>4, <2>1, <2>2, <2>3, <2>4 DEF Objects, Updated, NoText
<1>10. QED
  BY <1>6, <1>7, <1>8, <1>9

\* An object that was read to its end is accepted if the values of its type are
\* strings, and only then; it is then the one that was written.
LEMMA EndIsRead ==
  ASSUME NEW m \in Measurement, Complete(m), NEW r, r = ReadTo(m, ValuePlace(m) + 1)
  PROVE  /\ Invalid(r) => KindOf(m.type) # "string"
         /\ ~Invalid(r) => r = m
<1>1. m.value.kind = KindOf(m.type)
  BY DEF Complete
<1>2. PICK v : v = Str(ValueToString(m.value))
  OBVIOUS
<1>3. r = [name |-> m.name, type |-> m.type, unit |-> m.unit, value |-> v]
  <2>1. /\ ValuePlace(m) + 1 > ValuePlace(m) /\ ValuePlace(m) + 1 > 7
        /\ ValuePlace(m) + 1 > 5 /\ ValuePlace(m) + 1 > 3
    BY ValuePlaceIs
  <2>2. QED
    BY <1>2, <2>1 DEF ReadTo
<1>4. r.value.kind = "string" /\ r.type = m.type
  BY <1>2, <1>3 DEF Str
<1>5. ASSUME KindOf(m.type) = "string"
      PROVE  r = m
  <2>1. m.value \in Value /\ m.value.kind = "string"
    BY <1>1, <1>5 DEF Measurement
  <2>2. v = m.value
    BY <1>2, <2>1, ValueIsWritten
  <2>3. m = [name |-> m.name, type |-> m.type, unit |-> m.unit, value |-> m.value]
    BY DEF Measurement
  <2>4. QED
    BY <1>3, <2>2, <2>3
<1>6. ASSUME KindOf(m.type) = "string"
      PROVE  ~Invalid(m)
  <2>1. m.type # "kInteger" /\ m.type # "kFloat"
    BY <1>6 DEF KindOf
  <2>2. Blank.kind = "blank"
    BY DEF Blank
  <2>3. m.value # Blank
    BY <1>1, <1>6, <2>2
  <2>4. QED
    BY <1>1, <2>1, <2>3 DEF Invalid, Complete
<1>7. ASSUME ~Invalid(r)
      PROVE  KindOf(m.type) = "string"
  BY <1>4, <1>7 DEF Invalid
<1>8. QED
  BY <1>5, <1>6, <1>7

-----------------------------------------------------------------------------
(* The copy. *)

\* The first n objects of the text that is read say what was sent.
Says(n) == \A i \in 1..n : Told(text[i]) = sent[i]

\* Before the text ...
Unread ==
  /\ outcome = "parsing" /\ part = 1 /\ place = 1
  /\ stack = <<>> /\ data = <<>> /\ ~hasKey

\* ... between its objects ...
Between ==
  /\ outcome = "parsing" /\ part \in 2..(Len(sent) + 2) /\ place = 1
  /\ One("array") /\ NotInElement /\ ~hasKey
  /\ Len(data) = part - 2 /\ Says(part - 2)

\* ... within one ...
Within ==
  /\ outcome = "parsing" /\ part \in 2..(Len(sent) + 1)
  /\ place \in 2..(ValuePlace(sent[part - 1]) + 1)
  /\ Two("array", "object") /\ ~NotInElement
  /\ Len(data) = part - 1 /\ Says(part - 2)
  /\ data[part - 1] = ReadTo(sent[part - 1], place)
  /\ hasKey <=> place \in {3, 5, 7, 9}
  /\ hasKey => validator = EntryAt(sent[part - 1], place)

\* ... and behind it.
Finished == outcome = "accepted" /\ Len(data) = Len(sent) /\ Says(Len(sent))

Refused == outcome = "rejected" /\ \E i \in 1..Len(sent) : KindOf(sent[i].type) # "string"

Sent == sent \in Seq(Measurement) /\ \A i \in 1..Len(sent) : Complete(sent[i])

Copied == Sent /\ (sent # Nothing => Unread \/ Between \/ Within \/ Finished \/ Refused)

\* The parser takes an event that the text has at a place.
Takes(e) ==
  \/ e.event = "[" /\ BeginArray
  \/ e.event = "]" /\ EndArray
  \/ e.event = "{" /\ OnObjectBegin
  \/ e.event = "}" /\ OnObjectEnd
  \/ e.event = "key" /\ OnKey(e.key)
  \/ e.event = "value" /\ OnValue(e.token)

LEMMA ReadBackTakes ==
  ASSUME Sent, ReadBack
  PROVE  \E events :
           /\ events = ToJson(sent)[part] /\ Takes(events[place])
           /\ IF place < Len(events) THEN place' = place + 1 /\ part' = part
              ELSE place' = 1 /\ part' = part + 1
           /\ sent' = sent
BY DEF ReadBack, Takes

LEMMA SentLasts ==
  ASSUME sent' = sent
  PROVE  /\ Sent => Sent'
         /\ \A n : (\A i \in 1..n : text'[i] = text[i]) => (Says(n) => Says(n)')
BY DEF Sent, Says

\* The bracket that opens the text.
LEMMA UnreadIsRead ==
  ASSUME Typed, Sent, Unread, ReadBack
  PROVE  Step /\ Between'
<1>1. PICK events : /\ events = ToJson(sent)[part] /\ Takes(events[place])
                    /\ IF place < Len(events) THEN place' = place + 1 /\ part' = part
                       ELSE place' = 1 /\ part' = part + 1
                    /\ sent' = sent
  BY ReadBackTakes
<1>2. PICK n \in Nat : n = Len(sent)
  BY LenProperties DEF Sent
<1>3. events = <<[event |-> "["]>>
  BY <1>1, ToJsonIs DEF Sent, Unread
<1>4. Len(events) = 1 /\ events[1].event = "["
  BY <1>3
<1>5. BeginArray
  BY <1>1, <1>4 DEF Takes, Unread
<1>6. /\ Open("array") /\ UNCHANGED <<data, text, hasKey, completed, outcome>>
  BY <1>5 DEF BeginArray, stateVars
<1>7. place' = 1 /\ part' = 2
  BY <1>1, <1>4 DEF Unread
<1>8. One("array")'
  BY <1>6, OpenIs DEF Unread
<1>9. NotInElement' /\ Len(data') = 0
  BY <1>6, EmptySeq DEF Unread, NotInElement
<1>10. Says(0)'
  BY DEF Says
<1>11. 2 \in 2..(n + 2) /\ 2 - 2 = 0
  BY <1>2
<1>12. Between'
  BY <1>1, <1>2, <1>6, <1>7, <1>8, <1>9, <1>10, <1>11 DEF Between, Unread
<1>13. QED
  BY <1>5, <1>12 DEF Step

\* The object that comes next, or the bracket that closes the text.
LEMMA BetweenIsRead ==
  ASSUME Typed, Sent, Between, ReadBack
  PROVE  Step /\ (Within' \/ Finished')
<1>1. PICK events : /\ events = ToJson(sent)[part] /\ Takes(events[place])
                    /\ IF place < Len(events) THEN place' = place + 1 /\ part' = part
                       ELSE place' = 1 /\ part' = part + 1
                    /\ sent' = sent
  BY ReadBackTakes
<1>2. PICK n \in Nat : n = Len(sent)
  BY LenProperties DEF Sent
<1>3. PICK k \in 0..n : k = part - 2 /\ part = k + 2
  BY <1>2 DEF Between
<1>4. data \in Seq(Measurement) /\ text \in Seq(Seq(Scalar)) /\ Len(data) = k /\ Len(text) = k
  BY <1>3 DEF Typed, Between
<1>5. CASE part = n + 2
  <2>1. events = <<[event |-> "]"]>>
    BY <1>1, <1>2, <1>5, ToJsonIs DEF Sent
  <2>2. Len(events) = 1 /\ events[1].event = "]"
    BY <2>1
  <2>3. EndArray
    BY <1>1, <2>2 DEF Takes, Between
  <2>4. Close /\ UNCHANGED <<data, text>>
    BY <2>3 DEF EndArray, stateVars
  <2>5. outcome' = "accepted"
    BY <2>4, CloseIs DEF Between
  <2>6. k = n
    BY <1>3, <1>5
  <2>7. Says(n)'
    BY <1>1, <1>3, <2>4, <2>6, SentLasts DEF Between
  <2>8. Finished'
    BY <1>1, <1>2, <1>4, <2>4, <2>5, <2>6, <2>7 DEF Finished
  <2>9. QED
    BY <2>3, <2>8 DEF Step
<1>6. CASE part # n + 2
  <2>1. part \in 2..(n + 1) /\ part - 1 = k + 1 /\ k + 1 \in 1..n
    BY <1>3, <1>6
  <2>2. PICK m \in Measurement : m = sent[part - 1] /\ m = sent[k + 1]
    BY <1>2, <2>1, ElementOfSeq DEF Sent
  <2>3. events = ObjectText(m)
    BY <1>1, <1>2, <2>1, <2>2, ToJsonIs DEF Sent
  <2>4. events[1].event = "{"
    <3>1. PICK e : e = "{"
      OBVIOUS
    <3>2. events[1] = [event |-> e]
      BY <3>1, <2>3, ObjectTextIs
    <3>3. events[1].event = e
      BY <3>2
    <3>4. QED
      BY <3>1, <3>3
  <2>5. 1 < Len(events) /\ 2 \in 2..(ValuePlace(m) + 1)
    <3>1. PICK vp \in {7, 9} : vp = ValuePlace(m)
      BY ValuePlaceIs
    <3>2. Len(events) = ValuePlace(m) + 1
      BY <2>3, ObjectTextIs
    <3>3. QED
      BY <3>1, <3>2
  <2>6. OnObjectBegin
    BY <1>1, <2>4 DEF Takes, Between
  <2>7. /\ Open("object") /\ data' = Append(data, NewMeasurement) /\ text' = Append(text, <<>>)
        /\ completed' = FALSE /\ UNCHANGED <<hasKey, outcome>>
    BY <2>6 DEF OnObjectBegin
  <2>8. place' = 2 /\ part' = part
    BY <1>1, <2>5 DEF Between
  <2>9. Two("array", "object")'
    BY <2>7, OpenIs DEF Between
  <2>10. /\ Len(data') = k + 1 /\ data'[k + 1] = NewMeasurement
         /\ \A i \in 1..k : text'[i] = text[i]
    <3>1. <<>> \in Seq(Scalar)
      BY EmptySeq
    <3>2. QED
      BY <1>4, <2>7, <3>1, NewMeasurementTyped, AppendProperties
  <2>11. ~NotInElement'
    <3>1. data' # <<>>
      BY <2>10, EmptySeq
    <3>2. QED
      BY <2>7, <3>1 DEF NotInElement
  <2>12. Says(k)'
    BY <1>1, <1>3, <2>10, SentLasts DEF Between
  <2>13. data'[k + 1] = ReadTo(m, 2)
    BY <2>10, NothingIsRead
  <2>14. ~hasKey' /\ ~(2 \in {3, 5, 7, 9})
    BY <2>7 DEF Between
  <2>15. sent'[part' - 1] = m /\ part' - 1 = k + 1 /\ part' - 2 = k /\ Len(sent') = n
    BY <1>1, <1>2, <1>3, <2>1, <2>2, <2>8
  <2>16. Within'
    BY <2>1, <2>5, <2>7, <2>8, <2>9, <2>10, <2>11, <2>12, <2>13, <2>14, <2>15
       DEF Within, Between
  <2>17. QED
    BY <2>6, <2>16 DEF Step
<1>7. QED
  BY <1>5, <1>6

\* The next key, value or end of an object.
LEMMA WithinIsRead ==
  ASSUME Typed, Shape, Faithful, Sent, Within, ReadBack
  PROVE  Step /\ (Within' \/ Between' \/ Refused')
<1>1. PICK events : /\ events = ToJson(sent)[part] /\ Takes(events[place])
                    /\ IF place < Len(events) THEN place' = place + 1 /\ part' = part
                       ELSE place' = 1 /\ part' = part + 1
                    /\ sent' = sent
  BY ReadBackTakes
<1>2. PICK n \in Nat : n = Len(sent)
  BY LenProperties DEF Sent
<1>3. PICK k \in 1..n : part = k + 1 /\ part - 1 = k /\ part - 2 = k - 1 /\ part + 1 - 2 = k
  <2>1. part \in 2..(n + 1)
    BY <1>2 DEF Within
  <2>2. part - 1 \in 1..n /\ part = (part - 1) + 1 /\ part - 2 = (part - 1) - 1
        /\ part + 1 - 2 = part - 1
    BY <2>1
  <2>3. QED
    BY <2>2
<1>4. PICK m \in Measurement : m = sent[k] /\ m = sent[part - 1] /\ Complete(m)
  BY <1>2, <1>3, ElementOfSeq DEF Sent
<1>5. PICK vp \in {7, 9} : vp = ValuePlace(m)
  BY ValuePlaceIs
<1>6. place \in 2..(vp + 1)
  BY <1>4, <1>5 DEF Within
<1>7. events = ObjectText(m)
  BY <1>1, <1>2, <1>3, <1>4, ToJsonIs DEF Sent, Within
<1>8. Len(events) = vp + 1
  BY <1>5, <1>7, ObjectTextIs
<1>9. /\ data \in Seq(Measurement) /\ text \in Seq(Seq(Scalar)) /\ Len(data) = k /\ Len(text) = k
      /\ data # <<>> /\ ~completed
  BY <1>3 DEF Typed, Within, NotInElement
<1>10. Last(data) = data[k] /\ data[k] = ReadTo(m, place)
  BY <1>3, <1>4, <1>9 DEF Last, Within
<1>11. CASE place <= vp
  <2>1. place \in 2..vp /\ place + 1 \in 2..(vp + 1) /\ place < Len(events)
    BY <1>5, <1>6, <1>8, <1>11
  <2>2. place' = place + 1 /\ part' = part /\ sent' = sent
    BY <1>1, <2>1
  <2>3. CASE /\ place \in {2, 4, 6, 8} /\ place + 1 \in {3, 5, 7, 9} /\ place + 1 <= vp
             /\ events[place] = Key(EntryAt(m, place + 1))
    <3>1. PICK entry : entry = EntryAt(m, place + 1)
      OBVIOUS
    <3>2. entry \in Keys /\ Matches[entry] = entry /\ entry # "none"
      <4>1. entry \in {"NAME", "TYPE", "UNIT", "VALUE"}
        BY <3>1 DEF EntryAt
      <4>2. QED
        BY <4>1, SerializationAssumption, ValidatorAssumption DEF Entries
    <3>3. OnKey(entry)
      <4>1. events[place].event = "key" /\ events[place].key = entry
        BY <2>3, <3>1 DEF Key
      <4>2. QED
        BY <1>1, <4>1 DEF Takes
    <3>4. /\ hasKey' = TRUE /\ validator' = entry
          /\ UNCHANGED <<stack, text, data, completed, outcome>>
      BY <3>2, <3>3 DEF OnKey, Within
    <3>5. data'[k] = ReadTo(m, place')
      BY <1>5, <1>10, <2>2, <2>3, <3>4, KeyIsRead
    <3>6. hasKey' <=> place' \in {3, 5, 7, 9}
      BY <2>2, <2>3, <3>4
    <3>7. validator' = EntryAt(m, place')
      BY <2>2, <3>1, <3>4
    <3>8. Says(k - 1)'
      BY <1>3, <2>2, <3>4, SentLasts DEF Within
    <3>9. Two("array", "object")' /\ ~NotInElement' /\ outcome' = "parsing" /\ Len(data') = k
      BY <1>9, <3>4 DEF Within, Two, NotInElement
    <3>10. /\ Len(sent') = n /\ part' \in 2..(n + 1) /\ sent'[part' - 1] = m
           /\ part' - 1 = k /\ part' - 2 = k - 1 /\ place' \in 2..(ValuePlace(m) + 1)
      BY <1>2, <1>3, <1>4, <1>5, <2>1, <2>2
    <3>11. Within'
      BY <3>5, <3>6, <3>7, <3>8, <3>9, <3>10 DEF Within
    <3>12. QED
      BY <3>2, <3>3, <3>11 DEF Step
  <2>4. CASE /\ place \in {3, 5, 7, 9}
             /\ events[place] = [event |-> "value", token |-> Str(TextAt(m, place))]
    <3>1. PICK token \in Token : token = Str(TextAt(m, place))
      BY <1>4, TextAtTyped DEF Complete
    <3>2. PICK entry : entry = EntryAt(m, place)
      OBVIOUS
    <3>3. /\ ~Objects(entry, data[k], token)
          /\ Updated(entry, data[k], token) = ReadTo(m, place + 1)
      BY <1>4, <1>5, <1>10, <1>11, <2>4, <3>1, <3>2, ValueIsRead
    <3>4. hasKey /\ validator = entry
      BY <1>4, <2>4, <3>2 DEF Within
    <3>5. OnValue(token)
      <4>1. events[place].event = "value" /\ events[place].token = token
        BY <2>4, <3>1
      <4>2. QED
        BY <1>1, <4>1 DEF Takes
    <3>6. Accepts(token)
      BY <1>10, <3>3, <3>4 DEF Accepts, Within
    <3>7. /\ data' = [data EXCEPT ![Len(data)] = Updated(validator, data[Len(data)], token)]
          /\ text' = [text EXCEPT ![Len(text)] =
                        Append(text[Len(text)], [key |-> key, token |-> token])]
          /\ hasKey' = FALSE /\ UNCHANGED <<stack, completed, outcome>>
      BY <3>5, <3>6 DEF OnValue, ForgetKey
    <3>8. DOMAIN data = 1..k /\ DOMAIN text = 1..k /\ k \in 1..k
      BY <1>9, LenProperties
    <3>9. /\ data'[k] = ReadTo(m, place')
          /\ \A i \in 1..(k - 1) : text'[i] = text[i]
      <4>1. PICK object : object = Append(text[k], [key |-> key, token |-> token])
        OBVIOUS
      <4>2. data' = [data EXCEPT ![k] = ReadTo(m, place + 1)]
        BY <1>9, <3>3, <3>4, <3>7
      <4>3. text' = [text EXCEPT ![k] = object]
        BY <1>9, <3>7, <4>1
      <4>4. \A i \in 1..(k - 1) : i \in 1..k /\ i # k
        OBVIOUS
      <4>5. QED
        BY <2>2, <3>8, <4>2, <4>3, <4>4
    <3>10. Len(data') = k
      <4>1. DOMAIN data' = 1..k
        BY <3>7, <3>8
      <4>2. data' \in Seq(Measurement)
        BY <3>5, StepKeepsTyped DEF Step, Typed
      <4>3. DOMAIN data' = 1..Len(data') /\ Len(data') \in Nat
        BY <4>2, LenProperties
      <4>4. QED
        BY <4>1, <4>3
    <3>11. ~hasKey' /\ ~(place' \in {3, 5, 7, 9})
      BY <2>2, <2>4, <3>7
    <3>12. Says(k - 1)'
      BY <1>3, <2>2, <3>9, SentLasts DEF Within
    <3>13. Two("array", "object")' /\ ~NotInElement' /\ outcome' = "parsing"
      <4>1. data' # <<>>
        BY <3>10, EmptySeq
      <4>2. QED
        BY <1>9, <3>7, <4>1 DEF Within, Two, NotInElement
    <3>14. /\ Len(sent') = n /\ part' \in 2..(n + 1) /\ sent'[part' - 1] = m
           /\ part' - 1 = k /\ part' - 2 = k - 1 /\ place' \in 2..(ValuePlace(m) + 1)
      BY <1>2, <1>3, <1>4, <1>5, <2>1, <2>2
    <3>15. Within'
      BY <3>9, <3>10, <3>11, <3>12, <3>13, <3>14 DEF Within
    <3>16. QED
      BY <3>5, <3>15 DEF Step
  <2>5. QED
    BY <1>5, <1>7, <2>1, <2>3, <2>4, ObjectTextAt
<1>12. CASE place = vp + 1
  <2>1. events[place].event = "}"
    <3>1. PICK e : e = "}"
      OBVIOUS
    <3>2. events[place] = [event |-> e]
      BY <3>1, <1>5, <1>7, <1>12, ObjectTextIs
    <3>3. events[place].event = e
      BY <3>2
    <3>4. QED
      BY <3>1, <3>3
  <2>2. OnObjectEnd
    BY <1>1, <2>1 DEF Takes
  <2>3. place' = 1 /\ part' = part + 1 /\ sent' = sent
    BY <1>1, <1>6, <1>8, <1>12
  <2>4. CASE Invalid(data[k])
    <3>1. KindOf(m.type) # "string"
      BY <1>4, <1>5, <1>10, <1>12, <2>4, EndIsRead
    <3>2. outcome' = "rejected"
      BY <1>10, <2>2, <2>4 DEF OnObjectEnd, Reject
    <3>3. Refused'
      BY <1>2, <1>4, <2>3, <3>1, <3>2 DEF Refused
    <3>4. QED
      BY <2>2, <3>3 DEF Step
  <2>5. CASE ~Invalid(data[k])
    <3>1. data[k] = m
      BY <1>4, <1>5, <1>10, <1>12, <2>5, EndIsRead
    <3>2. /\ data' = Moved(data) /\ completed' = TRUE /\ Close
          /\ UNCHANGED <<text, hasKey>>
      BY <1>10, <2>2, <2>5 DEF OnObjectEnd, Within
    <3>3. One("array")' /\ outcome' = "parsing"
      BY <3>2, CloseIs DEF Within
    <3>4. NotInElement' /\ Len(data') = k
      BY <1>9, <3>2, MovedIs DEF NotInElement
    <3>5. ~hasKey'
      <4>1. ~(vp + 1 \in {3, 5, 7, 9})
        BY <1>5
      <4>2. QED
        BY <1>12, <3>2, <4>1 DEF Within
    <3>6. Told(text[k]) = m
      <4>1. PICK from : Ordered(from)
        BY DEF Faithful
      <4>2. from[k] = k /\ data[k] = Told(text[from[k]])
        BY <1>9, <4>1 DEF Ordered, Traces, Within
      <4>3. QED
        BY <3>1, <4>2
    <3>7. Says(k)
      <4>1. \A i \in 1..k : i = k \/ i \in 1..(k - 1)
        OBVIOUS
      <4>2. QED
        BY <1>3, <1>4, <3>6, <4>1 DEF Says, Within
    <3>8. Says(k)'
      BY <2>3, <3>2, <3>7, SentLasts
    <3>9. part' \in 2..(n + 2) /\ part' - 2 = k /\ Len(sent') = n
      BY <1>2, <1>3, <2>3
    <3>10. Between'
      BY <2>3, <3>3, <3>4, <3>5, <3>8, <3>9 DEF Between
    <3>11. QED
      BY <2>2, <3>10 DEF Step
  <2>6. QED
    BY <2>4, <2>5
<1>13. QED
  BY <1>5, <1>6, <1>11, <1>12

\* Nothing is read of a text that was accepted or refused.
LEMMA NothingIsReadAgain ==
  ASSUME ReadBack
  PROVE  outcome = "parsing" /\ sent # Nothing
BY DEF ReadBack, BeginArray, EndArray, OnObjectBegin, OnObjectEnd, OnKey, OnValue, ForgetKey,
       ValueExpected, KeyExpected

LEMMA ReadBackKeepsCopied ==
  ASSUME Typed, Shape, Faithful, Copied, ReadBack
  PROVE  Step /\ Copied'
<1>1. outcome = "parsing" /\ sent # Nothing
  BY NothingIsReadAgain
<1>2. Sent /\ (Unread \/ Between \/ Within)
  BY <1>1 DEF Copied, Finished, Refused
<1>3. Sent'
  BY <1>2, SentLasts DEF ReadBack
<1>4. Step /\ (Between' \/ Within' \/ Finished' \/ Refused')
  BY <1>2, UnreadIsRead, BetweenIsRead, WithinIsRead
<1>5. QED
  BY <1>3, <1>4 DEF Copied

-----------------------------------------------------------------------------
(* The theorems. *)

\* The copy starts where every text starts.
LEMMA SendKeeps ==
  ASSUME Typed, Shape, Send
  PROVE  (Typed /\ Shape /\ Faithful /\ Copied)'
<1>1. /\ stack' = <<>> /\ data' = <<>> /\ text' = <<>>
      /\ pending' = FALSE /\ hasKey' = FALSE /\ completed' = FALSE
      /\ key' = "" /\ validator' = "none" /\ outcome' = "parsing"
      /\ sent' = data /\ part' = 1 /\ place' = 1 /\ Accepted
  BY DEF Send
<1>2. Typed'
  <2>1. /\ stack' \in Seq({"object", "array"}) /\ Len(stack') <= 2
        /\ data' \in Seq(Measurement) /\ text' \in Seq(Seq(Scalar)) /\ Len(data') = Len(text')
    BY <1>1, NothingIsTyped
  <2>2. "none" \notin Entries
    BY DEF Entries
  <2>3. QED
    BY <1>1, <2>1, <2>2 DEF Typed
<1>3. Shape'
  BY <1>1 DEF Shape, NotInElement
<1>4. Faithful'
  <2>1. PICK from : Traces(data', text', from) /\ InOrder(data', from, Len(data'))
    BY <1>1, NothingIsTraced
  <2>2. Ordered(from)'
    BY <1>1, <2>1 DEF Ordered, NotInElement
  <2>3. QED
    BY <1>1, <2>2 DEF Faithful, KeyWaits
<1>5. Sent'
  <2>1. AllComplete
    BY <1>1 DEF Accepted, Shape
  <2>2. QED
    BY <1>1, <2>1 DEF Sent, AllComplete, Typed
<1>6. Unread'
  BY <1>1 DEF Unread
<1>7. QED
  BY <1>2, <1>3, <1>4, <1>5, <1>6 DEF Copied

LEMMA InitCopied == InitCopy => Typed /\ Shape /\ Faithful /\ Copied
<1> SUFFICES ASSUME InitCopy
             PROVE  Typed /\ Shape /\ Faithful /\ Copied
  OBVIOUS
<1>1. Init /\ sent = <<>>
  BY DEF InitCopy, Nothing
<1>2. Sent
  BY <1>1, EmptySeq DEF Sent
<1>3. Copied
  BY <1>1, <1>2 DEF Copied, Nothing
<1>4. QED
  BY <1>1, <1>3, InitTyped, InitShape, InitFaithful

LEMMA NextCopied ==
  Typed /\ Shape /\ Faithful /\ Copied /\ [NextCopy]_<<vars, copyVars>>
    => (Typed /\ Shape /\ Faithful /\ Copied)'
<1> SUFFICES ASSUME Typed, Shape, Faithful, Copied, [NextCopy]_<<vars, copyVars>>
             PROVE  (Typed /\ Shape /\ Faithful /\ Copied)'
  OBVIOUS
<1>1. CASE Next /\ sent = Nothing /\ UNCHANGED copyVars
  <2>1. Typed' /\ Shape' /\ Faithful'
    BY <1>1, NextIsStep, StepKeepsTyped, StepKeepsShape, StepKeepsFaithful
  <2>2. Copied'
    BY <1>1, SentLasts DEF Copied, copyVars
  <2>3. QED
    BY <2>1, <2>2
<1>2. CASE Send
  BY <1>2, SendKeeps
<1>3. CASE ReadBack
  <2>1. Step /\ Copied'
    BY <1>3, ReadBackKeepsCopied
  <2>2. QED
    BY <2>1, StepKeepsTyped, StepKeepsShape, StepKeepsFaithful
<1>4. CASE UNCHANGED <<vars, copyVars>>
  <2>1. UNCHANGED vars /\ UNCHANGED <<sent, part, place>>
    BY <1>4 DEF copyVars
  <2>2. Typed' /\ Shape' /\ Faithful'
    BY <2>1, StepKeepsTyped, StepKeepsShape, StepKeepsFaithful DEF Step
  <2>3. UNCHANGED <<stack, text, data, hasKey, validator, completed, outcome>>
    BY <2>1 DEF vars, textVars, stateVars
  <2>4. Copied'
    BY <2>1, <2>3 DEF Copied, Sent, Unread, Between, Within, Finished, Refused, Says,
                      One, Two, NotInElement
  <2>5. QED
    BY <2>2, <2>4
<1>5. QED
  BY <1>1, <1>2, <1>3, <1>4 DEF NextCopy

LEMMA CopiedAlways == SpecCopy => [](Typed /\ Shape /\ Faithful /\ Copied)
BY InitCopied, NextCopied, PTL DEF SpecCopy

\* A copy that was accepted has the measurements that were sent.
LEMMA FinishedIsOriginal ==
  ASSUME Typed, Shape, Faithful, Sent, Finished
  PROVE  Arranged(data, sent)
<1>1. PICK n \in Nat : n = Len(data) /\ n = Len(sent)
  BY LenProperties DEF Typed, Finished
<1>2. DOMAIN data = 1..n /\ DOMAIN sent = 1..n
  BY <1>1, LenProperties DEF Typed, Sent
<1>3. PICK from : Ordered(from)
  BY DEF Faithful
<1>4. ~Doomed /\ NotInElement
  <2>1. stack = <<>> /\ NotInElement
    BY DEF Shape, Finished
  <2>2. QED
    BY <2>1, EmptySeq DEF Doomed, One, Two
<1>5. /\ from \in Bijection(1..n, 1..n) /\ from \in [1..n -> 1..n]
      /\ \A i \in 1..n : data[i] = Told(text[from[i]])
      /\ InOrder(data, from, n)
  <2>1. Traces(data, text, from) /\ InOrder(data, from, n)
    BY <1>1, <1>3, <1>4 DEF Ordered
  <2>2. QED
    BY <1>1, <2>1, BijectionIs DEF Traces
<1>6. \A i \in 1..n : data[i] = sent[from[i]]
  BY <1>1, <1>5 DEF Finished, Says
<1>7. QED
  BY <1>2, <1>5, <1>6 DEF Arranged, InOrder

\* What ToJson writes is read back as it was, but for the order of the timestamps,
\* and is refused only for a type whose values are no strings: the two tables of
\* types agree (measurement.hpp:49, :72), and an object without a
\* unit has the others in their places.
THEOREM CopiesAreOriginals == SpecCopy => []CopyIsOriginal
<1>1. Typed /\ Shape /\ Faithful /\ Copied => CopyIsOriginal
  <2> SUFFICES ASSUME Typed, Shape, Faithful, Copied, sent # Nothing
               PROVE  /\ Accepted => Arranged(data, sent)
                      /\ outcome = "rejected" =>
                           \E i \in DOMAIN sent : KindOf(sent[i].type) # "string"
    BY DEF CopyIsOriginal
  <2>1. Sent /\ (Unread \/ Between \/ Within \/ Finished \/ Refused)
    BY DEF Copied
  <2>2. Accepted => Arranged(data, sent)
    BY <2>1, FinishedIsOriginal DEF Accepted, Unread, Between, Within, Refused
  <2>3. ASSUME outcome = "rejected"
        PROVE  \E i \in DOMAIN sent : KindOf(sent[i].type) # "string"
    <3>1. Refused
      BY <2>1, <2>3 DEF Unread, Between, Within, Finished
    <3>2. DOMAIN sent = 1..Len(sent)
      BY <2>1, LenProperties DEF Sent
    <3>3. QED
      BY <3>1, <3>2 DEF Refused
  <2>4. QED
    BY <2>2, <2>3
<1>2. QED
  BY <1>1, CopiedAlways, PTL

\* A text that was written by ToJson is parsed like any other: the parsing state has
\* its types, and what is accepted is complete and what the text says.
THEOREM CopiesAreParsed == SpecCopy => [](TypeOK /\ AcceptedIsComplete /\ AcceptedIsFaithful)
<1>1. Typed => TypeOK
  BY TypedIsTypeOK
<1>2. Typed /\ Shape => AcceptedIsComplete
  BY ShapeIsComplete
<1>3. Typed /\ Shape /\ Faithful => AcceptedIsFaithful
  BY AcceptedIs
<1>4. QED
  BY <1>1, <1>2, <1>3, CopiedAlways, PTL
=============================================================================
