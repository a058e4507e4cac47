-------------------------- MODULE MCSerialization --------------------------
(***************************************************************************)
(* Serialization for TLC: the keys and the scalars of the texts.            *)
(***************************************************************************)
EXTENDS Serialization

Str(t)      == [kind |-> "string", text |-> t,  num |-> 0]
Int64(n)    == [kind |-> "int",    text |-> "", num |-> n]
Double(n)   == [kind |-> "double", text |-> "", num |-> n]
True        == [kind |-> "bool",   text |-> "", num |-> 1]

-----------------------------------------------------------------------------
\* One object with every key, a prefix of NAME, and a key that is none; for each
\* key, scalars of the right and of a wrong kind, and values that belong to every
\* type, within, at and beyond the limits 1 (int32), 3 (int64) and 1 (float).
AllKeys    == Entries \cup {"NA", "NAMES"}
AllMatches == [k \in AllKeys |-> CASE k = "NA" -> "NAME"
                                   [] k = "NAMES" -> "none"
                                   [] OTHER -> k]

AllTokens == [k \in AllKeys \cup {""} |->
  CASE k = "NAME"  -> {Str(""), Str("a"), Int64(1)}
    [] k = "TYPE"  -> {Str(t) : t \in {"INT", "LONG", "FLOAT", "BOOL", "WORD", ""}} \cup {True}
    [] k = "UNIT"  -> {Str(""), Str("mm"), Double(1)}
    [] k = "VALUE" -> {Str("0aF9"), Str(""), True, Double(1), Double(2)}
                        \cup {Int64(n) : n \in {-4, 1, 3, 7}}
    [] OTHER       -> {Str("b")}]

-----------------------------------------------------------------------------
\* Several objects, told apart by their names, and timestamps among them.
FewKeys    == {"NAME", "TYPE", "UNIT", "VALUE"}
FewMatches == [k \in FewKeys |-> k]
FewTokens  == [k \in FewKeys \cup {""} |->
  CASE k = "NAME" -> {Str("a"), Str("b")}
    [] k = "UNIT" -> {}
    [] k = "TYPE" -> {Str("STRING"), Str("TIMESTAMP")}
    [] OTHER      -> {Str("a"), Str("2022-01-01T00:00")}]

-----------------------------------------------------------------------------
\* Arranged says what it is meant to, of all short lists: it selects the
\* timestamps and reverses them, and appends the others.
ASSUME ArrangedIsSelected ==
  LET IsOther(m) == ~IsTimestamp(m)
      some == BoundedSeq([name : {"a", "b"}, type : {"kTimestamp", "kRef"}], 3)
  IN \A ms, said \in some :
       Arranged(ms, said) <=>
         ms = Reverse(SelectSeq(said, IsTimestamp)) \o SelectSeq(said, IsOther)

Words == {"0aF9"}
Times == {"2022-01-01T00:00"}
=============================================================================
