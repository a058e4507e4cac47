---------------------------- MODULE MCJsonParser ----------------------------
(***************************************************************************)
(* JsonParser for TLC.                                                     *)
(***************************************************************************)
EXTENDS JsonParser

\* All texts of at most two pieces, and some of three; documents that end with
\* the text, before and after it.
ShortTexts ==
  {[pieces |-> p, document |-> n] :
     p \in UNION {[1..k -> {"a", "b", "null"}] : k \in 0..2} \cup {<<"a", "b", "a">>},
     n \in 1..3}
=============================================================================
