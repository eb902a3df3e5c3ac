---------------------------- MODULE MCJsonParser ----------------------------
(***************************************************************************)
(* All short texts over the tokens of each part of the grammar, on their   *)
(* own and where the part occurs in an array or an object.                 *)
(***************************************************************************)
EXTENDS JsonParser

Arrays == BoundedSeq({"[", "]", ",", "null", " "}, 6)
Numerals == BoundedSeq({"-", "+", "0", "5", ".", "e"}, 5)
Texts == BoundedSeq({Quote, "a", "escape", "backslash", "control", "utf8", "]"}, 4)
Objects == BoundedSeq({"{", "}", ",", ":", Quote}, 5)
Opening == <<"{", Quote, "a", Quote, ":">>
Rest == BoundedSeq({"true", "[", "]", "}", ",", " "}, 5)
Second == BoundedSeq({Quote, "a", ":", "false", " ", "}"}, 5)

MCInputs ==
  Arrays \cup Objects
    \cup {t \o s : t \in {<<>>, <<"-">>, <<"[">>}, s \in Numerals}
    \cup {t \o s : t \in {<<>>, <<"[", Quote>>, <<"{", Quote, "a", Quote>>}, s \in Texts}
    \cup {Opening \o s : s \in Rest}
    \cup {Opening \o <<"[", "5", "]", ",">> \o s : s \in Second}
=============================================================================
