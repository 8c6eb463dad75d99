--------------------------- MODULE MCTerminalPick ---------------------------
(***************************************************************************)
(* TerminalPick for TLC: three records, so that a query can match all,     *)
(* some, one or none of them.  The first has "a" in two fields and does    *)
(* not match "aa"; the second has that in one field, in mixed case.        *)
(***************************************************************************)
EXTENDS TerminalPick

const_Chars == {"a", "A"}
const_Fold == [c \in const_Chars |-> IF c = "A" THEN "a" ELSE c]
const_Texts == << {<<"a">>, <<"A">>}, {<<"a", "A">>}, {<<>>} >>
=============================================================================
