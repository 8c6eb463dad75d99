----------------------------- MODULE MCOwnFiles -----------------------------
(* OwnFiles with two commands that ask for the same output, and a             *)
(* configuration of two keys and two values: files of up to three lines, of   *)
(* which two are allowed, and an editor.                                      *)
EXTENDS OwnFiles, TLC

CONSTANTS p1, p2
const_Procs == {p1, p2}
Symmetry == Permutations(const_Procs)

const_Keys == {"clipboard_ttl", "picker"}
const_Values == {"v", "w"}
Comment == [key |-> "#", value |-> "none"]
OneLine == [key : const_Keys, value : const_Values \cup {"bad"}]
           \cup {Comment, [key |-> "junk", value |-> "none"]}
const_Starts ==
    {<<>>} \cup [1..1 -> OneLine] \cup [1..2 -> OneLine]
    \cup [1..3 -> {[key |-> "picker", value |-> "v"], Comment}]
=============================================================================
