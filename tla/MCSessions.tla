----------------------------- MODULE MCSessions -----------------------------
(* Sessions with three tokens, a socket that holds one line, and whatever a *)
(* user may type at the shell.                                              *)
EXTENDS Sessions

CONSTANTS t1, t2, t3
const_Tokens == {t1, t2, t3}
const_Items == {"help", "list", "show", "copy", "lock", "quit", "unknown",
                "long", "part", "longpart", "eof"}
=============================================================================
