-------------------------------- MODULE Utf8 --------------------------------
(***************************************************************************)
(* UTF-8 as src/util.c reads it.  The program has two decoders, written    *)
(* apart: pv_utf8_valid, for what is stored, counts the bytes that follow  *)
(* the first; decode_codepoint, for what is shown, counts all of them.     *)
(* Here, too, each has its own tables.                                     *)
(***************************************************************************)
EXTENDS Integers, Sequences, SequencesExt

IsContinuation(b) == b \div 64 = 2
NextBits(value, b) == value * 64 + (b % 64)

-----------------------------------------------------------------------------
(***************************************************************************)
(* pv_utf8_valid.                                                          *)
(***************************************************************************)

\* A mutant: the last first byte is missing.
ContinuationShort(first) ==
    CASE first \in 194..223 -> 1 [] first \in 224..239 -> 2 [] first \in 240..243 -> 3 [] OTHER -> 0

\* The bytes that must follow a first byte past ASCII, 0 if it can not be first.
Continuation(first) ==
    CASE first \in 194..223 -> 1 [] first \in 224..239 -> 2 [] first \in 240..244 -> 3 [] OTHER -> 0

FirstBits(first, continuation) ==
    CASE continuation = 1 -> first % 32 [] continuation = 2 -> first % 16 [] continuation = 3 -> first % 8

\* A mutant: half of a surrogate pair is a character.
InRangeWithSurrogates(codepoint, continuation) ==
    /\ continuation = 2 => codepoint >= 2048
    /\ continuation = 3 => codepoint >= 65536
    /\ codepoint <= 1114111

\* Neither too long for its value, nor past the last, nor a surrogate.
InRange(codepoint, continuation) ==
    /\ continuation = 2 => codepoint >= 2048
    /\ continuation = 3 => codepoint >= 65536
    /\ codepoint <= 1114111 /\ codepoint \notin 55296..57343

\* The loop, by the number i of bytes it has read.
Utf8Valid(s) ==
    LET from[i \in 0..Len(s)] ==
            \/ i = Len(s)
            \/ s[i + 1] <= 127 /\ from[i + 1]
            \/ LET first == s[i + 1]
                   n == Continuation(first)
                   next == SubSeq(s, i + 2, i + 1 + n)
               IN /\ first > 127 /\ n # 0 /\ n <= Len(s) - (i + 1)
                  /\ \A j \in 1..n : IsContinuation(next[j])
                  /\ InRange(FoldLeft(NextBits, FirstBits(first, n), next), n)
                  /\ from[i + 1 + n]
    IN from[0]

-----------------------------------------------------------------------------
(***************************************************************************)
(* decode_codepoint: the width and the value of the character s starts     *)
(* with, and width 0 if it starts with none.                               *)
(***************************************************************************)
NoCodepoint == [width |-> 0, value |-> 0]

\* A mutant: first bytes of four are taken for three.
LeadOfThree(first) ==
    CASE first \in 194..223 -> [width |-> 2, value |-> first % 32]
      [] first \in 224..244 -> [width |-> 3, value |-> first % 16]
      [] OTHER -> NoCodepoint

Lead(first) ==
    CASE first \in 194..223 -> [width |-> 2, value |-> first % 32]
      [] first \in 224..239 -> [width |-> 3, value |-> first % 16]
      [] first \in 240..244 -> [width |-> 4, value |-> first % 8]
      [] OTHER -> NoCodepoint

\* A mutant: a character of three bytes may have a value that two can hold.
RefusedButOverlong(width, value) ==
    (width = 4 /\ value < 65536) \/ value > 1114111 \/ value \in 55296..57343

Refused(width, value) ==
    \/ width = 3 /\ value < 2048
    \/ width = 4 /\ value < 65536
    \/ value > 1114111 \/ value \in 55296..57343

DecodeCodepoint(s) ==
    CASE s = <<>> -> NoCodepoint
      [] s # <<>> /\ s[1] <= 127 -> [width |-> 1, value |-> s[1]]
      [] OTHER ->
            LET lead == Lead(s[1])
                rest == SubSeq(s, 2, lead.width)
                value == FoldLeft(NextBits, lead.value, rest)
            IN IF lead.width = 0 \/ lead.width > Len(s) THEN NoCodepoint
               ELSE IF \E k \in DOMAIN rest : ~IsContinuation(rest[k]) THEN NoCodepoint
               ELSE IF Refused(lead.width, value) THEN NoCodepoint
               ELSE [width |-> lead.width, value |-> value]
=============================================================================
