----------------------------- MODULE TextOutput -----------------------------
(***************************************************************************)
(* Showing text on a terminal: pv_text_sanitize, for the picker and the    *)
(* external chooser, and pv_text_fprint, for the commands (src/util.c).    *)
(* Both replace what is not a character or must not reach a terminal by    *)
(* '?'; the first copies character by character into a buffer, the second  *)
(* writes the stretches between replacements.  Both are run on one text,   *)
(* of any bytes.                                                           *)
(***************************************************************************)
EXTENDS Utf8

CONSTANTS
    Alphabet,       \* the bytes a text is made of
    MaxLen          \* bound: the length of a text

TextConstants == Alphabet \subseteq 0..255 /\ MaxLen \in Nat

Replacement == <<63>>                                \* '?'

VARIABLES
    text,
    pc,
    position,       \* input_position, position
    output,         \* pv_text_sanitize's buffer
    safeStart,
    stream          \* what pv_text_fprint has written

vars == <<text, pc, position, output, safeStart, stream>>

Texts == UNION {[1..n -> Alphabet] : n \in 0..MaxLen}

Start == pc = "sanitize" /\ position = 0 /\ output = <<>> /\ safeStart = 0 /\ stream = <<>>
Init == text \in Texts /\ Start

\* A mutant: only the controls of ASCII.
UnsafeInAscii(c) == c <= 31 \/ c = 127

\* display_codepoint_unsafe: controls, directional marks, invisible characters.
Unsafe(c) ==
    \/ c <= 31 \/ c \in 127..159 \/ c = 1564 \/ c \in 8203..8207
    \/ c \in 8232..8238 \/ c \in 8288..8297 \/ c = 65279

Rest == SubSeq(text, position + 1, Len(text))
Width == DecodeCodepoint(Rest).width
Shown == Width # 0 /\ ~Unsafe(DecodeCodepoint(Rest).value)
Skip == IF Width = 0 THEN 1 ELSE Width

\* One turn of pv_text_sanitize.
Sanitize ==
    /\ pc = "sanitize" /\ position < Len(text)
    /\ output' = output \o (IF Shown THEN SubSeq(Rest, 1, Width) ELSE Replacement)
    /\ position' = position + Skip
    /\ UNCHANGED <<text, pc, safeStart, stream>>

Sanitized ==
    /\ pc = "sanitize" /\ position = Len(text)
    /\ pc' = "print" /\ position' = 0
    /\ UNCHANGED <<text, output, safeStart, stream>>

Pending(end) == SubSeq(text, safeStart + 1, end)

\* A mutant: the next stretch starts at the character that was replaced.
AfterReplaced(next) == position

AfterReplacement(next) == next

\* One turn of pv_text_fprint.
Fprint ==
    /\ pc = "print" /\ position < Len(text)
    /\ position' = position + Skip
    /\ IF Shown THEN UNCHANGED <<stream, safeStart>>
       ELSE /\ stream' = stream \o Pending(position) \o Replacement
            /\ safeStart' = AfterReplacement(position + Skip)
    /\ UNCHANGED <<text, pc, output>>

Printed ==
    /\ pc = "print" /\ position = Len(text)
    /\ stream' = stream \o Pending(position)
    /\ pc' = "done"
    /\ UNCHANGED <<text, position, output, safeStart>>

Stay == pc = "done" /\ UNCHANGED vars

Next == Sanitize \/ Sanitized \/ Fprint \/ Printed \/ Stay

Spec == Init /\ [][Next]_vars

-----------------------------------------------------------------------------
(***************************************************************************)
(* The reference: the byte sequences that are characters, as the Unicode   *)
(* standard tabulates them (table 3-7), without arithmetic.                *)
(***************************************************************************)
Tail2 == 128..191
IsCharacter(s) ==
    \/ Len(s) = 1 /\ s[1] \in 0..127
    \/ Len(s) = 2 /\ s[1] \in 194..223 /\ s[2] \in Tail2
    \/ /\ Len(s) = 3 /\ s[3] \in Tail2
       /\ \/ s[1] = 224 /\ s[2] \in 160..191
          \/ s[1] \in (225..236 \cup 238..239) /\ s[2] \in Tail2
          \/ s[1] = 237 /\ s[2] \in 128..159
    \/ /\ Len(s) = 4 /\ s[3] \in Tail2 /\ s[4] \in Tail2
       /\ \/ s[1] = 240 /\ s[2] \in 144..191
          \/ s[1] \in 241..243 /\ s[2] \in Tail2
          \/ s[1] = 244 /\ s[2] \in 128..143

\* The character of such a sequence.
CharacterOf(s) ==
    CASE Len(s) = 1 -> s[1]
      [] Len(s) = 2 -> (s[1] - 192) * 64 + (s[2] - 128)
      [] Len(s) = 3 -> (s[1] - 224) * 4096 + (s[2] - 128) * 64 + (s[3] - 128)
      [] Len(s) = 4 -> (s[1] - 240) * 262144 + (s[2] - 128) * 4096 + (s[3] - 128) * 64 + (s[4] - 128)

\* The bytes of controls: C0, DEL and C1, in the forms a terminal reads them.
IsControl(s) == (Len(s) = 1 /\ (s[1] < 32 \/ s[1] = 127)) \/ (Len(s) = 2 /\ s[1] = 194 /\ s[2] < 160)

IsText(s, ok(_)) ==
    LET from[k \in 1..Len(s) + 1] ==
            k = Len(s) + 1 \/ \E w \in 1..4 : /\ k + w - 1 <= Len(s)
                                             /\ IsCharacter(SubSeq(s, k, k + w - 1))
                                             /\ ok(SubSeq(s, k, k + w - 1))
                                             /\ from[k + w]
    IN from[1]

TypeOK ==
    /\ pc \in {"sanitize", "print", "done"} /\ position \in 0..Len(text)
    /\ safeStart \in 0..position /\ Len(output) <= Len(text)

\* Whatever bytes a stored text has, what is shown is well-formed UTF-8 without
\* a control character.
OutputIsSafe == pc # "sanitize" => IsText(output, LAMBDA c : ~IsControl(c))

\* The two ways to show a text show the same.
SameOutput == pc = "done" => stream = output

\* The two decoders agree, with each other and with the standard: what
\* decode_codepoint takes for a character pv_utf8_valid accepts, where it finds
\* none the text is not valid, and pv_utf8_valid accepts just the sequences of
\* characters.
DecodersAgree ==
    /\ pc = "sanitize" /\ position < Len(text) =>
          IF Width = 0 THEN ~Utf8Valid(text) ELSE Utf8Valid(SubSeq(Rest, 1, Width))
    /\ pc = "done" => Utf8Valid(text) = IsText(text, LAMBDA c : TRUE)

\* A text that is valid and has nothing unsafe is shown as it is.
PlainTextUntouched ==
    pc = "done" /\ IsText(text, LAMBDA c : ~Unsafe(CharacterOf(c))) => output = text
=============================================================================
