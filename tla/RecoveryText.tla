---------------------------- MODULE RecoveryText ----------------------------
(***************************************************************************)
(* The text of a recovery key: pv_recovery_encode and pv_recovery_decode   *)
(* (src/recovery.c).  The key and a checksum over the vault's identity and *)
(* the key are written in base 32, in groups; a person copies the text, in *)
(* another case, with other separators, with a look-alike for a digit, or  *)
(* with a mistake; and the text is read back for some vault.               *)
(*                                                                         *)
(* The two loops are the code's, bit for bit.  The key has KeyLen bytes    *)
(* and the checksum one; with one byte of each the last group of bits is   *)
(* as incomplete as it is for the 37 bytes of the code.                    *)
(***************************************************************************)
EXTENDS Integers, Sequences, SequencesExt

CONSTANTS
    Keys,           \* the keys, sequences of bytes
    KeyLen,         \* PV_RECOVERY_KEY_BYTES
    VaultIds,
    Checksum,       \* the first byte of BLAKE2b, [VaultIds -> [Keys -> 0..255]]
    Group,          \* the symbols of a group, 5
    MaxSymbols      \* the room for symbols, 80 - 1

RecoveryTextConstants ==
    /\ \A k \in Keys : k \in [1..KeyLen -> 0..255]
    /\ Group \in Nat \ {0} /\ MaxSymbols \in Nat

MaterialLen == KeyLen + 1

(***************************************************************************)
(* Characters: the symbols of the alphabet, upper case, lower case or, for *)
(* 0 and 1, a letter that looks like them; separators; anything else.      *)
(***************************************************************************)
Forms == {"upper", "lower", "alike"}
Symbol(v, form) == [value |-> v, form |-> IF form = "alike" /\ v > 1 THEN "upper" ELSE form]
Dash == [value |-> -1, form |-> "-"]
Space == [value |-> -1, form |-> " "]
Other == [value |-> -1, form |-> "?"]
IsSeparator(c) == c \in {Dash, Space}

VARIABLES
    pc,
    vaultId, key,           \* what is encoded
    buffer, bits, at,       \* the bit buffer of either loop, and where it is
    raw,                    \* the symbols written, or the bytes read
    text, prefix,           \* the text, and whether it starts with PV1R
    intact,                 \* history: the copy has no mistake
    forId,                  \* the vault the text is read for
    status, result,         \* what pv_recovery_decode returns and leaves in key
    starved                 \* history: there was no locked memory

loop == <<buffer, bits, at, raw>>
vars == <<pc, vaultId, key, loop, text, prefix, intact, forId, status, result, starved>>

Material(id, k) == k \o <<Checksum[id][k]>>
NoKey == [i \in 1..KeyLen |-> 0]

Init ==
    /\ pc = "encode" /\ vaultId \in VaultIds /\ key \in Keys
    /\ buffer = 0 /\ bits = 0 /\ at = 0 /\ raw = <<>>
    /\ text = <<>> /\ prefix = TRUE /\ intact = TRUE /\ forId \in VaultIds
    /\ status = "none" /\ result = NoKey /\ starved = FALSE

-----------------------------------------------------------------------------
Shift(b, n) == b * 2^n                              \* 12 bits at most: the buffer is masked
Below(b, n) == b % 2^n

\* A mutant: the last bits are not moved to the top of their symbol.
PadNot(b, n) == b

\* The last symbol is filled up with zero bits.
Pad(b, n) == IF n < 5 THEN Shift(b, 5 - n) ELSE b

\* recovery_secure_alloc fails.
Starve(s) == pc' = "done" /\ status' = s /\ starved' = TRUE

\* pv_recovery_encode finds no memory, for itself or for the checksum.
NoText ==
    /\ pc = "encode" /\ raw = <<>> /\ Starve("SECURE_MEMORY")
    /\ UNCHANGED <<vaultId, key, loop, text, prefix, intact, forId, result>>

\* One turn of base32_encode.
Encode ==
    /\ pc = "encode" /\ (at < MaterialLen \/ bits > 0)
    /\ LET more == bits < 5 /\ at < MaterialLen
           b == IF more THEN Shift(buffer, 8) + Material(vaultId, key)[at + 1] ELSE buffer
           n == IF more THEN bits + 8 ELSE bits
           left == IF n < 5 THEN 0 ELSE n - 5
       IN /\ at' = IF more THEN at + 1 ELSE at
          /\ bits' = left
          /\ raw' = Append(raw, (Pad(b, n) \div 2^left) % 32)
          /\ buffer' = Below(Pad(b, n), left)
    /\ UNCHANGED <<pc, vaultId, key, text, prefix, intact, forId, status, result, starved>>

\* A dash before every group but the first.
Grouped(symbols) ==
    FlattenSeq([i \in DOMAIN symbols |->
                  IF i > 1 /\ (i - 1) % Group = 0
                  THEN <<Dash, Symbol(symbols[i], "upper")>> ELSE <<Symbol(symbols[i], "upper")>>])

Publish ==
    /\ pc = "encode" /\ at = MaterialLen /\ bits = 0
    /\ text' = Grouped(raw) /\ pc' = "copy"
    /\ UNCHANGED <<vaultId, key, loop, prefix, intact, forId, status, result, starved>>

\* A person copies the text: all of it in one form, with the separators kept,
\* left out or changed.
Copied(t, form, how) ==
    LET retyped == [i \in DOMAIN t |-> IF IsSeparator(t[i]) THEN IF how = "space" THEN Space ELSE t[i]
                                       ELSE Symbol(t[i].value, form)]
    IN IF how = "none" THEN SelectSeq(retyped, LAMBDA c : ~IsSeparator(c)) ELSE retyped

\* One mistake: another character, one too many, one left out, the text twice.
Mistakes(t) ==
    LET chars == {Symbol(v, "upper") : v \in 0..31} \cup {Other}
    IN {ReplaceAt(t, i, c) : i \in DOMAIN t, c \in chars}
       \cup {InsertAt(t, i, c) : i \in 1..Len(t) + 1, c \in chars}
       \cup {RemoveAt(t, i) : i \in DOMAIN t} \cup {t \o t}

Values(t) == [i \in DOMAIN t |-> t[i].value]
Symbols(t) == SelectSeq(t, LAMBDA c : ~IsSeparator(c))

Copy ==
    /\ pc = "copy"
    /\ \/ /\ \E form \in Forms, how \in {"same", "none", "space"} : text' = Copied(text, form, how)
          /\ UNCHANGED <<prefix, intact>>
       \/ /\ text' \in Mistakes(text)
          /\ intact' = (Values(Symbols(text')) = Values(Symbols(text)))
          /\ UNCHANGED prefix
       \/ prefix' = FALSE /\ intact' = FALSE /\ UNCHANGED text
    /\ pc' = "start"
    /\ UNCHANGED <<vaultId, key, loop, forId, status, result, starved>>

-----------------------------------------------------------------------------
Fail == pc' = "done" /\ status' = "AUTH" /\ UNCHANGED starved

\* pv_recovery_decode: the key is cleared, the prefix looked for, memory
\* allocated, the separators dropped.
Start ==
    /\ pc = "start"
    /\ result' = NoKey
    /\ \/ ~prefix /\ Fail /\ UNCHANGED <<text, loop>>
       \/ prefix /\ Starve("SECURE_MEMORY") /\ UNCHANGED <<text, loop>>
       \/ prefix /\ Len(Symbols(text)) > MaxSymbols /\ Fail /\ UNCHANGED <<text, loop>>
       \/ /\ prefix /\ Len(Symbols(text)) <= MaxSymbols
          /\ pc' = "decode" /\ text' = Symbols(text)
          /\ buffer' = 0 /\ bits' = 0 /\ at' = 0 /\ raw' = <<>>
          /\ UNCHANGED <<status, starved>>
    /\ UNCHANGED <<vaultId, key, prefix, intact, forId>>

\* One turn of base32_decode.
Decode ==
    /\ pc = "decode" /\ at < Len(text)
    /\ LET v == text[at + 1].value
           b == Shift(buffer, 5) + v
           n == bits + 5
       IN IF v < 0 \/ (n >= 8 /\ Len(raw) >= MaterialLen) THEN Fail /\ UNCHANGED loop
          ELSE /\ at' = at + 1
               /\ IF n >= 8 THEN /\ bits' = n - 8 /\ buffer' = Below(b, n - 8)
                                 /\ raw' = Append(raw, (b \div 2^(n - 8)) % 256)
                  ELSE bits' = n /\ buffer' = b /\ UNCHANGED raw
               /\ UNCHANGED <<pc, status, starved>>
    /\ UNCHANGED <<vaultId, key, text, prefix, intact, forId, result>>

\* A mutant: the bits left over may be anything.
CompleteAnyhow == Len(raw) = MaterialLen

\* All the bytes are there, and the bits left over are zero.
Complete == Len(raw) = MaterialLen /\ (bits = 0 \/ buffer = 0)

\* A mutant: the key stays when the checksum is wrong.
CheckKeepsKey ==
    /\ pc = "decode" /\ at = Len(text)
    /\ IF ~Complete THEN Fail /\ UNCHANGED result
       ELSE LET k == SubSeq(raw, 1, KeyLen)
            IN /\ result' = k
               /\ pc' = "done" /\ status' = (IF raw = Material(forId, k) THEN "OK" ELSE "AUTH")
               /\ UNCHANGED starved
    /\ UNCHANGED <<vaultId, key, loop, text, prefix, intact, forId>>

\* The checksum for this vault; a key that does not have it, or for which there
\* was no memory to compute it, is cleared.
Check ==
    /\ pc = "decode" /\ at = Len(text)
    /\ LET k == SubSeq(raw, 1, KeyLen)
       IN \/ ~Complete /\ Fail /\ UNCHANGED result
          \/ Complete /\ Starve("AUTH") /\ result' = NoKey
          \/ Complete /\ raw # Material(forId, k) /\ Fail /\ result' = NoKey
          \/ /\ Complete /\ raw = Material(forId, k)
             /\ result' = k /\ pc' = "done" /\ status' = "OK" /\ UNCHANGED starved
    /\ UNCHANGED <<vaultId, key, loop, text, prefix, intact, forId>>

Rest == pc = "done" /\ UNCHANGED vars

Next == NoText \/ Encode \/ Publish \/ Copy \/ Start \/ Decode \/ Check \/ Rest

Spec == Init /\ [][Next]_vars

-----------------------------------------------------------------------------
\* Every text that a person copies without a mistake, in whatever case, with
\* whatever separators and look-alikes, gives back the key of its vault, if there
\* is memory.
RoundTrip ==
    pc = "done" /\ intact /\ forId = vaultId /\ ~starved => status = "OK" /\ result = key

\* A text that is accepted is the text of the key it gives, for this vault: its
\* symbols are those pv_recovery_encode writes, no more and no fewer.
Canonical ==
    pc = "done" /\ status = "OK" =>
       LET m == Material(forId, result)
           bit(i) == (m[i \div 8 + 1] \div 2^(7 - (i % 8))) % 2
           at5(s, j) == IF 5 * s + j < 8 * MaterialLen THEN bit(5 * s + j) * 2^(4 - j) ELSE 0
       IN Values(text) = [s \in 1..(8 * MaterialLen + 4) \div 5 |->
                            at5(s - 1, 0) + at5(s - 1, 1) + at5(s - 1, 2) + at5(s - 1, 3) + at5(s - 1, 4)]

\* A text that is refused, at whatever step, leaves no key behind.
RefusedLeavesNoKey == pc = "done" /\ status # "OK" => result = NoKey
=============================================================================
