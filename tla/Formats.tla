------------------------------- MODULE Formats -------------------------------
(***************************************************************************)
(* What becomes of a record's bytes: the records in their arena (Records), *)
(* the canonical CBOR of the vault (Cbor), the recovery key on paper       *)
(* (RecoveryText) and text on the terminal (TextOutput).  They share no    *)
(* state; a behaviour is about one of them.                                *)
(***************************************************************************)
EXTENDS Records

CONSTANTS
    Vaults, IdLen, TextBytes, ListItems, VaultRecords, MaxPlaintext, Damage,    \* of Cbor
    Keys, KeyLen, VaultIds, Checksum, Group, MaxSymbols,                        \* of RecoveryText
    Alphabet, MaxLen                                                            \* of TextOutput

VARIABLES
    about,          \* which of them
    vault, tokens, bytes, cpc, cstatus, damaged, pos, todo, got, id, ids, cstarved,
    rpc, vaultId, key, buffer, bits, at, raw, text, prefix, intact, forId, rstatus, result, rstarved,
    shown, tpc, position, output, safeStart, stream

C == INSTANCE Cbor WITH
        MaxText <- TextBytes, MaxItems <- ListItems, MaxRecords <- VaultRecords,
        pc <- cpc, status <- cstatus, starved <- cstarved
R == INSTANCE RecoveryText WITH pc <- rpc, status <- rstatus, starved <- rstarved
T == INSTANCE TextOutput WITH pc <- tpc, text <- shown

cborVars == <<vault, tokens, bytes, cpc, cstatus, damaged, pos, todo, got, id, ids, cstarved>>
recoveryVars == <<rpc, vaultId, key, buffer, bits, at, raw, text, prefix, intact, forId,
                  rstatus, result, rstarved>>
textVars == <<shown, tpc, position, output, safeStart, stream>>
formatVars == <<about, vars, cborVars, recoveryVars, textVars>>

\* All of a set for the part a behaviour is about, any element for the others.
For(part, S) == IF about = part THEN S ELSE {CHOOSE x \in S : TRUE}

FormatsInit ==
    /\ about \in {"records", "cbor", "recovery", "text"}
    /\ vault \in For("cbor", Vaults)
    /\ vaultId \in For("recovery", VaultIds) /\ forId \in For("recovery", VaultIds)
    /\ key \in For("recovery", Keys)
    /\ shown \in IF about = "text" THEN T!Texts ELSE {<<>>}
    /\ Init /\ C!Init /\ R!Init /\ T!Start

FormatsNext ==
    /\ UNCHANGED about
    /\ \/ about = "records" /\ Next /\ UNCHANGED <<cborVars, recoveryVars, textVars>>
       \/ about = "cbor" /\ C!Next /\ UNCHANGED <<vars, recoveryVars, textVars>>
       \/ about = "recovery" /\ R!Next /\ UNCHANGED <<vars, cborVars, textVars>>
       \/ about = "text" /\ T!Next /\ UNCHANGED <<vars, cborVars, recoveryVars>>

FormatsSpec == FormatsInit /\ [][FormatsNext]_formatVars

-----------------------------------------------------------------------------
\* The type invariants: the arena never passes its capacity, a decoder never reads
\* past the end, the output has bytes only.
TypesOK == TypeOK /\ C!TypeOK /\ T!TypeOK

\* What pv_cbor_encode wrote pv_cbor_decode reads: every value of every record,
\* whatever its width, comes back, or the status tells that memory is lacking.
\* pv_cbor_decode takes a vault in that form only: no two byte strings mean the same vault, and nothing follows it.  A
\* vault that does not fit the buffer is not written at all.
CborExact == C!RoundTrip /\ C!Canonical /\ C!RefusedIfTooLong

\* Every recovery text that a person copies without a mistake, in whatever
\* case, with whatever separators and look-alikes, gives back the key of its
\* vault, if there is memory.  A text that is accepted has the symbols pv_recovery_encode writes for
\* the key it gives and this vault, no more and no fewer; one that is refused,
\* at whatever step, leaves no key behind.
KeyExact == R!RoundTrip /\ R!Canonical /\ R!RefusedLeavesNoKey

\* Whatever bytes a stored text has, pv_text_sanitize and pv_text_fprint show
\* the same, well-formed UTF-8 without a control character, and a text that has
\* nothing unsafe as it is.  The two decoders, which are written apart, agree:
\* pv_utf8_valid accepts just the texts in which decode_codepoint finds a
\* character everywhere.
TextShownSafely ==
    T!OutputIsSafe /\ T!SameOutput /\ T!PlainTextUntouched /\ T!DecodersAgree
=============================================================================
