-------------------------------- MODULE Cbor --------------------------------
(***************************************************************************)
(* The payload of a snapshot: pv_cbor_encode and pv_cbor_decode            *)
(* (src/cbor_codec.c), with the validation of a record (src/model.c).      *)
(* A vault is validated and written, item by item, into a buffer of fixed  *)
(* size; then the bytes, or bytes that differ from them in one place, are  *)
(* read, item by item.                                                     *)
(*                                                                         *)
(* Bytes are 0..255 and heads have the widths of the code.  A number is    *)
(* the sequence of its bytes, the first not 0, so that 64-bit values fit.  *)
(* The lengths of identifiers and the limits of texts and lists are        *)
(* constants.                                                              *)
(***************************************************************************)
EXTENDS Integers, Sequences, SequencesExt, Utf8

CONSTANTS
    Vaults,         \* the vaults that are written
    IdLen,          \* PV_RECORD_ID_BYTES, PV_DEVICE_ID_BYTES
    MaxText,        \* PV_MAX_TITLE and its like
    MaxItems,       \* PV_MAX_COLLECTION_ITEMS
    MaxRecords,     \* PV_MAX_PLAINTEXT / 64
    MaxPlaintext,   \* PV_MAX_PLAINTEXT
    Damage          \* the bytes that may replace one

CborConstants ==
    /\ IdLen \in 1..23 /\ MaxText \in 1..255 /\ MaxItems \in 0..23 /\ MaxRecords \in 0..255
    /\ MaxPlaintext \in Nat /\ Damage \subseteq 0..255

Num(n) == IF n = 0 THEN <<>> ELSE <<n>>             \* 0..255
Uint == 0
Bytes == 2
Text == 3
Array == 4
Map == 5

VARIABLES
    vault,          \* the one that is written
    tokens,         \* its items that are still to write
    bytes,          \* the buffer
    pc, status,
    damaged,        \* the bytes are not the writer's
    pos, todo,      \* the reader: where it is, what it expects
    got, id, ids,   \* what it has read: items, the record's identifier, the earlier ones
    starved         \* history: memory was lacking

writer == <<vault, tokens>>
reader == <<pos, todo, got, id, ids>>
vars == <<writer, bytes, pc, status, damaged, reader, starved>>

-----------------------------------------------------------------------------
(***************************************************************************)
(* pv_model_validate_record.                                               *)
(***************************************************************************)
AllZero(s) == \A k \in DOMAIN s : s[k] = 0
IsTime(v) == Len(v) = 8 => v[1] < 128                \* INT64_MAX
HasFlags(v, mask) == v \in {Num(n) : n \in 0..mask}  \* the masks are 1 and 3
TextOK(s) == Len(s) <= MaxText /\ Utf8Valid(s)

ValidField(f) ==
    f.name # <<>> /\ TextOK(f.name) /\ Len(f.value) <= MaxText /\ HasFlags(f.flags, 1)

\* A mutant: the tags of a record are not looked at.
ValidRecordWithoutTags(r) ==
    /\ Len(r.urls) <= MaxItems /\ Len(r.tags) <= MaxItems /\ Len(r.fields) <= MaxItems
    /\ IsTime(r.created) /\ IsTime(r.updated) /\ HasFlags(r.flags, 3)
    /\ r.title # <<>> /\ TextOK(r.title) /\ TextOK(r.username) /\ Len(r.password) <= MaxText
    /\ TextOK(r.notes)
    /\ \A k \in DOMAIN r.urls : TextOK(r.urls[k])
    /\ \A k \in DOMAIN r.fields : ValidField(r.fields[k])
    /\ r.revision # <<>> /\ ~AllZero(r.id)

ValidRecord(r) ==
    /\ Len(r.urls) <= MaxItems /\ Len(r.tags) <= MaxItems /\ Len(r.fields) <= MaxItems
    /\ IsTime(r.created) /\ IsTime(r.updated) /\ HasFlags(r.flags, 3)
    /\ r.title # <<>> /\ TextOK(r.title) /\ TextOK(r.username) /\ Len(r.password) <= MaxText
    /\ TextOK(r.notes)
    /\ \A k \in DOMAIN r.urls : TextOK(r.urls[k])
    /\ \A k \in DOMAIN r.tags : TextOK(r.tags[k])
    /\ \A k \in DOMAIN r.fields : ValidField(r.fields[k])
    /\ r.revision # <<>> /\ ~AllZero(r.id)

-----------------------------------------------------------------------------
(***************************************************************************)
(* The writer.  An item is a major type, a number, and for a string its    *)
(* bytes.                                                                  *)
(***************************************************************************)
Item(major, value, data) == [major |-> major, value |-> value, data |-> data]
UintItem(v) == Item(Uint, v, <<>>)
MapItem(n) == Item(Map, Num(n), <<>>)
ArrayItem(n) == Item(Array, Num(n), <<>>)
Blob(major, s) == Item(major, Num(Len(s)), s)

\* A map whose n-th value is vs[n], itself a sequence of items.
Keyed(vs) ==
    <<MapItem(Len(vs))>> \o FlattenSeq([k \in DOMAIN vs |-> <<UintItem(Num(k - 1))>> \o vs[k]])
ListOf(items) == <<ArrayItem(Len(items))>> \o FlattenSeq(items)
Texts(ss) == ListOf([k \in DOMAIN ss |-> <<Blob(Text, ss[k])>>])

FieldItems(f) == Keyed(<< <<Blob(Text, f.name)>>, <<Blob(Bytes, f.value)>>, <<UintItem(f.flags)>> >>)

\* encode_record.
RecordItems(r) ==
    Keyed(<< <<Blob(Bytes, r.id)>>, <<UintItem(r.revision)>>, <<UintItem(r.created)>>,
             <<UintItem(r.updated)>>, <<UintItem(r.flags)>>, <<Blob(Text, r.title)>>,
             <<Blob(Text, r.username)>>, <<Blob(Bytes, r.password)>>, Texts(r.urls),
             <<Blob(Text, r.notes)>>, Texts(r.tags),
             ListOf([k \in DOMAIN r.fields |-> FieldItems(r.fields[k])]) >>)

VaultItems(v) ==
    Keyed(<< <<UintItem(<<1>>)>>, <<UintItem(v.generation)>>, <<Blob(Bytes, v.device)>>,
             <<UintItem(v.created)>>, <<UintItem(v.updated)>>,
             ListOf([k \in DOMAIN v.records |-> RecordItems(v.records[k])]) >>)

Zeros(n) == [k \in 1..n |-> 0]
PadTo(w, v) == Zeros(w - Len(v)) \o v

\* writer_type_value: the shortest head that holds the number.
TypeValue(major, v) ==
    IF Len(v) = 0 \/ (Len(v) = 1 /\ v[1] < 24)
    THEN <<major * 32 + (IF v = <<>> THEN 0 ELSE v[1])>>
    ELSE LET w == CHOOSE n \in {1, 2, 4, 8} : n >= Len(v) /\ \A m \in {1, 2, 4, 8} : m >= Len(v) => n <= m
         IN <<major * 32 + (CASE w = 1 -> 24 [] w = 2 -> 25 [] w = 4 -> 26 [] w = 8 -> 27)>> \o PadTo(w, v)

\* What the writer puts for one item: its head, and a string's bytes.
Pieces(item) == <<TypeValue(item.major, item.value), item.data>>

-----------------------------------------------------------------------------
(***************************************************************************)
(* The reader's grammar: what each head must be.  A list puts what its     *)
(* elements must be before the rest; "add" stands for pv_model_add_record. *)
(***************************************************************************)
Expect(kind, major, arg) == [kind |-> kind, major |-> major, arg |-> arg]
Key(n) == Expect("uint", Uint, Num(n))
MapOf(n) == Expect("map", Map, Num(n))
Number(check) == Expect("number", Uint, check)
Id(of) == Expect("id", Bytes, of)
String(major, check) == Expect("string", major, check)
List(part) == Expect("list", Array, part)

FieldGrammar ==
    <<MapOf(3), Key(0), String(Text, "some"), Key(1), String(Bytes, "any"), Key(2), Number("secret")>>
RecordGrammar ==
    <<MapOf(12), Key(0), Id("record"), Key(1), Number("positive"), Key(2), Number("time"), Key(3), Number("time"),
      Key(4), Number("flags"), Key(5), String(Text, "some"), Key(6), String(Text, "any"),
      Key(7), String(Bytes, "any"), Key(8), List("text"), Key(9), String(Text, "any"),
      Key(10), List("text"), Key(11), List("field"), Expect("add", 0, "")>>
VaultGrammar ==
    <<MapOf(6), Key(0), Expect("uint", Uint, <<1>>), Key(1), Number("any"), Key(2), Id("device"),
      Key(3), Number("time"), Key(4), Number("time"), Key(5), List("record")>>

Grammar(part) ==
    CASE part = "text" -> <<String(Text, "any")>>
      [] part = "field" -> FieldGrammar
      [] part = "record" -> RecordGrammar

LimitOf(part) == IF part = "record" THEN MaxRecords ELSE MaxItems

RECURSIVE Strip(_)
Strip(v) == IF v # <<>> /\ v[1] = 0 THEN Strip(Tail(v)) ELSE v

Width(additional) ==
    CASE additional = 24 -> 1 [] additional = 25 -> 2 [] additional = 26 -> 4 [] additional = 27 -> 8

\* A mutant: a number may be written longer than it need be.
ShortestNever(w, v) == TRUE

\* The number does not fit the next shorter head.
Shortest(w, v) ==
    CASE w = 1 -> Len(v) = 1 /\ v[1] >= 24 [] w = 2 -> Len(v) > 1 [] w = 4 -> Len(v) > 2 [] w = 8 -> Len(v) > 4

Bad == [ok |-> FALSE, value |-> <<>>, next |-> 0]

\* reader_value at pos, with the major type it must have.
ReaderValue(major) ==
    IF pos >= Len(bytes) THEN Bad
    ELSE LET initial == bytes[pos + 1]
             additional == initial % 32
         IN IF initial \div 32 # major \/ additional > 27 THEN Bad
            ELSE IF additional < 24 THEN [ok |-> TRUE, value |-> Num(additional), next |-> pos + 1]
            ELSE LET w == Width(additional)
                 IN IF w > Len(bytes) - (pos + 1) THEN Bad
                    ELSE LET v == Strip(SubSeq(bytes, pos + 2, pos + 1 + w))
                         IN IF Shortest(w, v) THEN [ok |-> TRUE, value |-> v, next |-> pos + 1 + w] ELSE Bad

\* A count or length as an integer; those of three bytes and more are beyond
\* every limit.
Small(v) == Len(v) <= 2
AsInt(v) == CASE Len(v) = 0 -> 0 [] Len(v) = 1 -> v[1] [] Len(v) = 2 -> 256 * v[1] + v[2]
Exceeds(v, limit) == ~Small(v) \/ AsInt(v) > limit

NumberOK(check, v) ==
    CASE check = "any" -> TRUE
      [] check = "positive" -> v # <<>>
      [] check = "time" -> IsTime(v)
      [] check = "flags" -> HasFlags(v, 3)
      [] check = "secret" -> HasFlags(v, 1)

-----------------------------------------------------------------------------
Init ==
    /\ vault \in Vaults /\ tokens = <<>> /\ bytes = <<>>
    /\ pc = "validate" /\ status = "OK" /\ damaged = FALSE
    /\ pos = 0 /\ todo = <<>> /\ got = <<>> /\ id = <<>> /\ ids = {}
    /\ starved = FALSE

\* Locked memory, or room in the arena, is lacking.
Starve(final, s) == pc' = final /\ status' = s /\ starved' = TRUE

\* pv_cbor_encode: everything is validated before anything is written, and the
\* buffer is allocated.  Which of the two errors a record gets, for a length or
\* for something else, is left open.
Validate ==
    /\ pc = "validate"
    /\ IF ~IsTime(vault.created) \/ ~IsTime(vault.updated)
       THEN pc' = "refused" /\ status' = "USAGE" /\ UNCHANGED <<tokens, starved>>
       ELSE IF AllZero(vault.device) \/ \E k \in DOMAIN vault.records : ~ValidRecord(vault.records[k])
       THEN pc' = "refused" /\ status' \in {"FORMAT", "LIMIT"} /\ UNCHANGED <<tokens, starved>>
       ELSE \/ pc' = "write" /\ tokens' = VaultItems(vault) /\ UNCHANGED <<status, starved>>
            \/ Starve("refused", "SECURE_MEMORY") /\ UNCHANGED tokens
    /\ UNCHANGED <<vault, bytes, damaged, reader>>

\* A mutant: what does not fit is left out and the rest is written.
PutWhatFits(st, buffer, piece) ==
    IF Len(buffer) + Len(piece) > MaxPlaintext THEN [status |-> "OK", bytes |-> buffer]
    ELSE [status |-> st, bytes |-> buffer \o piece]

\* writer_bytes: after a piece that does not fit nothing is written any more.
Put(st, buffer, piece) ==
    IF st # "OK" THEN [status |-> st, bytes |-> buffer]
    ELSE IF Len(buffer) + Len(piece) > MaxPlaintext THEN [status |-> "LIMIT", bytes |-> buffer]
    ELSE [status |-> "OK", bytes |-> buffer \o piece]

WriteItem ==
    /\ pc = "write" /\ tokens # <<>>
    /\ LET head == Put(status, bytes, Pieces(Head(tokens))[1])
           both == Put(head.status, head.bytes, Pieces(Head(tokens))[2])
       IN status' = both.status /\ bytes' = both.bytes
    /\ tokens' = Tail(tokens)
    /\ UNCHANGED <<vault, pc, damaged, reader, starved>>

Written ==
    /\ pc = "write" /\ tokens = <<>>
    /\ pc' = (IF status = "OK" THEN "stored" ELSE "refused")
    /\ UNCHANGED <<writer, bytes, status, damaged, reader, starved>>

\* What is read later is what was written, or differs in one byte, is cut short,
\* or goes on; more than MaxPlaintext bytes are never handed to the reader.
Fetch ==
    /\ pc = "stored"
    /\ \/ UNCHANGED bytes
       \/ \E k \in DOMAIN bytes, d \in Damage : bytes' = [bytes EXCEPT ![k] = d]
       \/ \E n \in 1..Len(bytes) - 1 : bytes' = SubSeq(bytes, 1, n)
       \/ Len(bytes) < MaxPlaintext /\ \E d \in Damage : bytes' = Append(bytes, d)
    /\ damaged' = (bytes' # bytes)
    /\ pc' = "check"
    /\ UNCHANGED <<writer, status, reader, starved>>

\* libcbor_well_formed accepts at least what the writer wrote.
WellFormed ==
    /\ pc = "check"
    /\ \/ pc' = "read" /\ todo' = VaultGrammar /\ UNCHANGED status
       \/ damaged /\ pc' = "done" /\ status' = "FORMAT" /\ UNCHANGED todo
    /\ UNCHANGED <<writer, bytes, damaged, pos, got, id, ids, starved>>

Refuse(s) == pc' = "done" /\ status' = s /\ UNCHANGED <<reader, starved>>

\* The item was as expected; more may be expected in its place.
Accept(item, next, more) ==
    /\ got' = Append(got, item) /\ pos' = next /\ todo' = more \o Tail(todo)
    /\ UNCHANGED <<pc, status, ids, starved>>

ReadNumber(e, r) ==
    /\ e.kind \in {"uint", "map", "number"}
    /\ IF ~r.ok THEN Refuse("FORMAT") /\ UNCHANGED id
       ELSE IF e.kind = "map" /\ Exceeds(r.value, AsInt(e.arg)) THEN Refuse("LIMIT") /\ UNCHANGED id
       ELSE IF (IF e.kind = "number" THEN NumberOK(e.arg, r.value) ELSE r.value = e.arg)
       THEN Accept(Item(e.major, r.value, <<>>), r.next, <<>>) /\ UNCHANGED id
       ELSE Refuse("FORMAT") /\ UNCHANGED id

\* The string ends before the bytes do.
Fits(length, next) == length <= Len(bytes) - next

\* reader_slice, and what each caller asks of the slice.
ReadString(e, r) ==
    /\ e.kind \in {"id", "string"}
    /\ LET limit == IF e.kind = "id" THEN IdLen ELSE MaxText
           length == AsInt(r.value)
           end == IF r.next + length <= Len(bytes) THEN r.next + length ELSE Len(bytes)
           data == SubSeq(bytes, r.next + 1, end)
       IN IF ~r.ok THEN Refuse("FORMAT")
          ELSE IF Exceeds(r.value, limit) THEN Refuse("LIMIT")
          ELSE IF ~Fits(length, r.next) \/ (e.major = Text /\ ~Utf8Valid(data)) THEN Refuse("FORMAT")
          ELSE IF (e.kind = "id" /\ (length # IdLen \/ AllZero(data))) \/ (e.arg = "some" /\ length = 0)
          THEN Refuse("FORMAT")
          ELSE /\ Accept(Item(e.major, r.value, data), r.next + length, <<>>)
               /\ id' = IF e.arg = "record" THEN data ELSE id

\* reader_count and the loop it starts.
ReadList(e, r) ==
    /\ e.kind = "list"
    /\ IF ~r.ok THEN Refuse("FORMAT")
       ELSE IF Exceeds(r.value, LimitOf(e.arg)) THEN Refuse("LIMIT")
       ELSE /\ Accept(Item(Array, r.value, <<>>), r.next,
                      FlattenSeq([k \in 1..AsInt(r.value) |-> Grammar(e.arg)]))
            /\ UNCHANGED id

\* pv_model_add_record: a record whose identifier is already there is refused,
\* and so is one that the arena has no room for, before (its slot) or after (its
\* texts) the identifier is looked for.  Records models that room.
AddRecord(e) ==
    /\ e.kind = "add"
    /\ \/ Starve("done", "LIMIT") /\ UNCHANGED reader
       \/ id \in ids /\ Refuse("FORMAT")
       \/ /\ id \notin ids /\ ids' = ids \cup {id} /\ todo' = Tail(todo)
          /\ UNCHANGED <<pc, status, pos, got, id, starved>>

ReadItem ==
    /\ pc = "read" /\ todo # <<>>
    /\ LET e == Head(todo)
       IN \/ AddRecord(e)
          \/ LET r == ReaderValue(e.major)
             IN ReadNumber(e, r) \/ ReadString(e, r) \/ ReadList(e, r)
    /\ UNCHANGED <<writer, bytes, damaged>>

AllRead == pos = Len(bytes)

\* Nothing may follow; the arena is protected, if the system lets it.
Finish ==
    /\ pc = "read" /\ todo = <<>>
    /\ \/ pc' = "done" /\ status' = (IF AllRead THEN "OK" ELSE "FORMAT") /\ UNCHANGED starved
       \/ AllRead /\ Starve("done", "SECURE_MEMORY")
    /\ UNCHANGED <<writer, bytes, damaged, reader>>

Rest == pc \in {"refused", "done"} /\ UNCHANGED vars

Next == Validate \/ WriteItem \/ Written \/ Fetch \/ WellFormed \/ ReadItem \/ Finish \/ Rest

Spec == Init /\ [][Next]_vars

-----------------------------------------------------------------------------
TypeOK ==
    /\ pc \in {"validate", "write", "stored", "refused", "check", "read", "done"}
    /\ status \in {"OK", "USAGE", "FORMAT", "LIMIT", "SECURE_MEMORY"}
    /\ starved \in BOOLEAN
    /\ \A k \in DOMAIN bytes : bytes[k] \in 0..255
    /\ Len(bytes) <= MaxPlaintext /\ pos \in 0..Len(bytes)

Encoding(items) == FlattenSeq([k \in DOMAIN items |-> Pieces(items[k])[1] \o Pieces(items[k])[2]])

\* What the writer wrote the reader reads: every value of every record, whatever
\* its width, comes back, unless memory is lacking, which the status tells.
RoundTrip ==
    pc = "done" /\ ~damaged =>
       IF starved THEN status \in {"LIMIT", "SECURE_MEMORY"}
       ELSE status = "OK" /\ got = VaultItems(vault)

\* The reader takes a vault in one form only, the one the writer gives it: no two
\* byte strings mean the same vault, and nothing follows it.
Canonical == pc = "done" /\ status = "OK" => bytes = Encoding(got)

\* A vault that does not fit the buffer is not written at all.
RefusedIfTooLong ==
    pc \in {"stored", "check", "read", "done"} /\ ~damaged => bytes = Encoding(VaultItems(vault))
=============================================================================
