------------------------------ MODULE Records -------------------------------
(***************************************************************************)
(* The decrypted vault in memory (src/model.c, src/arena.c) and the three  *)
(* commands that change it (command_add, command_edit and command_remove   *)
(* of src/cli.c): every one opens the vault, changes one record in the     *)
(* arena, saves and forgets the vault.                                     *)
(*                                                                         *)
(* The arena is a bump allocator of fixed size that never frees, so what   *)
(* matters of a text is its length and whether it is valid UTF-8.  A       *)
(* record has a title, which is never empty, one further text that stands  *)
(* for username, password and notes, and one list of texts that stands for *)
(* URLs, tags and custom fields: each kind is copied in the same way.      *)
(***************************************************************************)
EXTENDS Integers, Sequences, Functions

CONSTANTS
    Capacity,       \* PV_ARENA_CAPACITY, 2 MiB in the code
    Align,          \* the alignment of records and slices, 8 in the code
    SlotSize,       \* sizeof(pv_record)
    ItemSize,       \* sizeof(pv_slice)
    InitialSlots,   \* PV_INITIAL_RECORD_CAPACITY, 16 in the code
    MaxText,        \* the longest text
    MaxItems,       \* PV_MAX_COLLECTION_ITEMS, 64 in the code
    MaxPlain,       \* PV_MAX_PLAINTEXT, less the length field
    RecordBytes,    \* what a record takes in CBOR besides its texts
    MaxRev,         \* UINT64_MAX
    MaxRecords,     \* bound: records
    MaxSessions     \* bound: commands run

ASSUME RecordsAssumption ==
    /\ {Capacity, Align, SlotSize, ItemSize, InitialSlots, MaxText, MaxItems,
        MaxPlain, RecordBytes, MaxRev, MaxRecords, MaxSessions} \subseteq Nat \ {0}
    /\ SlotSize % Align = 0 /\ ItemSize % Align = 0
    /\ InitialSlots * SlotSize <= Capacity

Ids == 1..MaxRecords + 1            \* identifiers; the zero one means none
Lists == UNION {[1..n -> 1..MaxText] : n \in 0..MaxItems}
Record == [id : Ids, rev : 1..MaxRev, deleted : BOOLEAN, favorite : BOOLEAN,
           title : 1..MaxText, text : 0..MaxText, list : Lists, utf8 : BOOLEAN]

\* What the user has filled in (collect_record): no id and no revision yet.
Forms == [title : 1..MaxText, text : 0..MaxText, list : Lists, utf8 : BOOLEAN]

VARIABLES
    pc,             \* closed, open: a command has the vault, changed: it will save
    status,         \* of the last command
    mem,            \* the vault in memory
    disk,           \* the records of the vault file
    sessions,
    needed          \* history: the arena the last session that saved had used

vars == <<pc, status, mem, disk, sessions, needed>>

-----------------------------------------------------------------------------
(***************************************************************************)
(* The arena: the bytes in use, and whether every allocation so far was    *)
(* made.  After a failure the caller allocates no more.                    *)
(***************************************************************************)

Arena(used) == [used |-> used, ok |-> TRUE]

RoundUp(n, a) == ((n + a - 1) \div a) * a

\* A mutant: the padding is not counted against the capacity.
AllocIgnoringPadding(cap, arena, size, align) ==
    LET end == RoundUp(arena.used, align) + size
    IN IF ~arena.ok \/ arena.used + size > cap
       THEN [arena EXCEPT !.ok = FALSE]
       ELSE [arena EXCEPT !.used = end]

\* pv_arena_alloc.
Alloc(cap, arena, size, align) ==
    LET end == RoundUp(arena.used, align) + size
    IN IF ~arena.ok \/ end > cap
       THEN [arena EXCEPT !.ok = FALSE]
       ELSE [arena EXCEPT !.used = end]

\* pv_arena_copy: nothing for an empty text, and a zero byte after any other.
CopyText(cap, arena, len) == IF len = 0 THEN arena ELSE Alloc(cap, arena, len + 1, 1)

\* copy_slices and copy_fields: the array, then its texts.
CopyList(cap, arena, l) ==
    LET copied[n \in 0..Len(l)] ==
            IF n = 0 THEN Alloc(cap, arena, Len(l) * ItemSize, Align)
            ELSE CopyText(cap, copied[n - 1], l[n])
    IN IF l = <<>> THEN arena ELSE copied[Len(l)]

CopyRecord(cap, arena, r) ==
    CopyList(cap, CopyText(cap, CopyText(cap, arena, r.title), r.text), r.list)

\* ensure_record_capacity: the array is doubled, and the old one stays.
Slots(cap, arena, n) == Alloc(cap, arena, n * SlotSize, Align)
Grow(cap, v) ==
    IF Len(v.records) < v.slots THEN Arena(v.used) ELSE Slots(cap, Arena(v.used), 2 * v.slots)

-----------------------------------------------------------------------------
(***************************************************************************)
(* The model: an operation gives the vault afterwards and a status.        *)
(***************************************************************************)

\* pv_model_init.
EmptyVault(cap) ==
    [records |-> <<>>, slots |-> InitialSlots, readonly |-> FALSE,
     used |-> Slots(cap, Arena(0), InitialSlots).used]

FindId(v, id) == \E i \in DOMAIN v.records : v.records[i].id = id

\* A mutant: the record counts before its texts are copied.
AddRecordEarly(cap, v, r) ==
    LET grown == Grow(cap, v)
        w == [v EXCEPT !.readonly = FALSE, !.used = grown.used,
                       !.slots = IF Len(v.records) < @ \/ ~grown.ok THEN @ ELSE 2 * @]
        all == CopyRecord(cap, grown, r)
        done == [w EXCEPT !.used = all.used, !.records = Append(@, r)]
    IN CASE ~r.utf8 -> [vault |-> v, status |-> "FORMAT"]
         [] r.utf8 /\ ~grown.ok -> [vault |-> w, status |-> "LIMIT"]
         [] r.utf8 /\ grown.ok /\ FindId(v, r.id) -> [vault |-> w, status |-> "EXISTS"]
         [] OTHER -> [vault |-> done, status |-> IF all.ok THEN "OK" ELSE "LIMIT"]

\* pv_model_add_record: what has been allocated stays allocated, but the record
\* counts only when everything has been copied.
AddRecord(cap, v, r) ==
    LET grown == Grow(cap, v)
        w == [v EXCEPT !.readonly = FALSE, !.used = grown.used,
                       !.slots = IF Len(v.records) < @ \/ ~grown.ok THEN @ ELSE 2 * @]
        all == CopyRecord(cap, grown, r)
        done == [w EXCEPT !.used = all.used, !.records = IF all.ok THEN Append(@, r) ELSE @]
    IN CASE ~r.utf8 -> [vault |-> v, status |-> "FORMAT"]
         [] r.utf8 /\ ~grown.ok -> [vault |-> w, status |-> "LIMIT"]
         [] r.utf8 /\ grown.ok /\ FindId(v, r.id) -> [vault |-> w, status |-> "EXISTS"]
         [] OTHER -> [vault |-> done, status |-> IF all.ok THEN "OK" ELSE "LIMIT"]

\* The decoder adds the records one by one to an empty vault, then protects it.
Load(cap, records) ==
    LET loaded[n \in 0..Len(records)] ==
            IF n = 0 THEN [vault |-> EmptyVault(cap), status |-> "OK"]
            ELSE LET b == loaded[n - 1]
                 IN IF b.status = "OK" THEN AddRecord(cap, b.vault, records[n]) ELSE b
        end == loaded[Len(records)]
    IN [end EXCEPT !.vault.readonly = (end.status = "OK")]

\* What the encoder and the cipher need for the records.
Plaintext(records) ==
    LET size(r) == RecordBytes + r.title + r.text + SumFunction(r.list)
    IN SumFunction([i \in DOMAIN records |-> size(records[i])])

-----------------------------------------------------------------------------
(***************************************************************************)
(* The commands.                                                           *)
(***************************************************************************)

NoVault == [records |-> <<>>, slots |-> 0, readonly |-> FALSE, used |-> 0]

Init ==
    /\ pc = "closed" /\ status = "OK"
    /\ mem = NoVault /\ disk = <<>>
    /\ sessions = 0 /\ needed = 0

\* open_password_vault: the file is decrypted and decoded into a new arena,
\* unless it cannot be read, allocated, locked or protected.
Open ==
    /\ pc = "closed"
    /\ sessions < MaxSessions /\ sessions' = sessions + 1
    /\ \/ LET result == Load(Capacity, disk)
          IN /\ status' = result.status
             /\ pc' = IF result.status = "OK" THEN "open" ELSE "closed"
             /\ mem' = IF result.status = "OK" THEN result.vault ELSE NoVault
       \/ status' \in {"IO", "SECURE_MEMORY"} /\ UNCHANGED <<pc, mem>>
    /\ UNCHANGED <<disk, needed>>

\* An operation of the model and its status; only a change is saved.
Apply(result) ==
    /\ mem' = result.vault /\ status' = result.status
    /\ pc' = IF result.status = "OK" THEN "changed" ELSE "failed"
    /\ UNCHANGED <<disk, sessions, needed>>

\* A mutant: a record that is refused is gone.
RefuseAndDrop(s, v) ==
    Apply([vault |-> [v EXCEPT !.records = SubSeq(@, 1, Len(@) - 1)], status |-> s])

Refuse(s, v) == Apply([vault |-> v, status |-> s])

\* A command ends before it reaches a record.  Any of them: a prompt fails, a
\* text or a list is longer than its limit (split_csv, validate_record_fields)
\* or the arena cannot be made writable.  command_edit, once it is: a prompt
\* fails, what it reads is too long, or there is no such field.
Refused ==
    /\ pc = "open"
    /\ \/ \E s \in {"IO", "LIMIT", "SECURE_MEMORY"} : Refuse(s, mem)
       \/ /\ \E i \in DOMAIN mem.records : ~mem.records[i].deleted /\ mem.records[i].rev < MaxRev
          /\ \E s \in {"IO", "LIMIT", "USAGE"} : Refuse(s, [mem EXCEPT !.readonly = FALSE])

\* command_add: randombytes_buf until the id is new.
Add(form, id) ==
    /\ pc = "open"
    /\ Len(mem.records) < MaxRecords
    /\ ~FindId(mem, id)
    /\ Apply(AddRecord(Capacity, mem,
               [id |-> id, rev |-> 1, deleted |-> FALSE, favorite |-> FALSE,
                title |-> form.title, text |-> form.text, list |-> form.list, utf8 |-> form.utf8]))

\* select_record_private lets the user pick a record that is not deleted.
Select(i) == i \in DOMAIN mem.records /\ ~mem.records[i].deleted

\* A mutant: an edited record keeps its revision.
BumpNothing(r) == r

Bump(r) == [r EXCEPT !.rev = @ + 1]

\* command_edit: the new value is copied, replaces the old one if there was
\* room, and the revision goes up.  The value is not validated here.
Edit(i, copied, r) ==
    /\ pc = "open" /\ Select(i)
    /\ LET writable == [mem EXCEPT !.readonly = FALSE, !.used = copied.used]
       IN Apply(CASE mem.records[i].rev = MaxRev -> [vault |-> mem, status |-> "LIMIT"]
                  [] mem.records[i].rev < MaxRev /\ ~copied.ok ->
                        [vault |-> writable, status |-> "LIMIT"]
                  [] OTHER ->
                        [vault |-> [writable EXCEPT !.records[i] = Bump(r)], status |-> "OK"])

EditTitle(i) == \E n \in 1..MaxText, valid \in BOOLEAN :
    Edit(i, CopyText(Capacity, Arena(mem.used), n),
            [mem.records[i] EXCEPT !.title = n, !.utf8 = valid])
EditText(i) == \E n \in 0..MaxText, valid \in BOOLEAN :
    Edit(i, CopyText(Capacity, Arena(mem.used), n),
            [mem.records[i] EXCEPT !.text = n, !.utf8 = valid])
EditList(i) == \E l \in Lists, valid \in BOOLEAN :
    Edit(i, CopyList(Capacity, Arena(mem.used), l),
            [mem.records[i] EXCEPT !.list = l, !.utf8 = valid])
EditFavorite(i) == Edit(i, Arena(mem.used), [mem.records[i] EXCEPT !.favorite = ~@])

\* A mutant: the texts stay.
TombstoneWithTexts(r) == [r EXCEPT !.rev = @ + 1, !.deleted = TRUE]

\* What pv_model_delete leaves of a record: its id, its flags and its title.
Tombstone(r) == [r EXCEPT !.rev = @ + 1, !.deleted = TRUE, !.text = 0, !.list = <<>>]

\* command_remove, confirmed.
Delete(i) ==
    /\ pc = "open" /\ Select(i)
    /\ Apply(IF mem.records[i].rev = MaxRev
             THEN [vault |-> mem, status |-> "LIMIT"]
             ELSE [vault |-> [mem EXCEPT !.readonly = FALSE, !.records[i] = Tombstone(@)],
                   status |-> "OK"])

\* A mutant: the encoder does not look at the records.
EncodeUnchecked(records) == IF Plaintext(records) > MaxPlain THEN "LIMIT" ELSE "OK"

\* pv_cbor_encode validates every record; pv_crypto_encrypt_body has the limit.
Encode(records) ==
    CASE \E i \in DOMAIN records : ~records[i].utf8 -> "FORMAT"
      [] OTHER -> IF Plaintext(records) > MaxPlain THEN "LIMIT" ELSE "OK"

\* pv_store_save: the file is replaced as a whole, perhaps not durably yet, or
\* left alone.
Save ==
    /\ pc = "changed" /\ pc' = "saved"
    /\ \/ /\ Encode(mem.records) = "OK"
          /\ disk' = mem.records /\ status' \in {"OK", "DURABILITY"} /\ needed' = mem.used
          /\ mem' = [mem EXCEPT !.readonly = TRUE]
       \/ /\ status' \in IF Encode(mem.records) = "OK" THEN {"IO", "SECURE_MEMORY"}
                         ELSE {Encode(mem.records)}
          /\ UNCHANGED <<disk, needed, mem>>
    /\ UNCHANGED sessions

\* Every command ends with pv_model_destroy; a deletion may be declined first.
Close ==
    /\ pc \in {"open", "failed", "saved"} /\ pc' = "closed"
    /\ mem' = NoVault
    /\ UNCHANGED <<status, disk, sessions, needed>>

\* No more commands are run.
Rest == pc = "closed" /\ sessions = MaxSessions /\ UNCHANGED vars

Next ==
    \/ Open
    \/ Refused
    \/ \E form \in Forms, id \in Ids : Add(form, id)
    \/ \E i \in DOMAIN mem.records :
          \/ EditTitle(i) \/ EditText(i) \/ EditList(i) \/ EditFavorite(i)
          \/ Delete(i)
    \/ Save
    \/ Close
    \/ Rest

Spec == Init /\ [][Next]_vars

-----------------------------------------------------------------------------
TypeOK ==
    /\ pc \in {"closed", "open", "changed", "failed", "saved"}
    /\ status \in {"OK", "USAGE", "LIMIT", "FORMAT", "EXISTS", "SECURE_MEMORY", "IO", "DURABILITY"}
    /\ \A i \in DOMAIN mem.records : mem.records[i] \in Record
    /\ mem.used \in 0..Capacity /\ Len(mem.records) <= mem.slots
    /\ mem.readonly \in BOOLEAN
    /\ \A i \in DOMAIN disk : disk[i] \in Record
    /\ sessions \in 0..MaxSessions /\ needed \in 0..Capacity

\* A command that fails has changed nothing: neither the file nor the records
\* in memory, however far pv_model_add_record or command_edit got before the
\* arena was full.
FailureChangesNothing ==
    [][/\ status' \notin {"OK", "DURABILITY"} => disk' = disk
       /\ pc' = "failed" => mem'.records = mem.records]_vars

\* Over all commands, no record vanishes from the file, a deleted record stays
\* deleted, and whatever changes in a record moves its revision on by one.
RevisionsTell ==
    [][\A i \in DOMAIN disk :
        /\ i \in DOMAIN disk' /\ disk'[i].id = disk[i].id
        /\ disk[i].deleted => disk'[i] = disk[i]
        /\ disk'[i] # disk[i] => disk'[i].rev = disk[i].rev + 1]_disk

\* Memory and file change only as a command that succeeds accounts for.
HistoryKept == FailureChangesNothing /\ RevisionsTell

\* Nothing of a deleted record but its title is kept, in memory or on disk.
TombstonesAreEmpty ==
    \A r \in Range(mem.records) \cup Range(disk) : r.deleted => r.text = 0 /\ r.list = <<>>

\* What has been saved can be loaded: every record is valid, the identifiers
\* are distinct, and a new arena needs at most 2 * (Align - 1) bytes more than the
\* session had used that saved, whose texts lay in another order: padding before
\* a list that was appended, and before the next one.
SavedCanBeLoaded ==
    LET again == Load(needed + 2 * (Align - 1), disk)
    IN disk # <<>> => again.status = "OK" /\ again.vault.records = disk

\* What is on the disk is fit to be there: it can be loaded again, and holds no
\* secret of a deleted record.
SavedIsSound == TombstonesAreEmpty /\ SavedCanBeLoaded

\* tests/test_cbor.c:146-147, for every vault a command has saved: what was
\* encoded is decoded with PV_OK, into an arena of the same size.
SavedVaultOpens == Load(Capacity, disk).status = "OK"
=============================================================================
