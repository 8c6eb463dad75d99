---------------------------- MODULE Credentials -----------------------------
(***************************************************************************)
(* What opens the vault: the master password the user remembers, and the   *)
(* recovery key in a file.  The module models the commands of src/cli.c    *)
(* that change either -- init, passwd (with the password or with the       *)
(* recovery file), recovery rotate, restore -- with the recovery file of   *)
(* src/recovery.c and the key slots of src/crypto.c; edit stands for the   *)
(* commands that save and keep the slots.                                  *)
(*                                                                         *)
(* The vault file is a register: cur is what processes see, may what a     *)
(* power loss may leave.  What the commands do to it is shown to be what   *)
(* SnapshotRegister allows, which VaultStore implements file by file.      *)
(*                                                                         *)
(* Passwords and recovery keys are numbers drawn from one counter: a new   *)
(* password is one never used before, and so is a random key.  slot[s]     *)
(* says which password and which key unwrap the master key of snapshot s.  *)
(* The file of key k is an inode named k: recDir says which path leads to  *)
(* it, recDisk which directories a power loss may leave, data[k] how much  *)
(* of its text is there.                                                   *)
(*                                                                         *)
(* The user follows what the commands print: they forget a password or     *)
(* delete a key file only after a command that reported PV_OK made it      *)
(* useless, or the password of a passwd that failed, and only while no     *)
(* command runs.                                                           *)
(***************************************************************************)
EXTENDS Naturals

CONSTANTS
    Procs,        \* pvault processes
    NoProc,       \* nobody holds the lock
    Paths,        \* output paths of recovery files, in one directory
    MaxSnap,      \* bound: encryptions in a behaviour
    MaxCreds,     \* bound: passwords typed and keys drawn in a behaviour
    MaxEvents     \* bound: failed calls, kills, crashes, restores, losses

ASSUME CredentialsAssumption ==
    /\ NoProc \notin Procs
    /\ MaxSnap \in Nat \ {0}
    /\ MaxCreds \in Nat \ {0}
    /\ MaxEvents \in Nat

VARIABLES
    parent, issued,     \* the snapshots encrypted, and what each was made from
    cur, may,           \* the vault file, and what a crash may leave of it
    client,             \* what each command wants of the store, and has read
    slot,               \* the key slots of each snapshot's header
    recDir, recDisk,    \* the directory of the recovery files; after a crash
    data,               \* the contents of the recovery files
    lock,               \* who holds flock on <vault>.lock
    proc,               \* the commands
    drawn,              \* passwords and keys so far
    events,             \* how many of the bounded events have happened
    memory,             \* the passwords the user remembers
    obsolete,           \* those of them they may forget
    oldPwds, oldKeys,   \* history: what a command reported as replaced
    initial,            \* history: keys of inits that have not reported a file
    rolled,             \* history: a restore has brought old slots back
    lost                \* history: the user has lost the passwords

vaultFile == <<parent, issued, cur, may>>
register == <<vaultFile, client>>
files == <<recDir, recDisk, data>>
replaced == <<oldPwds, oldKeys>>
user == <<memory, obsolete, replaced, initial, rolled, lost>>
vars == <<register, slot, files, lock, proc, drawn, events, user>>

Ids == 1..MaxSnap
Creds == 1..MaxCreds

\* pv_file_header: the vault id (its first snapshot) and the two key slots.
NoSlots == [vault |-> 0, pwd |-> 0, rec |-> 0]

Committed == {"OK", "DURABILITY"}

\* The locals of a command: the password typed or the key drawn (0: none), the
\* output path, the slots of the header in memory, the snapshot it makes, and
\* output_created.
Idle == [pc |-> "idle", cmd |-> "none", pwd |-> 0, key |-> 0, out |-> NoProc,
         slots |-> NoSlots, new |-> 0, status |-> "none", created |-> FALSE]

\* The source hash a command holds, or that it comes to create or restore.
NoClient == [want |-> "none", of |-> 0]
Wants(p, want, s) == client' = [client EXCEPT ![p] = [want |-> want, of |-> s]]

Init ==
    /\ parent = [s \in Ids |-> 0]
    /\ issued = 0
    /\ cur = 0
    /\ may = {0}
    /\ client = [p \in Procs |-> NoClient]
    /\ slot = [s \in Ids |-> NoSlots]
    /\ recDir = [x \in Paths |-> 0]
    /\ recDisk = {recDir}
    /\ data = [k \in Creds |-> "empty"]
    /\ lock = NoProc
    /\ proc = [p \in Procs |-> Idle]
    /\ drawn = 0
    /\ events = 0
    /\ memory = {}
    /\ obsolete = {}
    /\ oldPwds = {}
    /\ oldKeys = {}
    /\ initial = {}
    /\ rolled = FALSE
    /\ lost = FALSE

Event == events < MaxEvents /\ events' = events + 1

Goto(p, label) == proc' = [proc EXCEPT ![p].pc = label]
Fail(p, label) == proc' = [proc EXCEPT ![p].pc = label, ![p].status = "ERROR"]

-----------------------------------------------------------------------------
(***************************************************************************)
(* The beginning of each command: what it asks of the user and opens.  A   *)
(* command that fails here has changed nothing and is left out.            *)
(***************************************************************************)

\* pv_crypto_create_header, pv_crypto_rewrap_password and
\* pv_crypto_rewrap_recovery: the header in memory wraps the master key with the
\* credentials given; a rewrap leaves the other slot alone.
CreateHeader(pwd, key) == [vault |-> 0, pwd |-> pwd, rec |-> key]
RewrapPassword(header, pwd) == [header EXCEPT !.pwd = pwd]
RewrapRecovery(header, key) == [header EXCEPT !.rec = key]

\* A password the user types for the first time is remembered from then on.
Learn(c) == memory' = memory \cup {c}

\* command_init: a new password and a new recovery key.
BeginInit(p) ==
    /\ proc[p] = Idle
    /\ Wants(p, "create", 0)
    /\ drawn + 2 <= MaxCreds
    /\ drawn' = drawn + 2
    /\ Learn(drawn + 1)
    /\ initial' = initial \cup {drawn + 2}
    /\ \E x \in Paths :
        proc' = [proc EXCEPT ![p] = [Idle EXCEPT !.pc = "lock", !.cmd = "init",
                    !.pwd = drawn + 1, !.key = drawn + 2, !.out = x,
                    !.slots = CreateHeader(drawn + 1, drawn + 2)]]
    /\ UNCHANGED <<vaultFile, slot, files, lock, events, obsolete, replaced, rolled, lost>>

\* pv_crypto_unlock_password with a password the user remembers.
UnlockPassword(s) == slot[s].pwd \in memory

\* pv_recovery_read_file, pv_recovery_decode and pv_crypto_unlock_recovery: some
\* path leads to the whole text of the key of this very vault.
UnlockRecovery(s) ==
    \E x \in Paths : recDir[x] = slot[s].rec /\ data[slot[s].rec] # "empty"

\* command_passwd: opened with either credential; pv_crypto_rewrap_password
\* replaces the password slot of the header in memory.
BeginPasswd(p) ==
    /\ proc[p] = Idle
    /\ cur # 0
    /\ Wants(p, "save", cur)
    /\ UnlockPassword(cur) \/ UnlockRecovery(cur)
    /\ drawn < MaxCreds
    /\ drawn' = drawn + 1
    /\ Learn(drawn + 1)
    /\ proc' = [proc EXCEPT ![p] = [Idle EXCEPT !.pc = "lock", !.cmd = "passwd",
                    !.pwd = drawn + 1,
                    !.slots = RewrapPassword(slot[cur], drawn + 1)]]
    /\ UNCHANGED <<vaultFile, slot, files, lock, events, obsolete, replaced, initial, rolled, lost>>

\* command_recovery_rotate: opened with the password; the key file is written
\* first, then pv_crypto_rewrap_recovery and the save.
BeginRotate(p) ==
    /\ proc[p] = Idle
    /\ cur # 0
    /\ Wants(p, "save", cur)
    /\ UnlockPassword(cur)
    /\ drawn < MaxCreds
    /\ drawn' = drawn + 1
    /\ \E x \in Paths :
        proc' = [proc EXCEPT ![p] = [Idle EXCEPT !.pc = "encode", !.cmd = "rotate",
                    !.key = drawn + 1, !.out = x,
                    !.slots = RewrapRecovery(slot[cur], drawn + 1)]]
    /\ UNCHANGED <<vaultFile, slot, files, lock, events, user>>

\* command_restore: the backup -- any snapshot that was ever in place -- is
\* authenticated with its own password, then the user is told to keep every
\* credential and confirms.
BeginRestore(p) ==
    /\ proc[p] = Idle
    /\ Event
    /\ \E s \in Ids :
        /\ slot[s] # NoSlots
        /\ Wants(p, "restore", s)
        /\ UnlockPassword(s)
        /\ proc' = [proc EXCEPT ![p] = [Idle EXCEPT !.pc = "lock", !.cmd = "restore",
                        !.slots = slot[s], !.new = s]]
    /\ obsolete' = {}
    /\ UNCHANGED <<vaultFile, slot, files, lock, drawn, memory, replaced, initial, rolled, lost>>

\* add, edit, remove: the header is saved with the slots it was opened with.
BeginEdit(p) ==
    /\ proc[p] = Idle
    /\ cur # 0
    /\ Wants(p, "save", cur)
    /\ UnlockPassword(cur)
    /\ proc' = [proc EXCEPT ![p] = [Idle EXCEPT !.pc = "lock", !.cmd = "edit",
                                                !.slots = slot[cur]]]
    /\ UNCHANGED <<vaultFile, slot, files, lock, drawn, events, user>>

-----------------------------------------------------------------------------
(***************************************************************************)
(* pv_recovery_encode and pv_recovery_write_file, for init after the save  *)
(* and for rotate before it.                                               *)
(***************************************************************************)

\* A change of the directory not yet fsynced: a crash may or may not show it.
ChangeRecDir(d) == recDir' = d /\ recDisk' = recDisk \cup {d}

\* pv_recovery_encode: without secure memory there is no text, and no file.
Encode(p) ==
    /\ proc[p].pc = "encode"
    /\ \/ Goto(p, "parent") /\ UNCHANGED events
       \/ Fail(p, "report") /\ Event
    /\ UNCHANGED <<register, slot, files, lock, drawn, user>>

\* The first fsync_parent_path: an unsafe or failing directory ends the command
\* before a file exists.
SyncParent(p) ==
    /\ proc[p].pc = "parent"
    /\ \/ recDisk' = {recDir} /\ Goto(p, "open") /\ UNCHANGED events
       \/ Fail(p, "report") /\ Event /\ UNCHANGED recDisk
    /\ UNCHANGED <<register, slot, recDir, data, lock, drawn, user>>

\* open(O_CREAT | O_EXCL): a path that is taken is left alone.
CreateFile(p) ==
    /\ proc[p].pc = "open"
    /\ \/ /\ recDir[proc[p].out] = 0
          /\ ChangeRecDir([recDir EXCEPT ![proc[p].out] = proc[p].key])
          /\ Goto(p, "write")
          /\ UNCHANGED events
       \/ /\ recDir[proc[p].out] # 0
          /\ Fail(p, "report")
          /\ UNCHANGED <<recDir, recDisk, events>>
       \/ Fail(p, "report") /\ Event /\ UNCHANGED <<recDir, recDisk>>
    /\ UNCHANGED <<register, slot, data, lock, drawn, user>>

\* write_all: the text, or a part of it that is of no use.
WriteText(p) ==
    /\ proc[p].pc = "write"
    /\ \/ /\ data' = [data EXCEPT ![proc[p].key] = "written"]
          /\ Goto(p, "datasync")
          /\ UNCHANGED events
       \/ Fail(p, "undo") /\ Event /\ UNCHANGED data
    /\ UNCHANGED <<register, slot, recDir, recDisk, lock, drawn, user>>

\* fsync and close of the file.
SyncText(p) ==
    /\ proc[p].pc = "datasync"
    /\ \/ /\ data' = [data EXCEPT ![proc[p].key] = "synced"]
          /\ Goto(p, "dirsync")
          /\ UNCHANGED events
       \/ Fail(p, "undo") /\ Event /\ UNCHANGED data
    /\ UNCHANGED <<register, slot, recDir, recDisk, lock, drawn, user>>

\* The last fsync_parent_path.  init is done; rotate goes on to the save.
SyncEntry(p) ==
    /\ proc[p].pc = "dirsync"
    /\ \/ /\ recDisk' = {recDir}
          /\ proc' = [proc EXCEPT ![p].created = TRUE,
                        ![p].pc = IF proc[p].cmd = "init" THEN "report" ELSE "lock"]
          /\ UNCHANGED events
       \/ Fail(p, "undo") /\ Event /\ UNCHANGED recDisk
    /\ UNCHANGED <<register, slot, recDir, data, lock, drawn, user>>

\* The file is unlinked after a failure; the result is ignored.
UnlinkOutput(p, label) ==
    /\ Goto(p, label)
    /\ \/ /\ ChangeRecDir([recDir EXCEPT ![proc[p].out] = 0])
          /\ UNCHANGED events
       \/ Event /\ UNCHANGED <<recDir, recDisk>>
    /\ UNCHANGED <<register, slot, data, lock, drawn, user>>

UndoFile(p) == proc[p].pc = "undo" /\ UnlinkOutput(p, "undosync")

SyncUndo(p) ==
    /\ proc[p].pc = "undosync"
    /\ \/ recDisk' = {recDir} /\ UNCHANGED events
       \/ Event /\ UNCHANGED recDisk
    /\ Goto(p, "report")
    /\ UNCHANGED <<register, slot, recDir, data, lock, drawn, user>>

-----------------------------------------------------------------------------
(***************************************************************************)
(* The save, create or restore of the store.                               *)
(***************************************************************************)

\* A mutant: the result of flock is ignored.
LockVaultShared(p) ==
    /\ proc[p].pc = "lock"
    /\ lock' = p
    /\ Goto(p, "check")
    /\ UNCHANGED <<register, slot, files, drawn, events, user>>

\* lock_vault: flock(LOCK_EX | LOCK_NB), no waiting.
LockVault(p) ==
    /\ proc[p].pc = "lock"
    /\ \/ lock = NoProc /\ lock' = p /\ Goto(p, "check") /\ UNCHANGED events
       \/ lock # NoProc /\ Fail(p, "unlock") /\ UNCHANGED <<lock, events>>
       \/ Fail(p, "unlock") /\ Event /\ UNCHANGED lock
    /\ UNCHANGED <<register, slot, files, drawn, user>>

\* A mutant: the source hash is not compared.
SourceExists(p) == cur # 0

\* save_locked: the active file is the snapshot that was opened.
SourceUnchanged(p) == client[p].of = cur

\* pv_store_restore: only over a snapshot of the same vault, or over nothing.
MayRestore(p) == cur # 0 => slot[cur].vault = proc[p].slots.vault

\* The checks under the lock, and the encryption of the new snapshot.
Check(p) ==
    /\ proc[p].pc = "check"
    /\ \/ /\ \/ proc[p].cmd = "init" /\ cur = 0
             \/ proc[p].cmd \in {"passwd", "rotate", "edit"} /\ SourceUnchanged(p)
          /\ issued < MaxSnap
          /\ issued' = issued + 1
          /\ parent' = [parent EXCEPT ![issued + 1] = client[p].of]
          /\ proc' = [proc EXCEPT ![p].pc = "install", ![p].new = issued + 1,
                        ![p].slots.vault = IF @ = 0 THEN issued + 1 ELSE @]
          /\ UNCHANGED <<cur, may, client, events>>
       \/ /\ proc[p].cmd = "restore" /\ MayRestore(p)
          /\ Goto(p, "install")
          /\ UNCHANGED <<register, events>>
       \/ /\ \/ proc[p].cmd = "init" /\ cur # 0
             \/ proc[p].cmd \in {"passwd", "rotate", "edit"} /\ ~SourceUnchanged(p)
             \/ proc[p].cmd = "restore" /\ ~MayRestore(p)
             \/ proc[p].cmd # "restore" /\ issued = MaxSnap
          /\ Fail(p, "unlock")
          /\ UNCHANGED <<register, events>>
       \/ Fail(p, "unlock") /\ Event /\ UNCHANGED register
    /\ UNCHANGED <<slot, files, lock, drawn, user>>

\* write_atomic_at: the rename, with the header in memory.
Install(p) ==
    /\ proc[p].pc = "install"
    /\ \/ /\ cur' = proc[p].new
          /\ may' = may \cup {cur'}
          /\ slot' = [slot EXCEPT ![proc[p].new] = proc[p].slots]
          /\ rolled' = (rolled \/ proc[p].cmd = "restore")
          /\ Goto(p, "confirm")
          /\ UNCHANGED events
       \/ Fail(p, "unlock") /\ Event /\ UNCHANGED <<cur, may, slot, rolled>>
    /\ UNCHANGED <<parent, issued, client, files, lock, drawn, memory, obsolete, replaced, initial, lost>>

\* A mutant: PV_OK without the fsync of the directory.
ConfirmUnsynced(p) ==
    /\ proc[p].pc = "confirm"
    /\ proc' = [proc EXCEPT ![p].pc = "unlock", ![p].status = "OK"]
    /\ UNCHANGED <<register, slot, files, lock, drawn, events, user>>

\* fsync of the vault directory and the readback: PV_OK, or the change stands
\* and its durability is not known.
Confirm(p) ==
    /\ proc[p].pc = "confirm"
    /\ \/ /\ may' = {cur}
          /\ proc' = [proc EXCEPT ![p].pc = "unlock", ![p].status = "OK"]
          /\ UNCHANGED events
       \/ /\ may' \in {may, {cur}}
          /\ proc' = [proc EXCEPT ![p].pc = "unlock", ![p].status = "DURABILITY"]
          /\ Event
    /\ UNCHANGED <<parent, issued, cur, client, slot, files, lock, drawn, user>>

-----------------------------------------------------------------------------
(***************************************************************************)
(* What the command prints, and what the user makes of it.                 *)
(***************************************************************************)

\* The command returns to the shell.
Done(p) ==
    /\ proc' = [proc EXCEPT ![p] = Idle]
    /\ client' = [client EXCEPT ![p] = NoClient]

\* After "Master password updated" or a verified restore only the password now
\* in the vault is of use; after a passwd that failed the new one never was.  Whoever
\* is told that the update reached the vault keeps both.  An init that fails may have
\* created the vault and say nothing of it (pv_recovery_encode): its password is kept.
Heard(p) ==
    LET pwd == proc[p].slots.pwd IN
    obsolete' = CASE proc[p].cmd \in {"passwd", "restore"} /\ proc[p].status = "OK" ->
                         memory \ {pwd}
                  [] proc[p].cmd \in {"passwd", "restore"} /\ proc[p].status = "DURABILITY" ->
                         {}
                  [] proc[p].cmd = "passwd" /\ proc[p].status = "ERROR" ->
                         obsolete \cup {pwd}
                  [] OTHER -> obsolete

\* What "updated" and "is now invalid" say of the slot that was opened.
NowInvalid(p, cmd, c) == IF proc[p].cmd = cmd /\ proc[p].status = "OK" THEN {c} ELSE {}

\* A mutant: rotate deletes the new key file unless the save is PV_OK.
KeepsOutputOnlyIfOk(p) == proc[p].status = "OK" \/ ~proc[p].created

\* rotate keeps the new key file after an uncertain commit.
KeepsOutput(p) == proc[p].status \in Committed \/ ~proc[p].created

\* unlock_vault, then the rest of each command: init makes its key file, rotate
\* deletes the one it wrote when the save failed, the others report.
Unlock(p) ==
    /\ proc[p].pc = "unlock"
    /\ lock' = IF lock = p THEN NoProc ELSE lock
    /\ \/ /\ proc[p].cmd = "init" /\ proc[p].status \in Committed
          /\ Goto(p, "encode")
          /\ UNCHANGED <<client, obsolete, replaced>>
       \/ /\ proc[p].cmd = "rotate" /\ ~KeepsOutput(p)
          /\ Goto(p, "unlink")
          /\ UNCHANGED <<client, obsolete, replaced>>
       \/ /\ proc[p].cmd = "init" => proc[p].status \notin Committed
          /\ proc[p].cmd = "rotate" => KeepsOutput(p)
          /\ Heard(p)
          /\ oldPwds' = oldPwds \cup NowInvalid(p, "passwd", slot[client[p].of].pwd)
          /\ oldKeys' = oldKeys \cup NowInvalid(p, "rotate", slot[client[p].of].rec)
          /\ Done(p)
    /\ UNCHANGED <<vaultFile, slot, files, drawn, events, memory, initial, rolled, lost>>

\* (void)unlink(output), without an fsync.
UnlinkNewKey(p) == proc[p].pc = "unlink" /\ UnlinkOutput(p, "report")

\* The end of init, and of a rotate that failed.  init returns the status of its
\* recovery text and file, or else that of the commit.  It says that the vault was
\* created when the file was written, or could not be; not when the text was not made.
Report(p) ==
    /\ proc[p].pc = "report"
    /\ initial' = IF proc[p].cmd = "init" /\ proc[p].created
                  THEN initial \ {proc[p].key} ELSE initial
    /\ Done(p)
    /\ UNCHANGED <<vaultFile, slot, files, lock, drawn, events,
                   memory, obsolete, replaced, rolled, lost>>

-----------------------------------------------------------------------------
(***************************************************************************)
(* The user between commands, the kernel, and the power supply.            *)
(***************************************************************************)

AllIdle == \A p \in Procs : proc[p] = Idle

Forget ==
    /\ AllIdle
    /\ obsolete # {}
    /\ memory' = memory \ obsolete
    /\ obsolete' = {}
    /\ UNCHANGED <<register, slot, files, lock, proc, drawn, events,
                   replaced, initial, rolled, lost>>

\* The user deletes a key file that rotate called invalid.
Discard ==
    /\ AllIdle
    /\ \E x \in Paths :
        /\ recDir[x] \in oldKeys
        /\ ChangeRecDir([recDir EXCEPT ![x] = 0])
    /\ UNCHANGED <<register, slot, data, lock, proc, drawn, events, user>>

\* The user forgets every password, having been told of a recovery key.
LosePasswords ==
    /\ AllIdle
    /\ Event
    /\ initial = {} /\ ~rolled /\ ~lost
    /\ memory' = {}
    /\ obsolete' = {}
    /\ lost' = TRUE
    /\ UNCHANGED <<register, slot, files, lock, proc, drawn, replaced, initial, rolled>>

\* The kernel ends a command and releases its lock.  The user, who has not read
\* how it ended, keeps every password.
Kill(p) ==
    /\ proc[p] # Idle
    /\ Event
    /\ Done(p)
    /\ lock' = IF lock = p THEN NoProc ELSE lock
    /\ obsolete' = {}
    /\ UNCHANGED <<vaultFile, slot, files, drawn, memory, replaced, initial, rolled, lost>>

\* A power loss: the vault and the directory are what the disk had, and text that
\* was not fsynced may be gone.
Crash ==
    /\ Event
    /\ \E s \in may : cur' = s /\ may' = {s}
    /\ \E d \in recDisk : recDir' = d /\ recDisk' = {d}
    /\ data' = [k \in Creds |-> IF data[k] = "synced" THEN "synced" ELSE "empty"]
    /\ client' = [p \in Procs |-> NoClient]
    /\ proc' = [p \in Procs |-> Idle]
    /\ lock' = NoProc
    /\ obsolete' = {}
    /\ UNCHANGED <<parent, issued, slot, drawn, memory, replaced, initial, rolled, lost>>

Begin(p) ==
    BeginInit(p) \/ BeginPasswd(p) \/ BeginRotate(p) \/ BeginRestore(p) \/ BeginEdit(p)

WriteFile(p) ==
    \/ Encode(p) \/ SyncParent(p) \/ CreateFile(p) \/ WriteText(p) \/ SyncText(p) \/ SyncEntry(p)
    \/ UndoFile(p) \/ SyncUndo(p)

Commit(p) == LockVault(p) \/ Check(p) \/ Install(p) \/ Confirm(p)

Step(p) == WriteFile(p) \/ Commit(p) \/ Unlock(p) \/ UnlinkNewKey(p) \/ Report(p)

Next ==
    \/ \E p \in Procs : Begin(p) \/ Step(p) \/ Kill(p)
    \/ Forget \/ Discard \/ LosePasswords \/ Crash

Spec == Init /\ [][Next]_vars

-----------------------------------------------------------------------------
(***************************************************************************)
(* Properties.                                                             *)
(***************************************************************************)

\* The snapshots a process or a crash may show.
Shown == (may \cup {cur}) \ {0}

\* The file of key k is there, whole, whatever a crash leaves.
KeyFileHeld(k) ==
    /\ data[k] = "synced"
    /\ \A d \in recDisk \cup {recDir} : \E x \in Paths : d[x] = k

\* Whoever follows the messages can open the vault, now and after any crash: they
\* remember its password, or they lost it and the recovery file opens the vault.
CanOpen ==
    \A s \in Shown :
        slot[s].pwd \in memory \/ (lost /\ KeyFileHeld(slot[s].rec))

\* The recovery key of every snapshot a crash may show is in a whole, durable
\* file.  The exceptions are the ones the messages name: an init that has not
\* reported its file, and a restore that rolled back to a key already replaced.
RecoveryKeyKept ==
    \A s \in Shown :
        \/ KeyFileHeld(slot[s].rec)
        \/ slot[s].rec \in initial
        \/ rolled /\ slot[s].rec \in oldKeys

\* "Master password updated", "The previous key is now invalid": no crash and no
\* other command brings a replaced credential back, only a restore does.
ReplacedStaysReplaced ==
    rolled \/ \A s \in Shown : slot[s].pwd \notin oldPwds /\ slot[s].rec \notin oldKeys

\* The commands use the vault file as a compare-and-swap register.
Store == INSTANCE SnapshotRegister

UsesRegister == Store!Spec
=============================================================================
