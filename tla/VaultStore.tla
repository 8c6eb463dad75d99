----------------------------- MODULE VaultStore -----------------------------
(***************************************************************************)
(* The encrypted store of pvault (src/store.c): several pvault processes   *)
(* share one vault path.  Each process runs one command that writes the    *)
(* vault -- init (create), add/edit/remove/passwd/rotate (open, change,    *)
(* save) or restore -- and every command replaces the active snapshot by   *)
(* the same steps: flock, check, preserve what is there, write and fsync   *)
(* a temporary file, rename, fsync the directory, read back, prune.        *)
(*                                                                         *)
(* A snapshot is the exact bytes of an encrypted vault file.  Every        *)
(* encryption draws a fresh nonce, so equal bytes (equal hashes) means the *)
(* same encryption: a snapshot is a number, and the table snap records     *)
(* what decrypting it yields (vault id, generation) and, as history, the   *)
(* snapshot its writer had opened.                                         *)
(*                                                                         *)
(* A directory is what processes see (vdir, bdir) and the set of contents  *)
(* a power loss may leave (vdirDisk, bdirDisk): every content it has had   *)
(* since its last successful fsync, the kernel being free to write back at *)
(* any moment.  Any system call may fail.                                  *)
(***************************************************************************)
EXTENDS Naturals, FiniteSets

CONSTANTS
    Procs,            \* pvault processes
    NoProc,           \* nobody holds the lock
    MaxSnap,          \* bound: encryptions in a behaviour
    MaxEvents,        \* bound: failed calls, kills, crashes, restores, removals
    MaxGen,           \* the largest generation, UINT64_MAX in the code
    Retention,        \* config backup_retention, 1..1000
    OrderedMetadata   \* TRUE: changes of one directory reach the disk in order

ASSUME NoProcAssumption == NoProc \notin Procs

ASSUME BoundsAssumption ==
    /\ MaxSnap \in Nat \ {0}
    /\ MaxEvents \in Nat
    /\ MaxGen \in Nat \ {0}
    /\ Retention \in Nat \ {0}
    /\ OrderedMetadata \in BOOLEAN

Ids == 1..MaxSnap
Gens == 1..MaxGen

\* The name auto-v1-<vault id>-g<generation>.pvlt; a vault is named by the
\* snapshot that created it.
Names == Ids \X Gens

\* A directory entry: the snapshot the file holds and whether the file's data
\* was fsynced before the entry was published.  Torn is what a crash leaves when
\* it was not; Alien is a file of the user's that is no pvault snapshot.
File == [snap : 0..MaxSnap + 1, synced : BOOLEAN]
NoFile == [snap |-> 0, synced |-> TRUE]
Torn == [snap |-> 0, synced |-> FALSE]
Alien == [snap |-> MaxSnap + 1, synced |-> TRUE]

Exists(f) == f # NoFile
Readable(f) == f.snap \in Ids

SnapInfo == [vault : 0..MaxSnap, gen : 0..MaxGen, base : 0..MaxSnap]
VaultDir == [active : File, backups : BOOLEAN]
BackupsDir == [auto : [Names -> File], pre : SUBSET File]

EmptyBackups == [auto |-> [n \in Names |-> NoFile], pre |-> {}]

Commands == {"none", "create", "save", "restore"}

PCs == {"idle", "ready", "check", "mkdir", "backup", "bksync", "temp", "rename",
        "sync", "readback", "prune", "unlink", "unlinked", "prunesync", "unlock"}

Statuses == {"none", "OK", "DURABILITY", "IO", "LOCKED", "EXISTS", "AUTH",
             "LIMIT", "FORMAT"}

Committed == {"OK", "DURABILITY"}

\* The locals of one command: base is the snapshot the command found (its
\* source hash; 0 when there was none), new the snapshot it installs.
ProcState == [pc : PCs, op : Commands, base : 0..MaxSnap, new : 0..MaxSnap,
              tmp : File, status : Statuses, warn : BOOLEAN,
              victims : SUBSET Gens]

Idle == [pc |-> "idle", op |-> "none", base |-> 0, new |-> 0,
         tmp |-> NoFile, status |-> "none", warn |-> FALSE, victims |-> {}]

VARIABLES
    snap, used,         \* the snapshots encrypted so far
    vdir, vdirDisk,     \* the vault's directory, and what a crash may leave of it
    bdir, bdirDisk,     \* its subdirectory backups/, likewise
    lock,               \* who holds flock on <vault>.lock
    proc,               \* the processes
    events,             \* how many of the bounded events have happened
    acked,              \* history: the snapshot last reported PV_OK, 0 once replaced
    placed,             \* history: snapshots that have been under the vault path
    restored,           \* history: those a restore put there
    rolledBack          \* history: a crash has undone a rename

table == <<snap, used>>
vault == <<vdir, vdirDisk>>
backups == <<bdir, bdirDisk>>
hist == <<acked, placed, restored, rolledBack>>
vars == <<table, vault, backups, lock, proc, events, hist>>

Init ==
    /\ snap = [i \in Ids |-> [vault |-> 0, gen |-> 0, base |-> 0]]
    /\ used = 0
    /\ vdir = [active |-> NoFile, backups |-> FALSE]
    /\ vdirDisk = {vdir}
    /\ bdir = EmptyBackups
    /\ bdirDisk = {bdir}
    /\ lock = NoProc
    /\ proc = [p \in Procs |-> Idle]
    /\ events = 0
    /\ acked = 0
    /\ placed = {}
    /\ restored = {}
    /\ rolledBack = FALSE

-----------------------------------------------------------------------------
(***************************************************************************)
(* Steps shared by the commands.                                           *)
(***************************************************************************)

Event == events < MaxEvents /\ events' = events + 1

Goto(p, label) == proc' = [proc EXCEPT ![p].pc = label]

\* The status is set and only the unlock is left: a check of the code refuses,
\* or a system call fails.
Return(p, s) ==
    /\ proc' = [proc EXCEPT ![p].pc = "unlock", ![p].status = s]
    /\ UNCHANGED <<table, vault, backups, lock, hist>>
Refuse(p, s) == Return(p, s) /\ UNCHANGED events
Fail(p, s) == Return(p, s) /\ Event

\* A change of a directory not yet fsynced: a crash may or may not show it.
ChangeVaultDir(d) == vdir' = d /\ vdirDisk' = vdirDisk \cup {d}
ChangeBackups(d) == bdir' = d /\ bdirDisk' = bdirDisk \cup {d}

\* pv_crypto_encrypt_body: the next snapshot, with a nonce never used before.
\* Beyond the bound encryption fails.
Encrypt(p, info, label) ==
    \/ /\ used < MaxSnap
       /\ used' = used + 1
       /\ snap' = [snap EXCEPT ![used + 1] = info]
       /\ proc' = [proc EXCEPT ![p].pc = label, ![p].new = used + 1]
       /\ UNCHANGED <<vault, backups, lock, events, hist>>
    \/ used = MaxSnap /\ Refuse(p, "IO")

\* open_common: add, edit, remove, passwd and rotate read the active snapshot
\* without the lock.  A failed open changes nothing.
Open(p) ==
    /\ proc[p] = Idle
    /\ Readable(vdir.active)
    /\ proc' = [proc EXCEPT ![p] = [Idle EXCEPT !.pc = "ready", !.op = "save",
                                                !.base = vdir.active.snap]]
    /\ UNCHANGED <<table, vault, backups, lock, events, hist>>

\* init starts with nothing in memory.
BeginCreate(p) ==
    /\ proc[p] = Idle
    /\ proc' = [proc EXCEPT ![p] = [Idle EXCEPT !.pc = "ready", !.op = "create"]]
    /\ UNCHANGED <<table, vault, backups, lock, events, hist>>

\* restore takes any path: a file of backups/, or a copy made elsewhere of what has
\* been under the vault path.  It authenticates the file, asks, and reads it again:
\* the second read must have the hash of the first, so one read stands for both.
ReadBackup(p) ==
    /\ proc[p] = Idle
    /\ Event
    /\ \E s \in placed :
        proc' = [proc EXCEPT ![p] = [Idle EXCEPT !.pc = "ready", !.op = "restore", !.new = s]]
    /\ UNCHANGED <<table, vault, backups, lock, hist>>

\* A mutant: the result of flock is ignored.
LockVaultShared(p) ==
    /\ proc[p].pc = "ready"
    /\ lock' = p
    /\ Goto(p, "check")
    /\ UNCHANGED <<table, vault, backups, events, hist>>

\* lock_vault: flock(LOCK_EX | LOCK_NB), no waiting.
LockVault(p) ==
    /\ proc[p].pc = "ready"
    /\ \/ /\ lock = NoProc
          /\ lock' = p
          /\ Goto(p, "check")
          /\ UNCHANGED <<table, vault, backups, events, hist>>
       \/ lock # NoProc /\ Refuse(p, "LOCKED")
       \/ Fail(p, "IO")

\* A mutant: an error path returns without unlocking.
UnlockOnSuccess(p) ==
    /\ proc[p].pc = "unlock"
    /\ lock' = IF lock = p /\ proc[p].status \in Committed THEN NoProc ELSE lock
    /\ proc' = [proc EXCEPT ![p] = Idle]
    /\ UNCHANGED <<table, vault, backups, events, hist>>

\* unlock_vault and the return of the command's status.
Unlock(p) ==
    /\ proc[p].pc = "unlock"
    /\ lock' = IF lock = p THEN NoProc ELSE lock
    /\ proc' = [proc EXCEPT ![p] = Idle]
    /\ acked' = IF proc[p].status = "OK" THEN proc[p].new ELSE acked
    /\ UNCHANGED <<table, vault, backups, events, placed, restored, rolledBack>>

-----------------------------------------------------------------------------
(***************************************************************************)
(* The checks each command makes once it holds the lock.                   *)
(***************************************************************************)

\* create_common and save_locked(create_only): nothing may be there.
CheckCreate(p) ==
    /\ proc[p].pc = "check" /\ proc[p].op = "create"
    /\ \/ Exists(vdir.active) /\ Refuse(p, "EXISTS")
       \/ /\ ~Exists(vdir.active)
          /\ Encrypt(p, [vault |-> used + 1, gen |-> 1, base |-> 0], "temp")
       \/ Fail(p, "IO")

\* A mutant: the limit is tested after the increment.
AtLimitLate(gen) == gen = MaxGen + 1

AtLimit(gen) == gen = MaxGen

\* A mutant: the vault ids are compared, the hashes are not.
SameSourceById(p) ==
    /\ Readable(vdir.active)
    /\ snap[vdir.active.snap].vault = snap[proc[p].base].vault

\* The hash of the active file is the hash taken when it was opened.
SameSource(p) == vdir.active.snap = proc[p].base

\* save_locked: the active file must still be the snapshot that was opened.
CheckSave(p) ==
    /\ proc[p].pc = "check" /\ proc[p].op = "save"
    /\ LET old == snap[proc[p].base] IN
       \/ AtLimit(old.gen) /\ Refuse(p, "LIMIT")
       \/ /\ ~AtLimit(old.gen)
          /\ \/ /\ ~SameSource(p)
                /\ Refuse(p, IF Exists(vdir.active) /\ ~Readable(vdir.active)
                             THEN "FORMAT" ELSE "LOCKED")
             \/ /\ SameSource(p)
                /\ Encrypt(p, [vault |-> old.vault, gen |-> old.gen + 1,
                               base |-> proc[p].base], "mkdir")
             \/ Fail(p, "IO")

\* pv_store_restore: any snapshot of the same vault may be replaced.
CheckRestore(p) ==
    /\ proc[p].pc = "check" /\ proc[p].op = "restore"
    /\ \/ /\ ~Exists(vdir.active)
          /\ Goto(p, "temp")
          /\ UNCHANGED <<table, vault, backups, lock, events, hist>>
       \/ /\ Exists(vdir.active) /\ ~Readable(vdir.active)
          /\ Refuse(p, "EXISTS")
       \/ /\ Readable(vdir.active)
          /\ snap[vdir.active.snap].vault # snap[proc[p].new].vault
          /\ Refuse(p, "AUTH")
       \/ /\ Readable(vdir.active)
          /\ snap[vdir.active.snap].vault = snap[proc[p].new].vault
          /\ proc' = [proc EXCEPT ![p].pc = "mkdir", ![p].base = vdir.active.snap]
          /\ UNCHANGED <<table, vault, backups, lock, events, hist>>
       \/ Fail(p, "IO")

-----------------------------------------------------------------------------
(***************************************************************************)
(* Preserving the snapshot about to be replaced: automatic_backup for a    *)
(* save, copy_file_exclusive_at to pre-restore-* for a restore.            *)
(***************************************************************************)

\* make_private_directory_at: only the call that creates backups/ fsyncs its
\* parent, and a failed fsync leaves the new directory in place.
MakeBackupsDir(p) ==
    /\ proc[p].pc = "mkdir"
    /\ \/ /\ vdir.backups
          /\ Goto(p, "backup")
          /\ UNCHANGED <<table, vault, backups, lock, events, hist>>
       \/ /\ ~vdir.backups
          /\ vdir' = [vdir EXCEPT !.backups = TRUE]
          /\ vdirDisk' = {vdir'}
          /\ Goto(p, "backup")
          /\ UNCHANGED <<table, backups, lock, events, hist>>
       \/ /\ ~vdir.backups
          /\ ChangeVaultDir([vdir EXCEPT !.backups = TRUE])
          /\ proc' = [proc EXCEPT ![p].pc = "unlock", ![p].status = "IO"]
          /\ Event
          /\ UNCHANGED <<table, backups, lock, hist>>
       \/ Fail(p, "IO")

\* A mutant: the temporary file is not fsynced.
TmpFileUnsynced(id) == [snap |-> id, synced |-> FALSE]

\* What write_all and fsync leave of an O_EXCL temporary file.
TmpFile(id) == [snap |-> id, synced |-> TRUE]

\* format_automatic_backup_name: the generation being replaced.
AutoName(p) == <<snap[proc[p].base].vault, snap[proc[p].base].gen>>

\* A mutant: a name that is taken is never accepted.
NeverSameBytes(p) == FALSE

SameBytes(p) == bdir.auto[AutoName(p)].snap = proc[p].base

\* automatic_backup: write, fsync and rename(no_replace) to the automatic name.  A
\* name that is taken is accepted only when it holds the very same bytes.
AutomaticBackup(p) ==
    /\ proc[p].op = "save"
    /\ \/ /\ ~Exists(bdir.auto[AutoName(p)])
          /\ ChangeBackups([bdir EXCEPT !.auto[AutoName(p)] = TmpFile(proc[p].base)])
          /\ Goto(p, "bksync")
          /\ UNCHANGED <<table, vault, lock, events, hist>>
       \/ /\ SameBytes(p)
          /\ Goto(p, "bksync")
          /\ UNCHANGED <<table, vault, backups, lock, events, hist>>
       \/ /\ Exists(bdir.auto[AutoName(p)])
          /\ ~SameBytes(p)
          /\ Refuse(p, "EXISTS")

\* copy_file_exclusive_at: the active file goes to a fresh pre-restore-* name.
PreRestoreCopy(p) ==
    /\ proc[p].op = "restore"
    /\ ChangeBackups([bdir EXCEPT !.pre = @ \cup {TmpFile(vdir.active.snap)}])
    /\ Goto(p, "bksync")
    /\ UNCHANGED <<table, vault, lock, events, hist>>

PublishBackup(p) ==
    /\ proc[p].pc = "backup"
    /\ AutomaticBackup(p) \/ PreRestoreCopy(p) \/ Fail(p, "IO")

\* A mutant: the backup is published and not fsynced.
SyncBackupSkipped(p) ==
    /\ proc[p].pc = "bksync"
    /\ Goto(p, "temp")
    /\ UNCHANGED <<table, vault, backups, lock, events, hist>>

\* fsync(backups/), after publishing or after finding the same bytes there.
SyncBackup(p) ==
    /\ proc[p].pc = "bksync"
    /\ \/ /\ bdirDisk' = {bdir}
          /\ Goto(p, "temp")
          /\ UNCHANGED <<table, vault, bdir, lock, events, hist>>
       \/ Fail(p, "IO")

-----------------------------------------------------------------------------
(***************************************************************************)
(* write_atomic_at and the readback.                                       *)
(***************************************************************************)

\* revalidate_store_location, then the temporary file of the new snapshot.
WriteTemp(p) ==
    /\ proc[p].pc = "temp"
    /\ \/ /\ proc' = [proc EXCEPT ![p].pc = "rename",
                                   ![p].tmp = TmpFile(proc[p].new)]
          /\ UNCHANGED <<table, vault, backups, lock, events, hist>>
       \/ Fail(p, "LOCKED")
       \/ Fail(p, "IO")

\* rename over the active path; no_replace when nothing was there.
Rename(p) ==
    /\ proc[p].pc = "rename"
    /\ \/ /\ proc[p].base = 0 => ~Exists(vdir.active)
          /\ ChangeVaultDir([vdir EXCEPT !.active = proc[p].tmp])
          /\ Goto(p, "sync")
          /\ acked' = 0
          /\ placed' = placed \cup {proc[p].new}
          /\ restored' = IF proc[p].op = "restore"
                         THEN restored \cup {proc[p].new} ELSE restored
          /\ UNCHANGED <<table, backups, lock, events, rolledBack>>
       \/ proc[p].base = 0 /\ Exists(vdir.active) /\ Refuse(p, "EXISTS")
       \/ Fail(p, "IO")

\* A mutant: the vault's directory is not fsynced.
SyncVaultDirSkipped(p) ==
    /\ proc[p].pc = "sync"
    /\ Goto(p, "readback")
    /\ UNCHANGED <<table, vault, backups, lock, events, hist>>

\* A mutant: a failed fsync after the rename is an ordinary error.
SyncVaultDirFails(p) ==
    /\ proc[p].pc = "sync"
    /\ \/ SyncVaultDirSkipped(p)
       \/ Fail(p, "IO")

\* fsync(vault directory); a failure is only a warning, the rename stands.
SyncVaultDir(p) ==
    /\ proc[p].pc = "sync"
    /\ \/ /\ vdirDisk' = {vdir}
          /\ Goto(p, "readback")
          /\ UNCHANGED events
       \/ /\ proc' = [proc EXCEPT ![p].pc = "readback", ![p].warn = TRUE]
          /\ Event
          /\ UNCHANGED vdirDisk
    /\ UNCHANGED <<table, vdir, backups, lock, hist>>

\* The installed bytes are read and compared.  Only a verified commit without
\* warnings is PV_OK, and only such a save goes on to prune.
Readback(p) ==
    /\ proc[p].pc = "readback"
    /\ \/ /\ vdir.active.snap = proc[p].new
          /\ ~proc[p].warn
          /\ proc' = [proc EXCEPT ![p].status = "OK",
                        ![p].pc = IF proc[p].op = "save" THEN "prune" ELSE "unlock"]
          /\ UNCHANGED <<table, vault, backups, lock, events, hist>>
       \/ /\ proc[p].warn \/ vdir.active.snap # proc[p].new
          /\ Refuse(p, "DURABILITY")
       \/ Fail(p, "DURABILITY")

-----------------------------------------------------------------------------
(***************************************************************************)
(* prune_automatic_backups.  Its result is ignored by the save.            *)
(***************************************************************************)

\* The automatic backups of this vault, and those at or below the generation
\* the save replaced.
Present(v) == {g \in Gens : Exists(bdir.auto[<<v, g>>])}
Candidates(v, max) == {g \in Present(v) : g <= max}

\* validate_automatic_backup_entry: the file decrypts to what its name says.
Valid(v, g) ==
    LET f == bdir.auto[<<v, g>>] IN
    /\ Readable(f)
    /\ snap[f.snap].vault = v
    /\ snap[f.snap].gen = g

\* A mutant: one backup fewer is kept.
ExcessByOne(cands) ==
    {g \in cands : Cardinality({h \in cands : h > g}) + 1 >= Retention}

\* A mutant: the candidates are sorted the other way.
ExcessNewest(cands) ==
    {g \in cands : Cardinality({h \in cands : h < g}) >= Retention}

\* All but the Retention newest.
Excess(cands) ==
    {g \in cands : Cardinality({h \in cands : h > g}) >= Retention}

\* The scan: one suspicious entry ends the pass before anything is deleted.
PruneScan(p) ==
    /\ proc[p].pc = "prune"
    /\ LET v == snap[proc[p].base].vault
           old == Excess(Candidates(v, snap[proc[p].base].gen))
           sound == \A g \in Present(v) : Valid(v, g)
       IN  \/ /\ sound /\ old # {}
              /\ proc' = [proc EXCEPT ![p].pc = "unlink", ![p].victims = old]
              /\ UNCHANGED events
           \/ /\ ~sound \/ old = {}
              /\ Goto(p, "unlock")
              /\ UNCHANGED events
           \/ Goto(p, "unlock") /\ Event
    /\ UNCHANGED <<table, vault, backups, lock, hist>>

\* A mutant: the entries are deleted as the directory lists them.
AnyVictim(g, victims) == TRUE

\* The deletions begin with the oldest.
NextVictim(g, victims) == \A h \in victims : g <= h

\* The deletions; a failure ends the pass.
PruneUnlink(p) ==
    /\ proc[p].pc \in {"unlink", "unlinked"}
    /\ \/ /\ \E g \in proc[p].victims :
               /\ NextVictim(g, proc[p].victims)
               /\ ChangeBackups([bdir EXCEPT
                                   !.auto[<<snap[proc[p].base].vault, g>>] = NoFile])
               /\ proc' = [proc EXCEPT
                             ![p].victims = @ \ {g},
                             ![p].pc = IF proc[p].victims = {g} THEN "prunesync"
                                       ELSE "unlinked"]
          /\ UNCHANGED events
       \/ /\ Goto(p, IF proc[p].pc = "unlink" THEN "unlock" ELSE "prunesync")
          /\ Event
          /\ UNCHANGED backups
    /\ UNCHANGED <<table, vault, lock, hist>>

\* fsync(backups/) once something was deleted, whatever ended the pass.
PruneSync(p) ==
    /\ proc[p].pc = "prunesync"
    /\ Goto(p, "unlock")
    /\ \/ bdirDisk' = {bdir} /\ UNCHANGED events
       \/ UNCHANGED bdirDisk /\ Event
    /\ UNCHANGED <<table, vault, bdir, lock, hist>>

-----------------------------------------------------------------------------
(***************************************************************************)
(* The environment: a killed process, the user, a power loss.              *)
(***************************************************************************)

\* The kernel releases the flock of a process that dies.
Kill(p) ==
    /\ proc[p] # Idle
    /\ Event
    /\ proc' = [proc EXCEPT ![p] = Idle]
    /\ lock' = IF lock = p THEN NoProc ELSE lock
    /\ UNCHANGED <<table, vault, backups, hist>>

\* The user moves the vault file away, between two commands: how a restore or
\* an init meets an absent path, and backups of another vault.
RemoveActive ==
    /\ lock = NoProc
    /\ Exists(vdir.active)
    /\ Event
    /\ ChangeVaultDir([vdir EXCEPT !.active = NoFile])
    /\ acked' = 0
    /\ UNCHANGED <<table, backups, lock, proc, placed, restored, rolledBack>>

\* The user puts some other file where the vault is missing, at any moment, also
\* between a command's check and its rename.
PlaceAlien ==
    /\ ~Exists(vdir.active)
    /\ Event
    /\ ChangeVaultDir([vdir EXCEPT !.active = Alien])
    /\ UNCHANGED <<table, backups, lock, proc, hist>>

AfterCrash(f) == IF f.synced THEN f ELSE Torn

\* What the journal may hold: a content the directory has had, or, when its
\* changes are not ordered, any mixture of entries it has had.
CrashVaultDirs ==
    IF OrderedMetadata THEN vdirDisk
    ELSE {[active |-> d.active, backups |-> e.backups] : d, e \in vdirDisk}

\* Entries that did not reach the disk are gone, with all that is below them.
Crash ==
    /\ Event
    /\ \E d \in CrashVaultDirs, e \in bdirDisk :
        /\ vdir' = [d EXCEPT !.active = AfterCrash(@)]
        /\ bdir' = IF d.backups
                   THEN [auto |-> [n \in Names |-> AfterCrash(e.auto[n])],
                         pre |-> {AfterCrash(f) : f \in e.pre}]
                   ELSE EmptyBackups
    /\ vdirDisk' = {vdir'}
    /\ bdirDisk' = {bdir'}
    /\ lock' = NoProc
    /\ proc' = [p \in Procs |-> Idle]
    /\ rolledBack' = (rolledBack \/ vdir'.active # vdir.active)
    /\ UNCHANGED <<table, acked, placed, restored>>

-----------------------------------------------------------------------------
Start(p) == Open(p) \/ BeginCreate(p) \/ ReadBackup(p)

Check(p) == CheckCreate(p) \/ CheckSave(p) \/ CheckRestore(p)

Step(p) ==
    \/ LockVault(p) \/ Check(p)
    \/ MakeBackupsDir(p) \/ PublishBackup(p) \/ SyncBackup(p)
    \/ WriteTemp(p) \/ Rename(p) \/ SyncVaultDir(p) \/ Readback(p)
    \/ PruneScan(p) \/ PruneUnlink(p) \/ PruneSync(p)
    \/ Unlock(p)

Next ==
    \/ \E p \in Procs : Start(p) \/ Step(p) \/ Kill(p)
    \/ RemoveActive \/ PlaceAlien \/ Crash

Spec == Init /\ [][Next]_vars

\* A running process is scheduled until its command returns.
FairSpec == Spec /\ \A p \in Procs : WF_vars(Step(p))

-----------------------------------------------------------------------------
(***************************************************************************)
(* Properties.                                                             *)
(***************************************************************************)

\* Every variable has its type; in particular the generation never passes the
\* largest one (the UINT64_MAX test of save_locked).
TypeOK ==
    /\ snap \in [Ids -> SnapInfo]
    /\ used \in 0..MaxSnap
    /\ vdir \in VaultDir
    /\ vdirDisk \in SUBSET VaultDir
    /\ bdir \in BackupsDir
    /\ bdirDisk \in SUBSET BackupsDir
    /\ lock \in Procs \cup {NoProc}
    /\ proc \in [Procs -> ProcState]
    /\ events \in 0..MaxEvents
    /\ acked \in 0..MaxSnap
    /\ placed \in SUBSET (1..used)
    /\ restored \in SUBSET Ids
    /\ rolledBack \in BOOLEAN

\* The step of p that replaces the active snapshot.
Installs(p) == proc[p].pc = "rename" /\ proc'[p].pc = "sync"

\* No lost update: a save replaces exactly the snapshot its process had opened,
\* with the next generation of the same vault, however many other saves and
\* restores ran between the unlocked open and the rename (the hash comparison
\* of save_locked under the flock).
NoLostUpdate ==
    [][\A p \in Procs :
          Installs(p) /\ proc[p].op = "save" =>
            LET old == snap[vdir.active.snap]
                new == snap'[vdir'.active.snap]
            IN  /\ Readable(vdir.active)
                /\ new.base = vdir.active.snap
                /\ new.vault = old.vault
                /\ new.gen = old.gen + 1]_vars

\* Nothing is overwritten that is not already preserved on the disk: when a
\* rename replaces a snapshot, a synchronised backup of it exists (an automatic
\* one for a save, a pre-restore one for a restore), and a create replaces
\* nothing.
PreservedBeforeReplaced ==
    [][\A p \in Procs :
          Installs(p) =>
            CASE proc[p].op = "create" -> ~Exists(vdir.active)
              [] proc[p].op = "save" ->
                    \A e \in bdirDisk : e.auto[AutoName(p)] = vdir.active
              [] proc[p].op = "restore" ->
                    Exists(vdir.active) =>
                        \A e \in bdirDisk : vdir.active \in e.pre]_vars

\* The predecessor of the active snapshot can be restored at every moment, and
\* after every crash: the automatic backup a save made survives its own pruning,
\* failed fsyncs, retries and power loss.  (A snapshot a restore brought back may
\* have lost its predecessor to pruning long ago.)
Kept(d, e) ==
    LET s == snap[d.active.snap] IN
    Readable(d.active) /\ s.base # 0 /\ d.active.snap \notin restored =>
        d.backups /\ e.auto[<<s.vault, s.gen - 1>>].snap = s.base

PredecessorKept ==
    \A d \in CrashVaultDirs \cup {vdir}, e \in bdirDisk \cup {bdir} : Kept(d, e)

\* What a command reported as PV_OK is on the disk: until the next rename no
\* crash and no later failing command brings anything else back.
AckedSurvives ==
    acked # 0 => \A d \in vdirDisk \cup {vdir} : d.active.snap = acked

\* The files of backups/.
BackupFiles == bdir.pre \cup {bdir.auto[n] : n \in Names}

\* A create or save that reports an error other than PV_ERR_DURABILITY has left
\* no trace of its snapshot under the vault path or in the backups, so rotate may
\* delete the recovery key it had written for it.
ErrorMeansNotCommitted ==
    \A p \in Procs :
        /\ proc[p].pc = "unlock"
        /\ proc[p].status \notin Committed
        /\ proc[p].op \in {"create", "save"}
        /\ proc[p].new # 0
        => /\ \A d \in vdirDisk \cup {vdir} : d.active.snap # proc[p].new
           /\ \A f \in BackupFiles : f.snap # proc[p].new

\* No crash leaves a file under a final name whose contents were not fsynced.
SnapshotsIntact ==
    /\ vdir.active # Torn
    /\ Torn \notin BackupFiles

\* Pruning deletes the oldest backup of a vault, and only while Retention newer
\* ones stay, on the disk as well: wherever a pass stops, what is left are the
\* newest.
RetentionFloor ==
    [][\A v \in Ids, g \in Gens :
          /\ lock' # NoProc
          /\ Exists(bdir.auto[<<v, g>>])
          /\ ~Exists(bdir'.auto[<<v, g>>])
          => /\ Cardinality({h \in Gens : h > g /\ Exists(bdir'.auto[<<v, h>>])})
                   >= Retention
             /\ \A h \in Gens : Exists(bdir'.auto[<<v, h>>])
                   => h > g /\ \A e \in bdirDisk : Exists(e.auto[<<v, h>>])]_vars

\* A save is refused because its backup name is taken by other bytes only when
\* the history of the vault has branched: after a restore, or after a power loss
\* that undid a rename.
CollisionNeedsBranch ==
    \A p \in Procs :
        proc[p].op = "save" /\ proc[p].status = "EXISTS"
            => restored # {} \/ rolledBack

\* Every command that takes the lock gives it back, whatever fails on the way.
LockReleased == \A p \in Procs : lock = p ~> lock # p

\* The store is a compare-and-swap register (SnapshotRegister): seen through the
\* active file, a save or restore happens in its rename and a crash brings back
\* a value not older than the last confirmed one.
Register ==
    INSTANCE SnapshotRegister WITH
        parent <- [i \in Ids |-> snap[i].base],
        issued <- used,
        cur <- vdir.active.snap,
        may <- {d.active.snap : d \in vdirDisk},
        client <- [p \in Procs |->
                     [want |-> proc[p].op,
                      of |-> CASE proc[p].op = "save" -> proc[p].base
                               [] proc[p].op = "restore" -> proc[p].new
                               [] OTHER -> 0]]

ImplementsRegister == Register!Spec

\* FORMAT.md section 10 lists the fsync of the new snapshot (3) before the
\* preservation of the previous one (4).
DocumentedWriterOrder ==
    [][\A p \in Procs :
          /\ proc[p].op = "save"
          /\ proc[p].pc = "backup" /\ proc'[p].pc = "bksync"
          => proc[p].tmp = [snap |-> proc[p].new, synced |-> TRUE]]_vars
=============================================================================
