------------------------- MODULE VaultStoreTheorems -------------------------
(***************************************************************************)
(* What the inductive invariant of VaultStore gives, for any number of     *)
(* processes, snapshots, generations and failures: the properties of the   *)
(* store, that the store implements SnapshotRegister, and what pruning     *)
(* keeps.                                                                  *)
(***************************************************************************)
EXTENDS VaultStoreProofs

\* Every variable keeps its type; the generation of a snapshot never passes the
\* largest one, because save_locked refuses with PV_ERR_LIMIT first.
THEOREM TypeCorrect == Spec => []TypeOK
<1>1. IInv => TypeOK
    BY Zenon DEF IInv
<1>2. QED
    BY <1>1, Invariance, PTL

\* What a command reported as PV_OK is what every crash leaves, until the next
\* rename (the fsync of the directory and the readback before PV_OK).
THEOREM AckedSurvivesHolds == Spec => []AckedSurvives
<1>1. IInv => AckedSurvives
    BY Zenon DEF IInv
<1>2. QED
    BY <1>1, Invariance, PTL

\* No crash leaves a file under a final name whose contents were not fsynced
\* (the temporary file is fsynced before its rename, everywhere).
THEOREM SnapshotsIntactHolds == Spec => []SnapshotsIntact
<1>1. IInv => SnapshotsIntact
    BY DEF IInv, FilesInv, SnapshotsIntact, BackupFiles, Torn
<1>2. QED
    BY <1>1, Invariance, PTL

-----------------------------------------------------------------------------
(***************************************************************************)
(* The rename.                                                             *)
(***************************************************************************)

\* Steps that keep p from going from "rename" to "sync".
LEMMA NotInstalled ==
    ASSUME IInv, NEW p \in Procs, NEW o \in Procs,
           Start(o) \/ Step(o) \/ Kill(o), ~Rename(p)
    PROVE  ~Installs(p)
<1> SUFFICES ASSUME proc[p].pc = "rename", proc'[p].pc = "sync" PROVE FALSE
    BY Zenon DEF Installs
<1>1. proc \in [Procs -> ProcState]
    BY Zenon DEF IInv, TypeOK
<1>2. CASE o # p
  <2>1. proc'[p] = proc[p]
    BY Zenon, <1>2, OwnLocals
  <2>2. QED
    BY Zenon, <2>1
<1>3. CASE o = p
  <2>0. Idle.pc = "idle"
    BY Zenon DEF Idle
  <2>1. CASE Start(p) \/ Kill(p)
    BY Zenon, <1>1, <2>0, <2>1 DEF Start, Open, BeginCreate, ReadBackup, Kill
  <2>2. CASE Step(p)
    BY Zenon, <2>2 DEF Step, LockVault, Check, CheckCreate, CheckSave, CheckRestore,
                MakeBackupsDir, PublishBackup, AutomaticBackup, PreRestoreCopy, SyncBackup,
                WriteTemp, SyncVaultDir,
                Readback, PruneScan, PruneUnlink, PruneSync, Unlock
  <2>3. QED
    BY Zenon, <1>3, <2>1, <2>2
<1>4. QED
    BY Zenon, <1>2, <1>3

\* A step that installs a snapshot is the successful rename, of a process whose
\* locals satisfy the invariant.
LEMMA InstallFacts ==
    ASSUME IInv, [Next]_vars, NEW p \in Procs, Installs(p)
    PROVE  /\ CommandInv(p) /\ proc[p].pc = "rename"
           /\ proc[p].base = 0 => ~Exists(vdir.active)
           /\ vdir'.active = TmpFile(proc[p].new)
           /\ UNCHANGED <<snap, used>>
<1>1. Rename(p)
  <2>1. CASE UNCHANGED vars
    BY Zenon, <2>1 DEF vars, Installs
  <2>2. CASE RemoveActive \/ PlaceAlien
    BY Zenon, <2>2 DEF RemoveActive, PlaceAlien, Installs
  <2>3. CASE Crash
    BY Zenon, <2>3 DEF Crash, Installs, Idle
  <2>4. QED
    BY Zenon, <2>1, <2>2, <2>3, NotInstalled DEF Next
<1>2. CommandInv(p) /\ proc[p].pc = "rename"
    BY Zenon DEF IInv, ProcInv, Installs
<1>3. proc[p].tmp = TmpFile(proc[p].new)
    BY Zenon, <1>2 DEF CommandInv, InstallInv
<1>4. ~Return(p, "EXISTS") /\ ~Return(p, "IO")
    BY DEF Return, Installs, IInv, TypeOK, ProcState
<1>5. /\ proc[p].base = 0 => ~Exists(vdir.active)
      /\ vdir' = [vdir EXCEPT !.active = proc[p].tmp]
      /\ UNCHANGED <<snap, used>>
    BY Zenon, <1>1, <1>4 DEF Rename, Refuse, Fail, ChangeVaultDir, table
<1>6. vdir'.active = TmpFile(proc[p].new)
    BY Zenon, <1>3, <1>5 DEF IInv, TypeOK, VaultDir
<1>7. QED
    BY Zenon, <1>2, <1>5, <1>6

\* A save replaces exactly the snapshot its process opened, by the next generation
\* of the same vault, whatever other processes did in between: the comparison of
\* hashes in save_locked, under the lock, loses no update.
THEOREM NoLostUpdateHolds == Spec => NoLostUpdate
<1>1. ASSUME IInv, [Next]_vars, NEW p \in Procs, Installs(p), proc[p].op = "save"
      PROVE  LET old == snap[vdir.active.snap]
                 new == snap'[vdir'.active.snap]
             IN  /\ Readable(vdir.active)
                 /\ new.base = vdir.active.snap
                 /\ new.vault = old.vault
                 /\ new.gen = old.gen + 1
  <2>1. /\ CommandInv(p) /\ proc[p].pc = "rename"
        /\ vdir'.active = TmpFile(proc[p].new) /\ snap' = snap
    BY Zenon, <1>1, InstallFacts
  <2>2. /\ proc[p].base \in 1..used /\ vdir.active.snap = proc[p].base
        /\ proc[p].new \in 1..used /\ snap[proc[p].new].base = proc[p].base
    BY Zenon, <1>1, <2>1 DEF CommandInv, SaveInv, BeforeRename
  <2>3. vdir'.active.snap = proc[p].new
    BY <2>1 DEF TmpFile
  <2>4. /\ snap[proc[p].new].vault = snap[proc[p].base].vault
        /\ snap[proc[p].new].gen = snap[proc[p].base].gen + 1
    BY <1>1, <2>2 DEF IInv, TableInv
  <2>5. Readable(vdir.active)
    BY <1>1, <2>2, BoundsAssumption DEF IInv, TypeOK, Readable, Ids
  <2>6. QED
    BY Zenon, <2>1, <2>2, <2>3, <2>4, <2>5
<1>2. IInv /\ [Next]_vars =>
        [\A p \in Procs :
           Installs(p) /\ proc[p].op = "save" =>
             LET old == snap[vdir.active.snap]
                 new == snap'[vdir'.active.snap]
             IN  /\ Readable(vdir.active)
                 /\ new.base = vdir.active.snap
                 /\ new.vault = old.vault
                 /\ new.gen = old.gen + 1]_vars
    BY Zenon, <1>1
<1>3. QED
    BY <1>2, Invariance, PTL DEF Spec, NoLostUpdate

\* Nothing is overwritten that is not preserved on the disk: automatic_backup and
\* the pre-restore copy are synchronised before the rename, and a create renames
\* without replacing.
THEOREM PreservedBeforeReplacedHolds == Spec => PreservedBeforeReplaced
<1> DEFINE Preserved(p) ==
        CASE proc[p].op = "create" -> ~Exists(vdir.active)
          [] proc[p].op = "save" ->
                \A e \in bdirDisk : e.auto[AutoName(p)] = vdir.active
          [] proc[p].op = "restore" ->
                Exists(vdir.active) => \A e \in bdirDisk : vdir.active \in e.pre
<1>1. ASSUME IInv, [Next]_vars, NEW p \in Procs, Installs(p)
      PROVE  Preserved(p)
  <2>1. /\ CommandInv(p) /\ proc[p].pc = "rename"
        /\ proc[p].base = 0 => ~Exists(vdir.active)
    BY Zenon, <1>1, InstallFacts
  <2>2. proc[p].op \in {"create", "save", "restore"}
    BY Zenon, <1>1, <2>1 DEF IInv, TypeOK, ProcState, Commands, CommandInv, InstallInv
  <2>3. \A f, g \in File : f.synced /\ g.synced /\ f.snap = g.snap => f = g
    BY DEF File
  <2>4. vdir.active \in File /\ vdir.active.synced
    BY Zenon, <1>1 DEF IInv, FilesInv, TypeOK, VaultDir
  <2>5. CASE proc[p].op = "create"
    BY Zenon, <2>1, <2>5 DEF CommandInv, CreateInv
  <2>6. CASE proc[p].op = "save"
    <3>1. proc[p].base \in 1..used /\ vdir.active.snap = proc[p].base
      BY Zenon, <2>1, <2>6 DEF CommandInv, SaveInv, BeforeRename
    <3>2. AutoName(p) \in Names
      BY Zenon, <1>1, <3>1, AutoNameType
    <3>3. ASSUME NEW e \in bdirDisk PROVE e.auto[AutoName(p)] = vdir.active
      <4>1. e.auto[AutoName(p)].snap = proc[p].base
        BY Zenon, <2>1, <2>6 DEF CommandInv, BackupInv
      <4>2. e.auto[AutoName(p)] \in File /\ e.auto[AutoName(p)].synced
        BY Zenon, <1>1, <3>2 DEF IInv, TypeOK, FilesInv, BackupsDir
      <4>3. QED
        BY Zenon, <2>3, <2>4, <3>1, <4>1, <4>2
    <3>4. QED
      BY Zenon, <2>6, <3>3
  <2>7. CASE proc[p].op = "restore"
    <3>1. CASE proc[p].base = 0
      BY Zenon, <2>1, <2>7, <3>1
    <3>2. CASE proc[p].base # 0
      <4>1. vdir.active.snap = proc[p].base /\ proc[p].base \in 0..MaxSnap
        BY Zenon, <1>1, <2>1, <2>7, <3>2
           DEF CommandInv, RestoreInv, BeforeRename, IInv, TypeOK, ProcState
      <4>2. vdir.active = TmpFile(proc[p].base)
        BY Zenon, <2>3, <2>4, <4>1, ValueTypes DEF TmpFile
      <4>3. QED
        BY Zenon, <2>1, <2>7, <3>2, <4>2 DEF CommandInv, BackupInv
    <3>3. QED
      BY Zenon, <3>1, <3>2
  <2>8. QED
    BY Zenon, <2>2, <2>5, <2>6, <2>7
<1>2. IInv /\ [Next]_vars => [\A p \in Procs : Installs(p) => Preserved(p)]_vars
    BY Zenon, <1>1
<1>3. QED
    BY <1>2, Invariance, PTL DEF Spec, PreservedBeforeReplaced

-----------------------------------------------------------------------------
(***************************************************************************)
(* The predecessor of the active snapshot, when the changes of a directory *)
(* reach the disk in order.                                                *)
(***************************************************************************)

\* With ordered metadata PredecessorKept speaks of every pair of contents a crash
\* may leave of the two directories.
LEMMA KeptPairs ==
    ASSUME OrderedMetadata, IInv
    PROVE  PredecessorKept <=> \A d \in vdirDisk, e \in bdirDisk : Kept(d, e)
    BY DEF IInv, FilesInv, PredecessorKept, CrashVaultDirs, Kept

\* A pair that was there before the step is still good after it.
LEMMA OldPair ==
    ASSUME OrderedMetadata, IInv, PredecessorKept,
           \A i \in 1..used : snap'[i] = snap[i], restored \subseteq restored',
           NEW d \in vdirDisk, NEW e \in bdirDisk
    PROVE  Kept(d, e)'
<1>1. Kept(d, e)
    BY Zenon, KeptPairs
<1>2. Readable(d.active) => d.active.snap \in 1..used
    BY BoundsAssumption DEF IInv, TypeOK, FilesInv, Readable, Ids
<1>3. QED
    BY Zenon, <1>1, <1>2 DEF Kept, Readable

\* A step that adds nothing to what a crash may leave.
LEMMA KeptFrame ==
    ASSUME OrderedMetadata, IInv, IInv', PredecessorKept,
           \A i \in 1..used : snap'[i] = snap[i], restored \subseteq restored',
           vdirDisk' \subseteq vdirDisk, bdirDisk' \subseteq bdirDisk
    PROVE  PredecessorKept'
<1>1. \A d \in vdirDisk', e \in bdirDisk' : Kept(d, e)'
    BY Zenon, OldPair
<1>2. QED
    BY <1>1 DEF IInv, FilesInv, PredecessorKept, CrashVaultDirs, Kept

\* A step that adds one content of the vault's directory, or one of backups/.
LEMMA KeptNewDir ==
    ASSUME OrderedMetadata, IInv, IInv', PredecessorKept,
           \A i \in 1..used : snap'[i] = snap[i], restored \subseteq restored',
           \/ /\ vdirDisk' \subseteq vdirDisk \cup {vdir'} /\ bdirDisk' = bdirDisk
              /\ \A e \in bdirDisk : Kept(vdir, e)'
           \/ /\ vdirDisk' = vdirDisk /\ bdirDisk' \subseteq bdirDisk \cup {bdir'}
              /\ \A d \in vdirDisk : Kept(d, bdir)'
    PROVE  PredecessorKept'
<1>1. \A d \in vdirDisk, e \in bdirDisk : Kept(d, e)'
    BY Zenon, OldPair
<1>2. \A d \in vdirDisk', e \in bdirDisk' : Kept(d, e)'
    BY Zenon, <1>1 DEF Kept
<1>3. vdir' \in vdirDisk' /\ bdir' \in bdirDisk'
    BY Zenon DEF IInv, FilesInv
<1>4. CrashVaultDirs' \cup {vdir'} = vdirDisk' /\ bdirDisk' \cup {bdir'} = bdirDisk'
    BY <1>3 DEF CrashVaultDirs
<1>5. QED
    BY Zenon, <1>2, <1>4 DEF PredecessorKept

\* backups/ appears and the active file stays.
LEMMA KeptMakeBackupsDir ==
    ASSUME OrderedMetadata, IInv, IInv', PredecessorKept,
           NEW p \in Procs, MakeBackupsDir(p)
    PROVE  PredecessorKept'
<1>1. UNCHANGED <<snap, used, restored, bdirDisk>>
    BY Zenon DEF MakeBackupsDir, Fail, Return, table, hist, backups
<1>2. CASE UNCHANGED vault
    BY Zenon, <1>1, <1>2, KeptFrame DEF vault
<1>3. CASE vdir' = [vdir EXCEPT !.backups = TRUE] /\ vdirDisk' \subseteq vdirDisk \cup {vdir'}
  <2>1. vdir'.active = vdir.active /\ vdir'.backups
    BY Zenon, <1>3 DEF IInv, TypeOK, VaultDir
  <2>2. \A e \in bdirDisk : Kept(vdir, e)
    BY Zenon, KeptPairs DEF IInv, FilesInv
  <2>3. \A e \in bdirDisk : Kept(vdir, e)'
    BY Zenon, <1>1, <2>1, <2>2 DEF Kept
  <2>4. QED
    BY Zenon, <1>1, <1>3, <2>3, KeptNewDir
<1>4. QED
    BY Zenon, <1>2, <1>3 DEF MakeBackupsDir, ChangeVaultDir, Fail, Return

\* A backup is only published under a name that was free, so it replaces the
\* predecessor of no snapshot.
LEMMA KeptPublishBackup ==
    ASSUME OrderedMetadata, IInv, IInv', PredecessorKept,
           NEW p \in Procs, PublishBackup(p)
    PROVE  PredecessorKept'
<1>1. UNCHANGED <<snap, used, restored, vdirDisk>>
    BY Zenon DEF PublishBackup, AutomaticBackup, PreRestoreCopy, Refuse, Fail, Return, table, hist, vault
<1>2. CASE UNCHANGED backups
    BY Zenon, <1>1, <1>2, KeptFrame DEF backups
<1>3. bdir \in bdirDisk /\ bdir \in BackupsDir
    BY Zenon DEF IInv, FilesInv, TypeOK
<1>4. \A d \in vdirDisk : Kept(d, bdir)
    BY Zenon, <1>3, KeptPairs
<1>5. ASSUME bdirDisk' = bdirDisk \cup {bdir'},
             \A n : bdir.auto[n].snap # 0 => bdir'.auto[n] = bdir.auto[n]
      PROVE  PredecessorKept'
  <2>1. ASSUME NEW d \in vdirDisk PROVE Kept(d, bdir)'
    <3>1. Readable(d.active) /\ snap[d.active.snap].base # 0 /\ d.active.snap \notin restored =>
            /\ bdir.auto[<<snap[d.active.snap].vault, snap[d.active.snap].gen - 1>>].snap
                 = snap[d.active.snap].base
      BY Zenon, <1>4 DEF Kept
    <3>2. QED
      BY Zenon, <1>1, <1>4, <1>5, <3>1 DEF Kept
  <2>2. QED
    BY Zenon, <1>1, <1>5, <2>1, KeptNewDir
<1>6. CASE /\ ~Exists(bdir.auto[AutoName(p)])
           /\ ChangeBackups([bdir EXCEPT !.auto[AutoName(p)] = TmpFile(proc[p].base)])
  <2>1. bdir.auto[AutoName(p)].snap = 0
    BY <1>6 DEF Exists, NoFile
  <2>2. \A n : n # AutoName(p) => bdir'.auto[n] = bdir.auto[n]
    BY <1>3, <1>6 DEF ChangeBackups, BackupsDir
  <2>3. QED
    BY Zenon, <1>5, <1>6, <2>1, <2>2 DEF ChangeBackups
<1>7. CASE ChangeBackups([bdir EXCEPT !.pre = @ \cup {TmpFile(vdir.active.snap)}])
  <2>1. bdir'.auto = bdir.auto
    BY Zenon, <1>3, <1>7 DEF ChangeBackups, BackupsDir
  <2>2. QED
    BY Zenon, <1>5, <1>7, <2>1 DEF ChangeBackups
<1>8. QED
    BY Zenon, <1>2, <1>6, <1>7 DEF PublishBackup, AutomaticBackup, PreRestoreCopy, Refuse, Fail, Return

\* The rename of a save comes after its backup is on the disk.
LEMMA KeptRename ==
    ASSUME OrderedMetadata, IInv, IInv', PredecessorKept,
           NEW p \in Procs, Rename(p)
    PROVE  PredecessorKept'
<1>1. UNCHANGED <<snap, used, bdirDisk>> /\ restored \subseteq restored'
    BY Zenon DEF Rename, Refuse, Fail, Return, table, hist, backups
<1>2. CASE UNCHANGED vault
    BY Zenon, <1>1, <1>2, KeptFrame DEF vault
<1>3. CASE /\ ChangeVaultDir([vdir EXCEPT !.active = proc[p].tmp])
           /\ restored' = IF proc[p].op = "restore"
                          THEN restored \cup {proc[p].new} ELSE restored
  <2>1. CommandInv(p) /\ proc[p].pc = "rename"
    BY Zenon DEF IInv, ProcInv, Rename
  <2>2. vdir'.active = TmpFile(proc[p].new) /\ vdir'.backups = vdir.backups
    BY Zenon, <1>3, <2>1 DEF ChangeVaultDir, IInv, TypeOK, VaultDir, CommandInv, InstallInv
  <2>3. vdir'.active.snap = proc[p].new
    BY <2>2 DEF TmpFile
  <2>4. ASSUME NEW e \in bdirDisk PROVE Kept(vdir, e)'
    <3>1. CASE proc[p].op = "save"
      <4>1. /\ proc[p].base \in 1..used /\ proc[p].new \in 1..used
            /\ snap[proc[p].new].base = proc[p].base
        BY Zenon, <2>1, <3>1 DEF CommandInv, SaveInv, BeforeRename
      <4>2. /\ snap[proc[p].base].vault = snap[proc[p].new].vault
            /\ snap[proc[p].new].gen = snap[proc[p].base].gen + 1
            /\ snap[proc[p].base].gen \in Nat
        BY <4>1, BoundsAssumption DEF IInv, TableInv, Gens
      <4>3. AutoName(p) = <<snap[proc[p].new].vault, snap[proc[p].new].gen - 1>>
        BY <4>2 DEF AutoName
      <4>4. e.auto[AutoName(p)].snap = proc[p].base /\ vdir.backups
        BY Zenon, <2>1, <2>4, <3>1 DEF CommandInv, BackupInv
      <4>5. QED
        BY Zenon, <1>1, <2>2, <2>3, <4>1, <4>3, <4>4 DEF Kept
    <3>2. CASE proc[p].op = "restore"
      <4>1. proc[p].new \in restored'
        BY Zenon, <1>3, <3>2
      <4>2. QED
        BY Zenon, <2>2, <2>3, <4>1 DEF Kept
    <3>3. CASE proc[p].op = "create"
      <4>1. snap[proc[p].new].base = 0
        BY Zenon, <2>1, <3>3 DEF CommandInv, CreateInv
      <4>2. QED
        BY Zenon, <1>1, <2>3, <4>1 DEF Kept
    <3>4. proc[p].op \in {"save", "restore", "create"}
      BY Zenon, <2>1 DEF IInv, TypeOK, ProcState, Commands, CommandInv, InstallInv
    <3>5. QED
      BY Zenon, <3>1, <3>2, <3>3, <3>4
  <2>5. QED
    BY Zenon, <1>1, <1>3, <2>4, KeptNewDir DEF ChangeVaultDir
<1>4. QED
    BY Zenon, <1>2, <1>3 DEF Rename, Refuse, Fail, Return

\* Pruning only starts once the new snapshot is the only thing a crash can leave,
\* and never deletes the generation it replaced.
LEMMA KeptPruneUnlink ==
    ASSUME OrderedMetadata, IInv, IInv', PredecessorKept,
           NEW p \in Procs, PruneUnlink(p)
    PROVE  PredecessorKept'
<1>1. UNCHANGED <<snap, used, restored, vdirDisk>>
    BY Zenon DEF PruneUnlink, table, hist, vault
<1>2. CASE UNCHANGED backups
    BY Zenon, <1>1, <1>2, KeptFrame DEF backups
<1>3. ASSUME NEW g \in proc[p].victims,
             ChangeBackups([bdir EXCEPT
                              !.auto[<<snap[proc[p].base].vault, g>>] = NoFile])
      PROVE  PredecessorKept'
  <2>1. CommandInv(p) /\ proc[p].pc \in {"unlink", "unlinked"}
    BY Zenon DEF IInv, ProcInv, PruneUnlink
  <2>2. /\ proc[p].op = "save" /\ proc[p].status = "OK" /\ g < snap[proc[p].base].gen
        /\ vdirDisk = {vdir} /\ vdir.active.snap = proc[p].new
    BY Zenon, <1>3, <2>1 DEF CommandInv, SaveInv, InstallInv, Pruning
  <2>3. /\ proc[p].base \in 1..used /\ proc[p].new \in 1..used
        /\ snap[proc[p].new].base = proc[p].base
    BY Zenon, <2>1, <2>2 DEF CommandInv, SaveInv, AfterRename
  <2>4. /\ snap[proc[p].base].vault = snap[proc[p].new].vault
        /\ snap[proc[p].new].gen = snap[proc[p].base].gen + 1
        /\ snap[proc[p].base].gen \in Nat
    BY <2>3, BoundsAssumption DEF IInv, TableInv, Gens
  <2>5. g \in Nat
    BY SMTT(30), <1>3, BoundsAssumption DEF IInv, TypeOK, ProcState, Gens
  <2> DEFINE name == <<snap[proc[p].new].vault, snap[proc[p].new].gen - 1>>
  <2>6. name # <<snap[proc[p].base].vault, g>>
    BY SMTT(30), <2>2, <2>4, <2>5
  <2>7. bdir'.auto[name] = bdir.auto[name]
    BY SMTT(30), <1>3, <2>6 DEF ChangeBackups, IInv, TypeOK, BackupsDir
  <2>8. Kept(vdir, bdir)
    BY Zenon, KeptPairs DEF IInv, FilesInv
  <2>9. \A d \in vdirDisk : Kept(d, bdir)'
    BY Zenon, <1>1, <2>2, <2>7, <2>8 DEF Kept
  <2>10. QED
    BY Zenon, <1>1, <1>3, <2>9, KeptNewDir DEF ChangeBackups
<1>4. QED
    BY Zenon, <1>2, <1>3 DEF PruneUnlink

\* The user's changes leave nothing under the vault path that had a predecessor.
LEMMA KeptUser ==
    ASSUME OrderedMetadata, IInv, IInv', PredecessorKept, RemoveActive \/ PlaceAlien
    PROVE  PredecessorKept'
<1>1. UNCHANGED <<snap, used, restored, bdirDisk>> /\ vdirDisk' = vdirDisk \cup {vdir'}
    BY Zenon DEF RemoveActive, PlaceAlien, ChangeVaultDir, table, hist, backups
<1>2. vdir'.active \in {NoFile, Alien}
    BY Zenon DEF RemoveActive, PlaceAlien, ChangeVaultDir, IInv, TypeOK, VaultDir
<1>3. ~Readable(vdir'.active)
    BY <1>2, BoundsAssumption DEF Readable, Ids, NoFile, Alien
<1>4. \A e \in bdirDisk : Kept(vdir, e)'
    BY Zenon, <1>3 DEF Kept
<1>5. QED
    BY Zenon, <1>1, <1>4, KeptNewDir

\* A power loss takes backups/ away only from an active snapshot older than it.
LEMMA KeptCrash ==
    ASSUME OrderedMetadata, IInv, IInv', PredecessorKept, Crash
    PROVE  PredecessorKept'
<1>1. /\ vdir' \in vdirDisk
      /\ IF vdir'.backups THEN bdir' \in bdirDisk ELSE bdir' = EmptyBackups
      /\ vdirDisk' = {vdir'} /\ bdirDisk' = {bdir'}
    BY Zenon, CrashFiles
<1>2. UNCHANGED <<snap, used, restored>>
    BY Zenon DEF Crash, table
<1>3. CASE vdir'.backups
    BY Zenon, <1>1, <1>2, <1>3, KeptFrame
<1>4. CASE ~vdir'.backups
  <2>1. bdir \in bdirDisk
    BY Zenon DEF IInv, FilesInv
  <2>2. \A d \in vdirDisk : Kept(d, bdir)
    BY Zenon, <2>1, KeptPairs
  <2>3. Readable(vdir'.active) /\ vdir'.active.snap \notin restored => snap[vdir'.active.snap].base = 0
    BY Zenon, <1>1, <1>4, <2>2 DEF Kept
  <2>4. Kept(vdir, bdir)'
    BY Zenon, <1>2, <2>3 DEF Kept
  <2>5. CrashVaultDirs' \cup {vdir'} = {vdir'} /\ bdirDisk' \cup {bdir'} = {bdir'}
    BY <1>1 DEF CrashVaultDirs
  <2>6. QED
    BY Zenon, <2>4, <2>5 DEF PredecessorKept
<1>5. QED
    BY Zenon, <1>3, <1>4

\* The other steps add nothing to what a crash may leave.
LEMMA KeptOtherSteps ==
    ASSUME OrderedMetadata, IInv, IInv', PredecessorKept, NEW p \in Procs,
           \/ Start(p) \/ Kill(p) \/ LockVault(p) \/ Check(p) \/ SyncBackup(p)
           \/ WriteTemp(p) \/ SyncVaultDir(p) \/ Readback(p) \/ PruneScan(p)
           \/ PruneSync(p) \/ Unlock(p)
    PROVE  PredecessorKept'
<1>1. bdir \in bdirDisk /\ vdir \in vdirDisk /\ used \in 0..MaxSnap
      /\ snap \in [Ids -> SnapInfo]
    BY Zenon DEF IInv, FilesInv, TypeOK
<1>2. \A i \in 1..used : snap'[i] = snap[i]
  <2>1. CASE UNCHANGED snap
    BY Zenon, <2>1
  <2>2. CASE \E info : snap' = [snap EXCEPT ![used + 1] = info]
    BY <1>1, <2>2, BoundsAssumption DEF Ids
  <2>3. QED
    <3> USE DEF Refuse, Fail, Return, table
    <3>1. CASE Check(p)
      BY Zenon, ZenonT(30), <2>1, <2>2, <3>1 DEF Check, CheckCreate, CheckSave, CheckRestore, Encrypt
    <3>2. CASE ~Check(p)
      BY Zenon, <2>1, <3>2 DEF Start, Open, BeginCreate, ReadBackup, Kill, LockVault, SyncBackup,
            WriteTemp, SyncVaultDir, Readback, PruneScan, PruneSync, Unlock
    <3>3. QED
      BY Zenon, <3>1, <3>2
<1>3. UNCHANGED restored /\ vdirDisk' \subseteq vdirDisk /\ bdirDisk' \subseteq bdirDisk
  <2> USE <1>1 DEF Refuse, Fail, Return, vault, backups, hist
  <2>1. CASE Start(p) \/ Kill(p) \/ LockVault(p) \/ Unlock(p)
    BY Zenon, <2>1 DEF Start, Open, BeginCreate, ReadBackup, Kill, LockVault, Unlock
  <2>2. CASE Check(p)
    BY Zenon, ZenonT(30), <2>2 DEF Check, CheckCreate, CheckSave, CheckRestore, Encrypt
  <2>3. CASE SyncBackup(p) \/ WriteTemp(p) \/ SyncVaultDir(p) \/ Readback(p)
    BY Zenon, <2>3 DEF SyncBackup, WriteTemp, SyncVaultDir, Readback
  <2>4. CASE PruneScan(p) \/ PruneSync(p)
    BY Zenon, <2>4 DEF PruneScan, PruneSync
  <2>5. QED
    BY Zenon, <2>1, <2>2, <2>3, <2>4
<1>4. QED
    BY Zenon, <1>2, <1>3, KeptFrame

\* The predecessor of the active snapshot can be restored at every moment and
\* after every crash: save_locked preserves it, on the disk, before the rename,
\* and its own pruning never takes it.
THEOREM PredecessorKeptHolds ==
    ASSUME OrderedMetadata PROVE Spec => []PredecessorKept
<1>1. Init => PredecessorKept
    BY BoundsAssumption
       DEF Init, PredecessorKept, CrashVaultDirs, Kept, Readable, Ids, NoFile
<1>2. IInv /\ IInv' /\ PredecessorKept /\ [Next]_vars => PredecessorKept'
  <2> SUFFICES ASSUME IInv, IInv', PredecessorKept, [Next]_vars PROVE PredecessorKept'
    BY Zenon
  <2>1. CASE UNCHANGED vars
    BY Zenon, <2>1, KeptFrame DEF vars, table, vault, backups, hist
  <2>2. ASSUME NEW p \in Procs, Start(p) \/ Step(p) \/ Kill(p) PROVE PredecessorKept'
    BY Zenon, <2>2, KeptOtherSteps, KeptMakeBackupsDir, KeptPublishBackup, KeptRename,
       KeptPruneUnlink DEF Step
  <2>3. QED
    BY Zenon, <2>1, <2>2, KeptUser, KeptCrash DEF Next
<1>3. QED
    BY <1>1, <1>2, Invariance, PTL DEF Spec

-----------------------------------------------------------------------------
(***************************************************************************)
(* The refinement: every step of a command, of the user or of the machine  *)
(* is a step of SnapshotRegister or changes nothing that it knows of.      *)
(***************************************************************************)

(***************************************************************************)
(* The refinement mapping of VaultStore!Register, by name.                 *)
(***************************************************************************)
Parent == [i \in Ids |-> snap[i].base]
Cur == vdir.active.snap
May == {d.active.snap : d \in vdirDisk}
Of(p) ==
    CASE proc[p].op = "save" -> proc[p].base
      [] proc[p].op = "restore" -> proc[p].new
      [] OTHER -> 0
Client == [p \in Procs |-> [want |-> proc[p].op, of |-> Of(p)]]

LEMMA Stutter ==
    ASSUME Parent' = Parent, used' = used, Cur' = Cur, May' = May, Client' = Client
    PROVE  UNCHANGED Register!vars
BY Zenon DEF Register!vars, Parent, Cur, May, Client, Of

LEMMA IsConfirm ==
    ASSUME Parent' = Parent, used' = used, Cur' = Cur, May' = {Cur}, Client' = Client
    PROVE  Register!Next
BY Zenon DEF Register!Next, Register!Confirm, Parent, Cur, May, Client, Of

LEMMA IsUser ==
    ASSUME Parent' = Parent, used' = used, May' = May \cup {Cur'}, Client' = Client,
           Cur' = 0 \/ (Cur = 0 /\ Cur' = MaxSnap + 1)
    PROVE  Register!Next
BY Zenon DEF Register!Next, Register!User, Register!Set, Register!Alien, Parent, Cur, May, Client, Of

LEMMA IsCrash ==
    ASSUME Parent' = Parent, used' = used, Cur' \in May, May' = {Cur'},
           Client' = [p \in Procs |-> [want |-> "none", of |-> 0]]
    PROVE  Register!Next
BY Zenon DEF Register!Next, Register!Crash, Register!NoClient, Parent, Cur, May, Client, Of

LEMMA IsEnd ==
    ASSUME NEW p \in Procs, Parent' = Parent, used' = used, Cur' = Cur, May' = May,
           Client' = [Client EXCEPT ![p] = [want |-> "none", of |-> 0]]
    PROVE  Register!Next
BY Zenon, ZenonT(30) DEF Register!Next, Register!End, Register!NoClient, Parent, Cur, May, Client, Of

LEMMA IsBegin ==
    ASSUME NEW p \in Procs, Parent' = Parent, used' = used, Cur' = Cur, May' = May,
           Client[p] = [want |-> "none", of |-> 0],
           \/ Cur \in Ids /\ Client' = [Client EXCEPT ![p] = [want |-> "save", of |-> Cur]]
           \/ Client' = [Client EXCEPT ![p] = [want |-> "create", of |-> 0]]
           \/ \E s \in 1..used : Client' = [Client EXCEPT ![p] = [want |-> "restore", of |-> s]]
    PROVE  Register!Next
BY Zenon DEF Register!Next, Register!Begin, Register!NoClient, Register!Ids, Ids, Parent, Cur, May, Client, Of

LEMMA IsMake ==
    ASSUME NEW p \in Procs, Client[p].want \in {"save", "create"}, used < MaxSnap,
           used' = used + 1, Parent' = [Parent EXCEPT ![used + 1] = Client[p].of],
           Cur' = Cur, May' = May, Client' = Client
    PROVE  Register!Next
BY Zenon DEF Register!Next, Register!Make, Parent, Cur, May, Client, Of

\* The three commands install in their rename.
LEMMA IsInstall ==
    ASSUME NEW p \in Procs, Parent' = Parent, used' = used, Client' = Client,
           May' = May \cup {Cur'}, Cur' \in 1..used,
           \/ Client[p] = [want |-> "save", of |-> Cur] /\ Parent[Cur'] = Cur
           \/ Client[p].want = "create" /\ Cur = 0 /\ Parent[Cur'] = 0
           \/ Client[p].want = "restore" /\ Client[p].of = Cur'
    PROVE  Register!Next
BY Zenon DEF Register!Next, Register!Save, Register!Create, Register!Restore, Register!Set,
       Parent, Cur, May, Client, Of

-----------------------------------------------------------------------------
(***************************************************************************)
(* What the register sees of a step.                                       *)
(***************************************************************************)

\* What a command works on changes only when it begins or ends.
LEMMA ClientKept ==
    ASSUME NEW p \in Procs, \A o \in Procs \ {p} : proc'[o] = proc[o],
           proc'[p].op = proc[p].op,
           proc[p].op = "save" => proc'[p].base = proc[p].base,
           proc[p].op = "restore" => proc'[p].new = proc[p].new
    PROVE  Client' = Client
<1>1. ASSUME NEW o \in Procs PROVE proc'[o].op = proc[o].op /\ Of(o)' = Of(o)
  <2>1. CASE o = p
    BY Zenon, <2>1 DEF Of
  <2>2. CASE o # p
    BY Zenon, <2>2 DEF Of
  <2> QED
    BY Zenon, <2>1, <2>2
<1> QED
  BY Zenon, <1>1 DEF Client

\* A step that changes only locals, or the backups.
LEMMA QuietStep ==
    ASSUME UNCHANGED <<table, vault>>, Client' = Client
    PROVE  UNCHANGED Register!vars
<1>1. snap' = snap /\ used' = used /\ vdir' = vdir /\ vdirDisk' = vdirDisk
  BY Zenon DEF table, vault
<1>2. Parent' = Parent /\ Cur' = Cur /\ May' = May
  BY Zenon, <1>1 DEF Parent, Cur, May
<1> QED
  BY Zenon, <1>1, <1>2, Stutter

LEMMA QuietReturn ==
    ASSUME IInv, NEW p \in Procs, NEW s, Return(p, s)
    PROVE  UNCHANGED Register!vars
<1>1. Client' = Client
  BY Zenon, ReturnFields, ClientKept DEF Return, IInv
<1> QED
  BY Zenon, <1>1, QuietStep DEF Return

LEMMA QuietGoto ==
    ASSUME IInv, NEW p \in Procs, NEW l, Goto(p, l), UNCHANGED <<table, vault>>
    PROVE  UNCHANGED Register!vars
BY Zenon, GotoFields, ClientKept, QuietStep DEF IInv

\* A command begins with what it found, and the register with it.
LEMMA StartRefines ==
    ASSUME IInv, NEW p \in Procs, Start(p)
    PROVE  Register!Next
<1> DEFINE q == proc'[p]
<1>1. /\ proc[p] = Idle /\ UNCHANGED <<table, vault>>
      /\ proc' = [proc EXCEPT ![p] = q]
      /\ \/ q.op = "save" /\ q.base = Cur /\ Cur \in Ids
         \/ q.op = "create"
         \/ q.op = "restore" /\ q.new \in 1..used
  <2>0. proc \in [Procs -> ProcState]
    BY Zenon DEF IInv, TypeOK
  <2>1. CASE Open(p)
    BY Zenon, <2>0, <2>1 DEF Open, Readable, Cur, Idle
  <2>2. CASE BeginCreate(p)
    BY Zenon, <2>0, <2>2 DEF BeginCreate, Idle
  <2>3. CASE ReadBackup(p)
    <3>1. PICK s \in placed :
            proc' = [proc EXCEPT ![p] = [Idle EXCEPT !.pc = "ready",
                                          !.op = "restore", !.new = s]]
      BY Zenon, <2>3 DEF ReadBackup
    <3>2. s \in 1..used
      BY Zenon, <3>1 DEF IInv, TypeOK
    <3>3. proc[p] = Idle /\ UNCHANGED <<table, vault>>
      BY Zenon, <2>3 DEF ReadBackup
    <3> QED
      BY Zenon, <2>0, <3>1, <3>2, <3>3 DEF Idle
  <2> QED
    BY Zenon, <2>1, <2>2, <2>3 DEF Start
<1>2. Parent' = Parent /\ Cur' = Cur /\ May' = May /\ used' = used
  BY Zenon, <1>1 DEF Parent, Cur, May, table, vault
<1>3. Client[p] = [want |-> "none", of |-> 0]
  BY <1>1 DEF Client, Of, Idle
<1>4. Client' = [Client EXCEPT ![p] = [want |-> q.op, of |-> Of(p)']]
  <2>1. \A o \in Procs \ {p} : proc'[o] = proc[o]
    BY Zenon, <1>1 DEF IInv, TypeOK
  <2>2. \A o \in Procs \ {p} : Of(o)' = Of(o)
    BY Zenon, <2>1 DEF Of
  <2> QED
    BY Zenon, <2>1, <2>2 DEF Client
<1>5. \/ q.op = "save" /\ Of(p)' = Cur /\ Cur \in Ids
      \/ q.op = "create" /\ Of(p)' = 0
      \/ q.op = "restore" /\ Of(p)' \in 1..used
  BY Zenon, <1>1 DEF Of
<1> HIDE DEF q
<1> QED
  BY Zenon, <1>2, <1>3, <1>4, <1>5, IsBegin

\* A command that returns, or is killed, is done with the register.
LEMMA EndRefines ==
    ASSUME IInv, NEW p \in Procs, Unlock(p) \/ Kill(p)
    PROVE  Register!Next
<1>1. proc' = [proc EXCEPT ![p] = Idle] /\ UNCHANGED <<table, vault>>
  BY Zenon DEF Unlock, Kill
<1>2. Parent' = Parent /\ Cur' = Cur /\ May' = May /\ used' = used
  BY Zenon, <1>1 DEF Parent, Cur, May, table, vault
<1>3. \A o \in Procs \ {p} : proc'[o] = proc[o]
  BY Zenon, <1>1 DEF IInv, TypeOK
<1>4. proc'[p] = Idle
  BY Zenon, <1>1 DEF IInv, TypeOK
<1>5. \A o \in Procs \ {p} : Of(o)' = Of(o)
  BY Zenon, <1>3 DEF Of
<1>6. Of(p)' = 0 /\ proc'[p].op = "none"
  BY <1>4 DEF Of, Idle
<1>7. Client' = [Client EXCEPT ![p] = [want |-> "none", of |-> 0]]
  BY Zenon, <1>3, <1>5, <1>6 DEF Client
<1> QED
  BY Zenon, <1>2, <1>7, IsEnd

\* An encryption under the lock makes a snapshot that descends from what was read.
LEMMA EncryptRefines ==
    ASSUME IInv, NEW p \in Procs, NEW info, NEW l, Encrypt(p, info, l),
           proc[p].op \in {"save", "create"}, info.base = Of(p)
    PROVE  [Register!Next]_(Register!vars)
<1>1. CASE used = MaxSnap /\ Refuse(p, "IO")
  BY Zenon, <1>1, QuietReturn DEF Refuse
<1>2. CASE /\ used < MaxSnap
           /\ used' = used + 1
           /\ snap' = [snap EXCEPT ![used + 1] = info]
           /\ proc' = [proc EXCEPT ![p].pc = l, ![p].new = used + 1]
           /\ UNCHANGED <<vault, backups, lock, events, hist>>
  <2>1. /\ \A o \in Procs \ {p} : proc'[o] = proc[o]
        /\ proc'[p].op = proc[p].op /\ proc'[p].base = proc[p].base
    <3>1. proc \in [Procs -> ProcState] /\ proc' = [proc EXCEPT ![p].pc = l, ![p].new = used + 1]
      BY Zenon, <1>2 DEF IInv, TypeOK
    <3> QED
      BY ONLY Zenon, <3>1, p \in Procs DEF ProcState
  <2>2. Client' = Client
    BY Zenon, <2>1, ClientKept
  <2>3. Cur' = Cur /\ May' = May
    BY Zenon, <1>2 DEF Cur, May, vault
  <2>4. used + 1 \in Ids /\ snap \in [Ids -> SnapInfo]
    <3>1. used \in 0..MaxSnap /\ snap \in [Ids -> SnapInfo] /\ used < MaxSnap
      BY Zenon, <1>2 DEF IInv, TypeOK
    <3> QED
      BY ONLY <3>1, BoundsAssumption DEF Ids
  <2>5. Parent' = [Parent EXCEPT ![used + 1] = Of(p)]
    BY Zenon, <1>2, <2>4 DEF Parent
  <2>6. Client[p].want \in {"save", "create"} /\ Client[p].of = Of(p)
    BY Zenon DEF Client
  <2> QED
    BY Zenon, <1>2, <2>2, <2>3, <2>5, <2>6, IsMake
<1> QED
  BY Zenon, <1>1, <1>2 DEF Encrypt

LEMMA CheckRefines ==
    ASSUME IInv, NEW p \in Procs, Check(p)
    PROVE  [Register!Next]_(Register!vars)
<1>1. CASE CheckCreate(p)
  <2>1. proc[p].op = "create" /\ Of(p) = 0
    BY Zenon, <1>1 DEF CheckCreate, Of
  <2> QED
    BY Zenon, <1>1, <2>1, EncryptRefines, QuietReturn DEF CheckCreate, Refuse, Fail
<1>2. CASE CheckSave(p)
  <2>1. proc[p].op = "save" /\ Of(p) = proc[p].base
    BY Zenon, <1>2 DEF CheckSave, Of
  <2> QED
    BY Zenon, <1>2, <2>1, EncryptRefines, QuietReturn DEF CheckSave, Refuse, Fail
<1>3. CASE CheckRestore(p)
  <2>1. CASE Goto(p, "temp") /\ UNCHANGED <<table, vault, backups, lock, events, hist>>
    BY Zenon, <2>1, QuietGoto
  <2>2. CASE \E s : Return(p, s)
    BY Zenon, <2>2, QuietReturn
  <2>3. CASE /\ proc' = [proc EXCEPT ![p].pc = "mkdir", ![p].base = vdir.active.snap]
             /\ UNCHANGED <<table, vault, backups, lock, events, hist>>
    <3>1. /\ \A o \in Procs \ {p} : proc'[o] = proc[o]
          /\ proc'[p].op = proc[p].op /\ proc'[p].new = proc[p].new
      BY Zenon, <2>3 DEF IInv, TypeOK, ProcState
    <3>2. proc[p].op = "restore"
      BY Zenon, <1>3 DEF CheckRestore
    <3> QED
      BY Zenon, <2>3, <3>1, <3>2, ClientKept, QuietStep
  <2> QED
    BY Zenon, <1>3, <2>1, <2>2, <2>3 DEF CheckRestore, Refuse, Fail
<1> QED
  BY Zenon, <1>1, <1>2, <1>3 DEF Check

LEMMA PreserveRefines ==
    ASSUME IInv, NEW p \in Procs, MakeBackupsDir(p) \/ PublishBackup(p) \/ SyncBackup(p)
    PROVE  [Register!Next]_(Register!vars)
<1>0. vdir \in VaultDir /\ vdir \in vdirDisk
  BY Zenon DEF IInv, TypeOK, FilesInv
<1>1. CASE MakeBackupsDir(p)
  <2> DEFINE made == [vdir EXCEPT !.backups = TRUE]
  <2>1. made.active = vdir.active
    BY Zenon, <1>0 DEF VaultDir
  <2>2. CASE Goto(p, "backup") /\ UNCHANGED <<table, vault, backups, lock, events, hist>>
    BY Zenon, <2>2, QuietGoto
  <2>3. CASE /\ vdir' = made /\ vdirDisk' = {vdir'} /\ Goto(p, "backup")
             /\ UNCHANGED <<table, backups, lock, events, hist>>
    <3>1. Client' = Client
      BY Zenon, <2>3, GotoFields, ClientKept DEF IInv
    <3>2. Parent' = Parent /\ used' = used /\ Cur' = Cur /\ May' = {Cur}
      BY Zenon, <2>1, <2>3 DEF Parent, Cur, May, table
    <3> QED
      BY Zenon, <3>1, <3>2, IsConfirm
  <2>4. CASE /\ ChangeVaultDir(made)
             /\ proc' = [proc EXCEPT ![p].pc = "unlock", ![p].status = "IO"]
             /\ UNCHANGED <<table, backups, lock, hist>>
    <3>1. Client' = Client
      BY Zenon, <2>4, ReturnFields, ClientKept DEF IInv
    <3>2. Parent' = Parent /\ used' = used /\ Cur' = Cur
      BY Zenon, <2>1, <2>4 DEF Parent, Cur, table, ChangeVaultDir
    <3>3. May' = May
      <4>1. vdirDisk' = vdirDisk \cup {made}
        BY Zenon, <2>4 DEF ChangeVaultDir
      <4> QED
        BY Zenon, <1>0, <2>1, <4>1 DEF May
    <3> QED
      BY Zenon, <3>1, <3>2, <3>3, Stutter
  <2> QED
    BY Zenon, <1>1, <2>2, <2>3, <2>4, QuietReturn DEF MakeBackupsDir, Fail
<1>2. CASE PublishBackup(p)
  <2>1. \/ \E s : Return(p, s)
        \/ Goto(p, "bksync") /\ UNCHANGED <<table, vault>>
    BY Zenon, <1>2 DEF PublishBackup, AutomaticBackup, PreRestoreCopy, Refuse, Fail
  <2> QED
    BY Zenon, <2>1, QuietReturn, QuietGoto
<1>3. CASE SyncBackup(p)
  BY Zenon, <1>3, QuietReturn, QuietGoto DEF SyncBackup, Fail
<1> QED
  BY Zenon, <1>1, <1>2, <1>3

\* The rename is the compare-and-swap: what is under the lock is still there.
LEMMA RenameRefines ==
    ASSUME IInv, NEW p \in Procs, Rename(p)
    PROVE  [Register!Next]_(Register!vars)
<1>1. CASE \E s : Return(p, s)
  BY Zenon, <1>1, QuietReturn
<1>2. CASE /\ proc[p].base = 0 => ~Exists(vdir.active)
           /\ ChangeVaultDir([vdir EXCEPT !.active = proc[p].tmp])
           /\ Goto(p, "sync")
           /\ UNCHANGED <<table, backups, lock, events, rolledBack>>
  <2>1. /\ proc[p].pc = "rename" /\ CommandInv(p) /\ proc[p].op \in Commands
        /\ vdir \in VaultDir /\ used \in 0..MaxSnap /\ proc[p].op # "none"
    BY Zenon DEF Rename, IInv, ProcInv, TypeOK, ProcState, CommandInv, InstallInv
  <2>2. vdir'.active.snap = proc[p].new
    <3>1. proc[p].tmp.snap = proc[p].new
      BY <2>1 DEF CommandInv, InstallInv, TmpFile
    <3> QED
      BY Zenon, <1>2, <2>1, <3>1 DEF ChangeVaultDir, VaultDir
  <2>3. Client' = Client
    BY Zenon, <1>2, GotoFields, ClientKept DEF IInv
  <2>4. Parent' = Parent /\ used' = used /\ Cur' = proc[p].new
    BY Zenon, <1>2, <2>2 DEF Parent, Cur, table
  <2>5. May' = May \cup {Cur'}
    <3>1. vdirDisk' = vdirDisk \cup {vdir'}
      BY Zenon, <1>2 DEF ChangeVaultDir
    <3> QED
      BY Zenon, <3>1 DEF May, Cur
  <2>6. proc[p].base = 0 => Cur = 0
    BY <1>2 DEF Exists, NoFile, Cur
  <2>7. Client[p] = [want |-> proc[p].op, of |-> Of(p)]
    BY Zenon DEF Client
  <2>8. proc[p].new \in 1..used =>
          proc[p].new \in Ids /\ Parent[proc[p].new] = snap[proc[p].new].base
    BY <2>1, BoundsAssumption DEF Parent, Ids
  <2>9. CASE proc[p].op = "save"
    <3>1. /\ proc[p].new \in 1..used /\ snap[proc[p].new].base = proc[p].base
          /\ Cur = proc[p].base /\ Of(p) = proc[p].base
      BY Zenon, <2>1, <2>9 DEF CommandInv, SaveInv, BeforeRename, Of, Cur
    <3> QED
      BY Zenon, <2>3, <2>4, <2>5, <2>7, <2>8, <2>9, <3>1, IsInstall
  <2>10. CASE proc[p].op = "create"
    <3>1. proc[p].new \in 1..used /\ snap[proc[p].new].base = 0 /\ proc[p].base = 0
      BY Zenon, <2>1, <2>10 DEF CommandInv, CreateInv
    <3> QED
      BY SMTT(30), <2>3, <2>4, <2>5, <2>6, <2>7, <2>8, <2>10, <3>1, IsInstall
  <2>11. CASE proc[p].op = "restore"
    <3>1. proc[p].new \in 1..used /\ Of(p) = proc[p].new
      BY Zenon, <2>1, <2>11 DEF CommandInv, RestoreInv, Of
    <3> QED
      BY SMTT(30), <2>3, <2>4, <2>5, <2>7, <2>11, <3>1, IsInstall
  <2> QED
    BY Zenon, <2>1, <2>9, <2>10, <2>11 DEF Commands
<1> QED
  BY Zenon, <1>1, <1>2 DEF Rename, Refuse, Fail

LEMMA ConfirmRefines ==
    ASSUME IInv, NEW p \in Procs, WriteTemp(p) \/ SyncVaultDir(p) \/ Readback(p)
    PROVE  [Register!Next]_(Register!vars)
<1>1. CASE WriteTemp(p)
  <2>1. CASE /\ proc' = [proc EXCEPT ![p].pc = "rename", ![p].tmp = TmpFile(proc[p].new)]
             /\ UNCHANGED <<table, vault, backups, lock, events, hist>>
    <3>1. /\ proc \in [Procs -> ProcState]
          /\ proc' = [proc EXCEPT ![p].pc = "rename", ![p].tmp = TmpFile(proc[p].new)]
      BY Zenon, <2>1 DEF IInv, TypeOK
    <3>2. /\ \A o \in Procs \ {p} : proc'[o] = proc[o]
          /\ proc'[p].op = proc[p].op /\ proc'[p].base = proc[p].base /\ proc'[p].new = proc[p].new
      BY ONLY Zenon, <3>1, p \in Procs DEF ProcState
    <3> QED
      BY Zenon, <2>1, <3>2, ClientKept, QuietStep
  <2> QED
    BY Zenon, <1>1, <2>1, QuietReturn DEF WriteTemp, Fail
<1>2. CASE SyncVaultDir(p)
  <2>1. UNCHANGED <<table, vdir>>
    BY Zenon, <1>2 DEF SyncVaultDir
  <2>2. Parent' = Parent /\ used' = used /\ Cur' = Cur
    BY Zenon, <2>1 DEF Parent, Cur, table
  <2>3. CASE vdirDisk' = {vdir} /\ Goto(p, "readback")
    <3>1. Client' = Client
      BY Zenon, <2>3, GotoFields, ClientKept DEF IInv
    <3>2. May' = {Cur}
      BY Zenon, <2>3 DEF May, Cur
    <3> QED
      BY Zenon, <2>2, <3>1, <3>2, IsConfirm
  <2>4. CASE /\ proc' = [proc EXCEPT ![p].pc = "readback", ![p].warn = TRUE]
             /\ vdirDisk' = vdirDisk
    <3>1. /\ proc \in [Procs -> ProcState]
          /\ proc' = [proc EXCEPT ![p].pc = "readback", ![p].warn = TRUE]
      BY Zenon, <2>4 DEF IInv, TypeOK
    <3>2. /\ \A o \in Procs \ {p} : proc'[o] = proc[o]
          /\ proc'[p].op = proc[p].op /\ proc'[p].base = proc[p].base /\ proc'[p].new = proc[p].new
      BY ONLY Zenon, <3>1, p \in Procs DEF ProcState
    <3> QED
      BY Zenon, <2>1, <2>4, <3>2, ClientKept, QuietStep DEF vault
  <2> QED
    BY Zenon, <1>2, <2>3, <2>4 DEF SyncVaultDir
<1>3. CASE Readback(p)
  <2>1. CASE /\ proc' = [proc EXCEPT ![p].status = "OK",
                           ![p].pc = IF proc[p].op = "save" THEN "prune" ELSE "unlock"]
             /\ UNCHANGED <<table, vault, backups, lock, events, hist>>
    <3> DEFINE l == IF proc[p].op = "save" THEN "prune" ELSE "unlock"
    <3>1. /\ proc \in [Procs -> ProcState]
          /\ proc' = [proc EXCEPT ![p].status = "OK", ![p].pc = l]
      BY Zenon, <2>1 DEF IInv, TypeOK
    <3> HIDE DEF l
    <3>2. /\ \A o \in Procs \ {p} : proc'[o] = proc[o]
          /\ proc'[p].op = proc[p].op /\ proc'[p].base = proc[p].base /\ proc'[p].new = proc[p].new
      BY ONLY Zenon, <3>1, p \in Procs DEF ProcState
    <3> QED
      BY Zenon, <2>1, <3>2, ClientKept, QuietStep
  <2> QED
    BY Zenon, <1>3, <2>1, QuietReturn DEF Readback, Refuse, Fail
<1> QED
  BY Zenon, <1>1, <1>2, <1>3

\* Pruning never touches the register.
LEMMA PruneRefines ==
    ASSUME IInv, NEW p \in Procs, PruneScan(p) \/ PruneUnlink(p) \/ PruneSync(p)
    PROVE  UNCHANGED Register!vars
<1>0. proc \in [Procs -> ProcState]
  BY Zenon DEF IInv, TypeOK
<1>1. UNCHANGED <<table, vault>>
  BY Zenon DEF PruneScan, PruneUnlink, PruneSync
<1>2. /\ \A o \in Procs \ {p} : proc'[o] = proc[o]
      /\ proc'[p].op = proc[p].op /\ proc'[p].base = proc[p].base /\ proc'[p].new = proc[p].new
  <2>1. \/ \E l : Goto(p, l)
        \/ \E l, v : proc' = [proc EXCEPT ![p].pc = l, ![p].victims = v]
        \/ \E l, g : proc' = [proc EXCEPT ![p].victims = @ \ {g}, ![p].pc = l]
    BY Zenon DEF PruneScan, PruneUnlink, PruneSync
  <2>2. ASSUME NEW l, Goto(p, l) PROVE <1>2!:
    BY Zenon, <2>2, GotoFields DEF IInv
  <2>3. ASSUME NEW l, NEW v, proc' = [proc EXCEPT ![p].pc = l, ![p].victims = v] PROVE <1>2!:
    BY ONLY Zenon, <1>0, <2>3, p \in Procs DEF ProcState
  <2>4. ASSUME NEW l, NEW g, proc' = [proc EXCEPT ![p].victims = @ \ {g}, ![p].pc = l] PROVE <1>2!:
    BY ONLY Zenon, <1>0, <2>4, p \in Procs DEF ProcState
  <2> QED
    BY Zenon, <2>1, <2>2, <2>3, <2>4
<1> QED
  BY Zenon, <1>1, <1>2, ClientKept, QuietStep

-----------------------------------------------------------------------------
\* The user and the machine.
LEMMA SurroundingsRefine ==
    ASSUME IInv, RemoveActive \/ PlaceAlien \/ Crash
    PROVE  Register!Next
<1>0. vdir \in VaultDir
  BY Zenon DEF IInv, TypeOK
<1>1. CASE RemoveActive \/ PlaceAlien
  <2>1. /\ UNCHANGED <<table, proc>> /\ vdirDisk' = vdirDisk \cup {vdir'}
        /\ \/ vdir' = [vdir EXCEPT !.active = NoFile]
           \/ vdir.active = NoFile /\ vdir' = [vdir EXCEPT !.active = Alien]
    BY Zenon, <1>1 DEF RemoveActive, PlaceAlien, ChangeVaultDir, Exists
  <2>2. Parent' = Parent /\ used' = used /\ Client' = Client /\ May' = May \cup {Cur'}
    <3>1. snap' = snap /\ used' = used /\ proc' = proc
      BY Zenon, <2>1 DEF table
    <3>2. Parent' = Parent
      BY Zenon, <3>1 DEF Parent
    <3>3. Client' = Client
      BY Zenon, <3>1 DEF Client, Of
    <3>4. May' = May \cup {Cur'}
      BY Zenon, <2>1 DEF May, Cur
    <3> QED
      BY Zenon, <3>1, <3>2, <3>3, <3>4
  <2>3. Cur' = 0 \/ (Cur = 0 /\ Cur' = MaxSnap + 1)
    BY <1>0, <2>1 DEF Cur, NoFile, Alien, VaultDir
  <2> QED
    BY Zenon, <2>2, <2>3, IsUser
<1>2. CASE Crash
  <2>1. (\E d \in vdirDisk : vdir'.active = d.active) /\ vdirDisk' = {vdir'}
    BY Zenon, <1>2, CrashFiles
  <2>2. Cur' \in May /\ May' = {Cur'}
    BY Zenon, <2>1 DEF Cur, May
  <2>3. snap' = snap /\ used' = used /\ \A p \in Procs : proc'[p] = Idle
    BY Zenon, <1>2 DEF Crash, table
  <2>4. Parent' = Parent
    BY Zenon, <2>3 DEF Parent
  <2>5. Client' = [p \in Procs |-> [want |-> "none", of |-> 0]]
    <3>1. \A p \in Procs : proc'[p].op = "none" /\ Of(p)' = 0
      BY <2>3 DEF Of, Idle
    <3> QED
      BY Zenon, <3>1 DEF Client
  <2> QED
    BY Zenon, <2>2, <2>3, <2>4, <2>5, IsCrash
<1> QED
  BY Zenon, <1>1, <1>2

LEMMA NextRefines == IInv /\ [Next]_vars => [Register!Next]_(Register!vars)
<1> SUFFICES ASSUME IInv, [Next]_vars PROVE [Register!Next]_(Register!vars)
  BY Zenon
<1>1. CASE UNCHANGED vars
  <2>1. UNCHANGED <<table, vault>> /\ proc' = proc
    BY Zenon, <1>1 DEF vars
  <2>2. Client' = Client
    BY Zenon, <2>1 DEF Client, Of
  <2> QED
    BY Zenon, <2>1, <2>2, QuietStep
<1>2. ASSUME NEW p \in Procs, LockVault(p) PROVE UNCHANGED Register!vars
  BY Zenon, <1>2, QuietReturn, QuietGoto DEF LockVault, Refuse, Fail
<1>3. ASSUME NEW p \in Procs, Start(p) \/ Step(p) \/ Kill(p)
      PROVE  [Register!Next]_(Register!vars)
  BY Zenon, <1>2, <1>3, StartRefines, EndRefines, CheckRefines, PreserveRefines, RenameRefines,
     ConfirmRefines, PruneRefines DEF Step
<1> QED
  BY Zenon, <1>1, <1>3, SurroundingsRefine DEF Next

LEMMA InitRefines == Init => Register!Init
<1> SUFFICES ASSUME Init PROVE Register!Init
  BY Zenon
<1>1. Parent = [i \in Ids |-> 0] /\ used = 0
  BY Zenon DEF Init, Parent
<1>2. Cur = 0 /\ May = {0}
  BY DEF Init, Cur, May, NoFile
<1>3. Client = [p \in Procs |-> [want |-> "none", of |-> 0]]
  BY Zenon DEF Init, Client, Of, Idle
<1> QED
  BY Zenon, <1>1, <1>2, <1>3 DEF Register!Init, Register!Ids, Register!NoClient, Ids,
                          Parent, Cur, May, Client, Of

\* The store is a compare-and-swap register: open_common reads it, the rename
\* of write_atomic_at swaps it, under the flock and after the comparison of
\* hashes, and a crash brings back a value not older than the last one whose
\* directory was fsynced.
THEOREM ImplementsRegisterHolds == Spec => ImplementsRegister
BY InitRefines, NextRefines, Invariance, PTL DEF Spec, ImplementsRegister, Register!Spec

-----------------------------------------------------------------------------
(***************************************************************************)
(* What pruning keeps.  A save whose backup is fsynced has all it sees of  *)
(* backups/ on the disk, and while it prunes each backup it will delete    *)
(* has Retention newer ones of the same vault.                             *)
(***************************************************************************)

Newer(v, g) == {h \in Gens : h > g /\ Exists(bdir.auto[<<v, h>>])}

OnDisk == \A e \in bdirDisk, n \in Names : Exists(bdir.auto[n]) => Exists(e.auto[n])

\* A save past the fsync of its backup.
Keeping(p) == proc[p].op = "save" /\ proc[p].pc \in {"temp", "rename"} \cup AfterRename

\* What is older than one of these is one of these.
OldestFirst(v, victims) ==
    \A g \in victims : \A h \in Gens : h < g /\ Exists(bdir.auto[<<v, h>>]) => h \in victims

Floor(p) ==
    Keeping(p) =>
        /\ OnDisk
        /\ proc[p].pc \in {"unlink", "unlinked"} =>
              /\ OldestFirst(snap[proc[p].base].vault, proc[p].victims)
              /\ \A g \in proc[p].victims :
                     Cardinality(Newer(snap[proc[p].base].vault, g)) >= Retention

\* Inductive together with IInv.
FloorInv == \A p \in Procs : Floor(p)

\* A process that does not hold the lock leaves the backups and the table alone.
LEMMA OutsideStep ==
    ASSUME IInv, NEW o \in Procs, lock # o, Start(o) \/ Step(o) \/ Kill(o)
    PROVE  UNCHANGED <<snap, used, bdir, bdirDisk>>
<1>1. proc[o].pc \in {"idle", "ready", "unlock"}
  BY Zenon, OthersOutside DEF Outside
<1>2. Start(o) \/ LockVault(o) \/ Unlock(o) \/ Kill(o)
  BY Zenon, <1>1 DEF Step, Check, CheckCreate, CheckSave, CheckRestore, MakeBackupsDir,
     PublishBackup, SyncBackup, WriteTemp, Rename, SyncVaultDir, Readback, PruneScan, PruneUnlink,
     PruneSync
<1> QED
  BY Zenon, <1>2 DEF Start, Open, BeginCreate, ReadBackup, LockVault, Unlock, Kill, Refuse, Fail,
     Return, table, backups

\* So only the floor of the process that moves is at stake.
LEMMA FloorOthers ==
    ASSUME IInv, FloorInv, NEW o \in Procs, Start(o) \/ Step(o) \/ Kill(o), Floor(o)'
    PROVE  FloorInv'
<1> SUFFICES ASSUME NEW p \in Procs \ {o}, Keeping(p)' PROVE Floor(p)'
  BY Zenon DEF FloorInv, Floor
<1>1. proc'[p] = proc[p]
  BY Zenon, OwnLocals
<1>2. Keeping(p)
  BY Zenon, <1>1 DEF Keeping
<1>3. lock = p
  BY Zenon, <1>2 DEF Keeping, IInv, LockInv, LockedPCs, PCs, AfterRename
<1>4. UNCHANGED <<snap, bdir, bdirDisk>>
  BY Zenon, <1>3, OutsideStep
<1>5. Floor(p)
  BY Zenon DEF FloorInv
<1> QED
  BY Zenon, <1>1, <1>2, <1>4, <1>5 DEF Floor, Keeping, OnDisk, OldestFirst, Newer

\* A step of o that leaves the backups alone and deletes nothing.
LEMMA FloorFrame ==
    ASSUME FloorInv, NEW o \in Procs, UNCHANGED <<bdir, bdirDisk>>,
           Keeping(o)' => Keeping(o), proc'[o].pc \notin {"unlink", "unlinked"}
    PROVE  Floor(o)'
BY Zenon DEF FloorInv, Floor, OnDisk

\* How a save comes to keep: by the fsync of its backup, and then by going on.
LEMMA KeepingStep ==
    ASSUME IInv, NEW o \in Procs, Start(o) \/ Step(o) \/ Kill(o), Keeping(o)'
    PROVE  \/ bdirDisk' = {bdir} /\ bdir' = bdir /\ proc'[o].pc = "temp"
           \/ /\ Keeping(o) /\ UNCHANGED <<bdir, bdirDisk>>
              /\ proc'[o].pc \notin {"unlink", "unlinked"}
           \/ PruneScan(o) \/ PruneUnlink(o)
<1>0. /\ proc \in [Procs -> ProcState] /\ CommandInv(o)
      /\ proc'[o].op = "save" /\ proc'[o].pc \in {"temp", "rename"} \cup AfterRename
  BY Zenon DEF IInv, TypeOK, ProcInv, Keeping
<1>1. ASSUME NEW l, Goto(o, l) PROVE proc'[o].pc = l /\ proc[o].op = "save"
  <2>1. proc'[o].pc = l /\ proc'[o].op = proc[o].op
    BY Zenon, <1>1, GotoFields DEF IInv
  <2> QED
    BY Zenon, <1>0, <2>1
<1>2. /\ ~Goto(o, "check") /\ ~Goto(o, "backup") /\ ~Goto(o, "bksync") /\ ~Goto(o, "unlock")
  <2>1. \A l : Goto(o, l) => l \in {"temp", "rename"} \cup AfterRename
    BY Zenon, <1>0, <1>1
  <2>2. \A l \in {"check", "backup", "bksync", "unlock"} : l \notin {"temp", "rename"} \cup AfterRename
    BY DEF AfterRename
  <2> QED
    BY Zenon, <2>1, <2>2
<1>3. ASSUME NEW s, proc' = [proc EXCEPT ![o].pc = "unlock", ![o].status = s] PROVE FALSE
  <2>1. proc'[o].pc = "unlock"
    BY ONLY Zenon, <1>0, <1>3, o \in Procs DEF ProcState
  <2> QED
    BY Zenon, <1>0, <2>1 DEF AfterRename
<1>4. \A s : ~Refuse(o, s) /\ ~Fail(o, s)
  BY Zenon, <1>3 DEF Refuse, Fail, Return
<1>5. CASE Start(o) \/ Unlock(o) \/ Kill(o)
  <2>1. Idle.pc = "idle" /\ "idle" \notin {"temp", "rename"} \cup AfterRename
    BY Zenon DEF Idle, AfterRename
  <2>2. "ready" \notin {"temp", "rename"} \cup AfterRename
    BY Zenon DEF AfterRename
  <2>3. CASE Open(o)
    BY Zenon, <1>0, <2>2, <2>3 DEF Open, Idle
  <2>4. CASE BeginCreate(o)
    BY Zenon, <1>0, <2>2, <2>4 DEF BeginCreate, Idle
  <2>5. CASE ReadBackup(o)
    <3>1. PICK s \in placed :
            proc' = [proc EXCEPT ![o] = [Idle EXCEPT !.pc = "ready",
                                          !.op = "restore", !.new = s]]
      BY Zenon, <2>5 DEF ReadBackup
    <3> QED
      BY Zenon, <1>0, <2>2, <3>1 DEF Idle
  <2>6. CASE Unlock(o) \/ Kill(o)
    <3>1. proc' = [proc EXCEPT ![o] = Idle]
      BY Zenon, <2>6 DEF Unlock, Kill
    <3> QED
      BY Zenon, <1>0, <2>1, <3>1
  <2> QED
    BY Zenon, <1>5, <2>3, <2>4, <2>5, <2>6 DEF Start
<1>6. CASE LockVault(o) \/ MakeBackupsDir(o) \/ PublishBackup(o)
  BY Zenon, <1>2, <1>3, <1>4, <1>6 DEF LockVault, MakeBackupsDir, PublishBackup, AutomaticBackup,
     PreRestoreCopy
<1>7. CASE Check(o)
  <2>1. ASSUME NEW info, NEW l, Encrypt(o, info, l) PROVE proc'[o].pc = l /\ proc[o].op = "save"
    <3>1. proc' = [proc EXCEPT ![o].pc = l, ![o].new = used + 1]
      BY Zenon, <1>4, <2>1 DEF Encrypt
    <3>2. proc'[o].pc = l /\ proc'[o].op = proc[o].op
      BY ONLY Zenon, <1>0, <3>1, o \in Procs DEF ProcState
    <3> QED
      BY Zenon, <1>0, <3>2
  <2>2. CASE CheckCreate(o)
    BY Zenon, <1>4, <2>1, <2>2 DEF CheckCreate
  <2>3. CASE CheckSave(o)
    <3>1. Encrypt(o, [vault |-> snap[proc[o].base].vault, gen |-> snap[proc[o].base].gen + 1,
                      base |-> proc[o].base], "mkdir")
      BY Zenon, <1>4, <2>3 DEF CheckSave
    <3>2. proc'[o].pc = "mkdir"
      BY Zenon, <2>1, <3>1
    <3> QED
      BY Zenon, <1>0, <3>2 DEF AfterRename
  <2>4. CASE CheckRestore(o)
    <3>1. ASSUME proc' = [proc EXCEPT ![o].pc = "mkdir", ![o].base = vdir.active.snap] PROVE FALSE
      <4>1. proc'[o].pc = "mkdir"
        BY ONLY Zenon, <1>0, <3>1, o \in Procs DEF ProcState
      <4> QED
        BY Zenon, <1>0, <4>1 DEF AfterRename
    <3> QED
      BY Zenon, <1>1, <1>4, <2>4, <3>1 DEF CheckRestore
  <2> QED
    BY Zenon, <1>7, <2>2, <2>3, <2>4 DEF Check
<1>8. CASE SyncBackup(o)
  BY Zenon, <1>1, <1>4, <1>8 DEF SyncBackup
<1>9. CASE WriteTemp(o)
  <2>1. /\ proc[o].pc = "temp" /\ UNCHANGED <<bdir, bdirDisk>>
        /\ proc' = [proc EXCEPT ![o].pc = "rename", ![o].tmp = TmpFile(proc[o].new)]
    BY Zenon, <1>4, <1>9 DEF WriteTemp, backups
  <2>2. proc'[o].op = proc[o].op /\ proc'[o].pc = "rename"
    BY ONLY Zenon, <1>0, <2>1, o \in Procs DEF ProcState
  <2> QED
    BY Zenon, <1>0, <2>1, <2>2 DEF Keeping
<1>10. CASE Rename(o)
  <2>1. proc[o].pc = "rename" /\ UNCHANGED <<bdir, bdirDisk>> /\ Goto(o, "sync")
    BY Zenon, <1>4, <1>10 DEF Rename, backups
  <2>2. proc[o].op = "save" /\ proc'[o].pc = "sync"
    BY Zenon, <1>1, <2>1
  <2> QED
    BY Zenon, <2>1, <2>2 DEF Keeping
<1>11. CASE SyncVaultDir(o) \/ Readback(o)
  <2>1. proc[o].pc \in AfterRename /\ UNCHANGED <<bdir, bdirDisk>>
    BY Zenon, <1>4, <1>11 DEF SyncVaultDir, Readback, backups, AfterRename
  <2>2. proc[o].op = "save" /\ proc'[o].pc \in {"readback", "prune", "unlock"}
    <3>1. CASE Goto(o, "readback")
      BY Zenon, <1>1, <3>1
    <3>2. CASE proc' = [proc EXCEPT ![o].pc = "readback", ![o].warn = TRUE]
      <4>1. proc'[o].op = proc[o].op /\ proc'[o].pc = "readback"
        BY ONLY Zenon, <1>0, <3>2, o \in Procs DEF ProcState
      <4> QED
        BY Zenon, <1>0, <4>1
    <3>3. CASE proc' = [proc EXCEPT ![o].status = "OK",
                          ![o].pc = IF proc[o].op = "save" THEN "prune" ELSE "unlock"]
      <4> DEFINE l == IF proc[o].op = "save" THEN "prune" ELSE "unlock"
      <4>1. proc' = [proc EXCEPT ![o].status = "OK", ![o].pc = l]
        BY Zenon, <3>3
      <4>2. l \in {"prune", "unlock"}
        BY Zenon
      <4> HIDE DEF l
      <4>3. proc'[o].op = proc[o].op /\ proc'[o].pc = l
        BY ONLY Zenon, <1>0, <4>1, o \in Procs DEF ProcState
      <4> QED
        BY Zenon, <1>0, <4>2, <4>3
    <3> QED
      BY Zenon, <1>4, <1>11, <3>1, <3>2, <3>3 DEF SyncVaultDir, Readback
  <2> QED
    BY Zenon, <2>1, <2>2 DEF Keeping
<1>12. CASE PruneSync(o)
  BY Zenon, <1>2, <1>12 DEF PruneSync
<1> QED
  BY Zenon, <1>5, <1>6, <1>7, <1>8, <1>9, <1>10, <1>11, <1>12 DEF Step

\* An unlinkat that fails ends the pass.
Stops(o) ==
    /\ UNCHANGED backups
    /\ Goto(o, IF proc[o].pc = "unlink" THEN "unlock" ELSE "prunesync")

\* The deletion of g: nothing else changes, and the other victims are newer.
LEMMA UnlinkFacts ==
    ASSUME IInv, NEW o \in Procs, PruneUnlink(o),
           ~Stops(o)
    PROVE  /\ Keeping(o) /\ proc[o].pc \in {"unlink", "unlinked"}
           /\ snap[proc[o].base].vault \in Ids
           /\ \E g \in proc[o].victims :
                /\ g \in Gens /\ \A h \in proc[o].victims : h # g => h > g /\ h \in Gens
                /\ bdirDisk' = bdirDisk \cup {bdir'}
                /\ \A n \in Names : bdir'.auto[n] =
                      IF n = <<snap[proc[o].base].vault, g>> THEN NoFile ELSE bdir.auto[n]
                /\ proc'[o].victims = proc[o].victims \ {g} /\ proc'[o].base = proc[o].base
<1>0. /\ proc \in [Procs -> ProcState] /\ CommandInv(o) /\ bdir \in BackupsDir
      /\ proc[o].pc \in {"unlink", "unlinked"}
  BY Zenon DEF IInv, TypeOK, ProcInv, PruneUnlink
<1>1. proc[o].op = "save" /\ proc[o].base \in 1..used
  BY Zenon, <1>0 DEF CommandInv, SaveInv, Pruning
<1>2. AutoName(o) \in Names
  BY Zenon, <1>1, AutoNameType
<1>3. snap[proc[o].base].vault \in Ids
  BY <1>2 DEF AutoName, Names
<1>4. Keeping(o)
  BY Zenon, <1>0, <1>1 DEF Keeping, AfterRename
<1>5. PICK g \in proc[o].victims :
        /\ NextVictim(g, proc[o].victims)
        /\ ChangeBackups([bdir EXCEPT !.auto[<<snap[proc[o].base].vault, g>>] = NoFile])
        /\ proc' = [proc EXCEPT
                      ![o].victims = @ \ {g},
                      ![o].pc = IF proc[o].victims = {g} THEN "prunesync" ELSE "unlinked"]
  BY Zenon DEF PruneUnlink, Stops
<1>6. proc[o].victims \subseteq Gens /\ Gens \subseteq Nat
  BY <1>0 DEF ProcState, Gens
<1>7. g \in Gens /\ \A h \in proc[o].victims : h # g => h > g /\ h \in Gens
  BY <1>5, <1>6 DEF NextVictim
<1>8. /\ bdirDisk' = bdirDisk \cup {bdir'}
      /\ \A n \in Names : bdir'.auto[n] =
            IF n = <<snap[proc[o].base].vault, g>> THEN NoFile ELSE bdir.auto[n]
  BY Zenon, <1>0, <1>5 DEF ChangeBackups, BackupsDir
<1>9. proc'[o].victims = proc[o].victims \ {g} /\ proc'[o].base = proc[o].base
  BY ONLY Zenon, <1>0, <1>5, o \in Procs DEF ProcState
<1> QED
  BY Zenon, <1>0, <1>3, <1>4, <1>5, <1>7, <1>8, <1>9

\* What is newer than a victim is not deleted before it.
LEMMA NewerKept ==
    ASSUME NEW v \in Ids, NEW g \in Gens, NEW k \in Gens, k >= g,
           \A n \in Names : bdir'.auto[n] = IF n = <<v, g>> THEN NoFile ELSE bdir.auto[n]
    PROVE  Newer(v, k)' = Newer(v, k)
<1>1. \A h \in Gens : h > k => h # g
  BY DEF Gens
<1>2. \A h \in Gens : <<v, h>> \in Names /\ (h # g => <<v, h>> # <<v, g>>)
  BY DEF Names
<1>3. \A h \in Gens : h > k => bdir'.auto[<<v, h>>] = bdir.auto[<<v, h>>]
  BY Zenon, <1>1, <1>2
<1> QED
  BY Zenon, <1>3 DEF Newer

-----------------------------------------------------------------------------
\* The library's facts about finite sets.
Finite == INSTANCE FiniteSetTheorems

\* Fewer generations are not more backups.
LEMMA MoreKept ==
    ASSUME NEW S, S \subseteq Gens, NEW T, T \subseteq S
    PROVE  Cardinality(T) \in Nat /\ Cardinality(S) \in Nat /\ Cardinality(T) <= Cardinality(S)
<1>1. Finite!IsFiniteSet(Gens)
  BY Finite!FS_Interval, BoundsAssumption DEF Gens
<1>2. Finite!IsFiniteSet(S) /\ Finite!IsFiniteSet(T)
  BY Zenon, <1>1, Finite!FS_Subset
<1>3. /\ Finite!Cardinality(T) \in Nat /\ Finite!Cardinality(S) \in Nat
      /\ Finite!Cardinality(T) <= Finite!Cardinality(S)
  BY Zenon, <1>2, Finite!FS_Subset, Finite!FS_CardinalityType
<1>4. /\ Finite!Cardinality(T) = Cardinality(T)
      /\ Finite!Cardinality(S) = Cardinality(S)
  BY Zenon DEF Finite!Cardinality, Cardinality
<1> QED
  BY Zenon, <1>3, <1>4

\* What the scan chooses to delete has Retention newer backups.
LEMMA ExcessHasNewer ==
    ASSUME NEW v, NEW max, NEW g \in Excess(Candidates(v, max))
    PROVE  Cardinality(Newer(v, g)) >= Retention
<1> DEFINE T == {h \in Candidates(v, max) : h > g}
<1>1. T \subseteq Newer(v, g) /\ Newer(v, g) \subseteq Gens
  BY Zenon DEF Candidates, Present, Newer
<1>2. Cardinality(T) >= Retention
  BY Zenon DEF Excess
<1> HIDE DEF T
<1>3. /\ Cardinality(T) \in Nat /\ Cardinality(Newer(v, g)) \in Nat
      /\ Cardinality(T) <= Cardinality(Newer(v, g))
  BY Zenon, <1>1, MoreKept
<1> QED
  BY SMTT(30), <1>2, <1>3, BoundsAssumption

\* With a backup the scan chooses every older one.
LEMMA ExcessOldest ==
    ASSUME NEW v, NEW max \in Nat PROVE OldestFirst(v, Excess(Candidates(v, max)))
<1> DEFINE C == Candidates(v, max)
           Above(g) == {k \in C : k > g}
<1> SUFFICES ASSUME NEW g \in Excess(C), NEW h \in Gens, h < g, Exists(bdir.auto[<<v, h>>])
             PROVE  h \in Excess(C)
  BY Zenon DEF OldestFirst
<1>1. g \in C /\ Cardinality(Above(g)) >= Retention
  BY Zenon DEF Excess
<1>2. C \subseteq Gens /\ g <= max /\ g \in Gens
  BY Zenon, <1>1 DEF Candidates, Present
<1>3. h <= max
  BY <1>2 DEF Gens
<1>4. h \in C
  BY Zenon, <1>3 DEF Candidates, Present
<1>5. Above(g) \subseteq Above(h) /\ Above(h) \subseteq Gens
  BY <1>2 DEF Gens
<1>6. /\ Cardinality(Above(g)) \in Nat /\ Cardinality(Above(h)) \in Nat
      /\ Cardinality(Above(g)) <= Cardinality(Above(h))
  BY Zenon, <1>5, MoreKept
<1>7. Cardinality(Above(h)) >= Retention
  <2> HIDE DEF Above
  <2> QED
    BY <1>1, <1>6, BoundsAssumption
<1> QED
  BY Zenon, <1>4, <1>7 DEF Excess

LEMMA FloorOwn ==
    ASSUME IInv, FloorInv, NEW o \in Procs, Start(o) \/ Step(o) \/ Kill(o)
    PROVE  Floor(o)'
<1> SUFFICES ASSUME Keeping(o)' PROVE Floor(o)'
  BY Zenon DEF Floor
<1>1. CASE bdirDisk' = {bdir} /\ bdir' = bdir /\ proc'[o].pc = "temp"
  BY Zenon, <1>1 DEF Floor, OnDisk
<1>2. CASE /\ Keeping(o) /\ UNCHANGED <<bdir, bdirDisk>>
           /\ proc'[o].pc \notin {"unlink", "unlinked"}
  BY Zenon, <1>2, FloorFrame
<1>3. Floor(o) /\ CommandInv(o) /\ proc \in [Procs -> ProcState]
  BY Zenon DEF FloorInv, IInv, ProcInv, TypeOK
<1>4. CASE PruneScan(o)
  <2>1. proc[o].pc = "prune" /\ UNCHANGED <<snap, bdir, bdirDisk>>
    BY Zenon, <1>4 DEF PruneScan, table, backups
  <2>2. OnDisk
    BY Zenon, <1>3, <2>1 DEF Floor, Keeping, CommandInv, SaveInv, Pruning, AfterRename
  <2>3. OnDisk'
    BY Zenon, <2>1, <2>2 DEF OnDisk
  <2> DEFINE v == snap[proc[o].base].vault
             old == Excess(Candidates(v, snap[proc[o].base].gen))
  <2>4. proc'[o].pc \in {"unlink", "unlinked"} => proc'[o].victims = old /\ proc'[o].base = proc[o].base
    <3>1. ASSUME Goto(o, "unlock") PROVE proc'[o].pc = "unlock"
      BY Zenon, <3>1, GotoFields DEF IInv
    <3>2. ASSUME proc' = [proc EXCEPT ![o].pc = "unlink", ![o].victims = old]
          PROVE  proc'[o].victims = old /\ proc'[o].base = proc[o].base
      BY Zenon, <1>3, <3>2 DEF ProcState
    <3> QED
      BY Zenon, <1>4, <3>1, <3>2 DEF PruneScan
  <2>5. \A g \in old : Cardinality(Newer(v, g)) >= Retention
    BY Zenon, ExcessHasNewer
  <2>6. \A w, g : Newer(w, g)' = Newer(w, g)
    BY Zenon, <2>1 DEF Newer
  <2>7. OldestFirst(v, old)
    <3>1. proc[o].base \in 1..used /\ used \in 0..MaxSnap /\ snap \in [Ids -> SnapInfo]
      BY Zenon, <1>3, <2>1 DEF CommandInv, SaveInv, Pruning, IInv, TypeOK
    <3>2. snap[proc[o].base].gen \in Nat
      BY SMTT(30), <3>1, BoundsAssumption DEF Ids, SnapInfo
    <3> QED
      BY Zenon, <3>2, ExcessOldest
  <2>8. proc'[o].pc \in {"unlink", "unlinked"} =>
          OldestFirst(snap[proc[o].base].vault, proc[o].victims)'
    <3> HIDE DEF old
    <3> QED
      BY Zenon, <2>1, <2>4, <2>7 DEF OldestFirst
  <2> QED
    BY ZenonT(30), <2>1, <2>3, <2>4, <2>5, <2>6, <2>8 DEF Floor
<1>5. CASE PruneUnlink(o) /\ Stops(o)
  <2>1. Keeping(o)
    BY Zenon, <1>3, <1>5 DEF PruneUnlink, Keeping, CommandInv, SaveInv, Pruning, AfterRename
  <2>2. proc'[o].pc = IF proc[o].pc = "unlink" THEN "unlock" ELSE "prunesync"
    BY Zenon, <1>5, GotoFields DEF IInv, Stops
  <2>3. proc'[o].pc \notin {"unlink", "unlinked"}
    BY Zenon, <2>2
  <2> QED
    BY Zenon, <1>5, <2>1, <2>3, FloorFrame DEF Stops, backups
<1>6. CASE PruneUnlink(o) /\ ~Stops(o)
  <2> DEFINE v == snap[proc[o].base].vault
  <2>1. Keeping(o) /\ proc[o].pc \in {"unlink", "unlinked"} /\ v \in Ids
    BY Zenon, <1>6, UnlinkFacts
  <2>2. PICK g \in proc[o].victims :
          /\ g \in Gens /\ \A h \in proc[o].victims : h # g => h > g /\ h \in Gens
          /\ bdirDisk' = bdirDisk \cup {bdir'}
          /\ \A n \in Names : bdir'.auto[n] = IF n = <<v, g>> THEN NoFile ELSE bdir.auto[n]
          /\ proc'[o].victims = proc[o].victims \ {g} /\ proc'[o].base = proc[o].base
    BY Zenon, <1>6, UnlinkFacts
  <2>3. snap' = snap
    BY Zenon, <1>6 DEF PruneUnlink, table
  <2>4. /\ OnDisk /\ OldestFirst(v, proc[o].victims)
        /\ \A h \in proc[o].victims : Cardinality(Newer(v, h)) >= Retention
    BY Zenon, <1>3, <2>1 DEF Floor
  <2>5. OnDisk'
    <3>1. \A n \in Names : Exists(bdir'.auto[n]) => Exists(bdir.auto[n])
      BY Zenon, <2>2 DEF Exists
    <3> QED
      BY Zenon, <2>2, <2>4, <3>1 DEF OnDisk
  <2>6. ASSUME NEW h \in proc'[o].victims PROVE Cardinality(Newer(v, h))' >= Retention
    <3>1. h \in proc[o].victims /\ h > g /\ h \in Gens
      BY Zenon, <2>2
    <3>2. h >= g
      BY <2>2, <3>1 DEF Gens
    <3>3. Newer(v, h)' = Newer(v, h)
      BY ZenonT(30), <2>1, <2>2, <2>3, <3>1, <3>2, NewerKept
    <3> QED
      BY Zenon, <2>4, <3>1, <3>3
  <2>7. ASSUME NEW k \in proc'[o].victims, NEW h \in Gens, h < k, Exists(bdir'.auto[<<v, h>>])
        PROVE  h \in proc'[o].victims
    <3>1. <<v, h>> \in Names
      BY Zenon, <2>1 DEF Names
    <3>2. <<v, h>> # <<v, g>> /\ Exists(bdir.auto[<<v, h>>])
      BY Zenon, <2>2, <2>7, <3>1 DEF Exists
    <3>3. h \in proc[o].victims /\ h # g
      BY Zenon, <2>2, <2>4, <2>7, <3>2 DEF OldestFirst
    <3> QED
      BY Zenon, <2>2, <3>3
  <2>8. OldestFirst(snap[proc[o].base].vault, proc[o].victims)'
    BY Zenon, <2>2, <2>3, <2>7 DEF OldestFirst
  <2> QED
    BY Zenon, <2>2, <2>3, <2>5, <2>6, <2>8 DEF Floor
<1> QED
  BY ZenonT(30), <1>1, <1>2, <1>4, <1>5, <1>6, KeepingStep

LEMMA NextFloor == IInv /\ FloorInv /\ [Next]_vars => FloorInv'
<1> SUFFICES ASSUME IInv, FloorInv, [Next]_vars PROVE FloorInv'
  BY Zenon
<1>1. CASE UNCHANGED vars
  BY Zenon, <1>1 DEF vars, table, backups, FloorInv, Floor, Keeping, OnDisk, OldestFirst, Newer
<1>2. ASSUME NEW o \in Procs, Start(o) \/ Step(o) \/ Kill(o) PROVE FloorInv'
  BY Zenon, <1>2, FloorOwn, FloorOthers
<1>3. CASE RemoveActive \/ PlaceAlien
  BY Zenon, <1>3
     DEF RemoveActive, PlaceAlien, table, backups, FloorInv, Floor, Keeping, OnDisk, OldestFirst, Newer
<1>4. CASE Crash
  <2>1. Idle.op = "none" /\ \A p \in Procs : proc'[p] = Idle
    BY Zenon, <1>4 DEF Crash, Idle
  <2> QED
    BY Zenon, <2>1 DEF FloorInv, Floor, Keeping
<1> QED
  BY Zenon, <1>1, <1>2, <1>3, <1>4 DEF Next

\* Only pruning takes a name away while somebody holds the lock.
LEMMA OnlyPruningDeletes ==
    ASSUME IInv, [Next]_vars, lock' # NoProc, NEW n \in Names,
           Exists(bdir.auto[n]), ~Exists(bdir'.auto[n])
    PROVE  \E o \in Procs : PruneUnlink(o) /\ ~Stops(o)
<1>0. bdir' # bdir /\ bdir \in BackupsDir
  BY Zenon DEF IInv, TypeOK
<1>1. CASE UNCHANGED vars
  BY Zenon, <1>0, <1>1 DEF vars, backups
<1>2. CASE RemoveActive \/ PlaceAlien \/ Crash
  BY Zenon, <1>0, <1>2 DEF RemoveActive, PlaceAlien, Crash, backups
<1>3. ASSUME NEW o \in Procs, Start(o) \/ Step(o) \/ Kill(o)
      PROVE  PruneUnlink(o) /\ ~Stops(o)
  <2> USE <1>0 DEF Refuse, Fail, Return, backups
  <2>1. CASE Start(o) \/ Kill(o) \/ LockVault(o) \/ Unlock(o)
    BY Zenon, <2>1 DEF Start, Open, BeginCreate, ReadBackup, Kill, LockVault, Unlock
  <2>2. CASE Check(o)
    BY Zenon, ZenonT(30), <2>2 DEF Check, CheckCreate, CheckSave, CheckRestore, Encrypt
  <2>3. CASE MakeBackupsDir(o) \/ SyncBackup(o) \/ WriteTemp(o) \/ Rename(o)
    BY Zenon, <2>3 DEF MakeBackupsDir, SyncBackup, WriteTemp, Rename
  <2>4. CASE SyncVaultDir(o) \/ Readback(o) \/ PruneScan(o) \/ PruneSync(o)
    BY Zenon, <2>4 DEF SyncVaultDir, Readback, PruneScan, PruneSync
  <2>5. CASE PublishBackup(o)
    <3>1. CASE ChangeBackups([bdir EXCEPT !.pre = @ \cup {TmpFile(vdir.active.snap)}])
      BY Zenon, <3>1 DEF ChangeBackups, BackupsDir
    <3>2. CASE /\ ~Exists(bdir.auto[AutoName(o)])
               /\ ChangeBackups([bdir EXCEPT !.auto[AutoName(o)] = TmpFile(proc[o].base)])
      BY Zenon, <3>2 DEF ChangeBackups, BackupsDir
    <3> QED
      BY Zenon, <2>5, <3>1, <3>2 DEF PublishBackup, AutomaticBackup, PreRestoreCopy
  <2>6. CASE PruneUnlink(o)
    BY Zenon, <2>6 DEF Stops
  <2> QED
    BY ZenonT(30), <1>3, <2>1, <2>2, <2>3, <2>4, <2>5, <2>6 DEF Step
<1> QED
  BY Zenon, <1>1, <1>2, <1>3 DEF Next

\* prune_automatic_backups deletes the oldest backup of a vault, and only while
\* Retention newer ones are there and on the disk, whatever backup_retention is,
\* whichever deletion fails, and however the backups of other branches lie among
\* them.
THEOREM RetentionFloorHolds == Spec => RetentionFloor
<1>1. Init => FloorInv
  <2>1. Init => \A p \in Procs : proc[p].op = "none"
    BY DEF Init, Idle
  <2> QED
    BY Zenon, <2>1 DEF FloorInv, Floor, Keeping
<1>2. ASSUME IInv, FloorInv, [Next]_vars, NEW v \in Ids, NEW g \in Gens, lock' # NoProc,
             Exists(bdir.auto[<<v, g>>]), ~Exists(bdir'.auto[<<v, g>>])
      PROVE  /\ Cardinality(Newer(v, g)') >= Retention
             /\ \A h \in Gens : Exists(bdir'.auto[<<v, h>>])
                   => h > g /\ \A e \in bdirDisk : Exists(e.auto[<<v, h>>])
  <2>0. \A h \in Gens : <<v, h>> \in Names
    BY Zenon DEF Names
  <2>1. PICK o \in Procs : PruneUnlink(o) /\ ~Stops(o)
    BY Zenon, <1>2, <2>0, OnlyPruningDeletes
  <2> DEFINE w == snap[proc[o].base].vault
  <2>2. Keeping(o) /\ proc[o].pc \in {"unlink", "unlinked"} /\ w \in Ids
    BY Zenon, <1>2, <2>1, UnlinkFacts
  <2>3. PICK k \in proc[o].victims :
          /\ k \in Gens /\ \A h \in proc[o].victims : h # k => h > k /\ h \in Gens
          /\ \A n \in Names : bdir'.auto[n] = IF n = <<w, k>> THEN NoFile ELSE bdir.auto[n]
    BY Zenon, <1>2, <2>1, UnlinkFacts
  <2>4. <<v, g>> = <<w, k>>
    BY Zenon, <1>2, <2>0, <2>3
  <2>5. v = w /\ g = k
    BY <2>4
  <2>6. OnDisk /\ Cardinality(Newer(v, g)) >= Retention /\ OldestFirst(v, proc[o].victims)
    BY Zenon, <1>2, <2>2, <2>3, <2>5 DEF FloorInv, Floor
  <2> HIDE DEF w
  <2>7. g >= g
    BY DEF Gens
  <2>8. Newer(v, g)' = Newer(v, g)
    BY Zenon, <2>3, <2>5, <2>7, NewerKept
  <2>9. \A n \in Names : Exists(bdir'.auto[n]) => Exists(bdir.auto[n])
    BY Zenon, <2>3 DEF Exists
  <2>10. ASSUME NEW h \in Gens, Exists(bdir'.auto[<<v, h>>]) PROVE h > g
    <3>1. h # g /\ Exists(bdir.auto[<<v, h>>])
      BY Zenon, <1>2, <2>0, <2>9, <2>10
    <3>2. ~(h < g)
      <4>1. ASSUME h < g PROVE FALSE
        <5>1. h \in proc[o].victims /\ h > g
          BY Zenon, <2>3, <2>5, <2>6, <3>1, <4>1 DEF OldestFirst
        <5> QED
          BY <4>1, <5>1 DEF Gens
      <4> QED
        BY Zenon, <4>1
    <3> QED
      BY <3>1, <3>2 DEF Gens
  <2> QED
    BY Zenon, <2>0, <2>6, <2>8, <2>9, <2>10 DEF OnDisk
<1>3. IInv /\ FloorInv /\ [Next]_vars =>
        (\A v \in Ids, g \in Gens :
            /\ lock' # NoProc
            /\ Exists(bdir.auto[<<v, g>>])
            /\ ~Exists(bdir'.auto[<<v, g>>])
            => /\ Cardinality({h \in Gens : h > g /\ Exists(bdir'.auto[<<v, h>>])})
                     >= Retention
               /\ \A h \in Gens : Exists(bdir'.auto[<<v, h>>])
                     => h > g /\ \A e \in bdirDisk : Exists(e.auto[<<v, h>>]))
  BY Zenon, <1>2 DEF Newer, Exists
<1> QED
  BY <1>1, <1>3, NextFloor, Invariance, PTL DEF Spec, RetentionFloor
=============================================================================
