-------------------------- MODULE VaultStoreProofs --------------------------
(***************************************************************************)
(* Proofs about VaultStore, for any number of processes and any bounds:    *)
(* types, what a step of one process leaves alone, and that each step of a *)
(* command, of the user and of the machine keeps the inductive invariant   *)
(* IInv.  Two more invariants rest on it: FreshInv, from which follows     *)
(* what an error of create or save means, and LineInv, on the generations  *)
(* in the backups.                                                         *)
(***************************************************************************)
EXTENDS VaultStoreInv, TLAPS

-----------------------------------------------------------------------------
(***************************************************************************)
(* Types.                                                                  *)
(***************************************************************************)

\* The labels, commands and statuses a process moves through.
LEMMA Labels ==
    /\ "ready" \in PCs /\ "check" \in PCs /\ "mkdir" \in PCs /\ "backup" \in PCs
    /\ "bksync" \in PCs /\ "temp" \in PCs /\ "rename" \in PCs /\ "sync" \in PCs
    /\ "readback" \in PCs /\ "prune" \in PCs /\ "unlink" \in PCs
    /\ "unlinked" \in PCs /\ "prunesync" \in PCs /\ "unlock" \in PCs
    /\ "create" \in Commands /\ "save" \in Commands /\ "restore" \in Commands
    /\ "OK" \in Statuses /\ "DURABILITY" \in Statuses /\ "IO" \in Statuses
    /\ "LOCKED" \in Statuses /\ "EXISTS" \in Statuses /\ "AUTH" \in Statuses
    /\ "LIMIT" \in Statuses /\ "FORMAT" \in Statuses
    BY Zenon DEF PCs, Commands, Statuses

\* The values commands write have the declared types.
LEMMA ValueTypes ==
    /\ NoFile \in File /\ Alien \in File
    /\ \A i \in 0..MaxSnap : TmpFile(i) \in File
    /\ \A f \in File : AfterCrash(f) \in File
    /\ Idle \in ProcState
    /\ EmptyBackups \in BackupsDir
<1> USE BoundsAssumption
<1>1. NoFile \in File /\ Alien \in File /\ Torn \in File
    BY DEF NoFile, Alien, Torn, File
<1>2. \A i \in 0..MaxSnap : TmpFile(i) \in File
    BY DEF TmpFile, File
<1>3. \A f \in File : AfterCrash(f) \in File
    BY Zenon, <1>1 DEF AfterCrash
<1>4. Idle \in ProcState
    BY <1>1 DEF Idle, ProcState, PCs, Commands, Statuses
<1>5. EmptyBackups \in BackupsDir
    BY Zenon, <1>1 DEF EmptyBackups, BackupsDir
<1>6. QED
    BY Zenon, <1>1, <1>2, <1>3, <1>4, <1>5

\* A command only writes values of the declared types.
LEMMA TypeStep == IInv /\ [Next]_vars => TypeOK'
<1> SUFFICES ASSUME IInv, [Next]_vars PROVE TypeOK'
    BY Zenon
<1> TypeOK
    BY Zenon DEF IInv
<1> USE BoundsAssumption, NoProcAssumption, ValueTypes, Labels
<1> USE DEF TypeOK, table, vault, backups, hist
<1>0. Event => events' \in 0..MaxEvents
    BY DEF Event
<1>1. ASSUME NEW p \in Procs, NEW s \in Statuses, Return(p, s),
             UNCHANGED events \/ Event
      PROVE  TypeOK'
  <2>1. proc' \in [Procs -> ProcState]
    BY Zenon, ZenonT(30), <1>1 DEF Return, ProcState
  <2>2. QED
    BY Zenon, <1>0, <1>1, <2>1 DEF Return
<1>2. CASE UNCHANGED vars
    BY Zenon, <1>2 DEF vars
<1>3. ASSUME NEW p \in Procs, Start(p) PROVE TypeOK'
  <2>1. CASE Open(p)
    <3>1. vdir.active.snap \in 0..MaxSnap
      BY <2>1 DEF Open, Readable, Ids
    <3>2. [Idle EXCEPT !.pc = "ready", !.op = "save", !.base = vdir.active.snap]
            \in ProcState
      BY Zenon, <3>1 DEF ProcState
    <3>3. QED
      BY Zenon, <2>1, <3>2 DEF Open
  <2>2. CASE BeginCreate(p)
    <3>1. [Idle EXCEPT !.pc = "ready", !.op = "create"] \in ProcState
      BY Zenon DEF ProcState
    <3>2. QED
      BY Zenon, <2>2, <3>1 DEF BeginCreate
  <2>3. CASE ReadBackup(p)
    <3>1. PICK s \in placed :
            proc' = [proc EXCEPT ![p] = [Idle EXCEPT !.pc = "ready",
                                          !.op = "restore", !.new = s]]
      BY Zenon, <2>3 DEF ReadBackup
    <3>2. s \in 0..MaxSnap
      BY <3>1 DEF Ids
    <3>3. [Idle EXCEPT !.pc = "ready", !.op = "restore", !.new = s] \in ProcState
      BY Zenon, <3>2 DEF ProcState
    <3>4. QED
      BY Zenon, <1>0, <2>3, <3>1, <3>3 DEF ReadBackup
  <2>4. QED
    BY Zenon, <1>3, <2>1, <2>2, <2>3 DEF Start
<1>4. ASSUME NEW p \in Procs, LockVault(p) PROVE TypeOK'
  <2>1. CASE /\ lock' = p
             /\ Goto(p, "check")
             /\ UNCHANGED <<table, vault, backups, events, hist>>
    <3>1. proc' \in [Procs -> ProcState]
      BY Zenon, <2>1 DEF Goto, ProcState
    <3>2. QED
      BY Zenon, <2>1, <3>1
  <2>2. QED
    BY Zenon, <1>1, <1>4, <2>1 DEF LockVault, Refuse, Fail
<1>5. ASSUME NEW p \in Procs, Unlock(p) PROVE TypeOK'
  <2>1. proc[p].new \in 0..MaxSnap
    BY Zenon DEF ProcState
  <2>2. QED
    BY Zenon, <1>5, <2>1 DEF Unlock
<1>6. ASSUME NEW p \in Procs, NEW info \in SnapInfo, NEW l \in PCs,
             Encrypt(p, info, l)
      PROVE  TypeOK'
  <2>1. CASE used = MaxSnap /\ Refuse(p, "IO")
    BY Zenon, <1>1, <2>1 DEF Refuse
  <2>2. CASE used < MaxSnap
    <3>1. used + 1 \in 0..MaxSnap /\ used + 1 \in Ids
      BY <2>2 DEF Ids
    <3>2. proc' \in [Procs -> ProcState]
      BY <1>6, <2>2, <3>1 DEF Encrypt, ProcState
    <3>3. QED
      BY <1>6, <2>2, <3>1, <3>2 DEF Encrypt
  <2>3. QED
    BY Zenon, <1>6, <2>1, <2>2 DEF Encrypt
<1>7. ASSUME NEW p \in Procs, Check(p) PROVE TypeOK'
  <2>1. CASE CheckCreate(p)
    <3>1. used < MaxSnap => [vault |-> used + 1, gen |-> 1, base |-> 0] \in SnapInfo
      BY DEF SnapInfo
    <3>2. ASSUME Encrypt(p, [vault |-> used + 1, gen |-> 1, base |-> 0], "temp")
          PROVE  TypeOK'
      BY Zenon, <1>1, <1>6, <3>1, <3>2 DEF Encrypt, Refuse
    <3>3. QED
      BY Zenon, <1>1, <2>1, <3>2 DEF CheckCreate, Refuse, Fail
  <2>2. CASE CheckSave(p)
    <3> DEFINE old == snap[proc[p].base]
               info == [vault |-> old.vault, gen |-> old.gen + 1, base |-> proc[p].base]
    <3>1. proc[p].base \in Ids /\ old \in SnapInfo
      BY <2>2 DEF CheckSave, IInv, ProcInv, CommandInv, SaveInv, Ids
    <3>2. ASSUME ~AtLimit(old.gen), Encrypt(p, info, "mkdir") PROVE TypeOK'
      <4>1. info \in SnapInfo
        BY SMTT(30), <3>1, <3>2 DEF SnapInfo, AtLimit, Ids
      <4>2. QED
        BY Zenon, <1>6, <3>2, <4>1
    <3>3. QED
      BY Zenon, <1>1, <2>2, <3>2 DEF CheckSave, Refuse, Fail
  <2>3. CASE CheckRestore(p)
    <3>1. CASE Goto(p, "temp") /\ UNCHANGED <<table, vault, backups, lock, events, hist>>
      <4>1. proc' \in [Procs -> ProcState]
        BY Zenon, <3>1 DEF Goto, ProcState
      <4>2. QED
        BY Zenon, <3>1, <4>1
    <3>2. CASE /\ Readable(vdir.active)
               /\ proc' = [proc EXCEPT ![p].pc = "mkdir", ![p].base = vdir.active.snap]
               /\ UNCHANGED <<table, vault, backups, lock, events, hist>>
      <4>1. vdir.active.snap \in 0..MaxSnap
        BY <3>2 DEF Readable, Ids
      <4>2. proc' \in [Procs -> ProcState]
        BY Zenon, ZenonT(30), <3>2, <4>1 DEF ProcState
      <4>3. QED
        BY Zenon, <3>2, <4>2
    <3>3. QED
      BY Zenon, <1>1, <2>3, <3>1, <3>2 DEF CheckRestore, Refuse, Fail
  <2>4. QED
    BY Zenon, <1>7, <2>1, <2>2, <2>3 DEF Check
<1>8. ASSUME NEW p \in Procs, MakeBackupsDir(p) PROVE TypeOK'
  <2>1. [vdir EXCEPT !.backups = TRUE] \in VaultDir
    BY Zenon DEF VaultDir
  <2>2. CASE Fail(p, "IO")
    BY Zenon, <1>1, <2>2 DEF Fail
  <2>3. CASE ~Fail(p, "IO")
    <3>1. proc' \in [Procs -> ProcState]
      BY <1>8, <2>3 DEF MakeBackupsDir, Goto, ProcState
    <3>2. QED
      BY Zenon, <1>0, <1>8, <2>1, <2>3, <3>1 DEF MakeBackupsDir, ChangeVaultDir
  <2>4. QED
    BY Zenon, <2>2, <2>3
<1>9. ASSUME NEW p \in Procs, PublishBackup(p) PROVE TypeOK'
  <2>1. CASE Refuse(p, "EXISTS") \/ Fail(p, "IO")
    BY Zenon, <1>1, <2>1 DEF Refuse, Fail
  <2>2. CASE ~Refuse(p, "EXISTS") /\ ~Fail(p, "IO")
    <3>1. proc' \in [Procs -> ProcState]
      BY <1>9, <2>2 DEF PublishBackup, AutomaticBackup, PreRestoreCopy, Goto, ProcState
    <3>2. proc[p].base \in 0..MaxSnap
      BY Zenon DEF ProcState
    <3>3. TmpFile(proc[p].base) \in File /\ TmpFile(vdir.active.snap) \in File
      BY Zenon, <3>2 DEF TmpFile, File, VaultDir
    <3>4. [bdir EXCEPT !.auto[AutoName(p)] = TmpFile(proc[p].base)] \in BackupsDir
      BY Zenon, <3>3 DEF BackupsDir
    <3>5. [bdir EXCEPT !.pre = @ \cup {TmpFile(vdir.active.snap)}] \in BackupsDir
      BY Zenon, <3>3 DEF BackupsDir
    <3>6. QED
      BY Zenon, <1>9, <2>2, <3>1, <3>4, <3>5 DEF PublishBackup, AutomaticBackup, PreRestoreCopy, ChangeBackups
  <2>3. QED
    BY Zenon, <2>1, <2>2
<1>10. ASSUME NEW p \in Procs, SyncBackup(p) PROVE TypeOK'
  <2>1. CASE ~Fail(p, "IO")
    <3>1. proc' \in [Procs -> ProcState]
      BY <1>10, <2>1 DEF SyncBackup, Goto, ProcState
    <3>2. QED
      BY Zenon, <1>10, <2>1, <3>1 DEF SyncBackup
  <2>2. QED
    BY Zenon, <1>1, <2>1 DEF Fail
<1>11. ASSUME NEW p \in Procs, WriteTemp(p) PROVE TypeOK'
  <2>1. CASE ~Fail(p, "IO") /\ ~Fail(p, "LOCKED")
    <3>1. TmpFile(proc[p].new) \in File
      BY Zenon DEF ProcState
    <3>2. proc' \in [Procs -> ProcState]
      BY <1>11, <2>1, <3>1 DEF WriteTemp, ProcState
    <3>3. QED
      BY Zenon, <1>11, <2>1, <3>2 DEF WriteTemp
  <2>2. QED
    BY Zenon, <1>1, <2>1 DEF Fail
<1>12. ASSUME NEW p \in Procs, Rename(p) PROVE TypeOK'
  <2>1. CASE Refuse(p, "EXISTS") \/ Fail(p, "IO")
    BY Zenon, <1>1, <2>1 DEF Refuse, Fail
  <2>2. CASE ~Refuse(p, "EXISTS") /\ ~Fail(p, "IO")
    <3>1. proc' \in [Procs -> ProcState]
      BY <1>12, <2>2 DEF Rename, Goto, ProcState
    <3>2. proc[p].tmp \in File /\ proc[p].new \in 0..MaxSnap
      BY Zenon DEF ProcState
    <3>3. [vdir EXCEPT !.active = proc[p].tmp] \in VaultDir
      BY Zenon, <3>2 DEF VaultDir
    <3>4. proc[p].new \in 1..used /\ proc[p].new \in Ids
      BY <1>12 DEF IInv, ProcInv, CommandInv, SaveInv, RestoreInv, CreateInv, InstallInv,
                   BeforeRename, Commands, ProcState, Ids, Rename
    <3>5. QED
      BY <1>12, <2>2, <3>1, <3>3, <3>4 DEF Rename, ChangeVaultDir
  <2>3. QED
    BY Zenon, <2>1, <2>2
<1>13. ASSUME NEW p \in Procs, SyncVaultDir(p) PROVE TypeOK'
  <2>1. proc' \in [Procs -> ProcState]
    BY <1>13 DEF SyncVaultDir, Goto, ProcState
  <2>2. QED
    BY Zenon, <1>0, <1>13, <2>1 DEF SyncVaultDir
<1>14. ASSUME NEW p \in Procs, Readback(p) PROVE TypeOK'
  <2>1. CASE Refuse(p, "DURABILITY") \/ Fail(p, "DURABILITY")
    BY Zenon, <1>1, <2>1 DEF Refuse, Fail
  <2>2. CASE ~Refuse(p, "DURABILITY") /\ ~Fail(p, "DURABILITY")
    <3>1. proc' \in [Procs -> ProcState]
      BY <1>14, <2>2 DEF Readback, ProcState
    <3>2. QED
      BY Zenon, <1>14, <2>2, <3>1 DEF Readback
  <2>3. QED
    BY Zenon, <2>1, <2>2
<1>15. ASSUME NEW p \in Procs, PruneScan(p) PROVE TypeOK'
  <2>1. \A v, max : Excess(Candidates(v, max)) \in SUBSET Gens
    BY Zenon DEF Excess, Candidates, Present
  <2>2. proc' \in [Procs -> ProcState]
    BY <1>15, <2>1 DEF PruneScan, Goto, ProcState
  <2>3. QED
    BY Zenon, <1>0, <1>15, <2>2 DEF PruneScan
<1>16. ASSUME NEW p \in Procs, PruneUnlink(p) PROVE TypeOK'
  <2>1. CASE /\ Goto(p, IF proc[p].pc = "unlink" THEN "unlock" ELSE "prunesync")
             /\ Event
             /\ UNCHANGED backups
    <3>1. proc' \in [Procs -> ProcState]
      BY Zenon, <2>1 DEF Goto, ProcState
    <3>2. QED
      BY Zenon, <1>0, <1>16, <2>1, <3>1 DEF PruneUnlink
  <2>2. ASSUME NEW g \in proc[p].victims, UNCHANGED events,
               ChangeBackups([bdir EXCEPT
                                !.auto[<<snap[proc[p].base].vault, g>>] = NoFile]),
               proc' = [proc EXCEPT
                          ![p].victims = @ \ {g},
                          ![p].pc = IF proc[p].victims = {g} THEN "prunesync"
                                    ELSE "unlinked"]
        PROVE  TypeOK'
    <3>1. proc' \in [Procs -> ProcState]
      BY ZenonT(30), <2>2 DEF ProcState
    <3>2. \A n : [bdir EXCEPT !.auto[n] = NoFile] \in BackupsDir
      BY Zenon DEF BackupsDir
    <3>3. UNCHANGED <<table, vault, lock, hist>>
      BY Zenon, <1>16 DEF PruneUnlink
    <3>4. bdir' \in BackupsDir /\ bdirDisk' \in SUBSET BackupsDir
      BY Zenon, <2>2, <3>2 DEF ChangeBackups
    <3>5. QED
      BY Zenon, <2>2, <3>1, <3>3, <3>4
  <2>3. QED
    BY Zenon, <1>16, <2>1, <2>2 DEF PruneUnlink
<1>17. ASSUME NEW p \in Procs, PruneSync(p) PROVE TypeOK'
  <2>1. proc' \in [Procs -> ProcState]
    BY Zenon, <1>17 DEF PruneSync, Goto, ProcState
  <2>2. QED
    BY Zenon, <1>0, <1>17, <2>1 DEF PruneSync
<1>18. ASSUME NEW p \in Procs, Kill(p) PROVE TypeOK'
    BY Zenon, <1>0, <1>18 DEF Kill
<1>19. CASE RemoveActive \/ PlaceAlien
  <2>1. \A f \in File : [vdir EXCEPT !.active = f] \in VaultDir
    BY Zenon DEF VaultDir
  <2>2. QED
    BY <1>0, <1>19, <2>1 DEF RemoveActive, PlaceAlien, ChangeVaultDir
<1>20. CASE Crash
  <2>1. CrashVaultDirs \subseteq VaultDir
    BY DEF CrashVaultDirs, VaultDir
  <2>2. PICK d \in CrashVaultDirs, e \in bdirDisk :
          /\ vdir' = [d EXCEPT !.active = AfterCrash(@)]
          /\ bdir' = IF d.backups
                     THEN [auto |-> [n \in Names |-> AfterCrash(e.auto[n])],
                           pre |-> {AfterCrash(f) : f \in e.pre}]
                     ELSE EmptyBackups
    BY Zenon, <1>20 DEF Crash
  <2>3. vdir' \in VaultDir
    BY Zenon, <2>1, <2>2 DEF VaultDir
  <2>4. bdir' \in BackupsDir
    BY <2>2 DEF BackupsDir
  <2>5. rolledBack' \in BOOLEAN
    BY Zenon, <1>20 DEF Crash
  <2>6. QED
    BY Zenon, <1>0, <1>20, <2>3, <2>4, <2>5 DEF Crash
<1>21. QED
    BY Zenon, <1>2, <1>3, <1>4, <1>5, <1>7, <1>8, <1>9, <1>10, <1>11, <1>12, <1>13, <1>14,
       <1>15, <1>16, <1>17, <1>18, <1>19, <1>20 DEF Next, Step

-----------------------------------------------------------------------------
(***************************************************************************)
(* The inductive step.  Most of it is the frame: what a process does to    *)
(* the directories while it holds the lock does not disturb the others.    *)
(***************************************************************************)

\* A step that moves p to a label changes nothing else of its locals.
LEMMA GotoFields ==
    ASSUME TypeOK, NEW p \in Procs, NEW l, Goto(p, l)
    PROVE  /\ proc'[p].pc = l
           /\ proc'[p].op = proc[p].op /\ proc'[p].base = proc[p].base
           /\ proc'[p].new = proc[p].new /\ proc'[p].tmp = proc[p].tmp
           /\ proc'[p].status = proc[p].status /\ proc'[p].warn = proc[p].warn
           /\ proc'[p].victims = proc[p].victims
           /\ \A o \in Procs \ {p} : proc'[o] = proc[o]
    BY Zenon DEF TypeOK, ProcState, Goto

\* So does a step that ends the command, but for the status.
LEMMA ReturnFields ==
    ASSUME TypeOK, NEW p \in Procs, NEW s,
           proc' = [proc EXCEPT ![p].pc = "unlock", ![p].status = s]
    PROVE  /\ proc'[p].pc = "unlock" /\ proc'[p].status = s
           /\ proc'[p].op = proc[p].op /\ proc'[p].base = proc[p].base
           /\ proc'[p].new = proc[p].new /\ proc'[p].tmp = proc[p].tmp
           /\ \A o \in Procs \ {p} : proc'[o] = proc[o]
    BY Zenon DEF TypeOK, ProcState

\* A process without the lock: idle, about to ask for it, or refused.
Outside(o) ==
    /\ proc[o].pc \in {"idle", "ready", "unlock"}
    /\ proc[o].status # "OK"

\* Only the holder of the lock is inside.
LEMMA OthersOutside ==
    ASSUME IInv, NEW o \in Procs, lock # o
    PROVE  Outside(o)
<1>1. proc[o].pc \in PCs
    BY Zenon DEF IInv, TypeOK, ProcState
<1>2. proc[o].pc \notin LockedPCs /\ (proc[o].pc = "unlock" => proc[o].status # "OK")
    BY Zenon DEF IInv, LockInv
<1>3. proc[o].pc \notin Pruning \cup {"unlock"} => proc[o].status = "none"
    BY Zenon DEF IInv, ProcInv, CommandInv, InstallInv
<1>4. QED
    BY Zenon, <1>1, <1>2, <1>3 DEF Outside, LockedPCs, PCs, Pruning

\* What holds of a process outside does not depend on the active file.
LEMMA OutsideKept ==
    ASSUME IInv, NEW o \in Procs, Outside(o), proc'[o] = proc[o],
           used' \in Nat, used <= used', vdir.backups => vdir'.backups
    PROVE  CommandInv(o)'
<1>1. CommandInv(o) /\ used \in Nat
    BY DEF IInv, ProcInv, TypeOK
<1> USE <1>1 DEF Outside, CommandInv, BeforeRename, AfterRename, Pruning
<1>2. SaveInv(o)'
    BY DEF SaveInv
<1>3. RestoreInv(o)'
    BY DEF RestoreInv
<1>4. CreateInv(o)'
    BY Zenon DEF CreateInv
<1>5. BackupInv(o)'
    BY Zenon DEF BackupInv
<1>6. InstallInv(o)'
    BY Zenon DEF InstallInv
<1>7. QED
    BY Zenon, <1>2, <1>3, <1>4, <1>5, <1>6

\* A step of the process that holds the lock.
LEMMA HoldingStep ==
    ASSUME IInv, TypeOK', NEW p \in Procs, lock = p, lock' = lock,
           \A o \in Procs \ {p} : proc'[o] = proc[o],
           used <= used', vdir.backups => vdir'.backups,
           CommandInv(p)', TableInv', FilesInv', AckedSurvives'
    PROVE  IInv'
<1>1. ASSUME NEW o \in Procs \ {p} PROVE Outside(o) /\ CommandInv(o)'
    BY OthersOutside, OutsideKept DEF TypeOK
<1>2. ProcInv'
    BY Zenon, <1>1 DEF ProcInv
<1>3. LockInv'
    BY Zenon, <1>1 DEF LockInv, Outside, LockedPCs
<1>4. QED
    BY Zenon, <1>2, <1>3 DEF IInv

\* What is known of a command depends on its own locals and on the files.
LEMMA CommandKept ==
    ASSUME NEW o \in Procs, UNCHANGED <<table, vault, backups>>, proc'[o] = proc[o],
           CommandInv(o)
    PROVE  CommandInv(o)'
<1>1. UNCHANGED <<snap, used, vdir, vdirDisk, bdir, bdirDisk>>
    BY Zenon DEF table, vault, backups
<1>2. SaveInv(o)' /\ RestoreInv(o)' /\ CreateInv(o)'
  <2>1. SaveInv(o) /\ RestoreInv(o) /\ CreateInv(o)
    BY Zenon DEF CommandInv
  <2>2. QED
    BY ONLY Zenon, <1>1, <2>1, proc'[o] = proc[o] DEF SaveInv, RestoreInv, CreateInv
<1>3. BackupInv(o)'
  <2>1. BackupInv(o)
    BY Zenon DEF CommandInv
  <2>2. AutoName(o)' = AutoName(o)
    BY Zenon, <1>1 DEF AutoName
  <2>3. QED
    BY ONLY Zenon, <1>1, <2>1, <2>2, proc'[o] = proc[o] DEF BackupInv
<1>4. InstallInv(o)'
  <2>1. InstallInv(o)
    BY Zenon DEF CommandInv
  <2>2. QED
    BY ONLY Zenon, <1>1, <2>1, proc'[o] = proc[o] DEF InstallInv
<1>5. QED
    BY Zenon, <1>2, <1>3, <1>4 DEF CommandInv

\* A step that leaves the files alone disturbs no other process.
LEMMA FilesKeptStep ==
    ASSUME IInv, TypeOK', NEW p \in Procs, UNCHANGED <<table, vault, backups>>,
           \A o \in Procs \ {p} : proc'[o] = proc[o],
           CommandInv(p)', LockInv', AckedSurvives'
    PROVE  IInv'
<1>1. TableInv' /\ FilesInv'
    BY Zenon DEF IInv, TableInv, FilesInv, table, vault, backups
<1>2. ASSUME NEW o \in Procs \ {p} PROVE CommandInv(o)'
    BY Zenon, CommandKept DEF IInv, ProcInv
<1>3. ProcInv'
    BY Zenon, <1>2 DEF ProcInv
<1>4. QED
    BY Zenon, <1>1, <1>3 DEF IInv

\* A step that changes only the locals of p.
LEMMA LocalStep ==
    ASSUME IInv, TypeOK', NEW p \in Procs,
           UNCHANGED <<table, vault, backups, lock, hist>>,
           \A o \in Procs \ {p} : proc'[o] = proc[o],
           CommandInv(p)',
           proc'[p].pc \in LockedPCs => lock = p,
           proc'[p].pc = "unlock" /\ proc'[p].status = "OK" => lock = p
    PROVE  IInv'
<1>1. LockInv' /\ AckedSurvives'
    BY DEF IInv, LockInv, AckedSurvives, vault, hist
<1>2. QED
    BY Zenon, <1>1, FilesKeptStep

\* A command that gives up leaves everything as it was.
LEMMA ReturnStep ==
    ASSUME IInv, TypeOK', NEW p \in Procs, NEW s, s \notin {"none", "OK"},
           Return(p, s), proc[p].pc # "idle"
    PROVE  IInv'
<1>1. /\ proc'[p].pc = "unlock" /\ proc'[p].status = s
      /\ proc'[p].op = proc[p].op /\ proc'[p].base = proc[p].base
      /\ proc'[p].new = proc[p].new
      /\ \A o \in Procs \ {p} : proc'[o] = proc[o]
    BY Zenon, ZenonT(30), ReturnFields DEF IInv, Return
<1>2. CommandInv(p)'
  <2>1. CommandInv(p) /\ UNCHANGED <<vdir, used>>
    BY Zenon DEF IInv, ProcInv, Return, vault, table
  <2> USE <1>1, <2>1 DEF CommandInv, BeforeRename, AfterRename, Pruning
  <2>2. SaveInv(p)' /\ RestoreInv(p)' /\ CreateInv(p)'
    BY Zenon DEF SaveInv, RestoreInv, CreateInv
  <2>3. BackupInv(p)' /\ InstallInv(p)'
    BY Zenon DEF BackupInv, InstallInv
  <2>4. QED
    BY Zenon, <2>2, <2>3
<1>3. QED
    BY Zenon, <1>1, <1>2, LocalStep DEF Return, LockedPCs

\* The unlocked beginning of a command: open, init, or reading a backup.
LEMMA StartStep ==
    ASSUME IInv, TypeOK', NEW p \in Procs, Start(p)
    PROVE  IInv'
<1> USE DEF Idle, LockedPCs, BeforeRename, AfterRename, Pruning
<1>1. proc \in [Procs -> ProcState] /\ used \in 0..MaxSnap /\ FilesInv
    BY Zenon DEF IInv, TypeOK
<1>2. CASE Open(p)
  <2>1. /\ proc'[p] = [Idle EXCEPT !.pc = "ready", !.op = "save",
                                   !.base = vdir.active.snap]
        /\ \A o \in Procs \ {p} : proc'[o] = proc[o]
    BY Zenon, <1>1, <1>2 DEF Open
  <2>2. vdir.active.snap \in 1..used
    BY <1>1, <1>2, BoundsAssumption DEF Open, Readable, Ids, FilesInv
  <2>3. CommandInv(p)'
    <3>1. used' = used
      BY Zenon, <1>2 DEF Open, table
    <3>2. SaveInv(p)' /\ RestoreInv(p)' /\ CreateInv(p)'
      BY <2>1, <2>2, <3>1 DEF SaveInv, RestoreInv, CreateInv
    <3>3. BackupInv(p)' /\ InstallInv(p)'
      BY Zenon, <2>1 DEF BackupInv, InstallInv
    <3>4. QED
      BY Zenon, <3>2, <3>3 DEF CommandInv
  <2>4. QED
    BY <1>2, <2>1, <2>3, LocalStep DEF Open
<1>3. CASE BeginCreate(p)
  <2>1. /\ proc'[p] = [Idle EXCEPT !.pc = "ready", !.op = "create"]
        /\ \A o \in Procs \ {p} : proc'[o] = proc[o]
    BY Zenon, <1>1, <1>3 DEF BeginCreate
  <2>2. CommandInv(p)'
    BY Zenon, <2>1 DEF CommandInv, SaveInv, RestoreInv, CreateInv, BackupInv, InstallInv
  <2>3. QED
    BY <1>3, <2>1, <2>2, LocalStep DEF BeginCreate
<1>4. CASE ReadBackup(p)
  <2>1. PICK s \in placed :
          proc' = [proc EXCEPT ![p] = [Idle EXCEPT !.pc = "ready",
                                        !.op = "restore", !.new = s]]
    BY Zenon, <1>4 DEF ReadBackup
  <2>2. /\ proc'[p] = [Idle EXCEPT !.pc = "ready", !.op = "restore", !.new = s]
        /\ \A o \in Procs \ {p} : proc'[o] = proc[o]
    BY Zenon, <1>1, <2>1
  <2>3. s \in 1..used
    BY Zenon, <2>1 DEF IInv, TypeOK
  <2>5. UNCHANGED <<table, vault, backups, lock, hist>>
    BY Zenon, <1>4 DEF ReadBackup
  <2>6. CommandInv(p)'
    BY <2>2, <2>3, <2>5 DEF CommandInv, SaveInv, RestoreInv, CreateInv,
                            BackupInv, InstallInv, table, vault
  <2>7. QED
    BY Zenon, <2>2, <2>5, <2>6, LocalStep
<1>5. QED
    BY Zenon, <1>2, <1>3, <1>4 DEF Start

\* An idle process satisfies everything that is asked of a command.
LEMMA IdleCommand ==
    ASSUME NEW p \in Procs, proc'[p] = Idle
    PROVE  CommandInv(p)'
<1> USE DEF Idle, BeforeRename, AfterRename, Pruning
<1>1. SaveInv(p)' /\ RestoreInv(p)' /\ CreateInv(p)'
    BY SMTT(30) DEF SaveInv, RestoreInv, CreateInv
<1>2. BackupInv(p)' /\ InstallInv(p)'
    BY SMTT(30) DEF BackupInv, InstallInv
<1>3. QED
    BY Zenon, <1>1, <1>2 DEF CommandInv

\* Taking the lock, or failing to.
LEMMA LockVaultStep ==
    ASSUME IInv, TypeOK', NEW p \in Procs, LockVault(p)
    PROVE  IInv'
<1>1. CASE Refuse(p, "LOCKED") \/ Fail(p, "IO")
    BY Zenon, <1>1, ReturnStep DEF Refuse, Fail, LockVault
<1>2. CASE /\ lock = NoProc /\ lock' = p /\ Goto(p, "check")
           /\ UNCHANGED <<table, vault, backups, events, hist>>
  <2>1. /\ proc'[p].pc = "check"
        /\ proc'[p].op = proc[p].op /\ proc'[p].base = proc[p].base
        /\ proc'[p].new = proc[p].new /\ proc'[p].tmp = proc[p].tmp
        /\ proc'[p].status = proc[p].status
        /\ \A o \in Procs \ {p} : proc'[o] = proc[o]
    BY Zenon, <1>2, GotoFields DEF IInv
  <2>2. CommandInv(p) /\ proc[p].pc = "ready" /\ UNCHANGED <<used, vdir>>
    BY Zenon, <1>2 DEF IInv, ProcInv, LockVault, table, vault
  <2>3. CommandInv(p)'
    <3> USE <2>1, <2>2 DEF CommandInv, BeforeRename, AfterRename, Pruning
    <3>1. SaveInv(p)' /\ RestoreInv(p)' /\ CreateInv(p)'
      BY Zenon DEF SaveInv, RestoreInv, CreateInv
    <3>2. BackupInv(p)' /\ InstallInv(p)'
      BY Zenon, ZenonT(30) DEF BackupInv, InstallInv
    <3>3. QED
      BY ONLY Zenon, <3>1, <3>2 DEF CommandInv
  <2>4. LockInv' /\ AckedSurvives'
    BY Zenon, <1>2, <2>1, NoProcAssumption DEF IInv, LockInv, AckedSurvives, vault, hist
  <2>5. QED
    BY Zenon, <1>2, <2>1, <2>3, <2>4, FilesKeptStep
<1>3. QED
    BY Zenon, <1>1, <1>2 DEF LockVault

\* Giving it back; PV_OK is only reported for what the disk holds.
LEMMA UnlockStep ==
    ASSUME IInv, TypeOK', NEW p \in Procs, Unlock(p)
    PROVE  IInv'
<1>1. proc'[p] = Idle /\ \A o \in Procs \ {p} : proc'[o] = proc[o]
    BY Zenon DEF Unlock, IInv, TypeOK
<1>2. CommandInv(p)'
    BY Zenon, <1>1, IdleCommand
<1>3. LockInv'
    BY <1>1 DEF IInv, LockInv, Unlock, Idle, LockedPCs
<1>4. AckedSurvives'
  <2>1. proc[p].status = "OK" => vdirDisk = {vdir} /\ vdir.active.snap = proc[p].new
    BY Zenon DEF IInv, ProcInv, CommandInv, InstallInv
  <2>2. QED
    BY Zenon, <2>1 DEF IInv, AckedSurvives, Unlock, vault
<1>5. QED
    BY Zenon, <1>1, <1>2, <1>3, <1>4, FilesKeptStep DEF Unlock

\* The kernel releases the lock of a killed process.
LEMMA KillStep ==
    ASSUME IInv, TypeOK', NEW p \in Procs, Kill(p)
    PROVE  IInv'
<1>1. proc'[p] = Idle /\ \A o \in Procs \ {p} : proc'[o] = proc[o]
    BY Zenon DEF Kill, IInv, TypeOK
<1>2. CommandInv(p)'
    BY Zenon, <1>1, IdleCommand
<1>3. LockInv'
    BY <1>1 DEF IInv, LockInv, Kill, Idle, LockedPCs
<1>4. AckedSurvives'
    BY Zenon DEF IInv, AckedSurvives, Kill, vault, hist
<1>5. QED
    BY Zenon, <1>1, <1>2, <1>3, <1>4, FilesKeptStep DEF Kill

\* Encryption adds a snapshot to the table and nothing to the disk.
LEMMA EncryptStep ==
    ASSUME IInv, TypeOK', NEW p \in Procs, NEW info, NEW l, lock = p, used < MaxSnap,
           Encrypt(p, info, l),
           info.vault \in 1..used + 1, info.gen \in Gens, info.base \in 0..used,
           info.base # 0 => /\ info.vault = snap[info.base].vault
                            /\ info.gen = snap[info.base].gen + 1
    PROVE  /\ proc'[p].pc = l /\ proc'[p].new = used + 1
           /\ proc'[p].op = proc[p].op /\ proc'[p].base = proc[p].base
           /\ proc'[p].status = proc[p].status
           /\ used' = used + 1 /\ snap'[used + 1] = info
           /\ UNCHANGED <<vdir, bdir>>
           /\ CommandInv(p)' => IInv'
<1> USE BoundsAssumption
<1>1. /\ used' = used + 1 /\ snap' = [snap EXCEPT ![used + 1] = info]
      /\ proc' = [proc EXCEPT ![p].pc = l, ![p].new = used + 1]
      /\ UNCHANGED <<vault, backups, lock, events, hist>>
    BY DEF Encrypt
<1>2. TypeOK /\ used \in 0..MaxSnap /\ snap \in [Ids -> SnapInfo]
    BY Zenon DEF IInv, TypeOK
<1>3. /\ proc'[p].pc = l /\ proc'[p].new = used + 1
      /\ proc'[p].op = proc[p].op /\ proc'[p].base = proc[p].base
      /\ proc'[p].status = proc[p].status
      /\ \A o \in Procs \ {p} : proc'[o] = proc[o]
    BY Zenon, <1>1, <1>2 DEF TypeOK, ProcState
<1>4. snap'[used + 1] = info /\ \A i \in 1..used : snap'[i] = snap[i]
    BY SMTT(30), <1>1, <1>2 DEF Ids
<1>5. TableInv'
  <2> SUFFICES ASSUME NEW i \in 1..used + 1
               PROVE  LET s == snap'[i] IN
                      /\ s.vault \in 1..used + 1
                      /\ s.gen \in Gens
                      /\ s.base \in 0..used + 1
                      /\ s.base # 0 => /\ s.vault = snap'[s.base].vault
                                       /\ s.gen = snap'[s.base].gen + 1
    BY Zenon, <1>1 DEF TableInv
  <2>1. CASE i = used + 1
    BY <1>2, <1>4, <2>1
  <2>2. CASE i \in 1..used
    BY <1>2, <1>4, <2>2 DEF IInv, TableInv
  <2>3. QED
    BY <1>2, <2>1, <2>2
<1>6. FilesInv'
    BY <1>1, <1>2 DEF IInv, FilesInv, vault, backups
<1>7. AckedSurvives'
    BY Zenon, <1>1 DEF IInv, AckedSurvives, vault, hist
<1>8. UNCHANGED <<vdir, bdir, lock>> /\ used <= used'
    BY SMTT(30), <1>1, <1>2 DEF vault, backups
<1>9. ASSUME CommandInv(p)' PROVE IInv'
    BY Zenon, <1>3, <1>5, <1>6, <1>7, <1>8, <1>9, HoldingStep
<1>10. QED
    BY Zenon, <1>1, <1>3, <1>4, <1>8, <1>9

-----------------------------------------------------------------------------
(***************************************************************************)
(* The steps of create, save and restore, from the check under the lock to *)
(* the readback.                                                           *)
(***************************************************************************)

\* The check that opens each command's critical section.
LEMMA CheckStep ==
    ASSUME IInv, TypeOK', NEW p \in Procs, Check(p)
    PROVE  IInv'
<1> USE BoundsAssumption
<1>1. CommandInv(p) /\ proc[p].pc = "check" /\ lock = p
    BY Zenon DEF IInv, ProcInv, LockInv, LockedPCs, PCs, Check, CheckCreate, CheckSave,
           CheckRestore
<1>2. ASSUME NEW s, s \notin {"none", "OK"}, Refuse(p, s) \/ Fail(p, s) PROVE IInv'
    BY Zenon, <1>1, <1>2, ReturnStep DEF Refuse, Fail
<1>3. used \in 0..MaxSnap /\ snap \in [Ids -> SnapInfo]
    BY Zenon DEF IInv, TypeOK
<1> USE DEF CommandInv, BeforeRename, AfterRename, Pruning
<1>4. CASE CheckCreate(p)
  <2> DEFINE info == [vault |-> used + 1, gen |-> 1, base |-> 0]
  <2>1. ASSUME used < MaxSnap, Encrypt(p, info, "temp") PROVE IInv'
    <3>1. /\ proc'[p].pc = "temp" /\ proc'[p].new = used + 1
          /\ proc'[p].op = proc[p].op /\ proc'[p].base = proc[p].base
          /\ proc'[p].status = proc[p].status
          /\ used' = used + 1 /\ snap'[used + 1] = info
          /\ CommandInv(p)' => IInv'
      BY <1>1, <1>3, <2>1, EncryptStep DEF Gens
    <3>2. proc[p].op = "create"
      BY Zenon, <1>4 DEF CheckCreate
    <3>3. SaveInv(p)' /\ RestoreInv(p)' /\ CreateInv(p)'
      BY ONLY <1>1, <1>3, <3>1, <3>2
         DEF SaveInv, RestoreInv, CreateInv, CommandInv, BeforeRename, AfterRename, Pruning
    <3>4. BackupInv(p)' /\ InstallInv(p)'
      BY ONLY Zenon, <1>1, <3>1, <3>2
         DEF BackupInv, InstallInv, CommandInv, BeforeRename, AfterRename, Pruning
    <3>5. QED
      BY Zenon, <3>1, <3>3, <3>4
  <2>2. QED
    BY <1>2, <1>4, <2>1 DEF CheckCreate, Encrypt
<1>5. CASE CheckSave(p)
  <2> DEFINE old == snap[proc[p].base]
             info == [vault |-> old.vault, gen |-> old.gen + 1, base |-> proc[p].base]
  <2>1. ASSUME ~AtLimit(old.gen), SameSource(p), used < MaxSnap,
               Encrypt(p, info, "mkdir")
        PROVE  IInv'
    <3>1. proc[p].op = "save" /\ proc[p].base \in 1..used
      BY ONLY Zenon, <1>1, <1>5 DEF CheckSave, SaveInv, CommandInv, BeforeRename, AfterRename, Pruning
    <3>2. old.vault \in 1..used /\ old.gen + 1 \in Gens
      <4>1. old.vault \in 1..used /\ old.gen \in Gens
        BY Zenon, <3>1 DEF IInv, TableInv
      <4>2. QED
        BY <2>1, <4>1 DEF AtLimit, Gens
    <3>3. /\ proc'[p].pc = "mkdir" /\ proc'[p].new = used + 1
          /\ proc'[p].op = proc[p].op /\ proc'[p].base = proc[p].base
          /\ proc'[p].status = proc[p].status
          /\ used' = used + 1 /\ snap'[used + 1] = info /\ vdir' = vdir
          /\ CommandInv(p)' => IInv'
      <4>1. /\ info.vault \in 1..used + 1 /\ info.gen \in Gens /\ info.base \in 0..used
            /\ info.vault = snap[info.base].vault /\ info.gen = snap[info.base].gen + 1
        BY ONLY SMT, BoundsAssumption, <1>3, <3>1, <3>2
      <4>2. QED
        BY ONLY Zenon, ZenonT(30), IInv, TypeOK', p \in Procs, <1>1, <2>1, <4>1, EncryptStep
    <3>4. SaveInv(p)' /\ RestoreInv(p)' /\ CreateInv(p)'
      BY ONLY SMTT(30), <1>1, <1>3, <2>1, <3>1, <3>3
         DEF SaveInv, RestoreInv, CreateInv, SameSource, CommandInv, BeforeRename, AfterRename, Pruning
    <3>5. BackupInv(p)' /\ InstallInv(p)'
      BY ONLY Zenon, <1>1, <3>1, <3>3
         DEF BackupInv, InstallInv, CommandInv, BeforeRename, AfterRename, Pruning
    <3>6. QED
      BY Zenon, <3>3, <3>4, <3>5
  <2>2. QED
    BY <1>2, <1>5, <2>1 DEF CheckSave, Encrypt
<1>6. CASE CheckRestore(p)
  <2>1. CASE Goto(p, "temp") /\ UNCHANGED <<table, vault, backups, lock, events, hist>>
    <3>1. /\ proc'[p].pc = "temp"
          /\ proc'[p].op = proc[p].op /\ proc'[p].base = proc[p].base
          /\ proc'[p].new = proc[p].new /\ proc'[p].status = proc[p].status
          /\ \A o \in Procs \ {p} : proc'[o] = proc[o]
      BY Zenon, <2>1, GotoFields DEF IInv
    <3>2. proc[p].op = "restore" /\ UNCHANGED <<used, vdir>>
      BY Zenon, <1>6, <2>1 DEF CheckRestore, table, vault
    <3>3. SaveInv(p)' /\ RestoreInv(p)' /\ CreateInv(p)'
      BY ONLY <1>1, <1>3, <3>1, <3>2
         DEF SaveInv, RestoreInv, CreateInv, CommandInv, BeforeRename, AfterRename, Pruning
    <3>4. BackupInv(p)' /\ InstallInv(p)'
      BY ONLY Zenon, <1>1, <3>1, <3>2
         DEF BackupInv, InstallInv, RestoreInv, CommandInv, BeforeRename, AfterRename, Pruning
    <3>5. QED
      BY Zenon, <1>1, <2>1, <3>1, <3>3, <3>4, LocalStep
  <2>2. CASE /\ Readable(vdir.active)
             /\ proc' = [proc EXCEPT ![p].pc = "mkdir", ![p].base = vdir.active.snap]
             /\ UNCHANGED <<table, vault, backups, lock, events, hist>>
    <3>1. /\ proc'[p].pc = "mkdir" /\ proc'[p].base = vdir.active.snap
          /\ proc'[p].op = proc[p].op /\ proc'[p].new = proc[p].new
          /\ proc'[p].status = proc[p].status
          /\ \A o \in Procs \ {p} : proc'[o] = proc[o]
      BY Zenon, <2>2 DEF IInv, TypeOK, ProcState
    <3>2. proc[p].op = "restore" /\ UNCHANGED <<used, vdir>>
      BY Zenon, <1>6, <2>2 DEF CheckRestore, table, vault
    <3>3. vdir.active.snap \in 1..used
      BY <1>3, <2>2 DEF Readable, Ids, IInv, FilesInv
    <3>4. SaveInv(p)' /\ RestoreInv(p)' /\ CreateInv(p)'
      BY ONLY Zenon, <1>1, <1>3, <3>1, <3>2, <3>3
         DEF SaveInv, RestoreInv, CreateInv, CommandInv, BeforeRename, AfterRename, Pruning
    <3>5. BackupInv(p)' /\ InstallInv(p)'
      BY ONLY Zenon, <1>1, <3>1, <3>2
         DEF BackupInv, InstallInv, CommandInv, BeforeRename, AfterRename, Pruning
    <3>6. QED
      BY Zenon, <1>1, <2>2, <3>1, <3>4, <3>5, LocalStep
  <2>3. QED
    BY SMTT(30), <1>2, <1>6, <2>1, <2>2 DEF CheckRestore
<1>7. QED
    BY Zenon, <1>4, <1>5, <1>6 DEF Check

\* Creating backups/, synchronised or not.
LEMMA MakeBackupsDirStep ==
    ASSUME IInv, TypeOK', NEW p \in Procs, MakeBackupsDir(p)
    PROVE  IInv'
<1>1. CommandInv(p) /\ proc[p].pc = "mkdir" /\ lock = p
    BY Zenon DEF IInv, ProcInv, LockInv, LockedPCs, PCs, MakeBackupsDir
<1> USE DEF CommandInv, BeforeRename, AfterRename, Pruning
<1>2. CASE Fail(p, "IO")
    BY Zenon, <1>1, <1>2, ReturnStep DEF Fail
<1>3. ASSUME Goto(p, "backup"), vdir'.active = vdir.active, vdir'.backups,
             UNCHANGED used
      PROVE  CommandInv(p)' /\ \A o \in Procs \ {p} : proc'[o] = proc[o]
  <2>1. /\ proc'[p].pc = "backup"
        /\ proc'[p].op = proc[p].op /\ proc'[p].base = proc[p].base
        /\ proc'[p].new = proc[p].new /\ proc'[p].status = proc[p].status
        /\ \A o \in Procs \ {p} : proc'[o] = proc[o]
    BY Zenon, <1>3, GotoFields DEF IInv
  <2>2. UNCHANGED snap
    BY Zenon DEF MakeBackupsDir, Fail, Return, table
  <2>3. SaveInv(p)' /\ RestoreInv(p)' /\ CreateInv(p)'
    BY ONLY Zenon, <1>1, <1>3, <2>1, <2>2
       DEF SaveInv, RestoreInv, CreateInv, CommandInv, BeforeRename, AfterRename, Pruning
  <2>4. BackupInv(p)' /\ InstallInv(p)'
    BY ONLY Zenon, <1>1, <1>3, <2>1
       DEF BackupInv, InstallInv, CommandInv, BeforeRename, AfterRename, Pruning
  <2>5. QED
    BY Zenon, <2>1, <2>3, <2>4
<1>4. CASE /\ vdir.backups /\ Goto(p, "backup")
           /\ UNCHANGED <<table, vault, backups, lock, events, hist>>
  <2>1. CommandInv(p)' /\ \A o \in Procs \ {p} : proc'[o] = proc[o]
    BY Zenon, <1>3, <1>4 DEF vault, table
  <2>2. proc'[p].pc = "backup"
    BY Zenon, <1>4, GotoFields DEF IInv
  <2>3. QED
    BY Zenon, <1>1, <1>4, <2>1, <2>2, LocalStep
<1>5. ASSUME vdir' = [vdir EXCEPT !.backups = TRUE],
             vdirDisk' = {vdir'} \/ vdirDisk' = vdirDisk \cup {vdir'},
             UNCHANGED <<table, backups, lock, hist>>,
             CommandInv(p)', \A o \in Procs \ {p} : proc'[o] = proc[o]
      PROVE  IInv'
  <2>1. vdir'.active = vdir.active /\ vdir'.backups
    BY Zenon, <1>5 DEF IInv, TypeOK, VaultDir
  <2>2. FilesInv'
    BY Zenon, <1>5, <2>1 DEF IInv, FilesInv, table, backups
  <2>3. TableInv' /\ AckedSurvives'
    <3>1. TableInv'
      BY Zenon, <1>5 DEF IInv, TableInv, table
    <3>2. acked' = acked /\ \A d \in vdirDisk' \cup {vdir'} : d \in vdirDisk \/ d = vdir'
      BY Zenon, <1>5 DEF hist
    <3>3. AckedSurvives'
      BY Zenon, <2>1, <3>2 DEF IInv, AckedSurvives
    <3>4. QED
      BY Zenon, <3>1, <3>3
  <2>4. used <= used' /\ (vdir.backups => vdir'.backups)
    BY <1>5, <2>1, BoundsAssumption DEF IInv, TypeOK, table
  <2>5. QED
    BY Zenon, <1>1, <1>5, <2>2, <2>3, <2>4, HoldingStep
<1>6. CASE /\ vdir' = [vdir EXCEPT !.backups = TRUE] /\ vdirDisk' = {vdir'}
           /\ Goto(p, "backup")
           /\ UNCHANGED <<table, backups, lock, events, hist>>
  <2>1. vdir'.active = vdir.active /\ vdir'.backups
    BY Zenon, <1>6 DEF IInv, TypeOK, VaultDir
  <2>2. QED
    BY Zenon, <1>3, <1>5, <1>6, <2>1 DEF table
<1>7. CASE /\ ChangeVaultDir([vdir EXCEPT !.backups = TRUE])
           /\ proc' = [proc EXCEPT ![p].pc = "unlock", ![p].status = "IO"]
           /\ UNCHANGED <<table, backups, lock, hist>>
  <2>1. vdir'.active = vdir.active /\ vdir'.backups
    BY Zenon, <1>7 DEF IInv, TypeOK, VaultDir, ChangeVaultDir
  <2>2. /\ proc'[p].pc = "unlock" /\ proc'[p].status = "IO"
        /\ proc'[p].op = proc[p].op /\ proc'[p].base = proc[p].base
        /\ proc'[p].new = proc[p].new
        /\ \A o \in Procs \ {p} : proc'[o] = proc[o]
    BY Zenon, <1>7, ReturnFields DEF IInv
  <2>3. UNCHANGED used
    BY Zenon, <1>7 DEF table
  <2>4. SaveInv(p)' /\ RestoreInv(p)' /\ CreateInv(p)'
    BY ONLY Zenon, <1>1, <2>1, <2>2, <2>3
       DEF SaveInv, RestoreInv, CreateInv, CommandInv, BeforeRename, AfterRename, Pruning
  <2>5. BackupInv(p)' /\ InstallInv(p)'
    BY ONLY Zenon, <1>1, <2>1, <2>2
       DEF BackupInv, InstallInv, CommandInv, BeforeRename, AfterRename, Pruning
  <2>6. QED
    BY Zenon, <1>5, <1>7, <2>2, <2>4, <2>5 DEF ChangeVaultDir
<1>8. QED
    BY Zenon, <1>2, <1>4, <1>6, <1>7 DEF MakeBackupsDir

\* The name of an automatic backup is a name, and depends on the base only.
LEMMA AutoNameType ==
    ASSUME IInv, NEW p \in Procs, proc[p].base \in 1..used
    PROVE  AutoName(p) \in Names
<1>1. used \in 0..MaxSnap
    BY Zenon DEF IInv, TypeOK
<1>2. snap[proc[p].base].vault \in Ids /\ snap[proc[p].base].gen \in Gens
    BY <1>1, BoundsAssumption DEF IInv, TableInv, Ids
<1>3. QED
    BY Zenon, <1>2 DEF AutoName, Names

\* Publishing the backup of what is about to be replaced.
LEMMA PublishBackupStep ==
    ASSUME IInv, TypeOK', NEW p \in Procs, PublishBackup(p)
    PROVE  IInv'
<1>1. CommandInv(p) /\ proc[p].pc = "backup" /\ lock = p
    BY Zenon DEF IInv, ProcInv, LockInv, LockedPCs, PCs, PublishBackup, AutomaticBackup, PreRestoreCopy
<1>2. used \in Nat /\ bdir \in BackupsDir /\ vdir.backups
  <2>1. used \in Nat /\ bdir \in BackupsDir
    BY ONLY SMTT(30), IInv, BoundsAssumption DEF IInv, TypeOK
  <2>2. vdir.backups
    BY ONLY Zenon, <1>1 DEF CommandInv, BackupInv
  <2>3. QED
    BY ONLY Zenon, <2>1, <2>2
<1>3. CASE Refuse(p, "EXISTS") \/ Fail(p, "IO")
    BY Zenon, <1>1, <1>3, ReturnStep DEF Refuse, Fail
<1> USE DEF CommandInv, BeforeRename, AfterRename, Pruning
<1>4. ASSUME Goto(p, "bksync"), UNCHANGED <<table, vault>>,
             proc[p].op = "save" => bdir'.auto[AutoName(p)].snap = proc[p].base,
             proc[p].op = "restore" => TmpFile(proc[p].base) \in bdir'.pre
      PROVE  CommandInv(p)' /\ \A o \in Procs \ {p} : proc'[o] = proc[o]
  <2>1. /\ proc'[p].pc = "bksync"
        /\ proc'[p].op = proc[p].op /\ proc'[p].base = proc[p].base
        /\ proc'[p].new = proc[p].new /\ proc'[p].status = proc[p].status
        /\ \A o \in Procs \ {p} : proc'[o] = proc[o]
    BY Zenon, <1>4, GotoFields DEF IInv
  <2>2. UNCHANGED <<snap, used, vdir>>
    BY Zenon, <1>4 DEF table, vault
  <2>3. SaveInv(p)' /\ RestoreInv(p)' /\ CreateInv(p)'
    BY ONLY Zenon, <1>1, <2>1, <2>2
       DEF SaveInv, RestoreInv, CreateInv, CommandInv, BeforeRename, AfterRename, Pruning
  <2>4. BackupInv(p)'
    <3>1. AutoName(p)' = AutoName(p)
      BY ONLY Zenon, <2>1, <2>2 DEF AutoName
    <3>2. vdir'.backups
      BY ONLY Zenon, <1>2, <2>2
    <3>3. QED
      BY ONLY Zenon, <1>4, <2>1, <3>1, <3>2 DEF BackupInv, AfterRename, TmpFile
  <2>5. InstallInv(p)'
    BY ONLY Zenon, <1>1, <2>1 DEF InstallInv, CommandInv, BeforeRename, AfterRename, Pruning
  <2>6. QED
    BY Zenon, <2>1, <2>3, <2>4, <2>5
<1>5. ASSUME ChangeBackups(bdir'),
             \A n \in Names : bdir'.auto[n].synced /\ bdir'.auto[n].snap \in 0..used,
             \A f \in bdir'.pre : f.synced /\ f.snap \in 1..used,
             UNCHANGED <<table, vault, lock, hist>>,
             CommandInv(p)', \A o \in Procs \ {p} : proc'[o] = proc[o]
      PROVE  IInv'
  <2>1. FilesInv'
    BY Zenon, <1>2, <1>5 DEF IInv, FilesInv, table, vault, ChangeBackups
  <2>2. TableInv' /\ AckedSurvives' /\ UNCHANGED <<used, vdir>>
    BY Zenon, <1>5 DEF IInv, TableInv, AckedSurvives, table, vault, hist
  <2>3. lock = p /\ lock' = lock /\ used <= used' /\ (vdir.backups => vdir'.backups)
    <3>1. lock = p /\ lock' = lock /\ used' = used /\ vdir' = vdir
      BY ONLY Zenon, <1>1, <1>5, <2>2
    <3>2. QED
      BY ONLY SMT, <1>2, <3>1
  <2>4. QED
    BY ONLY Zenon, ZenonT(30), IInv, TypeOK', p \in Procs, <1>5, <2>1, <2>2, <2>3, HoldingStep
<1>6. CASE /\ proc[p].op = "save"
           /\ ChangeBackups([bdir EXCEPT !.auto[AutoName(p)] = TmpFile(proc[p].base)])
           /\ Goto(p, "bksync")
           /\ UNCHANGED <<table, vault, lock, events, hist>>
  <2>1. proc[p].base \in 1..used
    BY ONLY Zenon, <1>1, <1>6 DEF SaveInv, CommandInv, BeforeRename, AfterRename, Pruning
  <2>2. AutoName(p) \in Names
    BY Zenon, <2>1, AutoNameType
  <2>3. /\ bdir'.auto[AutoName(p)] = TmpFile(proc[p].base) /\ bdir'.pre = bdir.pre
        /\ \A n \in Names : n # AutoName(p) => bdir'.auto[n] = bdir.auto[n]
    BY Zenon, <1>2, <1>6, <2>2 DEF ChangeBackups, BackupsDir
  <2>4. CommandInv(p)' /\ \A o \in Procs \ {p} : proc'[o] = proc[o]
    BY <1>4, <1>6, <2>3 DEF TmpFile
  <2>5. /\ \A n \in Names : bdir'.auto[n].synced /\ bdir'.auto[n].snap \in 0..used
        /\ \A f \in bdir'.pre : f.synced /\ f.snap \in 1..used
    <3>1. /\ \A n \in Names : bdir.auto[n].synced /\ bdir.auto[n].snap \in 0..used
          /\ \A f \in bdir.pre : f.synced /\ f.snap \in 1..used
      BY Zenon, <1>2 DEF IInv, FilesInv
    <3>2. TmpFile(proc[p].base).synced /\ TmpFile(proc[p].base).snap \in 0..used
      BY ONLY SMT, <1>2, <2>1 DEF TmpFile
    <3>3. QED
      BY ONLY Zenon, <2>3, <3>1, <3>2
  <2>6. QED
    BY Zenon, <1>5, <1>6, <2>4, <2>5 DEF ChangeBackups
<1>7. CASE /\ proc[p].op = "save" /\ SameBytes(p) /\ Goto(p, "bksync")
           /\ UNCHANGED <<table, vault, backups, lock, events, hist>>
  <2>1. CommandInv(p)' /\ \A o \in Procs \ {p} : proc'[o] = proc[o]
    BY Zenon, <1>4, <1>7 DEF SameBytes, backups
  <2>2. proc'[p].pc = "bksync"
    BY Zenon, <1>7, GotoFields DEF IInv
  <2>3. QED
    BY Zenon, <1>1, <1>7, <2>1, <2>2, LocalStep
<1>8. CASE /\ proc[p].op = "restore"
           /\ ChangeBackups([bdir EXCEPT !.pre = @ \cup {TmpFile(vdir.active.snap)}])
           /\ Goto(p, "bksync")
           /\ UNCHANGED <<table, vault, lock, events, hist>>
  <2>1. proc[p].base \in 1..used /\ vdir.active.snap = proc[p].base
    BY ONLY <1>1, <1>8 DEF RestoreInv, CommandInv, BeforeRename, AfterRename, Pruning
  <2>2. bdir'.auto = bdir.auto /\ bdir'.pre = bdir.pre \cup {TmpFile(proc[p].base)}
    BY Zenon, <1>2, <1>8, <2>1 DEF ChangeBackups, BackupsDir
  <2>3. CommandInv(p)' /\ \A o \in Procs \ {p} : proc'[o] = proc[o]
    BY Zenon, <1>4, <1>8, <2>2
  <2>4. /\ \A n \in Names : bdir'.auto[n].synced /\ bdir'.auto[n].snap \in 0..used
        /\ \A f \in bdir'.pre : f.synced /\ f.snap \in 1..used
    BY <2>1, <2>2 DEF IInv, FilesInv, TmpFile
  <2>5. QED
    BY Zenon, <1>5, <1>8, <2>3, <2>4 DEF ChangeBackups
<1>9. QED
    BY Zenon, <1>3, <1>6, <1>7, <1>8 DEF PublishBackup, AutomaticBackup, PreRestoreCopy

\* The fsync of backups/ makes the backup what every crash leaves.
LEMMA SyncBackupStep ==
    ASSUME IInv, TypeOK', NEW p \in Procs, SyncBackup(p)
    PROVE  IInv'
<1>1. CommandInv(p) /\ proc[p].pc = "bksync" /\ lock = p
    BY Zenon DEF IInv, ProcInv, LockInv, LockedPCs, PCs, SyncBackup
<1> USE DEF CommandInv, BeforeRename, AfterRename, Pruning
<1>2. CASE Fail(p, "IO")
    BY Zenon, <1>1, <1>2, ReturnStep DEF Fail
<1>3. CASE /\ bdirDisk' = {bdir} /\ Goto(p, "temp")
           /\ UNCHANGED <<table, vault, bdir, lock, events, hist>>
  <2>1. /\ proc'[p].pc = "temp"
        /\ proc'[p].op = proc[p].op /\ proc'[p].base = proc[p].base
        /\ proc'[p].new = proc[p].new /\ proc'[p].status = proc[p].status
        /\ \A o \in Procs \ {p} : proc'[o] = proc[o]
    BY Zenon, <1>3, GotoFields DEF IInv
  <2>2. UNCHANGED <<snap, used, vdir, bdir>> /\ used \in Nat
    BY SMTT(30), <1>3, BoundsAssumption DEF table, vault, IInv, TypeOK
  <2>3. SaveInv(p)' /\ RestoreInv(p)' /\ CreateInv(p)'
    <3>1. SaveInv(p)'
      BY ONLY Zenon, <1>1, <2>1, <2>2 DEF SaveInv, CommandInv, BeforeRename, AfterRename, Pruning
    <3>2. RestoreInv(p)'
      BY ONLY <1>1, <2>1, <2>2 DEF RestoreInv, CommandInv, BeforeRename, AfterRename, Pruning
    <3>3. CreateInv(p)'
      BY ONLY Zenon, <1>1, <2>1, <2>2
         DEF CreateInv, CommandInv, BeforeRename, AfterRename, Pruning
    <3>4. QED
      BY ONLY Zenon, <3>1, <3>2, <3>3
  <2>4. BackupInv(p)'
    BY ONLY Zenon, <1>1, <1>3, <2>1, <2>2
       DEF BackupInv, AutoName, TmpFile, CommandInv, BeforeRename, AfterRename, Pruning
  <2>5. InstallInv(p)'
    BY ONLY Zenon, <1>1, <2>1 DEF InstallInv, CommandInv, BeforeRename, AfterRename, Pruning
  <2>6. FilesInv' /\ TableInv' /\ AckedSurvives'
    BY Zenon, <1>3, <2>2 DEF IInv, FilesInv, TableInv, AckedSurvives, vault, hist
  <2>7. QED
    BY SMTT(30), <1>1, <1>3, <2>1, <2>2, <2>3, <2>4, <2>5, <2>6, HoldingStep
<1>4. QED
    BY Zenon, <1>2, <1>3 DEF SyncBackup

\* Writing the temporary file touches no name anyone reads.
LEMMA WriteTempStep ==
    ASSUME IInv, TypeOK', NEW p \in Procs, WriteTemp(p)
    PROVE  IInv'
<1>1. CommandInv(p) /\ proc[p].pc = "temp" /\ lock = p
    BY Zenon DEF IInv, ProcInv, LockInv, LockedPCs, PCs, WriteTemp
<1> USE DEF CommandInv, BeforeRename, AfterRename, Pruning
<1>2. CASE Fail(p, "IO") \/ Fail(p, "LOCKED")
    BY Zenon, <1>1, <1>2, ReturnStep DEF Fail
<1>3. CASE /\ proc' = [proc EXCEPT ![p].pc = "rename", ![p].tmp = TmpFile(proc[p].new)]
           /\ UNCHANGED <<table, vault, backups, lock, events, hist>>
  <2>1. /\ proc'[p].pc = "rename" /\ proc'[p].tmp = TmpFile(proc[p].new)
        /\ proc'[p].op = proc[p].op /\ proc'[p].base = proc[p].base
        /\ proc'[p].new = proc[p].new /\ proc'[p].status = proc[p].status
        /\ \A o \in Procs \ {p} : proc'[o] = proc[o]
    BY Zenon, <1>3 DEF IInv, TypeOK, ProcState
  <2>2. UNCHANGED <<snap, used, vdir, bdirDisk>>
    BY Zenon, <1>3 DEF table, vault, backups
  <2>3. SaveInv(p)' /\ RestoreInv(p)' /\ CreateInv(p)'
    BY ONLY Zenon, <1>1, <2>1, <2>2
       DEF SaveInv, RestoreInv, CreateInv, CommandInv, BeforeRename, AfterRename, Pruning
  <2>4. BackupInv(p)'
    BY Zenon, ZenonT(30), <1>1, <2>1, <2>2 DEF BackupInv, AutoName, TmpFile
  <2>5. InstallInv(p)'
    BY ONLY Zenon, <1>1, <2>1 DEF InstallInv, TmpFile, CommandInv, BeforeRename, AfterRename, Pruning
  <2>6. QED
    BY Zenon, <1>1, <1>3, <2>1, <2>3, <2>4, <2>5, LocalStep
<1>4. QED
    BY Zenon, <1>2, <1>3 DEF WriteTemp

\* The rename installs a synchronised snapshot that exists.
LEMMA RenameStep ==
    ASSUME IInv, TypeOK', NEW p \in Procs, Rename(p)
    PROVE  IInv'
<1>1. CommandInv(p) /\ proc[p].pc = "rename" /\ lock = p
    BY Zenon DEF IInv, ProcInv, LockInv, LockedPCs, PCs, Rename
<1> USE DEF CommandInv, BeforeRename, AfterRename, Pruning
<1>2. CASE Refuse(p, "EXISTS") \/ Fail(p, "IO")
    BY Zenon, <1>1, <1>2, ReturnStep DEF Refuse, Fail
<1>3. CASE /\ ChangeVaultDir([vdir EXCEPT !.active = proc[p].tmp])
           /\ Goto(p, "sync")
           /\ acked' = 0
           /\ UNCHANGED <<table, backups, lock, events, rolledBack>>
  <2>1. /\ proc'[p].pc = "sync"
        /\ proc'[p].op = proc[p].op /\ proc'[p].base = proc[p].base
        /\ proc'[p].new = proc[p].new /\ proc'[p].status = proc[p].status
        /\ \A o \in Procs \ {p} : proc'[o] = proc[o]
    BY Zenon, <1>3, GotoFields DEF IInv
  <2>2. UNCHANGED <<snap, used, bdir, bdirDisk>> /\ used \in Nat
    BY SMTT(30), <1>3, BoundsAssumption DEF table, backups, IInv, TypeOK
  <2>3. proc[p].new \in 1..used /\ proc[p].tmp = TmpFile(proc[p].new)
    <3>1. proc[p].op \in {"create", "save", "restore"}
      BY Zenon, <1>1 DEF IInv, TypeOK, ProcState, Commands, InstallInv
    <3>2. QED
      BY ONLY Zenon, <1>1, <3>1
         DEF SaveInv, RestoreInv, CreateInv, InstallInv, CommandInv, BeforeRename, AfterRename, Pruning
  <2>4. vdir'.active = TmpFile(proc[p].new) /\ vdir'.backups = vdir.backups
    BY Zenon, <1>3, <2>3 DEF ChangeVaultDir, IInv, TypeOK, VaultDir
  <2>5. SaveInv(p)' /\ RestoreInv(p)' /\ CreateInv(p)'
    <3>1. SaveInv(p)'
      BY ONLY Zenon, <1>1, <2>1, <2>2, <2>4
         DEF SaveInv, CommandInv, BeforeRename, AfterRename, Pruning
    <3>2. RestoreInv(p)'
      BY ONLY Zenon, <1>1, <2>1, <2>2, <2>4
         DEF RestoreInv, CommandInv, BeforeRename, AfterRename, Pruning
    <3>3. CreateInv(p)'
      BY ONLY Zenon, <1>1, <2>1, <2>2, <2>4 DEF CreateInv, CommandInv, BeforeRename, AfterRename, Pruning
    <3>4. QED
      BY Zenon, <3>1, <3>2, <3>3
  <2>6. BackupInv(p)' /\ InstallInv(p)'
    <3>1. BackupInv(p)'
      <4>1. proc[p].op = "save" => vdir.backups
        BY ONLY Zenon, <1>1 DEF BackupInv, CommandInv, BeforeRename, AfterRename, Pruning
      <4>2. QED
        BY ONLY Zenon, <2>1, <2>4, <4>1 DEF BackupInv
    <3>2. InstallInv(p)'
      <4>1. proc[p].op # "none" /\ proc[p].status = "none"
        BY ONLY Zenon, <1>1 DEF InstallInv, CommandInv, Pruning
      <4>2. vdir'.active.snap = proc[p].new /\ proc[p].new # 0
        BY ONLY SMTT(30), <2>3, <2>4 DEF TmpFile
      <4>3. QED
        BY ONLY Zenon, <2>1, <4>1, <4>2 DEF InstallInv, AfterRename, Pruning
    <3>3. QED
      BY Zenon, <3>1, <3>2
  <2>7. FilesInv'
    <3>1. vdirDisk' = vdirDisk \cup {vdir'}
      BY Zenon, <1>3 DEF ChangeVaultDir
    <3>2. vdir'.active.synced /\ vdir'.active.snap \in 0..used
      BY <2>2, <2>3, <2>4 DEF TmpFile
    <3>3. QED
      BY Zenon, <2>2, <2>4, <3>1, <3>2 DEF IInv, FilesInv
  <2>8. TableInv' /\ AckedSurvives'
    BY Zenon, <1>3, <2>2 DEF IInv, TableInv, AckedSurvives
  <2>9. QED
    BY <1>1, <1>3, <2>1, <2>2, <2>4, <2>5, <2>6, <2>7, <2>8, HoldingStep
<1>4. QED
    BY Zenon, <1>2, <1>3 DEF Rename

\* The fsync of the vault directory; a failure only sets the warning.
LEMMA SyncVaultDirStep ==
    ASSUME IInv, TypeOK', NEW p \in Procs, SyncVaultDir(p)
    PROVE  IInv'
<1>1. CommandInv(p) /\ proc[p].pc = "sync" /\ lock = p
    BY Zenon DEF IInv, ProcInv, LockInv, LockedPCs, PCs, SyncVaultDir
<1> USE DEF CommandInv, BeforeRename, AfterRename, Pruning
<1>2. /\ proc'[p].pc = "readback"
      /\ proc'[p].op = proc[p].op /\ proc'[p].base = proc[p].base
      /\ proc'[p].new = proc[p].new /\ proc'[p].status = proc[p].status
      /\ vdirDisk' = {vdir} \/ (proc'[p].warn /\ vdirDisk' = vdirDisk)
      /\ \A o \in Procs \ {p} : proc'[o] = proc[o]
    BY DEF SyncVaultDir, Goto, IInv, TypeOK, ProcState
<1>3. UNCHANGED <<snap, used, vdir, bdir, bdirDisk, lock, acked>> /\ used \in Nat
    BY BoundsAssumption DEF SyncVaultDir, table, backups, hist, IInv, TypeOK
<1>4. SaveInv(p)' /\ RestoreInv(p)' /\ CreateInv(p)'
  <2>1. SaveInv(p)'
    BY ONLY Zenon, <1>1, <1>2, <1>3 DEF SaveInv, CommandInv, BeforeRename, AfterRename, Pruning
  <2>2. RestoreInv(p)'
    BY ONLY Zenon, <1>1, <1>2, <1>3 DEF RestoreInv, CommandInv, BeforeRename, AfterRename, Pruning
  <2>3. CreateInv(p)'
    BY ONLY Zenon, <1>1, <1>2, <1>3 DEF CreateInv, CommandInv, BeforeRename, AfterRename, Pruning
  <2>4. QED
    BY Zenon, <2>1, <2>2, <2>3
<1>5. BackupInv(p)' /\ InstallInv(p)'
  <2>1. BackupInv(p)'
    BY ONLY Zenon, <1>1, <1>2, <1>3 DEF BackupInv, CommandInv, BeforeRename, AfterRename, Pruning
  <2>2. InstallInv(p)'
    BY ONLY Zenon, <1>1, <1>2, <1>3 DEF InstallInv, CommandInv, BeforeRename, AfterRename, Pruning
  <2>3. QED
    BY Zenon, <2>1, <2>2
<1>6. FilesInv' /\ TableInv' /\ AckedSurvives'
    BY Zenon, <1>2, <1>3 DEF IInv, FilesInv, TableInv, AckedSurvives
<1>7. QED
    BY <1>1, <1>2, <1>3, <1>4, <1>5, <1>6, HoldingStep

\* PV_OK is given to a verified commit without warnings, which the disk holds.
LEMMA ReadbackStep ==
    ASSUME IInv, TypeOK', NEW p \in Procs, Readback(p)
    PROVE  IInv'
<1>1. CommandInv(p) /\ proc[p].pc = "readback" /\ lock = p
    BY Zenon DEF IInv, ProcInv, LockInv, LockedPCs, PCs, Readback
<1> USE DEF CommandInv, BeforeRename, AfterRename, Pruning
<1>2. CASE Refuse(p, "DURABILITY") \/ Fail(p, "DURABILITY")
    BY Zenon, <1>1, <1>2, ReturnStep DEF Refuse, Fail
<1>3. CASE /\ ~proc[p].warn
           /\ proc' = [proc EXCEPT ![p].status = "OK",
                         ![p].pc = IF proc[p].op = "save" THEN "prune" ELSE "unlock"]
           /\ UNCHANGED <<table, vault, backups, lock, events, hist>>
  <2>1. /\ proc'[p].pc = IF proc[p].op = "save" THEN "prune" ELSE "unlock"
        /\ proc'[p].status = "OK"
        /\ proc'[p].op = proc[p].op /\ proc'[p].base = proc[p].base
        /\ proc'[p].new = proc[p].new
        /\ \A o \in Procs \ {p} : proc'[o] = proc[o]
    BY Zenon, <1>3 DEF IInv, TypeOK, ProcState
  <2>2. UNCHANGED <<snap, used, vdir, vdirDisk>>
    BY Zenon, <1>3 DEF table, vault
  <2>3. SaveInv(p)' /\ RestoreInv(p)' /\ CreateInv(p)'
    BY ONLY Zenon, <1>1, <2>1, <2>2
       DEF SaveInv, RestoreInv, CreateInv, CommandInv, BeforeRename, AfterRename, Pruning
  <2>4. BackupInv(p)' /\ InstallInv(p)'
    BY ONLY <1>1, <1>3, <2>1, <2>2
       DEF BackupInv, InstallInv, CommandInv, BeforeRename, AfterRename, Pruning
  <2>5. QED
    BY Zenon, <1>1, <1>3, <2>1, <2>3, <2>4, LocalStep
<1>4. QED
    BY Zenon, <1>2, <1>3 DEF Readback

-----------------------------------------------------------------------------
(***************************************************************************)
(* Pruning, the user and crashes; hence the invariant.                     *)
(***************************************************************************)

LEMMA EmptyCardinality == Cardinality({}) = 0
<1> DEFINE Count(CS) == [T \in SUBSET {} |-> IF T = {} THEN 0 ELSE 1 + CS[T \ {CHOOSE x : x \in T}]]
           zero == [T \in SUBSET {} |-> 0]
<1>1. zero = Count(zero)
    BY Zenon
<1>2. (CHOOSE CS : CS = Count(CS)) = Count(CHOOSE CS : CS = Count(CS))
    BY Zenon, <1>1
<1>3. Cardinality({}) = (CHOOSE CS : CS = Count(CS))[{}]
    BY Zenon DEF Cardinality
<1> QED
    BY Zenon, <1>2, <1>3

\* The backups a save may prune are older than the one it has just made.
LEMMA ExcessOlder ==
    ASSUME NEW v, NEW max \in Nat, NEW g \in Excess(Candidates(v, max))
    PROVE  g < max
<1>1. g \in Nat /\ g <= max
    BY BoundsAssumption DEF Excess, Candidates, Present, Gens
<1>2. CASE g = max
  <2>1. {h \in Candidates(v, max) : h > g} = {}
    BY <1>1, <1>2, BoundsAssumption DEF Candidates, Present, Gens
  <2>2. Cardinality({h \in Candidates(v, max) : h > g}) = 0
    BY Zenon, <2>1, EmptyCardinality
  <2>3. QED
    BY <2>2, BoundsAssumption DEF Excess
<1>3. QED
    BY <1>1, <1>2

\* The scan only chooses what to delete.
LEMMA PruneScanStep ==
    ASSUME IInv, TypeOK', NEW p \in Procs, PruneScan(p)
    PROVE  IInv'
<1>1. CommandInv(p) /\ proc[p].pc = "prune" /\ lock = p
    BY Zenon DEF IInv, ProcInv, LockInv, LockedPCs, PCs, PruneScan
<1> USE DEF CommandInv, BeforeRename, AfterRename, Pruning
<1>2. proc[p].base \in 1..used /\ snap[proc[p].base].gen \in Nat
    BY <1>1, BoundsAssumption DEF SaveInv, IInv, TableInv, Gens
<1>3. /\ proc'[p].pc \in {"unlink", "unlock"}
      /\ proc'[p].status = proc[p].status
      /\ proc'[p].op = proc[p].op /\ proc'[p].base = proc[p].base
      /\ proc'[p].new = proc[p].new
      /\ \A o \in Procs \ {p} : proc'[o] = proc[o]
      /\ proc'[p].pc = "unlink" =>
            proc'[p].victims =
              Excess(Candidates(snap[proc[p].base].vault, snap[proc[p].base].gen))
    BY DEF PruneScan, Goto, IInv, TypeOK, ProcState
<1>4. UNCHANGED <<table, vault, backups, lock, hist>>
    BY Zenon DEF PruneScan
<1>5. UNCHANGED <<snap, used, vdir, vdirDisk>>
    BY Zenon, <1>4 DEF table, vault
<1>6. proc'[p].pc = "unlink" => \A g \in proc'[p].victims : g < snap[proc[p].base].gen
    BY Zenon, <1>2, <1>3, ExcessOlder
<1>7. SaveInv(p)' /\ RestoreInv(p)' /\ CreateInv(p)'
    BY ONLY Zenon, <1>1, <1>3, <1>5
       DEF SaveInv, RestoreInv, CreateInv, CommandInv, BeforeRename, AfterRename, Pruning
<1>8. BackupInv(p)' /\ InstallInv(p)'
    BY ONLY Zenon, <1>1, <1>3, <1>5, <1>6
       DEF BackupInv, InstallInv, CommandInv, BeforeRename, AfterRename, Pruning
<1>9. QED
    BY Zenon, <1>1, <1>3, <1>4, <1>7, <1>8, LocalStep

\* A step of the pruning pass that changes at most backups/, by removing entries.
LEMMA PruningStep ==
    ASSUME IInv, TypeOK', NEW p \in Procs, CommandInv(p), lock = p,
           proc[p].pc \in {"unlink", "unlinked", "prunesync"},
           proc'[p].pc \in {"unlinked", "prunesync", "unlock"},
           proc'[p].status = proc[p].status,
           proc'[p].op = proc[p].op, proc'[p].base = proc[p].base,
           proc'[p].new = proc[p].new,
           proc'[p].pc = "unlinked" =>
               /\ proc[p].pc # "prunesync"
               /\ proc'[p].victims \subseteq proc[p].victims,
           \A o \in Procs \ {p} : proc'[o] = proc[o],
           UNCHANGED <<table, vault, lock, hist>>,
           bdir' \in bdirDisk', bdirDisk' \subseteq bdirDisk \cup {bdir'},
           bdir'.pre = bdir.pre,
           \A n \in Names : bdir'.auto[n] \in {bdir.auto[n], NoFile}
    PROVE  IInv'
<1> USE DEF CommandInv, BeforeRename, AfterRename, Pruning
<1>1. UNCHANGED <<snap, used, vdir, vdirDisk, acked>> /\ used \in Nat
    BY SMTT(30), BoundsAssumption DEF table, vault, hist, IInv, TypeOK
<1>2. SaveInv(p)' /\ RestoreInv(p)' /\ CreateInv(p)'
    BY Zenon, <1>1 DEF SaveInv, RestoreInv, CreateInv
<1>3. BackupInv(p)' /\ InstallInv(p)'
    BY Zenon, <1>1 DEF BackupInv, InstallInv
<1>4. vdir.backups
    BY Zenon DEF SaveInv, BackupInv
<1>5. FilesInv'
  <2>1. FilesInv
    BY Zenon DEF IInv
  <2>2. \A n \in Names : bdir'.auto[n].synced /\ bdir'.auto[n].snap \in 0..used
    BY <1>1, <2>1 DEF FilesInv, NoFile
  <2>3. \A f \in bdir'.pre : f.synced /\ f.snap \in 1..used
    BY Zenon, <2>1 DEF FilesInv
  <2>4. QED
    BY Zenon, <1>1, <1>4, <2>1, <2>2, <2>3 DEF FilesInv
<1>6. TableInv' /\ AckedSurvives'
    BY Zenon, <1>1 DEF IInv, TableInv, AckedSurvives
<1>7. QED
    BY <1>1, <1>2, <1>3, <1>5, <1>6, HoldingStep

\* Deleting the oldest victim, or stopping.
LEMMA PruneUnlinkStep ==
    ASSUME IInv, TypeOK', NEW p \in Procs, PruneUnlink(p)
    PROVE  IInv'
<1>1. /\ CommandInv(p) /\ proc[p].pc \in {"unlink", "unlinked"} /\ lock = p
      /\ UNCHANGED <<table, vault, lock, hist>>
    BY Zenon DEF IInv, ProcInv, LockInv, LockedPCs, PCs, PruneUnlink
<1>2. bdir \in BackupsDir /\ bdir \in bdirDisk
    BY Zenon DEF IInv, TypeOK, FilesInv
<1>3. ASSUME NEW g \in proc[p].victims,
             ChangeBackups([bdir EXCEPT
                              !.auto[<<snap[proc[p].base].vault, g>>] = NoFile]),
             proc' = [proc EXCEPT
                        ![p].victims = @ \ {g},
                        ![p].pc = IF proc[p].victims = {g} THEN "prunesync"
                                  ELSE "unlinked"]
      PROVE  IInv'
  <2>1. /\ proc'[p].pc \in {"unlinked", "prunesync"}
        /\ proc'[p].status = proc[p].status
        /\ proc'[p].op = proc[p].op /\ proc'[p].base = proc[p].base
        /\ proc'[p].new = proc[p].new
        /\ proc'[p].victims \subseteq proc[p].victims
        /\ \A o \in Procs \ {p} : proc'[o] = proc[o]
    BY Zenon, <1>3 DEF IInv, TypeOK, ProcState
  <2>2. /\ bdir'.pre = bdir.pre
        /\ \A n \in Names : bdir'.auto[n] \in {bdir.auto[n], NoFile}
    BY Zenon, <1>2, <1>3 DEF ChangeBackups, BackupsDir
  <2>3. bdir' \in bdirDisk' /\ bdirDisk' \subseteq bdirDisk \cup {bdir'}
    BY Zenon, <1>3 DEF ChangeBackups
  <2>4. QED
    BY Zenon, <1>1, <2>1, <2>2, <2>3, PruningStep
<1>4. CASE /\ Goto(p, IF proc[p].pc = "unlink" THEN "unlock" ELSE "prunesync")
           /\ UNCHANGED backups
  <2>1. /\ proc'[p].pc = (IF proc[p].pc = "unlink" THEN "unlock" ELSE "prunesync")
        /\ proc'[p].status = proc[p].status
        /\ proc'[p].op = proc[p].op /\ proc'[p].base = proc[p].base
        /\ proc'[p].new = proc[p].new
        /\ \A o \in Procs \ {p} : proc'[o] = proc[o]
    BY Zenon, <1>4, GotoFields DEF IInv
  <2>2. UNCHANGED <<bdir, bdirDisk>>
    BY Zenon, <1>4 DEF backups
  <2>3. QED
    BY Zenon, <1>1, <1>2, <2>1, <2>2, PruningStep
<1>5. QED
    BY Zenon, <1>3, <1>4 DEF PruneUnlink

\* The fsync that ends a pruning pass.
LEMMA PruneSyncStep ==
    ASSUME IInv, TypeOK', NEW p \in Procs, PruneSync(p)
    PROVE  IInv'
<1>1. /\ CommandInv(p) /\ proc[p].pc = "prunesync" /\ lock = p
      /\ Goto(p, "unlock")
      /\ UNCHANGED <<table, vault, lock, hist>> /\ bdir' = bdir
    BY Zenon DEF IInv, ProcInv, LockInv, LockedPCs, PCs, PruneSync
<1>2. /\ proc'[p].pc = "unlock"
      /\ proc'[p].status = proc[p].status
      /\ proc'[p].op = proc[p].op /\ proc'[p].base = proc[p].base
      /\ proc'[p].new = proc[p].new
      /\ \A o \in Procs \ {p} : proc'[o] = proc[o]
    BY Zenon, <1>1, GotoFields DEF IInv
<1>3. bdir' \in bdirDisk' /\ bdirDisk' \subseteq bdirDisk \cup {bdir'}
    BY Zenon, <1>1 DEF PruneSync, IInv, FilesInv
<1>4. QED
    BY Zenon, <1>1, <1>2, <1>3, PruningStep

\* The user moves the vault away while no command holds the lock.
LEMMA RemoveActiveStep ==
    ASSUME IInv, TypeOK', RemoveActive
    PROVE  IInv'
<1>1. /\ lock = NoProc /\ UNCHANGED <<snap, used, bdir, bdirDisk, lock, proc>>
      /\ vdirDisk' = vdirDisk \cup {vdir'} /\ acked' = 0
      /\ vdir'.active = NoFile /\ vdir'.backups = vdir.backups
    BY Zenon DEF RemoveActive, ChangeVaultDir, table, backups, IInv, TypeOK, VaultDir
<1>2. used \in Nat
    BY BoundsAssumption DEF IInv, TypeOK
<1>3. ProcInv'
  <2> SUFFICES ASSUME NEW o \in Procs PROVE CommandInv(o)'
    BY Zenon DEF ProcInv
  <2>1. Outside(o)
    BY Zenon, <1>1, NoProcAssumption, OthersOutside
  <2>2. QED
    BY <1>1, <1>2, <2>1, OutsideKept
<1>4. FilesInv'
  <2>1. vdir'.active.synced /\ vdir'.active.snap \in 0..used
    BY <1>1, <1>2 DEF NoFile
  <2>2. QED
    BY Zenon, <1>1, <2>1 DEF IInv, FilesInv
<1>5. TableInv' /\ LockInv' /\ AckedSurvives'
    BY Zenon, <1>1 DEF IInv, TableInv, LockInv, AckedSurvives
<1>6. QED
    BY Zenon, <1>3, <1>4, <1>5 DEF IInv

\* The user puts a file of their own where the vault is missing: every command
\* that counts on the active file had found one.
LEMMA PlaceAlienStep ==
    ASSUME IInv, TypeOK', PlaceAlien
    PROVE  IInv'
<1>1. /\ UNCHANGED <<snap, used, bdir, bdirDisk, lock, proc, acked>>
      /\ vdirDisk' = vdirDisk \cup {vdir'}
      /\ vdir'.active = Alien /\ vdir'.backups = vdir.backups
    BY Zenon DEF PlaceAlien, ChangeVaultDir, table, backups, hist, IInv, TypeOK, VaultDir
<1>2. vdir.active.snap = 0
    BY DEF PlaceAlien, Exists, NoFile
<1>3. ProcInv'
  <2> SUFFICES ASSUME NEW o \in Procs PROVE CommandInv(o)'
    BY Zenon DEF ProcInv
  <2>1. CommandInv(o) /\ used \in Nat
    BY SMTT(30), BoundsAssumption DEF IInv, ProcInv, TypeOK
  <2> USE <1>1, <1>2, <2>1 DEF CommandInv, BeforeRename, AfterRename, Pruning
  <2>2. SaveInv(o)' /\ RestoreInv(o)' /\ CreateInv(o)'
    BY SMTT(30) DEF SaveInv, RestoreInv, CreateInv
  <2>3. BackupInv(o)'
    BY Zenon DEF BackupInv, AutoName
  <2>4. InstallInv(o)'
    BY Zenon DEF InstallInv
  <2>5. QED
    BY Zenon, <2>2, <2>3, <2>4
<1>4. FilesInv'
  <2>1. vdir'.active.synced /\ vdir'.active.snap = MaxSnap + 1
    BY <1>1 DEF Alien
  <2>2. QED
    BY Zenon, <1>1, <2>1 DEF IInv, FilesInv
<1>5. TableInv' /\ LockInv'
    BY Zenon, <1>1 DEF IInv, TableInv, LockInv
<1>6. AckedSurvives'
    BY Zenon, <1>1, <1>2 DEF IInv, AckedSurvives
<1>7. QED
    BY Zenon, <1>3, <1>4, <1>5, <1>6 DEF IInv

\* What a power loss may leave: files it had, all of them synchronised.
LEMMA CrashFiles ==
    ASSUME IInv, Crash
    PROVE  /\ \E d \in vdirDisk : vdir'.active = d.active
           /\ OrderedMetadata => vdir' \in vdirDisk
           /\ IF vdir'.backups THEN bdir' \in bdirDisk ELSE bdir' = EmptyBackups
           /\ vdirDisk' = {vdir'} /\ bdirDisk' = {bdir'}
<1>1. PICK d \in CrashVaultDirs, e \in bdirDisk :
        /\ vdir' = [d EXCEPT !.active = AfterCrash(@)]
        /\ bdir' = IF d.backups
                   THEN [auto |-> [n \in Names |-> AfterCrash(e.auto[n])],
                         pre |-> {AfterCrash(f) : f \in e.pre}]
                   ELSE EmptyBackups
    BY Zenon DEF Crash
<1>2. FilesInv /\ vdirDisk \subseteq VaultDir /\ e \in BackupsDir
    BY Zenon DEF IInv, TypeOK
<1>3. /\ \E c \in vdirDisk : d.active = c.active
      /\ OrderedMetadata => d \in vdirDisk
      /\ d \in VaultDir
    BY <1>2 DEF CrashVaultDirs, VaultDir
<1>4. vdir' = d
  <2>1. AfterCrash(d.active) = d.active
    BY Zenon, <1>2, <1>3 DEF FilesInv, AfterCrash
  <2>2. QED
    BY Zenon, <1>1, <1>3, <2>1 DEF VaultDir
<1>5. [auto |-> [n \in Names |-> AfterCrash(e.auto[n])],
       pre |-> {AfterCrash(f) : f \in e.pre}] = e
  <2>1. \A n \in Names : AfterCrash(e.auto[n]) = e.auto[n]
    BY Zenon, <1>2 DEF FilesInv, AfterCrash
  <2>2. \A f \in e.pre : AfterCrash(f) = f
    BY Zenon, <1>2 DEF FilesInv, AfterCrash
  <2>3. [n \in Names |-> AfterCrash(e.auto[n])] = e.auto
    BY Zenon, <1>2, <2>1 DEF BackupsDir
  <2>4. {AfterCrash(f) : f \in e.pre} = e.pre
    BY Zenon, <2>2
  <2>5. QED
    BY Zenon, <1>2, <2>3, <2>4 DEF BackupsDir
<1>6. QED
    BY Zenon, <1>1, <1>3, <1>4, <1>5 DEF Crash

\* A power loss ends every command and keeps what was acknowledged.
LEMMA CrashStep ==
    ASSUME IInv, TypeOK', Crash
    PROVE  IInv'
<1>1. /\ \E d \in vdirDisk : vdir'.active = d.active
      /\ IF vdir'.backups THEN bdir' \in bdirDisk ELSE bdir' = EmptyBackups
      /\ vdirDisk' = {vdir'} /\ bdirDisk' = {bdir'}
    BY Zenon, CrashFiles
<1>2. /\ UNCHANGED <<snap, used, acked>> /\ lock' = NoProc
      /\ \A p \in Procs : proc'[p] = Idle
    BY Zenon DEF Crash, table
<1>3. ProcInv'
    BY Zenon, <1>2, IdleCommand DEF ProcInv
<1>4. LockInv'
    BY <1>2 DEF LockInv, LockedPCs, Idle
<1>5. TableInv'
    BY Zenon, <1>2 DEF IInv, TableInv
<1>6. AckedSurvives'
    BY Zenon, <1>1, <1>2 DEF IInv, AckedSurvives
<1>7. FilesInv'
  <2>1. FilesInv /\ used \in Nat
    BY BoundsAssumption DEF IInv, TypeOK
  <2>2. /\ vdir'.active.synced
        /\ vdir'.active.snap \in (0..used) \cup {MaxSnap + 1}
    BY Zenon, <1>1, <2>1 DEF FilesInv
  <2>3. /\ \A n \in Names : bdir'.auto[n].synced /\ bdir'.auto[n].snap \in 0..used
        /\ \A f \in bdir'.pre : f.synced /\ f.snap \in 1..used
    BY <1>1, <2>1 DEF FilesInv, EmptyBackups, NoFile
  <2>4. QED
    BY Zenon, <1>1, <1>2, <2>2, <2>3 DEF FilesInv
<1>8. QED
    BY Zenon, <1>3, <1>4, <1>5, <1>6, <1>7 DEF IInv

\* IInv is inductive.
LEMMA InductiveStep == IInv /\ [Next]_vars => IInv'
<1> SUFFICES ASSUME IInv, [Next]_vars PROVE IInv'
    BY Zenon
<1>1. TypeOK'
    BY Zenon, TypeStep
<1>2. CASE UNCHANGED vars
  <2>1. /\ UNCHANGED <<snap, used, vdir, vdirDisk, bdir, bdirDisk, lock, proc, acked>>
    BY Zenon, <1>2 DEF vars, table, vault, backups, hist
  <2>2. TableInv' /\ FilesInv' /\ LockInv' /\ AckedSurvives'
    BY Zenon, <2>1 DEF IInv, TableInv, FilesInv, LockInv, AckedSurvives
  <2>3. ProcInv'
    <3>1. UNCHANGED <<table, vault, backups>>
      BY Zenon, <1>2 DEF vars
    <3>2. QED
      BY Zenon, <2>1, <3>1, CommandKept DEF IInv, ProcInv
  <2>4. QED
    BY Zenon, <1>1, <2>2, <2>3 DEF IInv
<1>3. ASSUME NEW p \in Procs, Start(p) \/ Step(p) \/ Kill(p) PROVE IInv'
    BY Zenon, <1>1, <1>3, StartStep, KillStep, LockVaultStep, CheckStep, MakeBackupsDirStep,
       PublishBackupStep, SyncBackupStep, WriteTempStep, RenameStep, SyncVaultDirStep,
       ReadbackStep, PruneScanStep, PruneUnlinkStep, PruneSyncStep, UnlockStep DEF Step
<1>4. QED
    BY Zenon, <1>1, <1>2, <1>3, RemoveActiveStep, PlaceAlienStep, CrashStep DEF Next

\* The initial state, an empty directory, satisfies it.
LEMMA InitInv == Init => IInv
<1> SUFFICES ASSUME Init PROVE IInv
    BY Zenon
<1>1. TypeOK
  <2>1. snap \in [Ids -> SnapInfo] /\ used \in 0..MaxSnap /\ acked \in 0..MaxSnap
        /\ events \in 0..MaxEvents
    BY BoundsAssumption DEF Init, SnapInfo
  <2>2. vdir \in VaultDir /\ vdirDisk \in SUBSET VaultDir
    BY ValueTypes DEF Init, VaultDir
  <2>3. bdir \in BackupsDir /\ bdirDisk \in SUBSET BackupsDir
    BY Zenon, ValueTypes DEF Init
  <2>4. proc \in [Procs -> ProcState]
    BY Zenon, ValueTypes DEF Init
  <2>5. restored \in SUBSET Ids /\ rolledBack \in BOOLEAN
    BY Zenon DEF Init
  <2>6. QED
    BY Zenon, <2>1, <2>2, <2>3, <2>4, <2>5 DEF Init, TypeOK
<1>2. TableInv /\ AckedSurvives
    BY BoundsAssumption DEF Init, TableInv, AckedSurvives
<1>3. FilesInv
  <2>1. /\ vdirDisk = {vdir} /\ bdirDisk = {bdir} /\ bdir = EmptyBackups
        /\ vdir.active = NoFile /\ used = 0
    BY Zenon DEF Init
  <2>2. /\ \A n \in Names : bdir.auto[n].synced /\ bdir.auto[n].snap = 0
        /\ bdir.pre = {}
    BY Zenon, <2>1 DEF EmptyBackups, NoFile
  <2>3. QED
    BY <2>1, <2>2 DEF FilesInv, NoFile
<1>4. \A p \in Procs : proc[p] = Idle
    BY Zenon DEF Init
<1>5. LockInv
    BY <1>4 DEF LockInv, LockedPCs, Idle
<1>6. ProcInv
  <2> SUFFICES ASSUME NEW p \in Procs PROVE CommandInv(p)
    BY Zenon DEF ProcInv
  <2>1. proc[p] = Idle
    BY Zenon, <1>4
  <2> USE DEF Idle, BeforeRename, AfterRename, Pruning
  <2>2. SaveInv(p) /\ RestoreInv(p) /\ CreateInv(p)
    BY <2>1 DEF SaveInv, RestoreInv, CreateInv
  <2>3. BackupInv(p)
    BY <2>1 DEF BackupInv
  <2>4. InstallInv(p)
    BY <2>1 DEF InstallInv
  <2>5. QED
    BY Zenon, <2>2, <2>3, <2>4 DEF CommandInv
<1>7. QED
    BY Zenon, <1>1, <1>2, <1>3, <1>5, <1>6 DEF IInv

\* IInv holds in every reachable state of the store, for every number of
\* processes and snapshots.
THEOREM Invariance == Spec => []IInv
    BY InitInv, InductiveStep, PTL DEF Spec

-----------------------------------------------------------------------------
(***************************************************************************)
(* What an error means.  A snapshot that was encrypted and not renamed is  *)
(* known to its own process only, and stays so while other commands,       *)
(* crashes and the user go on.                                             *)
(***************************************************************************)

\* A file that some directory holds, has held, or may hold after a crash, is
\* snapshot s.
Seen(s) ==
    \/ s \in placed
    \/ \E d \in vdirDisk : d.active.snap = s
    \/ \E e \in bdirDisk :
          (\E n \in Names : e.auto[n].snap = s) \/ (\E f \in e.pre : f.snap = s)

\* A create or save whose snapshot was not renamed, and will not be once it failed.
Unpublished(p) ==
    /\ proc[p].op \in {"create", "save"} /\ proc[p].new # 0
    /\ \/ proc[p].pc \in BeforeRename
       \/ proc[p].pc = "unlock" /\ proc[p].status \notin Committed

Fresh(p) ==
    /\ proc[p].new \in 0..used
    /\ proc[p].op \in {"create", "save"} /\ proc[p].pc \in {"ready", "check"} => proc[p].new = 0
    /\ Unpublished(p) =>
          ~Seen(proc[p].new) /\ \A o \in Procs \ {p} : proc[o].new # proc[p].new

\* Inductive together with IInv.
FreshInv == \A p \in Procs : Fresh(p)

-----------------------------------------------------------------------------
(***************************************************************************)
(* What one process does to the others' snapshots.                         *)
(***************************************************************************)

\* A step of o that shows at most its own snapshot, which nobody else has.
LEMMA FreshStep ==
    ASSUME FreshInv, NEW o \in Procs, \A p \in Procs \ {o} : proc'[p] = proc[p],
           used \in Nat, used' \in Nat, used <= used',
           \A s \in 1..used : Seen(s)' => Seen(s) \/ s = proc'[o].new,
           \/ proc'[o].new \in {0, proc[o].new, used + 1}
           \/ Seen(proc'[o].new),
           Fresh(o)'
    PROVE  FreshInv'
<1> SUFFICES ASSUME NEW p \in Procs \ {o} PROVE Fresh(p)'
  BY Zenon DEF FreshInv
<1>1. Fresh(p) /\ proc'[p] = proc[p]
  BY Zenon DEF FreshInv
<1>2. proc'[p].new \in 0..used'
  BY <1>1 DEF Fresh
<1>3. ASSUME Unpublished(p)'
      PROVE  ~Seen(proc[p].new)' /\ \A q \in Procs \ {p} : proc'[q].new # proc[p].new
  <2>1. /\ Unpublished(p) /\ proc[p].new \in 1..used
        /\ ~Seen(proc[p].new) /\ \A q \in Procs \ {p} : proc[q].new # proc[p].new
    BY <1>1, <1>3 DEF Unpublished, Fresh
  <2>2. proc'[o].new # proc[p].new
    BY <2>1
  <2> QED
    BY Zenon, <2>1, <2>2
<1> QED
  BY Zenon, <1>1, <1>2, <1>3 DEF Fresh, Unpublished

\* A step of o that keeps its snapshot to itself, or goes on after its rename.
LEMMA FreshKept ==
    ASSUME FreshInv, NEW o \in Procs, \A p \in Procs \ {o} : proc'[p] = proc[p],
           used \in Nat, used' = used, \A s \in 1..used : Seen(s)' => Seen(s),
           proc'[o].op = proc[o].op, proc'[o].new = proc[o].new,
           proc'[o].pc \in {"ready", "check"} => proc[o].pc \in {"ready", "check"},
           Unpublished(o)' => Unpublished(o)
    PROVE  FreshInv'
<1>1. Fresh(o)
  BY Zenon DEF FreshInv
<1>2. Fresh(o)'
  <2>1. ASSUME Unpublished(o)'
        PROVE  ~Seen(proc[o].new)' /\ \A q \in Procs \ {o} : proc'[q].new # proc[o].new
    BY <1>1, <2>1 DEF Fresh, Unpublished
  <2> QED
    BY Zenon, <1>1, <2>1 DEF Fresh, Unpublished
<1> QED
  BY <1>2, FreshStep

LEMMA FreshIdle ==
    ASSUME FreshInv, NEW o \in Procs, proc \in [Procs -> ProcState], used \in Nat,
           proc' = [proc EXCEPT ![o] = Idle], UNCHANGED <<table, vault, backups, placed>>
    PROVE  FreshInv'
<1>1. proc'[o] = Idle /\ \A p \in Procs \ {o} : proc'[p] = proc[p]
  BY Zenon
<1>2. used' = used /\ \A s \in 1..used : Seen(s)' => Seen(s)
  BY Zenon DEF table, vault, backups, hist, Seen
<1>3. Fresh(o)' /\ proc'[o].new = 0
  BY <1>1, <1>2 DEF Fresh, Unpublished, Idle
<1> QED
  BY <1>1, <1>2, <1>3, FreshStep

\* A command that gives up: its snapshot is unpublished or there was none.
LEMMA FreshReturn ==
    ASSUME IInv, FreshInv, NEW o \in Procs, NEW s, Return(o, s),
           \/ proc[o].pc \in {"ready", "check"} \cup BeforeRename
           \/ s \in Committed
    PROVE  FreshInv'
<1>1. /\ proc'[o].pc = "unlock" /\ proc'[o].status = s
      /\ proc'[o].op = proc[o].op /\ proc'[o].new = proc[o].new
      /\ \A p \in Procs \ {o} : proc'[p] = proc[p]
  BY Zenon, ReturnFields DEF IInv, Return
<1>2. used \in Nat /\ used' = used /\ \A t \in 1..used : Seen(t)' => Seen(t)
  BY DEF IInv, TypeOK, Return, table, vault, backups, hist, Seen
<1>3. Unpublished(o)' => Unpublished(o)
  <2>1. Fresh(o)
    BY Zenon DEF FreshInv
  <2> QED
    BY Zenon, <1>1, <2>1 DEF Fresh, Unpublished, BeforeRename
<1> QED
  BY Zenon, <1>1, <1>2, <1>3, FreshKept

\* A command that goes on.
LEMMA FreshGoto ==
    ASSUME IInv, FreshInv, NEW o \in Procs, NEW l, Goto(o, l), used' = used,
           \A s \in 1..used : Seen(s)' => Seen(s),
           l \in {"ready", "check"} => proc[o].pc \in {"ready", "check"},
           l \in BeforeRename => proc[o].pc \in BeforeRename \/ proc[o].op \notin {"create", "save"},
           l = "unlock" => proc[o].status \in Committed
    PROVE  FreshInv'
<1>1. /\ proc'[o].pc = l /\ proc'[o].status = proc[o].status
      /\ proc'[o].op = proc[o].op /\ proc'[o].new = proc[o].new
      /\ \A p \in Procs \ {o} : proc'[p] = proc[p]
  BY Zenon, GotoFields DEF IInv
<1>2. Unpublished(o)' => Unpublished(o)
  BY Zenon, <1>1 DEF Unpublished
<1>3. used \in Nat
  BY DEF IInv, TypeOK
<1> QED
  BY Zenon, <1>1, <1>2, <1>3, FreshKept

-----------------------------------------------------------------------------
(***************************************************************************)
(* The steps of a command.                                                 *)
(***************************************************************************)
LEMMA StartFresh == ASSUME IInv, FreshInv, NEW o \in Procs, Start(o) PROVE FreshInv'
<1>0. proc \in [Procs -> ProcState] /\ used \in Nat /\ used \in 0..MaxSnap
  BY SMTT(30), BoundsAssumption DEF IInv, TypeOK
<1>1. UNCHANGED <<table, vault, backups, hist>>
  BY Zenon DEF Start, Open, BeginCreate, ReadBackup
<1>2. used' = used /\ \A s \in 1..used : Seen(s)' => Seen(s)
  BY Zenon, <1>1 DEF table, vault, backups, hist, Seen
<1>3. /\ \A p \in Procs \ {o} : proc'[p] = proc[p]
      /\ proc'[o].pc = "ready"
      /\ \/ proc'[o].op \in {"save", "create"} /\ proc'[o].new = 0
         \/ proc'[o].op = "restore" /\ proc'[o].new \in 0..used /\ Seen(proc'[o].new)
  <2>1. CASE Open(o)
    BY Zenon, <1>0, <2>1 DEF Open, Idle
  <2>2. CASE BeginCreate(o)
    BY Zenon, <1>0, <2>2 DEF BeginCreate, Idle
  <2>3. CASE ReadBackup(o)
    <3>1. PICK s \in placed :
            proc' = [proc EXCEPT ![o] = [Idle EXCEPT !.pc = "ready",
                                          !.op = "restore", !.new = s]]
      BY Zenon, <2>3 DEF ReadBackup
    <3>2. s \in 1..used /\ Seen(s)
      BY Zenon, <3>1 DEF IInv, TypeOK, Seen
    <3>3. s \in 0..used
      BY <1>0, <3>2
    <3> QED
      BY Zenon, <1>0, <3>1, <3>2, <3>3 DEF Idle
  <2> QED
    BY Zenon, <2>1, <2>2, <2>3 DEF Start
<1>4. Fresh(o)'
  BY <1>0, <1>2, <1>3 DEF Fresh, Unpublished, BeforeRename
<1> QED
  BY <1>0, <1>2, <1>3, <1>4, FreshStep

LEMMA EncryptFresh ==
    ASSUME IInv, FreshInv, NEW o \in Procs, NEW info, NEW l \in {"temp", "mkdir"},
           Encrypt(o, info, l), proc[o].pc = "check"
    PROVE  FreshInv'
<1>1. CASE used = MaxSnap /\ Refuse(o, "IO")
  BY Zenon, <1>1, FreshReturn DEF Refuse
<1>2. CASE /\ used < MaxSnap
           /\ used' = used + 1
           /\ proc' = [proc EXCEPT ![o].pc = l, ![o].new = used + 1]
           /\ UNCHANGED <<vault, backups, lock, events, hist>>
  <2>0. used \in Nat /\ used < MaxSnap /\ MaxSnap \in Nat /\ used' = used + 1
    BY <1>2, BoundsAssumption DEF IInv, TypeOK
  <2>1. /\ \A p \in Procs \ {o} : proc'[p] = proc[p]
        /\ proc'[o].op = proc[o].op /\ proc'[o].pc = l /\ proc'[o].new = used + 1
    <3>1. proc \in [Procs -> ProcState] /\ proc' = [proc EXCEPT ![o].pc = l, ![o].new = used + 1]
      BY Zenon, <1>2 DEF IInv, TypeOK
    <3> QED
      BY ONLY Zenon, <3>1, o \in Procs DEF ProcState
  <2>2. \A s : Seen(s)' => Seen(s)
    BY Zenon, <1>2 DEF vault, backups, hist, Seen
  <2>3. ~Seen(used + 1)
    <3>1. FilesInv
      BY Zenon DEF IInv
    <3>2. /\ \A d \in vdirDisk : d.active.snap \in (0..used) \cup {MaxSnap + 1}
          /\ \A e \in bdirDisk : /\ \A n \in Names : e.auto[n].snap \in 0..used
                                 /\ \A f \in e.pre : f.snap \in 1..used
          /\ placed \in SUBSET (1..used)
      BY Zenon, <3>1 DEF FilesInv, IInv, TypeOK
    <3> QED
      BY <2>0, <3>2 DEF Seen
  <2>4. \A p \in Procs \ {o} : proc[p].new # used + 1
    BY <2>0 DEF FreshInv, Fresh
  <2>5. Fresh(o)'
    BY SMTT(30), <2>0, <2>1, <2>2, <2>3, <2>4 DEF Fresh
  <2> QED
    BY SMTT(30), <2>0, <2>1, <2>2, <2>5, FreshStep
<1> QED
  BY Zenon, <1>1, <1>2 DEF Encrypt

LEMMA CheckFresh == ASSUME IInv, FreshInv, NEW o \in Procs, Check(o) PROVE FreshInv'
<1>0. proc[o].pc = "check"
  BY Zenon DEF Check, CheckCreate, CheckSave, CheckRestore
<1>1. CASE CheckCreate(o)
  BY Zenon, <1>0, <1>1, EncryptFresh, FreshReturn DEF CheckCreate, Refuse, Fail
<1>2. CASE CheckSave(o)
  BY Zenon, <1>0, <1>2, EncryptFresh, FreshReturn DEF CheckSave, Refuse, Fail
<1>3. CASE CheckRestore(o)
  <2>0. proc[o].op = "restore"
    BY Zenon, <1>3 DEF CheckRestore
  <2>1. CASE Goto(o, "temp") /\ UNCHANGED <<table, vault, backups, lock, events, hist>>
    <3>1. used' = used /\ \A s \in 1..used : Seen(s)' => Seen(s)
      BY Zenon, <2>1 DEF table, vault, backups, hist, Seen
    <3> QED
      BY Zenon, <2>0, <2>1, <3>1, FreshGoto
  <2>2. CASE \E s : Return(o, s)
    BY Zenon, <1>0, <2>2, FreshReturn
  <2>3. CASE /\ proc' = [proc EXCEPT ![o].pc = "mkdir", ![o].base = vdir.active.snap]
             /\ UNCHANGED <<table, vault, backups, lock, events, hist>>
    <3>1. /\ proc \in [Procs -> ProcState]
          /\ proc' = [proc EXCEPT ![o].pc = "mkdir", ![o].base = vdir.active.snap]
      BY Zenon, <2>3 DEF IInv, TypeOK
    <3>2. /\ \A p \in Procs \ {o} : proc'[p] = proc[p]
          /\ proc'[o].op = proc[o].op /\ proc'[o].new = proc[o].new /\ proc'[o].pc = "mkdir"
      BY ONLY Zenon, <3>1, o \in Procs DEF ProcState
    <3>3. used \in Nat /\ used' = used /\ \A s \in 1..used : Seen(s)' => Seen(s)
      BY <2>3 DEF table, vault, backups, hist, Seen, IInv, TypeOK
    <3>4. ~Unpublished(o)'
      BY Zenon, <2>0, <3>2 DEF Unpublished
    <3> QED
      BY Zenon, <3>2, <3>3, <3>4, FreshKept
  <2> QED
    BY Zenon, <1>3, <2>1, <2>2, <2>3 DEF CheckRestore, Refuse, Fail
<1> QED
  BY Zenon, <1>1, <1>2, <1>3 DEF Check

LEMMA PreserveFresh ==
    ASSUME IInv, FreshInv, NEW o \in Procs, MakeBackupsDir(o) \/ PublishBackup(o) \/ SyncBackup(o)
    PROVE  FreshInv'
<1>0. /\ vdir \in VaultDir /\ vdir \in vdirDisk /\ bdir \in BackupsDir /\ bdir \in bdirDisk
      /\ proc[o].pc \in {"mkdir", "backup", "bksync"} /\ used \in 0..MaxSnap
      /\ proc[o].pc \in BeforeRename
  BY Zenon DEF IInv, TypeOK, FilesInv, MakeBackupsDir, PublishBackup, SyncBackup, BeforeRename
<1>1. CASE MakeBackupsDir(o)
  <2> DEFINE made == [vdir EXCEPT !.backups = TRUE]
  <2>1. made.active = vdir.active
    BY Zenon, <1>0 DEF VaultDir
  <2>2. CASE Goto(o, "backup") /\ UNCHANGED <<table, vault, backups, lock, events, hist>>
    <3>1. used' = used /\ \A s \in 1..used : Seen(s)' => Seen(s)
      BY Zenon, <2>2 DEF table, vault, backups, hist, Seen
    <3> QED
      BY Zenon, <1>0, <2>2, <3>1, FreshGoto
  <2>3. CASE /\ vdir' = made /\ vdirDisk' = {vdir'} /\ Goto(o, "backup")
             /\ UNCHANGED <<table, backups, lock, events, hist>>
    <3>1. used' = used /\ \A s \in 1..used : Seen(s)' => Seen(s)
      BY Zenon, <1>0, <2>1, <2>3 DEF table, backups, hist, Seen
    <3> QED
      BY Zenon, <1>0, <2>3, <3>1, FreshGoto
  <2>4. CASE /\ ChangeVaultDir(made)
             /\ proc' = [proc EXCEPT ![o].pc = "unlock", ![o].status = "IO"]
             /\ UNCHANGED <<table, backups, lock, hist>>
    <3>1. used' = used /\ \A s \in 1..used : Seen(s)' => Seen(s)
      <4>1. vdirDisk' = vdirDisk \cup {made} /\ UNCHANGED <<used, bdirDisk, placed>>
        BY Zenon, <2>4 DEF ChangeVaultDir, table, backups, hist
      <4> QED
        BY Zenon, <1>0, <2>1, <4>1 DEF Seen
    <3>2. /\ proc'[o].op = proc[o].op /\ proc'[o].new = proc[o].new /\ proc'[o].pc = "unlock"
          /\ \A p \in Procs \ {o} : proc'[p] = proc[p]
      BY Zenon, ZenonT(30), <2>4, ReturnFields DEF IInv
    <3>3. Unpublished(o)' => Unpublished(o)
      BY Zenon, <1>0, <3>2 DEF Unpublished
    <3> QED
      BY SMTT(30), <1>0, <3>1, <3>2, <3>3, FreshKept
  <2> QED
    BY Zenon, <1>0, <1>1, <2>2, <2>3, <2>4, FreshReturn DEF MakeBackupsDir, Fail
<1>2. CASE PublishBackup(o)
  <2>1. CASE \E s : Return(o, s)
    BY Zenon, <1>0, <2>1, FreshReturn
  <2>2. CASE AutomaticBackup(o) /\ ~Exists(bdir.auto[AutoName(o)])
             /\ ~\E s : Return(o, s)
    <3> DEFINE added == [bdir EXCEPT !.auto[AutoName(o)] = TmpFile(proc[o].base)]
    <3>1. /\ bdirDisk' = bdirDisk \cup {added} \/ UNCHANGED bdirDisk
          /\ Goto(o, "bksync") /\ UNCHANGED <<used, vdir, vdirDisk, placed>>
      BY Zenon, <2>2 DEF AutomaticBackup, ChangeBackups, table, vault, backups, hist, Refuse
    <3>2. /\ added.pre = bdir.pre
          /\ \A n \in Names : added.auto[n] \in {bdir.auto[n], TmpFile(proc[o].base)}
      BY Zenon, <1>0 DEF BackupsDir
    <3>3. vdir.active.snap = proc[o].base /\ TmpFile(proc[o].base).snap = proc[o].base
      BY Zenon, <1>0, <1>2, <2>2 DEF IInv, ProcInv, CommandInv, SaveInv, AutomaticBackup, TmpFile
    <3>4. Seen(proc[o].base)
      BY Zenon, <1>0, <3>3 DEF Seen
    <3> HIDE DEF added
    <3>5. \A s \in 1..used : Seen(s)' => Seen(s)
      BY Zenon, <1>0, <3>1, <3>2, <3>3, <3>4 DEF Seen
    <3> QED
      BY Zenon, <1>0, <3>1, <3>5, FreshGoto
  <2>3. CASE Goto(o, "bksync") /\ UNCHANGED <<table, vault, backups, lock, events, hist>>
    <3>1. used' = used /\ \A s \in 1..used : Seen(s)' => Seen(s)
      BY Zenon, <2>3 DEF table, vault, backups, hist, Seen
    <3> QED
      BY Zenon, <1>0, <2>3, <3>1, FreshGoto
  <2>4. CASE PreRestoreCopy(o)
    <3> DEFINE added == [bdir EXCEPT !.pre = @ \cup {TmpFile(vdir.active.snap)}]
    <3>1. /\ bdirDisk' = bdirDisk \cup {added}
          /\ Goto(o, "bksync") /\ UNCHANGED <<used, vdir, vdirDisk, placed>>
      BY Zenon, <2>4 DEF PreRestoreCopy, ChangeBackups, table, vault, hist
    <3>2. /\ added.pre = bdir.pre \cup {TmpFile(vdir.active.snap)}
          /\ added.auto = bdir.auto
      BY Zenon, <1>0 DEF BackupsDir
    <3>3. TmpFile(vdir.active.snap).snap = vdir.active.snap
      BY Zenon DEF TmpFile
    <3> HIDE DEF added
    <3>5. \A s \in 1..used : Seen(s)' => Seen(s)
      BY Zenon, <1>0, <3>1, <3>2, <3>3 DEF Seen
    <3> QED
      BY Zenon, <1>0, <3>1, <3>5, FreshGoto
  <2> QED
    BY Zenon, <1>2, <2>1, <2>2, <2>3, <2>4 DEF PublishBackup, AutomaticBackup, Refuse, Fail
<1>3. CASE SyncBackup(o)
  <2>1. CASE /\ bdirDisk' = {bdir} /\ Goto(o, "temp")
             /\ UNCHANGED <<table, vault, bdir, lock, events, hist>>
    <3>1. used' = used /\ \A s \in 1..used : Seen(s)' => Seen(s)
      BY Zenon, <1>0, <2>1 DEF table, vault, hist, Seen
    <3> QED
      BY Zenon, <1>0, <2>1, <3>1, FreshGoto
  <2> QED
    BY Zenon, <1>0, <1>3, <2>1, FreshReturn DEF SyncBackup, Fail
<1> QED
  BY Zenon, <1>1, <1>2, <1>3

LEMMA RenameFresh ==
    ASSUME IInv, FreshInv, NEW o \in Procs, WriteTemp(o) \/ Rename(o)
    PROVE  FreshInv'
<1>0. /\ proc[o].pc \in {"temp", "rename"} /\ proc[o].pc \in BeforeRename
      /\ proc \in [Procs -> ProcState] /\ used \in Nat /\ vdir \in VaultDir
  BY DEF IInv, TypeOK, WriteTemp, Rename, BeforeRename
<1>1. CASE \E s : Return(o, s)
  BY Zenon, <1>0, <1>1, FreshReturn
<1>2. CASE /\ proc' = [proc EXCEPT ![o].pc = "rename", ![o].tmp = TmpFile(proc[o].new)]
           /\ UNCHANGED <<table, vault, backups, lock, events, hist>>
  <2>1. proc' = [proc EXCEPT ![o].pc = "rename", ![o].tmp = TmpFile(proc[o].new)]
    BY Zenon, <1>2
  <2>2. /\ \A p \in Procs \ {o} : proc'[p] = proc[p]
        /\ proc'[o].op = proc[o].op /\ proc'[o].new = proc[o].new /\ proc'[o].pc = "rename"
    BY ONLY Zenon, <1>0, <2>1, o \in Procs DEF ProcState
  <2>3. used' = used /\ \A s \in 1..used : Seen(s)' => Seen(s)
    BY Zenon, <1>2 DEF table, vault, backups, hist, Seen
  <2>4. Unpublished(o)' => Unpublished(o)
    BY Zenon, <1>0, <2>2 DEF Unpublished
  <2> QED
    BY Zenon, <1>0, <2>2, <2>3, <2>4, FreshKept
<1>3. CASE /\ Rename(o) /\ ChangeVaultDir([vdir EXCEPT !.active = proc[o].tmp])
           /\ placed' = placed \cup {proc[o].new}
           /\ Goto(o, "sync") /\ UNCHANGED <<table, backups, lock, events, rolledBack>>
  <2>1. /\ proc'[o].pc = "sync" /\ proc'[o].op = proc[o].op /\ proc'[o].new = proc[o].new
        /\ \A p \in Procs \ {o} : proc'[p] = proc[p]
    BY Zenon, <1>3, GotoFields DEF IInv
  <2>2. proc[o].tmp.snap = proc[o].new
    <3>1. proc[o].pc = "rename" /\ InstallInv(o)
      BY Zenon, <1>3 DEF Rename, IInv, ProcInv, CommandInv
    <3> QED
      BY ONLY <3>1 DEF InstallInv, TmpFile
  <2>3. used' = used /\ \A s \in 1..used : Seen(s)' => Seen(s) \/ s = proc'[o].new
    <3>1. /\ UNCHANGED <<used, bdirDisk>> /\ vdirDisk' = vdirDisk \cup {vdir'}
          /\ vdir'.active = proc[o].tmp /\ placed' = placed \cup {proc[o].new}
      BY Zenon, <1>0, <1>3 DEF ChangeVaultDir, table, backups, VaultDir
    <3> QED
      BY Zenon, <2>1, <2>2, <3>1 DEF Seen
  <2>4. Fresh(o)'
    BY Zenon, <2>1, <2>3 DEF FreshInv, Fresh, Unpublished, BeforeRename
  <2> QED
    BY <1>0, <2>1, <2>3, <2>4, FreshStep
<1> QED
  BY Zenon, <1>1, <1>2, <1>3 DEF WriteTemp, Rename, Refuse, Fail

LEMMA FinishFresh ==
    ASSUME IInv, FreshInv, NEW o \in Procs, SyncVaultDir(o) \/ Readback(o)
    PROVE  FreshInv'
<1>0. proc \in [Procs -> ProcState] /\ used \in Nat /\ vdir \in vdirDisk
  BY DEF IInv, TypeOK, FilesInv
<1>1. CASE SyncVaultDir(o)
  <2>1. used' = used /\ \A s \in 1..used : Seen(s)' => Seen(s)
    <3>1. UNCHANGED <<used, bdirDisk, placed>> /\ (vdirDisk' = {vdir} \/ vdirDisk' = vdirDisk)
      BY Zenon, <1>1 DEF SyncVaultDir, table, backups, hist
    <3> QED
      BY Zenon, <1>0, <3>1 DEF Seen
  <2>2. CASE Goto(o, "readback")
    BY Zenon, <2>1, <2>2, FreshGoto DEF BeforeRename
  <2>3. CASE proc' = [proc EXCEPT ![o].pc = "readback", ![o].warn = TRUE]
    <3>1. /\ \A p \in Procs \ {o} : proc'[p] = proc[p]
          /\ proc'[o].op = proc[o].op /\ proc'[o].new = proc[o].new /\ proc'[o].pc = "readback"
      BY ONLY Zenon, <1>0, <2>3, o \in Procs DEF ProcState
    <3>2. ~Unpublished(o)'
      BY Zenon, <3>1 DEF Unpublished, BeforeRename
    <3> QED
      BY Zenon, <1>0, <2>1, <3>1, <3>2, FreshKept
  <2> QED
    BY Zenon, <1>1, <2>2, <2>3 DEF SyncVaultDir
<1>2. CASE Readback(o)
  <2>1. CASE /\ proc' = [proc EXCEPT ![o].status = "OK",
                           ![o].pc = IF proc[o].op = "save" THEN "prune" ELSE "unlock"]
             /\ UNCHANGED <<table, vault, backups, lock, events, hist>>
    <3> DEFINE l == IF proc[o].op = "save" THEN "prune" ELSE "unlock"
    <3>1. proc' = [proc EXCEPT ![o].status = "OK", ![o].pc = l]
      BY Zenon, <2>1
    <3>2. l \in {"prune", "unlock"}
      BY Zenon
    <3> HIDE DEF l
    <3>3. /\ \A p \in Procs \ {o} : proc'[p] = proc[p]
          /\ proc'[o].op = proc[o].op /\ proc'[o].new = proc[o].new
          /\ proc'[o].pc = l /\ proc'[o].status = "OK"
      BY ONLY Zenon, <1>0, <3>1, o \in Procs DEF ProcState
    <3>4. used' = used /\ \A s \in 1..used : Seen(s)' => Seen(s)
      BY Zenon, <2>1 DEF table, vault, backups, hist, Seen
    <3>5. ~Unpublished(o)'
      BY Zenon, <3>2, <3>3 DEF Unpublished, BeforeRename, Committed
    <3> QED
      BY Zenon, <1>0, <3>2, <3>3, <3>4, <3>5, FreshKept
  <2> QED
    BY Zenon, <1>2, <2>1, FreshReturn DEF Readback, Refuse, Fail, Committed
<1> QED
  BY Zenon, <1>1, <1>2

\* Pruning only removes, and only after PV_OK is settled.
LEMMA PruneFresh ==
    ASSUME IInv, FreshInv, NEW o \in Procs, PruneScan(o) \/ PruneUnlink(o) \/ PruneSync(o)
    PROVE  FreshInv'
<1>0. /\ proc \in [Procs -> ProcState] /\ used \in Nat /\ bdir \in bdirDisk /\ bdir \in BackupsDir
      /\ proc[o].pc \in Pruning
  <2>1. proc \in [Procs -> ProcState] /\ used \in Nat /\ bdir \in BackupsDir
    BY ONLY SMTT(30), IInv DEF IInv, TypeOK
  <2>2. bdir \in bdirDisk
    BY ONLY Zenon, IInv DEF IInv, FilesInv
  <2>3. proc[o].pc \in Pruning
    BY Zenon DEF PruneScan, PruneUnlink, PruneSync, Pruning
  <2> QED
    BY ONLY Zenon, <2>1, <2>2, <2>3
<1>1. proc[o].status = "OK"
  BY Zenon, <1>0 DEF IInv, ProcInv, CommandInv, InstallInv
<1>2. /\ \A p \in Procs \ {o} : proc'[p] = proc[p]
      /\ proc'[o].op = proc[o].op /\ proc'[o].new = proc[o].new /\ proc'[o].status = "OK"
      /\ proc'[o].pc \in Pruning \cup {"unlock"}
  <2>1. \/ \E l \in Pruning \cup {"unlock"} : Goto(o, l)
        \/ \E l \in Pruning : \E v : proc' = [proc EXCEPT ![o].pc = l, ![o].victims = v]
        \/ \E l \in Pruning : \E g : proc' = [proc EXCEPT ![o].victims = @ \ {g}, ![o].pc = l]
    BY Zenon DEF PruneScan, PruneUnlink, PruneSync, Pruning
  <2>2. ASSUME NEW l \in Pruning \cup {"unlock"}, Goto(o, l) PROVE <1>2!:
    BY Zenon, <1>1, <2>2, GotoFields DEF IInv
  <2>3. ASSUME NEW l \in Pruning, NEW v, proc' = [proc EXCEPT ![o].pc = l, ![o].victims = v]
        PROVE  <1>2!:
    BY ONLY Zenon, <1>0, <1>1, <2>3, o \in Procs DEF ProcState
  <2>4. ASSUME NEW l \in Pruning, NEW g, proc' = [proc EXCEPT ![o].victims = @ \ {g}, ![o].pc = l]
        PROVE  <1>2!:
    BY ONLY Zenon, <1>0, <1>1, <2>4, o \in Procs DEF ProcState
  <2> QED
    BY Zenon, <2>1, <2>2, <2>3, <2>4
<1>3. used' = used /\ \A s \in 1..used : Seen(s)' => Seen(s)
  <2>1. CASE PruneScan(o) \/ PruneSync(o)
    <3>1. UNCHANGED <<used, vdirDisk, placed>> /\ (bdirDisk' = bdirDisk \/ bdirDisk' = {bdir})
      BY Zenon, <2>1 DEF PruneScan, PruneSync, table, vault, backups, hist
    <3> QED
      BY Zenon, <1>0, <3>1 DEF Seen
  <2>2. CASE PruneUnlink(o)
    <3>1. /\ UNCHANGED <<used, vdirDisk, placed>>
          /\ \/ UNCHANGED bdirDisk
             \/ \E n : bdirDisk' = bdirDisk \cup {[bdir EXCEPT !.auto[n] = NoFile]}
      BY Zenon, <2>2 DEF PruneUnlink, ChangeBackups, table, vault, backups, hist
    <3>2. CASE UNCHANGED bdirDisk
      BY Zenon, <3>1, <3>2 DEF Seen
    <3>3. ASSUME NEW n, bdirDisk' = bdirDisk \cup {[bdir EXCEPT !.auto[n] = NoFile]}
          PROVE  \A s \in 1..used : Seen(s)' => Seen(s)
      <4> DEFINE left == [bdir EXCEPT !.auto[n] = NoFile]
      <4>1. left.pre = bdir.pre /\ \A m \in Names : left.auto[m] \in {bdir.auto[m], NoFile}
        BY Zenon, <1>0 DEF BackupsDir
      <4>2. bdirDisk' = bdirDisk \cup {left} /\ NoFile.snap = 0
        BY Zenon, <3>3 DEF NoFile
      <4> HIDE DEF left
      <4> QED
        BY <1>0, <3>1, <4>1, <4>2 DEF Seen
    <3> QED
      BY Zenon, <3>1, <3>2, <3>3
  <2> QED
    BY Zenon, <2>1, <2>2
<1>4. ~Unpublished(o)' /\ proc'[o].pc \notin {"ready", "check"}
  BY Zenon, <1>2 DEF Unpublished, BeforeRename, Pruning, Committed
<1> QED
  BY Zenon, <1>0, <1>2, <1>3, <1>4, FreshKept

-----------------------------------------------------------------------------
\* The user puts no snapshot anywhere, and a crash shows nothing new.
LEMMA SurroundingsFresh ==
    ASSUME IInv, FreshInv, RemoveActive \/ PlaceAlien \/ Crash
    PROVE  FreshInv'
<1>0. used \in 0..MaxSnap /\ used \in Nat /\ MaxSnap \in Nat /\ vdir \in VaultDir
  BY BoundsAssumption DEF IInv, TypeOK
<1>1. CASE RemoveActive \/ PlaceAlien
  <2>1. /\ UNCHANGED <<used, proc, bdirDisk, placed>> /\ vdirDisk' = vdirDisk \cup {vdir'}
        /\ vdir'.active \in {NoFile, Alien}
    BY Zenon, <1>0, <1>1
       DEF RemoveActive, PlaceAlien, ChangeVaultDir, table, backups, hist, VaultDir
  <2>2. NoFile.snap = 0 /\ Alien.snap = MaxSnap + 1
    BY Zenon DEF NoFile, Alien
  <2>3. \A s \in 1..used : Seen(s)' => Seen(s)
    BY <1>0, <2>1, <2>2 DEF Seen
  <2>4. ASSUME NEW p \in Procs PROVE Fresh(p)'
    <3>1. Fresh(p) /\ proc' = proc /\ used' = used
      BY Zenon, <2>1 DEF FreshInv
    <3> QED
      BY <1>0, <2>3, <3>1 DEF Fresh, Unpublished
  <2> QED
    BY Zenon, <2>4 DEF FreshInv
<1>2. CASE Crash
  <2>1. used' = used /\ \A p \in Procs : proc'[p] = Idle
    BY Zenon, <1>2 DEF Crash, table
  <2> QED
    BY <1>0, <2>1 DEF FreshInv, Fresh, Unpublished, Idle
<1> QED
  BY Zenon, <1>1, <1>2

LEMMA NextFresh == IInv /\ FreshInv /\ [Next]_vars => FreshInv'
<1> SUFFICES ASSUME IInv, FreshInv, [Next]_vars PROVE FreshInv'
  BY Zenon
<1>1. CASE UNCHANGED vars
  <2>1. proc' = proc /\ used' = used /\ \A s : Seen(s)' = Seen(s)
    BY Zenon, <1>1 DEF vars, table, vault, backups, hist, Seen
  <2> QED
    BY Zenon, <2>1 DEF FreshInv, Fresh, Unpublished
<1>2. ASSUME NEW o \in Procs, LockVault(o) PROVE FreshInv'
  <2>1. proc[o].pc = "ready"
    BY Zenon, <1>2 DEF LockVault
  <2>2. CASE Goto(o, "check") /\ UNCHANGED <<table, vault, backups, events, hist>>
    <3>1. used' = used /\ \A s \in 1..used : Seen(s)' => Seen(s)
      BY Zenon, <2>2 DEF table, vault, backups, hist, Seen
    <3> QED
      BY Zenon, <2>1, <2>2, <3>1, FreshGoto DEF BeforeRename
  <2> QED
    BY Zenon, <1>2, <2>1, <2>2, FreshReturn DEF LockVault, Refuse, Fail
<1>3. ASSUME NEW o \in Procs, Unlock(o) \/ Kill(o) PROVE FreshInv'
  <2>1. proc \in [Procs -> ProcState] /\ used \in Nat
    BY DEF IInv, TypeOK
  <2> QED
    BY Zenon, <1>3, <2>1, FreshIdle DEF Unlock, Kill, hist
<1>4. ASSUME NEW o \in Procs, Start(o) \/ Step(o) \/ Kill(o) PROVE FreshInv'
  BY Zenon, <1>2, <1>3, <1>4, StartFresh, CheckFresh, PreserveFresh, RenameFresh, FinishFresh,
     PruneFresh DEF Step
<1> QED
  BY Zenon, <1>1, <1>4, SurroundingsFresh DEF Next

LEMMA InitFresh == Init => FreshInv
BY BoundsAssumption DEF Init, FreshInv, Fresh, Unpublished, Idle

\* A create or save that ends with an error other than PV_ERR_DURABILITY has left
\* its snapshot nowhere, now or after a crash, whatever other commands did since:
\* save_locked reports such errors only before its rename.
THEOREM ErrorMeansNotCommittedHolds == Spec => []ErrorMeansNotCommitted
<1>1. IInv /\ FreshInv => ErrorMeansNotCommitted
  <2> SUFFICES ASSUME IInv, FreshInv, NEW p \in Procs, proc[p].pc = "unlock",
                      proc[p].status \notin Committed,
                      proc[p].op \in {"create", "save"}, proc[p].new # 0
               PROVE  /\ \A d \in vdirDisk \cup {vdir} : d.active.snap # proc[p].new
                      /\ \A f \in BackupFiles : f.snap # proc[p].new
    BY Zenon DEF ErrorMeansNotCommitted
  <2>1. ~Seen(proc[p].new)
    BY Zenon DEF FreshInv, Fresh, Unpublished
  <2>2. vdir \in vdirDisk /\ bdir \in bdirDisk
    BY Zenon DEF IInv, FilesInv
  <2> QED
    BY Zenon, <2>1, <2>2 DEF Seen, BackupFiles
<1> QED
  BY <1>1, InitFresh, NextFresh, Invariance, PTL DEF Spec

-----------------------------------------------------------------------------
(***************************************************************************)
(* A history without branches.  As long as no restore and no undone rename *)
(* has put an older snapshot back, the automatic backups of the active     *)
(* vault are of earlier generations, or of the active snapshot itself.     *)
(***************************************************************************)

\* The snapshot s is an automatic backup called n, or may be after a crash.
Holds(n, s) == s # 0 /\ \E e \in bdirDisk : e.auto[n].snap = s

\* A backup is what its name says.
Named ==
    \A n \in Names : \A s : Holds(n, s) => n = <<snap[s].vault, snap[s].gen>>

Straight ==
    restored = {} /\ ~rolledBack /\ Readable(vdir.active) =>
        LET a == vdir.active.snap IN
        \A n \in Names : \A s :
            Holds(n, s) /\ snap[s].vault = snap[a].vault =>
                s = a \/ snap[s].gen < snap[a].gen

\* A create between its encryption and its rename.
Creating(p) == proc[p].op = "create" /\ proc[p].pc \in {"temp", "rename"}

\* A vault is older than its snapshots, and a vault being created has but one.
Numbered ==
    /\ \A i \in 1..used : snap[i].vault <= i
    /\ \A p \in Procs : Creating(p) => proc[p].new = used /\ snap[used].vault = used

\* Inductive together with IInv and FreshInv.
LineInv == Named /\ Straight /\ Numbered /\ CollisionNeedsBranch

-----------------------------------------------------------------------------
\* A step of o leaves the locals of the others alone.
LEMMA OwnLocals ==
    ASSUME IInv, NEW o \in Procs, Start(o) \/ Step(o) \/ Kill(o)
    PROVE  \A p \in Procs \ {o} : proc'[p] = proc[p]
<1> USE DEF Goto, Refuse, Fail, Return
<1>0. proc \in [Procs -> ProcState]
  BY Zenon DEF IInv, TypeOK
<1> USE <1>0
<1>1. CASE Start(o)
  BY Zenon, <1>1 DEF Start, Open, BeginCreate, ReadBackup
<1>2. CASE LockVault(o) \/ Unlock(o) \/ Kill(o)
  BY Zenon, <1>2 DEF LockVault, Unlock, Kill
<1>3. CASE Check(o)
  BY Zenon, <1>3 DEF Check, CheckCreate, CheckSave, CheckRestore, Encrypt
<1>4. CASE MakeBackupsDir(o) \/ PublishBackup(o) \/ SyncBackup(o)
  BY Zenon, <1>4 DEF MakeBackupsDir, PublishBackup, AutomaticBackup, PreRestoreCopy, SyncBackup
<1>5. CASE WriteTemp(o) \/ Rename(o) \/ SyncVaultDir(o) \/ Readback(o)
  BY Zenon, <1>5 DEF WriteTemp, Rename, SyncVaultDir, Readback
<1>6. CASE PruneScan(o) \/ PruneUnlink(o) \/ PruneSync(o)
  BY Zenon, <1>6 DEF PruneScan, PruneUnlink, PruneSync
<1> QED
  BY Zenon, <1>1, <1>2, <1>3, <1>4, <1>5, <1>6 DEF Step

\* Only an encryption adds to the table, of a process that holds the lock.
LEMMA TableSteps ==
    ASSUME IInv, NEW o \in Procs, Start(o) \/ Step(o) \/ Kill(o)
    PROVE  \/ UNCHANGED <<snap, used>>
           \/ /\ proc[o].pc = "check" /\ used \in Nat /\ used < MaxSnap
              /\ \/ /\ proc[o].op = "create"
                    /\ Encrypt(o, [vault |-> used + 1, gen |-> 1, base |-> 0], "temp")
                 \/ /\ proc[o].op = "save"
                    /\ Encrypt(o, [vault |-> snap[proc[o].base].vault,
                                   gen |-> snap[proc[o].base].gen + 1,
                                   base |-> proc[o].base], "mkdir")
              /\ used' = used + 1 /\ UNCHANGED <<vault, backups, lock, events, hist>>
              /\ proc'[o].op = proc[o].op /\ proc'[o].new = used + 1
              /\ proc'[o].status = proc[o].status
              /\ \A i \in 1..used : snap'[i] = snap[i]
<1> USE DEF Refuse, Fail, Return, table
<1>1. CASE Start(o) \/ LockVault(o) \/ Unlock(o) \/ Kill(o)
  BY Zenon, <1>1 DEF Start, Open, BeginCreate, ReadBackup, LockVault, Unlock, Kill
<1>2. CASE MakeBackupsDir(o) \/ PublishBackup(o) \/ SyncBackup(o)
  BY Zenon, <1>2 DEF MakeBackupsDir, PublishBackup, AutomaticBackup, PreRestoreCopy, SyncBackup
<1>3. CASE WriteTemp(o) \/ Rename(o) \/ SyncVaultDir(o) \/ Readback(o)
  BY Zenon, <1>3 DEF WriteTemp, Rename, SyncVaultDir, Readback
<1>4. CASE PruneScan(o) \/ PruneUnlink(o) \/ PruneSync(o)
  BY Zenon, <1>4 DEF PruneScan, PruneUnlink, PruneSync
<1>5. CASE Check(o)
  <2>1. ASSUME NEW info, NEW l, Encrypt(o, info, l), ~UNCHANGED <<snap, used>>
        PROVE  /\ used \in Nat /\ used < MaxSnap /\ used' = used + 1
               /\ UNCHANGED <<vault, backups, lock, events, hist>>
               /\ proc'[o].op = proc[o].op /\ proc'[o].new = used + 1
               /\ proc'[o].status = proc[o].status
               /\ \A i \in 1..used : snap'[i] = snap[i]
    <3>1. /\ used < MaxSnap /\ used' = used + 1
          /\ snap' = [snap EXCEPT ![used + 1] = info]
          /\ proc' = [proc EXCEPT ![o].pc = l, ![o].new = used + 1]
          /\ UNCHANGED <<vault, backups, lock, events, hist>>
      BY Zenon, <2>1 DEF Encrypt
    <3>2. /\ used \in Nat /\ MaxSnap \in Nat /\ snap \in [Ids -> SnapInfo]
          /\ proc \in [Procs -> ProcState]
      BY BoundsAssumption DEF IInv, TypeOK
    <3>3. /\ proc'[o].op = proc[o].op /\ proc'[o].new = used + 1
          /\ proc'[o].status = proc[o].status
      BY ONLY Zenon, <3>1, <3>2, o \in Procs DEF ProcState
    <3>4. \A i \in 1..used : snap'[i] = snap[i]
      BY ONLY <3>1, <3>2 DEF Ids
    <3> QED
      BY Zenon, <3>1, <3>2, <3>3, <3>4
  <2>2. CASE CheckCreate(o)
    BY Zenon, <2>1, <2>2 DEF CheckCreate
  <2>3. CASE CheckSave(o)
    BY Zenon, <2>1, <2>3 DEF CheckSave
  <2>4. CASE CheckRestore(o)
    BY Zenon, <2>4 DEF CheckRestore
  <2> QED
    BY Zenon, <1>5, <2>2, <2>3, <2>4 DEF Check
<1> QED
  BY Zenon, <1>1, <1>2, <1>3, <1>4, <1>5 DEF Step

\* A create comes to its rename by its encryption only.
LEMMA CreatingStep ==
    ASSUME IInv, NEW o \in Procs, Start(o) \/ Step(o) \/ Kill(o), used' = used, Creating(o)'
    PROVE  Creating(o) /\ proc'[o].new = proc[o].new
<1>0. /\ proc \in [Procs -> ProcState] /\ CommandInv(o) /\ used \in Nat
      /\ proc'[o].op = "create" /\ proc'[o].pc \in {"temp", "rename"}
  BY SMTT(30), BoundsAssumption DEF IInv, TypeOK, ProcInv, Creating
<1>1. ASSUME NEW l, Goto(o, l) PROVE proc'[o].pc = l /\ proc'[o].op = proc[o].op
  BY Zenon, <1>1, GotoFields DEF IInv
<1>2. ASSUME NEW s, proc' = [proc EXCEPT ![o].pc = "unlock", ![o].status = s] PROVE FALSE
  BY Zenon, <1>0, <1>2, ReturnFields DEF IInv
<1>3. \A l \in PCs \ {"temp", "rename"} : ~Goto(o, l)
  BY Zenon, <1>0, <1>1
<1>4. /\ ~Goto(o, "check") /\ ~Goto(o, "backup") /\ ~Goto(o, "bksync") /\ ~Goto(o, "sync")
      /\ ~Goto(o, "readback") /\ ~Goto(o, "unlock")
      /\ ~Goto(o, IF proc[o].pc = "unlink" THEN "unlock" ELSE "prunesync")
  BY Zenon, <1>3 DEF PCs
<1>5. \A s : ~Refuse(o, s) /\ ~Fail(o, s)
  BY Zenon, <1>2 DEF Refuse, Fail, Return
<1>6. CASE Start(o) \/ Unlock(o) \/ Kill(o)
  <2>1. ASSUME NEW r, proc' = [proc EXCEPT ![o] = r] PROVE proc'[o] = r
    BY Zenon, <1>0, <2>1
  <2>2. CASE Open(o)
    BY Zenon, <1>0, <2>1, <2>2 DEF Open, Idle
  <2>3. CASE BeginCreate(o)
    BY Zenon, <1>0, <2>1, <2>3 DEF BeginCreate, Idle
  <2>4. CASE ReadBackup(o)
    <3>1. PICK s \in placed :
            proc' = [proc EXCEPT ![o] = [Idle EXCEPT !.pc = "ready",
                                          !.op = "restore", !.new = s]]
      BY Zenon, <2>4 DEF ReadBackup
    <3> QED
      BY Zenon, <1>0, <2>1, <3>1 DEF Idle
  <2>5. CASE Unlock(o) \/ Kill(o)
    <3>1. proc' = [proc EXCEPT ![o] = Idle]
      BY Zenon, <2>5 DEF Unlock, Kill
    <3>2. proc'[o] = Idle
      BY Zenon, <1>0, <3>1
    <3>3. Idle.pc = "idle"
      BY Zenon DEF Idle
    <3> QED
      BY Zenon, <1>0, <3>2, <3>3
  <2> QED
    BY Zenon, <1>6, <2>2, <2>3, <2>4, <2>5 DEF Start
<1>7. CASE LockVault(o) \/ MakeBackupsDir(o) \/ PublishBackup(o)
  BY Zenon, <1>2, <1>4, <1>5, <1>7 DEF LockVault, MakeBackupsDir, PublishBackup, AutomaticBackup,
     PreRestoreCopy
<1>8. CASE Check(o)
  <2>1. proc[o].op = "restore" => proc'[o].op = "restore"
    BY Zenon, <1>0, <1>1, <1>2, <1>8
       DEF Check, CheckCreate, CheckSave, CheckRestore, Refuse, Fail, Return, ProcState
  <2>2. ASSUME NEW info, NEW l, Encrypt(o, info, l) PROVE FALSE
    BY <1>0, <1>2, <2>2 DEF Encrypt, Refuse, Return
  <2> QED
    BY Zenon, <1>0, <1>2, <1>8, <2>1, <2>2
       DEF Check, CheckCreate, CheckSave, CheckRestore, Refuse, Fail, Return
<1>9. CASE SyncBackup(o)
  <2>1. proc[o].pc = "bksync" /\ proc[o].op = proc'[o].op
    BY Zenon, <1>0, <1>1, <1>2, <1>9 DEF SyncBackup, Fail, Return
  <2> QED
    BY Zenon, <1>0, <2>1 DEF CommandInv, CreateInv
<1>10. CASE WriteTemp(o)
  <2>1. proc[o].pc = "temp" /\ proc' = [proc EXCEPT ![o].pc = "rename", ![o].tmp = TmpFile(proc[o].new)]
    BY Zenon, <1>2, <1>10 DEF WriteTemp, Fail, Return
  <2>2. proc'[o].op = proc[o].op /\ proc'[o].new = proc[o].new
    BY ONLY Zenon, <1>0, <2>1, o \in Procs DEF ProcState
  <2> QED
    BY Zenon, <1>0, <2>1, <2>2 DEF Creating
<1>11. CASE Rename(o)
  BY Zenon, <1>4, <1>5, <1>11 DEF Rename
<1>12. CASE SyncVaultDir(o) \/ Readback(o)
  <2>1. ASSUME proc' = [proc EXCEPT ![o].pc = "readback", ![o].warn = TRUE] PROVE FALSE
    BY Zenon, <1>0, <2>1 DEF ProcState
  <2>2. CASE SyncVaultDir(o)
    BY Zenon, <1>4, <2>1, <2>2 DEF SyncVaultDir
  <2>3. CASE Readback(o)
    <3> DEFINE l == IF proc[o].op = "save" THEN "prune" ELSE "unlock"
    <3>1. proc' = [proc EXCEPT ![o].status = "OK", ![o].pc = l]
      BY Zenon, <1>5, <2>3 DEF Readback
    <3>2. l \in {"prune", "unlock"}
      BY Zenon
    <3> HIDE DEF l
    <3>3. proc'[o].pc = l
      BY Zenon, <1>0, <3>1 DEF ProcState
    <3> QED
      BY Zenon, <1>0, <3>2, <3>3
  <2> QED
    BY Zenon, <1>12, <2>2, <2>3
<1>13. CASE PruneScan(o) \/ PruneUnlink(o) \/ PruneSync(o)
  <2>1. ASSUME NEW v, proc' = [proc EXCEPT ![o].pc = "unlink", ![o].victims = v]
        PROVE  FALSE
    BY Zenon, <1>0, <2>1 DEF ProcState
  <2>2. ASSUME NEW g, NEW l \in {"unlinked", "prunesync"},
               proc' = [proc EXCEPT ![o].victims = @ \ {g}, ![o].pc = l]
        PROVE  FALSE
    BY Zenon, <1>0, <2>2 DEF ProcState
  <2>3. CASE PruneUnlink(o)
    BY Zenon, <1>4, <2>2, <2>3 DEF PruneUnlink
  <2> QED
    BY Zenon, <1>4, <1>13, <2>1, <2>3 DEF PruneScan, PruneSync
<1> QED
  BY ZenonT(30), <1>6, <1>7, <1>8, <1>9, <1>10, <1>11, <1>12, <1>13 DEF Step

LEMMA NumberedStep ==
    ASSUME IInv, Numbered, NEW o \in Procs, Start(o) \/ Step(o) \/ Kill(o)
    PROVE  Numbered'
<1>0. \A p \in Procs \ {o} : proc'[p] = proc[p]
  BY Zenon, OwnLocals
<1>1. CASE UNCHANGED <<snap, used>>
  <2>1. ASSUME NEW p \in Procs, Creating(p)' PROVE proc'[p].new = used /\ snap[used].vault = used
    <3>1. CASE p = o
      BY Zenon, <1>1, <2>1, <3>1, CreatingStep DEF Numbered
    <3>2. CASE p # o
      BY Zenon, <1>0, <2>1, <3>2 DEF Numbered, Creating
    <3> QED
      BY Zenon, <3>1, <3>2
  <2> QED
    BY Zenon, <1>1, <2>1 DEF Numbered
<1>2. ASSUME NEW info, NEW l, Encrypt(o, info, l), proc[o].pc = "check", used \in Nat,
             used < MaxSnap, used' = used + 1, proc'[o].new = used + 1,
             proc'[o].op = proc[o].op, \A i \in 1..used : snap'[i] = snap[i],
             snap'[used + 1].vault <= used + 1,
             proc[o].op = "create" => snap'[used + 1].vault = used + 1
      PROVE  Numbered'
  <2>1. ASSUME NEW p \in Procs \ {o} PROVE ~Creating(p)'
    <3>1. lock = o
      BY Zenon, <1>2 DEF IInv, LockInv, LockedPCs, PCs
    <3>2. Outside(p)
      BY Zenon, <3>1, OthersOutside
    <3> QED
      BY Zenon, <1>0, <2>1, <3>2 DEF Creating, Outside
  <2>2. Creating(o)' => proc'[o].new = used' /\ snap'[used'].vault = used'
    BY Zenon, <1>2 DEF Creating
  <2>3. \A i \in 1..used' : snap'[i].vault <= i
    <3>1. \A i \in 1..used : snap'[i].vault <= i
      BY Zenon, <1>2 DEF Numbered
    <3>2. used \in Nat /\ used' = used + 1 /\ snap'[used + 1].vault <= used + 1
      BY Zenon, <1>2
    <3> QED
      BY ONLY SMT, <3>1, <3>2
  <2> QED
    BY Zenon, <2>1, <2>2, <2>3 DEF Numbered
<1>3. /\ used \in Nat /\ used <= MaxSnap /\ MaxSnap \in Nat
      /\ snap \in [Ids -> SnapInfo] /\ CommandInv(o)
  BY BoundsAssumption DEF IInv, TypeOK, ProcInv
<1>4. ASSUME NEW info, NEW l, Encrypt(o, info, l), used' = used + 1 PROVE snap'[used + 1] = info
  <2>1. used' # used
    BY <1>3, <1>4
  <2>2. snap' = [snap EXCEPT ![used + 1] = info] /\ used < MaxSnap
    BY Zenon, <1>4, <2>1 DEF Encrypt, Refuse, Return, table
  <2> QED
    BY <1>3, <2>2 DEF Ids
<1>5. CASE ~UNCHANGED <<snap, used>>
  <2>1. /\ proc[o].pc = "check" /\ used < MaxSnap
        /\ used' = used + 1 /\ proc'[o].op = proc[o].op /\ proc'[o].new = used + 1
        /\ \A i \in 1..used : snap'[i] = snap[i]
    BY Zenon, <1>5, TableSteps
  <2>2. CASE /\ proc[o].op = "create"
             /\ Encrypt(o, [vault |-> used + 1, gen |-> 1, base |-> 0], "temp")
    <3>1. snap'[used + 1] = [vault |-> used + 1, gen |-> 1, base |-> 0]
      BY Zenon, <1>4, <2>1, <2>2
    <3>2. snap'[used + 1].vault = used + 1
      BY <3>1
    <3>3. used + 1 <= used + 1
      BY <1>3
    <3> QED
      BY Zenon, <1>2, <1>3, <2>1, <2>2, <3>2, <3>3
  <2>3. CASE /\ proc[o].op = "save"
             /\ Encrypt(o, [vault |-> snap[proc[o].base].vault,
                            gen |-> snap[proc[o].base].gen + 1,
                            base |-> proc[o].base], "mkdir")
    <3> DEFINE info == [vault |-> snap[proc[o].base].vault,
                        gen |-> snap[proc[o].base].gen + 1, base |-> proc[o].base]
    <3>0. info.vault = snap[proc[o].base].vault /\ Encrypt(o, info, "mkdir")
      BY Zenon, <2>3
    <3> HIDE DEF info
    <3>1. snap'[used + 1].vault = snap[proc[o].base].vault
      BY Zenon, <1>4, <2>1, <3>0
    <3>2. proc[o].base \in 1..used
      BY Zenon, <1>3, <2>1, <2>3 DEF CommandInv, SaveInv
    <3>3. snap[proc[o].base].vault <= proc[o].base /\ snap[proc[o].base].vault \in Nat
      <4>1. proc[o].base \in Ids
        BY <1>3, <3>2 DEF Ids
      <4>2. snap[proc[o].base] \in SnapInfo
        BY Zenon, <1>3, <4>1
      <4>3. snap[proc[o].base].vault \in Nat
        BY <1>3, <4>2 DEF SnapInfo
      <4> QED
        BY Zenon, <3>2, <4>3 DEF Numbered
    <3>4. snap'[used + 1].vault <= used + 1
      BY <1>3, <3>1, <3>2, <3>3
    <3> QED
      BY Zenon, <1>2, <1>3, <2>1, <2>3, <3>4
  <2> QED
    BY Zenon, <1>5, <2>2, <2>3, TableSteps
<1> QED
  BY Zenon, <1>1, <1>5

-----------------------------------------------------------------------------
\* What is in the backups is in the table.
LEMMA HeldKnown ==
    ASSUME IInv, NEW n \in Names, NEW s, Holds(n, s)
    PROVE  s \in 1..used
<1>1. used \in Nat /\ \E e \in bdirDisk : e.auto[n].snap = s /\ e.auto[n].snap \in 0..used
  BY SMTT(30), BoundsAssumption DEF IInv, TypeOK, FilesInv, Holds
<1> QED
  BY <1>1 DEF Holds

LEMMA ActiveKnown == ASSUME IInv, Readable(vdir.active) PROVE vdir.active.snap \in 1..used
<1>1. /\ used \in Nat /\ MaxSnap \in Nat
      /\ vdir.active.snap \in (0..used) \cup {MaxSnap + 1} /\ vdir.active.snap \in Ids
  BY SMTT(30), BoundsAssumption DEF IInv, TypeOK, FilesInv, Readable
<1> QED
  BY <1>1 DEF Ids

\* A step that adds nothing to the backups and installs nothing, or ends the line.
LEMMA LineFrame ==
    ASSUME IInv, Named, Straight, \A i \in 1..used : snap'[i] = snap[i],
           \A n \in Names : \A s : Holds(n, s)' => Holds(n, s),
           restored' = {} /\ ~rolledBack' /\ Readable(vdir'.active) =>
               restored = {} /\ ~rolledBack /\ vdir'.active = vdir.active
    PROVE  Named' /\ Straight'
<1>1. Named'
  BY Zenon, HeldKnown DEF Named
<1>2. ASSUME restored' = {}, ~rolledBack', Readable(vdir'.active), NEW n \in Names, NEW s,
             Holds(n, s)', snap'[s].vault = snap'[vdir'.active.snap].vault
      PROVE  s = vdir'.active.snap \/ snap'[s].gen < snap'[vdir'.active.snap].gen
  <2>1. /\ restored = {} /\ ~rolledBack /\ vdir'.active = vdir.active
        /\ Readable(vdir.active) /\ Holds(n, s)
    BY Zenon, <1>2
  <2>2. snap'[s] = snap[s] /\ snap'[vdir.active.snap] = snap[vdir.active.snap]
    BY Zenon, <2>1, HeldKnown, ActiveKnown
  <2> QED
    BY Zenon, <1>2, <2>1, <2>2 DEF Straight
<1> QED
  BY Zenon, <1>1, <1>2 DEF Straight, Readable

\* The automatic backup of the active snapshot.
LEMMA LinePublish ==
    ASSUME IInv, Named, Straight, NEW o \in Procs, AutomaticBackup(o), proc[o].pc = "backup"
    PROVE  Named' /\ Straight'
<1>0. /\ UNCHANGED <<snap, used, vdir, restored, rolledBack>> /\ proc[o].op = "save"
      /\ bdir \in bdirDisk /\ bdir \in BackupsDir /\ CommandInv(o)
  BY Zenon DEF AutomaticBackup, Refuse, Return, table, vault, hist, IInv, FilesInv, TypeOK, ProcInv
<1>1. CASE UNCHANGED bdirDisk
  BY Zenon, <1>0, <1>1, LineFrame DEF Holds
<1>2. CASE ChangeBackups([bdir EXCEPT !.auto[AutoName(o)] = TmpFile(proc[o].base)])
  <2> DEFINE added == [bdir EXCEPT !.auto[AutoName(o)] = TmpFile(proc[o].base)]
             base == proc[o].base
  <2>1. bdirDisk' = bdirDisk \cup {added} /\ vdir.active.snap = base
    BY Zenon, <1>0, <1>2 DEF ChangeBackups, CommandInv, SaveInv, BeforeRename
  <2>2. \A n \in Names : added.auto[n] = IF n = AutoName(o) THEN TmpFile(base) ELSE bdir.auto[n]
    BY Zenon, <1>0 DEF BackupsDir
  <2>3. AutoName(o) = <<snap[base].vault, snap[base].gen>>
    BY Zenon DEF AutoName
  <2>4. TmpFile(base).snap = base
    BY Zenon DEF TmpFile
  <2> HIDE DEF added, base
  <2>5. \A n \in Names : \A s : Holds(n, s)' => Holds(n, s) \/ (n = AutoName(o) /\ s = base)
    <3> SUFFICES ASSUME NEW n \in Names, NEW s, s # 0, NEW e \in bdirDisk \cup {added},
                        e.auto[n].snap = s
                 PROVE  Holds(n, s) \/ (n = AutoName(o) /\ s = base)
      BY Zenon, <2>1 DEF Holds
    <3>1. CASE e \in bdirDisk
      BY Zenon, <3>1 DEF Holds
    <3>2. CASE e = added /\ n # AutoName(o)
      BY Zenon, <1>0, <2>2, <3>2 DEF Holds
    <3>3. CASE e = added /\ n = AutoName(o)
      BY Zenon, <2>2, <2>4, <3>3
    <3> QED
      BY Zenon, <3>1, <3>2, <3>3
  <2>6. Named'
    BY Zenon, <1>0, <2>3, <2>5 DEF Named
  <2>7. Straight'
    BY Zenon, <1>0, <2>1, <2>5 DEF Straight, Readable
  <2> QED
    BY Zenon, <2>6, <2>7
<1> QED
  BY Zenon, <1>1, <1>2 DEF AutomaticBackup, Refuse, Return, backups

\* The rename: of a save, the next generation; of a create, a vault without backups;
\* of a restore, the end of the line.
LEMMA LineRename ==
    ASSUME IInv, FreshInv, LineInv, NEW o \in Procs, Rename(o)
    PROVE  Named' /\ Straight'
<1>0. /\ UNCHANGED <<snap, used, bdirDisk, rolledBack>> /\ CommandInv(o) /\ proc[o].pc = "rename"
      /\ Named /\ Straight /\ Numbered /\ used \in Nat
  BY SMTT(30), BoundsAssumption DEF Rename, Refuse, Fail, Return, table, backups, hist, IInv, TypeOK,
     ProcInv, LineInv
<1>1. \A n \in Names : \A s : Holds(n, s)' <=> Holds(n, s)
  BY Zenon, <1>0 DEF Holds
<1>2. CASE UNCHANGED <<vdir, restored>>
  BY Zenon, <1>0, <1>1, <1>2, LineFrame
<1>3. CASE /\ vdir' = [vdir EXCEPT !.active = proc[o].tmp]
           /\ restored' = IF proc[o].op = "restore" THEN restored \cup {proc[o].new} ELSE restored
  <2>1. vdir'.active = TmpFile(proc[o].new)
    BY Zenon, <1>0, <1>3 DEF IInv, TypeOK, VaultDir, CommandInv, InstallInv
  <2>2. vdir'.active.snap = proc[o].new
    BY <2>1 DEF TmpFile
  <2>3. CASE proc[o].op = "restore"
    <3>1. restored' # {}
      BY Zenon, <1>3, <2>3
    <3> QED
      BY Zenon, <1>0, <1>1, <3>1, LineFrame
  <2>4. Named'
    BY Zenon, <1>0, <1>1 DEF Named
  <2>5. CASE proc[o].op = "save"
    <3>1. /\ proc[o].base \in 1..used /\ proc[o].new \in 1..used
          /\ snap[proc[o].new].base = proc[o].base /\ vdir.active.snap = proc[o].base
      BY Zenon, <1>0, <2>5 DEF CommandInv, SaveInv, BeforeRename
    <3>2. /\ snap[proc[o].base].vault = snap[proc[o].new].vault
          /\ snap[proc[o].new].gen = snap[proc[o].base].gen + 1
          /\ snap[proc[o].base].gen \in Nat
      BY <1>0, <3>1, BoundsAssumption DEF IInv, TableInv, Gens
    <3>3. Readable(vdir.active)
      BY SMTT(30), <3>1, BoundsAssumption DEF Readable, Ids, IInv, TypeOK
    <3>4. ASSUME restored = {}, ~rolledBack, NEW n \in Names, NEW s, Holds(n, s),
                 snap[s].vault = snap[proc[o].new].vault
          PROVE  snap[s].gen < snap[proc[o].new].gen
      <4>1. s = proc[o].base \/ snap[s].gen < snap[proc[o].base].gen
        BY Zenon, <1>0, <3>1, <3>2, <3>3, <3>4 DEF Straight
      <4>2. s \in 1..used
        BY Zenon, <3>4, HeldKnown
      <4>3. snap[s].gen \in Nat
        BY <4>2, BoundsAssumption DEF IInv, TableInv, Gens
      <4> QED
        BY ONLY SMT, <3>2, <4>1, <4>3
    <3> QED
      BY Zenon, <1>0, <1>1, <1>3, <2>2, <2>4, <2>5, <3>4 DEF Straight
  <2>6. CASE proc[o].op = "create"
    <3>1. proc[o].new = used /\ snap[used].vault = used /\ proc[o].new \in 1..used
      BY Zenon, <1>0, <2>6 DEF Numbered, Creating, CommandInv, CreateInv
    <3>2. ~Seen(used)
      <4>1. proc[o].new # 0
        BY <3>1
      <4> QED
        BY Zenon, <1>0, <2>6, <3>1, <4>1 DEF FreshInv, Fresh, Unpublished, BeforeRename
    <3>3. ASSUME NEW n \in Names, NEW s, Holds(n, s), snap[s].vault = used PROVE FALSE
      <4>1. s \in 1..used /\ used <= s
        BY Zenon, <1>0, <3>3, HeldKnown DEF Numbered
      <4>2. s = used
        BY <1>0, <4>1
      <4> QED
        BY Zenon, <3>2, <3>3, <4>2 DEF Holds, Seen
    <3> QED
      BY Zenon, <1>0, <1>1, <2>2, <2>4, <3>1, <3>3 DEF Straight
  <2>7. proc[o].op \in {"save", "restore", "create"}
    BY Zenon, <1>0 DEF IInv, TypeOK, ProcState, Commands, CommandInv, InstallInv
  <2> QED
    BY Zenon, <2>3, <2>5, <2>6, <2>7
<1> QED
  BY Zenon, <1>2, <1>3 DEF Rename, ChangeVaultDir, Refuse, Fail, Return, vault, hist

\* The other steps of a command publish no automatic backup and install nothing.
LEMMA LineOtherSteps ==
    ASSUME IInv, Named, Straight, NEW o \in Procs, Start(o) \/ Step(o) \/ Kill(o),
           ~AutomaticBackup(o) \/ proc[o].pc # "backup", ~Rename(o)
    PROVE  Named' /\ Straight'
<1>0. vdir \in VaultDir /\ bdir \in BackupsDir /\ bdir \in bdirDisk /\ NoFile.snap = 0
  BY Zenon DEF IInv, TypeOK, FilesInv, NoFile
<1>1. \A i \in 1..used : snap'[i] = snap[i]
  BY Zenon, TableSteps
<1>2. /\ UNCHANGED <<restored, rolledBack>> /\ vdir'.active = vdir.active
      /\ \/ bdirDisk' \subseteq bdirDisk
         \/ /\ bdirDisk' \subseteq bdirDisk \cup {bdir'}
            /\ \A n \in Names : bdir'.auto[n] \in {bdir.auto[n], NoFile}
  <2> USE DEF Refuse, Fail, Return, vault, backups, hist
  <2>1. CASE Start(o) \/ Kill(o) \/ LockVault(o) \/ Unlock(o)
    BY Zenon, <2>1 DEF Start, Open, BeginCreate, ReadBackup, Kill, LockVault, Unlock
  <2>2. CASE Check(o)
    BY Zenon, ZenonT(30), <2>2 DEF Check, CheckCreate, CheckSave, CheckRestore, Encrypt
  <2>3. CASE SyncBackup(o) \/ WriteTemp(o) \/ SyncVaultDir(o) \/ Readback(o)
    BY Zenon, <1>0, <2>3 DEF SyncBackup, WriteTemp, SyncVaultDir, Readback
  <2>4. CASE PruneScan(o) \/ PruneSync(o)
    BY Zenon, <1>0, <2>4 DEF PruneScan, PruneSync
  <2>5. CASE MakeBackupsDir(o)
    <3>1. [vdir EXCEPT !.backups = TRUE].active = vdir.active
      BY Zenon, <1>0 DEF VaultDir
    <3> QED
      BY Zenon, <2>5, <3>1 DEF MakeBackupsDir, ChangeVaultDir
  <2>6. CASE PublishBackup(o)
    <3>1. [bdir EXCEPT !.pre = @ \cup {TmpFile(vdir.active.snap)}].auto = bdir.auto
      BY Zenon, <1>0 DEF BackupsDir
    <3> QED
      BY Zenon, <2>6, <3>1 DEF PublishBackup, PreRestoreCopy, ChangeBackups
  <2>7. CASE PruneUnlink(o)
    <3>1. UNCHANGED <<vdir, restored, rolledBack>>
      BY Zenon, <2>7 DEF PruneUnlink
    <3>2. ASSUME NEW n, ChangeBackups([bdir EXCEPT !.auto[n] = NoFile])
          PROVE  /\ bdirDisk' \subseteq bdirDisk \cup {bdir'}
                 /\ \A m \in Names : bdir'.auto[m] \in {bdir.auto[m], NoFile}
      BY Zenon, <1>0, <3>2 DEF ChangeBackups, BackupsDir
    <3>3. \/ UNCHANGED bdirDisk
          \/ \E n : ChangeBackups([bdir EXCEPT !.auto[n] = NoFile])
      BY Zenon, <2>7 DEF PruneUnlink
    <3> QED
      BY Zenon, <3>1, <3>2, <3>3
  <2> QED
    BY Zenon, <2>1, <2>2, <2>3, <2>4, <2>5, <2>6, <2>7 DEF Step
<1>3. \A n \in Names : \A s : Holds(n, s)' => Holds(n, s)
  <2>1. CASE bdirDisk' \subseteq bdirDisk
    BY Zenon, <2>1 DEF Holds
  <2>2. CASE /\ bdirDisk' \subseteq bdirDisk \cup {bdir'}
             /\ \A n \in Names : bdir'.auto[n] \in {bdir.auto[n], NoFile}
    BY Zenon, <1>0, <2>2 DEF Holds
  <2> QED
    BY Zenon, <1>2, <2>1, <2>2
<1> QED
  BY Zenon, <1>1, <1>2, <1>3, LineFrame

\* The user installs no snapshot, and a crash that does has undone a rename.
LEMMA LineSurroundings ==
    ASSUME IInv, Named, Straight, RemoveActive \/ PlaceAlien \/ Crash
    PROVE  Named' /\ Straight'
<1>0. UNCHANGED <<snap, used, restored>> /\ vdir \in VaultDir
  BY Zenon DEF RemoveActive, PlaceAlien, Crash, table, hist, IInv, TypeOK
<1>1. CASE RemoveActive \/ PlaceAlien
  <2>1. UNCHANGED <<bdirDisk, rolledBack>> /\ vdir'.active \in {NoFile, Alien}
    BY Zenon, <1>0, <1>1 DEF RemoveActive, PlaceAlien, ChangeVaultDir, backups, hist, VaultDir
  <2>2. ~Readable(vdir'.active)
    BY <2>1, BoundsAssumption DEF Readable, Ids, NoFile, Alien
  <2>3. \A n \in Names : \A s : Holds(n, s)' => Holds(n, s)
    BY Zenon, <2>1 DEF Holds
  <2> QED
    BY Zenon, <1>0, <2>2, <2>3, LineFrame
<1>2. CASE Crash
  <2>1. bdirDisk' = {bdir'} /\ (bdir' \in bdirDisk \/ bdir' = EmptyBackups)
    BY Zenon, <1>2, CrashFiles
  <2>2. rolledBack' = (rolledBack \/ vdir'.active # vdir.active)
    BY Zenon, <1>2 DEF Crash
  <2>3. \A n \in Names : EmptyBackups.auto[n].snap = 0
    BY Zenon DEF EmptyBackups, NoFile
  <2>4. \A n \in Names : \A s : Holds(n, s)' => Holds(n, s)
    BY Zenon, <2>1, <2>3 DEF Holds
  <2> QED
    BY Zenon, <1>0, <2>2, <2>4, LineFrame
<1> QED
  BY Zenon, <1>1, <1>2

-----------------------------------------------------------------------------
\* A save meets PV_ERR_EXISTS in automatic_backup only.
LEMMA ExistsStep ==
    ASSUME IInv, NEW o \in Procs, Start(o) \/ Step(o) \/ Kill(o),
           proc'[o].op = "save", proc'[o].status = "EXISTS"
    PROVE  /\ proc[o].pc = "backup" /\ proc[o].op = "save"
           /\ Exists(bdir.auto[AutoName(o)]) /\ ~SameBytes(o)
<1>0. proc \in [Procs -> ProcState] /\ CommandInv(o)
  BY Zenon DEF IInv, TypeOK, ProcInv
<1>1. proc[o].pc # "unlock" => proc[o].status # "EXISTS"
  BY Zenon, <1>0 DEF CommandInv, InstallInv
<1>2. \A l : Goto(o, l) => proc[o].pc = "unlock"
  BY Zenon, <1>1, GotoFields DEF IInv
<1>3. ASSUME NEW s, Refuse(o, s) \/ Fail(o, s) PROVE s = "EXISTS" /\ proc[o].op = "save"
  <2>1. proc' = [proc EXCEPT ![o].pc = "unlock", ![o].status = s]
    BY Zenon, <1>3 DEF Refuse, Fail, Return
  <2>2. proc'[o].status = s /\ proc'[o].op = proc[o].op
    BY ONLY Zenon, <1>0, <2>1, o \in Procs DEF ProcState
  <2> QED
    BY Zenon, <2>2
<1>4. /\ ~Fail(o, "IO") /\ ~Fail(o, "LOCKED") /\ ~Refuse(o, "LOCKED") /\ ~Fail(o, "DURABILITY")
      /\ ~Refuse(o, "DURABILITY") /\ ~Refuse(o, "IO") /\ ~Refuse(o, "LIMIT") /\ ~Refuse(o, "AUTH")
      /\ ~Refuse(o, "FORMAT")
  <2>1. \A s : s # "EXISTS" => ~Refuse(o, s) /\ ~Fail(o, s)
    BY Zenon, <1>3
  <2> QED
    BY Zenon, <2>1
<1>5. CASE Start(o) \/ Unlock(o) \/ Kill(o)
  <2>1. Idle.status = "none"
    BY Zenon DEF Idle
  <2>2. CASE Open(o)
    BY Zenon, <1>0, <2>2 DEF Open, Idle
  <2>3. CASE BeginCreate(o)
    BY Zenon, <1>0, <2>3 DEF BeginCreate, Idle
  <2>4. CASE ReadBackup(o)
    <3>1. PICK s \in placed :
            proc' = [proc EXCEPT ![o] = [Idle EXCEPT !.pc = "ready",
                                          !.op = "restore", !.new = s]]
      BY Zenon, <2>4 DEF ReadBackup
    <3> QED
      BY Zenon, <1>0, <3>1 DEF Idle
  <2>5. CASE Unlock(o) \/ Kill(o)
    <3>1. proc' = [proc EXCEPT ![o] = Idle]
      BY Zenon, <2>5 DEF Unlock, Kill
    <3> QED
      BY Zenon, <1>0, <2>1, <3>1
  <2> QED
    BY Zenon, <1>5, <2>2, <2>3, <2>4, <2>5 DEF Start
<1>6. CASE LockVault(o) \/ SyncBackup(o)
  BY Zenon, <1>2, <1>4, <1>6 DEF LockVault, SyncBackup
<1>7. CASE Check(o)
  <2>0. proc[o].pc = "check"
    BY Zenon, <1>7 DEF Check, CheckCreate, CheckSave, CheckRestore
  <2>1. ASSUME NEW info, NEW l, Encrypt(o, info, l) PROVE FALSE
    <3>1. proc' = [proc EXCEPT ![o].pc = l, ![o].new = used + 1]
      BY Zenon, <1>4, <2>1 DEF Encrypt
    <3>2. proc'[o].status = proc[o].status
      BY ONLY Zenon, <1>0, <3>1, o \in Procs DEF ProcState
    <3> QED
      BY Zenon, <1>1, <2>0, <3>2
  <2>2. CASE CheckCreate(o)
    BY Zenon, <1>3, <1>4, <2>1, <2>2 DEF CheckCreate
  <2>3. CASE CheckSave(o)
    BY Zenon, <1>4, <2>1, <2>3 DEF CheckSave
  <2>4. CASE CheckRestore(o)
    <3>1. ASSUME proc' = [proc EXCEPT ![o].pc = "mkdir", ![o].base = vdir.active.snap] PROVE FALSE
      <4>1. proc'[o].status = proc[o].status
        BY ONLY Zenon, <1>0, <3>1, o \in Procs DEF ProcState
      <4> QED
        BY Zenon, <1>1, <2>0, <4>1
    <3> QED
      BY Zenon, <1>2, <1>3, <1>4, <2>0, <2>4, <3>1 DEF CheckRestore
  <2> QED
    BY Zenon, <1>7, <2>2, <2>3, <2>4 DEF Check
<1>8. CASE MakeBackupsDir(o)
  <2>1. ASSUME proc' = [proc EXCEPT ![o].pc = "unlock", ![o].status = "IO"] PROVE FALSE
    <3>1. proc'[o].status = "IO"
      BY ONLY Zenon, <1>0, <2>1, o \in Procs DEF ProcState
    <3> QED
      BY Zenon, <3>1
  <2> QED
    BY Zenon, <1>2, <1>4, <1>8, <2>1 DEF MakeBackupsDir
<1>9. CASE PublishBackup(o)
  BY Zenon, <1>2, <1>4, <1>9 DEF PublishBackup, AutomaticBackup, PreRestoreCopy
<1>10. CASE WriteTemp(o)
  <2>1. proc[o].pc = "temp" /\ proc' = [proc EXCEPT ![o].pc = "rename", ![o].tmp = TmpFile(proc[o].new)]
    BY Zenon, <1>4, <1>10 DEF WriteTemp
  <2>2. proc'[o].status = proc[o].status
    BY ONLY Zenon, <1>0, <2>1, o \in Procs DEF ProcState
  <2> QED
    BY Zenon, <1>1, <2>1, <2>2
<1>11. CASE Rename(o)
  <2>1. proc[o].pc = "rename" /\ proc[o].base = 0 /\ proc[o].op = "save"
    BY Zenon, <1>2, <1>3, <1>4, <1>11 DEF Rename
  <2>2. proc[o].base \in 1..used
    BY Zenon, <1>0, <2>1 DEF CommandInv, SaveInv
  <2> QED
    BY <2>1, <2>2
<1>12. CASE SyncVaultDir(o) \/ Readback(o)
  <2>1. ASSUME proc' = [proc EXCEPT ![o].pc = "readback", ![o].warn = TRUE]
        PROVE  proc'[o].status = proc[o].status
    BY ONLY Zenon, <1>0, <2>1, o \in Procs DEF ProcState
  <2>2. ASSUME NEW l, proc' = [proc EXCEPT ![o].status = "OK", ![o].pc = l]
        PROVE  proc'[o].status = "OK"
    BY ONLY Zenon, <1>0, <2>2, o \in Procs DEF ProcState
  <2>3. CASE SyncVaultDir(o)
    BY Zenon, <1>1, <1>2, <2>1, <2>3 DEF SyncVaultDir
  <2>4. CASE Readback(o)
    BY Zenon, <1>4, <2>2, <2>4 DEF Readback
  <2> QED
    BY Zenon, <1>12, <2>3, <2>4
<1>13. CASE PruneScan(o) \/ PruneUnlink(o) \/ PruneSync(o)
  <2>1. ASSUME NEW v, proc' = [proc EXCEPT ![o].pc = "unlink", ![o].victims = v]
        PROVE  proc'[o].status = proc[o].status
    BY ONLY Zenon, <1>0, <2>1, o \in Procs DEF ProcState
  <2>2. ASSUME NEW g, NEW l, proc' = [proc EXCEPT ![o].victims = @ \ {g}, ![o].pc = l]
        PROVE  proc'[o].status = proc[o].status
    BY ONLY Zenon, <1>0, <2>2, o \in Procs DEF ProcState
  <2>3. CASE PruneScan(o)
    BY Zenon, <1>1, <1>2, <2>1, <2>3 DEF PruneScan
  <2>4. CASE PruneUnlink(o)
    <3>1. proc[o].pc # "unlock"
      BY Zenon, <2>4 DEF PruneUnlink
    <3>2. /\ ~Goto(o, IF proc[o].pc = "unlink" THEN "unlock" ELSE "prunesync")
          /\ proc'[o].status # proc[o].status
      BY Zenon, <1>1, <1>2, <3>1
    <3>3. PICK g \in proc[o].victims :
            proc' = [proc EXCEPT ![o].victims = @ \ {g},
                                 ![o].pc = IF proc[o].victims = {g} THEN "prunesync" ELSE "unlinked"]
      BY Zenon, <2>4, <3>2 DEF PruneUnlink
    <3> QED
      BY Zenon, <2>2, <3>2, <3>3
  <2> QED
    BY Zenon, <1>2, <1>13, <2>3, <2>4 DEF PruneSync
<1> QED
  BY Zenon, <1>5, <1>6, <1>7, <1>8, <1>9, <1>10, <1>11, <1>12, <1>13 DEF Step

LEMMA CollisionStep ==
    ASSUME IInv, LineInv, NEW o \in Procs, Start(o) \/ Step(o) \/ Kill(o)
    PROVE  CollisionNeedsBranch'
<1>0. restored # {} \/ rolledBack => restored' # {} \/ rolledBack'
  <2> USE DEF Refuse, Fail, Return, hist
  <2>1. CASE Rename(o)
    <3>1. restored \subseteq restored' /\ UNCHANGED rolledBack
      BY Zenon, <2>1 DEF Rename
    <3> QED
      BY Zenon, <3>1
  <2>2. CASE ~Rename(o)
    <3>1. CASE Start(o) \/ Kill(o) \/ LockVault(o) \/ Unlock(o)
      BY Zenon, <3>1 DEF Start, Open, BeginCreate, ReadBackup, Kill, LockVault, Unlock
    <3>2. CASE Check(o)
      BY Zenon, ZenonT(30), <3>2 DEF Check, CheckCreate, CheckSave, CheckRestore, Encrypt
    <3>3. CASE MakeBackupsDir(o) \/ PublishBackup(o) \/ SyncBackup(o)
      BY Zenon, <3>3 DEF MakeBackupsDir, PublishBackup, AutomaticBackup, PreRestoreCopy, SyncBackup
    <3>4. CASE WriteTemp(o) \/ SyncVaultDir(o) \/ Readback(o)
      BY Zenon, <3>4 DEF WriteTemp, SyncVaultDir, Readback
    <3>5. CASE PruneScan(o) \/ PruneUnlink(o) \/ PruneSync(o)
      BY Zenon, <3>5 DEF PruneScan, PruneUnlink, PruneSync
    <3> QED
      BY Zenon, <2>2, <3>1, <3>2, <3>3, <3>4, <3>5 DEF Step
  <2> QED
    BY Zenon, <2>1, <2>2
<1>1. ASSUME NEW p \in Procs \ {o}, proc'[p].op = "save", proc'[p].status = "EXISTS"
      PROVE  restored' # {} \/ rolledBack'
  <2>1. proc'[p] = proc[p]
    BY Zenon, OwnLocals
  <2> QED
    BY Zenon, <1>0, <1>1, <2>1 DEF LineInv, CollisionNeedsBranch
<1>2. ASSUME proc'[o].op = "save", proc'[o].status = "EXISTS"
      PROVE  restored # {} \/ rolledBack
  <2> DEFINE n == AutoName(o)
             s == bdir.auto[n].snap
             a == vdir.active.snap
  <2>1. /\ proc[o].pc = "backup" /\ proc[o].op = "save" /\ CommandInv(o)
        /\ Exists(bdir.auto[n]) /\ s # proc[o].base
    BY Zenon, <1>2, ExistsStep DEF SameBytes, IInv, ProcInv
  <2>2. proc[o].base \in 1..used /\ a = proc[o].base
    BY Zenon, <2>1 DEF CommandInv, SaveInv, BeforeRename
  <2>3. n \in Names /\ n = <<snap[a].vault, snap[a].gen>>
    BY Zenon, <2>2, AutoNameType DEF AutoName
  <2>4. Holds(n, s)
    <3>1. bdir \in bdirDisk /\ bdir.auto[n].synced /\ bdir.auto[n] \in File
      BY <2>3 DEF IInv, FilesInv, TypeOK, BackupsDir
    <3>2. s # 0
      BY Zenon, <2>1, <3>1 DEF Exists, NoFile, File
    <3> QED
      BY Zenon, <3>1, <3>2 DEF Holds
  <2>5. n = <<snap[s].vault, snap[s].gen>>
    BY Zenon, <2>3, <2>4 DEF LineInv, Named
  <2>6. Readable(vdir.active) /\ snap[a].gen \in Nat
    BY <2>2, BoundsAssumption DEF Readable, Ids, IInv, TypeOK, TableInv, Gens
  <2> HIDE DEF n, s, a
  <2>7. snap[s].vault = snap[a].vault /\ snap[s].gen = snap[a].gen
    BY <2>3, <2>5
  <2>8. ~(snap[s].gen < snap[a].gen)
    BY <2>6, <2>7
  <2> QED
    BY Zenon, <2>1, <2>2, <2>3, <2>4, <2>6, <2>7, <2>8 DEF LineInv, Straight, a
<1> QED
  BY Zenon, <1>0, <1>1, <1>2 DEF CollisionNeedsBranch

LEMMA NextLine == IInv /\ FreshInv /\ LineInv /\ [Next]_vars => LineInv'
<1> SUFFICES ASSUME IInv, FreshInv, LineInv, [Next]_vars PROVE LineInv'
  BY Zenon
<1>1. CASE UNCHANGED vars
  BY Zenon, <1>1 DEF vars, table, vault, backups, hist, LineInv, Named, Straight, Numbered,
     CollisionNeedsBranch, Holds, Creating
<1>2. ASSUME NEW o \in Procs, Start(o) \/ Step(o) \/ Kill(o) PROVE LineInv'
  <2>1. Numbered' /\ CollisionNeedsBranch'
    BY Zenon, <1>2, NumberedStep, CollisionStep DEF LineInv
  <2>2. Named' /\ Straight'
    BY Zenon, <1>2, LineOtherSteps, LinePublish, LineRename DEF LineInv
  <2> QED
    BY Zenon, <2>1, <2>2 DEF LineInv
<1>3. CASE RemoveActive \/ PlaceAlien \/ Crash
  <2>1. Named' /\ Straight'
    BY Zenon, <1>3, LineSurroundings DEF LineInv
  <2>2. /\ UNCHANGED <<snap, used, restored>>
        /\ rolledBack' = rolledBack \/ rolledBack' = (rolledBack \/ vdir'.active # vdir.active)
    BY Zenon, <1>3 DEF RemoveActive, PlaceAlien, Crash, table, hist
  <2>3. rolledBack => rolledBack'
    BY Zenon, <2>2
  <2>4. UNCHANGED proc \/ \A p \in Procs : proc'[p] = Idle
    BY Zenon, <1>3 DEF RemoveActive, PlaceAlien, Crash
  <2>5. Idle.op = "none"
    BY Zenon DEF Idle
  <2>6. Numbered' /\ CollisionNeedsBranch'
    BY Zenon, <2>2, <2>4, <2>5, <2>3 DEF LineInv, Numbered, Creating, CollisionNeedsBranch
  <2> QED
    BY Zenon, <2>1, <2>6 DEF LineInv
<1> QED
  BY Zenon, <1>1, <1>2, <1>3 DEF Next

\* A save is refused with PV_ERR_EXISTS by automatic_backup only after a restore or
\* a power loss that undid a rename: without them no two snapshots of a vault have
\* the same generation under the same backup name.
THEOREM CollisionNeedsBranchHolds == Spec => []CollisionNeedsBranch
<1>1. Init => FreshInv /\ LineInv
  <2> SUFFICES ASSUME Init PROVE FreshInv /\ LineInv
    BY Zenon
  <2>1. FreshInv
    BY Zenon, InitFresh
  <2>2. \A n \in Names : \A s : ~Holds(n, s)
    <3>1. \A n \in Names : EmptyBackups.auto[n].snap = 0
      BY Zenon DEF EmptyBackups, NoFile
    <3> QED
      BY Zenon, <3>1 DEF Init, Holds
  <2>3. Named /\ Straight
    BY Zenon, <2>2 DEF Named, Straight
  <2>4. \A p \in Procs : proc[p].op = "none"
    BY Zenon DEF Init, Idle
  <2>5. Numbered /\ CollisionNeedsBranch
    BY <2>4 DEF Init, Numbered, Creating, CollisionNeedsBranch
  <2> QED
    BY Zenon, <2>1, <2>3, <2>5 DEF LineInv
<1>2. LineInv => CollisionNeedsBranch
  BY Zenon DEF LineInv
<1> QED
  BY <1>1, <1>2, NextFresh, NextLine, Invariance, PTL DEF Spec
=============================================================================
