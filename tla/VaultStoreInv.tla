---------------------------- MODULE VaultStoreInv ----------------------------
(***************************************************************************)
(* The inductive invariant of VaultStore: what is true at each step of a   *)
(* command, so that the properties of VaultStore follow.                   *)
(***************************************************************************)
EXTENDS VaultStore

LockedPCs == PCs \ {"idle", "ready", "unlock"}
BeforeRename == {"mkdir", "backup", "bksync", "temp", "rename"}
AfterRename == {"sync", "readback", "prune", "unlink", "unlinked", "prunesync"}
Pruning == {"prune", "unlink", "unlinked", "prunesync"}

\* A snapshot made by a save is the next generation of the one it replaced.
TableInv ==
    \A i \in 1..used :
        LET s == snap[i] IN
        /\ s.vault \in 1..used
        /\ s.gen \in Gens
        /\ s.base \in 0..used
        /\ s.base # 0 => /\ s.vault = snap[s.base].vault
                         /\ s.gen = snap[s.base].gen + 1

\* Everything a process sees or a crash may leave was fsynced and is a snapshot
\* that exists; backups need their directory.
FilesInv ==
    /\ vdir \in vdirDisk
    /\ bdir \in bdirDisk
    /\ \A d \in vdirDisk :
        /\ d.active.synced
        /\ d.active.snap \in (0..used) \cup {MaxSnap + 1}
    /\ \A e \in bdirDisk :
        /\ \A n \in Names : e.auto[n].synced /\ e.auto[n].snap \in 0..used
        /\ \A f \in e.pre : f.synced /\ f.snap \in 1..used
    /\ ~vdir.backups => bdir = EmptyBackups

\* The lock is held from the check to the unlock.
LockInv ==
    \A p \in Procs :
        /\ proc[p].pc \in LockedPCs => lock = p
        /\ proc[p].pc = "unlock" /\ proc[p].status = "OK" => lock = p

\* A command knows what it replaces and what it installs.
SaveInv(p) ==
    LET q == proc[p] IN
    /\ q.op = "save" /\ q.pc # "idle" => q.base \in 1..used
    /\ q.op = "save" /\ q.pc \in BeforeRename => vdir.active.snap = q.base
    /\ q.op = "save" /\ q.pc \in BeforeRename \cup AfterRename =>
        /\ q.new \in 1..used
        /\ snap[q.new].base = q.base
    /\ q.pc \in Pruning => q.op = "save"

RestoreInv(p) ==
    LET q == proc[p] IN
    q.op = "restore" /\ q.pc # "idle" =>
        /\ q.new \in 1..used
        /\ q.pc \in BeforeRename /\ q.base # 0 => vdir.active.snap = q.base
        /\ q.pc \in {"mkdir", "backup", "bksync"} => q.base \in 1..used
        /\ q.pc \in {"temp", "rename"} => q.base \in 0..used
        /\ q.pc \in {"ready", "check"} => q.base = 0

CreateInv(p) ==
    LET q == proc[p] IN
    q.op = "create" =>
        /\ q.base = 0
        /\ q.pc \notin {"mkdir", "backup", "bksync"}
        /\ q.pc \in {"temp", "rename", "sync", "readback"} =>
            q.new \in 1..used /\ snap[q.new].base = 0

\* What it replaces is preserved first.
BackupInv(p) ==
    LET q == proc[p] IN
    /\ q.pc \in {"backup", "bksync"} => vdir.backups
    /\ q.op = "save" /\ q.pc \in {"temp", "rename"} \cup AfterRename => vdir.backups
    /\ q.op = "save" /\ q.pc = "bksync" => bdir.auto[AutoName(p)].snap = q.base
    /\ q.op = "save" /\ q.pc \in {"temp", "rename"} =>
        \A e \in bdirDisk : e.auto[AutoName(p)].snap = q.base
    /\ q.op = "restore" /\ q.pc = "bksync" => TmpFile(q.base) \in bdir.pre
    /\ q.op = "restore" /\ q.base # 0 /\ q.pc \in {"temp", "rename"} =>
        \A e \in bdirDisk : TmpFile(q.base) \in e.pre

\* What it installs is what it made, and PV_OK means it is on the disk.
InstallInv(p) ==
    LET q == proc[p] IN
    /\ q.pc = "idle" => q = Idle
    /\ q.pc # "idle" => q.op # "none"
    /\ q.pc = "rename" => q.tmp = TmpFile(q.new)
    /\ q.pc \in AfterRename => vdir.active.snap = q.new /\ q.new # 0
    /\ q.pc \notin Pruning \cup {"unlock"} => q.status = "none"
    /\ q.pc \in Pruning => q.status = "OK"
    /\ \/ q.pc = "readback" /\ ~q.warn
       \/ q.status = "OK"
       => vdirDisk = {vdir} /\ vdir.active.snap = q.new /\ q.new # 0
    /\ q.pc \in {"unlink", "unlinked"} => \A g \in q.victims : g < snap[q.base].gen

CommandInv(p) ==
    /\ SaveInv(p)
    /\ RestoreInv(p)
    /\ CreateInv(p)
    /\ BackupInv(p)
    /\ InstallInv(p)

ProcInv == \A p \in Procs : CommandInv(p)

\* The inductive invariant: whoever is past lock_vault is alone there, what it has
\* checked under the flock stays true until its rename, what it replaces is
\* already preserved and fsynced by then, and a PV_OK is given only for a snapshot
\* that no crash can take back.
IInv ==
    /\ TypeOK
    /\ TableInv
    /\ FilesInv
    /\ LockInv
    /\ ProcInv
    /\ AckedSurvives
=============================================================================
