-------------------------- MODULE CredentialsProofs --------------------------
(***************************************************************************)
(* Proofs about Credentials, for any number of processes, snapshots,       *)
(* credentials, paths and events.  The inductive invariant says what each  *)
(* command holds of the credentials, what it has done to its recovery file *)
(* and to the vault, and that a credential it has made is nowhere else     *)
(* until its header is in place; each step of a command, of the user and   *)
(* of the machine keeps it.  Hence the vault can always be opened, what    *)
(* was replaced stays replaced, the recovery key is kept, and the vault is *)
(* used as SnapshotRegister allows.                                        *)
(***************************************************************************)
EXTENDS Credentials, TLAPS

FilePCs == {"encode", "parent", "open", "write", "datasync", "dirsync", "undo", "undosync"}
PCs == FilePCs \cup {"idle", "lock", "check", "install", "confirm", "unlock", "unlink", "report"}
Cmds == {"init", "passwd", "rotate", "restore", "edit"}

Slots == [vault : 0..MaxSnap, pwd : 0..MaxCreds, rec : 0..MaxCreds]
Command == [pc : PCs, cmd : Cmds \cup {"none"}, pwd : 0..MaxCreds, key : 0..MaxCreds,
            out : Paths \cup {NoProc}, slots : Slots, new : 0..MaxSnap,
            status : {"none", "OK", "DURABILITY", "ERROR"}, created : BOOLEAN]
Client == [want : {"none", "create", "save", "restore"}, of : 0..MaxSnap]
Entries == [Paths -> 0..MaxCreds]

Types ==
    /\ parent \in [Ids -> 0..MaxSnap] /\ issued \in 0..MaxSnap
    /\ cur \in 0..issued /\ cur \in may /\ may \subseteq 0..issued
    /\ client \in [Procs -> Client] /\ slot \in [Ids -> Slots]
    /\ recDir \in Entries /\ recDisk \subseteq Entries
    /\ data \in [Creds -> {"empty", "written", "synced"}]
    /\ proc \in [Procs -> Command]
    /\ drawn \in 0..MaxCreds /\ events \in 0..MaxEvents
    /\ memory \subseteq 1..drawn /\ obsolete \subseteq 1..drawn
    /\ oldPwds \subseteq 1..drawn /\ oldKeys \subseteq 1..drawn /\ initial \subseteq 1..drawn
    /\ rolled \in BOOLEAN /\ lost \in BOOLEAN

Installed(s) == slot[s] # NoSlots

\* The snapshots: every one a crash may show has been installed, and has slots.
Snapshots ==
    /\ \A s \in Ids : Installed(s) => s <= issued /\ slot[s].pwd \in 1..drawn /\ slot[s].rec \in 1..drawn
    /\ \A s \in Shown : Installed(s)
    /\ cur = 0 => may = {0}

\* A command that has not put its header in place.
Fresh(r) ==
    \/ r.pc \in {"lock", "check", "install"}
    \/ r.pc = "unlock" /\ r.status = "ERROR"
    \/ r.cmd = "rotate" /\ r.pc \in FilePCs \cup {"unlink", "report"}

\* A command between the rename and the end of its lock.
Placed(r) == r.pc = "confirm" \/ (r.pc = "unlock" /\ r.status \in Committed)

Locked == \A p \in Procs :
    proc[p].pc \in {"check", "install"} \/ Placed(proc[p]) => lock = p

\* What a command holds of the credentials, by its kind.
Holds(p) ==
    LET r == proc[p]  c == client[p] IN
    /\ r.cmd \in Cmds
    /\ r.slots.pwd \in 1..drawn /\ r.slots.rec \in 1..drawn /\ r.slots.pwd \in memory
    /\ r.cmd = "init" =>
          c = [want |-> "create", of |-> 0] /\ r.pwd = r.slots.pwd /\ r.key = r.slots.rec
          /\ r.key \in initial /\ r.out \in Paths
    /\ r.cmd \in {"passwd", "rotate", "edit"} => c.want = "save" /\ c.of \in Ids /\ Installed(c.of)
    /\ r.cmd = "passwd" => r.pwd = r.slots.pwd /\ r.slots.rec = slot[c.of].rec
                           /\ r.pwd # slot[c.of].pwd
    /\ r.cmd = "rotate" => r.key = r.slots.rec /\ r.slots.pwd = slot[c.of].pwd
                           /\ r.key # slot[c.of].rec /\ r.out \in Paths
    /\ r.cmd = "edit" => r.slots.pwd = slot[c.of].pwd /\ r.slots.rec = slot[c.of].rec
    /\ r.cmd = "restore" => c = [want |-> "restore", of |-> r.new]
                            /\ r.new \in Ids /\ Installed(r.new) /\ r.slots = slot[r.new]

\* Where the file of key k is, whatever a crash leaves.
FileAt(k, x) == data[k] = "synced" /\ \A d \in recDisk \cup {recDir} : d[x] = k

\* What a command has done to the recovery file.
Writes(r) ==
    /\ r.pc \in FilePCs \cup {"report", "unlink"} => r.cmd \in {"init", "rotate"}
    /\ r.pc \in {"write", "datasync", "dirsync", "undo", "unlink"} => recDir[r.out] = r.key
    /\ r.pc = "dirsync" => data[r.key] = "synced"
    /\ r.cmd = "rotate" /\ r.pc \in {"lock", "check", "install", "confirm", "unlock"} =>
          FileAt(r.key, r.out)
    /\ r.cmd = "init" /\ r.created => r.pc = "report" /\ FileAt(r.key, r.out)

\* What a command has done to the vault.
Saves(p) ==
    LET r == proc[p] IN
    /\ r.pc = "install" /\ r.cmd # "restore" =>
          /\ r.new = issued /\ r.new \in Ids /\ ~Installed(r.new)
          /\ client[p].of = cur /\ parent[r.new] = cur
    /\ r.pc = "unlock" => r.status \in Committed \cup {"ERROR"}
    /\ Placed(r) =>
          /\ cur = r.new /\ r.new \in Ids /\ slot[r.new] = r.slots
          /\ r.pc = "unlock" /\ r.status = "OK" => may = {cur}

Commands == \A p \in Procs :
    /\ proc[p].pc = "idle" => proc[p] = Idle /\ client[p] = NoClient
    /\ proc[p].pc # "idle" => Holds(p) /\ Writes(proc[p]) /\ Saves(p)

\* A password or a key is nowhere else until its command has installed it.
NewPwd(r) == Fresh(r) /\ r.cmd \in {"init", "passwd"}
NewKey(r) == Fresh(r) /\ r.cmd \in {"init", "rotate"}
Private == \A p \in Procs :
    /\ NewPwd(proc[p]) =>
          /\ \A s \in Ids : slot[s].pwd # proc[p].pwd
          /\ \A q \in Procs \ {p} : proc[q].slots.pwd # proc[p].pwd
          /\ proc[p].pwd \notin oldPwds
    /\ NewKey(proc[p]) =>
          /\ \A s \in Ids : slot[s].rec # proc[p].key
          /\ \A q \in Procs \ {p} : proc[q].slots.rec # proc[p].key
          /\ proc[p].key \notin oldKeys
    /\ proc[p].key <= drawn
    /\ \A q \in Procs \ {p} : proc[p].key # 0 => proc[q].key # proc[p].key

Kept == \A s \in Ids : Installed(s) =>
    KeyFileHeld(slot[s].rec) \/ slot[s].rec \in initial \/ slot[s].rec \in oldKeys

Openable == \A s \in Shown :
    \/ slot[s].pwd \in memory
    \/ lost /\ KeyFileHeld(slot[s].rec) /\ slot[s].rec \notin oldKeys \cup initial

\* No password in the vault may be forgotten, but while the command that changes it
\* has not reported.
Remembered ==
    /\ \/ \E p \in Procs : Placed(proc[p]) /\ proc[p].cmd \in {"passwd", "restore"}
       \/ \A s \in Shown : slot[s].pwd \notin obsolete
    /\ cur = 0 => \A p \in Procs : Fresh(proc[p]) /\ proc[p].cmd = "init" => proc[p].pwd \notin obsolete

IInv == Types /\ Snapshots /\ Locked /\ Commands /\ Private /\ Kept /\ Openable
        /\ Remembered /\ ReplacedStaysReplaced

-----------------------------------------------------------------------------
(***************************************************************************)
(* The records.                                                            *)
(***************************************************************************)
LEMMA PcTyped ==
    ASSUME NEW r \in Command, NEW l \in PCs
    PROVE  [r EXCEPT !.pc = l] \in Command
BY Zenon DEF Command

LEMMA StatusTyped ==
    ASSUME NEW r \in Command, NEW l \in PCs, NEW st \in {"none", "OK", "DURABILITY", "ERROR"}
    PROVE  [r EXCEPT !.pc = l, !.status = st] \in Command
BY Zenon DEF Command

LEMMA CreatedTyped ==
    ASSUME NEW r \in Command, NEW l \in PCs
    PROVE  [r EXCEPT !.created = TRUE, !.pc = l] \in Command
BY Zenon DEF Command

LEMMA NewTyped ==
    ASSUME NEW r \in Command, NEW l \in PCs, NEW n \in 0..MaxSnap, NEW v \in 0..MaxSnap
    PROVE  [r EXCEPT !.pc = l, !.new = n, !.slots.vault = v] \in Command
<1>1. [r.slots EXCEPT !.vault = v] \in Slots
    BY Zenon DEF Command, Slots
<1> QED BY Zenon, <1>1 DEF Command

\* What a step of p leaves alone in its record, and in those of the others.
Alone(p) == \A q \in Procs \ {p} : proc'[q] = proc[q]
Same(p) ==
    /\ proc'[p].cmd = proc[p].cmd /\ proc'[p].pwd = proc[p].pwd /\ proc'[p].key = proc[p].key
    /\ proc'[p].out = proc[p].out /\ proc'[p].slots = proc[p].slots
    /\ proc'[p].new = proc[p].new

LEMMA GotoEffect ==
    ASSUME Types, NEW p \in Procs, NEW l \in PCs, Goto(p, l)
    PROVE  /\ proc' \in [Procs -> Command] /\ Alone(p) /\ Same(p)
           /\ proc'[p].pc = l /\ proc'[p].status = proc[p].status
           /\ proc'[p].created = proc[p].created
<1>1. proc \in [Procs -> Command] /\ proc[p] \in Command
    BY Zenon DEF Types
<1>2. proc' = [proc EXCEPT ![p] = [proc[p] EXCEPT !.pc = l]]
    BY Zenon DEF Goto
<1>3. [proc[p] EXCEPT !.pc = l] \in Command
    BY Zenon, <1>1, PcTyped
<1>4. proc' \in [Procs -> Command] /\ Alone(p) /\ proc'[p] = [proc[p] EXCEPT !.pc = l]
    BY Zenon, <1>1, <1>2, <1>3 DEF Alone
<1> QED BY Zenon, <1>1, <1>4 DEF Command, Same

LEMMA StatusEffect ==
    ASSUME Types, NEW p \in Procs, NEW l \in PCs, NEW st \in {"none", "OK", "DURABILITY", "ERROR"},
           proc' = [proc EXCEPT ![p].pc = l, ![p].status = st]
    PROVE  /\ proc' \in [Procs -> Command] /\ Alone(p) /\ Same(p)
           /\ proc'[p].pc = l /\ proc'[p].status = st
           /\ proc'[p].created = proc[p].created
<1>1. proc \in [Procs -> Command] /\ proc[p] \in Command
    BY Zenon DEF Types
<1>2. proc' = [proc EXCEPT ![p] = [proc[p] EXCEPT !.pc = l, !.status = st]]
    BY Zenon, <1>1
<1>3. [proc[p] EXCEPT !.pc = l, !.status = st] \in Command
    BY Zenon, <1>1, StatusTyped
<1>4. /\ proc' \in [Procs -> Command] /\ Alone(p)
      /\ proc'[p] = [proc[p] EXCEPT !.pc = l, !.status = st]
    BY Zenon, <1>1, <1>2, <1>3 DEF Alone
<1> QED BY Zenon, <1>1, <1>4 DEF Command, Same

LEMMA FailEffect ==
    ASSUME Types, NEW p \in Procs, NEW l \in PCs, Fail(p, l)
    PROVE  /\ proc' \in [Procs -> Command] /\ Alone(p) /\ Same(p)
           /\ proc'[p].pc = l /\ proc'[p].status = "ERROR"
           /\ proc'[p].created = proc[p].created
BY Zenon, StatusEffect DEF Fail

-----------------------------------------------------------------------------
(***************************************************************************)
(* The recovery file.                                                      *)
(***************************************************************************)

\* Every file but that of key k is left as it is.
OtherFiles(k) ==
    \A j \in Creds \ {k} :
        /\ KeyFileHeld(j) => KeyFileHeld(j)'
        /\ data[j] = "synced" => data'[j] = "synced"
        /\ \A x \in Paths : recDir[x] = j => recDir'[x] = j
        /\ \A x \in Paths : FileAt(j, x) => FileAt(j, x)'

LEMMA EventBound == Types /\ (Event \/ UNCHANGED events) => events' \in 0..MaxEvents
BY CredentialsAssumption DEF Types, Event

LEMMA CredsBound == ASSUME Types, NEW c \in 1..drawn PROVE c \in Creds /\ c # 0
BY CredentialsAssumption DEF Types, Creds

LEMMA Parts == IInv => /\ Types /\ Snapshots /\ Locked /\ Commands /\ Private /\ Kept
                       /\ Openable /\ Remembered /\ ReplacedStaysReplaced
BY Zenon DEF IInv

LEMMA ShownInstalled == ASSUME IInv, NEW s \in Shown PROVE s \in Ids /\ Installed(s)
<1>1. s \in 0..issued /\ s # 0
    BY Zenon, Parts DEF Shown, Types
<1>2. issued \in 0..MaxSnap /\ MaxSnap \in Nat
    BY Zenon, CredentialsAssumption, Parts DEF Types
<1>3. s \in Ids
    BY <1>1, <1>2 DEF Ids
<1> QED BY Zenon, <1>3 DEF IInv, Snapshots

\* A command that does not move keeps its part, while what it is about is left alone.
LEMMA KeepsHolding ==
    ASSUME IInv, NEW q \in Procs, proc[q].pc # "idle", proc'[q] = proc[q], client' = client,
           slot' = slot, drawn' = drawn, memory' = memory, initial' = initial
    PROVE  Holds(q)'
<1>1. Holds(q)
    BY Zenon, Parts DEF Commands
<1> QED BY Zenon, <1>1 DEF Holds, Installed

LEMMA KeepsWriting ==
    ASSUME IInv, NEW q \in Procs, proc[q].pc # "idle", proc'[q] = proc[q],
           recDir' = recDir, recDisk' = recDisk, data' = data
    PROVE  Writes(proc[q])'
<1>1. Writes(proc[q])
    BY Zenon, Parts DEF Commands
<1> QED BY Zenon, <1>1 DEF Writes, FileAt

LEMMA KeepsSaving ==
    ASSUME IInv, NEW q \in Procs, proc[q].pc # "idle", proc'[q] = proc[q], client' = client,
           slot' = slot, issued' = issued, cur' = cur, may' = may, parent' = parent
    PROVE  Saves(q)'
<1>1. Saves(q)
    BY Zenon, Parts DEF Commands
<1> QED BY Zenon, <1>1 DEF Saves, Placed, Installed

\* A command that writes a recovery file has a key and a path.
LEMMA Writer ==
    ASSUME IInv, NEW p \in Procs, proc[p].pc # "idle", proc[p].cmd \in {"init", "rotate"}
    PROVE  /\ proc[p].key \in Creds /\ proc[p].key # 0 /\ proc[p].out \in Paths
           /\ proc[p].key = proc[p].slots.rec
<1>1. Holds(p)
    BY Zenon, Parts DEF Commands
<1>2. proc[p].key = proc[p].slots.rec /\ proc[p].key \in 1..drawn /\ proc[p].out \in Paths
    BY Zenon, <1>1 DEF Holds
<1> QED BY Zenon, <1>2, CredsBound DEF IInv

\* The other commands' files survive what is done to the file of p.
LEMMA OthersKeepFiles ==
    ASSUME IInv, NEW p \in Procs, Alone(p), OtherFiles(proc[p].key), NEW q \in Procs \ {p},
           proc[q].pc # "idle", proc[p].key # 0
    PROVE  Writes(proc[q])'
<1>1. proc'[q] = proc[q]
    BY Zenon DEF Alone
<1>2. Writes(proc[q])
    BY Zenon, Parts DEF Commands
<1>3. proc[q].key # proc[p].key
    BY Zenon, Parts DEF Private
<1>4. proc[q].cmd \in {"init", "rotate"} => proc[q].key \in Creds /\ proc[q].out \in Paths
    BY Zenon, Writer
<1>5. proc[q].cmd \in {"init", "rotate"} =>
        /\ data[proc[q].key] = "synced" => data'[proc[q].key] = "synced"
        /\ recDir[proc[q].out] = proc[q].key => recDir'[proc[q].out] = proc[q].key
        /\ FileAt(proc[q].key, proc[q].out) => FileAt(proc[q].key, proc[q].out)'
    BY <1>1, <1>3, <1>4 DEF OtherFiles, FileAt
<1> QED BY Zenon, <1>1, <1>2, <1>5 DEF Writes, FilePCs, FileAt

\* What a step on the recovery file leaves alone.
RestStays == UNCHANGED <<register, slot, lock, drawn, user>>

\* A step of p on its recovery file.
LEMMA FileStep ==
    ASSUME IInv, NEW p \in Procs, proc[p].pc \in FilePCs \cup {"unlink"},
           proc' \in [Procs -> Command], Alone(p), Same(p),
           proc'[p].pc \in FilePCs \cup {"unlink", "report", "lock"},
           proc'[p].pc \in {"unlink", "lock"} => proc[p].cmd = "rotate",
           Writes(proc[p])', OtherFiles(proc[p].key), RestStays,
           recDir' \in Entries, recDisk' \subseteq Entries,
           data' \in [Creds -> {"empty", "written", "synced"}], events' \in 0..MaxEvents
    PROVE  IInv'
<1>1. /\ UNCHANGED <<parent, issued, cur, may, client>> /\ UNCHANGED <<slot, lock, drawn>>
      /\ UNCHANGED <<memory, obsolete, oldPwds, oldKeys>> /\ UNCHANGED <<initial, rolled, lost>>
    BY Zenon DEF RestStays, register, vaultFile, user, replaced
<1>2. proc[p].pc # "idle" /\ proc[p].cmd \in {"init", "rotate"}
    BY Zenon, Parts DEF Commands, Writes, FilePCs
<1>3. proc[p].key \in Creds /\ proc[p].key # 0
    BY Zenon, <1>2, Writer
<1>4. Types'
    BY Zenon, <1>1, Parts DEF Types
<1>5. Snapshots' /\ ReplacedStaysReplaced'
    BY Zenon, <1>1, Parts DEF Snapshots, ReplacedStaysReplaced, Shown, Installed
<1>6. proc'[p].pc \notin {"idle", "check", "install", "confirm", "unlock"}
    BY Zenon DEF FilePCs
<1>7. Locked'
    BY Zenon, <1>1, <1>6, Parts DEF Locked, Placed, Alone
<1>8. Commands'
  <2> SUFFICES ASSUME NEW q \in Procs
               PROVE  /\ proc'[q].pc = "idle" => proc'[q] = Idle /\ client'[q] = NoClient
                      /\ proc'[q].pc # "idle" => Holds(q)' /\ Writes(proc[q])' /\ Saves(q)'
      BY Zenon DEF Commands
  <2>1. CASE q = p
    <3>1. Holds(p)'
        BY <1>1, <1>2, Parts DEF Commands, Holds, Same, Installed
    <3>2. Saves(p)'
        BY Zenon, <1>6 DEF Saves, Placed
    <3> QED BY Zenon, <1>6, <2>1, <3>1, <3>2
  <2>2. CASE q # p
    <3>1. proc'[q] = proc[q]
        BY Zenon, <2>2 DEF Alone
    <3>2. proc[q].pc # "idle" => Writes(proc[q])'
        BY Zenon, <1>3, <2>2, OthersKeepFiles
    <3>3. proc[q].pc # "idle" => Holds(q)' /\ Saves(q)'
        BY Zenon, <1>1, <3>1, KeepsHolding, KeepsSaving
    <3> QED BY Zenon, <1>1, <3>1, <3>2, <3>3, Parts DEF Commands
  <2> QED BY Zenon, <2>1, <2>2
<1>9. ASSUME NEW q \in Procs
      PROVE  /\ Fresh(proc'[q]) => Fresh(proc[q])
             /\ proc'[q].cmd = proc[q].cmd /\ proc'[q].pwd = proc[q].pwd /\ proc'[q].key = proc[q].key
             /\ proc'[q].slots = proc[q].slots
  <2>1. CASE q = p
      BY Zenon, <1>2, <1>6, <2>1 DEF Fresh, Same, FilePCs
  <2>2. CASE q # p
      BY Zenon, <2>2 DEF Alone
  <2> QED BY Zenon, <2>1, <2>2
<1>10. Private'
    BY <1>1, <1>9, Parts DEF Private, NewPwd, NewKey
<1>11. \A s \in Ids : Installed(s) /\ slot[s].rec = proc[p].key => slot[s].rec \in initial
  <2>1. CASE proc[p].cmd = "init"
      BY Zenon, <1>2, <2>1, Parts DEF Commands, Holds
  <2>2. CASE proc[p].cmd = "rotate"
      BY Zenon, <2>2, Parts DEF Private, NewKey, Fresh
  <2> QED BY Zenon, <1>2, <2>1, <2>2
<1>12. \A s \in Ids : Installed(s) => slot[s].rec \in Creds
    BY Zenon, CredsBound, Parts DEF Snapshots
<1>13. ASSUME NEW s \in Ids, Installed(s), KeyFileHeld(slot[s].rec), slot[s].rec \notin initial
       PROVE  KeyFileHeld(slot[s].rec)'
    BY <1>1, <1>11, <1>12, <1>13 DEF OtherFiles, KeyFileHeld
<1>14. Kept'
    BY Zenon, <1>1, <1>13, Parts DEF Kept, Installed
<1>15. Openable'
  <2>1. \A s \in Shown : s \in Ids /\ Installed(s)
      BY Zenon, ShownInstalled
  <2> QED BY Zenon, <1>1, <1>13, <2>1, Parts DEF Openable, Shown
<1>16. Remembered'
  <2>1. \A q \in Procs : Placed(proc[q]) => q # p
      BY Zenon DEF Placed, FilePCs
  <2>2. \A q \in Procs : Placed(proc[q]) => proc'[q] = proc[q]
      BY Zenon, <2>1 DEF Alone
  <2> QED BY Zenon, <1>1, <1>9, <2>2, Parts DEF Remembered, Shown
<1> QED BY Zenon, <1>4, <1>5, <1>7, <1>8, <1>10, <1>14, <1>15, <1>16 DEF IInv

\* Adding to the directory leaves the files that are in it.
LEMMA DirGrows ==
    ASSUME IInv, NEW x \in Paths, NEW k \in 0..MaxCreds, NEW o \in 0..MaxCreds, recDir[x] = o,
           ChangeRecDir([recDir EXCEPT ![x] = k]), UNCHANGED data,
           NEW j \in Creds, j # o, j # k
    PROVE  /\ KeyFileHeld(j) => KeyFileHeld(j)'
           /\ \A y \in Paths : recDir[y] = j => recDir'[y] = j
           /\ \A y \in Paths : FileAt(j, y) => FileAt(j, y)'
<1>1. recDir \in Entries /\ recDir' = [recDir EXCEPT ![x] = k] /\ recDisk' = recDisk \cup {recDir'}
    BY Zenon, Parts DEF Types, ChangeRecDir
<1>2. \A y \in Paths : recDir[y] = j => recDir'[y] = j
    BY Zenon, <1>1 DEF Entries
<1>3. ASSUME KeyFileHeld(j) PROVE KeyFileHeld(j)'
  <2>1. \E y \in Paths : recDir'[y] = j
      BY Zenon, <1>2, <1>3 DEF KeyFileHeld
  <2>2. \A d \in recDisk : \E y \in Paths : d[y] = j
      BY Zenon, <1>3 DEF KeyFileHeld
  <2> QED BY Zenon, <1>1, <1>3, <2>1, <2>2 DEF KeyFileHeld
<1>4. \A y \in Paths : FileAt(j, y) => FileAt(j, y)'
    BY Zenon, <1>1, <1>2 DEF FileAt
<1> QED BY Zenon, <1>2, <1>3, <1>4

\* Syncing the directory leaves every file.
LEMMA DirSynced ==
    ASSUME recDisk' = {recDir} \/ UNCHANGED recDisk, UNCHANGED <<recDir, data>>, NEW k
    PROVE  OtherFiles(k)
BY Zenon DEF OtherFiles, KeyFileHeld, FileAt

LEMMA EncodeStep == ASSUME IInv, NEW p \in Procs, Encode(p) PROVE IInv'
<1>0. proc[p].pc = "encode" /\ UNCHANGED <<recDir, recDisk, data>> /\ RestStays
    BY Zenon DEF Encode, RestStays, files
<1>1. /\ proc' \in [Procs -> Command] /\ Alone(p) /\ Same(p)
      /\ proc'[p].pc \in {"parent", "report"} /\ proc'[p].created = proc[p].created
    BY Zenon, GotoEffect, FailEffect, Parts DEF Encode, PCs, FilePCs
<1>2. OtherFiles(proc[p].key)
    BY Zenon, <1>0, DirSynced
<1>3. Writes(proc[p])'
  <2>1. Writes(proc[p])
      BY Zenon, <1>0, Parts DEF Commands
  <2>2. proc[p].cmd \in {"init", "rotate"} /\ ~(proc[p].cmd = "init" /\ proc[p].created)
      BY Zenon, <1>0, <2>1 DEF Writes, FilePCs
  <2> QED BY Zenon, <1>1, <2>2 DEF Writes, Same
<1>4. recDir' \in Entries /\ recDisk' \subseteq Entries /\ data' \in [Creds -> {"empty", "written", "synced"}]
    BY Zenon, <1>0, Parts DEF Types
<1>5. events' \in 0..MaxEvents
    BY Zenon, EventBound, Parts DEF Encode
<1> QED BY Zenon, <1>0, <1>1, <1>2, <1>3, <1>4, <1>5, FileStep DEF FilePCs

LEMMA SyncParentStep == ASSUME IInv, NEW p \in Procs, SyncParent(p) PROVE IInv'
<1>0. /\ proc[p].pc = "parent" /\ UNCHANGED <<recDir, data>> /\ RestStays
      /\ recDisk' = {recDir} \/ UNCHANGED recDisk
    BY Zenon DEF SyncParent, RestStays
<1>1. /\ proc' \in [Procs -> Command] /\ Alone(p) /\ Same(p)
      /\ proc'[p].pc \in {"open", "report"} /\ proc'[p].created = proc[p].created
    BY Zenon, GotoEffect, FailEffect, Parts DEF SyncParent, PCs, FilePCs
<1>2. OtherFiles(proc[p].key)
    BY Zenon, <1>0, DirSynced
<1>3. Writes(proc[p])'
  <2>1. Writes(proc[p])
      BY Zenon, <1>0, Parts DEF Commands
  <2>2. proc[p].cmd \in {"init", "rotate"} /\ ~(proc[p].cmd = "init" /\ proc[p].created)
      BY Zenon, <1>0, <2>1 DEF Writes, FilePCs
  <2> QED BY Zenon, <1>1, <2>2 DEF Writes, Same
<1>4. recDir' \in Entries /\ recDisk' \subseteq Entries /\ data' \in [Creds -> {"empty", "written", "synced"}]
    BY Zenon, <1>0, Parts DEF Types
<1>5. events' \in 0..MaxEvents
    BY Zenon, EventBound, Parts DEF SyncParent
<1> QED BY Zenon, <1>0, <1>1, <1>2, <1>3, <1>4, <1>5, FileStep DEF FilePCs

LEMMA CreateFileStep == ASSUME IInv, NEW p \in Procs, CreateFile(p) PROVE IInv'
<1>0. /\ proc[p].pc = "open" /\ UNCHANGED data /\ RestStays
    BY Zenon DEF CreateFile, RestStays
<1>1. Writes(proc[p]) /\ proc[p].cmd \in {"init", "rotate"} /\ ~(proc[p].cmd = "init" /\ proc[p].created)
    BY Zenon, <1>0, Parts DEF Writes, FilePCs, Commands
<1>2. proc[p].key \in Creds /\ proc[p].key # 0 /\ proc[p].out \in Paths
    BY Zenon, <1>0, <1>1, Writer
<1>3. events' \in 0..MaxEvents
    BY Zenon, EventBound, Parts DEF CreateFile
<1>4. CASE /\ recDir[proc[p].out] = 0 /\ Goto(p, "write")
           /\ ChangeRecDir([recDir EXCEPT ![proc[p].out] = proc[p].key])
  <2>1. /\ proc' \in [Procs -> Command] /\ Alone(p) /\ Same(p)
        /\ proc'[p].pc = "write" /\ proc'[p].created = proc[p].created
      BY Zenon, <1>4, GotoEffect, Parts DEF PCs, FilePCs
  <2>2. recDir' = [recDir EXCEPT ![proc[p].out] = proc[p].key] /\ recDisk' = recDisk \cup {recDir'}
      BY Zenon, <1>4 DEF ChangeRecDir
  <2>3. recDir' \in Entries /\ recDir'[proc[p].out] = proc[p].key
      BY <1>2, <2>2, Parts DEF Types, Entries, Creds
  <2>4. recDisk' \subseteq Entries
      BY Zenon, <2>2, <2>3, Parts DEF Types
  <2>5. OtherFiles(proc[p].key)
    <3>1. 0 \in 0..MaxCreds /\ proc[p].key \in 0..MaxCreds
        BY <1>2, CredentialsAssumption DEF Creds
    <3>2. ASSUME NEW j \in Creds \ {proc[p].key}
          PROVE  /\ KeyFileHeld(j) => KeyFileHeld(j)'
                 /\ \A y \in Paths : recDir[y] = j => recDir'[y] = j
                 /\ \A y \in Paths : FileAt(j, y) => FileAt(j, y)'
      <4>1. j # 0
          BY CredentialsAssumption DEF Creds
      <4> QED BY <1>0, <1>2, <1>4, <3>1, <4>1, DirGrows
    <3> QED BY Zenon, <1>0, <3>2 DEF OtherFiles
  <2>6. Writes(proc[p])'
      BY Zenon, <1>1, <2>1, <2>3 DEF Writes, Same
  <2>7. data' \in [Creds -> {"empty", "written", "synced"}]
      BY Zenon, <1>0, Parts DEF Types
  <2> QED BY Zenon, <1>0, <1>3, <2>1, <2>3, <2>4, <2>5, <2>6, <2>7, FileStep DEF FilePCs
<1>5. CASE Fail(p, "report") /\ UNCHANGED <<recDir, recDisk>>
  <2>1. /\ proc' \in [Procs -> Command] /\ Alone(p) /\ Same(p)
        /\ proc'[p].pc = "report" /\ proc'[p].created = proc[p].created
      BY Zenon, <1>5, FailEffect, Parts DEF PCs, FilePCs
  <2>2. OtherFiles(proc[p].key)
      BY Zenon, <1>0, <1>5, DirSynced
  <2>3. Writes(proc[p])'
      BY Zenon, <1>1, <2>1 DEF Writes, Same
  <2>4. recDir' \in Entries /\ recDisk' \subseteq Entries /\ data' \in [Creds -> {"empty", "written", "synced"}]
      BY Zenon, <1>0, <1>5, Parts DEF Types
  <2> QED BY Zenon, <1>0, <1>3, <2>1, <2>2, <2>3, <2>4, FileStep DEF FilePCs
<1> QED BY Zenon, <1>4, <1>5 DEF CreateFile

\* Writing to the file of key k leaves the others.
LEMMA DataChanged ==
    ASSUME IInv, NEW k \in Creds, NEW v \in {"empty", "written", "synced"},
           data' = [data EXCEPT ![k] = v] \/ UNCHANGED data, UNCHANGED <<recDir, recDisk>>
    PROVE  /\ OtherFiles(k) /\ data' \in [Creds -> {"empty", "written", "synced"}]
           /\ data' = [data EXCEPT ![k] = v] => data'[k] = v
<1>1. data \in [Creds -> {"empty", "written", "synced"}]
    BY Zenon, Parts DEF Types
<1>2. \A j \in Creds \ {k} : data'[j] = data[j]
    BY Zenon, <1>1
<1>3. OtherFiles(k)
    BY Zenon, <1>2 DEF OtherFiles, KeyFileHeld, FileAt
<1> QED BY Zenon, <1>1, <1>3

LEMMA WriteTextStep == ASSUME IInv, NEW p \in Procs, WriteText(p) PROVE IInv'
<1>0. proc[p].pc = "write" /\ RestStays /\ UNCHANGED <<recDir, recDisk>>
    BY Zenon DEF WriteText, RestStays
<1>1. /\ proc[p].cmd \in {"init", "rotate"} /\ ~(proc[p].cmd = "init" /\ proc[p].created)
      /\ recDir[proc[p].out] = proc[p].key
    BY Zenon, <1>0, Parts DEF Writes, FilePCs, Commands
<1>2. proc[p].key \in Creds
    BY Zenon, <1>0, <1>1, Writer
<1>3. OtherFiles(proc[p].key) /\ data' \in [Creds -> {"empty", "written", "synced"}]
    BY Zenon, <1>0, <1>2, DataChanged DEF WriteText
<1>4. /\ proc' \in [Procs -> Command] /\ Alone(p) /\ Same(p)
      /\ proc'[p].pc \in {"datasync", "undo"} /\ proc'[p].created = proc[p].created
    BY Zenon, GotoEffect, FailEffect, Parts DEF WriteText, PCs, FilePCs
<1>5. Writes(proc[p])'
    BY Zenon, <1>0, <1>1, <1>4 DEF Writes, Same
<1>6. recDir' \in Entries /\ recDisk' \subseteq Entries
    BY Zenon, <1>0, Parts DEF Types
<1>7. events' \in 0..MaxEvents
    BY Zenon, EventBound, Parts DEF WriteText
<1> QED BY Zenon, <1>0, <1>3, <1>4, <1>5, <1>6, <1>7, FileStep DEF FilePCs

LEMMA SyncTextStep == ASSUME IInv, NEW p \in Procs, SyncText(p) PROVE IInv'
<1>0. proc[p].pc = "datasync" /\ RestStays /\ UNCHANGED <<recDir, recDisk>>
    BY Zenon DEF SyncText, RestStays
<1>1. /\ proc[p].cmd \in {"init", "rotate"} /\ ~(proc[p].cmd = "init" /\ proc[p].created)
      /\ recDir[proc[p].out] = proc[p].key
    BY Zenon, <1>0, Parts DEF Writes, FilePCs, Commands
<1>2. proc[p].key \in Creds
    BY Zenon, <1>0, <1>1, Writer
<1>3. /\ OtherFiles(proc[p].key) /\ data' \in [Creds -> {"empty", "written", "synced"}]
      /\ data' = [data EXCEPT ![proc[p].key] = "synced"] => data'[proc[p].key] = "synced"
    BY Zenon, <1>0, <1>2, DataChanged DEF SyncText
<1>4. /\ proc' \in [Procs -> Command] /\ Alone(p) /\ Same(p)
      /\ proc'[p].pc \in {"dirsync", "undo"} /\ proc'[p].created = proc[p].created
      /\ proc'[p].pc = "dirsync" => data' = [data EXCEPT ![proc[p].key] = "synced"]
    BY GotoEffect, FailEffect, Parts DEF SyncText, PCs, FilePCs
<1>5. Writes(proc[p])'
    BY Zenon, <1>0, <1>1, <1>3, <1>4 DEF Writes, Same
<1>6. recDir' \in Entries /\ recDisk' \subseteq Entries
    BY Zenon, <1>0, Parts DEF Types
<1>7. events' \in 0..MaxEvents
    BY Zenon, EventBound, Parts DEF SyncText
<1> QED BY Zenon, <1>0, <1>3, <1>4, <1>5, <1>6, <1>7, FileStep DEF FilePCs

LEMMA CreatedEffect ==
    ASSUME Types, NEW p \in Procs, NEW l \in PCs,
           proc' = [proc EXCEPT ![p].created = TRUE, ![p].pc = l]
    PROVE  /\ proc' \in [Procs -> Command] /\ Alone(p) /\ Same(p)
           /\ proc'[p].pc = l /\ proc'[p].created = TRUE /\ proc'[p].status = proc[p].status
<1>1. proc \in [Procs -> Command] /\ proc[p] \in Command
    BY Zenon DEF Types
<1>2. proc' = [proc EXCEPT ![p] = [proc[p] EXCEPT !.created = TRUE, !.pc = l]]
    BY Zenon, <1>1
<1>3. [proc[p] EXCEPT !.created = TRUE, !.pc = l] \in Command
    BY Zenon, <1>1, CreatedTyped
<1>4. /\ proc' \in [Procs -> Command] /\ Alone(p)
      /\ proc'[p] = [proc[p] EXCEPT !.created = TRUE, !.pc = l]
    BY Zenon, <1>1, <1>2, <1>3 DEF Alone
<1> QED BY Zenon, <1>1, <1>4 DEF Command, Same

\* After the last fsync the file of the key is there whatever a crash leaves.
LEMMA SyncEntryStep == ASSUME IInv, NEW p \in Procs, SyncEntry(p) PROVE IInv'
<1>0. proc[p].pc = "dirsync" /\ RestStays /\ UNCHANGED <<recDir, data>>
    BY Zenon DEF SyncEntry, RestStays
<1>1. /\ proc[p].cmd \in {"init", "rotate"} /\ ~(proc[p].cmd = "init" /\ proc[p].created)
      /\ recDir[proc[p].out] = proc[p].key /\ data[proc[p].key] = "synced"
    BY Zenon, <1>0, Parts DEF Writes, FilePCs, Commands
<1>2. OtherFiles(proc[p].key)
    BY Zenon, <1>0, DirSynced DEF SyncEntry
<1>3. recDir' \in Entries /\ recDisk' \subseteq Entries /\ data' \in [Creds -> {"empty", "written", "synced"}]
    BY Zenon, <1>0, Parts DEF Types, SyncEntry
<1>4. events' \in 0..MaxEvents
    BY Zenon, EventBound, Parts DEF SyncEntry
<1>5. CASE /\ recDisk' = {recDir}
           /\ proc' = [proc EXCEPT ![p].created = TRUE,
                         ![p].pc = IF proc[p].cmd = "init" THEN "report" ELSE "lock"]
  <2>1. (IF proc[p].cmd = "init" THEN "report" ELSE "lock") \in PCs
      BY Zenon DEF PCs
  <2>2. /\ proc' \in [Procs -> Command] /\ Alone(p) /\ Same(p)
        /\ proc'[p].pc = IF proc[p].cmd = "init" THEN "report" ELSE "lock"
      BY Zenon, <1>5, <2>1, CreatedEffect, Parts
  <2>3. Writes(proc[p])'
      BY Zenon, <1>0, <1>1, <1>5, <2>2 DEF Writes, Same, FileAt, FilePCs
  <2> QED BY Zenon, <1>0, <1>1, <1>2, <1>3, <1>4, <2>2, <2>3, FileStep DEF FilePCs
<1>6. CASE Fail(p, "undo")
  <2>1. /\ proc' \in [Procs -> Command] /\ Alone(p) /\ Same(p)
        /\ proc'[p].pc = "undo" /\ proc'[p].created = proc[p].created
      BY Zenon, <1>6, FailEffect, Parts DEF PCs, FilePCs
  <2>2. Writes(proc[p])'
      BY Zenon, <1>0, <1>1, <2>1 DEF Writes, Same
  <2> QED BY Zenon, <1>0, <1>2, <1>3, <1>4, <2>1, <2>2, FileStep DEF FilePCs
<1> QED BY Zenon, <1>5, <1>6 DEF SyncEntry

\* The path that is unlinked leads to the file of p itself.
LEMMA UnlinkOutputStep ==
    ASSUME IInv, NEW p \in Procs, NEW l \in {"undosync", "report"}, UnlinkOutput(p, l),
           proc[p].pc \in {"undo", "unlink"}
    PROVE  IInv'
<1>0. RestStays /\ UNCHANGED data
    BY Zenon DEF UnlinkOutput, RestStays
<1>1. /\ proc[p].cmd \in {"init", "rotate"} /\ ~(proc[p].cmd = "init" /\ proc[p].created)
      /\ recDir[proc[p].out] = proc[p].key
    BY Zenon, Parts DEF Writes, FilePCs, Commands
<1>2. proc[p].key \in Creds /\ proc[p].key # 0 /\ proc[p].out \in Paths
    BY Zenon, <1>1, Writer
<1>3. events' \in 0..MaxEvents
    BY Zenon, EventBound, Parts DEF UnlinkOutput
<1>4. /\ proc' \in [Procs -> Command] /\ Alone(p) /\ Same(p)
      /\ proc'[p].pc = l /\ proc'[p].created = proc[p].created
    BY Zenon, GotoEffect, Parts DEF PCs, FilePCs, UnlinkOutput
<1>5. Writes(proc[p])'
    BY Zenon, <1>1, <1>4 DEF Writes, Same
<1>6. /\ OtherFiles(proc[p].key) /\ recDir' \in Entries /\ recDisk' \subseteq Entries
  <2>1. CASE UNCHANGED <<recDir, recDisk>>
      BY Zenon, <1>0, <2>1, DirSynced, Parts DEF Types
  <2>2. CASE ChangeRecDir([recDir EXCEPT ![proc[p].out] = 0])
    <3>1. 0 \in 0..MaxCreds /\ proc[p].key \in 0..MaxCreds
        BY <1>2, CredentialsAssumption DEF Creds
    <3>2. ASSUME NEW j \in Creds \ {proc[p].key}
          PROVE  /\ KeyFileHeld(j) => KeyFileHeld(j)'
                 /\ \A y \in Paths : recDir[y] = j => recDir'[y] = j
                 /\ \A y \in Paths : FileAt(j, y) => FileAt(j, y)'
      <4>1. j # 0
          BY CredentialsAssumption DEF Creds
      <4> QED BY <1>0, <1>1, <1>2, <2>2, <3>1, <4>1, DirGrows
    <3>3. OtherFiles(proc[p].key)
        BY Zenon, <1>0, <3>2 DEF OtherFiles
    <3>4. recDir' \in Entries
        BY Zenon, <1>2, <2>2, <3>1, Parts DEF Types, Entries, ChangeRecDir
    <3> QED BY Zenon, <2>2, <3>3, <3>4, Parts DEF Types, ChangeRecDir
  <2> QED BY Zenon, <2>1, <2>2 DEF UnlinkOutput
<1>7. data' \in [Creds -> {"empty", "written", "synced"}]
    BY Zenon, <1>0, Parts DEF Types
<1> QED BY Zenon, <1>0, <1>3, <1>4, <1>5, <1>6, <1>7, FileStep DEF FilePCs

LEMMA SyncUndoStep == ASSUME IInv, NEW p \in Procs, SyncUndo(p) PROVE IInv'
<1>0. proc[p].pc = "undosync" /\ RestStays /\ UNCHANGED <<recDir, data>>
    BY Zenon DEF SyncUndo, RestStays
<1>1. proc[p].cmd \in {"init", "rotate"} /\ ~(proc[p].cmd = "init" /\ proc[p].created)
    BY Zenon, <1>0, Parts DEF Writes, FilePCs, Commands
<1>2. OtherFiles(proc[p].key)
    BY Zenon, <1>0, DirSynced DEF SyncUndo
<1>3. recDir' \in Entries /\ recDisk' \subseteq Entries /\ data' \in [Creds -> {"empty", "written", "synced"}]
    BY Zenon, <1>0, Parts DEF Types, SyncUndo
<1>4. events' \in 0..MaxEvents
    BY Zenon, EventBound, Parts DEF SyncUndo
<1>5. /\ proc' \in [Procs -> Command] /\ Alone(p) /\ Same(p)
      /\ proc'[p].pc = "report" /\ proc'[p].created = proc[p].created
    BY Zenon, GotoEffect, Parts DEF PCs, FilePCs, SyncUndo
<1>6. Writes(proc[p])'
    BY Zenon, <1>1, <1>5 DEF Writes, Same
<1> QED BY Zenon, <1>0, <1>2, <1>3, <1>4, <1>5, <1>6, FileStep DEF FilePCs

-----------------------------------------------------------------------------
(***************************************************************************)
(* The commit.                                                             *)
(***************************************************************************)

\* A step of p before the rename: nothing of the vault, the files and the user
\* changes.
LEMMA CommitFrame ==
    ASSUME IInv, NEW p \in Procs, proc[p].pc \in {"lock", "check", "install"},
           proc' \in [Procs -> Command], Alone(p),
           proc'[p].cmd = proc[p].cmd, proc'[p].pwd = proc[p].pwd, proc'[p].key = proc[p].key,
           proc'[p].out = proc[p].out, proc'[p].slots.pwd = proc[p].slots.pwd,
           proc'[p].slots.rec = proc[p].slots.rec, proc'[p].created = proc[p].created,
           proc[p].cmd = "restore" => Same(p),
           proc'[p].pc \in {"check", "install"} \/ (proc'[p].pc = "unlock" /\ proc'[p].status = "ERROR"),
           UNCHANGED <<cur, may, client, slot, files, drawn, user>>, Locked',
           \A q \in Procs : proc'[q].pc # "idle" => Saves(q)',
           issued' \in 0..MaxSnap, issued <= issued', parent' \in [Ids -> 0..MaxSnap],
           events' \in 0..MaxEvents
    PROVE  IInv'
<1>1. /\ UNCHANGED <<cur, may, client, slot, drawn>> /\ UNCHANGED <<recDir, recDisk, data>>
      /\ UNCHANGED <<memory, obsolete, oldPwds, oldKeys>> /\ UNCHANGED <<initial, rolled, lost>>
    BY Zenon DEF files, user, replaced
<1>2. Types'
  <2>1. issued \in 0..MaxSnap /\ cur \in 0..issued /\ may \subseteq 0..issued /\ MaxSnap \in Nat
      BY Zenon, CredentialsAssumption, Parts DEF Types
  <2>2. cur \in 0..issued' /\ may \subseteq 0..issued'
      BY <2>1
  <2> QED BY Zenon, <1>1, <2>2, Parts DEF Types
<1>3. Snapshots' /\ ReplacedStaysReplaced'
  <2>1. \A s \in Ids : s <= issued => s <= issued'
      BY CredentialsAssumption, Parts DEF Types, Ids
  <2> QED BY Zenon, <1>1, <2>1, Parts DEF Snapshots, ReplacedStaysReplaced, Shown, Installed
<1>4. Fresh(proc'[p]) /\ Fresh(proc[p]) /\ ~Placed(proc'[p]) /\ ~Placed(proc[p])
      /\ proc[p].pc # "idle" /\ proc'[p].pc # "idle"
    BY Zenon DEF Fresh, Placed, Committed
<1>5. Commands'
  <2> SUFFICES ASSUME NEW q \in Procs
               PROVE  /\ proc'[q].pc = "idle" => proc'[q] = Idle /\ client'[q] = NoClient
                      /\ proc'[q].pc # "idle" => Holds(q)' /\ Writes(proc[q])' /\ Saves(q)'
      BY Zenon DEF Commands
  <2>1. CASE q = p
    <3>1. Holds(p)'
      <4>1. Holds(p)
          BY Zenon, <1>4, Parts DEF Commands
      <4> QED BY Zenon, <1>1, <4>1 DEF Holds, Same, Installed
    <3>2. Writes(proc[p])'
      <4>1. Writes(proc[p])
          BY Zenon, <1>4, Parts DEF Commands
      <4> QED BY Zenon, <1>1, <4>1 DEF Writes, FileAt, FilePCs
    <3> QED BY Zenon, <1>4, <2>1, <3>1, <3>2
  <2>2. CASE q # p
    <3>1. proc'[q] = proc[q]
        BY Zenon, <2>2 DEF Alone
    <3>2. proc[q].pc # "idle" => Writes(proc[q])'
        BY Zenon, <1>1, <3>1, KeepsWriting
    <3>3. proc[q].pc # "idle" => Holds(q)'
        BY Zenon, <1>1, <3>1, KeepsHolding
    <3> QED BY Zenon, <1>1, <3>1, <3>2, <3>3, Parts DEF Commands
  <2> QED BY Zenon, <2>1, <2>2
<1>6. ASSUME NEW q \in Procs
      PROVE  /\ Fresh(proc'[q]) = Fresh(proc[q]) /\ Placed(proc'[q]) = Placed(proc[q])
             /\ proc'[q].cmd = proc[q].cmd /\ proc'[q].pwd = proc[q].pwd /\ proc'[q].key = proc[q].key
             /\ proc'[q].slots.pwd = proc[q].slots.pwd /\ proc'[q].slots.rec = proc[q].slots.rec
  <2>1. CASE q = p
      BY Zenon, <1>4, <2>1 DEF Fresh, Placed
  <2>2. CASE q # p
      BY Zenon, <2>2 DEF Alone
  <2> QED BY Zenon, <2>1, <2>2
<1>7. Private'
    BY <1>1, <1>6, Parts DEF Private, NewPwd, NewKey
<1>9. Kept' /\ Openable'
    BY <1>1, Parts DEF Kept, Openable, Installed, Shown, KeyFileHeld
<1>10. Remembered'
    BY Zenon, <1>1, <1>6, Parts DEF Remembered, Shown
<1> QED BY Zenon, <1>2, <1>3, <1>5, <1>7, <1>9, <1>10 DEF IInv

LEMMA LockVaultStep == ASSUME IInv, NEW p \in Procs, LockVault(p) PROVE IInv'
<1>0. /\ proc[p].pc = "lock" /\ UNCHANGED <<register, slot, files, drawn, user>>
      /\ UNCHANGED <<parent, issued, cur, may, client>>
    BY Zenon DEF LockVault, register, vaultFile
<1>1. /\ proc' \in [Procs -> Command] /\ Alone(p) /\ Same(p) /\ proc'[p].created = proc[p].created
      /\ \/ proc'[p].pc = "check" /\ lock = NoProc /\ lock' = p
         \/ proc'[p].pc = "unlock" /\ proc'[p].status = "ERROR" /\ lock' = lock
    BY Zenon, GotoEffect, FailEffect, Parts DEF LockVault, PCs
<1>2. Locked'
  <2>1. \A q \in Procs : lock = NoProc => lock # q
      BY Zenon, CredentialsAssumption
  <2> QED BY <1>1, <2>1, Parts DEF Locked, Placed, Committed, Alone
<1>3. \A q \in Procs : proc'[q].pc # "idle" => Saves(q)'
  <2> SUFFICES ASSUME NEW q \in Procs, proc'[q].pc # "idle" PROVE Saves(q)'
      BY Zenon
  <2>1. CASE q = p
      BY Zenon, <1>1, <2>1 DEF Saves, Placed, Committed
  <2>2. CASE q # p
      BY Zenon, <1>0, <2>2, <1>1, Parts DEF Alone, Commands, Saves, Placed, Installed
  <2> QED BY Zenon, <2>1, <2>2
<1>4. events' \in 0..MaxEvents
    BY Zenon, EventBound, Parts DEF LockVault
<1>5. issued' \in 0..MaxSnap /\ issued <= issued' /\ parent' \in [Ids -> 0..MaxSnap]
    BY <1>0, CredentialsAssumption, Parts DEF Types
<1> QED BY Zenon, <1>0, <1>1, <1>2, <1>3, <1>4, <1>5, CommitFrame DEF Same

LEMMA NewEffect ==
    ASSUME Types, NEW p \in Procs, NEW n \in 0..MaxSnap, NEW v \in 0..MaxSnap,
           proc' = [proc EXCEPT ![p].pc = "install", ![p].new = n, ![p].slots.vault = v]
    PROVE  /\ proc' \in [Procs -> Command] /\ Alone(p)
           /\ proc'[p].cmd = proc[p].cmd /\ proc'[p].pwd = proc[p].pwd
           /\ proc'[p].key = proc[p].key /\ proc'[p].out = proc[p].out
           /\ proc'[p].slots.pwd = proc[p].slots.pwd /\ proc'[p].slots.rec = proc[p].slots.rec
           /\ proc'[p].created = proc[p].created /\ proc'[p].pc = "install" /\ proc'[p].new = n
<1>1. proc \in [Procs -> Command] /\ proc[p] \in Command /\ "install" \in PCs
    BY Zenon DEF Types, PCs
<1>2. proc' = [proc EXCEPT ![p] = [proc[p] EXCEPT !.pc = "install", !.new = n, !.slots.vault = v]]
    BY Zenon, <1>1
<1>3. [proc[p] EXCEPT !.pc = "install", !.new = n, !.slots.vault = v] \in Command
    BY Zenon, <1>1, NewTyped
<1>4. /\ proc' \in [Procs -> Command] /\ Alone(p)
      /\ proc'[p] = [proc[p] EXCEPT !.pc = "install", !.new = n, !.slots.vault = v]
    BY Zenon, <1>1, <1>2, <1>3 DEF Alone
<1> QED BY Zenon, <1>1, <1>4 DEF Command, Same, Slots

\* The lock makes the holder the only one that commits.
LEMMA Alone2 ==
    ASSUME IInv, NEW p \in Procs, NEW q \in Procs \ {p},
           proc[p].pc \in {"check", "install"} \/ Placed(proc[p])
    PROVE  proc[q].pc \notin {"check", "install"} /\ ~Placed(proc[q])
BY Zenon, Parts DEF Locked

LEMMA CheckStep == ASSUME IInv, NEW p \in Procs, Check(p) PROVE IInv'
<1>0. proc[p].pc = "check" /\ UNCHANGED <<slot, files, lock, drawn, user>> /\ lock = p
    BY Zenon, Parts DEF Check, Locked
<1>1. events' \in 0..MaxEvents
    BY Zenon, EventBound, Parts DEF Check
<1>2. issued \in 0..MaxSnap /\ MaxSnap \in Nat /\ parent \in [Ids -> 0..MaxSnap]
    BY Zenon, CredentialsAssumption, Parts DEF Types
<1>3. CASE /\ \/ proc[p].cmd = "init" /\ cur = 0
              \/ proc[p].cmd \in {"passwd", "rotate", "edit"} /\ SourceUnchanged(p)
           /\ issued < MaxSnap
           /\ issued' = issued + 1
           /\ parent' = [parent EXCEPT ![issued + 1] = client[p].of]
           /\ proc' = [proc EXCEPT ![p].pc = "install", ![p].new = issued + 1,
                         ![p].slots.vault = IF @ = 0 THEN issued + 1 ELSE @]
           /\ UNCHANGED <<cur, may, client>>
  <2> DEFINE v == IF proc[p].slots.vault = 0 THEN issued + 1 ELSE proc[p].slots.vault
  <2>1. issued + 1 \in 0..MaxSnap /\ issued + 1 \in Ids /\ issued <= issued + 1
      BY <1>2, <1>3 DEF Ids
  <2>2. v \in 0..MaxSnap
      BY Zenon, <2>1, Parts DEF Types, Command, Slots
  <2>3. proc' = [proc EXCEPT ![p].pc = "install", ![p].new = issued + 1, ![p].slots.vault = v]
      BY Zenon, <1>3
  <2> HIDE DEF v
  <2>4. /\ proc' \in [Procs -> Command] /\ Alone(p)
        /\ proc'[p].cmd = proc[p].cmd /\ proc'[p].pwd = proc[p].pwd
        /\ proc'[p].key = proc[p].key /\ proc'[p].out = proc[p].out
        /\ proc'[p].slots.pwd = proc[p].slots.pwd /\ proc'[p].slots.rec = proc[p].slots.rec
        /\ proc'[p].created = proc[p].created /\ proc'[p].pc = "install" /\ proc'[p].new = issued + 1
      BY Zenon, <2>1, <2>2, <2>3, NewEffect, Parts
  <2>5. Locked'
      BY Zenon, <1>0, <2>4, Parts DEF Locked, Alone
  <2>6. client[p].of = cur /\ client[p].of \in 0..MaxSnap
      BY <1>0, <1>3, Parts DEF Commands, Holds, SourceUnchanged, Types, Client
  <2>7. parent' \in [Ids -> 0..MaxSnap] /\ parent'[issued + 1] = cur
      BY Zenon, <1>2, <1>3, <2>1, <2>6
  <2>8. ~Installed(issued + 1)
      BY <1>2, <2>1, Parts DEF Snapshots
  <2>9. \A q \in Procs : proc'[q].pc # "idle" => Saves(q)'
    <3> SUFFICES ASSUME NEW q \in Procs, proc'[q].pc # "idle" PROVE Saves(q)'
        BY Zenon
    <3>1. CASE q = p
        BY Zenon, <1>0, <1>3, <2>1, <2>4, <2>6, <2>7, <2>8, <3>1 DEF Saves, Placed, Installed
    <3>2. CASE q # p
      <4>1. proc'[q] = proc[q] /\ proc[q].pc # "install" /\ ~Placed(proc[q])
          BY Zenon, <1>0, <2>4, <3>2, Alone2 DEF Alone
      <4>2. Saves(q)
          BY Zenon, <4>1, Parts DEF Commands
      <4> QED BY Zenon, <4>1, <4>2 DEF Saves, Placed
    <3> QED BY Zenon, <3>1, <3>2
  <2> QED BY Zenon, <1>0, <1>1, <1>3, <2>1, <2>4, <2>5, <2>7, <2>9, CommitFrame
<1>4. CASE /\ UNCHANGED register
           /\ \/ Goto(p, "install") /\ proc[p].cmd = "restore"
              \/ Fail(p, "unlock")
  <2>0. UNCHANGED <<parent, issued, cur, may, client>>
      BY Zenon, <1>4 DEF register, vaultFile
  <2>1. /\ proc' \in [Procs -> Command] /\ Alone(p) /\ Same(p) /\ proc'[p].created = proc[p].created
        /\ \/ proc'[p].pc = "install" /\ proc[p].cmd = "restore"
           \/ proc'[p].pc = "unlock" /\ proc'[p].status = "ERROR"
      BY Zenon, <1>4, GotoEffect, FailEffect, Parts DEF PCs
  <2>2. Locked'
      BY Zenon, <1>0, <2>1, Parts DEF Locked, Placed, Committed, Alone
  <2>3. \A q \in Procs : proc'[q].pc # "idle" => Saves(q)'
    <3> SUFFICES ASSUME NEW q \in Procs, proc'[q].pc # "idle" PROVE Saves(q)'
        BY Zenon
    <3>1. CASE q = p
        BY Zenon, <2>1, <3>1 DEF Saves, Placed, Committed, Same
    <3>2. CASE q # p
        BY Zenon, <1>0, <2>0, <3>2, <2>1, Parts DEF Alone, Commands, Saves, Placed, Installed
    <3> QED BY Zenon, <3>1, <3>2
  <2>4. issued' \in 0..MaxSnap /\ issued <= issued' /\ parent' \in [Ids -> 0..MaxSnap]
      BY <1>2, <2>0
  <2> QED BY Zenon, <1>0, <1>1, <2>0, <2>1, <2>2, <2>3, <2>4, CommitFrame DEF Same
<1> QED BY Zenon, <1>3, <1>4 DEF Check

\* The rename: the header in memory becomes one a crash may show.
Renamed(p) ==
    /\ proc[p].pc = "install"
    /\ cur' = proc[p].new
    /\ may' = may \cup {cur'}
    /\ slot' = [slot EXCEPT ![proc[p].new] = proc[p].slots]
    /\ rolled' = (rolled \/ proc[p].cmd = "restore")
    /\ Goto(p, "confirm")
    /\ UNCHANGED <<parent, issued, client, files, lock, drawn, events, memory, obsolete,
                   replaced, initial, lost>>

LEMMA RenamedSlots ==
    ASSUME IInv, NEW p \in Procs, Renamed(p)
    PROVE  /\ proc[p].new \in Ids /\ proc[p].new <= issued
           /\ slot' \in [Ids -> Slots] /\ slot'[proc[p].new] = proc[p].slots
           /\ \A s \in Ids \ {proc[p].new} : slot'[s] = slot[s]
           /\ \A s \in Ids : Installed(s) => slot'[s] = slot[s]
           /\ proc[p].slots # NoSlots
<1>1. Holds(p) /\ Saves(p)
    BY Zenon, Parts DEF Renamed, Commands
<1>2. proc[p].new \in Ids /\ (Installed(proc[p].new) <=> proc[p].cmd = "restore")
    BY Zenon, <1>1 DEF Renamed, Holds, Saves
<1>3. proc[p].new <= issued
  <2>1. issued \in Nat
      BY CredentialsAssumption, Parts DEF Types
  <2> QED BY <1>1, <1>2, <2>1, Parts DEF Saves, Renamed, Snapshots, Ids
<1>4. slot \in [Ids -> Slots] /\ proc[p].slots \in Slots
    BY Zenon, Parts DEF Types, Command
<1>5. /\ slot' \in [Ids -> Slots] /\ slot'[proc[p].new] = proc[p].slots
      /\ \A s \in Ids \ {proc[p].new} : slot'[s] = slot[s]
    BY Zenon, <1>2, <1>4 DEF Renamed
<1>6. \A s \in Ids : Installed(s) => slot'[s] = slot[s]
    BY Zenon, <1>1, <1>2, <1>5 DEF Holds
<1>7. proc[p].slots # NoSlots
  <2>1. proc[p].slots.pwd # 0
      BY Zenon, <1>1, CredsBound, Parts DEF Holds
  <2> QED BY <2>1 DEF NoSlots
<1> QED BY Zenon, <1>2, <1>3, <1>5, <1>6, <1>7

\* What the new header holds is held already, or p's own.
LEMMA RenamedHeader ==
    ASSUME IInv, NEW p \in Procs, Renamed(p)
    PROVE  /\ \/ KeyFileHeld(proc[p].slots.rec) \/ proc[p].slots.rec \in initial
              \/ proc[p].slots.rec \in oldKeys
           /\ proc[p].slots.pwd \in memory
           /\ proc[p].cmd = "restore" \/ rolled
              \/ (proc[p].slots.pwd \notin oldPwds /\ proc[p].slots.rec \notin oldKeys)
           /\ proc[p].cmd \in {"passwd", "restore"}
              \/ (proc[p].slots.pwd \notin obsolete /\ \A s \in Shown : slot[s].pwd \notin obsolete)
<1>1. Holds(p) /\ Saves(p) /\ Writes(proc[p]) /\ Fresh(proc[p])
    BY Zenon, Parts DEF Renamed, Commands, Fresh
<1>2. proc[p].slots.pwd \in memory /\ proc[p].cmd \in Cmds
    BY Zenon, <1>1 DEF Holds
<1>3. proc[p].cmd # "restore" => client[p].of = cur
    BY Zenon, <1>1 DEF Saves, Renamed
<1>4. proc[p].cmd \in {"passwd", "rotate", "edit"} =>
          cur \in Shown /\ cur \in Ids /\ Installed(cur)
    BY <1>1, <1>3 DEF Holds, Shown, Ids
<1>5. \A q \in Procs : ~Placed(proc[q])
    BY Zenon, Alone2 DEF Renamed, Placed
<1>6. CASE proc[p].cmd = "init"
  <2>1. proc[p].pwd = proc[p].slots.pwd /\ proc[p].key = proc[p].slots.rec /\ proc[p].key \in initial
        /\ cur = 0
      BY <1>1, <1>3, <1>6 DEF Holds
  <2>2. Shown = {}
      BY Zenon, <2>1, Parts DEF Snapshots, Shown
  <2>3. proc[p].pwd \notin obsolete
      BY Zenon, <1>1, <1>6, <2>1, Parts DEF Remembered
  <2>4. proc[p].pwd \notin oldPwds /\ proc[p].key \notin oldKeys
      BY Zenon, <1>1, <1>6, Parts DEF Private, NewPwd, NewKey
  <2> QED BY Zenon, <1>2, <2>1, <2>2, <2>3, <2>4
<1>7. CASE proc[p].cmd = "rotate"
  <2>1. proc[p].key = proc[p].slots.rec /\ proc[p].slots.pwd = slot[cur].pwd /\ proc[p].out \in Paths
      BY Zenon, <1>1, <1>3, <1>7 DEF Holds
  <2>2. KeyFileHeld(proc[p].key)
      BY Zenon, <1>1, <1>7, <2>1 DEF Writes, FileAt, KeyFileHeld, Renamed
  <2>3. proc[p].key \notin oldKeys
      BY Zenon, <1>1, <1>7, Parts DEF Private, NewKey
  <2>4. slot[cur].pwd \notin oldPwds \/ rolled
      BY Zenon, <1>4, <1>7, Parts DEF ReplacedStaysReplaced
  <2>5. \A s \in Shown : slot[s].pwd \notin obsolete
      BY Zenon, <1>5, Parts DEF Remembered
  <2> QED BY Zenon, <1>2, <1>4, <1>7, <2>1, <2>2, <2>3, <2>4, <2>5
<1>8. CASE proc[p].cmd = "passwd"
  <2>1. proc[p].pwd = proc[p].slots.pwd /\ proc[p].slots.rec = slot[cur].rec
      BY Zenon, <1>1, <1>3, <1>8 DEF Holds
  <2>2. proc[p].pwd \notin oldPwds
      BY Zenon, <1>1, <1>8, Parts DEF Private, NewPwd
  <2>3. slot[cur].rec \notin oldKeys \/ rolled
      BY Zenon, <1>4, <1>8, Parts DEF ReplacedStaysReplaced
  <2>4. KeyFileHeld(slot[cur].rec) \/ slot[cur].rec \in initial \/ slot[cur].rec \in oldKeys
      BY Zenon, <1>4, <1>8, Parts DEF Kept
  <2>5. KeyFileHeld(slot[cur].rec) <=> KeyFileHeld(proc[p].slots.rec)
      BY Zenon, <2>1 DEF KeyFileHeld
  <2> QED BY Zenon, <1>2, <1>8, <2>1, <2>2, <2>3, <2>4, <2>5
<1>9. CASE proc[p].cmd = "edit"
  <2>1. proc[p].slots.pwd = slot[cur].pwd /\ proc[p].slots.rec = slot[cur].rec
      BY Zenon, <1>1, <1>3, <1>9 DEF Holds
  <2>2. rolled \/ (slot[cur].pwd \notin oldPwds /\ slot[cur].rec \notin oldKeys)
      BY Zenon, <1>4, <1>9, Parts DEF ReplacedStaysReplaced
  <2>3. KeyFileHeld(slot[cur].rec) \/ slot[cur].rec \in initial \/ slot[cur].rec \in oldKeys
      BY Zenon, <1>4, <1>9, Parts DEF Kept
  <2>4. \A s \in Shown : slot[s].pwd \notin obsolete
      BY Zenon, <1>5, Parts DEF Remembered
  <2>5. KeyFileHeld(slot[cur].rec) <=> KeyFileHeld(proc[p].slots.rec)
      BY Zenon, <2>1 DEF KeyFileHeld
  <2> QED BY Zenon, <1>2, <1>4, <1>9, <2>1, <2>2, <2>3, <2>4, <2>5
<1>10. CASE proc[p].cmd = "restore"
  <2>1. Installed(proc[p].new) /\ proc[p].new \in Ids /\ proc[p].slots = slot[proc[p].new]
      BY Zenon, <1>1, <1>10 DEF Holds
  <2>2. \/ KeyFileHeld(slot[proc[p].new].rec) \/ slot[proc[p].new].rec \in initial
        \/ slot[proc[p].new].rec \in oldKeys
      BY Zenon, <2>1, Parts DEF Kept
  <2>3. KeyFileHeld(slot[proc[p].new].rec) <=> KeyFileHeld(proc[p].slots.rec)
      BY Zenon, <2>1 DEF KeyFileHeld
  <2> QED BY Zenon, <1>2, <1>10, <2>1, <2>2, <2>3
<1> QED BY Zenon, <1>2, <1>6, <1>7, <1>8, <1>9, <1>10 DEF Cmds

LEMMA RenamedStep == ASSUME IInv, NEW p \in Procs, Renamed(p) PROVE IInv'
<1>1. /\ UNCHANGED <<parent, issued, client, lock, drawn>> /\ UNCHANGED <<recDir, recDisk, data>>
      /\ UNCHANGED <<events, memory, obsolete, oldPwds, oldKeys>> /\ UNCHANGED <<initial, lost>>
      /\ cur' = proc[p].new /\ may' = may \cup {cur'}
    BY Zenon DEF Renamed, files, replaced
<1>2. /\ proc' \in [Procs -> Command] /\ Alone(p) /\ Same(p) /\ proc'[p].pc = "confirm"
      /\ proc'[p].created = proc[p].created
    BY Zenon, GotoEffect, Parts DEF Renamed, PCs
<1>3. /\ proc[p].new \in Ids /\ proc[p].new <= issued
      /\ slot' \in [Ids -> Slots] /\ slot'[proc[p].new] = proc[p].slots
      /\ \A s \in Ids \ {proc[p].new} : slot'[s] = slot[s]
      /\ \A s \in Ids : Installed(s) => slot'[s] = slot[s]
      /\ proc[p].slots # NoSlots
    BY Zenon, RenamedSlots
<1>4. /\ proc[p].pc = "install" /\ Holds(p) /\ Saves(p) /\ Writes(proc[p]) /\ lock = p
    BY Zenon, Parts DEF Renamed, Commands, Locked
<1>5. /\ \/ KeyFileHeld(proc[p].slots.rec) \/ proc[p].slots.rec \in initial
         \/ proc[p].slots.rec \in oldKeys
      /\ proc[p].slots.pwd \in memory
      /\ proc[p].cmd = "restore" \/ rolled
         \/ (proc[p].slots.pwd \notin oldPwds /\ proc[p].slots.rec \notin oldKeys)
      /\ proc[p].cmd \in {"passwd", "restore"}
         \/ (proc[p].slots.pwd \notin obsolete /\ \A s \in Shown : slot[s].pwd \notin obsolete)
    BY Zenon, RenamedHeader
<1>6. rolled' \in BOOLEAN /\ (rolled => rolled') /\ (proc[p].cmd = "restore" => rolled')
    BY Zenon, Parts DEF Renamed, Types
<1>7. cur' \in 0..issued /\ cur' # 0
  <2>1. issued \in Nat
      BY CredentialsAssumption, Parts DEF Types
  <2> QED BY <1>1, <1>3, <2>1 DEF Ids
<1>8. Types'
    BY Zenon, <1>1, <1>2, <1>3, <1>6, <1>7, Parts DEF Types
<1>9. ASSUME NEW s \in Shown' PROVE s = proc[p].new \/ (s \in Shown /\ s \in Ids /\ Installed(s) /\ slot'[s] = slot[s])
  <2>1. s = proc[p].new \/ s \in Shown
      BY Zenon, <1>1, <1>9 DEF Shown
  <2>2. s \in Shown => s \in Ids /\ Installed(s)
      BY Zenon, ShownInstalled
  <2> QED BY Zenon, <1>3, <2>1, <2>2
<1>10. \A s \in Ids : Installed(s)' => s = proc[p].new \/ (Installed(s) /\ slot'[s] = slot[s])
    BY Zenon, <1>3 DEF Installed
<1>11. Snapshots'
  <2>1. \A s \in Ids : Installed(s)' => s <= issued' /\ slot'[s].pwd \in 1..drawn' /\ slot'[s].rec \in 1..drawn'
      BY Zenon, <1>1, <1>3, <1>4, <1>10, Parts DEF Snapshots, Holds
  <2>2. \A s \in Shown' : Installed(s)'
      BY Zenon, <1>3, <1>9 DEF Installed
  <2> QED BY Zenon, <1>7, <2>1, <2>2 DEF Snapshots
<1>12. Locked'
    BY Zenon, <1>1, <1>2, <1>4, Parts DEF Locked, Alone
<1>13. Commands'
  <2> SUFFICES ASSUME NEW q \in Procs
               PROVE  /\ proc'[q].pc = "idle" => proc'[q] = Idle /\ client'[q] = NoClient
                      /\ proc'[q].pc # "idle" => Holds(q)' /\ Writes(proc[q])' /\ Saves(q)'
      BY Zenon DEF Commands
  <2>1. CASE q = p
    <3>1. Holds(p)'
        BY Zenon, <1>1, <1>2, <1>3, <1>4 DEF Holds, Same, Installed
    <3>2. Writes(proc[p])'
        BY Zenon, <1>1, <1>2, <1>4 DEF Writes, FileAt, FilePCs, Same
    <3>3. Saves(p)'
        BY Zenon, <1>1, <1>2, <1>3 DEF Saves, Same, Placed
    <3> QED BY Zenon, <1>2, <2>1, <3>1, <3>2, <3>3
  <2>2. CASE q # p
    <3>1. proc'[q] = proc[q] /\ proc[q].pc # "install" /\ ~Placed(proc[q])
        BY Zenon, <1>2, <1>4, <2>2, Alone2 DEF Alone
    <3>2. proc[q].pc # "idle" => Writes(proc[q])'
        BY Zenon, <1>1, <3>1, KeepsWriting
    <3>3. proc[q].pc # "idle" => Holds(q)'
      <4>1. proc[q].pc # "idle" => Holds(q)
          BY Zenon, Parts DEF Commands
      <4> QED BY Zenon, <1>1, <1>3, <3>1, <4>1 DEF Holds, Installed
    <3>4. proc[q].pc # "idle" => Saves(q)'
        BY Zenon, <3>1, Parts DEF Commands, Saves, Placed
    <3> QED BY Zenon, <1>1, <3>1, <3>2, <3>3, <3>4, Parts DEF Commands
  <2> QED BY Zenon, <2>1, <2>2
<1>14. Private'
  <2> SUFFICES ASSUME NEW q \in Procs
               PROVE  /\ NewPwd(proc'[q]) =>
                         /\ \A s \in Ids : slot'[s].pwd # proc'[q].pwd
                         /\ \A o \in Procs \ {q} : proc'[o].slots.pwd # proc'[q].pwd
                         /\ proc'[q].pwd \notin oldPwds'
                      /\ NewKey(proc'[q]) =>
                         /\ \A s \in Ids : slot'[s].rec # proc'[q].key
                         /\ \A o \in Procs \ {q} : proc'[o].slots.rec # proc'[q].key
                         /\ proc'[q].key \notin oldKeys'
                      /\ proc'[q].key <= drawn'
                      /\ \A o \in Procs \ {q} : proc'[q].key # 0 => proc'[o].key # proc'[q].key
      BY Zenon DEF Private
  <2>1. \A o \in Procs : proc'[o].key = proc[o].key /\ proc'[o].slots = proc[o].slots
      BY Zenon, <1>2 DEF Alone, Same
  <2>2. CASE q = p
    <3>1. ~Fresh(proc'[p])
        BY Zenon, <1>2 DEF Fresh, FilePCs
    <3> QED BY ZenonT(30), <1>1, <2>1, <2>2, <3>1, Parts DEF Private, NewPwd, NewKey
  <2>3. CASE q # p
    <3>1. proc'[q] = proc[q]
        BY Zenon, <1>2, <2>3 DEF Alone
    <3> QED BY <1>1, <1>3, <2>1, <2>3, <3>1, Parts DEF Private
  <2> QED BY Zenon, <2>2, <2>3
<1>15. Kept'
    BY <1>1, <1>3, <1>5, <1>10, Parts DEF Kept, KeyFileHeld
<1>16. Openable'
    BY <1>1, <1>3, <1>5, <1>9, Parts DEF Openable, KeyFileHeld
<1>17. Remembered'
  <2>1. \/ Placed(proc'[p]) /\ proc'[p].cmd \in {"passwd", "restore"}
        \/ \A s \in Shown' : slot'[s].pwd \notin obsolete'
      BY Zenon, <1>1, <1>2, <1>3, <1>5, <1>9 DEF Placed, Same
  <2> QED BY Zenon, <1>7, <2>1 DEF Remembered
<1>18. ReplacedStaysReplaced'
    BY Zenon, <1>1, <1>3, <1>5, <1>6, <1>9, Parts DEF ReplacedStaysReplaced
<1> QED BY Zenon, <1>8, <1>11, <1>12, <1>13, <1>14, <1>15, <1>16, <1>17, <1>18 DEF IInv

LEMMA InstallStep == ASSUME IInv, NEW p \in Procs, Install(p) PROVE IInv'
<1>1. CASE Renamed(p)
    BY Zenon, <1>1, RenamedStep
<1>2. CASE /\ proc[p].pc = "install" /\ Fail(p, "unlock") /\ Event /\ UNCHANGED <<cur, may, slot, rolled>>
           /\ UNCHANGED <<parent, issued, client, files, lock, drawn, memory, obsolete, replaced,
                          initial, lost>>
  <2>0. UNCHANGED <<cur, may, client, slot, files, drawn, user>> /\ UNCHANGED <<parent, issued, lock>>
        /\ lock = p
      BY Zenon, <1>2, Parts DEF user, Locked
  <2>1. /\ proc' \in [Procs -> Command] /\ Alone(p) /\ Same(p) /\ proc'[p].created = proc[p].created
        /\ proc'[p].pc = "unlock" /\ proc'[p].status = "ERROR"
      BY Zenon, <1>2, FailEffect, Parts DEF PCs
  <2>2. Locked'
      BY Zenon, <2>0, <2>1, Parts DEF Locked, Placed, Committed, Alone
  <2>3. \A q \in Procs : proc'[q].pc # "idle" => Saves(q)'
    <3> SUFFICES ASSUME NEW q \in Procs, proc'[q].pc # "idle" PROVE Saves(q)'
        BY Zenon
    <3>1. CASE q = p
        BY Zenon, <2>1, <3>1 DEF Saves, Placed, Committed, Same
    <3>2. CASE q # p
        BY Zenon, <2>0, <3>2, <2>1, Parts DEF Alone, Commands, Saves, Placed, Installed
    <3> QED BY Zenon, <3>1, <3>2
  <2>4. issued' \in 0..MaxSnap /\ issued <= issued' /\ parent' \in [Ids -> 0..MaxSnap]
      BY <2>0, CredentialsAssumption, Parts DEF Types
  <2>5. events' \in 0..MaxEvents
      BY Zenon, <1>2, EventBound, Parts
  <2> QED BY Zenon, <1>2, <2>0, <2>1, <2>2, <2>3, <2>4, <2>5, CommitFrame DEF Same
<1> QED BY Zenon, <1>1, <1>2 DEF Install, Renamed

LEMMA ConfirmStep == ASSUME IInv, NEW p \in Procs, Confirm(p) PROVE IInv'
<1>1. /\ UNCHANGED <<parent, issued, cur, client, slot, lock, drawn>> /\ UNCHANGED <<recDir, recDisk, data>>
      /\ UNCHANGED <<memory, obsolete, oldPwds, oldKeys>> /\ UNCHANGED <<initial, rolled, lost>>
      /\ proc[p].pc = "confirm" /\ may' \in {may, {cur}}
    BY Zenon DEF Confirm, files, user, replaced
<1>2. /\ proc' \in [Procs -> Command] /\ Alone(p) /\ Same(p) /\ proc'[p].created = proc[p].created
      /\ proc'[p].pc = "unlock" /\ proc'[p].status \in Committed
      /\ proc'[p].status = "OK" => may' = {cur}
    BY Zenon, StatusEffect, Parts DEF Confirm, PCs, Committed
<1>3. Holds(p) /\ Saves(p) /\ Writes(proc[p]) /\ lock = p /\ Placed(proc[p]) /\ Placed(proc'[p])
    BY Zenon, <1>1, <1>2, Parts DEF Commands, Locked, Placed
<1>4. cur \in may /\ may' \subseteq may /\ cur \in may' /\ Shown' \subseteq Shown
    BY Zenon, <1>1, Parts DEF Types, Shown
<1>5. events' \in 0..MaxEvents
    BY Zenon, EventBound, Parts DEF Confirm
<1>6. Types'
    BY Zenon, <1>1, <1>2, <1>4, <1>5, Parts DEF Types
<1>7. Snapshots' /\ ReplacedStaysReplaced'
    BY Zenon, <1>1, <1>4, Parts DEF Snapshots, ReplacedStaysReplaced, Installed
<1>8. Locked'
    BY Zenon, <1>1, <1>2, <1>3, Parts DEF Locked, Alone
<1>9. Commands'
  <2> SUFFICES ASSUME NEW q \in Procs
               PROVE  /\ proc'[q].pc = "idle" => proc'[q] = Idle /\ client'[q] = NoClient
                      /\ proc'[q].pc # "idle" => Holds(q)' /\ Writes(proc[q])' /\ Saves(q)'
      BY Zenon DEF Commands
  <2>1. CASE q = p
    <3>1. Holds(p)'
        BY Zenon, <1>1, <1>2, <1>3 DEF Holds, Same, Installed
    <3>2. Writes(proc[p])'
        BY Zenon, <1>1, <1>2, <1>3 DEF Writes, FileAt, FilePCs, Same
    <3>3. Saves(p)'
        BY Zenon, <1>1, <1>2, <1>3 DEF Saves, Same
    <3> QED BY Zenon, <1>2, <2>1, <3>1, <3>2, <3>3
  <2>2. CASE q # p
    <3>1. proc'[q] = proc[q] /\ proc[q].pc # "install" /\ ~Placed(proc[q])
        BY Zenon, <1>2, <1>3, <2>2, Alone2 DEF Alone
    <3>2. proc[q].pc # "idle" => Writes(proc[q])'
        BY Zenon, <1>1, <3>1, KeepsWriting
    <3>3. proc[q].pc # "idle" => Holds(q)'
        BY Zenon, <1>1, <3>1, KeepsHolding
    <3>4. proc[q].pc # "idle" => Saves(q)'
        BY Zenon, <3>1, Parts DEF Commands, Saves, Placed
    <3> QED BY Zenon, <1>1, <3>1, <3>2, <3>3, <3>4, Parts DEF Commands
  <2> QED BY Zenon, <2>1, <2>2
<1>10. ASSUME NEW q \in Procs
      PROVE  /\ Fresh(proc'[q]) => Fresh(proc[q]) /\ Placed(proc'[q]) = Placed(proc[q])
             /\ Placed(proc[q]) => Placed(proc'[q])
             /\ proc'[q].cmd = proc[q].cmd /\ proc'[q].pwd = proc[q].pwd /\ proc'[q].key = proc[q].key
             /\ proc'[q].slots = proc[q].slots
  <2>1. CASE q = p
      BY Zenon, <1>2, <1>3, <2>1 DEF Fresh, Same, FilePCs, Committed
  <2>2. CASE q # p
      BY Zenon, <1>2, <2>2 DEF Alone
  <2> QED BY Zenon, <2>1, <2>2
<1>11. Private'
    BY <1>1, <1>10, Parts DEF Private, NewPwd, NewKey
<1>12. Kept' /\ Openable'
    BY Zenon, <1>1, <1>4, Parts DEF Kept, Openable, Installed, KeyFileHeld
<1>13. Remembered'
    BY Zenon, <1>1, <1>4, <1>10, Parts DEF Remembered
<1> QED BY Zenon, <1>6, <1>7, <1>8, <1>9, <1>11, <1>12, <1>13 DEF IInv

-----------------------------------------------------------------------------
(***************************************************************************)
(* The end of a command.                                                   *)
(***************************************************************************)
LEMMA IdleTyped == Idle \in Command /\ Idle.pc = "idle" /\ Idle.slots = NoSlots /\ Idle.key = 0
                   /\ NoClient \in Client /\ NoSlots \in Slots
<1>1. 0 \in 0..MaxSnap /\ 0 \in 0..MaxCreds
    BY CredentialsAssumption
<1>2. NoSlots \in Slots
    BY Zenon, <1>1 DEF NoSlots, Slots
<1>3. NoClient \in Client
    BY Zenon, <1>1 DEF NoClient, Client
<1>4. "idle" \in PCs /\ "none" \in Cmds \cup {"none"} /\ NoProc \in Paths \cup {NoProc}
      /\ "none" \in {"none", "OK", "DURABILITY", "ERROR"} /\ FALSE \in BOOLEAN
    BY Zenon DEF PCs
<1>5. Idle \in Command
    BY Zenon, <1>1, <1>2, <1>4 DEF Idle, Command
<1> QED BY Zenon, <1>2, <1>3, <1>5 DEF Idle

\* p is gone, and with it its lock; the rest is what it leaves to the user.
Leaves(p) ==
    /\ Done(p) /\ \A q \in Procs \ {p} : lock = q => lock' = q
    /\ UNCHANGED <<vaultFile, slot, files, drawn, memory, rolled, lost>>

LEMMA LeavesStep ==
    ASSUME IInv, NEW p \in Procs, Leaves(p), events' \in 0..MaxEvents,
           obsolete' \subseteq 1..drawn, oldPwds' \subseteq 1..drawn, oldKeys' \subseteq 1..drawn,
           initial' \subseteq initial, Kept', Openable', ReplacedStaysReplaced',
           \A q \in Procs \ {p} : proc[q].pc # "idle" /\ proc[q].cmd = "init" => proc[q].key \in initial',
           \A q \in Procs \ {p} : NewPwd(proc[q]) => proc[q].pwd \notin oldPwds',
           \A q \in Procs \ {p} : NewKey(proc[q]) => proc[q].key \notin oldKeys',
           \/ \E q \in Procs \ {p} : Placed(proc[q]) /\ proc[q].cmd \in {"passwd", "restore"}
           \/ \A s \in Shown : slot[s].pwd \notin obsolete',
           cur = 0 => \A q \in Procs \ {p} :
                          Fresh(proc[q]) /\ proc[q].cmd = "init" => proc[q].pwd \notin obsolete'
    PROVE  IInv'
<1>1. /\ UNCHANGED <<parent, issued, cur, may, slot, drawn>> /\ UNCHANGED <<recDir, recDisk, data>>
      /\ UNCHANGED <<memory, rolled, lost>>
      /\ \A q \in Procs \ {p} : lock = q => lock' = q
    BY Zenon DEF Leaves, vaultFile, files
<1>2. /\ proc' \in [Procs -> Command] /\ Alone(p) /\ proc'[p] = Idle
      /\ client' \in [Procs -> Client] /\ client'[p] = NoClient
      /\ \A q \in Procs \ {p} : client'[q] = client[q]
    BY Zenon, IdleTyped, Parts DEF Leaves, Done, Alone, Types
<1>3. /\ proc'[p].pc = "idle" /\ proc'[p].slots.pwd = 0 /\ proc'[p].slots.rec = 0 /\ proc'[p].key = 0
      /\ ~Fresh(proc'[p]) /\ ~Placed(proc'[p])
    BY <1>2, IdleTyped DEF Fresh, Placed, NoSlots, FilePCs
<1>4. Types'
    BY Zenon, <1>1, <1>2, Parts DEF Types
<1>5. Snapshots'
    BY Zenon, <1>1, Parts DEF Snapshots, Shown, Installed
<1>6. Locked'
    BY Zenon, <1>1, <1>2, <1>3, Parts DEF Locked, Alone
<1>7. Commands'
  <2> SUFFICES ASSUME NEW q \in Procs
               PROVE  /\ proc'[q].pc = "idle" => proc'[q] = Idle /\ client'[q] = NoClient
                      /\ proc'[q].pc # "idle" => Holds(q)' /\ Writes(proc[q])' /\ Saves(q)'
      BY Zenon DEF Commands
  <2>1. CASE q = p
      BY Zenon, <1>2, <1>3, <2>1
  <2>2. CASE q # p
    <3>1. proc'[q] = proc[q] /\ client'[q] = client[q]
        BY Zenon, <1>2, <2>2 DEF Alone
    <3>2. proc[q].pc # "idle" => Writes(proc[q])'
        BY Zenon, <1>1, <3>1, KeepsWriting
    <3>3. proc[q].pc # "idle" => Holds(q)'
      <4>1. proc[q].pc # "idle" => Holds(q)
          BY Zenon, Parts DEF Commands
      <4> QED BY Zenon, <1>1, <2>2, <3>1, <4>1 DEF Holds, Installed
    <3>4. proc[q].pc # "idle" => Saves(q)'
        BY Zenon, <1>1, <3>1, Parts DEF Commands, Saves, Placed, Installed
    <3> QED BY Zenon, <1>1, <3>1, <3>2, <3>3, <3>4, Parts DEF Commands
  <2> QED BY Zenon, <2>1, <2>2
<1>8. Private'
  <2> SUFFICES ASSUME NEW q \in Procs
               PROVE  /\ NewPwd(proc'[q]) =>
                         /\ \A s \in Ids : slot'[s].pwd # proc'[q].pwd
                         /\ \A o \in Procs \ {q} : proc'[o].slots.pwd # proc'[q].pwd
                         /\ proc'[q].pwd \notin oldPwds'
                      /\ NewKey(proc'[q]) =>
                         /\ \A s \in Ids : slot'[s].rec # proc'[q].key
                         /\ \A o \in Procs \ {q} : proc'[o].slots.rec # proc'[q].key
                         /\ proc'[q].key \notin oldKeys'
                      /\ proc'[q].key <= drawn'
                      /\ \A o \in Procs \ {q} : proc'[q].key # 0 => proc'[o].key # proc'[q].key
      BY Zenon DEF Private
  <2>1. CASE q = p
    <3>1. 0 <= drawn
        BY SMTT(30), CredentialsAssumption, Parts DEF Types
    <3> QED BY Zenon, <1>1, <1>3, <2>1, <3>1 DEF NewPwd, NewKey
  <2>2. CASE q # p
    <3>1. proc'[q] = proc[q]
        BY Zenon, <1>2, <2>2 DEF Alone
    <3>2. NewPwd(proc[q]) \/ NewKey(proc[q]) =>
             proc[q].slots.pwd \in 1..drawn /\ proc[q].slots.rec \in 1..drawn
             /\ (NewPwd(proc[q]) => proc[q].pwd = proc[q].slots.pwd)
             /\ (NewKey(proc[q]) => proc[q].key = proc[q].slots.rec)
        BY Zenon, Parts DEF NewPwd, NewKey, Fresh, FilePCs, Commands, Holds
    <3>3. (NewPwd(proc[q]) => proc[q].pwd # 0) /\ (NewKey(proc[q]) => proc[q].key # 0)
        BY Zenon, <3>2, CredsBound, Parts
    <3> QED BY <1>1, <1>2, <1>3, <2>2, <3>1, <3>3, Parts DEF Private, Alone
  <2> QED BY Zenon, <2>1, <2>2
<1>9. Remembered'
    BY Zenon, <1>1, <1>2, <1>3 DEF Remembered, Alone, Shown
<1> QED BY Zenon, <1>4, <1>5, <1>6, <1>7, <1>8, <1>9 DEF IInv

LEMMA KillStep == ASSUME IInv, NEW p \in Procs, Kill(p) PROVE IInv'
<1>1. /\ UNCHANGED <<cur, may, slot, recDir, recDisk, data>> /\ UNCHANGED <<oldPwds, oldKeys, initial>>
      /\ UNCHANGED <<memory, drawn, rolled, lost>> /\ obsolete' = {} /\ Leaves(p)
    BY Zenon DEF Kill, vaultFile, files, replaced, Leaves
<1>2. Kept' /\ Openable' /\ ReplacedStaysReplaced'
    BY <1>1, Parts DEF Kept, Openable, ReplacedStaysReplaced, Shown, Installed, KeyFileHeld
<1>3. events' \in 0..MaxEvents
    BY Zenon, EventBound, Parts DEF Kill
<1>4. oldPwds' \subseteq 1..drawn /\ oldKeys' \subseteq 1..drawn
    BY Zenon, <1>1, Parts DEF Types
<1>5. ASSUME NEW q \in Procs
      PROVE  /\ proc[q].pc # "idle" /\ proc[q].cmd = "init" => proc[q].key \in initial'
             /\ NewPwd(proc[q]) => proc[q].pwd \notin oldPwds'
             /\ NewKey(proc[q]) => proc[q].key \notin oldKeys'
    BY Zenon, <1>1, Parts DEF Commands, Holds, Private
<1> QED BY Zenon, <1>1, <1>2, <1>3, <1>4, <1>5, LeavesStep

\* init's key is durable when its file has been reported.
LEMMA ReportStep == ASSUME IInv, NEW p \in Procs, Report(p) PROVE IInv'
<1>1. /\ UNCHANGED <<cur, may, slot, recDir, recDisk, data>> /\ UNCHANGED <<oldPwds, oldKeys, obsolete>>
      /\ UNCHANGED <<memory, drawn, rolled, lost>> /\ UNCHANGED events
      /\ Leaves(p) /\ proc[p].pc = "report" /\ initial' \subseteq initial
    BY Zenon DEF Report, vaultFile, files, replaced, Leaves
<1>2. Writes(proc[p]) /\ Holds(p) /\ ~Placed(proc[p])
    BY Zenon, <1>1, Parts DEF Commands, Placed
<1>3. \A k \in initial \ initial' : k = proc[p].key /\ KeyFileHeld(proc[p].key) /\ proc[p].cmd = "init"
    BY Zenon, <1>1, <1>2 DEF Report, Writes, Holds, FileAt, KeyFileHeld
<1>4. \A k \in initial \ initial' : KeyFileHeld(k)
    BY Zenon, <1>3 DEF KeyFileHeld
<1>5. Kept'
    BY <1>1, <1>4, Parts DEF Kept, Installed, KeyFileHeld
<1>6. Openable' /\ ReplacedStaysReplaced'
    BY <1>1, Parts DEF Openable, ReplacedStaysReplaced, Shown, KeyFileHeld
<1>7. oldPwds' \subseteq 1..drawn /\ oldKeys' \subseteq 1..drawn /\ obsolete' \subseteq 1..drawn
      /\ events' \in 0..MaxEvents
    BY Zenon, <1>1, Parts DEF Types
<1>8. ASSUME NEW q \in Procs \ {p}
      PROVE  /\ proc[q].pc # "idle" /\ proc[q].cmd = "init" => proc[q].key \in initial'
             /\ NewPwd(proc[q]) => proc[q].pwd \notin oldPwds'
             /\ NewKey(proc[q]) => proc[q].key \notin oldKeys'
  <2>1. proc[p].cmd \in {"init", "rotate"}
      BY Zenon, <1>1, <1>2 DEF Writes
  <2>2. proc[p].key # 0
      BY Zenon, <1>1, <2>1, Writer
  <2>3. proc[q].key # proc[p].key
      BY Zenon, <2>2, Parts DEF Private
  <2> QED BY Zenon, <1>1, <1>3, <2>3, Parts DEF Commands, Holds, Private
<1>9. \/ \E q \in Procs \ {p} : Placed(proc[q]) /\ proc[q].cmd \in {"passwd", "restore"}
      \/ \A s \in Shown : slot[s].pwd \notin obsolete'
    BY Zenon, <1>1, <1>2, Parts DEF Remembered
<1>10. cur = 0 => \A q \in Procs \ {p} :
                      Fresh(proc[q]) /\ proc[q].cmd = "init" => proc[q].pwd \notin obsolete'
    BY Zenon, <1>1, Parts DEF Remembered
<1> QED BY Zenon, <1>1, <1>5, <1>6, <1>7, <1>8, <1>9, <1>10, LeavesStep

\* unlock_vault where the command goes on: init to its key file, rotate to the
\* removal of the one it wrote.
LEMMA UnlockGoesOnStep ==
    ASSUME IInv, NEW p \in Procs, NEW l \in {"encode", "unlink"}, Goto(p, l), proc[p].pc = "unlock",
           \/ proc[p].cmd = "init" /\ proc[p].status \in Committed /\ l = "encode"
           \/ proc[p].cmd = "rotate" /\ proc[p].status = "ERROR" /\ l = "unlink",
           lock' = IF lock = p THEN NoProc ELSE lock,
           UNCHANGED <<register, slot, files, drawn, events, user>>
    PROVE  IInv'
<1>1. /\ UNCHANGED <<parent, issued, cur, may, client>> /\ UNCHANGED <<slot, drawn, events>>
      /\ UNCHANGED <<memory, obsolete, oldPwds, oldKeys>> /\ UNCHANGED <<initial, rolled, lost>>
      /\ UNCHANGED <<recDir, recDisk, data>>
    BY Zenon DEF register, vaultFile, user, replaced, files
<1>2. /\ proc' \in [Procs -> Command] /\ Alone(p) /\ Same(p) /\ proc'[p].pc = l
      /\ proc'[p].created = proc[p].created
    BY Zenon, GotoEffect, Parts DEF PCs, FilePCs
<1>3. Holds(p) /\ Writes(proc[p])
    BY Zenon, Parts DEF Commands
<1>4. Types'
    BY Zenon, <1>1, <1>2, Parts DEF Types
<1>5. Snapshots' /\ ReplacedStaysReplaced' /\ Kept' /\ Openable'
    BY <1>1, Parts DEF Snapshots, ReplacedStaysReplaced, Shown, Installed, Kept, Openable, KeyFileHeld
<1>6. Locked'
    BY Zenon, <1>2, Parts DEF Locked, Placed, Alone
<1>7. Commands'
  <2> SUFFICES ASSUME NEW q \in Procs
               PROVE  /\ proc'[q].pc = "idle" => proc'[q] = Idle /\ client'[q] = NoClient
                      /\ proc'[q].pc # "idle" => Holds(q)' /\ Writes(proc[q])' /\ Saves(q)'
      BY Zenon DEF Commands
  <2>1. CASE q = p
    <3>1. Holds(p)'
        BY Zenon, <1>1, <1>2, <1>3 DEF Holds, Same, Installed
    <3>2. Saves(p)'
        BY Zenon, <1>2 DEF Saves, Placed
    <3>3. Writes(proc[p])'
        BY Zenon, <1>1, <1>2, <1>3 DEF Writes, FileAt, Same
    <3> QED BY Zenon, <1>2, <2>1, <3>1, <3>2, <3>3
  <2>2. CASE q # p
    <3>1. proc'[q] = proc[q]
        BY Zenon, <1>2, <2>2 DEF Alone
    <3>2. proc[q].pc # "idle" => Writes(proc[q])'
        BY Zenon, <1>1, <3>1, KeepsWriting
    <3>3. proc[q].pc # "idle" => Holds(q)' /\ Saves(q)'
        BY Zenon, <1>1, <3>1, KeepsHolding, KeepsSaving
    <3> QED BY Zenon, <1>1, <3>1, <3>2, <3>3, Parts DEF Commands
  <2> QED BY Zenon, <2>1, <2>2
<1>8. ASSUME NEW q \in Procs
      PROVE  /\ Fresh(proc'[q]) => Fresh(proc[q])
             /\ proc'[q].cmd = proc[q].cmd /\ proc'[q].pwd = proc[q].pwd /\ proc'[q].key = proc[q].key
             /\ proc'[q].slots = proc[q].slots
             /\ Placed(proc[q]) /\ proc[q].cmd \in {"passwd", "restore"} => Placed(proc'[q])
  <2>1. CASE q = p
      BY Zenon, <1>2, <2>1 DEF Fresh, Same, FilePCs
  <2>2. CASE q # p
      BY Zenon, <1>2, <2>2 DEF Alone
  <2> QED BY Zenon, <2>1, <2>2
<1>9. Private'
    BY <1>1, <1>8, Parts DEF Private, NewPwd, NewKey
<1>10. Remembered'
    BY Zenon, <1>1, <1>8, Parts DEF Remembered, Shown
<1> QED BY Zenon, <1>4, <1>5, <1>6, <1>7, <1>9, <1>10 DEF IInv

\* What the user hears, case by case.
LEMMA HeardCases ==
    ASSUME NEW p \in Procs, Heard(p)
    PROVE  /\ proc[p].cmd \in {"passwd", "restore"} /\ proc[p].status = "OK" =>
                 obsolete' = memory \ {proc[p].slots.pwd}
           /\ proc[p].cmd \in {"passwd", "restore"} /\ proc[p].status = "DURABILITY" => obsolete' = {}
           /\ \/ obsolete' = obsolete
              \/ proc[p].cmd \in {"passwd", "restore"} /\ proc[p].status \in Committed
              \/ /\ proc[p].cmd = "passwd" /\ proc[p].status = "ERROR"
                 /\ obsolete' = obsolete \cup {proc[p].slots.pwd}
<1> DEFINE a == proc[p].cmd \in {"passwd", "restore"} /\ proc[p].status = "OK"
           b == proc[p].cmd \in {"passwd", "restore"} /\ proc[p].status = "DURABILITY"
           c == proc[p].cmd = "passwd" /\ proc[p].status = "ERROR"
<1>1. CASE a
  <2>1. obsolete' = memory \ {proc[p].slots.pwd}
      BY Zenon, <1>1, ~b, ~c DEF Heard
  <2> QED BY Zenon, <1>1, <2>1 DEF Committed
<1>2. CASE b
  <2>1. obsolete' = {}
      BY Zenon, <1>2, ~a, ~c DEF Heard
  <2> QED BY Zenon, <1>2, <2>1 DEF Committed
<1>3. CASE c
  <2>1. obsolete' = obsolete \cup {proc[p].slots.pwd}
      BY Zenon, <1>3, ~a, ~b DEF Heard
  <2> QED BY Zenon, <1>3, <2>1
<1>4. CASE ~a /\ ~b /\ ~c
  <2>1. obsolete' = obsolete
      BY Zenon, <1>4 DEF Heard
  <2> QED BY Zenon, <1>4, <2>1
<1> QED BY Zenon, <1>1, <1>2, <1>3, <1>4

\* The end of the lock: what the command reports as replaced is in no snapshot a
\* crash may show.
LEMMA UnlockEndsStep ==
    ASSUME IInv, NEW p \in Procs, proc[p].pc = "unlock", Leaves(p), Heard(p), UNCHANGED <<events, initial>>,
           proc[p].cmd = "init" => proc[p].status \notin Committed,
           oldPwds' = oldPwds \cup NowInvalid(p, "passwd", slot[client[p].of].pwd),
           oldKeys' = oldKeys \cup NowInvalid(p, "rotate", slot[client[p].of].rec)
    PROVE  IInv'
<1>1. /\ UNCHANGED <<cur, may, slot, recDir, recDisk, data>>
      /\ UNCHANGED <<memory, drawn, rolled, lost>> /\ UNCHANGED <<events, initial>>
    BY Zenon DEF vaultFile, files, Leaves
<1>2. Holds(p) /\ Saves(p) /\ proc[p].status \in Committed \cup {"ERROR"}
    BY Zenon, Parts DEF Commands, Saves
<1>3. ASSUME proc[p].status \in Committed
      PROVE  /\ cur = proc[p].new /\ cur \in Ids /\ cur # 0 /\ slot[cur] = proc[p].slots
             /\ proc[p].status = "OK" => Shown = {cur}
             /\ \A q \in Procs \ {p} : ~Placed(proc[q])
  <2>1. Placed(proc[p])
      BY Zenon, <1>3 DEF Placed
  <2>2. cur = proc[p].new /\ cur \in Ids /\ slot[cur] = proc[p].slots
        /\ (proc[p].status = "OK" => may = {cur})
      BY Zenon, <1>2, <2>1 DEF Saves
  <2>3. cur # 0
      BY <2>2 DEF Ids
  <2> QED BY Zenon, <2>1, <2>2, <2>3, Alone2 DEF Shown
<1>4. \/ oldPwds' = oldPwds
      \/ /\ proc[p].cmd = "passwd" /\ proc[p].status = "OK" /\ client[p].of \in Ids
         /\ oldPwds' = oldPwds \cup {slot[client[p].of].pwd}
         /\ slot[client[p].of].pwd \in 1..drawn /\ slot[client[p].of].pwd # proc[p].slots.pwd
    BY Zenon, <1>2, Parts DEF NowInvalid, Holds, Snapshots
<1>5. \/ oldKeys' = oldKeys
      \/ /\ proc[p].cmd = "rotate" /\ proc[p].status = "OK" /\ client[p].of \in Ids
         /\ oldKeys' = oldKeys \cup {slot[client[p].of].rec}
         /\ slot[client[p].of].rec \in 1..drawn /\ slot[client[p].of].rec # proc[p].slots.rec
    BY Zenon, <1>2, Parts DEF NowInvalid, Holds, Snapshots
<1>6. oldPwds' \subseteq 1..drawn /\ oldKeys' \subseteq 1..drawn
    BY Zenon, <1>4, <1>5, Parts DEF Types
<1>7. Kept'
    BY Zenon, <1>1, <1>5, Parts DEF Kept, Installed, KeyFileHeld
<1>8. Openable'
  <2>1. CASE oldKeys' = oldKeys
      BY <1>1, <2>1, Parts DEF Openable, Shown, KeyFileHeld
  <2>2. CASE proc[p].status = "OK"
    <3>1. Shown = {cur} /\ slot[cur].pwd \in memory
        BY Zenon, <1>2, <1>3, <2>2 DEF Committed, Holds
    <3> QED BY Zenon, <1>1, <3>1 DEF Openable, Shown
  <2> QED BY Zenon, <1>5, <2>1, <2>2
<1>9. ReplacedStaysReplaced'
  <2>1. CASE oldPwds' = oldPwds /\ oldKeys' = oldKeys
      BY Zenon, <1>1, <2>1, Parts DEF ReplacedStaysReplaced, Shown
  <2>2. CASE proc[p].status = "OK"
    <3>1. Shown = {cur} /\ slot[cur] = proc[p].slots
        BY Zenon, <1>3, <2>2 DEF Committed
    <3>2. rolled \/ (slot[cur].pwd \notin oldPwds /\ slot[cur].rec \notin oldKeys)
        BY Zenon, <3>1, Parts DEF ReplacedStaysReplaced
    <3>3. rolled \/ (slot[cur].pwd \notin oldPwds' /\ slot[cur].rec \notin oldKeys')
        BY Zenon, <1>4, <1>5, <3>1, <3>2
    <3> QED BY Zenon, <1>1, <3>1, <3>3 DEF ReplacedStaysReplaced, Shown
  <2> QED BY Zenon, <1>4, <1>5, <2>1, <2>2
<1>10. ASSUME NEW q \in Procs \ {p}
       PROVE  /\ proc[q].pc # "idle" /\ proc[q].cmd = "init" => proc[q].key \in initial'
              /\ NewPwd(proc[q]) => proc[q].pwd \notin oldPwds'
              /\ NewKey(proc[q]) => proc[q].key \notin oldKeys'
  <2>1. proc[q].pc # "idle" /\ proc[q].cmd = "init" => proc[q].key \in initial'
      BY Zenon, <1>1, Parts DEF Commands, Holds
  <2>2. NewPwd(proc[q]) => proc[q].pwd \notin oldPwds'
      BY Zenon, <1>4, Parts DEF Private
  <2>3. NewKey(proc[q]) => proc[q].key \notin oldKeys'
      BY Zenon, <1>5, Parts DEF Private
  <2> QED BY Zenon, <2>1, <2>2, <2>3
<1>11. /\ obsolete' \subseteq 1..drawn
       /\ \/ \E q \in Procs \ {p} : Placed(proc[q]) /\ proc[q].cmd \in {"passwd", "restore"}
          \/ \A s \in Shown : slot[s].pwd \notin obsolete'
       /\ cur = 0 => \A q \in Procs \ {p} :
                         Fresh(proc[q]) /\ proc[q].cmd = "init" => proc[q].pwd \notin obsolete'
  <2>1. CASE proc[p].cmd \in {"passwd", "restore"} /\ proc[p].status \in Committed
    <3>1. obsolete' = {} \/ (proc[p].status = "OK" /\ obsolete' = memory \ {proc[p].slots.pwd})
        BY Zenon, <2>1, HeardCases DEF Committed
    <3> QED BY Zenon, <1>3, <2>1, <3>1, Parts DEF Types
  <2>2. CASE /\ proc[p].cmd = "passwd" /\ proc[p].status = "ERROR"
             /\ obsolete' = obsolete \cup {proc[p].slots.pwd}
    <3>1. NewPwd(proc[p]) /\ ~Placed(proc[p])
        BY Zenon, <2>2 DEF NewPwd, Fresh, Placed, Committed
    <3>2. proc[p].pwd = proc[p].slots.pwd /\ proc[p].slots.pwd \in 1..drawn
        BY Zenon, <1>2, <2>2 DEF Holds
    <3>3. \A s \in Ids : slot[s].pwd # proc[p].slots.pwd
        BY Zenon, <3>1, <3>2, Parts DEF Private
    <3>4. \A s \in Shown : slot[s].pwd # proc[p].slots.pwd
        BY Zenon, <3>3, ShownInstalled
    <3>5. \A q \in Procs \ {p} : Fresh(proc[q]) /\ proc[q].cmd = "init" => proc[q].pwd # proc[p].slots.pwd
        BY Zenon, Parts DEF Private, NewPwd
    <3>6. obsolete' \subseteq 1..drawn
        BY Zenon, <2>2, <3>2, Parts DEF Types
    <3> QED BY Zenon, <2>2, <3>1, <3>4, <3>5, <3>6, Parts DEF Remembered
  <2>3. CASE obsolete' = obsolete /\ ~(proc[p].cmd \in {"passwd", "restore"} /\ proc[p].status \in Committed)
    <3>1. ~(Placed(proc[p]) /\ proc[p].cmd \in {"passwd", "restore"})
        BY Zenon, <2>3 DEF Placed
    <3> QED BY Zenon, <2>3, <3>1, Parts DEF Remembered, Types
  <2> QED BY Zenon, <2>1, <2>2, <2>3, HeardCases
<1>12. events' \in 0..MaxEvents
    BY Zenon, <1>1, Parts DEF Types
<1> QED BY Zenon, <1>1, <1>6, <1>7, <1>8, <1>9, <1>10, <1>11, <1>12, LeavesStep

LEMMA UnlockStep == ASSUME IInv, NEW p \in Procs, Unlock(p) PROVE IInv'
<1>0. /\ proc[p].pc = "unlock" /\ lock' = IF lock = p THEN NoProc ELSE lock
      /\ UNCHANGED <<vaultFile, slot, files, drawn, events, memory, initial, rolled, lost>>
      /\ proc[p].status \in Committed \cup {"ERROR"}
    BY Zenon, Parts DEF Unlock, Commands, Saves
<1>1. CASE /\ proc[p].cmd = "init" /\ proc[p].status \in Committed /\ Goto(p, "encode")
           /\ UNCHANGED <<client, obsolete, replaced>>
  <2>1. UNCHANGED <<register, slot, files, drawn, events, user>>
      BY Zenon, <1>0, <1>1 DEF register, user
  <2> QED BY Zenon, <1>0, <1>1, <2>1, UnlockGoesOnStep
<1>2. CASE /\ proc[p].cmd = "rotate" /\ ~KeepsOutput(p) /\ Goto(p, "unlink")
           /\ UNCHANGED <<client, obsolete, replaced>>
  <2>1. UNCHANGED <<register, slot, files, drawn, events, user>>
      BY Zenon, <1>0, <1>2 DEF register, user
  <2>2. proc[p].status = "ERROR"
      BY Zenon, <1>0, <1>2 DEF KeepsOutput
  <2> QED BY Zenon, <1>0, <1>2, <2>1, <2>2, UnlockGoesOnStep
<1>3. CASE /\ proc[p].cmd = "init" => proc[p].status \notin Committed
           /\ Heard(p) /\ Done(p)
           /\ oldPwds' = oldPwds \cup NowInvalid(p, "passwd", slot[client[p].of].pwd)
           /\ oldKeys' = oldKeys \cup NowInvalid(p, "rotate", slot[client[p].of].rec)
  <2>1. Leaves(p) /\ UNCHANGED <<events, initial>>
      BY Zenon, <1>0, <1>3 DEF Leaves
  <2> QED BY Zenon, <1>0, <1>3, <2>1, UnlockEndsStep
<1> QED BY Zenon, <1>1, <1>2, <1>3 DEF Unlock

-----------------------------------------------------------------------------
(***************************************************************************)
(* The beginning of a command.                                             *)
(***************************************************************************)

\* p begins: what is new in its record is larger than everything drawn so far,
\* and what is not new is in a snapshot.
LEMMA BeginFrame ==
    ASSUME IInv, NEW p \in Procs, proc[p] = Idle, NEW r \in Command, proc' = [proc EXCEPT ![p] = r],
           NEW c \in Client, client' = [client EXCEPT ![p] = c],
           UNCHANGED <<vaultFile, slot, files, lock, replaced, rolled, lost>>, events' \in 0..MaxEvents,
           drawn' \in 0..MaxCreds, drawn <= drawn',
           memory \subseteq memory', memory' \subseteq 1..drawn',
           initial \subseteq initial', initial' \subseteq 1..drawn',
           \A k \in initial' \ initial : k > drawn,
           obsolete' \subseteq obsolete,
           r.pc = "lock" \/ (r.pc = "encode" /\ r.cmd = "rotate"), r.cmd = "rotate" => r.pc = "encode",
           ~r.created, Holds(p)',
           r.cmd \in {"init", "passwd"} => r.pwd > drawn,
           r.cmd \in {"init", "rotate"} => r.key > drawn,
           r.key <= drawn', r.key = 0 \/ r.key > drawn,
           r.slots.pwd > drawn \/ \E s \in Ids : r.slots.pwd = slot[s].pwd,
           r.slots.rec > drawn \/ \E s \in Ids : r.slots.rec = slot[s].rec
    PROVE  IInv'
<1>1. /\ UNCHANGED <<parent, issued, cur, may, slot, lock>> /\ UNCHANGED <<recDir, recDisk, data>>
      /\ UNCHANGED <<oldPwds, oldKeys, rolled, lost>>
    BY Zenon DEF vaultFile, files, replaced
<1>2. /\ proc' \in [Procs -> Command] /\ Alone(p) /\ proc'[p] = r
      /\ client' \in [Procs -> Client] /\ client'[p] = c
      /\ \A q \in Procs \ {p} : client'[q] = client[q]
    BY Zenon, Parts DEF Alone, Types
<1>3. drawn \in Nat /\ drawn' \in Nat /\ 1..drawn \subseteq 1..drawn'
    BY CredentialsAssumption, Parts DEF Types
<1>4. ~Placed(r) /\ ~Placed(proc[p]) /\ r.pc \notin {"idle", "check", "install", "unlock"}
    BY Zenon, IdleTyped DEF Placed
<1>5. Types'
    BY Zenon, <1>1, <1>2, <1>3, Parts DEF Types
<1>6. Snapshots' /\ ReplacedStaysReplaced'
    BY <1>1, <1>3, Parts DEF Snapshots, ReplacedStaysReplaced, Shown, Installed
<1>7. Locked'
    BY Zenon, <1>1, <1>2, <1>4, Parts DEF Locked, Alone
<1>8. Commands'
  <2> SUFFICES ASSUME NEW q \in Procs
               PROVE  /\ proc'[q].pc = "idle" => proc'[q] = Idle /\ client'[q] = NoClient
                      /\ proc'[q].pc # "idle" => Holds(q)' /\ Writes(proc[q])' /\ Saves(q)'
      BY Zenon DEF Commands
  <2>1. CASE q = p
    <3>1. Writes(proc[p])'
        BY Zenon, <1>2 DEF Writes, FilePCs
    <3>2. Saves(p)'
        BY Zenon, <1>2, <1>4 DEF Saves
    <3> QED BY Zenon, <1>2, <1>4, <2>1, <3>1, <3>2
  <2>2. CASE q # p
    <3>1. proc'[q] = proc[q] /\ client'[q] = client[q]
        BY Zenon, <1>2, <2>2 DEF Alone
    <3>2. proc[q].pc # "idle" => Writes(proc[q])'
        BY Zenon, <1>1, <3>1, KeepsWriting
    <3>3. proc[q].pc # "idle" => Holds(q)'
      <4>1. proc[q].pc # "idle" => Holds(q)
          BY Zenon, Parts DEF Commands
      <4> QED BY ZenonT(30), <1>1, <1>3, <3>1, <4>1 DEF Holds, Installed
    <3>4. proc[q].pc # "idle" => Saves(q)'
        BY Zenon, <1>1, <3>1, Parts DEF Commands, Saves, Placed, Installed
    <3> QED BY Zenon, <1>1, <3>1, <3>2, <3>3, <3>4, Parts DEF Commands
  <2> QED BY Zenon, <2>1, <2>2
<1>9. \A q \in Procs \ {p} : proc[q].slots.pwd <= drawn /\ proc[q].slots.rec <= drawn /\ proc[q].key <= drawn
  <2> SUFFICES ASSUME NEW q \in Procs \ {p}
               PROVE  proc[q].slots.pwd <= drawn /\ proc[q].slots.rec <= drawn /\ proc[q].key <= drawn
      BY Zenon
  <2>1. proc[q].key <= drawn
      BY Zenon, Parts DEF Private
  <2>2. CASE proc[q].pc = "idle"
    <3>1. proc[q] = Idle
        BY Zenon, <2>2, Parts DEF Commands
    <3>2. proc[q].slots.pwd = 0 /\ proc[q].slots.rec = 0
        BY <3>1, IdleTyped DEF NoSlots
    <3> QED BY <1>3, <2>1, <3>2
  <2>3. CASE proc[q].pc # "idle"
    <3>1. proc[q].slots.pwd \in 1..drawn /\ proc[q].slots.rec \in 1..drawn
        BY Zenon, <2>3, Parts DEF Commands, Holds
    <3> QED BY <1>3, <2>1, <3>1
  <2> QED BY Zenon, <2>2, <2>3
<1>10. \A s \in Ids : slot[s].pwd <= drawn /\ slot[s].rec <= drawn
  <2> SUFFICES ASSUME NEW s \in Ids PROVE slot[s].pwd <= drawn /\ slot[s].rec <= drawn
      BY Zenon
  <2>1. CASE Installed(s)
      BY <1>3, <2>1, Parts DEF Snapshots
  <2>2. CASE ~Installed(s)
      BY <1>3, <2>2 DEF Installed, NoSlots
  <2> QED BY Zenon, <2>1, <2>2
<1>11. Private'
  <2> SUFFICES ASSUME NEW q \in Procs
               PROVE  /\ NewPwd(proc'[q]) =>
                         /\ \A s \in Ids : slot'[s].pwd # proc'[q].pwd
                         /\ \A o \in Procs \ {q} : proc'[o].slots.pwd # proc'[q].pwd
                         /\ proc'[q].pwd \notin oldPwds'
                      /\ NewKey(proc'[q]) =>
                         /\ \A s \in Ids : slot'[s].rec # proc'[q].key
                         /\ \A o \in Procs \ {q} : proc'[o].slots.rec # proc'[q].key
                         /\ proc'[q].key \notin oldKeys'
                      /\ proc'[q].key <= drawn'
                      /\ \A o \in Procs \ {q} : proc'[q].key # 0 => proc'[o].key # proc'[q].key
      BY Zenon DEF Private
  <2>0. r.key \in Nat /\ r.pwd \in Nat /\ r.slots.pwd \in Nat /\ r.slots.rec \in Nat
      BY DEF Command, Slots
  <2>1. CASE q = p
    <3>1. \A o \in Procs \ {q} : proc'[o] = proc[o]
        BY Zenon, <1>2, <2>1 DEF Alone
    <3>2. \A k \in oldPwds \cup oldKeys : k <= drawn
        BY <1>3, Parts DEF Types
    <3>3. NewPwd(r) => \A s \in Ids : slot[s].pwd # r.pwd
        BY <1>3, <1>10, <2>0 DEF NewPwd
    <3>4. NewKey(r) => \A s \in Ids : slot[s].rec # r.key
        BY <1>3, <1>10, <2>0 DEF NewKey
    <3>5. \A o \in Procs \ {q} : /\ NewPwd(r) => proc[o].slots.pwd # r.pwd
                                 /\ NewKey(r) => proc[o].slots.rec # r.key
                                 /\ r.key # 0 => proc[o].key # r.key
        BY <1>3, <1>9, <2>0, <2>1 DEF NewPwd, NewKey
    <3>6. (NewPwd(r) => r.pwd \notin oldPwds) /\ (NewKey(r) => r.key \notin oldKeys)
        BY SMTT(30), <1>3, <2>0, <3>2 DEF NewPwd, NewKey
    <3> QED BY ZenonT(30), <1>1, <1>2, <2>1, <3>1, <3>3, <3>4, <3>5, <3>6
  <2>2. CASE q # p
    <3>1. proc'[q] = proc[q] /\ proc[q].key <= drawn'
      <4>1. proc'[q] = proc[q] /\ proc[q].key <= drawn /\ proc[q].key \in Nat
          BY <1>2, <1>9, <2>2, Parts DEF Alone, Types, Command
      <4> QED BY <1>3, <4>1
    <3>2. NewPwd(proc[q]) \/ NewKey(proc[q]) => proc[q].pc # "idle"
        BY Zenon DEF NewPwd, NewKey, Fresh, FilePCs
    <3>3. /\ NewPwd(proc[q]) => proc[q].pwd <= drawn
          /\ NewKey(proc[q]) => proc[q].key <= drawn
      <4>1. NewPwd(proc[q]) => proc[q].pwd = proc[q].slots.pwd
          BY Zenon, <3>2, Parts DEF NewPwd, Commands, Holds
      <4> QED BY Zenon, <1>9, <2>2, <4>1
    <3>4. proc[q].pwd \in Nat /\ proc[q].key \in Nat
        BY Parts DEF Types, Command
    <3>5. NewPwd(proc[q]) => r.slots.pwd # proc[q].pwd
        BY SMTT(30), <1>3, <2>0, <3>3, <3>4, Parts DEF Private
    <3>6. NewKey(proc[q]) => r.slots.rec # proc[q].key
        BY <1>3, <2>0, <3>3, <3>4, Parts DEF Private
    <3>7. proc[q].key # 0 => r.key # proc[q].key
        BY <1>3, <1>9, <2>0, <2>2, <3>4
    <3> QED BY SMTT(30), <1>1, <1>2, <2>2, <3>1, <3>5, <3>6, <3>7, Parts DEF Private, Alone
  <2> QED BY Zenon, <2>1, <2>2
<1>12. Kept'
    BY Zenon, <1>1, Parts DEF Kept, Installed, KeyFileHeld
<1>13. Openable'
  <2>1. \A s \in Shown : slot[s].rec \notin initial => slot[s].rec \notin initial'
    <3> SUFFICES ASSUME NEW s \in Shown, slot[s].rec \notin initial, slot[s].rec \in initial' PROVE FALSE
        BY Zenon
    <3>1. s \in Ids
        BY Zenon, ShownInstalled
    <3>2. slot[s].rec > drawn /\ slot[s].rec <= drawn /\ slot[s].rec \in Nat
        BY <1>10, <3>1, Parts DEF Types, Slots
    <3> QED BY <1>3, <3>2
  <2>2. Shown' = Shown
      BY Zenon, <1>1 DEF Shown
  <2>3. ASSUME NEW s \in Shown
        PROVE  \/ slot'[s].pwd \in memory'
               \/ lost' /\ KeyFileHeld(slot[s].rec)' /\ slot'[s].rec \notin oldKeys' \cup initial'
    <3>1. \/ slot[s].pwd \in memory
          \/ lost /\ KeyFileHeld(slot[s].rec) /\ slot[s].rec \notin oldKeys \cup initial
        BY Zenon, Parts DEF Openable
    <3>2. KeyFileHeld(slot[s].rec) => KeyFileHeld(slot[s].rec)'
        BY Zenon, <1>1 DEF KeyFileHeld
    <3>3. CASE slot[s].pwd \in memory
        BY Zenon, <1>1, <3>3
    <3>4. CASE lost /\ KeyFileHeld(slot[s].rec) /\ slot[s].rec \notin oldKeys \cup initial
      <4>1. lost' /\ KeyFileHeld(slot[s].rec)'
          BY <1>1, <3>2, <3>4
      <4>2. slot'[s].rec \notin oldKeys' \cup initial'
          BY Zenon, <1>1, <2>1, <3>4
      <4> QED BY Zenon, <4>1, <4>2
    <3> QED BY Zenon, <3>1, <3>3, <3>4
  <2> QED BY Zenon, <2>2, <2>3 DEF Openable
<1>14. Remembered'
  <2>1. r.cmd = "init" => r.pwd \notin obsolete'
    <3>1. r.cmd = "init" => r.pwd > drawn /\ r.pwd \in Nat
        BY DEF Command
    <3> QED BY <1>3, <3>1, Parts DEF Types
  <2>2. \A q \in Procs : Placed(proc[q]) => proc'[q] = proc[q]
      BY Zenon, <1>2, <1>4 DEF Alone
  <2> QED BY Zenon, <1>1, <1>2, <2>1, <2>2, Parts DEF Remembered, Shown, Alone
<1> QED BY Zenon, <1>5, <1>6, <1>7, <1>8, <1>11, <1>12, <1>13, <1>14 DEF IInv

NewInit(c, k, x, h) == [Idle EXCEPT !.pc = "lock", !.cmd = "init", !.pwd = c, !.key = k, !.out = x, !.slots = h]

LEMMA BegunInit ==
    ASSUME NEW c \in 0..MaxCreds, NEW k \in 0..MaxCreds, NEW x \in Paths, NEW h \in Slots, NEW r, r = NewInit(c, k, x, h)
    PROVE  /\ r \in Command /\ ~r.created /\ r.new = 0
           /\ r.pc = "lock" /\ r.cmd = "init" /\ r.pwd = c /\ r.key = k /\ r.out = x /\ r.slots = h
<1>1. \A l \in PCs, cm \in Cmds, i \in Command :
         [i EXCEPT !.pc = l, !.cmd = cm, !.pwd = c, !.key = k, !.out = x, !.slots = h] \in Command
    BY Zenon DEF Command
<1>2. "lock" \in PCs /\ "init" \in Cmds
    BY Zenon DEF PCs, Cmds
<1>3. r \in Command
    BY Zenon, <1>1, <1>2, IdleTyped DEF NewInit
<1>4. r.pc = "lock" /\ r.cmd = "init" /\ r.pwd = c /\ r.key = k /\ r.out = x /\ r.slots = h
    BY Zenon DEF Idle, NewInit
<1>5. ~r.created /\ r.new = 0
    BY Zenon DEF Idle, NewInit
<1> QED BY Zenon, <1>3, <1>4, <1>5

NewPasswd(c, h) == [Idle EXCEPT !.pc = "lock", !.cmd = "passwd", !.pwd = c, !.slots = h]

LEMMA BegunPasswd ==
    ASSUME NEW c \in 0..MaxCreds, NEW h \in Slots, NEW r, r = NewPasswd(c, h)
    PROVE  /\ r \in Command /\ ~r.created /\ r.key = 0 /\ r.out = NoProc /\ r.new = 0
           /\ r.pc = "lock" /\ r.cmd = "passwd" /\ r.pwd = c /\ r.slots = h
<1>1. \A l \in PCs, cm \in Cmds, i \in Command :
         [i EXCEPT !.pc = l, !.cmd = cm, !.pwd = c, !.slots = h] \in Command
    BY Zenon DEF Command
<1>2. "lock" \in PCs /\ "passwd" \in Cmds
    BY Zenon DEF PCs, Cmds
<1>3. r \in Command
    BY Zenon, <1>1, <1>2, IdleTyped DEF NewPasswd
<1>4. r.pc = "lock" /\ r.cmd = "passwd" /\ r.pwd = c /\ r.slots = h
    BY Zenon DEF Idle, NewPasswd
<1>5. ~r.created /\ r.key = 0 /\ r.out = NoProc /\ r.new = 0
    BY Zenon DEF Idle, NewPasswd
<1> QED BY Zenon, <1>3, <1>4, <1>5

NewRotate(k, x, h) == [Idle EXCEPT !.pc = "encode", !.cmd = "rotate", !.key = k, !.out = x, !.slots = h]

LEMMA BegunRotate ==
    ASSUME NEW k \in 0..MaxCreds, NEW x \in Paths, NEW h \in Slots, NEW r, r = NewRotate(k, x, h)
    PROVE  /\ r \in Command /\ ~r.created /\ r.pwd = 0 /\ r.new = 0
           /\ r.pc = "encode" /\ r.cmd = "rotate" /\ r.key = k /\ r.out = x /\ r.slots = h
<1>1. \A l \in PCs, cm \in Cmds, i \in Command :
         [i EXCEPT !.pc = l, !.cmd = cm, !.key = k, !.out = x, !.slots = h] \in Command
    BY Zenon DEF Command
<1>2. "encode" \in PCs /\ "rotate" \in Cmds
    BY Zenon DEF PCs, Cmds, FilePCs
<1>3. r \in Command
    BY Zenon, <1>1, <1>2, IdleTyped DEF NewRotate
<1>4. r.pc = "encode" /\ r.cmd = "rotate" /\ r.key = k /\ r.out = x /\ r.slots = h
    BY Zenon DEF Idle, NewRotate
<1>5. ~r.created /\ r.pwd = 0 /\ r.new = 0
    BY Zenon DEF Idle, NewRotate
<1> QED BY Zenon, <1>3, <1>4, <1>5

NewRestore(h, n) == [Idle EXCEPT !.pc = "lock", !.cmd = "restore", !.slots = h, !.new = n]

LEMMA BegunRestore ==
    ASSUME NEW h \in Slots, NEW n \in 0..MaxSnap, NEW r, r = NewRestore(h, n)
    PROVE  /\ r \in Command /\ ~r.created /\ r.pwd = 0 /\ r.key = 0 /\ r.out = NoProc
           /\ r.pc = "lock" /\ r.cmd = "restore" /\ r.slots = h /\ r.new = n
<1>1. \A l \in PCs, cm \in Cmds, i \in Command :
         [i EXCEPT !.pc = l, !.cmd = cm, !.slots = h, !.new = n] \in Command
    BY Zenon DEF Command
<1>2. "lock" \in PCs /\ "restore" \in Cmds
    BY Zenon DEF PCs, Cmds
<1>3. r \in Command
    BY Zenon, <1>1, <1>2, IdleTyped DEF NewRestore
<1>4. r.pc = "lock" /\ r.cmd = "restore" /\ r.slots = h /\ r.new = n
    BY Zenon DEF Idle, NewRestore
<1>5. ~r.created /\ r.pwd = 0 /\ r.key = 0 /\ r.out = NoProc
    BY Zenon DEF Idle, NewRestore
<1> QED BY Zenon, <1>3, <1>4, <1>5

NewEdit(h) == [Idle EXCEPT !.pc = "lock", !.cmd = "edit", !.slots = h]

LEMMA BegunEdit ==
    ASSUME NEW h \in Slots, NEW r, r = NewEdit(h)
    PROVE  /\ r \in Command /\ ~r.created /\ r.pwd = 0 /\ r.key = 0 /\ r.out = NoProc /\ r.new = 0
           /\ r.pc = "lock" /\ r.cmd = "edit" /\ r.slots = h
<1>1. \A l \in PCs, cm \in Cmds, i \in Command :
         [i EXCEPT !.pc = l, !.cmd = cm, !.slots = h] \in Command
    BY Zenon DEF Command
<1>2. "lock" \in PCs /\ "edit" \in Cmds
    BY Zenon DEF PCs, Cmds
<1>3. r \in Command
    BY Zenon, <1>1, <1>2, IdleTyped DEF NewEdit
<1>4. r.pc = "lock" /\ r.cmd = "edit" /\ r.slots = h
    BY Zenon DEF Idle, NewEdit
<1>5. ~r.created /\ r.pwd = 0 /\ r.key = 0 /\ r.out = NoProc /\ r.new = 0
    BY Zenon DEF Idle, NewEdit
<1> QED BY Zenon, <1>3, <1>4, <1>5

LEMMA BeginInitStep == ASSUME IInv, NEW p \in Procs, BeginInit(p) PROVE IInv'
<1> DEFINE c == drawn + 1
           k == drawn + 2
           h == CreateHeader(c, k)
<1>1. PICK x \in Paths :
        proc' = [proc EXCEPT ![p] = [Idle EXCEPT !.pc = "lock", !.cmd = "init",
                    !.pwd = c, !.key = k, !.out = x, !.slots = h]]
    BY Zenon DEF BeginInit
<1>2. drawn \in Nat /\ drawn + 2 <= MaxCreds /\ drawn' = drawn + 2 /\ MaxCreds \in Nat
    BY CredentialsAssumption, Parts DEF BeginInit, Types
<1>3. /\ c \in 0..MaxCreds /\ k \in 0..MaxCreds /\ c \in 1..drawn' /\ k \in 1..drawn' /\ c > drawn /\ k > drawn
      /\ drawn' \in 0..MaxCreds /\ drawn <= drawn' /\ 1..drawn \subseteq 1..drawn' /\ k <= drawn'
    BY <1>2
<1>4. h \in Slots /\ h.pwd = c /\ h.rec = k
    BY <1>3, CredentialsAssumption DEF CreateHeader, Slots
<1>5. "lock" \in PCs /\ "init" \in Cmds /\ 0 \in 0..MaxSnap
    BY CredentialsAssumption DEF PCs, Cmds
<1>6. PICK cl : cl = [want |-> "create", of |-> 0]
    BY Zenon
<1>8. cl \in Client /\ client' = [client EXCEPT ![p] = cl]
    BY Zenon, <1>5, <1>6 DEF BeginInit, Wants, Client
<1>9. /\ memory' = memory \cup {c} /\ initial' = initial \cup {k} /\ UNCHANGED obsolete
      /\ proc[p] = Idle /\ UNCHANGED <<vaultFile, slot, files, lock, replaced, rolled, lost>>
      /\ UNCHANGED events
    BY Zenon DEF BeginInit, Learn
<1>10. /\ memory' \subseteq 1..drawn' /\ initial' \subseteq 1..drawn' /\ events' \in 0..MaxEvents
    BY Zenon, <1>3, <1>9, Parts DEF Types
<1> HIDE DEF c, k, h
<1>11. PICK r : r = NewInit(c, k, x, h)
    BY Zenon
<1>12. /\ r \in Command /\ r.pc = "lock" /\ r.cmd = "init" /\ r.pwd = c /\ r.key = k /\ r.out = x
       /\ r.slots = h /\ ~r.created
    BY <1>3, <1>4, <1>11, BegunInit
<1>13. proc' = [proc EXCEPT ![p] = r]
    BY Zenon, <1>1, <1>11 DEF NewInit
<1>14. proc'[p] = r /\ client'[p] = cl
    BY Zenon, <1>8, <1>13, Parts DEF Types
<1>15. Holds(p)'
    BY Zenon, <1>3, <1>4, <1>5, <1>6, <1>9, <1>12, <1>14 DEF Holds
<1> QED BY Zenon, <1>3, <1>4, <1>8, <1>9, <1>10, <1>12, <1>13, <1>15, BeginFrame

\* A command that saves comes with the snapshot in place.
LEMMA SavesCurrent ==
    ASSUME IInv, NEW p \in Procs, cur # 0, Wants(p, "save", cur)
    PROVE  /\ cur \in Ids /\ Installed(cur) /\ slot[cur] \in Slots
           /\ slot[cur].pwd \in 1..drawn /\ slot[cur].rec \in 1..drawn
           /\ \E cl \in Client : /\ client' = [client EXCEPT ![p] = cl] /\ client'[p] = cl
                                 /\ cl.want = "save" /\ cl.of = cur
<1>1. cur \in Ids /\ Installed(cur) /\ cur \in 0..MaxSnap
    BY CredentialsAssumption, Parts DEF Types, Snapshots, Shown, Ids
<1>2. slot[cur] \in Slots /\ slot[cur].pwd \in 1..drawn /\ slot[cur].rec \in 1..drawn
    BY Zenon, <1>1, Parts DEF Types, Snapshots
<1>3. PICK cl : cl = [want |-> "save", of |-> cur]
    BY Zenon
<1>4. cl \in Client /\ client' = [client EXCEPT ![p] = cl] /\ cl.want = "save" /\ cl.of = cur
    BY Zenon, <1>1, <1>3 DEF Wants, Client
<1>5. client'[p] = cl
    BY Zenon, <1>4, Parts DEF Types
<1> QED BY Zenon, <1>1, <1>2, <1>4, <1>5

LEMMA BeginPasswdStep == ASSUME IInv, NEW p \in Procs, BeginPasswd(p) PROVE IInv'
<1> DEFINE c == drawn + 1
           h == RewrapPassword(slot[cur], c)
<1>1. proc' = [proc EXCEPT ![p] = [Idle EXCEPT !.pc = "lock", !.cmd = "passwd", !.pwd = c, !.slots = h]]
    BY Zenon DEF BeginPasswd
<1>2. drawn \in Nat /\ drawn < MaxCreds /\ drawn' = drawn + 1 /\ MaxCreds \in Nat
    BY CredentialsAssumption, Parts DEF BeginPasswd, Types
<1>3. /\ c \in 0..MaxCreds /\ c \in 1..drawn' /\ c > drawn /\ 0 <= drawn'
      /\ drawn' \in 0..MaxCreds /\ drawn <= drawn' /\ 1..drawn \subseteq 1..drawn' /\ c \notin 1..drawn
    BY <1>2
<1>4. /\ cur \in Ids /\ Installed(cur) /\ slot[cur] \in Slots
      /\ slot[cur].pwd \in 1..drawn /\ slot[cur].rec \in 1..drawn
    BY Zenon, SavesCurrent DEF BeginPasswd
<1>5. PICK cl \in Client : /\ client' = [client EXCEPT ![p] = cl] /\ client'[p] = cl
                           /\ cl.want = "save" /\ cl.of = cur
    BY Zenon, SavesCurrent DEF BeginPasswd
<1>6. h \in Slots /\ h.pwd = c /\ h.rec = slot[cur].rec
    BY Zenon, <1>3, <1>4 DEF RewrapPassword, Slots
<1>7. "lock" \in PCs /\ "passwd" \in Cmds
    BY Zenon DEF PCs, Cmds
<1>9. /\ memory' = memory \cup {c} /\ UNCHANGED <<initial, obsolete>>
      /\ proc[p] = Idle /\ UNCHANGED <<vaultFile, slot, files, lock, replaced, rolled, lost>>
      /\ UNCHANGED events
    BY Zenon DEF BeginPasswd, Learn
<1>10. /\ memory' \subseteq 1..drawn' /\ initial' \subseteq 1..drawn' /\ events' \in 0..MaxEvents
    BY Zenon, <1>3, <1>9, Parts DEF Types
<1> HIDE DEF c, h
<1>11. PICK r : r = NewPasswd(c, h)
    BY Zenon
<1>12. /\ r \in Command /\ r.pc = "lock" /\ r.cmd = "passwd" /\ r.pwd = c /\ r.key = 0
       /\ r.slots = h /\ ~r.created
    BY <1>3, <1>6, <1>11, BegunPasswd
<1>13. proc' = [proc EXCEPT ![p] = r]
    BY Zenon, <1>1, <1>11 DEF NewPasswd
<1>14. proc'[p] = r
    BY Zenon, <1>13, Parts DEF Types
<1>15. Holds(p)'
    BY Zenon, <1>3, <1>4, <1>5, <1>6, <1>7, <1>9, <1>12, <1>14 DEF Holds, Installed
<1> QED BY Zenon, <1>3, <1>4, <1>5, <1>6, <1>9, <1>10, <1>12, <1>13, <1>15, BeginFrame

LEMMA BeginRotateStep == ASSUME IInv, NEW p \in Procs, BeginRotate(p) PROVE IInv'
<1> DEFINE k == drawn + 1
           h == RewrapRecovery(slot[cur], k)
<1>1. PICK x \in Paths :
        proc' = [proc EXCEPT ![p] = [Idle EXCEPT !.pc = "encode", !.cmd = "rotate",
                    !.key = k, !.out = x, !.slots = h]]
    BY Zenon DEF BeginRotate
<1>2. drawn \in Nat /\ drawn < MaxCreds /\ drawn' = drawn + 1 /\ MaxCreds \in Nat
    BY CredentialsAssumption, Parts DEF BeginRotate, Types
<1>3. /\ k \in 0..MaxCreds /\ k \in 1..drawn' /\ k > drawn /\ k <= drawn'
      /\ drawn' \in 0..MaxCreds /\ drawn <= drawn' /\ 1..drawn \subseteq 1..drawn' /\ k \notin 1..drawn
    BY <1>2
<1>4. /\ cur \in Ids /\ Installed(cur) /\ slot[cur] \in Slots
      /\ slot[cur].pwd \in 1..drawn /\ slot[cur].rec \in 1..drawn
    BY Zenon, SavesCurrent DEF BeginRotate
<1>5. PICK cl \in Client : /\ client' = [client EXCEPT ![p] = cl] /\ client'[p] = cl
                           /\ cl.want = "save" /\ cl.of = cur
    BY Zenon, SavesCurrent DEF BeginRotate
<1>6. h \in Slots /\ h.pwd = slot[cur].pwd /\ h.rec = k
    BY Zenon, <1>3, <1>4 DEF RewrapRecovery, Slots
<1>7. "rotate" \in Cmds
    BY Zenon DEF Cmds
<1>9. /\ UNCHANGED <<memory, initial, obsolete>> /\ slot[cur].pwd \in memory
      /\ proc[p] = Idle /\ UNCHANGED <<vaultFile, slot, files, lock, replaced, rolled, lost>>
      /\ UNCHANGED events
    BY Zenon DEF BeginRotate, UnlockPassword, user
<1>10. /\ memory' \subseteq 1..drawn' /\ initial' \subseteq 1..drawn' /\ events' \in 0..MaxEvents
    BY Zenon, <1>3, <1>9, Parts DEF Types
<1> HIDE DEF k, h
<1>11. PICK r : r = NewRotate(k, x, h)
    BY Zenon
<1>12. /\ r \in Command /\ r.pc = "encode" /\ r.cmd = "rotate" /\ r.key = k /\ r.out = x
       /\ r.slots = h /\ ~r.created
    BY <1>3, <1>6, <1>11, BegunRotate
<1>13. proc' = [proc EXCEPT ![p] = r]
    BY Zenon, <1>1, <1>11 DEF NewRotate
<1>14. proc'[p] = r
    BY Zenon, <1>13, Parts DEF Types
<1>15. Holds(p)'
    BY Zenon, <1>3, <1>4, <1>5, <1>6, <1>7, <1>9, <1>12, <1>14 DEF Holds, Installed
<1> QED BY Zenon, <1>3, <1>4, <1>5, <1>6, <1>9, <1>10, <1>12, <1>13, <1>15, BeginFrame

LEMMA BeginRestoreStep == ASSUME IInv, NEW p \in Procs, BeginRestore(p) PROVE IInv'
<1>1. PICK s \in Ids :
        /\ slot[s] # NoSlots /\ Wants(p, "restore", s) /\ slot[s].pwd \in memory
        /\ proc' = [proc EXCEPT ![p] = [Idle EXCEPT !.pc = "lock", !.cmd = "restore",
                        !.slots = slot[s], !.new = s]]
    BY Zenon DEF BeginRestore, UnlockPassword
<1>2. /\ drawn \in Nat /\ drawn' = drawn /\ drawn' \in 0..MaxCreds /\ drawn <= drawn' /\ 0 <= drawn'
      /\ s \in 0..MaxSnap
    BY CredentialsAssumption, Parts DEF BeginRestore, Types, Ids
<1>3. /\ Installed(s) /\ slot[s] \in Slots /\ slot[s].pwd \in 1..drawn /\ slot[s].rec \in 1..drawn
    BY Zenon, <1>1, Parts DEF Types, Snapshots, Installed
<1>4. PICK cl : cl = [want |-> "restore", of |-> s]
    BY Zenon
<1>5. cl \in Client /\ client' = [client EXCEPT ![p] = cl]
    BY Zenon, <1>1, <1>2, <1>4 DEF Wants, Client
<1>6. /\ UNCHANGED <<memory, initial>> /\ obsolete' = {}
      /\ proc[p] = Idle /\ UNCHANGED <<vaultFile, slot, files, lock, replaced, rolled, lost>>
    BY Zenon DEF BeginRestore
<1>7. events' \in 0..MaxEvents
    BY Zenon, EventBound, Parts DEF BeginRestore, Types
<1>8. memory' \subseteq 1..drawn' /\ initial' \subseteq 1..drawn' /\ initial' \ initial = {}
    BY Zenon, <1>2, <1>6, Parts DEF Types
<1>9. PICK r : r = NewRestore(slot[s], s)
    BY Zenon
<1>10. /\ r \in Command /\ r.pc = "lock" /\ r.cmd = "restore" /\ r.key = 0
       /\ r.slots = slot[s] /\ r.new = s /\ ~r.created
    BY <1>2, <1>3, <1>9, BegunRestore
<1>11. proc' = [proc EXCEPT ![p] = r]
    BY Zenon, <1>1, <1>9 DEF NewRestore
<1>12. proc'[p] = r /\ client'[p] = cl /\ "restore" \in Cmds
    BY Zenon, <1>5, <1>11, Parts DEF Types, Cmds
<1>13. Holds(p)'
    BY <1>2, <1>1, <1>3, <1>4, <1>6, <1>10, <1>12 DEF Holds, Installed
<1> QED BY Zenon, <1>2, <1>3, <1>5, <1>6, <1>7, <1>8, <1>10, <1>11, <1>13, BeginFrame

LEMMA BeginEditStep == ASSUME IInv, NEW p \in Procs, BeginEdit(p) PROVE IInv'
<1>1. /\ proc' = [proc EXCEPT ![p] = [Idle EXCEPT !.pc = "lock", !.cmd = "edit", !.slots = slot[cur]]]
      /\ slot[cur].pwd \in memory
    BY Zenon DEF BeginEdit, UnlockPassword
<1>2. /\ drawn \in Nat /\ drawn' = drawn /\ drawn' \in 0..MaxCreds /\ drawn <= drawn' /\ 0 <= drawn'
    BY CredentialsAssumption, Parts DEF BeginEdit, Types
<1>3. /\ cur \in Ids /\ Installed(cur) /\ slot[cur] \in Slots
      /\ slot[cur].pwd \in 1..drawn /\ slot[cur].rec \in 1..drawn
    BY Zenon, SavesCurrent DEF BeginEdit
<1>5. PICK cl \in Client : /\ client' = [client EXCEPT ![p] = cl] /\ client'[p] = cl
                           /\ cl.want = "save" /\ cl.of = cur
    BY Zenon, SavesCurrent DEF BeginEdit
<1>6. /\ UNCHANGED <<memory, initial, obsolete>>
      /\ proc[p] = Idle /\ UNCHANGED <<vaultFile, slot, files, lock, replaced, rolled, lost>>
      /\ UNCHANGED events
    BY Zenon DEF BeginEdit, user
<1>7. /\ memory' \subseteq 1..drawn' /\ initial' \subseteq 1..drawn' /\ initial' \ initial = {}
      /\ events' \in 0..MaxEvents
    BY Zenon, <1>2, <1>6, Parts DEF Types
<1>9. PICK r : r = NewEdit(slot[cur])
    BY Zenon
<1>10. /\ r \in Command /\ r.pc = "lock" /\ r.cmd = "edit" /\ r.key = 0
       /\ r.slots = slot[cur] /\ ~r.created
    BY <1>3, <1>9, BegunEdit
<1>11. proc' = [proc EXCEPT ![p] = r]
    BY Zenon, <1>1, <1>9 DEF NewEdit
<1>12. proc'[p] = r /\ "edit" \in Cmds
    BY Zenon, <1>11, Parts DEF Types, Cmds
<1>13. Holds(p)'
    BY <1>1, <1>2, <1>3, <1>5, <1>6, <1>10, <1>12 DEF Holds, Installed
<1> QED BY Zenon, <1>2, <1>3, <1>5, <1>6, <1>7, <1>10, <1>11, <1>13, BeginFrame

-----------------------------------------------------------------------------
(***************************************************************************)
(* The user between commands, and the power supply.                        *)
(***************************************************************************)

LEMMA IdleFacts == Idle.pc = "idle" /\ Idle.cmd = "none" /\ Idle.key = 0 /\ ~Fresh(Idle) /\ ~Placed(Idle)
<1>1. Idle.pc = "idle" /\ Idle.cmd = "none" /\ Idle.key = 0
    BY Zenon DEF Idle
<1> QED BY Zenon, <1>1 DEF Fresh, Placed, FilePCs

\* When every command is idle only the user's part of the invariant is at stake.
LEMMA AllIdleFrame ==
    ASSUME IInv, \A p \in Procs : proc'[p] = Idle, Types', Snapshots', Kept', Openable',
           \A p \in Procs : client'[p] = NoClient,
           \A s \in Shown' : slot'[s].pwd \notin obsolete', ReplacedStaysReplaced'
    PROVE  IInv'
<1>1. \A p \in Procs : /\ proc'[p].pc = "idle" /\ proc'[p].cmd = "none" /\ proc'[p].key = 0
                       /\ ~Fresh(proc'[p]) /\ ~Placed(proc'[p])
    BY Zenon, IdleFacts
<1>2. Locked'
    BY Zenon, <1>1 DEF Locked, Placed
<1>3. Commands'
    BY Zenon, <1>1 DEF Commands
<1>4. Private'
  <2>1. \A p \in Procs : ~NewPwd(proc[p])' /\ ~NewKey(proc[p])'
      BY Zenon, <1>1 DEF NewPwd, NewKey, Fresh
  <2>2. \A p \in Procs : proc'[p].key <= drawn'
      BY <1>1, CredentialsAssumption DEF Types
  <2> QED BY Zenon, <1>1, <2>1, <2>2 DEF Private
<1>5. Remembered'
    BY Zenon, <1>1 DEF Remembered, Fresh
<1> QED BY Zenon, <1>2, <1>3, <1>4, <1>5 DEF IInv

LEMMA AllIdleUser ==
    ASSUME IInv, AllIdle
    PROVE  /\ \A p \in Procs : proc[p] = Idle /\ client[p] = NoClient
           /\ \A s \in Shown : slot[s].pwd \notin obsolete
<1>1. \A p \in Procs : proc[p] = Idle /\ proc[p].pc = "idle" /\ ~Placed(proc[p])
    BY Zenon, IdleFacts DEF AllIdle
<1>2. \A p \in Procs : client[p] = NoClient
    BY Zenon, <1>1, Parts DEF Commands
<1> QED BY Zenon, <1>1, <1>2 DEF IInv, Remembered

LEMMA ForgetStep == ASSUME IInv, Forget PROVE IInv'
<1>1. AllIdle /\ UNCHANGED <<parent, issued, cur, may, client, slot, lock, proc, drawn, events>>
      /\ UNCHANGED <<recDir, recDisk, data, oldPwds, oldKeys, initial, rolled, lost>>
      /\ memory' = memory \ obsolete /\ obsolete' = {}
    BY Zenon DEF Forget, register, vaultFile, files, replaced
<1>2. /\ \A p \in Procs : proc'[p] = Idle /\ client'[p] = NoClient
      /\ \A s \in Shown : slot[s].pwd \notin obsolete
    BY Zenon, <1>1, AllIdleUser
<1>3. Types'
    BY Zenon, <1>1, Parts DEF Types
<1>4. Snapshots' /\ Kept' /\ ReplacedStaysReplaced' /\ Shown' = Shown
    BY Zenon, <1>1, Parts DEF Snapshots, Installed, Kept, KeyFileHeld, ReplacedStaysReplaced, Shown
<1>5. Openable'
  <2> SUFFICES ASSUME NEW s \in Shown
               PROVE  \/ slot'[s].pwd \in memory'
                      \/ lost' /\ KeyFileHeld(slot[s].rec)' /\ slot'[s].rec \notin oldKeys' \cup initial'
      BY Zenon, <1>4 DEF Openable
  <2>1. CASE slot[s].pwd \in memory
      BY Zenon, <1>1, <1>2, <2>1
  <2>2. CASE lost /\ KeyFileHeld(slot[s].rec) /\ slot[s].rec \notin oldKeys \cup initial
    <3>1. lost'
        BY Zenon, <1>1, <2>2
    <3>2. KeyFileHeld(slot[s].rec)' /\ slot'[s].rec \notin oldKeys' \cup initial'
        BY Zenon, <1>1, <2>2 DEF KeyFileHeld
    <3> QED BY Zenon, <3>1, <3>2
  <2> QED BY Zenon, <2>1, <2>2, Parts DEF Openable
<1> QED BY Zenon, <1>1, <1>2, <1>3, <1>4, <1>5, AllIdleFrame

LEMMA DiscardStep == ASSUME IInv, Discard PROVE IInv'
<1>1. AllIdle /\ UNCHANGED <<parent, issued, cur, may, client, slot, lock, proc, drawn, events>>
      /\ UNCHANGED <<data, oldPwds, oldKeys, initial, rolled, lost, memory, obsolete>>
    BY Zenon DEF Discard, register, vaultFile, files, replaced, user
<1>2. /\ \A p \in Procs : proc'[p] = Idle /\ client'[p] = NoClient
      /\ \A s \in Shown : slot[s].pwd \notin obsolete
    BY Zenon, <1>1, AllIdleUser
<1>3. PICK x \in Paths : recDir[x] \in oldKeys /\ recDir' = [recDir EXCEPT ![x] = 0]
                         /\ recDisk' = recDisk \cup {recDir'}
    BY Zenon DEF Discard, ChangeRecDir
<1>4. recDir' \in Entries /\ recDisk' \subseteq Entries
    BY <1>3, CredentialsAssumption, Parts DEF Types, Entries
<1>5. Types'
    BY Zenon, <1>1, <1>4, Parts DEF Types
<1>6. Snapshots' /\ ReplacedStaysReplaced' /\ Shown' = Shown
    BY Zenon, <1>1, Parts DEF Snapshots, Installed, ReplacedStaysReplaced, Shown
<1>7. ASSUME NEW k, KeyFileHeld(k), k \notin oldKeys
      PROVE  data'[k] = "synced" /\ \A d \in recDisk' \cup {recDir'} : \E y \in Paths : d[y] = k
  <2>1. PICK y \in Paths : recDir[y] = k
      BY Zenon, <1>7 DEF KeyFileHeld
  <2>2. y # x /\ recDir'[y] = k
      BY Zenon, <1>3, <1>7, <2>1, Parts DEF Types, Entries
  <2> QED BY Zenon, <1>1, <1>3, <1>7, <2>2 DEF KeyFileHeld
<1>8. \A s \in Ids : KeyFileHeld(slot[s].rec) /\ slot[s].rec \notin oldKeys => KeyFileHeld(slot[s].rec)'
    BY Zenon, <1>1, <1>7 DEF KeyFileHeld
<1>9. Kept'
    BY Zenon, <1>1, <1>8, Parts DEF Kept, Installed
<1>10. Openable'
  <2> SUFFICES ASSUME NEW s \in Shown
               PROVE  \/ slot'[s].pwd \in memory'
                      \/ lost' /\ KeyFileHeld(slot[s].rec)' /\ slot'[s].rec \notin oldKeys' \cup initial'
      BY Zenon, <1>6 DEF Openable
  <2>0. s \in Ids
      BY Zenon, ShownInstalled
  <2>1. CASE slot[s].pwd \in memory
      BY Zenon, <1>1, <2>1
  <2>2. CASE lost /\ KeyFileHeld(slot[s].rec) /\ slot[s].rec \notin oldKeys \cup initial
    <3>1. lost'
        BY Zenon, <1>1, <2>2
    <3>2. KeyFileHeld(slot[s].rec)' /\ slot'[s].rec \notin oldKeys' \cup initial'
        BY Zenon, <1>1, <1>8, <2>0, <2>2
    <3> QED BY Zenon, <3>1, <3>2
  <2> QED BY Zenon, <2>1, <2>2, Parts DEF Openable
<1> QED BY Zenon, <1>1, <1>2, <1>5, <1>6, <1>9, <1>10, AllIdleFrame

LEMMA LosePasswordsStep == ASSUME IInv, LosePasswords PROVE IInv'
<1>1. AllIdle /\ UNCHANGED <<parent, issued, cur, may, client, slot, lock, proc, drawn>>
      /\ UNCHANGED <<recDir, recDisk, data, oldPwds, oldKeys, initial, rolled>>
      /\ memory' = {} /\ obsolete' = {} /\ initial = {}
    BY Zenon DEF LosePasswords, register, vaultFile, files, replaced
<1>2. ~rolled /\ lost'
    BY Zenon DEF LosePasswords
<1>3. lost' \in BOOLEAN
    BY Zenon DEF LosePasswords
<1>4. events' \in 0..MaxEvents
    BY Zenon, EventBound, Parts DEF LosePasswords, Types
<1>5. \A p \in Procs : proc'[p] = Idle /\ client'[p] = NoClient
    BY Zenon, <1>1, AllIdleUser
<1>6. Types'
    BY Zenon, <1>1, <1>3, <1>4, Parts DEF Types
<1>7. Snapshots' /\ Kept' /\ Shown' = Shown
    BY Zenon, <1>1, Parts DEF Snapshots, Installed, Kept, KeyFileHeld, Shown
<1>8. \A s \in Shown : slot[s].pwd \notin oldPwds /\ slot[s].rec \notin oldKeys
    BY Zenon, <1>2, Parts DEF ReplacedStaysReplaced
<1>9. ReplacedStaysReplaced'
    BY Zenon, <1>1, <1>7, <1>8 DEF ReplacedStaysReplaced
<1>10. Openable'
  <2> SUFFICES ASSUME NEW s \in Shown
               PROVE  lost' /\ KeyFileHeld(slot[s].rec)' /\ slot'[s].rec \notin oldKeys' \cup initial'
      BY Zenon, <1>7 DEF Openable
  <2>1. slot[s].rec \notin oldKeys \cup initial /\ s \in Ids /\ Installed(s)
      BY Zenon, <1>1, <1>8, ShownInstalled
  <2>2. KeyFileHeld(slot[s].rec)
      BY Zenon, <2>1, Parts DEF Kept
  <2>3. KeyFileHeld(slot[s].rec)'
      BY Zenon, <1>1, <2>2 DEF KeyFileHeld
  <2> QED BY Zenon, <1>1, <1>2, <2>1, <2>3
<1> QED BY Zenon, <1>1, <1>5, <1>6, <1>7, <1>9, <1>10, AllIdleFrame

LEMMA CrashStep == ASSUME IInv, Crash PROVE IInv'
<1>1. UNCHANGED <<parent, issued, slot, drawn, memory, oldPwds, oldKeys, initial, rolled, lost>>
      /\ obsolete' = {} /\ lock' = NoProc
    BY Zenon DEF Crash, replaced
<1>2. PICK s \in may : cur' = s /\ may' = {s}
    BY Zenon DEF Crash
<1>3. PICK d \in recDisk : recDir' = d /\ recDisk' = {d}
    BY Zenon DEF Crash
<1>4. data' = [k \in Creds |-> IF data[k] = "synced" THEN "synced" ELSE "empty"]
    BY Zenon DEF Crash
<1>5. \A p \in Procs : proc'[p] = Idle /\ client'[p] = NoClient
    BY Zenon DEF Crash
<1>6. proc' \in [Procs -> Command] /\ client' \in [Procs -> Client]
    BY Zenon, IdleTyped DEF Crash
<1>7. events' \in 0..MaxEvents
    BY Zenon, EventBound, Parts DEF Crash, Types
<1>8. data' \in [Creds -> {"empty", "written", "synced"}]
    BY Zenon, <1>4
<1>9. Types'
    BY Zenon, <1>1, <1>2, <1>3, <1>6, <1>7, <1>8, Parts DEF Types
<1>10. Shown' \subseteq Shown
    BY Zenon, <1>2 DEF Shown
<1>11. Snapshots'
    BY Zenon, <1>1, <1>2, <1>10, Parts DEF Snapshots, Installed
<1>12. ASSUME NEW k \in Creds, KeyFileHeld(k)
       PROVE  data'[k] = "synced" /\ \A e \in recDisk' \cup {recDir'} : \E y \in Paths : e[y] = k
    BY Zenon, <1>3, <1>4, <1>12 DEF KeyFileHeld
<1>13. \A t \in Ids : Installed(t) => slot[t].rec \in Creds
    BY CredentialsAssumption, Parts DEF Types, Snapshots, Creds
<1>14. \A t \in Ids : Installed(t) /\ KeyFileHeld(slot[t].rec) => KeyFileHeld(slot[t].rec)'
    BY Zenon, <1>1, <1>12, <1>13 DEF KeyFileHeld
<1>15. Kept'
    BY Zenon, <1>1, <1>14, Parts DEF Kept, Installed
<1>16. Openable'
  <2> SUFFICES ASSUME NEW t \in Shown
               PROVE  \/ slot'[t].pwd \in memory'
                      \/ lost' /\ KeyFileHeld(slot[t].rec)' /\ slot'[t].rec \notin oldKeys' \cup initial'
      BY Zenon, <1>10 DEF Openable
  <2>0. t \in Ids /\ Installed(t)
      BY Zenon, ShownInstalled
  <2>1. CASE slot[t].pwd \in memory
      BY Zenon, <1>1, <2>1
  <2>2. CASE lost /\ KeyFileHeld(slot[t].rec) /\ slot[t].rec \notin oldKeys \cup initial
    <3>1. lost'
        BY Zenon, <1>1, <2>2
    <3>2. KeyFileHeld(slot[t].rec)' /\ slot'[t].rec \notin oldKeys' \cup initial'
        BY Zenon, <1>1, <1>14, <2>0, <2>2
    <3> QED BY Zenon, <3>1, <3>2
  <2> QED BY Zenon, <2>1, <2>2, Parts DEF Openable
<1>17. ReplacedStaysReplaced'
  <2>1. CASE rolled
    <3>1. rolled'
        BY Zenon, <1>1, <2>1
    <3> QED BY Zenon, <3>1 DEF ReplacedStaysReplaced
  <2>2. CASE \A t \in Shown : slot[t].pwd \notin oldPwds /\ slot[t].rec \notin oldKeys
      BY Zenon, <1>1, <1>10, <2>2 DEF ReplacedStaysReplaced
  <2> QED BY Zenon, <2>1, <2>2, Parts DEF ReplacedStaysReplaced
<1> QED BY Zenon, <1>1, <1>5, <1>9, <1>11, <1>15, <1>16, <1>17, AllIdleFrame

-----------------------------------------------------------------------------
(***************************************************************************)
(* The invariant, and what it gives.                                       *)
(***************************************************************************)

LEMMA InitIInv == ASSUME Init PROVE IInv
<1>1. MaxSnap \in Nat /\ MaxCreds \in Nat /\ MaxEvents \in Nat
    BY Zenon, CredentialsAssumption
<1>2. \A p \in Procs : /\ proc[p] = Idle /\ client[p] = NoClient
                       /\ proc[p].pc = "idle" /\ proc[p].cmd = "none" /\ proc[p].key = 0
                       /\ ~Fresh(proc[p]) /\ ~Placed(proc[p])
    BY Zenon, IdleFacts DEF Init
<1>3. Types
  <2>1. proc \in [Procs -> Command] /\ client \in [Procs -> Client] /\ slot \in [Ids -> Slots]
      BY Zenon, IdleTyped DEF Init
  <2>2. recDir \in Entries /\ recDisk \subseteq Entries /\ data \in [Creds -> {"empty", "written", "synced"}]
      BY <1>1 DEF Init, Entries
  <2>3. parent \in [Ids -> 0..MaxSnap] /\ issued \in 0..MaxSnap
        /\ cur \in 0..issued /\ cur \in may /\ may \subseteq 0..issued
      BY <1>1 DEF Init
  <2>4. rolled \in BOOLEAN /\ lost \in BOOLEAN
      BY Zenon DEF Init
  <2>5. /\ drawn \in 0..MaxCreds /\ events \in 0..MaxEvents
        /\ memory \subseteq 1..drawn /\ obsolete \subseteq 1..drawn
        /\ oldPwds \subseteq 1..drawn /\ oldKeys \subseteq 1..drawn /\ initial \subseteq 1..drawn
      BY <1>1 DEF Init
  <2> QED BY Zenon, <2>1, <2>2, <2>3, <2>4, <2>5 DEF Types
<1>4. Shown = {} /\ \A s \in Ids : ~Installed(s)
    BY Zenon DEF Init, Shown, Installed
<1>5. Snapshots /\ Kept /\ Openable /\ ReplacedStaysReplaced
    BY Zenon, <1>4 DEF Init, Snapshots, Kept, Openable, ReplacedStaysReplaced
<1>6. Locked /\ Commands
    BY Zenon, <1>2 DEF Locked, Commands
<1>7. Private
  <2>1. \A p \in Procs : ~NewPwd(proc[p]) /\ ~NewKey(proc[p])
      BY Zenon, <1>2 DEF NewPwd, NewKey
  <2>0. drawn = 0
      BY Zenon DEF Init
  <2>2. ASSUME NEW p \in Procs PROVE proc[p].key <= drawn
    <3>1. proc[p].key = 0
        BY Zenon, <1>2
    <3> QED BY <2>0, <3>1
  <2> QED BY Zenon, <1>2, <2>1, <2>2 DEF Private
<1>8. Remembered
    BY Zenon, <1>2, <1>4 DEF Remembered
<1> QED BY Zenon, <1>3, <1>5, <1>6, <1>7, <1>8 DEF IInv

LEMMA StutterStep == ASSUME IInv, UNCHANGED vars PROVE IInv'
<1>1. /\ UNCHANGED <<parent, issued, cur, may, client, slot, recDir, recDisk, data, lock, proc, drawn>>
      /\ UNCHANGED <<events, memory, obsolete, oldPwds, oldKeys, initial, rolled, lost>>
    BY Zenon DEF vars, register, vaultFile, files, user, replaced
<1>2. Types' /\ Snapshots' /\ Locked' /\ Private'
    BY ZenonT(30), <1>1, Parts DEF Types, Snapshots, Installed, Shown, Locked, Placed, Private, NewPwd, NewKey, Fresh
<1>3. Commands'
  <2>0. /\ \A s : Installed(s)' <=> Installed(s)
        /\ \A p \in Procs : Placed(proc[p])' <=> Placed(proc[p])
      BY Zenon, <1>1 DEF Installed, Placed
  <2>1. \A p \in Procs : Holds(p) => Holds(p)'
      BY ZenonT(30), <1>1, <2>0 DEF Holds
  <2>4. \A p \in Procs : Saves(p) => Saves(p)'
      BY ZenonT(30), <1>1, <2>0 DEF Saves
  <2>2. \A p \in Procs : Writes(proc[p]) => Writes(proc[p])'
      BY Zenon, <1>1 DEF Writes, FileAt
  <2> QED BY Zenon, <1>1, <2>1, <2>2, <2>4, Parts DEF Commands
<1>4. Kept' /\ Openable' /\ Remembered' /\ ReplacedStaysReplaced'
    BY <1>1, Parts DEF Kept, Openable, Remembered, ReplacedStaysReplaced, KeyFileHeld, Installed,
                Shown, Placed, Fresh
<1> QED BY Zenon, <1>2, <1>3, <1>4 DEF IInv

LEMMA NextIInv == ASSUME IInv, [Next]_vars PROVE IInv'
<1>1. ASSUME NEW p \in Procs, Begin(p) PROVE IInv'
    BY Zenon, <1>1, BeginInitStep, BeginPasswdStep, BeginRotateStep, BeginRestoreStep, BeginEditStep DEF Begin
<1>2. ASSUME NEW p \in Procs, WriteFile(p) PROVE IInv'
  <2>1. ASSUME UndoFile(p) PROVE IInv'
      BY Zenon, <2>1, UnlinkOutputStep DEF UndoFile
  <2> QED BY Zenon, <1>2, <2>1, EncodeStep, SyncParentStep, CreateFileStep, WriteTextStep, SyncTextStep, SyncEntryStep,
             SyncUndoStep DEF WriteFile
<1>3. ASSUME NEW p \in Procs, Commit(p) PROVE IInv'
    BY Zenon, <1>3, LockVaultStep, CheckStep, InstallStep, ConfirmStep DEF Commit
<1>4. ASSUME NEW p \in Procs, UnlinkNewKey(p) PROVE IInv'
    BY Zenon, <1>4, UnlinkOutputStep DEF UnlinkNewKey
<1>5. ASSUME NEW p \in Procs, Step(p) PROVE IInv'
    BY Zenon, <1>2, <1>3, <1>4, <1>5, UnlockStep, ReportStep DEF Step
<1> QED BY Zenon, <1>1, <1>5, KillStep, ForgetStep, DiscardStep, LosePasswordsStep, CrashStep, StutterStep
        DEF Next

\* What holds in every state of commands, crashes and users that follow the messages.
THEOREM Invariant == Spec => []IInv
BY InitIInv, NextIInv, PTL DEF Spec

\* Whoever follows the messages of init, passwd, rotate, restore and edit can open
\* the vault, whatever snapshot a crash leaves.
THEOREM AlwaysOpens == Spec => []CanOpen
<1>1. ASSUME IInv PROVE CanOpen
    BY Zenon, <1>1, Parts DEF Openable, CanOpen
<1> QED BY <1>1, Invariant, PTL

\* "Master password updated" and "The previous key is now invalid" stay true until a
\* restore.
THEOREM StaysReplaced == Spec => []ReplacedStaysReplaced
<1>1. ASSUME IInv PROVE ReplacedStaysReplaced
    BY Zenon, <1>1, Parts
<1> QED BY <1>1, Invariant, PTL

\* The recovery key of every snapshot a crash may show is in a whole and durable file,
\* but for an init that has not reported one and a restore to a replaced key.
THEOREM KeyKept == Spec => []RecoveryKeyKept
<1>1. ASSUME IInv PROVE RecoveryKeyKept
  <2> SUFFICES ASSUME NEW s \in Shown, ~KeyFileHeld(slot[s].rec), slot[s].rec \notin initial
               PROVE  rolled /\ slot[s].rec \in oldKeys
      BY Zenon DEF RecoveryKeyKept
  <2>1. slot[s].rec \in oldKeys
      BY Zenon, <1>1, ShownInstalled, Parts DEF Kept
  <2>2. rolled
      BY Zenon, <1>1, <2>1, Parts DEF ReplacedStaysReplaced
  <2> QED BY Zenon, <2>1, <2>2
<1> QED BY <1>1, Invariant, PTL

-----------------------------------------------------------------------------
(***************************************************************************)
(* The commands on the register.                                           *)
(***************************************************************************)

LEMMA InitRegister == ASSUME Init PROVE Store!Init
BY Zenon DEF Init, Store!Init, Store!Ids, Ids, NoClient, Store!NoClient

LEMMA QuietRegister == ASSUME UNCHANGED <<parent, issued, cur, may, client>> PROVE UNCHANGED Store!vars
BY Zenon DEF Store!vars

LEMMA BeginRegister == ASSUME IInv, NEW p \in Procs, Begin(p) PROVE Store!Begin(p)
<1>1. /\ client[p] = NoClient /\ UNCHANGED <<parent, issued, cur, may>>
  <2>1. proc[p].pc = "idle" /\ UNCHANGED vaultFile
      BY Zenon, IdleTyped DEF Begin, BeginInit, BeginPasswd, BeginRotate, BeginRestore, BeginEdit
  <2> QED BY Zenon, <2>1, Parts DEF Commands, vaultFile
<1>2. CASE BeginInit(p)
    BY Zenon, <1>1, <1>2 DEF BeginInit, Wants, Store!Begin, NoClient, Store!NoClient
<1>3. CASE cur # 0 /\ Wants(p, "save", cur)
    BY Zenon, <1>1, <1>3, SavesCurrent DEF Wants, Store!Begin, NoClient, Store!NoClient, Ids, Store!Ids
<1>4. CASE BeginRestore(p)
  <2>1. PICK s \in Ids : slot[s] # NoSlots /\ Wants(p, "restore", s)
      BY Zenon, <1>4 DEF BeginRestore
  <2>2. s \in 1..issued
      BY <2>1, CredentialsAssumption, Parts DEF Types, Snapshots, Installed, Ids
  <2> QED BY Zenon, <1>1, <2>1, <2>2 DEF Wants, Store!Begin, NoClient, Store!NoClient
<1> QED BY Zenon, <1>2, <1>3, <1>4 DEF Begin, BeginPasswd, BeginRotate, BeginEdit

LEMMA InstallRegister ==
    ASSUME IInv, NEW p \in Procs, Install(p)
    PROVE  Store!Save(p) \/ Store!Create(p) \/ Store!Restore(p) \/ UNCHANGED Store!vars
<1> DEFINE r == proc[p]
<1>1. r.pc = "install" /\ Holds(p) /\ Saves(p) /\ UNCHANGED <<parent, issued, client>>
    BY Zenon, Parts DEF Install, Commands
<1>2. CASE UNCHANGED <<cur, may>>
    BY Zenon, <1>1, <1>2 DEF Store!vars
<1>3. CASE cur' = r.new /\ may' = may \cup {cur'}
  <2>1. CASE r.cmd = "restore"
    <3>1. client[p] = [want |-> "restore", of |-> r.new]
        BY Zenon, <1>1, <2>1 DEF Holds
    <3>2. client[p].want = "restore" /\ client[p].of = r.new
        BY ONLY SMT, <3>1
    <3>3. Store!Set(client[p].of)
        BY Zenon, <1>1, <1>3, <3>2 DEF Store!Set
    <3> QED BY Zenon, <1>1, <3>2, <3>3 DEF Store!Restore
  <2>2. CASE r.cmd # "restore"
    <3>1. r.new \in 1..issued /\ client[p].of = cur /\ parent[r.new] = cur
      <4>1. r.new = issued /\ r.new \in Ids /\ client[p].of = cur /\ parent[r.new] = cur
          BY Zenon, <1>1, <2>2 DEF Saves
      <4> QED BY ONLY SMT, <4>1, CredentialsAssumption DEF Ids
    <3>2. Store!Set(r.new)
        BY Zenon, <1>1, <1>3 DEF Store!Set
    <3>3. CASE r.cmd = "init"
      <4>1. client[p].want = "create" /\ client[p].of = 0
          BY <1>1, <3>3 DEF Holds
      <4> QED BY Zenon, <3>1, <3>2, <4>1 DEF Store!Create
    <3>4. CASE r.cmd # "init"
      <4>1. client[p].want = "save" /\ client[p] \in Client
          BY Zenon, <1>1, <2>2, <3>4, Parts DEF Holds, Cmds, Types
      <4>2. client[p] = [want |-> "save", of |-> cur]
          BY Zenon, <3>1, <4>1 DEF Client
      <4> QED BY Zenon, <3>1, <3>2, <4>2 DEF Store!Save
    <3> QED BY ZenonT(30), <3>3, <3>4
  <2> QED BY Zenon, <2>1, <2>2
<1> QED BY Zenon, <1>2, <1>3 DEF Install

LEMMA CheckRegister ==
    ASSUME IInv, NEW p \in Procs, Check(p) PROVE Store!Make(p) \/ UNCHANGED Store!vars
<1>1. CASE UNCHANGED register
    BY Zenon, <1>1 DEF register, vaultFile, Store!vars
<1>2. CASE /\ proc[p].cmd \in {"init", "passwd", "rotate", "edit"}
           /\ issued < MaxSnap /\ issued' = issued + 1
           /\ parent' = [parent EXCEPT ![issued + 1] = client[p].of]
           /\ UNCHANGED <<cur, may, client>>
  <2>1. Holds(p)
      BY Zenon, Parts DEF Check, Commands
  <2>2. client[p].want \in {"save", "create"}
    <3>1. /\ proc[p].cmd = "init" => client[p] = [want |-> "create", of |-> 0]
          /\ proc[p].cmd \in {"passwd", "rotate", "edit"} => client[p].want = "save"
        BY Zenon, <2>1 DEF Holds
    <3>2. proc[p].cmd \in {"init", "passwd", "rotate", "edit"}
        BY Zenon, <1>2
    <3> QED BY ONLY SMT, <3>1, <3>2
  <2> QED BY Zenon, <1>2, <2>2 DEF Store!Make
<1> QED BY Zenon, <1>1, <1>2 DEF Check

LEMMA ConfirmRegister ==
    ASSUME IInv, NEW p \in Procs, Confirm(p) PROVE Store!Confirm \/ UNCHANGED Store!vars
BY Zenon DEF Confirm, Store!Confirm, Store!vars

LEMMA EndRegister ==
    ASSUME NEW p \in Procs, Done(p), UNCHANGED vaultFile PROVE Store!End(p)
BY Zenon DEF Done, vaultFile, Store!End, NoClient, Store!NoClient

LEMMA CrashRegister == ASSUME Crash PROVE Store!Crash
BY Zenon DEF Crash, Store!Crash, NoClient, Store!NoClient

LEMMA StepRegister ==
    ASSUME IInv, NEW p \in Procs, Step(p)
    PROVE  \/ Store!End(p) \/ Store!Make(p) \/ Store!Save(p) \/ Store!Create(p) \/ Store!Restore(p)
           \/ Store!Confirm \/ UNCHANGED Store!vars
<1>1. CASE UNCHANGED register
    BY Zenon, <1>1 DEF register, vaultFile, Store!vars
<1>2. CASE WriteFile(p) \/ LockVault(p) \/ UnlinkNewKey(p)
  <2>1. UNCHANGED register
      BY Zenon, <1>2 DEF WriteFile, Encode, SyncParent, CreateFile, WriteText, SyncText, SyncEntry, UndoFile, SyncUndo,
                  UnlinkOutput, UnlinkNewKey, LockVault
  <2> QED BY Zenon, <1>1, <2>1
<1>3. CASE Unlock(p)
  <2>1. UNCHANGED vaultFile /\ (UNCHANGED client \/ Done(p))
      BY Zenon, <1>3 DEF Unlock
  <2> QED BY Zenon, <1>1, <2>1, EndRegister DEF register
<1>4. CASE Report(p)
    BY Zenon, <1>4, EndRegister DEF Report
<1> QED BY Zenon, <1>2, <1>3, <1>4, CheckRegister, InstallRegister, ConfirmRegister DEF Step, Commit

LEMMA NextRegister == ASSUME IInv, [Next]_vars PROVE [Store!Next]_(Store!vars)
<1>1. CASE UNCHANGED register
    BY Zenon, <1>1 DEF register, vaultFile, Store!vars
<1>2. CASE UNCHANGED vars \/ Forget \/ Discard \/ LosePasswords
  <2>1. UNCHANGED register
      BY Zenon, <1>2 DEF vars, Forget, Discard, LosePasswords
  <2> QED BY Zenon, <1>1, <2>1
<1>3. ASSUME NEW p \in Procs, Kill(p) PROVE Store!End(p)
    BY Zenon, <1>3, EndRegister DEF Kill
<1>4. ASSUME NEW p \in Procs, Begin(p) \/ Step(p) \/ Kill(p) PROVE [Store!Next]_(Store!vars)
    BY Zenon, <1>3, <1>4, BeginRegister, StepRegister DEF Store!Next
<1>5. CASE Crash
    BY Zenon, <1>5, CrashRegister DEF Store!Next
<1> QED BY Zenon, <1>2, <1>4, <1>5 DEF Next

\* init, passwd, rotate, restore and edit use the vault file as a compare-and-swap
\* register: pv_store_save under the lock, with the hash of the snapshot opened.
THEOREM RegisterUsed == Spec => UsesRegister
BY InitRegister, NextRegister, Invariant, PTL DEF Spec, UsesRegister, Store!Spec
=============================================================================
