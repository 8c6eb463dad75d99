---------------------------- MODULE SnapshotCopy ----------------------------
(***************************************************************************)
(* Copying an authenticated snapshot to a new file: the commands backup,   *)
(* rescue recover and rollback (src/cli.c), pv_store_backup,               *)
(* pv_store_recover_authenticated and write_exact_snapshot_copy            *)
(* (src/store.c).  A command authenticates the snapshot behind a path,     *)
(* reads the path again and compares hashes, writes a temporary file,      *)
(* syncs it, gives it the requested name unless that exists, syncs the     *)
(* directory and reads the copy back.                                      *)
(*                                                                         *)
(* Several commands run at once and may ask for one output.  Between any   *)
(* two steps somebody may put another snapshot behind the source path,     *)
(* remove or replace the output, or the machine may crash.  A file is      *)
(* named by the process that made it; the data of a file that was not      *)
(* synced is lost or cut short by a crash, and a crash may reveal any      *)
(* state its directory had since the directory was synced.                 *)
(***************************************************************************)
EXTENDS Naturals, FiniteSets

CONSTANTS
    Procs,          \* the commands that run
    None, Other,    \* no file, a file no command made
    MaxGen,         \* bound: generations of the vault
    MaxEvents       \* bound: failures, meddling, crashes

ASSUME CopyAssumption ==
    MaxGen \in Nat \ {0} /\ MaxEvents \in Nat /\ None \notin Procs /\ Other \notin Procs /\ None # Other

(***************************************************************************)
(* What the source path may hold: a generation of the vault whose          *)
(* credential the user has, one of another vault, a snapshot that parses   *)
(* and does not authenticate, a file that does not parse.                  *)
(***************************************************************************)
Own == [vault : {1}, gen : 1..MaxGen]
Foreign == [vault |-> 2, gen |-> 1]
Damaged == [vault |-> 1, gen |-> 0]
Garbage == [vault |-> 0, gen |-> 0]
Snapshots == Own \cup {Foreign, Damaged, Garbage}

Commands == {"backup", "recover"}                 \* rollback is recover by another name

Mode(cmd) == IF cmd = "backup" THEN 600 ELSE 400
Nothing == [data |-> Garbage, whole |-> FALSE, mode |-> 600, synced |-> FALSE]
Names == Procs \cup {None, Other}

VARIABLES
    source,         \* behind the source path
    proc,           \* each command
    file,           \* the file each command makes
    temp,           \* the commands whose temporary name exists
    out, mayOut,    \* the file the output names (None: no file); what a crash may reveal
    events,
    kept            \* history: the commands whose copies got the name, and that nobody
                    \* but a command has touched it since

dir == <<temp, out, mayOut, kept>>
vars == <<source, proc, file, dir, events>>

Proc == [cmd : Commands, cred : {"password", "recovery"},
         pc : {"inspect", "open", "reread", "create", "write", "sync", "rename",
               "syncdir", "readback", "remove", "done", "dead"},
         id : 0..2,               \* inspected_header.vault_id
         hash : Snapshots,        \* vault.source_hash
         data : Snapshots,        \* what the second read gave
         status : {"OK", "IO", "AUTH", "FORMAT", "EXISTS", "DURABILITY"}]

Init ==
    /\ source \in Snapshots
    /\ proc \in [Procs -> {p \in [cmd : Commands, cred : {"password", "recovery"},
                                  pc : {"inspect", "open"}, id : {0}, hash : {Garbage},
                                  data : {Garbage}, status : {"OK"}] :
                              IF p.cmd = "backup" THEN p.pc = "open" /\ p.cred = "password"
                              ELSE p.pc = "inspect"}]
    /\ file = [p \in Procs |-> Nothing]
    /\ temp = {} /\ out \in {None, Other} /\ mayOut = {out}
    /\ events = 0 /\ kept = {}

Event == events < MaxEvents /\ events' = events + 1
Same == UNCHANGED events

Goto(p, pc) == proc' = [proc EXCEPT ![p].pc = pc]
Fail(p, pc, s) == proc' = [proc EXCEPT ![p].pc = pc, ![p].status = s]

-----------------------------------------------------------------------------
(***************************************************************************)
(* Authenticating.                                                         *)
(***************************************************************************)

\* read_disk_file fails: no such file, not a private regular one, a failed read.
Unreadable(p) == Event /\ Fail(p, "done", "IO")

\* pv_store_inspect: the vault's identity, not authenticated.
Inspect(p) ==
    /\ proc[p].pc = "inspect"
    /\ \/ Same /\ source = Garbage /\ Fail(p, "done", "FORMAT")
       \/ /\ Same /\ source # Garbage
          /\ proc' = [proc EXCEPT ![p].pc = "open", ![p].id = source.vault]
       \/ Unreadable(p)
    /\ UNCHANGED <<source, file, dir>>

\* The recovery text is for the vault it was made for; a credential opens what
\* the vault's own keys sealed.
Unlocks(p) ==
    /\ proc[p].cred = "recovery" => proc[p].id = 1
    /\ source \in Own

\* open_password_vault or open_authenticated_snapshot.
Authenticate(p) ==
    /\ proc[p].pc = "open"
    /\ \/ /\ Same /\ Unlocks(p)
          /\ proc' = [proc EXCEPT ![p].pc = "reread", ![p].hash = source]
       \/ Same /\ ~Unlocks(p) /\ source # Garbage /\ Fail(p, "done", "AUTH")
       \/ Same /\ ~Unlocks(p) /\ source = Garbage /\ Fail(p, "done", "FORMAT")
       \/ Unreadable(p)
    /\ UNCHANGED <<source, file, dir>>

\* A mutant: what the path holds now is copied.
HashAny(p) == TRUE

\* The second read is of what was authenticated.
HashMatches(p) == source = proc[p].hash

\* pv_store_backup, pv_store_recover_authenticated: the path is read again.
Reread(p) ==
    /\ proc[p].pc = "reread"
    /\ \/ Same /\ source = Garbage /\ Fail(p, "done", "FORMAT")
       \/ Same /\ source # Garbage /\ ~HashMatches(p) /\ Fail(p, "done", "AUTH")
       \/ /\ Same /\ source # Garbage /\ HashMatches(p)
          /\ proc' = [proc EXCEPT ![p].pc = "create", ![p].data = source]
       \/ Unreadable(p)
    /\ UNCHANGED <<source, file, dir>>

-----------------------------------------------------------------------------
(***************************************************************************)
(* write_snapshot_exclusive_at.                                            *)
(***************************************************************************)

Create(p) ==
    /\ proc[p].pc = "create"
    /\ \/ /\ Same /\ Goto(p, "write") /\ temp' = temp \cup {p}
       \/ /\ Event /\ Fail(p, "done", "IO") /\ UNCHANGED temp
    /\ UNCHANGED <<source, file, out, mayOut, kept>>

\* The header, the ciphertext, the mode.
Write(p) ==
    /\ proc[p].pc = "write"
    /\ \/ /\ Same /\ Goto(p, "sync")
          /\ file' = [file EXCEPT ![p] = [data |-> proc[p].data, whole |-> TRUE,
                                          mode |-> Mode(proc[p].cmd), synced |-> FALSE]]
       \/ /\ Event /\ Fail(p, "remove", "IO")
          /\ file' = [file EXCEPT ![p].data = proc[p].data]
    /\ UNCHANGED <<source, dir>>

Sync(p) ==
    /\ proc[p].pc = "sync"
    /\ \/ Same /\ Goto(p, "rename") /\ file' = [file EXCEPT ![p].synced = TRUE]
       \/ Event /\ Fail(p, "remove", "IO") /\ UNCHANGED file
    /\ UNCHANGED <<source, dir>>

\* A mutant: what has the name is replaced.
NeverTaken == FALSE

\* RENAME_NOREPLACE refuses.
Taken == out # None

Rename(p) ==
    /\ proc[p].pc = "rename"
    /\ \/ /\ Taken
          /\ Same /\ Fail(p, "remove", "EXISTS")
          /\ UNCHANGED dir
       \/ /\ ~Taken
          /\ Same /\ Goto(p, "syncdir")
          /\ temp' = temp \ {p} /\ out' = p /\ mayOut' = mayOut \cup {p}
          /\ kept' = kept \cup {p}
       \/ /\ Event /\ Fail(p, "remove", "IO")
          /\ UNCHANGED dir
    /\ UNCHANGED <<source, file>>

\* A mutant: what the directory sync says is not looked at.
SyncDirUnchecked(p) ==
    /\ proc[p].pc = "syncdir"
    /\ \/ Same /\ mayOut' = {out}
       \/ Event /\ UNCHANGED mayOut
    /\ Goto(p, "readback")
    /\ UNCHANGED <<source, file, temp, out, kept>>

\* A mutant: a failed directory sync is an I/O error like any other.
SyncDirPlainError(p) ==
    /\ proc[p].pc = "syncdir"
    /\ \/ Same /\ Goto(p, "readback") /\ mayOut' = {out}
       \/ Event /\ Fail(p, "done", "IO") /\ UNCHANGED mayOut
    /\ UNCHANGED <<source, file, temp, out, kept>>

\* The directory is synced, and must still be the one the path names.
SyncDir(p) ==
    /\ proc[p].pc = "syncdir"
    /\ \/ Same /\ Goto(p, "readback") /\ mayOut' = {out}
       \/ Event /\ Fail(p, "readback", "DURABILITY") /\ mayOut' \in {mayOut, {out}}
    /\ UNCHANGED <<source, file, temp, out, kept>>

\* The temporary file of a write that failed is removed.
RemoveTemp(p) ==
    /\ proc[p].pc = "remove"
    /\ \/ Same /\ temp' = temp \ {p}
       \/ Event /\ UNCHANGED temp
    /\ Goto(p, "done")
    /\ UNCHANGED <<source, file, out, mayOut, kept>>

\* The output holds, byte for byte and with its mode, what was read.
ReadsBack(p) ==
    /\ out \in Procs
    /\ file[out].whole /\ file[out].data = proc[p].data /\ file[out].mode = Mode(proc[p].cmd)

\* write_exact_snapshot_copy's second half.
Readback(p) ==
    /\ proc[p].pc = "readback"
    /\ \/ Same /\ ReadsBack(p) /\ Goto(p, "done")
       \/ Same /\ ~ReadsBack(p) /\ Fail(p, "done", "DURABILITY")
       \/ Event /\ Fail(p, "done", "DURABILITY")
    /\ UNCHANGED <<source, file, dir>>

-----------------------------------------------------------------------------
(***************************************************************************)
(* The surroundings.                                                       *)
(***************************************************************************)

\* Another process saves the vault, or something else comes to the path.
SourceChanges ==
    /\ Event
    /\ source' \in Snapshots \ {source}
    /\ UNCHANGED <<proc, file, dir>>

\* Somebody removes or replaces what has the output's name.
Meddle ==
    /\ Event
    /\ out' \in {None, Other} \ {out}
    /\ mayOut' = mayOut \cup {out'} /\ kept' = {}
    /\ UNCHANGED <<source, proc, file, temp>>

\* What a crash leaves of a file's data.
Survives(f) == IF f.synced THEN f ELSE [f EXCEPT !.whole = FALSE]

Crash ==
    /\ Event
    /\ proc' = [p \in Procs |-> IF proc[p].pc = "done" THEN proc[p] ELSE [proc[p] EXCEPT !.pc = "dead"]]
    /\ file' = [p \in Procs |-> Survives(file[p])]
    /\ out' \in mayOut /\ mayOut' = {out'}
    /\ UNCHANGED <<source, temp, kept>>

Copy(p) ==
    \/ Inspect(p) \/ Authenticate(p) \/ Reread(p) \/ Create(p) \/ Write(p) \/ Sync(p)
    \/ Rename(p) \/ SyncDir(p) \/ RemoveTemp(p) \/ Readback(p)

Next ==
    \/ \E p \in Procs : Copy(p)
    \/ SourceChanges \/ Meddle \/ Crash

Spec == Init /\ [][Next]_vars

-----------------------------------------------------------------------------
TypeOK ==
    /\ source \in Snapshots /\ proc \in [Procs -> Proc]
    /\ file \in [Procs -> [data : Snapshots, whole : BOOLEAN, mode : {400, 600}, synced : BOOLEAN]]
    /\ temp \subseteq Procs /\ out \in Names /\ mayOut \subseteq Names /\ out \in mayOut
    /\ events \in 0..MaxEvents /\ kept \subseteq Procs

\* Whatever happens to the source while a command runs, and whenever the machine
\* stops, a copy that has the output's name, or that a crash may give it, is a
\* whole snapshot that authenticated with the user's credential, synced first.
CopiesAreAuthentic ==
    \A f \in mayOut \cap Procs : file[f].whole /\ file[f].synced /\ file[f].data \in Own

\* A command that reports success stored exactly what it authenticated: as long
\* as nobody but these commands touches the output, neither a crash loses it nor
\* another command that asked for the same output and found the name free, too.
OkMeansStored ==
    \A p \in Procs : proc[p].pc = "done" /\ proc[p].status = "OK" /\ p \in kept =>
       mayOut = {p} /\ file[p].data = proc[p].hash

\* A command that reports any other error than DURABILITY published nothing.
ErrorMeansUnpublished ==
    \A p \in Procs : proc[p].pc = "done" /\ proc[p].status \notin {"OK", "DURABILITY"} =>
       p \notin mayOut

\* The exit status of backup, rescue recover and rollback can be relied on:
\* success means stored, any error but DURABILITY means nothing was published.
StatusTells == OkMeansStored /\ ErrorMeansUnpublished
=============================================================================
