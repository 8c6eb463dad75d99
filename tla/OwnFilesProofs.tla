--------------------------- MODULE OwnFilesProofs ---------------------------
(***************************************************************************)
(* Proofs about OwnFiles, for any number of commands, generations, events, *)
(* keys, values, lines and edits.                                          *)
(*                                                                         *)
(* What a copy promises depends on where its command is, so the inductive  *)
(* invariant IInv of SnapshotCopy says, for each command, what its locals  *)
(* and its file are at each step, and what it means that the output may    *)
(* name the file.                                                          *)
(*                                                                         *)
(* That a load took one file rests on its time stamp: LoadInv says that    *)
(* the open file, while its stamp is the one the first fstat saw, is still *)
(* that file, and that what has been read is its beginning; and, while it  *)
(* is parsed, that the candidate is what the lines before pos say.         *)
(***************************************************************************)
EXTENDS OwnFiles, TLAPS

\* From the second read on, what a command copies is what it authenticated.
Carries(p) ==
    /\ proc[p].pc = "reread" => proc[p].hash \in Own
    /\ proc[p].pc \in {"create", "write", "sync", "rename"} =>
          proc[p].data = proc[p].hash /\ proc[p].hash \in Own
    /\ proc[p].pc \in {"inspect", "open", "reread", "create", "write", "sync", "rename"} =>
          proc[p].status = "OK"
    /\ proc[p].pc = "remove" => proc[p].status # "OK"

\* The temporary file is whole before it is synced, and synced before it is named.
Prepared(p) ==
    /\ proc[p].pc \in {"sync", "rename"} => file[p].whole /\ file[p].data = proc[p].data
    /\ proc[p].pc = "rename" => file[p].synced

\* What holds of a command whose file the output names, or may name after a crash.
Published(p) ==
    p \in mayOut =>
        /\ proc[p].pc \in {"syncdir", "readback", "done", "dead"}
        /\ proc[p].pc # "dead" => proc[p].status \in {"OK", "DURABILITY"}
        /\ file[p].whole /\ file[p].synced
        /\ file[p].data = proc[p].hash /\ proc[p].hash \in Own

\* A command that got the name, while nobody but the commands touches it, has it, and
\* for good once the directory is synced.
Holds(p) ==
    p \in kept =>
        /\ proc[p].pc = "syncdir" => out = p /\ proc[p].status = "OK"
        /\ proc[p].pc \in {"readback", "done"} /\ proc[p].status = "OK" => mayOut = {p}

\* The inductive invariant.
Good(p) == Carries(p) /\ Prepared(p) /\ Published(p) /\ Holds(p)
IInv == TypeOK /\ \A p \in Procs : Good(p)

-----------------------------------------------------------------------------
(***************************************************************************)
(* What one step changes of the commands' locals.                          *)
(***************************************************************************)
PCs == {"inspect", "open", "reread", "create", "write", "sync", "rename", "syncdir",
        "readback", "remove", "done", "dead"}
Statuses == {"OK", "IO", "AUTH", "FORMAT", "EXISTS", "DURABILITY"}

\* Only command p moved, and only its program counter and status changed.
Moved(p, w, s) ==
    /\ proc' \in [Procs -> Proc]
    /\ proc'[p].pc = w /\ proc'[p].status = s
    /\ proc'[p].hash = proc[p].hash /\ proc'[p].data = proc[p].data
    /\ \A q \in Procs \ {p} : proc'[q] = proc[q]

LEMMA GotoMoves ==
    ASSUME proc \in [Procs -> Proc], NEW p \in Procs, NEW w \in PCs, Goto(p, w)
    PROVE  Moved(p, w, proc[p].status)
BY DEF Goto, Moved, Proc, PCs

LEMMA FailMoves ==
    ASSUME proc \in [Procs -> Proc], NEW p \in Procs, NEW w \in PCs, NEW s \in Statuses,
           Fail(p, w, s)
    PROVE  Moved(p, w, s)
<1> DEFINE there == [proc EXCEPT ![p].pc = w]
<1>1. /\ there \in [Procs -> Proc] /\ there[p].pc = w
      /\ there[p].hash = proc[p].hash /\ there[p].data = proc[p].data
      /\ \A q \in Procs \ {p} : there[q] = proc[q]
    BY Zenon DEF Proc, PCs
<1>2. proc' = [there EXCEPT ![p].status = s]
    BY Zenon DEF Fail
<1> HIDE DEF there
<1> QED
    BY SMTT(30), <1>1, <1>2 DEF Moved, Proc, Statuses

\* The steps that fill in a local besides.
LEMMA InspectMoves ==
    ASSUME proc \in [Procs -> Proc], NEW p \in Procs, NEW i \in 0..2,
           proc' = [proc EXCEPT ![p].pc = "open", ![p].id = i]
    PROVE  Moved(p, "open", proc[p].status)
<1> DEFINE there == [proc EXCEPT ![p].pc = "open"]
<1>1. /\ there \in [Procs -> Proc] /\ there[p].pc = "open"
      /\ there[p].status = proc[p].status
      /\ there[p].hash = proc[p].hash /\ there[p].data = proc[p].data
      /\ \A q \in Procs \ {p} : there[q] = proc[q]
    BY Zenon DEF Proc
<1>2. proc' = [there EXCEPT ![p].id = i]
    BY Zenon
<1> HIDE DEF there
<1> QED
    BY ONLY <1>1, <1>2, p \in Procs, i \in 0..2 DEF Moved, Proc

LEMMA AuthenticateMoves ==
    ASSUME proc \in [Procs -> Proc], NEW p \in Procs, NEW h \in Snapshots,
           proc' = [proc EXCEPT ![p].pc = "reread", ![p].hash = h]
    PROVE  /\ proc' \in [Procs -> Proc]
           /\ proc'[p].pc = "reread" /\ proc'[p].hash = h /\ proc'[p].status = proc[p].status
           /\ \A q \in Procs \ {p} : proc'[q] = proc[q]
<1> DEFINE there == [proc EXCEPT ![p].pc = "reread"]
<1>1. /\ there \in [Procs -> Proc] /\ there[p].pc = "reread"
      /\ there[p].status = proc[p].status
      /\ \A q \in Procs \ {p} : there[q] = proc[q]
    BY Zenon DEF Proc
<1>2. proc' = [there EXCEPT ![p].hash = h]
    BY Zenon
<1> HIDE DEF there
<1> QED
    BY ONLY <1>1, <1>2, p \in Procs, h \in Snapshots DEF Proc

LEMMA RereadMoves ==
    ASSUME proc \in [Procs -> Proc], NEW p \in Procs, NEW d \in Snapshots,
           proc' = [proc EXCEPT ![p].pc = "create", ![p].data = d]
    PROVE  /\ proc' \in [Procs -> Proc]
           /\ proc'[p].pc = "create" /\ proc'[p].hash = proc[p].hash /\ proc'[p].data = d
           /\ proc'[p].status = proc[p].status
           /\ \A q \in Procs \ {p} : proc'[q] = proc[q]
<1> DEFINE there == [proc EXCEPT ![p].pc = "create"]
<1>1. /\ there \in [Procs -> Proc] /\ there[p].pc = "create"
      /\ there[p].status = proc[p].status /\ there[p].hash = proc[p].hash
      /\ \A q \in Procs \ {p} : there[q] = proc[q]
    BY Zenon DEF Proc
<1>2. proc' = [there EXCEPT ![p].data = d]
    BY Zenon
<1> HIDE DEF there
<1> QED
    BY ONLY <1>1, <1>2, p \in Procs, d \in Snapshots DEF Proc

LEMMA InitIInv == Init => IInv
<1> SUFFICES ASSUME Init PROVE IInv
  BY Zenon
<1>1. Garbage \in Snapshots
  BY Zenon DEF Snapshots
<1>2. proc \in [Procs -> Proc] /\ \A p \in Procs : proc[p].pc \in {"inspect", "open"} /\ proc[p].status = "OK"
  BY <1>1 DEF Init, Proc, Commands
<1>3. TypeOK
  BY <1>1, <1>2, CopyAssumption DEF Init, TypeOK, Names, Nothing
<1>4. mayOut \cap Procs = {} /\ kept = {}
  BY Zenon, CopyAssumption DEF Init
<1> QED
  BY Zenon, <1>2, <1>3, <1>4 DEF IInv, Good, Carries, Prepared, Published, Holds

-----------------------------------------------------------------------------
(***************************************************************************)
(* Every step preserves the invariant.                                     *)
(***************************************************************************)
LEMMA EventsBounded ==
    ASSUME events \in 0..MaxEvents, Event \/ Same PROVE events' \in 0..MaxEvents
BY CopyAssumption DEF Event, Same

\* A step of one command that touches neither file nor output.
LEMMA LocalStep ==
    ASSUME IInv, NEW p \in Procs, proc' \in [Procs -> Proc],
           \A q \in Procs \ {p} : proc'[q] = proc[q],
           UNCHANGED <<source, file, out, mayOut, kept>>,
           temp' \subseteq Procs, Event \/ Same, Good(p)'
    PROVE  IInv'
<1>1. TypeOK'
  BY Zenon, EventsBounded DEF IInv, TypeOK
<1>2. ASSUME NEW q \in Procs \ {p} PROVE Good(q)'
  BY DEF IInv, Good, Carries, Prepared, Published, Holds
<1> QED
  BY Zenon, <1>1, <1>2 DEF IInv

LEMMA InspectIInv == ASSUME IInv, NEW p \in Procs, Inspect(p) PROVE IInv'
<1>1. proc \in [Procs -> Proc] /\ source \in Snapshots /\ proc[p].pc = "inspect" /\ Good(p)
  BY Zenon DEF IInv, TypeOK, Inspect
<1>2. source.vault \in 0..2
  BY <1>1 DEF Snapshots, Own, Foreign, Damaged, Garbage
<1>3. Moved(p, "done", "FORMAT") \/ Moved(p, "done", "IO") \/ Moved(p, "open", proc[p].status)
  BY Zenon, <1>1, <1>2, FailMoves, InspectMoves DEF Inspect, Unreadable, PCs, Statuses
<1>4. UNCHANGED <<source, file, out, mayOut, kept, temp>> /\ temp \subseteq Procs /\ (Event \/ Same)
  BY Zenon DEF Inspect, Unreadable, dir, IInv, TypeOK
<1>5. Good(p)'
  BY Zenon, <1>1, <1>3, <1>4 DEF Moved, Good, Carries, Prepared, Published, Holds
<1> QED
  BY Zenon, <1>3, <1>4, <1>5, LocalStep DEF Moved

LEMMA AuthenticateIInv == ASSUME IInv, NEW p \in Procs, Authenticate(p) PROVE IInv'
<1>1. proc \in [Procs -> Proc] /\ source \in Snapshots /\ proc[p].pc = "open" /\ Good(p)
  BY Zenon DEF IInv, TypeOK, Authenticate
<1>4. UNCHANGED <<source, file, out, mayOut, kept, temp>> /\ temp \subseteq Procs /\ (Event \/ Same)
  BY Zenon DEF Authenticate, Unreadable, dir, IInv, TypeOK
<1>5. CASE Unlocks(p) /\ proc' = [proc EXCEPT ![p].pc = "reread", ![p].hash = source]
  <2>1. /\ proc' \in [Procs -> Proc]
        /\ proc'[p].pc = "reread" /\ proc'[p].hash = source /\ proc'[p].status = proc[p].status
        /\ \A q \in Procs \ {p} : proc'[q] = proc[q]
    BY Zenon, <1>1, <1>5, AuthenticateMoves
  <2>2. source \in Own
    BY Zenon, <1>5 DEF Unlocks
  <2>3. Good(p)'
    BY ONLY Zenon, <1>1, <1>4, <2>1, <2>2 DEF Good, Carries, Prepared, Published, Holds
  <2> QED
    BY Zenon, <1>4, <2>1, <2>3, LocalStep
<1>6. CASE Fail(p, "done", "AUTH") \/ Fail(p, "done", "FORMAT") \/ Fail(p, "done", "IO")
  <2>1. Moved(p, "done", "AUTH") \/ Moved(p, "done", "FORMAT") \/ Moved(p, "done", "IO")
    BY Zenon, <1>1, <1>6, FailMoves DEF PCs, Statuses
  <2>2. Good(p)'
    BY Zenon, <1>1, <1>4, <2>1 DEF Moved, Good, Carries, Prepared, Published, Holds
  <2> QED
    BY Zenon, <1>4, <2>1, <2>2, LocalStep DEF Moved
<1> QED
  BY Zenon, <1>5, <1>6 DEF Authenticate, Unreadable

LEMMA RereadIInv == ASSUME IInv, NEW p \in Procs, Reread(p) PROVE IInv'
<1>1. proc \in [Procs -> Proc] /\ source \in Snapshots /\ proc[p].pc = "reread" /\ Good(p)
  BY Zenon DEF IInv, TypeOK, Reread
<1>4. UNCHANGED <<source, file, out, mayOut, kept, temp>> /\ temp \subseteq Procs /\ (Event \/ Same)
  BY Zenon DEF Reread, Unreadable, dir, IInv, TypeOK
<1>5. CASE HashMatches(p) /\ proc' = [proc EXCEPT ![p].pc = "create", ![p].data = source]
  <2>1. /\ proc' \in [Procs -> Proc]
        /\ proc'[p].pc = "create" /\ proc'[p].hash = proc[p].hash /\ proc'[p].data = source
        /\ proc'[p].status = proc[p].status
        /\ \A q \in Procs \ {p} : proc'[q] = proc[q]
    BY Zenon, <1>1, <1>5, RereadMoves
  <2>2. source = proc[p].hash
    BY Zenon, <1>5 DEF HashMatches
  <2>3. Good(p)'
    BY ONLY Zenon, <1>1, <1>4, <2>1, <2>2 DEF Good, Carries, Prepared, Published, Holds
  <2> QED
    BY Zenon, <1>4, <2>1, <2>3, LocalStep
<1>6. CASE Fail(p, "done", "AUTH") \/ Fail(p, "done", "FORMAT") \/ Fail(p, "done", "IO")
  <2>1. Moved(p, "done", "AUTH") \/ Moved(p, "done", "FORMAT") \/ Moved(p, "done", "IO")
    BY Zenon, <1>1, <1>6, FailMoves DEF PCs, Statuses
  <2>2. Good(p)'
    BY Zenon, <1>1, <1>4, <2>1 DEF Moved, Good, Carries, Prepared, Published, Holds
  <2> QED
    BY Zenon, <1>4, <2>1, <2>2, LocalStep DEF Moved
<1> QED
  BY Zenon, <1>5, <1>6 DEF Reread, Unreadable

LEMMA CreateIInv == ASSUME IInv, NEW p \in Procs, Create(p) PROVE IInv'
<1>1. proc \in [Procs -> Proc] /\ proc[p].pc = "create" /\ Good(p)
  BY Zenon DEF IInv, TypeOK, Create
<1>2. Moved(p, "write", proc[p].status) \/ Moved(p, "done", "IO")
  BY Zenon, <1>1, GotoMoves, FailMoves DEF Create, PCs, Statuses
<1>4. UNCHANGED <<source, file, out, mayOut, kept>> /\ temp' \subseteq Procs /\ (Event \/ Same)
  BY DEF Create, IInv, TypeOK
<1>5. Good(p)'
  BY Zenon, <1>1, <1>2, <1>4 DEF Moved, Good, Carries, Prepared, Published, Holds
<1> QED
  BY Zenon, <1>2, <1>4, <1>5, LocalStep DEF Moved

LEMMA RemoveTempIInv == ASSUME IInv, NEW p \in Procs, RemoveTemp(p) PROVE IInv'
<1>1. proc \in [Procs -> Proc] /\ proc[p].pc = "remove" /\ Good(p)
  BY Zenon DEF IInv, TypeOK, RemoveTemp
<1>2. Moved(p, "done", proc[p].status)
  BY Zenon, <1>1, GotoMoves DEF RemoveTemp, PCs
<1>4. UNCHANGED <<source, file, out, mayOut, kept>> /\ temp' \subseteq Procs /\ (Event \/ Same)
  BY Zenon DEF RemoveTemp, IInv, TypeOK
<1>5. Good(p)'
  BY Zenon, <1>1, <1>2, <1>4 DEF Moved, Good, Carries, Prepared, Published, Holds
<1> QED
  BY Zenon, <1>2, <1>4, <1>5, LocalStep DEF Moved

LEMMA ReadbackIInv == ASSUME IInv, NEW p \in Procs, Readback(p) PROVE IInv'
<1>1. proc \in [Procs -> Proc] /\ proc[p].pc = "readback" /\ Good(p)
  BY Zenon DEF IInv, TypeOK, Readback
<1>2. Moved(p, "done", proc[p].status) \/ Moved(p, "done", "DURABILITY")
  BY Zenon, <1>1, GotoMoves, FailMoves DEF Readback, PCs, Statuses
<1>4. UNCHANGED <<source, file, out, mayOut, kept, temp>> /\ temp \subseteq Procs /\ (Event \/ Same)
  BY Zenon DEF Readback, dir, IInv, TypeOK
<1>5. Good(p)'
  BY Zenon, <1>1, <1>2, <1>4 DEF Moved, Good, Carries, Prepared, Published, Holds
<1> QED
  BY Zenon, <1>2, <1>4, <1>5, LocalStep DEF Moved

-----------------------------------------------------------------------------
(***************************************************************************)
(* The steps that write and sync the file.                                 *)
(***************************************************************************)
File == [data : Snapshots, whole : BOOLEAN, mode : {400, 600}, synced : BOOLEAN]

LEMMA FileTyped ==
    ASSUME NEW f \in File, NEW b \in BOOLEAN
    PROVE  [f EXCEPT !.synced = b] \in File /\ [f EXCEPT !.whole = b] \in File
<1>1. [f EXCEPT !.synced = b] \in File
  BY DEF File
<1>2. [f EXCEPT !.whole = b] \in File
  BY DEF File
<1> QED
  BY Zenon, <1>1, <1>2

LEMMA Synced ==
    ASSUME NEW f \in File
    PROVE  /\ [f EXCEPT !.synced = TRUE] \in File /\ [f EXCEPT !.synced = TRUE].synced
           /\ f.whole => [f EXCEPT !.synced = TRUE].whole
           /\ [f EXCEPT !.synced = TRUE].data = f.data
<1>1. [f EXCEPT !.synced = TRUE] \in File
  BY Zenon, FileTyped, Zenon
<1>2. [f EXCEPT !.synced = TRUE].synced /\ [f EXCEPT !.synced = TRUE].data = f.data
  BY Zenon DEF File
<1>3. f.whole => [f EXCEPT !.synced = TRUE].whole
  BY Zenon DEF File
<1> QED
  BY Zenon, <1>1, <1>2, <1>3

LEMMA Surviving ==
    ASSUME NEW f \in File
    PROVE  Survives(f) \in File /\ (f.synced => Survives(f) = f)
<1>1. [f EXCEPT !.whole = FALSE] \in File
  BY Zenon, FileTyped, Zenon
<1> QED
  BY Zenon, <1>1 DEF Survives

LEMMA Dying ==
    ASSUME NEW r \in Proc
    PROVE  /\ [r EXCEPT !.pc = "dead"] \in Proc /\ [r EXCEPT !.pc = "dead"].pc = "dead"
           /\ [r EXCEPT !.pc = "dead"].hash = r.hash
BY Zenon DEF Proc

\* A step of one command that touches its own file and not the directory.
LEMMA FileStep ==
    ASSUME IInv, NEW p \in Procs, proc' \in [Procs -> Proc],
           \A q \in Procs \ {p} : proc'[q] = proc[q] /\ file'[q] = file[q],
           file' \in [Procs -> File], UNCHANGED <<source, temp, out, mayOut, kept>>,
           Event \/ Same, Good(p)'
    PROVE  IInv'
<1>1. TypeOK'
  BY Zenon, EventsBounded DEF IInv, TypeOK, File
<1>2. ASSUME NEW q \in Procs \ {p} PROVE Good(q)'
  BY DEF IInv, Good, Carries, Prepared, Published, Holds
<1> QED
  BY Zenon, <1>1, <1>2 DEF IInv

LEMMA WriteIInv == ASSUME IInv, NEW p \in Procs, Write(p) PROVE IInv'
<1>1. /\ proc \in [Procs -> Proc] /\ proc[p].pc = "write" /\ Good(p)
      /\ file \in [Procs -> File] /\ proc[p].data \in Snapshots
  BY DEF IInv, TypeOK, Write, Proc, File
<1>2. UNCHANGED <<source, temp, out, mayOut, kept>> /\ (Event \/ Same)
  BY Zenon DEF Write, dir
<1>3. CASE /\ Goto(p, "sync")
           /\ file' = [file EXCEPT ![p] = [data |-> proc[p].data, whole |-> TRUE,
                                           mode |-> Mode(proc[p].cmd), synced |-> FALSE]]
  <2>1. Moved(p, "sync", proc[p].status)
    BY Zenon, <1>1, <1>3, GotoMoves DEF PCs
  <2>2. [data |-> proc[p].data, whole |-> TRUE, mode |-> Mode(proc[p].cmd), synced |-> FALSE] \in File
    BY <1>1 DEF File, Mode
  <2>3. /\ file' \in [Procs -> File] /\ file'[p].whole /\ file'[p].data = proc[p].data
        /\ \A q \in Procs \ {p} : file'[q] = file[q]
    BY Zenon, <1>1, <1>3, <2>2
  <2>4. Good(p)'
    BY ONLY Zenon, <1>1, <1>2, <2>1, <2>3 DEF Moved, Good, Carries, Prepared, Published, Holds
  <2> QED
    BY Zenon, <1>2, <2>1, <2>3, <2>4, FileStep DEF Moved
<1>4. CASE Fail(p, "remove", "IO") /\ file' = [file EXCEPT ![p].data = proc[p].data]
  <2>1. Moved(p, "remove", "IO")
    BY Zenon, <1>1, <1>4, FailMoves DEF PCs, Statuses
  <2>3. file' \in [Procs -> File] /\ \A q \in Procs \ {p} : file'[q] = file[q]
    BY <1>1, <1>4 DEF File
  <2>4. Good(p)'
    BY ONLY Zenon, <1>1, <1>2, <2>1, <2>3 DEF Moved, Good, Carries, Prepared, Published, Holds
  <2> QED
    BY Zenon, <1>2, <2>1, <2>3, <2>4, FileStep DEF Moved
<1> QED
  BY Zenon, <1>3, <1>4 DEF Write

LEMMA SyncIInv == ASSUME IInv, NEW p \in Procs, Sync(p) PROVE IInv'
<1>1. /\ proc \in [Procs -> Proc] /\ proc[p].pc = "sync" /\ Good(p)
      /\ file \in [Procs -> File]
  BY Zenon DEF IInv, TypeOK, Sync, File
<1>2. UNCHANGED <<source, temp, out, mayOut, kept>> /\ (Event \/ Same)
  BY Zenon DEF Sync, dir
<1>3. CASE Goto(p, "rename") /\ file' = [file EXCEPT ![p].synced = TRUE]
  <2>1. Moved(p, "rename", proc[p].status)
    BY Zenon, <1>1, <1>3, GotoMoves DEF PCs
  <2>3. /\ file' \in [Procs -> File] /\ file'[p].synced
        /\ (file[p].whole => file'[p].whole) /\ file'[p].data = file[p].data
        /\ \A q \in Procs \ {p} : file'[q] = file[q]
    <3>1. file' = [file EXCEPT ![p] = [file[p] EXCEPT !.synced = TRUE]]
      BY Zenon, <1>3
    <3> DEFINE g == [file[p] EXCEPT !.synced = TRUE]
    <3>2. /\ g \in File /\ g.synced /\ (file[p].whole => g.whole) /\ g.data = file[p].data
      BY Zenon, <1>1, Synced
    <3> HIDE DEF g
    <3>3. file' = [file EXCEPT ![p] = g]
      BY Zenon, <3>1 DEF g
    <3> QED
      BY ONLY Zenon, <1>1, <3>2, <3>3, p \in Procs
  <2>4. Good(p)'
    BY ONLY Zenon, <1>1, <1>2, <2>1, <2>3 DEF Moved, Good, Carries, Prepared, Published, Holds
  <2> QED
    BY Zenon, <1>2, <2>1, <2>3, <2>4, FileStep DEF Moved
<1>4. CASE Fail(p, "remove", "IO") /\ UNCHANGED file
  <2>1. Moved(p, "remove", "IO")
    BY Zenon, <1>1, <1>4, FailMoves DEF PCs, Statuses
  <2>4. Good(p)'
    BY ONLY Zenon, <1>1, <1>2, <1>4, <2>1 DEF Moved, Good, Carries, Prepared, Published, Holds
  <2> QED
    BY Zenon, <1>1, <1>2, <1>4, <2>1, <2>4, FileStep DEF Moved
<1> QED
  BY Zenon, <1>3, <1>4 DEF Sync

-----------------------------------------------------------------------------
(***************************************************************************)
(* The steps on the directory.                                             *)
(***************************************************************************)
LEMMA RenameIInv == ASSUME IInv, NEW p \in Procs, Rename(p) PROVE IInv'
<1>1. /\ proc \in [Procs -> Proc] /\ proc[p].pc = "rename" /\ TypeOK
      /\ \A q \in Procs : Good(q)
  BY Zenon DEF IInv, TypeOK, Rename
<1>2. UNCHANGED <<source, file>> /\ (Event \/ Same)
  BY Zenon DEF Rename
<1>3. CASE (Fail(p, "remove", "EXISTS") \/ Fail(p, "remove", "IO")) /\ UNCHANGED dir
  <2>1. Moved(p, "remove", "EXISTS") \/ Moved(p, "remove", "IO")
    BY Zenon, <1>1, <1>3, FailMoves DEF PCs, Statuses
  <2>2. UNCHANGED <<temp, out, mayOut, kept>> /\ temp \subseteq Procs
    BY Zenon, <1>1, <1>3 DEF dir, TypeOK
  <2>3. Good(p)'
    BY Zenon, <1>1, <1>2, <2>1, <2>2 DEF Moved, Good, Carries, Prepared, Published, Holds
  <2> QED
    BY Zenon, <1>2, <2>1, <2>2, <2>3, LocalStep DEF Moved
<1>4. CASE /\ Goto(p, "syncdir") /\ out = None
           /\ temp' = temp \ {p} /\ out' = p /\ mayOut' = mayOut \cup {p}
           /\ kept' = kept \cup {p}
  <2>1. Moved(p, "syncdir", proc[p].status)
    BY Zenon, <1>1, <1>4, GotoMoves DEF PCs
  <2>2. TypeOK'
    BY <1>1, <1>2, <1>4, <2>1, EventsBounded DEF Moved, TypeOK, Names
  <2>3. Good(p)'
    BY Zenon, <1>1, <1>2, <1>4, <2>1 DEF Moved, Good, Carries, Prepared, Published, Holds
  <2>4. ASSUME NEW q \in Procs \ {p} PROVE Good(q)'
    <3>1. q # None /\ out \in mayOut
      BY ZenonT(30), <1>1, CopyAssumption DEF TypeOK
    <3>2. ~(q \in kept /\ proc[q].pc = "syncdir")
      BY Zenon, <1>1, <1>4, <3>1 DEF Good, Holds
    <3>3. ~(q \in kept /\ proc[q].pc \in {"readback", "done"} /\ proc[q].status = "OK")
      BY Zenon, <1>1, <1>4, <3>1 DEF Good, Holds
    <3>4. proc'[q] = proc[q] /\ (q \in kept' <=> q \in kept) /\ (q \in mayOut' <=> q \in mayOut)
      BY Zenon, <1>4, <2>1 DEF Moved
    <3>5. Holds(q)'
      BY Zenon, <3>2, <3>3, <3>4 DEF Holds
    <3> QED
      BY Zenon, <1>1, <1>2, <3>4, <3>5 DEF Good, Carries, Prepared, Published
  <2> QED
    BY Zenon, <2>2, <2>3, <2>4 DEF IInv
<1> QED
  BY Zenon, <1>3, <1>4 DEF Rename, Taken

LEMMA SyncDirIInv == ASSUME IInv, NEW p \in Procs, SyncDir(p) PROVE IInv'
<1>1. /\ proc \in [Procs -> Proc] /\ proc[p].pc = "syncdir" /\ TypeOK /\ out \in mayOut
      /\ \A q \in Procs : Good(q)
  BY Zenon DEF IInv, TypeOK, SyncDir
<1>2. UNCHANGED <<source, file, temp, out, kept>> /\ (Event \/ Same)
  BY Zenon DEF SyncDir
<1>3. mayOut' = mayOut \/ mayOut' = {out}
  BY Zenon DEF SyncDir
<1>4. \/ Moved(p, "readback", proc[p].status) /\ mayOut' = {out}
      \/ Moved(p, "readback", "DURABILITY")
  BY Zenon, <1>1, GotoMoves, FailMoves DEF SyncDir, PCs, Statuses
<1>5. proc' \in [Procs -> Proc] /\ \A q \in Procs \ {p} : proc'[q] = proc[q]
  BY Zenon, <1>4 DEF Moved
<1>6. TypeOK'
  BY <1>1, <1>2, <1>3, <1>5, EventsBounded DEF TypeOK
<1>7. Good(p)'
  BY Zenon, <1>1, <1>2, <1>3, <1>4 DEF Moved, Good, Carries, Prepared, Published, Holds
<1>8. ASSUME NEW q \in Procs \ {p} PROVE Good(q)'
  BY <1>1, <1>2, <1>3, <1>5 DEF Good, Carries, Prepared, Published, Holds
<1> QED
  BY Zenon, <1>6, <1>7, <1>8 DEF IInv

-----------------------------------------------------------------------------
(***************************************************************************)
(* The surroundings.                                                       *)
(***************************************************************************)
LEMMA SourceChangesIInv == ASSUME IInv, SourceChanges PROVE IInv'
<1>1. UNCHANGED <<proc, file, temp, out, mayOut, kept>> /\ source' \in Snapshots /\ Event
  BY Zenon DEF SourceChanges, dir
<1>2. TypeOK'
  BY Zenon, <1>1, EventsBounded DEF IInv, TypeOK
<1>3. ASSUME NEW q \in Procs PROVE Good(q)'
  BY Zenon, <1>1 DEF IInv, Good, Carries, Prepared, Published, Holds
<1> QED
  BY Zenon, <1>2, <1>3 DEF IInv

LEMMA MeddleIInv == ASSUME IInv, Meddle PROVE IInv'
<1>1. /\ UNCHANGED <<source, proc, file, temp>> /\ Event
      /\ out' \in {None, Other} /\ mayOut' = mayOut \cup {out'} /\ kept' = {}
  BY Zenon DEF Meddle
<1>2. TypeOK'
  BY Zenon, <1>1, EventsBounded DEF IInv, TypeOK, Names
<1>3. ASSUME NEW q \in Procs PROVE Good(q)'
  <2>1. (q \in mayOut' => q \in mayOut) /\ q \notin kept'
    BY Zenon, <1>1, CopyAssumption
  <2> QED
    BY Zenon, <1>1, <2>1 DEF IInv, Good, Carries, Prepared, Published, Holds
<1> QED
  BY Zenon, <1>2, <1>3 DEF IInv

LEMMA CrashIInv == ASSUME IInv, Crash PROVE IInv'
<1>1. /\ UNCHANGED <<source, temp, kept>> /\ Event /\ TypeOK
      /\ out' \in mayOut /\ mayOut' = {out'}
      /\ \A q \in Procs : Good(q)
  BY Zenon DEF Crash, IInv
<1>2. ASSUME NEW q \in Procs
      PROVE  /\ proc'[q] \in Proc /\ proc'[q].pc \in {"done", "dead"}
             /\ proc'[q].pc = "done" => proc'[q] = proc[q]
             /\ proc'[q].hash = proc[q].hash
  <2>1. proc[q] \in Proc
    BY <1>1 DEF TypeOK
  <2>2. proc'[q] = IF proc[q].pc = "done" THEN proc[q] ELSE [proc[q] EXCEPT !.pc = "dead"]
    BY Zenon DEF Crash
  <2>3. CASE proc[q].pc = "done"
    BY Zenon, <2>1, <2>2, <2>3
  <2>4. CASE proc[q].pc # "done"
    BY Zenon, <2>1, <2>2, <2>4, Dying
  <2> QED
    BY Zenon, <2>3, <2>4
<1>3. proc' \in [Procs -> Proc]
  <2>1. proc' = [q \in Procs |-> proc'[q]]
    BY Zenon DEF Crash
  <2> QED
    BY Zenon, <1>2, <2>1
<1>4. ASSUME NEW q \in Procs
      PROVE  /\ file'[q] \in File
             /\ file[q].synced => file'[q] = file[q]
  BY <1>1, Surviving DEF Crash, TypeOK, File
<1>5. file' \in [Procs -> File]
  <2>1. file' = [q \in Procs |-> file'[q]]
    BY Zenon DEF Crash
  <2> QED
    BY Zenon, <1>4, <2>1
<1>6. TypeOK'
  BY <1>1, <1>3, <1>5, EventsBounded DEF TypeOK, File
<1>7. ASSUME NEW q \in Procs PROVE Good(q)'
  <2>1. Carries(q)' /\ Prepared(q)'
    BY Zenon, <1>2 DEF Carries, Prepared
  <2>2. Published(q)'
    BY Zenon, <1>1, <1>2, <1>4 DEF Good, Published
  <2>3. Holds(q)'
    BY Zenon, <1>1, <1>2 DEF Good, Holds
  <2> QED
    BY Zenon, <2>1, <2>2, <2>3 DEF Good
<1> QED
  BY Zenon, <1>6, <1>7 DEF IInv

LEMMA NextIInv == IInv /\ [Next]_vars => IInv'
<1> SUFFICES ASSUME IInv, [Next]_vars PROVE IInv'
  BY Zenon
<1>1. ASSUME NEW p \in Procs, Copy(p) PROVE IInv'
  BY Zenon, <1>1, InspectIInv, AuthenticateIInv, RereadIInv, CreateIInv, WriteIInv, SyncIInv,
     RenameIInv, SyncDirIInv, RemoveTempIInv, ReadbackIInv DEF Copy
<1>2. CASE UNCHANGED vars
  <2>1. TypeOK'
    BY ZenonT(30), <1>2 DEF IInv, TypeOK, vars, dir
  <2>2. ASSUME NEW q \in Procs PROVE Good(q)'
    BY Zenon, <1>2 DEF vars, dir, IInv, Good, Carries, Prepared, Published, Holds
  <2> QED
    BY Zenon, <2>1, <2>2 DEF IInv
<1> QED
  BY Zenon, <1>1, <1>2, SourceChangesIInv, MeddleIInv, CrashIInv DEF Next

\* IInv holds in every reachable state of every run of the copying commands.
THEOREM Invariance == Spec => []IInv
BY InitIInv, NextIInv, PTL DEF Spec

-----------------------------------------------------------------------------
(***************************************************************************)
(* What the invariant gives.                                               *)
(***************************************************************************)

\* A copy that has, or may come to have, the output's name is whole, synced
\* and authenticated, whatever happens to the source path, whoever else
\* copies, and whenever the machine stops (write_exact_snapshot_copy).
THEOREM CopiesAreAuthenticHolds == Spec => []CopiesAreAuthentic
<1>1. IInv => CopiesAreAuthentic
  BY Zenon DEF IInv, Good, Published, CopiesAreAuthentic
<1> QED
  BY <1>1, Invariance, PTL

\* The status backup, rescue recover and rollback return tells whether there
\* is a copy: success means it is there for good unless somebody other than
\* these commands removes it, any error but DURABILITY that nothing was published.
THEOREM StatusTellsHolds == Spec => []StatusTells
<1>1. IInv => OkMeansStored
  <2> SUFFICES ASSUME IInv, NEW p \in Procs, proc[p].pc = "done", proc[p].status = "OK", p \in kept
               PROVE  mayOut = {p} /\ file[p].data = proc[p].hash
    BY Zenon DEF OkMeansStored
  <2> QED
    BY Zenon DEF IInv, Good, Holds, Published
<1>2. IInv => ErrorMeansUnpublished
  BY Zenon DEF IInv, Good, Published, ErrorMeansUnpublished
<1> QED
  BY <1>1, <1>2, Invariance, PTL DEF StatusTells

-----------------------------------------------------------------------------
(***************************************************************************)
(* The configuration.                                                      *)
(***************************************************************************)
ConfigRecord == [lines : Seq(Cfg!AllLines), stamp : Nat, links : Nat, private : BOOLEAN]

LoadTypes ==
    /\ files \in [Cfg!Files -> ConfigRecord] /\ atOpen \in ConfigRecord
    /\ path \in 0..MaxFiles /\ fd \in 0..path
    /\ content \in Seq(Cfg!AllLines) /\ pos \in 0..Len(content)
    /\ candidate \in [Keys -> Values \cup {Default}] /\ seen \subseteq Keys
    /\ pc \in {"open", "validate", "read", "stat", "parse", "assign", "returned"}

\* The lines read are those of the file at the first fstat.
Reads == \A i \in 1..Len(content) : i <= Len(atOpen.lines) /\ content[i] = atOpen.lines[i]

\* While the loader reads, a file whose stamp is the old one is the old file.
Reading ==
    pc \in {"read", "stat"} =>
        /\ fd # 0 /\ atOpen.private
        /\ initial.size = Len(atOpen.lines) /\ initial.stamp = atOpen.stamp
        /\ files[fd].stamp >= atOpen.stamp
        /\ files[fd].stamp = atOpen.stamp => files[fd].lines = atOpen.lines /\ Reads

\* The candidate is what the lines before pos say.
SaidSoFar ==
    /\ \A i \in 1..pos : content[i] = Cfg!Comment \/ content[i] \in [key : Keys, value : Values]
    /\ \A i \in 1..pos : content[i] # Cfg!Comment =>
          content[i].key \in seen /\ candidate[content[i].key] = content[i].value
    /\ \A i, j \in 1..pos : content[i].key = content[j].key /\ content[i] # Cfg!Comment => i = j
    /\ \A k \in seen : \E i \in 1..pos : content[i].key = k
    /\ \A k \in Keys \ seen : candidate[k] = Default

Loading ==
    /\ pc = "open" => fd = 0
    /\ pc = "validate" => fd # 0
    /\ pc \in {"open", "validate"} => content = <<>>
    /\ pc \in {"open", "validate", "read", "stat"} => candidate = Cfg!Defaults /\ seen = {} /\ pos = 0
    /\ pc = "parse" => fd # 0 /\ atOpen.private /\ content = atOpen.lines /\ SaidSoFar
    /\ pc = "assign" =>
          IF fd = 0 THEN candidate = Cfg!Defaults
          ELSE atOpen.private /\ Cfg!Valid(atOpen.lines) /\ candidate = Cfg!Meaning(atOpen.lines)
    /\ pc # "returned" => config = before

LoadInv == LoadTypes /\ Reading /\ Loading /\ LoadIsAllOrNothing

-----------------------------------------------------------------------------
\* Only the stamps, the lines and the links of files change, never backwards.
LEMMA TouchEffect ==
    ASSUME LoadTypes, NEW f \in Cfg!Files, NEW lines \in Seq(Cfg!AllLines), Cfg!Touch(f, lines)
    PROVE  /\ files' \in [Cfg!Files -> ConfigRecord]
           /\ files'[f].stamp = files[f].stamp + 1
           /\ \A g \in Cfg!Files \ {f} : files'[g] = files[g]
<1> DEFINE there == [files EXCEPT ![f].lines = lines]
<1>1. /\ there \in [Cfg!Files -> ConfigRecord] /\ there[f].stamp = files[f].stamp
      /\ \A g \in Cfg!Files \ {f} : there[g] = files[g]
    BY Zenon DEF LoadTypes, ConfigRecord
<1>2. files' = [there EXCEPT ![f].stamp = @ + 1]
    BY Zenon DEF Cfg!Touch
<1> DEFINE n == there[f].stamp + 1
<1>3. n \in Nat /\ files' = [there EXCEPT ![f].stamp = n]
    BY <1>1, <1>2 DEF ConfigRecord
<1>4. n = files[f].stamp + 1
    BY Zenon, <1>1
<1> HIDE DEF there, n
<1>5. files'[f].stamp = n /\ \A g \in Cfg!Files \ {f} : files'[g] = files[g]
    BY Zenon, <1>1, <1>3 DEF ConfigRecord
<1>6. files' \in [Cfg!Files -> ConfigRecord]
    BY Zenon, <1>1, <1>3 DEF ConfigRecord
<1> QED
    BY Zenon, <1>4, <1>5, <1>6

\* The editor's steps: the file the loader has open is the same or has a later stamp.
LEMMA EditorEffect ==
    ASSUME LoadTypes, Cfg!Editor
    PROVE  /\ files' \in [Cfg!Files -> ConfigRecord] /\ path' \in path..MaxFiles
           /\ fd # 0 => files'[fd] = files[fd] \/ files'[fd].stamp > files[fd].stamp
<1> USE FilesAssumption DEF Cfg!ConfigConstants
<1>1. fd # 0 => fd \in Cfg!Files /\ files[fd].stamp \in Nat
    BY DEF LoadTypes, ConfigRecord, Cfg!Files
<1>2. CASE Cfg!WriteInPlace
  <2>0. path \in Cfg!Files /\ path' = path /\ path \in path..MaxFiles
      BY <1>2 DEF Cfg!WriteInPlace, LoadTypes, Cfg!Files
  <2>1. files[path] \in ConfigRecord /\ files[path].lines \in Seq(Cfg!AllLines)
      BY Zenon, <2>0 DEF LoadTypes, ConfigRecord
  <2>2. \E lines \in Seq(Cfg!AllLines) : Cfg!Touch(path, lines)
    <3>1. CASE Cfg!Touch(path, <<>>)
      <4>1. <<>> \in Seq(Cfg!AllLines)
          OBVIOUS
      <4> QED
          BY Zenon, <3>1, <4>1
    <3>2. ASSUME NEW l \in Cfg!AllLines, Cfg!Touch(path, Append(files[path].lines, l))
          PROVE  \E lines \in Seq(Cfg!AllLines) : Cfg!Touch(path, lines)
      <4>1. Append(files[path].lines, l) \in Seq(Cfg!AllLines)
          BY <2>1
      <4> QED
          BY Zenon, <3>2, <4>1
    <3>3. ASSUME NEW l \in Cfg!AllLines, NEW i \in DOMAIN files[path].lines,
                 Cfg!Touch(path, [files[path].lines EXCEPT ![i] = l])
          PROVE  \E lines \in Seq(Cfg!AllLines) : Cfg!Touch(path, lines)
        BY <2>1, <3>3
    <3> QED
        BY Zenon, <1>2, <3>1, <3>2, <3>3 DEF Cfg!WriteInPlace
  <2>3. PICK lines \in Seq(Cfg!AllLines) : Cfg!Touch(path, lines)
      BY Zenon, <2>2
  <2> QED
      BY <1>1, <2>0, <2>3, TouchEffect
<1>3. CASE Cfg!Replace
  <2> DEFINE Old(g) == [files[g] EXCEPT !.links = 0, !.stamp = @ + 1]
  <2>1. PICK f \in Cfg!Files, new \in ConfigRecord :
          /\ f > path /\ path' = f
          /\ files' = [g \in Cfg!Files |-> IF g = f THEN new ELSE IF g = path THEN Old(g) ELSE files[g]]
    <3>1. \A l \in Cfg!AllLines, private \in BOOLEAN : Cfg!NewFile(<<l>>, private) \in ConfigRecord
        BY DEF Cfg!NewFile, ConfigRecord
    <3> QED
        BY Zenon, <1>3, <3>1 DEF Cfg!Replace
  <2>2. ASSUME NEW g \in Cfg!Files PROVE Old(g) \in ConfigRecord /\ Old(g).stamp = files[g].stamp + 1
    <3> DEFINE h == [files[g] EXCEPT !.links = 0]
    <3>1. files[g] \in ConfigRecord
        BY Zenon DEF LoadTypes
    <3>2. h \in ConfigRecord /\ h.stamp = files[g].stamp
        BY Zenon, <3>1 DEF ConfigRecord
    <3>3. h.stamp + 1 \in Nat /\ Old(g) = [h EXCEPT !.stamp = h.stamp + 1]
        BY <3>1, <3>2 DEF ConfigRecord
    <3> HIDE DEF h
    <3> QED
        BY Zenon, <3>2, <3>3 DEF ConfigRecord
  <2> HIDE DEF Old
  <2>3. files' \in [Cfg!Files -> ConfigRecord]
      BY Zenon, <2>1, <2>2 DEF LoadTypes
  <2>4. path' \in path..MaxFiles /\ (fd # 0 => fd # f)
      BY <2>1 DEF LoadTypes, Cfg!Files
  <2>5. ASSUME fd # 0 PROVE files'[fd] = files[fd] \/ files'[fd].stamp > files[fd].stamp
    <3>1. fd \in Cfg!Files /\ fd # f /\ files[fd].stamp \in Nat
        BY Zenon, <1>1, <2>4, <2>5
    <3>2. CASE fd = path
      <4>1. files'[fd] = Old(fd)
          BY Zenon, <2>1, <3>1, <3>2
      <4> QED
          BY <2>2, <3>1, <4>1
    <3>3. CASE fd # path
        BY Zenon, <2>1, <3>1, <3>3
    <3> QED
        BY Zenon, <3>2, <3>3
  <2> QED
      BY Zenon, <2>3, <2>4, <2>5
<1> QED
    BY Zenon, <1>2, <1>3 DEF Cfg!Editor

-----------------------------------------------------------------------------
(***************************************************************************)
(* The steps of pv_config_load and of the editor keep the invariant.       *)
(***************************************************************************)
LEMMA EditorStep == ASSUME LoadInv, Cfg!Editor PROVE LoadInv'
<1> USE FilesAssumption DEF Cfg!ConfigConstants, Cfg!parser, Cfg!history
<1>1. /\ files' \in [Cfg!Files -> ConfigRecord] /\ path' \in path..MaxFiles
      /\ fd # 0 => files'[fd] = files[fd] \/ files'[fd].stamp > files[fd].stamp
    BY Zenon, EditorEffect DEF LoadInv
<1>2. UNCHANGED <<pc, status, fd, initial, content, candidate, seen, pos, config, atOpen, before>>
    BY Zenon DEF Cfg!Editor
<1>3. LoadTypes'
    BY <1>1, <1>2 DEF LoadInv, LoadTypes
<1>4. Loading' /\ LoadIsAllOrNothing'
  <2>1. SaidSoFar' = SaidSoFar
      BY Zenon, <1>2 DEF SaidSoFar
  <2>2. Cfg!Valid(atOpen.lines)' = Cfg!Valid(atOpen.lines)
      BY Zenon, <1>2 DEF Cfg!Valid
  <2>3. Cfg!Meaning(atOpen.lines)' = Cfg!Meaning(atOpen.lines)
      BY Zenon, <1>2 DEF Cfg!Meaning
  <2> QED
      BY Zenon, <1>2, <2>1, <2>2, <2>3 DEF LoadInv, Loading, LoadIsAllOrNothing, Cfg!LoadedIsMeaning,
         Cfg!FailureKeepsConfig
<1>5. Reading'
  <2> SUFFICES ASSUME pc \in {"read", "stat"} PROVE Reading'
      BY Zenon, <1>2 DEF Reading
  <2>1. /\ fd # 0 /\ atOpen.private /\ initial.size = Len(atOpen.lines) /\ initial.stamp = atOpen.stamp
        /\ files[fd].stamp >= atOpen.stamp
        /\ files[fd].stamp = atOpen.stamp => files[fd].lines = atOpen.lines /\ Reads
      BY Zenon DEF LoadInv, Reading
  <2>2. fd \in Cfg!Files
      BY <2>1 DEF LoadInv, LoadTypes, Cfg!Files
  <2>3. files[fd].stamp \in Nat /\ files'[fd].stamp \in Nat /\ atOpen.stamp \in Nat
      BY Zenon, <1>1, <2>2 DEF LoadInv, LoadTypes, ConfigRecord
  <2>4. files'[fd].stamp >= atOpen.stamp
      BY <1>1, <2>1, <2>3
  <2>5. files'[fd].stamp = atOpen.stamp => files'[fd].lines = atOpen.lines /\ Reads
      BY <1>1, <2>1, <2>3
  <2>6. Reads' = Reads
      BY Zenon, <1>2 DEF Reads
  <2> QED
      BY Zenon, <1>2, <2>1, <2>4, <2>5, <2>6 DEF Reading
<1> QED
    BY Zenon, <1>3, <1>4, <1>5 DEF LoadInv

LEMMA OpenStep == ASSUME LoadInv, Cfg!Open PROVE LoadInv'
<1> USE FilesAssumption DEF Cfg!ConfigConstants, Cfg!parser, Cfg!history, Cfg!editor, Cfg!Stop
<1>1. UNCHANGED <<files, path, initial, content, candidate, seen, pos, config, atOpen, before>>
      /\ pc = "open" /\ pc' \in {"assign", "validate", "returned"}
      /\ (pc' = "validate" => fd' = path /\ path # 0) /\ (pc' # "validate" => fd' = fd)
      /\ (pc' = "returned" => status' = "IO")
    BY Zenon DEF Cfg!Open
<1>2. LoadTypes'
    BY <1>1 DEF LoadInv, LoadTypes
<1>3. Reading'
    BY Zenon, <1>1 DEF Reading
<1>4. Loading'
    BY Zenon, <1>1 DEF LoadInv, Loading
<1>5. LoadIsAllOrNothing'
    BY Zenon, <1>1 DEF LoadInv, Loading, LoadIsAllOrNothing, Cfg!LoadedIsMeaning, Cfg!FailureKeepsConfig
<1> QED
    BY Zenon, <1>2, <1>3, <1>4, <1>5 DEF LoadInv

LEMMA ValidateStep == ASSUME LoadInv, Cfg!Validate PROVE LoadInv'
<1> USE FilesAssumption DEF Cfg!ConfigConstants, Cfg!parser, Cfg!editor, Cfg!Stop
<1>1. /\ UNCHANGED <<files, path, fd, content, candidate, seen, pos, config, before>>
      /\ pc = "validate" /\ pc' \in {"read", "returned"}
      /\ atOpen' = files[fd] /\ initial' = Cfg!Stat(fd)
      /\ pc' = "returned" => status' \in {"IO", "LIMIT"}
      /\ pc' = "read" => files[fd].private
    BY Zenon DEF Cfg!Validate
<1>2. fd \in Cfg!Files /\ files[fd] \in ConfigRecord /\ content = <<>> /\ fd # 0
    BY <1>1 DEF LoadInv, Loading, LoadTypes, Cfg!Files
<1>3. LoadTypes'
    BY Zenon, <1>1, <1>2 DEF LoadInv, LoadTypes
<1>4. Reading'
  <2>1. /\ initial'.size = Len(files[fd].lines) /\ initial'.stamp = files[fd].stamp
        /\ files[fd].stamp \in Nat
      BY Zenon, <1>1, <1>2 DEF Cfg!Stat, ConfigRecord
  <2>2. Reads'
      BY <1>1, <1>2 DEF Reads
  <2> QED
      BY <1>1, <1>2, <2>1, <2>2 DEF Reading
<1>5. Loading'
    BY Zenon, <1>1, <1>2 DEF LoadInv, Loading
<1>6. LoadIsAllOrNothing'
    BY Zenon, <1>1 DEF LoadInv, Loading, LoadIsAllOrNothing, Cfg!LoadedIsMeaning, Cfg!FailureKeepsConfig
<1> QED
    BY Zenon, <1>3, <1>4, <1>5, <1>6 DEF LoadInv

LEMMA ReadStep == ASSUME LoadInv, Cfg!Read PROVE LoadInv'
<1> USE FilesAssumption DEF Cfg!ConfigConstants, Cfg!parser, Cfg!editor, Cfg!history, Cfg!Stop
<1> DEFINE there == files[fd].lines
           used == Len(content)
           end == IF Len(there) < MaxLines THEN Len(there) ELSE MaxLines
<1>1. /\ UNCHANGED <<files, path, fd, initial, candidate, seen, pos, config, atOpen, before>>
      /\ pc = "read" /\ pc' \in {"read", "stat", "returned"}
      /\ pc' = "returned" => status' \in {"IO", "LIMIT"}
    BY Zenon DEF Cfg!Read
<1>2. /\ fd # 0 /\ fd \in Cfg!Files /\ there \in Seq(Cfg!AllLines) /\ pos = 0
      /\ used \in Nat /\ Len(there) \in Nat /\ content \in Seq(Cfg!AllLines)
    BY <1>1 DEF LoadInv, Reading, Loading, LoadTypes, ConfigRecord, Cfg!Files
<1>3. content' \in Seq(Cfg!AllLines) /\ (there = atOpen.lines /\ Reads => Reads')
  <2>1. CASE content' = content
      BY Zenon, <1>1, <1>2, <2>1 DEF Reads
  <2>2. ASSUME NEW n \in used + 1..end, content' = content \o SubSeq(there, used + 1, n)
        PROVE  content' \in Seq(Cfg!AllLines) /\ (there = atOpen.lines /\ Reads => Reads')
    <3>1. n \in Nat /\ n <= Len(there) /\ used + 1 <= n
        BY <1>2
    <3> DEFINE more == SubSeq(there, used + 1, n)
    <3>2. more \in Seq(Cfg!AllLines) /\ Len(more) = n - used
          /\ \A i \in 1..n - used : more[i] = there[used + i]
        BY <1>2, <3>1
    <3> HIDE DEF more, there, used, end
    <3>3. content' \in Seq(Cfg!AllLines) /\ Len(content') = n
          /\ \A i \in 1..n : content'[i] = IF i <= used THEN content[i] ELSE more[i - used]
        BY <1>2, <2>2, <3>1, <3>2 DEF used, more
    <3>4. ASSUME there = atOpen.lines, Reads PROVE Reads'
      <4> SUFFICES ASSUME NEW i \in 1..n PROVE i <= Len(atOpen.lines) /\ content'[i] = atOpen.lines[i]
          BY Zenon, <1>1, <3>3 DEF Reads
      <4>1. CASE i <= used
          BY <1>2, <3>1, <3>3, <3>4, <4>1 DEF Reads, used
      <4>2. CASE i > used
        <5>1. i - used \in 1..n - used /\ used + (i - used) = i
            BY <1>2, <3>1, <4>2
        <5>2. content'[i] = more[i - used]
            BY <1>2, <3>1, <3>3, <4>2
        <5> QED
            BY <3>1, <3>2, <3>4, <5>1, <5>2
      <4> QED
          BY <1>2, <3>1, <4>1, <4>2
    <3> QED
        BY Zenon, <3>3, <3>4
  <2> QED
      BY Zenon, <2>1, <2>2 DEF Cfg!Read
<1>4. LoadTypes'
    BY <1>1, <1>2, <1>3 DEF LoadInv, LoadTypes
<1>5. Reading'
    BY Zenon, <1>1, <1>3 DEF LoadInv, Reading
<1>6. Loading'
    BY Zenon, <1>1, <1>2 DEF LoadInv, Loading
<1>7. LoadIsAllOrNothing'
    BY Zenon, <1>1 DEF LoadInv, Loading, LoadIsAllOrNothing, Cfg!LoadedIsMeaning, Cfg!FailureKeepsConfig
<1> QED
    BY Zenon, <1>4, <1>5, <1>6, <1>7 DEF LoadInv

LEMMA VerifyStep == ASSUME LoadInv, Cfg!Verify PROVE LoadInv'
<1> USE FilesAssumption DEF Cfg!ConfigConstants, Cfg!parser, Cfg!editor, Cfg!history, Cfg!Stop
<1>1. /\ UNCHANGED <<files, path, fd, initial, content, candidate, seen, pos, config, atOpen, before>>
      /\ pc = "stat" /\ pc' \in {"parse", "returned"}
      /\ pc' = "returned" => status' = "IO"
      /\ pc' = "parse" => Cfg!Unchanged
    BY Zenon DEF Cfg!Verify
<1>2. /\ fd # 0 /\ atOpen.private
      /\ initial.size = Len(atOpen.lines) /\ initial.stamp = atOpen.stamp
      /\ files[fd].stamp = atOpen.stamp => Reads
      /\ candidate = Cfg!Defaults /\ seen = {} /\ pos = 0 /\ config = before
    BY Zenon, <1>1 DEF LoadInv, Reading, Loading
<1>3. content \in Seq(Cfg!AllLines) /\ atOpen.lines \in Seq(Cfg!AllLines)
    BY Zenon DEF LoadInv, LoadTypes, ConfigRecord
<1>4. ASSUME pc' = "parse" PROVE content = atOpen.lines
  <2>1. Reads /\ Len(content) = Len(atOpen.lines)
      BY <1>1, <1>2, <1>4 DEF Cfg!Unchanged, Cfg!Stat
  <2> QED
      BY <1>3, <2>1 DEF Reads
<1>5. LoadTypes'
    BY Zenon, <1>1 DEF LoadInv, LoadTypes
<1>6. Reading'
    BY Zenon, <1>1 DEF Reading
<1>7. SaidSoFar'
    BY <1>1, <1>2 DEF SaidSoFar, Cfg!Defaults
<1>8. Loading'
    BY Zenon, <1>1, <1>2, <1>4, <1>7 DEF Loading
<1>9. LoadIsAllOrNothing'
    BY Zenon, <1>1, <1>2 DEF LoadIsAllOrNothing, Cfg!LoadedIsMeaning, Cfg!FailureKeepsConfig
<1> QED
    BY Zenon, <1>5, <1>6, <1>8, <1>9 DEF LoadInv

LEMMA ParseLineStep == ASSUME LoadInv, Cfg!ParseLine PROVE LoadInv'
<1> USE FilesAssumption DEF Cfg!ConfigConstants, Cfg!parser, Cfg!editor, Cfg!history, Cfg!Stop
<1> DEFINE l == content[pos + 1]
<1>1. /\ UNCHANGED <<files, path, fd, initial, content, config, atOpen, before>>
      /\ pc = "parse" /\ pos < Len(content)
    BY Zenon DEF Cfg!ParseLine
<1>2. /\ LoadTypes /\ SaidSoFar /\ fd # 0 /\ atOpen.private /\ content = atOpen.lines
      /\ config = before
    BY Zenon, <1>1 DEF LoadInv, Loading
<1>3. /\ content \in Seq(Cfg!AllLines) /\ pos \in Nat /\ Len(content) \in Nat
      /\ pos + 1 \in 1..Len(content) /\ seen \subseteq Keys
      /\ candidate \in [Keys -> Values \cup {Default}]
    BY <1>1, <1>2 DEF LoadTypes
<1>4. Reading' /\ (pc' # "returned" => LoadIsAllOrNothing')
    BY Zenon, <1>1, <1>2 DEF Cfg!ParseLine, Reading, LoadIsAllOrNothing, Cfg!LoadedIsMeaning,
                      Cfg!FailureKeepsConfig
<1>5. ASSUME l = Cfg!Comment, pos' = pos + 1, UNCHANGED <<pc, status, candidate, seen>> PROVE LoadInv'
  <2>1. LoadTypes'
      BY <1>1, <1>2, <1>3, <1>5 DEF LoadTypes
  <2>2. SaidSoFar'
    <3>1. 1..pos' = (1..pos) \cup {pos + 1}
        BY <1>3, <1>5
    <3>2. \A i \in 1..pos : content[i] # Cfg!Comment => content[i].key # "#"
        BY <1>2 DEF SaidSoFar
    <3> QED
        BY <1>1, <1>2, <1>5, <3>1, <3>2 DEF SaidSoFar, Cfg!Comment
  <2> QED
      BY Zenon, <1>1, <1>2, <1>4, <1>5, <2>1, <2>2 DEF LoadInv, Loading
<1>6. ASSUME l \in Cfg!Line, l.key \notin seen, l.value # "bad", pos' = pos + 1,
             seen' = seen \cup {l.key}, candidate' = [candidate EXCEPT ![l.key] = l.value],
             UNCHANGED <<pc, status>>
      PROVE  LoadInv'
  <2>1. /\ l \in [key : Keys, value : Values] /\ l.key \in Keys /\ l.value \in Values
        /\ l # Cfg!Comment
      BY <1>6 DEF Cfg!Line, Cfg!Comment
  <2> HIDE DEF l
  <2>2. /\ candidate' \in [Keys -> Values \cup {Default}] /\ candidate'[l.key] = l.value
        /\ \A k \in Keys \ {l.key} : candidate'[k] = candidate[k]
      BY Zenon, <1>3, <1>6, <2>1
  <2>3. LoadTypes'
      BY <1>1, <1>2, <1>3, <1>6, <2>1, <2>2 DEF LoadTypes
  <2>4. SaidSoFar'
    <3>1. 1..pos' = (1..pos) \cup {pos + 1} /\ pos + 1 \notin 1..pos
        BY <1>3, <1>6
    <3>2. ASSUME NEW i \in 1..pos
          PROVE  /\ content[i] = Cfg!Comment \/ content[i] \in [key : Keys, value : Values]
                 /\ content[i].key # l.key
        BY <1>2, <1>6, <2>1 DEF SaidSoFar, Cfg!Comment
    <3>3. \A i \in 1..pos' : content[i] = Cfg!Comment \/ content[i] \in [key : Keys, value : Values]
        BY Zenon, <2>1, <3>1, <3>2 DEF l
    <3>4. \A i \in 1..pos' : content[i] # Cfg!Comment =>
              content[i].key \in seen' /\ candidate'[content[i].key] = content[i].value
      <4>1. ASSUME NEW i \in 1..pos, content[i] # Cfg!Comment
            PROVE  content[i].key \in seen' /\ candidate'[content[i].key] = content[i].value
          BY Zenon, <1>2, <1>3, <1>6, <2>2, <3>2, <4>1 DEF SaidSoFar
      <4>2. content[pos + 1].key \in seen' /\ candidate'[content[pos + 1].key] = content[pos + 1].value
          BY Zenon, <1>6, <2>2 DEF l
      <4> QED
          BY Zenon, <3>1, <4>1, <4>2
    <3>5. \A i, j \in 1..pos' : content[i].key = content[j].key /\ content[i] # Cfg!Comment => i = j
        BY Zenon, <1>2, <3>1, <3>2 DEF SaidSoFar, l
    <3>6. \A k \in seen' : \E i \in 1..pos' : content[i].key = k
        BY Zenon, <1>2, <1>6, <3>1 DEF SaidSoFar, l
    <3>7. \A k \in Keys \ seen' : candidate'[k] = Default
        BY Zenon, <1>2, <1>6, <2>2 DEF SaidSoFar
    <3> QED
        BY Zenon, <1>1, <3>3, <3>4, <3>5, <3>6, <3>7 DEF SaidSoFar
  <2> QED
      BY Zenon, <1>1, <1>2, <1>4, <1>6, <2>3, <2>4 DEF LoadInv, Loading
<1>7. ASSUME Cfg!Stop("FORMAT"), UNCHANGED <<candidate, seen, pos>> PROVE LoadInv'
  <2>1. LoadTypes'
      BY Zenon, <1>1, <1>2, <1>7 DEF LoadTypes
  <2>2. Loading' /\ LoadIsAllOrNothing'
      BY Zenon, <1>1, <1>2, <1>7 DEF Loading, LoadIsAllOrNothing, Cfg!LoadedIsMeaning, Cfg!FailureKeepsConfig
  <2> QED
      BY Zenon, <1>4, <2>1, <2>2 DEF LoadInv
<1> QED
    BY Zenon, <1>5, <1>6, <1>7 DEF Cfg!ParseLine, Cfg!MayMark

\* At the end of the file the candidate is what the file says.
LEMMA ParsedStep == ASSUME LoadInv, Cfg!Parsed PROVE LoadInv'
<1> USE FilesAssumption DEF Cfg!ConfigConstants, Cfg!parser, Cfg!editor, Cfg!history
<1>1. /\ UNCHANGED <<files, path, fd, initial, content, candidate, seen, pos, config, atOpen, before>>
      /\ pc = "parse" /\ pc' = "assign" /\ pos = Len(content)
    BY Zenon DEF Cfg!Parsed
<1>2. /\ LoadTypes /\ SaidSoFar /\ fd # 0 /\ atOpen.private /\ content = atOpen.lines
      /\ config = before
    BY Zenon, <1>1 DEF LoadInv, Loading
<1>3. content \in Seq(Cfg!AllLines) /\ DOMAIN content = 1..pos
    BY <1>1, <1>2 DEF LoadTypes
<1>4. Cfg!Valid(content)
    BY Zenon, <1>2, <1>3 DEF SaidSoFar, Cfg!Valid
<1>5. candidate = Cfg!Meaning(content)
  <2>1. ASSUME NEW k \in Keys
        PROVE  candidate[k] = IF \E i \in DOMAIN content : content[i].key = k
                              THEN content[CHOOSE i \in DOMAIN content : content[i].key = k].value
                              ELSE Default
    <3>1. CASE \E i \in 1..pos : content[i].key = k
      <4> DEFINE i == CHOOSE i \in 1..pos : content[i].key = k
      <4>1. i \in 1..pos /\ content[i].key = k
          BY Zenon, <3>1
      <4> HIDE DEF i
      <4>2. content[i] # Cfg!Comment
          BY <4>1 DEF Cfg!Comment
      <4>3. candidate[k] = content[i].value
          BY Zenon, <1>2, <4>1, <4>2 DEF SaidSoFar
      <4> QED
          BY Zenon, <1>3, <3>1, <4>3 DEF i
    <3>2. CASE ~\E i \in 1..pos : content[i].key = k
        BY Zenon, <1>2, <1>3, <3>2 DEF SaidSoFar
    <3> QED
        BY Zenon, <3>1, <3>2
  <2>2. candidate = [k \in Keys |-> candidate[k]]
      BY Zenon, <1>2 DEF LoadTypes
  <2> QED
      BY Zenon, <2>1, <2>2 DEF Cfg!Meaning
<1>6. LoadTypes'
    BY Zenon, <1>1, <1>2 DEF LoadTypes
<1>7. Reading'
    BY Zenon, <1>1 DEF Reading
<1>8. Loading' /\ LoadIsAllOrNothing'
  <2>1. Cfg!Valid(atOpen.lines)' = Cfg!Valid(content) /\ Cfg!Meaning(atOpen.lines)' = Cfg!Meaning(content)
      BY Zenon, <1>1, <1>2 DEF Cfg!Valid, Cfg!Meaning
  <2> QED
      BY Zenon, <1>1, <1>2, <1>4, <1>5, <2>1 DEF Loading, LoadIsAllOrNothing, Cfg!LoadedIsMeaning,
         Cfg!FailureKeepsConfig
<1> QED
    BY Zenon, <1>6, <1>7, <1>8 DEF LoadInv

LEMMA AssignStep == ASSUME LoadInv, Cfg!Assign PROVE LoadInv'
<1> USE DEF Cfg!parser, Cfg!editor, Cfg!history, Cfg!Stop
<1>1. /\ UNCHANGED <<files, path, fd, initial, content, candidate, seen, pos, atOpen, before>>
      /\ pc = "assign" /\ pc' = "returned" /\ status' = "OK" /\ config' = candidate
    BY Zenon DEF Cfg!Assign
<1>2. LoadTypes' /\ Reading' /\ Loading'
    BY Zenon, <1>1 DEF LoadInv, LoadTypes, Reading, Loading
<1>3. Cfg!Valid(atOpen.lines)' = Cfg!Valid(atOpen.lines)
      /\ Cfg!Meaning(atOpen.lines)' = Cfg!Meaning(atOpen.lines)
    BY Zenon, <1>1 DEF Cfg!Valid, Cfg!Meaning
<1>4. LoadIsAllOrNothing'
    BY Zenon, <1>1, <1>3 DEF LoadInv, Loading, LoadIsAllOrNothing, Cfg!LoadedIsMeaning, Cfg!FailureKeepsConfig
<1> QED
    BY Zenon, <1>2, <1>4 DEF LoadInv

LEMMA LoadStutter == ASSUME LoadInv, UNCHANGED configVars PROVE LoadInv'
<1> USE DEF configVars
<1>1. LoadTypes' /\ Reading'
    BY Zenon DEF LoadInv, LoadTypes, Reading, Reads
<1>2. Cfg!Valid(atOpen.lines)' = Cfg!Valid(atOpen.lines)
      /\ Cfg!Meaning(atOpen.lines)' = Cfg!Meaning(atOpen.lines) /\ SaidSoFar' = SaidSoFar
    BY Zenon DEF Cfg!Valid, Cfg!Meaning, SaidSoFar
<1>3. Loading' /\ LoadIsAllOrNothing'
    BY Zenon, <1>2 DEF LoadInv, Loading, LoadIsAllOrNothing, Cfg!LoadedIsMeaning, Cfg!FailureKeepsConfig
<1> QED
    BY Zenon, <1>1, <1>3 DEF LoadInv

LEMMA InitLoadInv == Cfg!Init => LoadInv
<1> SUFFICES ASSUME Cfg!Init PROVE LoadInv
    BY Zenon
<1> USE FilesAssumption DEF Cfg!ConfigConstants
<1>1. \A lines \in Seq(Cfg!AllLines), private \in BOOLEAN : Cfg!NewFile(lines, private) \in ConfigRecord
    BY Zenon DEF Cfg!NewFile, ConfigRecord
<1>2. files \in [Cfg!Files -> ConfigRecord]
  <2>1. PICK lines \in Starts, private \in BOOLEAN :
          files = [f \in Cfg!Files |-> IF f = 1 THEN Cfg!NewFile(lines, private) ELSE Cfg!NewFile(<<>>, TRUE)]
      BY Zenon DEF Cfg!Init
  <2>2. Cfg!NewFile(lines, private) \in ConfigRecord /\ Cfg!NewFile(<<>>, TRUE) \in ConfigRecord
    <3>1. lines \in Seq(Cfg!AllLines) /\ <<>> \in Seq(Cfg!AllLines)
        OBVIOUS
    <3> QED
        BY Zenon, <1>1, <3>1
  <2> QED
      BY Zenon, <2>1, <2>2
<1>3. atOpen \in ConfigRecord
  <2>1. <<>> \in Seq(Cfg!AllLines)
      OBVIOUS
  <2> QED
      BY Zenon, <1>1, <2>1 DEF Cfg!Init
<1>4. path \in 0..MaxFiles /\ fd = 0 /\ pc = "open" /\ content = <<>> /\ pos = 0 /\ seen = {}
      /\ candidate = Cfg!Defaults /\ config = before
    BY DEF Cfg!Init
<1>5. LoadTypes
    BY <1>2, <1>3, <1>4 DEF LoadTypes, Cfg!Defaults
<1> QED
    BY Zenon, <1>4, <1>5 DEF LoadInv, Reading, Loading, LoadIsAllOrNothing, Cfg!LoadedIsMeaning,
                      Cfg!FailureKeepsConfig

LEMMA NextLoadInv == LoadInv /\ [FilesNext]_fileVars => LoadInv'
<1> SUFFICES ASSUME LoadInv, [FilesNext]_fileVars PROVE LoadInv'
    BY Zenon
<1>1. CASE Cfg!Next
  <2>1. Cfg!Rest => UNCHANGED configVars
      BY Zenon DEF Cfg!Rest, Cfg!vars, Cfg!editor, Cfg!parser, Cfg!history, configVars
  <2> QED
      BY Zenon, <1>1, <2>1, EditorStep, OpenStep, ValidateStep, ReadStep, VerifyStep, ParseLineStep, ParsedStep,
         AssignStep, LoadStutter DEF Cfg!Next, Cfg!Load
<1>2. CASE UNCHANGED configVars
    BY Zenon, <1>2, LoadStutter
<1> QED
    BY Zenon, <1>1, <1>2 DEF FilesNext, Copies, Loads, fileVars

\* pv_config_load, whatever an editor does to pvault/config between its system calls,
\* for any file, keys and values: a load that succeeds took the file as it stood at
\* its first fstat and gives what that file says, or the defaults when there is no
\* file; a load that fails leaves the caller's configuration alone.
THEOREM LoadedOrLeftAlone == FilesSpec => []LoadIsAllOrNothing
<1>1. FilesInit => LoadInv
    BY Zenon, InitLoadInv DEF FilesInit
<1>2. LoadInv => LoadIsAllOrNothing
    BY Zenon DEF LoadInv
<1> QED
    BY <1>1, <1>2, NextLoadInv, PTL DEF FilesSpec

\* Beside the configuration the copying commands behave as in SnapshotCopy, so that
\* what is proved of them holds here too.
THEOREM FilesCopy == FilesSpec => Spec
<1>1. FilesInit => Init
    BY Zenon DEF FilesInit
<1>2. [FilesNext]_fileVars => [Next]_vars
    BY Zenon DEF FilesNext, Copies, CopiesDone, Loads, fileVars
<1> QED
    BY <1>1, <1>2, PTL DEF FilesSpec, Spec
=============================================================================
