------------------------------ MODULE OwnFiles ------------------------------
(***************************************************************************)
(* The files of the user beside the vault that others may touch while a    *)
(* command works on them: the output of backup, rescue recover and         *)
(* rollback (SnapshotCopy), and pvault/config (ConfigFile).  The two share *)
(* no file; a behaviour is about one of them.                              *)
(***************************************************************************)
EXTENDS SnapshotCopy, Sequences

CONSTANTS
    Keys, Values, Default, Starts, MaxLines, MaxFiles, MaxEdits     \* of ConfigFile

VARIABLES
    about,              \* which of the two
    files, path, parent, edits, pc, status, fd, initial, content, candidate, seen, pos,
    config, atOpen, before

Cfg == INSTANCE ConfigFile

ASSUME FilesAssumption == Cfg!ConfigConstants

configVars == <<files, path, parent, edits, pc, status, fd, initial, content, candidate, seen,
                pos, config, atOpen, before>>
fileVars == <<about, vars, configVars>>

NoCopy == source = Garbage /\ out = None /\ \A p \in Procs : proc[p].cmd = "backup"
NoConfig == parent = "absent" /\ files[1] = Cfg!NewFile(<<>>, TRUE)

FilesInit ==
    /\ Init /\ Cfg!Init
    /\ \/ about = "copy" /\ NoConfig
       \/ about = "config" /\ NoCopy

Copies(A) == about = "copy" /\ A /\ UNCHANGED <<about, configVars>>
Loads(A) == about = "config" /\ A /\ UNCHANGED <<about, vars>>

\* The commands have ended.
CopiesDone == (\A p \in Procs : proc[p].pc \in {"done", "dead"}) /\ UNCHANGED vars

FilesNext == Copies(Next) \/ Copies(CopiesDone) \/ Loads(Cfg!Next)
FilesSpec == FilesInit /\ [][FilesNext]_fileVars

-----------------------------------------------------------------------------
\* A load that succeeds took pvault/config as it stood at one moment, however an
\* editor changed it between the reads, and gives what that file says; the
\* defaults stand in for a file that is not there, never for one that is there
\* and cannot be trusted.  A load that fails, at whatever line, leaves the
\* caller's configuration as it was.
LoadIsAllOrNothing == Cfg!LoadedIsMeaning /\ Cfg!FailureKeepsConfig
=============================================================================
