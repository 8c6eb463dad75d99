------------------------------ MODULE Sessions ------------------------------
(***************************************************************************)
(* The two commands that keep a vault open for the user to choose from and *)
(* have a clipboard job waiting meanwhile: command_pick --rofi (Chooser)   *)
(* and command_shell (Shell).  pv_cli_run runs one of them; the variables  *)
(* of the other stay as they are.                                          *)
(***************************************************************************)
EXTENDS Chooser

CONSTANTS
    Items, MaxItems         \* of Shell

VARIABLES
    command,                \* which one runs
    spc, sstatus, ready, sjob, vault, tty, partial, feof, sline, typed, sevents

Sh == INSTANCE Shell WITH
        pc <- spc, status <- sstatus, job <- sjob, line <- sline, events <- sevents

ASSUME SessionsAssumption == Sh!ShellConstants

shellVars == <<spc, sstatus, ready, sjob, vault, tty, partial, feof, sline, typed, sevents>>
sessionVars == <<command, vars, shellVars>>

Still == live = {} /\ empty = {} /\ ~copy /\ ~deaf

\* pv_cli_run.
SessionInit ==
    /\ Init /\ Sh!Init
    /\ command \in {"pick", "shell"}
    /\ command = "shell" => Still

Picks == command = "pick" /\ UNCHANGED <<command, shellVars>>
Shells == command = "shell" /\ UNCHANGED <<command, vars>>

SessionNext == (Next /\ Picks) \/ (Sh!Next /\ Shells)

\* The fairness of both.
SessionSpec ==
    /\ SessionInit /\ [][SessionNext]_sessionVars
    /\ WF_sessionVars(Onward /\ Picks)
    /\ WF_sessionVars(Sh!Onward /\ Shells)

-----------------------------------------------------------------------------
\* The type invariants of both commands: what is sent and read stays in the pipes'
\* bounds.
TypesOK == TypeOK /\ Sh!TypeOK

\* However either command ends, nothing is left behind: rofi is reaped and its
\* descriptors closed, no clipboard helper waits for a secret (unless the picked
\* record has no password to send), the decrypted vault is gone, and a shell
\* that has used the clipboard job runs no further command.
NothingLeftBehind ==
    NoChildLeft /\ ClipSettled /\ NoVaultLeft /\ Sh!JobSettled /\ Sh!CopyEndsSession

\* docs/pvault.1:149-150: the decrypted vault of a shell "stays only in the
\* current process and locks after the configured inactivity timeout": once the
\* user stops typing, the vault leaves memory.
IdleLocks == Sh!IdleLocks

\* What does hold of the timeout: once the user stops typing, the vault leaves
\* memory unless fgets or fgetc waits for the rest of a line that was begun.
IdleLocksOrWaits ==
    (vault ~> ~vault) \/ <>[](spc \in {"fgets", "drain"} /\ tty = <<>>)

\* Neither command keeps a vault open without a user: once the master password was
\* answered pick returns when rofi has closed its ends, even if rofi then hangs and
\* ignores SIGTERM, and an idle shell locks.  (At the password prompt both wait.)
SessionsEnd == ChildGoneEnds /\ IdleLocksOrWaits
=============================================================================
