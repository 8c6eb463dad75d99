------------------------------- MODULE Shell --------------------------------
(***************************************************************************)
(* The interactive session: pv_shell_run (src/shell.c).  A clipboard job   *)
(* is prepared, the vault opened, and commands are read from the terminal  *)
(* until the user leaves, a secret is copied, or nothing is typed for      *)
(* session_ttl seconds.                                                    *)
(*                                                                         *)
(* The terminal hands input over item by item: a line, or what is on the   *)
(* line so far when the user presses Ctrl-D, which is the end of the file  *)
(* if there is nothing.  poll sees that there is an item; fgets waits, for *)
(* as long as it takes, until it has a whole line.                         *)
(***************************************************************************)
EXTENDS Naturals, Sequences

CONSTANTS
    Items,          \* what the user may type, a subset of AllItems
    MaxItems,       \* bound: items typed
    MaxEvents       \* bound: failed calls

Commands == {"help", "list", "show", "copy", "lock", "quit", "unknown"}
AllItems == Commands \cup {"long", "part", "longpart", "eof"}

ShellConstants ==
    /\ Items \subseteq AllItems
    /\ MaxItems \in Nat /\ MaxEvents \in Nat

PCs == {"prepare", "open", "poll", "fgets", "drain", "command", "leave", "returned"}

VARIABLES
    pc, status,
    ready,          \* clipboard_ready
    job,            \* the clipboard job: none, waiting, filled, failed, cancelled
    vault,          \* the decrypted vault is in memory
    tty,            \* the items the terminal has for its reader
    partial,        \* fgets holds part of a line
    feof,           \* the end-of-file indicator of stdin, which stays set
    line,           \* the command to run
    typed, events   \* the bounded events so far

session == <<ready, job, vault>>
input == <<partial, feof, line>>
vars == <<pc, status, session, tty, input, typed, events>>

Init ==
    /\ pc = "prepare" /\ status = "OK"
    /\ ready = FALSE /\ job = "none" /\ vault = FALSE
    /\ tty = <<>> /\ partial = FALSE /\ feof = FALSE /\ line = "unknown"
    /\ typed = 0 /\ events = 0

Event == events < MaxEvents /\ events' = events + 1

-----------------------------------------------------------------------------
\* pv_clipboard_prepare; the session opens without a clipboard if it fails.
Prepare ==
    /\ pc = "prepare" /\ pc' = "open"
    /\ \/ ready' = TRUE /\ job' = "waiting" /\ UNCHANGED events
       \/ Event /\ UNCHANGED <<ready, job>>
    /\ UNCHANGED <<status, vault, tty, input, typed>>

\* pv_clipboard_cancel, if there is still a job.
Cancel ==
    /\ job' = IF ready THEN "cancelled" ELSE job
    /\ UNCHANGED ready

\* The master password is read and the vault opened, or nothing happens at all.
Open ==
    /\ pc = "open"
    /\ \/ pc' = "poll" /\ vault' = TRUE /\ UNCHANGED <<status, ready, job, events>>
       \/ pc' = "returned" /\ status' = "AUTH" /\ Event /\ Cancel /\ UNCHANGED vault
    /\ UNCHANGED <<tty, input, typed>>

\* A mutant: poll waits for input only.
PollForever ==
    /\ pc = "poll"
    /\ \/ tty # <<>> /\ pc' = "fgets" /\ UNCHANGED <<status, events>>
       \/ tty = <<>> /\ UNCHANGED <<pc, status, events>>
       \/ pc' = "leave" /\ status' = "IO" /\ Event
    /\ partial' = FALSE
    /\ UNCHANGED <<session, tty, feof, line, typed>>

\* poll, for session_ttl seconds.
Poll ==
    /\ pc = "poll"
    /\ \/ tty # <<>> /\ pc' = "fgets" /\ UNCHANGED <<status, events>>
       \/ tty = <<>> /\ pc' = "leave" /\ status' = "OK" /\ UNCHANGED events
       \/ pc' = "leave" /\ status' = "IO" /\ Event
    /\ partial' = FALSE
    /\ UNCHANGED <<session, tty, feof, line, typed>>

\* fgets: a whole line, part of one and then the rest of it, or the end of file.
Fgets ==
    /\ pc = "fgets"
    /\ \/ /\ feof
          /\ pc' = "leave" /\ status' = "OK"
          /\ UNCHANGED <<tty, input>>
       \/ /\ ~feof /\ tty # <<>> /\ tty' = Tail(tty)
          /\ \/ /\ Head(tty) \in Commands
                /\ pc' = "command"
                /\ line' \in IF partial THEN Commands ELSE {Head(tty)}
                /\ UNCHANGED <<status, partial, feof>>
             \/ /\ Head(tty) = "long"
                /\ pc' = "poll"
                /\ UNCHANGED <<status, input>>
             \/ /\ Head(tty) = "part"
                /\ partial' = TRUE
                /\ UNCHANGED <<pc, status, feof, line>>
             \/ /\ Head(tty) = "longpart"
                /\ pc' = "drain"
                /\ UNCHANGED <<status, input>>
             \/ /\ Head(tty) = "eof" /\ ~partial
                /\ pc' = "leave" /\ status' = "OK" /\ feof' = TRUE
                /\ UNCHANGED <<partial, line>>
             \/ /\ Head(tty) = "eof" /\ partial
                /\ pc' = "command" /\ line' \in Commands /\ feof' = TRUE
                /\ UNCHANGED <<status, partial>>
    /\ UNCHANGED <<session, typed, events>>

\* fgetc until the end of a line that is too long, or of the file.
Drain ==
    /\ pc = "drain"
    /\ tty # <<>> /\ tty' = Tail(tty)
    /\ pc' = IF Head(tty) \in {"part", "longpart"} THEN "drain" ELSE "poll"
    /\ feof' = (Head(tty) = "eof")
    /\ UNCHANGED <<status, session, partial, line, typed, events>>

\* A mutant: the session goes on after a copy.
CopyAndGoOn ==
    \/ /\ job' = "filled" /\ ready' = FALSE /\ pc' = "poll"
       /\ UNCHANGED <<status, events>>
    \/ /\ job' = "failed" /\ ready' = FALSE /\ pc' = "leave" /\ status' = "EXTERNAL"
       /\ Event

\* pv_clipboard_send: it disposes of the job either way, and the session ends.
Copy ==
    \/ /\ job' = "filled" /\ ready' = FALSE /\ pc' = "leave"
       /\ UNCHANGED <<status, events>>
    \/ /\ job' = "failed" /\ ready' = FALSE /\ pc' = "leave" /\ status' = "EXTERNAL"
       /\ Event

\* One command.  A query may match no record, or more than one.
Command ==
    /\ pc = "command"
    /\ \/ /\ line \in {"quit", "lock"}
          /\ pc' = "leave" /\ status' = "OK"
          /\ UNCHANGED <<ready, job, events>>
       \/ /\ line \in {"help", "list", "show", "unknown"}
          /\ pc' = "poll"
          /\ UNCHANGED <<status, ready, job, events>>
       \/ /\ line = "copy"
          /\ \/ ready /\ Copy
             \/ pc' = "poll" /\ UNCHANGED <<status, ready, job, events>>
    /\ UNCHANGED <<vault, tty, input, typed>>

\* A mutant: the job is cancelled only if something went wrong.
LeaveQuietly ==
    /\ pc = "leave" /\ pc' = "returned"
    /\ IF status # "OK" THEN Cancel ELSE UNCHANGED <<ready, job>>
    /\ vault' = FALSE
    /\ UNCHANGED <<status, tty, input, typed, events>>

\* The end of the session: the job, the line, the vault and the header.
Leave ==
    /\ pc = "leave" /\ pc' = "returned"
    /\ Cancel
    /\ vault' = FALSE
    /\ UNCHANGED <<status, tty, input, typed, events>>

\* The user.
Type(i) ==
    /\ pc # "returned"
    /\ typed < MaxItems /\ typed' = typed + 1
    /\ tty' = Append(tty, i)
    /\ UNCHANGED <<pc, status, session, input, events>>

\* fgets and fgetc wait while the terminal has nothing; a session that is over
\* stays over.
Wait ==
    /\ \/ pc \in {"fgets", "drain"} /\ tty = <<>> /\ ~feof
       \/ pc = "returned"
    /\ UNCHANGED vars

Step == Prepare \/ Open \/ Poll \/ Fgets \/ Drain \/ Command \/ Leave
Next == Step \/ (\E i \in Items : Type(i)) \/ Wait

\* The process runs and poll times out; the user may stop typing at any time, also
\* at the master password, and no call has to fail.
Onward == Step /\ UNCHANGED events /\ pc # "open"
Spec == Init /\ [][Next]_vars /\ WF_vars(Onward)

-----------------------------------------------------------------------------
TypeOK ==
    /\ pc \in PCs /\ status \in {"OK", "AUTH", "IO", "EXTERNAL"}
    /\ ready \in BOOLEAN /\ vault \in BOOLEAN
    /\ job \in {"none", "waiting", "filled", "failed", "cancelled"}
    /\ tty \in Seq(Items) /\ Len(tty) <= typed
    /\ partial \in BOOLEAN /\ feof \in BOOLEAN /\ line \in Commands
    /\ typed \in 0..MaxItems /\ events \in 0..MaxEvents

\* However the session ends, no clipboard helper is left waiting for a secret
\* and the decrypted vault is gone; while it lasts, clipboard_ready says
\* exactly that the job still waits.
JobSettled ==
    /\ ready /\ pc # "returned" => job = "waiting"
    /\ job = "waiting" => ready
    /\ pc = "returned" => job # "waiting" /\ ~vault

\* A session sends one secret at most: once pv_clipboard_send has had the job,
\* whether it worked or not, no further command runs.
CopyEndsSession == job \in {"filled", "failed"} => pc \in {"leave", "returned"}

\* docs/pvault.1:149-150: the decrypted vault "stays only in the current
\* process and locks after the configured inactivity timeout": once the user
\* stops typing, the vault leaves memory.
IdleLocks == vault ~> ~vault
=============================================================================
