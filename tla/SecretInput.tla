---------------------------- MODULE SecretInput -----------------------------
(***************************************************************************)
(* Reading a secret from the terminal: pv_secure_read_secret and what it   *)
(* calls (src/secure.c).  The call installs handlers for five signals,     *)
(* turns the echo off, reads one line, or two that must agree, turns the   *)
(* echo on, puts the old dispositions back and only then raises again the  *)
(* signal a handler has noted.                                             *)
(*                                                                         *)
(* The other actors are the user, who types lines, and anybody who sends   *)
(* signals, between any two steps of the call.  Signals are numbered in    *)
(* the order of pv_secret_signals; the last one, SIGTSTP, stops the        *)
(* process, the others end it.  A line is a text of some length.           *)
(***************************************************************************)
EXTENDS Naturals

CONSTANTS
    NSig,         \* length of pv_secret_signals, 5 in the code
    Max,          \* PV_SECRET_INPUT_MAX, 1024 in the code
    NTexts,       \* how many texts the user may type
    MaxLines,     \* bound: lines typed
    MaxSignals,   \* bound: signals sent
    MaxEvents     \* bound: failed calls

ASSUME SecretAssumption ==
    /\ NSig \in Nat \ {0}
    /\ Max \in Nat \ {0} /\ NTexts \in Nat
    /\ MaxLines \in Nat /\ MaxSignals \in Nat /\ MaxEvents \in Nat

Signals == 1..NSig
Stop == NSig                            \* SIGTSTP

Texts == 1..NTexts
NoText == 0
Lines == [text : Texts, len : 0..Max + 1]
NoLine == [text |-> NoText, len |-> 0]
NoBuffer == [text |-> NoText, len |-> 0, held |-> FALSE]
Buffers == [text : Texts \cup {NoText}, len : 0..Max, held : BOOLEAN]

PCs == {"start", "install", "rollback", "hide", "alloc", "check", "poll", "read",
        "compare", "unhide", "fetch", "restore", "finish", "giveup", "returned", "dead"}
Ended == {"returned", "dead"}

VARIABLES
    pc, status,
    confirm,        \* the argument: ask twice
    stopped,        \* by SIGTSTP, until SIGCONT
    prev, disp,     \* the dispositions before the call, and now
    installed,      \* guard->installed
    flag,           \* pv_secret_interrupted
    caught,         \* caught_signal
    echo,           \* the terminal's ECHO
    input,          \* the line the terminal has for its reader
    second,         \* FALSE: the first line is being read
    buf, buf2,      \* *secret and the confirmation
    overflow,
    typed, sent, events,    \* the bounded events so far
    woken,          \* a handler has run while poll was blocked
    stuck,          \* history: the echo could not be turned on again
    first,          \* history: the first signal a handler saw
    hushed,         \* history: the signals handlers saw during the hidden input
    raised,         \* history: the signal raised at the end
    line,           \* history: the last line typed, in full
    lines           \* history: the lines read, first and confirmation

signals == <<prev, disp, installed, flag, caught, woken>>
memory == <<second, buf, buf2, overflow>>
bounds == <<typed, sent, events>>
hist == <<stuck, first, hushed, raised, line, lines>>
vars == <<pc, status, confirm, stopped, signals, echo, input, memory, bounds, hist>>

Init ==
    /\ pc = "start" /\ status = "none"
    /\ confirm \in BOOLEAN /\ stopped = FALSE
    /\ prev \in [Signals -> {"default", "ignore"}]
    /\ disp = prev
    /\ installed = 0 /\ flag = 0 /\ caught = 0
    /\ echo = TRUE
    /\ input = NoLine
    /\ second = FALSE /\ buf = NoBuffer /\ buf2 = NoBuffer /\ overflow = FALSE
    /\ typed = 0 /\ sent = 0 /\ events = 0
    /\ woken = FALSE
    /\ stuck = FALSE /\ first = 0 /\ hushed = {} /\ raised = 0
    /\ line = NoLine /\ lines = <<NoLine, NoLine>>

Event == events < MaxEvents /\ events' = events + 1 /\ UNCHANGED <<typed, sent>>

\* The next step of the call, which a stopped process does not take.
At(where) == pc = where /\ ~stopped

-----------------------------------------------------------------------------
(***************************************************************************)
(* Entering: the terminal, the handlers, the echo.                         *)
(***************************************************************************)

\* open /dev/tty and tcgetattr; the flag is cleared when the guard is installed.
OpenTty ==
    /\ At("start")
    /\ \/ pc' = "install" /\ flag' = 0 /\ UNCHANGED <<status, bounds>>
       \/ pc' = "returned" /\ status' = "IO" /\ Event /\ UNCHANGED flag
    /\ UNCHANGED <<confirm, stopped, prev, disp, installed, caught, woken, echo, input, memory, hist>>

\* secret_signal_guard_install, one sigaction at a time.
InstallOne ==
    /\ At("install")
    /\ \/ /\ installed < NSig
          /\ disp' = [disp EXCEPT ![installed + 1] = "handler"]
          /\ installed' = installed + 1
          /\ UNCHANGED <<pc, status, bounds>>
       \/ /\ installed < NSig
          /\ pc' = "rollback" /\ status' = "IO"
          /\ Event
          /\ UNCHANGED <<disp, installed>>
       \/ /\ installed = NSig
          /\ pc' = "hide"
          /\ UNCHANGED <<status, disp, installed, bounds>>
    /\ UNCHANGED <<confirm, stopped, prev, flag, caught, woken, echo, input, memory, hist>>

\* tcsetattr_nointr without ECHO; TCSAFLUSH drops what was typed ahead.
Hide ==
    /\ At("hide")
    /\ \/ pc' = "alloc" /\ echo' = FALSE /\ input' = NoLine /\ UNCHANGED <<status, bounds>>
       \/ pc' = "giveup" /\ status' = "IO" /\ Event /\ UNCHANGED <<echo, input>>
    /\ UNCHANGED <<confirm, stopped, signals, memory, hist>>

-----------------------------------------------------------------------------
(***************************************************************************)
(* read_one_secret, for the secret and again for its confirmation.         *)
(***************************************************************************)

\* The buffer being filled.
Buf == IF second THEN buf2 ELSE buf
SetBuf(b) == IF second THEN buf2' = b /\ UNCHANGED buf ELSE buf' = b /\ UNCHANGED buf2

\* read_one_secret frees its buffer and returns an error.
ReadFails(s) ==
    /\ pc' = "unhide" /\ status' = s
    /\ SetBuf(NoBuffer)

\* allocate_secret and the prompt.
Allocate ==
    /\ At("alloc")
    /\ \/ /\ pc' = "check"
          /\ SetBuf([NoBuffer EXCEPT !.held = TRUE])
          /\ UNCHANGED <<status, bounds>>
       \/ ReadFails("SECURE_MEMORY") /\ Event
       \/ ReadFails("IO") /\ Event
    /\ overflow' = FALSE
    /\ UNCHANGED <<confirm, stopped, signals, echo, input, second, hist>>

\* The flag is looked at before every byte.
CheckFlag ==
    /\ At("check")
    /\ \/ flag # 0 /\ ReadFails("IO") /\ UNCHANGED woken
       \/ flag = 0 /\ pc' = "poll" /\ woken' = FALSE /\ UNCHANGED <<status, buf, buf2>>
    /\ UNCHANGED <<confirm, stopped, prev, disp, installed, flag, caught, echo, input,
                   second, overflow, bounds, hist>>

\* A mutant: poll without a timeout.
PollForever ==
    /\ At("poll")
    /\ \/ input # NoLine /\ pc' = "read" /\ UNCHANGED <<status, buf, buf2, bounds>>
       \/ woken /\ ReadFails("IO") /\ UNCHANGED bounds
       \/ ReadFails("IO") /\ Event
       \/ input = NoLine /\ ~woken /\ UNCHANGED <<pc, status, buf, buf2, bounds>>
    /\ UNCHANGED <<confirm, stopped, signals, echo, input, second, overflow, hist>>

\* poll for 100 ms: a byte, a signal that arrived meanwhile (EINTR), another
\* error, the end of the input or a hangup (poll reports it and read returns
\* nothing), whether there is a line or not, or nothing.
Poll ==
    /\ At("poll")
    /\ \/ input # NoLine /\ pc' = "read" /\ UNCHANGED <<status, buf, buf2, bounds>>
       \/ woken /\ ReadFails("IO") /\ UNCHANGED bounds
       \/ ReadFails("IO") /\ Event
       \/ input = NoLine /\ ~woken /\ pc' = "check" /\ UNCHANGED <<status, buf, buf2, bounds>>
    /\ UNCHANGED <<confirm, stopped, signals, echo, input, second, overflow, hist>>

\* A mutant: a line of one byte too many is cut.
FitsOneMore(n) == n <= Max

Fits(n) == n < Max

\* One byte, the end of the line, or a read that fails.
ReadByte ==
    /\ At("read")
    /\ \/ /\ input.len > 0
          /\ input' = [input EXCEPT !.len = @ - 1]
          /\ pc' = "check"
          /\ \/ /\ Fits(Buf.len)
                /\ SetBuf([Buf EXCEPT !.text = input.text, !.len = @ + 1])
                /\ UNCHANGED overflow
             \/ ~Fits(Buf.len) /\ overflow' = TRUE /\ UNCHANGED <<buf, buf2>>
          /\ UNCHANGED <<status, bounds, lines>>
       \/ /\ input.len = 0
          /\ input' = NoLine
          /\ lines' = IF second THEN <<lines[1], line>> ELSE <<line, NoLine>>
          /\ \/ overflow /\ ReadFails("LIMIT")
             \/ ~overflow /\ Buf.len = 0 /\ ReadFails("USAGE")
             \/ /\ ~overflow /\ Buf.len > 0
                /\ pc' = "compare" /\ UNCHANGED <<status, buf, buf2>>
          /\ UNCHANGED <<overflow, bounds>>
       \/ ReadFails("IO") /\ Event /\ UNCHANGED <<input, overflow, lines>>
    /\ UNCHANGED <<confirm, stopped, signals, echo, second, stuck, first, hushed, raised, line>>

\* A mutant: only the lengths are compared.
AgreeInLength == buf.len = buf2.len

Agree == buf.len = buf2.len /\ buf.text = buf2.text

\* Once the line is in: the confirmation, and the comparison.
Compare ==
    /\ At("compare")
    /\ \/ confirm /\ ~second /\ second' = TRUE /\ pc' = "alloc" /\ UNCHANGED status
       \/ /\ confirm => second
          /\ pc' = "unhide"
          /\ status' = IF second /\ ~Agree THEN "AUTH" ELSE "OK"
          /\ UNCHANGED second
    /\ UNCHANGED <<confirm, stopped, signals, echo, input, buf, buf2, overflow, bounds, hist>>

-----------------------------------------------------------------------------
(***************************************************************************)
(* Leaving: the echo, the flag, the dispositions, the signal.              *)
(***************************************************************************)

\* tcsetattr_nointr with the original attributes, for every status.
Unhide ==
    /\ At("unhide") /\ pc' = "fetch"
    /\ \/ echo' = TRUE /\ input' = NoLine /\ UNCHANGED <<status, bounds, stuck>>
       \/ /\ stuck' = TRUE
          /\ status' = IF status = "OK" THEN "IO" ELSE status
          /\ Event /\ UNCHANGED <<echo, input>>
    /\ UNCHANGED <<confirm, stopped, signals, memory, first, hushed, raised, line, lines>>

\* The confirmation is freed and caught_signal takes the flag.  What a handler
\* notes after this step, before its sigaction is undone, Finish clears: such a
\* signal, like one before a Hide that fails, is lost (the echo is on by then).
Fetch ==
    /\ At("fetch") /\ pc' = "restore"
    /\ caught' = flag
    /\ buf2' = NoBuffer
    /\ UNCHANGED <<status, confirm, stopped, prev, disp, installed, flag, woken, echo, input,
                   second, buf, overflow, bounds, hist>>

\* A mutant: the dispositions are put back while the echo is still off.
RestoreTooEarly ==
    /\ ~stopped /\ pc \in {"restore", "rollback", "giveup", "unhide"}
    /\ installed > 0
    /\ disp' = [disp EXCEPT ![installed] = prev[installed]]
    /\ installed' = installed - 1
    /\ UNCHANGED <<pc, status, confirm, stopped, prev, flag, caught, woken, echo, input, memory, bounds, hist>>

\* secret_signal_guard_restore (and the roll back of a failed install).
RestoreOne ==
    /\ ~stopped /\ pc \in {"restore", "rollback", "giveup"}
    /\ installed > 0
    /\ disp' = [disp EXCEPT ![installed] = prev[installed]]
    /\ installed' = installed - 1
    /\ UNCHANGED <<pc, status, confirm, stopped, prev, flag, caught, woken, echo, input, memory, bounds, hist>>

\* The early returns, after the guard is gone.
GiveUp ==
    /\ ~stopped /\ pc \in {"rollback", "giveup"} /\ installed = 0
    /\ pc' = "returned"
    /\ UNCHANGED <<status, confirm, stopped, signals, echo, input, memory, bounds, hist>>

\* An unhandled signal s: SIGTSTP stops the process where it is, others end it.
Take(s, where) ==
    /\ pc' = IF s = Stop THEN where ELSE "dead"
    /\ stopped' = (s = Stop)

\* The secret goes with any status but OK and with a caught signal, which is
\* raised before PV_ERR_IO is returned (a stopped process returns later).
Finish ==
    /\ At("restore") /\ installed = 0
    /\ flag' = 0
    /\ buf' = IF status # "OK" \/ caught # 0 THEN NoBuffer ELSE buf
    /\ raised' = caught
    /\ status' = IF caught # 0 THEN "IO" ELSE status
    /\ IF caught # 0 /\ prev[caught] = "default"
       THEN Take(caught, "returned")
       ELSE pc' = "returned" /\ UNCHANGED stopped
    /\ UNCHANGED <<confirm, prev, disp, installed, caught, woken, echo, input,
                   second, buf2, overflow, bounds, stuck, first, hushed, line, lines>>

-----------------------------------------------------------------------------
(***************************************************************************)
(* The terminal, the kernel and the user.                                  *)
(***************************************************************************)

\* The user types a line; the terminal keeps one for its reader.
Type ==
    /\ pc \notin Ended
    /\ typed < MaxLines /\ typed' = typed + 1
    /\ input = NoLine
    /\ input' \in Lines
    /\ line' = input'
    /\ UNCHANGED <<pc, status, confirm, stopped, signals, echo, memory, sent, events,
                   stuck, first, hushed, raised, lines>>

HiddenInput == {"alloc", "check", "poll", "read", "compare", "unhide"}

\* A mutant: the handler keeps the last signal.
HandlerKeepsLast(s) == flag' = s

\* secret_signal_handler keeps the first signal.
Handler(s) == flag' = IF flag = 0 THEN s ELSE flag

\* A signal arrives while the process runs.
Signal(s) ==
    /\ pc \notin Ended /\ ~stopped
    /\ sent < MaxSignals /\ sent' = sent + 1
    /\ \/ /\ disp[s] = "handler"
          /\ Handler(s)
          /\ woken' \in {woken, woken \/ pc = "poll"}  \* before poll blocks, or while it does
          /\ first' = IF first = 0 THEN s ELSE first
          /\ hushed' = IF pc \in HiddenInput THEN hushed \cup {s} ELSE hushed
          /\ UNCHANGED <<pc, stopped>>
       \/ /\ disp[s] = "default"
          /\ Take(s, pc)
          /\ UNCHANGED <<flag, woken, first, hushed>>
       \/ disp[s] = "ignore" /\ UNCHANGED <<pc, stopped, flag, woken, first, hushed>>
    /\ UNCHANGED <<status, confirm, prev, disp, installed, caught, echo, input, memory,
                   typed, events, stuck, raised, line, lines>>

\* SIGCONT.
Continue ==
    /\ stopped /\ stopped' = FALSE
    /\ UNCHANGED <<pc, status, confirm, signals, echo, input, memory, bounds, hist>>

-----------------------------------------------------------------------------
Call ==
    \/ OpenTty \/ InstallOne \/ Hide
    \/ Allocate \/ CheckFlag \/ Poll \/ ReadByte \/ Compare
    \/ Unhide \/ Fetch \/ RestoreOne \/ GiveUp \/ Finish

\* A call that has ended stays as it is.
Rest == pc \in Ended /\ ~stopped /\ UNCHANGED vars

Next ==
    \/ Call
    \/ Type
    \/ \E s \in Signals : Signal(s)
    \/ Continue
    \/ Rest

Spec == Init /\ [][Next]_vars

\* The process is scheduled, poll times out, no call has to fail, and who stops a
\* process continues it.
Onward == Call /\ UNCHANGED events
FairSpec == Spec /\ WF_vars(Onward) /\ WF_vars(Continue)

-----------------------------------------------------------------------------
\* However a signal ends or stops the process, and whenever the call returns,
\* the terminal echoes again, unless tcsetattr itself refused: the handlers
\* are in place before the echo goes and leave only after it is back.
EchoSafe == pc \in Ended \/ stopped => echo \/ stuck

\* The caller gets a secret exactly with PV_OK.  It is the whole line the user
\* typed, not empty and not too long, the confirmation was the same line, and
\* no signal came during the hidden input; on every other return nothing of
\* the secret or of its confirmation is left in memory.
OkMeansTyped ==
    pc = "returned" =>
        /\ ~buf2.held
        /\ buf.held <=> status = "OK"
        /\ status = "OK" =>
              /\ lines[1].len \in 1..Max
              /\ buf.text = lines[1].text /\ buf.len = lines[1].len
              /\ confirm => lines[2] = lines[1]
              /\ hushed = {}

\* A signal that a handler takes while the echo is off is not forgotten: the
\* call ends by raising the first signal a handler took, with the dispositions
\* the process had before the call.  Nothing is said of a signal that comes only
\* while the echo is on: one the handler takes after caught_signal was read and
\* before the old disposition is back (src/secure.c:409-411) is lost.
FirstSignalReraised ==
    pc = "returned" =>
        /\ disp = prev
        /\ hushed # {} => raised = first /\ raised # 0

\* A signal noted during the hidden input ends the call even if the user never
\* types again: poll wakes up every 100 ms to look at the flag.
SignalEndsInput == flag # 0 ~> pc \in Ended
=============================================================================
