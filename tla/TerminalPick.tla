---------------------------- MODULE TerminalPick ----------------------------
(***************************************************************************)
(* command_pick without --rofi (src/cli.c): the password is read from the  *)
(* terminal (SecretInput), the vault opened, and a record picked on the    *)
(* same terminal (Picker).  Both calls take the terminal and the signals   *)
(* over and have to give them back: the picker finds the dispositions the  *)
(* password prompt left.                                                   *)
(***************************************************************************)
EXTENDS SecretInput, Sequences

CONSTANTS
    Chars, Fold, RecordTexts, MaxQuery, MaxKeys       \* of Picker

VARIABLES
    picking,        \* the second call has begun
    upc, ustatus, ustopped, deleted, uprev, prevMask, udisp, mask, pending, prepared,
    uflag, ucaught, curses, query, matches, current, key, selected, keys, usent, uevents,
    handled, uraised, ustuck

UI == INSTANCE Picker WITH
        Texts <- RecordTexts, pc <- upc, status <- ustatus, stopped <- ustopped,
        prev <- uprev, disp <- udisp, flag <- uflag, caught <- ucaught,
        sent <- usent, events <- uevents, raised <- uraised,
        stuck <- ustuck

ASSUME PickAssumption == UI!PickerConstants

uiVars ==
    <<upc, ustatus, ustopped, deleted, uprev, prevMask, udisp, mask, pending, prepared, uflag,
      ucaught, curses, query, matches, current, key, selected, keys, usent, uevents, handled,
      uraised, ustuck>>
pickVars == <<picking, vars, uiVars>>

PickInit ==
    /\ Init /\ picking = FALSE
    /\ upc = "none" /\ ustatus = "NOT_FOUND" /\ ustopped = FALSE
    /\ deleted = {} /\ uprev = prev /\ udisp = prev /\ prevMask = {} /\ mask = {} /\ pending = {}
    /\ prepared = FALSE /\ uflag = 0 /\ ucaught = 0 /\ curses = FALSE
    /\ query = <<>> /\ matches = <<>> /\ current = 1 /\ key = "escape" /\ selected = 0
    /\ keys = 0 /\ usent = 0 /\ uevents = 0 /\ handled = {} /\ uraised = 0
    /\ ustuck = FALSE

\* open_password_vault: the prompt is done with, and its buffer is freed once
\* the vault is open.  What was typed since is among the keys of the picker.
Consume ==
    /\ pc = "returned" /\ status = "OK" /\ ~stopped /\ ~confirm
    /\ pc' = "start" /\ status' = "none"
    /\ second' = FALSE /\ buf' = NoBuffer /\ overflow' = FALSE /\ woken' = FALSE
    /\ typed' = 0 /\ sent' = 0 /\ events' = 0
    /\ input' = NoLine /\ first' = 0 /\ hushed' = {} /\ line' = NoLine /\ lines' = <<NoLine, NoLine>>
    /\ UNCHANGED <<confirm, stopped, prev, disp, installed, flag, caught, echo, buf2,
                   stuck, raised>>

\* The picker is called, under any mask.
Pick ==
    /\ ~picking /\ picking' = TRUE
    /\ Consume
    /\ upc' = "start"
    /\ deleted' \in SUBSET UI!Records
    /\ uprev' = disp /\ udisp' = disp
    /\ prevMask' \in SUBSET Signals /\ mask' = prevMask'
    /\ UNCHANGED <<ustatus, ustopped, pending, prepared, uflag, ucaught, curses, query, matches,
                   current, key, selected, keys, usent, uevents, handled, uraised, ustuck>>

Prompting(A) == ~picking /\ A /\ UNCHANGED <<picking, uiVars>>
Picking(A) == picking /\ A /\ UNCHANGED <<picking, vars>>

PickNext == Prompting(Next) \/ Pick \/ Picking(UI!Next)

\* The fairness of both calls.
PickSpec ==
    /\ PickInit /\ [][PickNext]_pickVars
    /\ WF_pickVars(Prompting(Onward)) /\ WF_pickVars(Prompting(Continue))
    /\ WF_pickVars(Picking(UI!Onward)) /\ WF_pickVars(Picking(UI!Kernel))

-----------------------------------------------------------------------------
\* However a signal ends or stops the command in either call, and when pick
\* returns, the terminal echoes, curses has given it back, and the signals have
\* the dispositions they had before the password was asked for, unless the
\* kernel refused to take them.
TerminalAsFound ==
    /\ pc \in Ended \/ upc \in Ended \/ stopped \/ ustopped => (echo \/ stuck) /\ ~curses
    /\ upc = "returned" => ustuck \/ (udisp = prev /\ mask = prevMask)

\* What the command goes on with is what the user did at the terminal: the
\* password is the whole line they typed (and nothing of it is left on any other
\* return), and the record is one that was on the list when they pressed Enter.
UserAnswered == OkMeansTyped /\ UI!SelectionWasListed

\* A signal that the prompt's handler takes while the echo is off, or the picker's
\* handler at any time, is not forgotten: the call ends by raising one it has seen,
\* the prompt the first one, under the dispositions and the mask it found.  The
\* picker blocks the signals before it reads its flag (src/ui.c:341-342); the prompt
\* does not, and a signal its handler takes once the flag was read is lost.
SignalsReraised == FirstSignalReraised /\ UI!NoSignalLost

\* A signal ends the prompt and the picker even if the user never types again.
SignalEndsWait == SignalEndsInput /\ UI!SignalEndsPick
=============================================================================
