------------------------------- MODULE Picker -------------------------------
(***************************************************************************)
(* The terminal picker: pv_ui_pick_internal and what it calls (src/ui.c).  *)
(* It blocks five signals while curses takes the terminal over, installs   *)
(* its handlers, lets the user narrow a list of records by typing and pick *)
(* one, and on every way out blocks the signals again, reads the flag its  *)
(* handler sets, gives the terminal back, restores dispositions and mask,  *)
(* and raises the signal it has caught.                                    *)
(*                                                                         *)
(* A signal is pending from the moment it is sent; the kernel delivers it  *)
(* before the next step of the process once it is not blocked.  Signals    *)
(* are numbered as in pv_ui_signals; the last, SIGTSTP, stops the process. *)
(* A record is the set of the texts of its fields, title, username, URLs   *)
(* and tags, and matches a query that one of them contains.                *)
(***************************************************************************)
EXTENDS Naturals, Sequences

CONSTANTS
    NSig,           \* PV_UI_SIGNAL_COUNT, 5 in the code
    Chars,          \* the characters texts and queries are made of
    Fold,           \* ascii_fold: the lower case of a character
    Texts,          \* the sequence of the records' sets of texts
    MaxQuery,       \* sizeof(query) - 1, 255 in the code
    MaxKeys,        \* bound: keys pressed
    MaxSignals,     \* bound: signals sent
    MaxEvents       \* bound: failed calls

PickerConstants ==
    /\ NSig \in Nat \ {0}
    /\ Fold \in [Chars -> Chars]
    /\ Texts \in Seq(SUBSET Seq(Chars)) /\ Len(Texts) > 0
    /\ MaxQuery \in Nat
    /\ MaxKeys \in Nat /\ MaxSignals \in Nat /\ MaxEvents \in Nat

Signals == 1..NSig
Stop == NSig                            \* SIGTSTP
Records == 1..Len(Texts)
Keys == Chars \cup {"escape", "enter", "up", "down", "backspace"}
Ended == {"returned", "dead"}

VARIABLES
    pc, status, stopped,
    deleted,                    \* the records flagged PV_RECORD_DELETED
    prev, prevMask,             \* the dispositions and the mask before the call
    disp, mask, pending,        \* and now
    prepared,                   \* signal_guard_prepared
    flag, caught,               \* pv_ui_interrupted, caught_signal
    curses,                     \* the terminal is curses'
    query, matches, current, key, selected,
    keys, sent, events,         \* the bounded events so far
    handled, raised,            \* history: what the handler has seen, what was raised
    stuck                       \* history: sigaction or sigprocmask refused at the end

signals == <<prev, prevMask, disp, mask, prepared, flag, caught>>
list == <<query, matches, current, key, selected>>
bounds == <<keys, sent, events>>
hist == <<handled, raised, stuck>>
vars == <<pc, status, stopped, deleted, signals, pending, curses, list, bounds, hist>>

Init ==
    /\ pc = "start" /\ status = "NOT_FOUND" /\ stopped = FALSE
    /\ deleted \in SUBSET Records
    /\ prev \in [Signals -> {"default", "ignore"}]
    /\ prevMask \in SUBSET Signals
    /\ disp = prev /\ mask = prevMask /\ pending = {}
    /\ prepared = FALSE /\ flag = 0 /\ caught = 0
    /\ curses = FALSE
    /\ query = <<>> /\ matches = <<>> /\ current = 1 /\ key = "escape" /\ selected = 0
    /\ keys = 0 /\ sent = 0 /\ events = 0
    /\ handled = {} /\ raised = 0 /\ stuck = FALSE

\* The next step of the call: a signal that is not blocked is delivered first.
At(where) == pc = where /\ ~stopped /\ pending \subseteq mask
Event == events < MaxEvents /\ events' = events + 1 /\ UNCHANGED <<keys, sent>>

\* Every error leaves by the label cleanup.
Cleanup(s) == pc' = "block" /\ status' = s

-----------------------------------------------------------------------------
(***************************************************************************)
(* Entering.                                                               *)
(***************************************************************************)

\* The terminal is opened and ui_signal_guard_prepare blocks the signals.
Prepare ==
    /\ At("start")
    /\ \/ /\ pc' = "newterm"
          /\ mask' = mask \cup Signals /\ prepared' = TRUE /\ flag' = 0
          /\ UNCHANGED <<status, bounds>>
       \/ Cleanup("IO") /\ Event /\ UNCHANGED <<mask, prepared, flag>>
    /\ UNCHANGED <<stopped, deleted, prev, prevMask, disp, caught, pending, curses, list, hist>>

\* newterm takes the terminal, and every signal that has its default action.
NewTerm ==
    /\ At("newterm")
    /\ \/ /\ pc' = "install" /\ curses' = TRUE
          /\ disp' = [s \in Signals |-> IF prev[s] = "default" THEN "curses" ELSE prev[s]]
          /\ UNCHANGED <<status, bounds>>
       \/ Cleanup("EXTERNAL") /\ Event /\ UNCHANGED <<curses, disp>>
    /\ UNCHANGED <<stopped, deleted, prev, prevMask, mask, prepared, flag, caught,
                   pending, list, hist>>

\* ui_signal_guard_install: handlers except for ignored signals, then the mask.
Install ==
    /\ At("install")
    /\ \/ /\ pc' = "check"
          /\ disp' = [s \in Signals |-> IF prev[s] = "ignore" THEN "ignore" ELSE "handler"]
          /\ mask' = prevMask \ {s \in Signals : prev[s] # "ignore"}
          /\ UNCHANGED <<status, bounds>>
       \/ Cleanup("IO") /\ Event /\ UNCHANGED <<disp, mask>>
    /\ UNCHANGED <<stopped, deleted, prev, prevMask, prepared, flag, caught, pending,
                   curses, list, hist>>

\* The flag, then cbreak, noecho and keypad.
Setup ==
    /\ At("check")
    /\ \/ flag # 0 /\ Cleanup("IO") /\ UNCHANGED bounds
       \/ flag = 0 /\ pc' = "draw" /\ UNCHANGED <<status, bounds>>
       \/ flag = 0 /\ Cleanup("EXTERNAL") /\ Event
    /\ UNCHANGED <<stopped, deleted, signals, pending, curses, list, hist>>

-----------------------------------------------------------------------------
(***************************************************************************)
(* The list.                                                               *)
(***************************************************************************)

\* pv_slice_contains_cstr, which does not tell upper from lower case.
Contains(t, q) ==
    \E k \in 0..Len(t) : k + Len(q) <= Len(t) /\ \A i \in 1..Len(q) : Fold[t[k + i]] = Fold[q[i]]

\* ui_record_matches; an empty query matches every record.
Matches(r, q) == q = <<>> \/ \E t \in Texts[r] : Contains(t, q)

\* A mutant: deleted records are listed too.
ListedWithDeleted(r) == Matches(r, query)

Listed(r) == r \notin deleted /\ Matches(r, query)

\* build_matches after n records, in the order of the vault.
Found[n \in 0..Len(Texts)] ==
    IF n = 0 THEN <<>>
    ELSE IF Listed(n) THEN Append(Found[n - 1], n) ELSE Found[n - 1]
BuildMatches == Found[Len(Texts)]

\* The top of the loop: the flag, the matches, the cursor, the screen.
Draw ==
    /\ At("draw")
    /\ \/ flag # 0 /\ Cleanup("IO") /\ UNCHANGED <<matches, current>>
       \/ /\ flag = 0
          /\ pc' = "getch"
          /\ matches' = BuildMatches
          /\ current' = IF current > Len(matches') /\ matches' # <<>> THEN Len(matches') ELSE current
          /\ UNCHANGED status
    /\ UNCHANGED <<stopped, deleted, signals, pending, curses, query, key, selected, bounds, hist>>

\* getch, again and again for 100 ms, until there is a key or the flag is set.
Getch ==
    /\ At("getch")
    /\ \/ /\ keys < MaxKeys /\ keys' = keys + 1
          /\ key' \in Keys
          /\ pc' = "key"
          /\ UNCHANGED status
       \/ /\ flag # 0
          /\ Cleanup("IO")
          /\ UNCHANGED <<key, keys>>
       \/ flag = 0 /\ UNCHANGED <<pc, status, key, keys>>
    /\ UNCHANGED <<stopped, deleted, signals, pending, curses, query, matches, current,
                   selected, sent, events, hist>>

\* Another query: the cursor goes back to the first match.
SetQuery(q) == query' = q /\ current' = 1

MayGoDown == current < Len(matches)

\* One key; the flag is looked at once more first.
HandleKey ==
    /\ At("key")
    /\ \/ flag # 0 /\ Cleanup("IO") /\ UNCHANGED <<query, current, selected>>
       \/ flag = 0 /\ key = "escape" /\ Cleanup("NOT_FOUND") /\ UNCHANGED <<query, current, selected>>
       \/ /\ flag = 0 /\ key = "enter" /\ matches # <<>>
          /\ selected' = matches[current]
          /\ Cleanup("OK")
          /\ UNCHANGED <<query, current>>
       \/ /\ flag = 0 /\ key # "escape" /\ (key = "enter" => matches = <<>>)
          /\ \/ key = "up" /\ current > 1 /\ current' = current - 1 /\ UNCHANGED query
             \/ key = "down" /\ MayGoDown /\ current' = current + 1 /\ UNCHANGED query
             \/ key = "backspace" /\ query # <<>> /\ SetQuery(SubSeq(query, 1, Len(query) - 1))
             \/ key \in Chars /\ Len(query) < MaxQuery /\ SetQuery(Append(query, key))
             \/ /\ \/ key = "enter"
                   \/ key = "up" /\ current = 1
                   \/ key = "down" /\ ~MayGoDown
                   \/ key = "backspace" /\ query = <<>>
                   \/ key \in Chars /\ Len(query) = MaxQuery
                /\ UNCHANGED <<query, current>>
          /\ pc' = "draw"
          /\ UNCHANGED <<status, selected>>
    /\ UNCHANGED <<stopped, deleted, signals, pending, curses, matches, key, bounds, hist>>
-----------------------------------------------------------------------------
(***************************************************************************)
(* Leaving, by the label cleanup.                                          *)
(***************************************************************************)

\* A mutant: the flag is read with the signals still coming in.
BlockNothing ==
    /\ At("block")
    /\ pc' = IF prepared THEN "fetch" ELSE "endwin"
    /\ UNCHANGED <<status, stopped, deleted, prev, prevMask, disp, mask, prepared, flag, caught,
                   pending, curses, list, bounds, hist>>

\* ui_signal_guard_block, if the guard is there.
Block ==
    /\ At("block")
    /\ pc' = IF prepared THEN "fetch" ELSE "endwin"
    /\ mask' = IF prepared THEN mask \cup Signals ELSE mask
    /\ UNCHANGED <<status, stopped, deleted, prev, prevMask, disp, prepared, flag, caught,
                   pending, curses, list, bounds, hist>>

Fetch ==
    /\ At("fetch") /\ pc' = "endwin"
    /\ caught' = flag
    /\ UNCHANGED <<status, stopped, deleted, prev, prevMask, disp, mask, prepared, flag,
                   pending, curses, list, bounds, hist>>

\* A mutant: the screen is left as it is on an error.
EndWinIfPicked ==
    /\ At("endwin") /\ pc' = "restore"
    /\ curses' = (curses /\ status # "OK")
    /\ UNCHANGED <<status, stopped, deleted, signals, pending, list, bounds, hist>>

\* endwin, delscreen, and the terminal's streams.
EndWin ==
    /\ At("endwin") /\ pc' = "restore"
    /\ curses' = FALSE
    /\ UNCHANGED <<status, stopped, deleted, signals, pending, list, bounds, hist>>

\* ui_signal_guard_restore: the dispositions, then the mask, under which what
\* has become pending meanwhile is delivered.  It goes on after a call that
\* fails, and the failure is reported.
Restore ==
    /\ At("restore") /\ pc' = "finish"
    /\ \/ /\ disp' = IF prepared THEN prev ELSE disp
          /\ mask' = IF prepared THEN prevMask ELSE mask
          /\ UNCHANGED <<status, bounds, stuck>>
       \/ /\ prepared /\ status' = "IO" /\ stuck' = TRUE
          /\ \/ disp' = prev /\ mask' = mask
             \/ \E s \in Signals : disp' = [prev EXCEPT ![s] = disp[s]] /\ mask' = prevMask
          /\ Event
    /\ UNCHANGED <<stopped, deleted, prev, prevMask, prepared, flag, caught,
                   pending, curses, list, handled, raised>>

\* The flag is cleared and the caught signal raised: it is pending, and is
\* delivered before the call returns unless the caller had it blocked.
Finish ==
    /\ At("finish") /\ pc' = "returned"
    /\ flag' = 0
    /\ raised' = caught
    /\ pending' = IF caught # 0 THEN pending \cup {caught} ELSE pending
    /\ status' = IF caught # 0 THEN "IO" ELSE status
    /\ UNCHANGED <<stopped, deleted, prev, prevMask, disp, mask, prepared, caught,
                   curses, list, bounds, handled, stuck>>

-----------------------------------------------------------------------------
(***************************************************************************)
(* The kernel.                                                             *)
(***************************************************************************)

Alive == pc \notin Ended /\ ~stopped

Signal(s) ==
    /\ Alive
    /\ sent < MaxSignals /\ sent' = sent + 1
    /\ pending' = pending \cup {s}
    /\ UNCHANGED <<pc, status, stopped, deleted, signals, curses, list, keys, events, hist>>

\* ui_signal_handler keeps the first signal.
Handler(s) == flag' = IF flag = 0 THEN s ELSE flag

Deliver(s) ==
    /\ pc # "dead" /\ ~stopped
    /\ s \in pending \ mask /\ pending' = pending \ {s}
    /\ \/ /\ disp[s] = "handler"
          /\ Handler(s)
          /\ handled' = handled \cup {s}
          /\ UNCHANGED <<pc, stopped>>
       \/ /\ disp[s] = "ignore"
          /\ UNCHANGED <<pc, stopped, flag, handled>>
       \/ /\ disp[s] \in {"default", "curses"}
          /\ pc' = IF s = Stop THEN pc ELSE "dead"
          /\ stopped' = (s = Stop)
          /\ UNCHANGED <<flag, handled>>
    /\ UNCHANGED <<status, deleted, prev, prevMask, disp, mask, prepared, caught, curses,
                   list, bounds, raised, stuck>>

\* SIGCONT.
Continue ==
    /\ stopped /\ stopped' = FALSE
    /\ UNCHANGED <<pc, status, deleted, signals, pending, curses, list, bounds, hist>>

\* A call that has ended stays as it is.
Rest == pc \in Ended /\ ~stopped /\ UNCHANGED vars

Call ==
    \/ Prepare \/ NewTerm \/ Install \/ Setup
    \/ Draw \/ Getch \/ HandleKey
    \/ Block \/ Fetch \/ EndWin \/ Restore \/ Finish

Kernel == Continue \/ \E s \in Signals : Deliver(s)

Next ==
    \/ Call
    \/ Kernel
    \/ \E s \in Signals : Signal(s)
    \/ Rest

Spec == Init /\ [][Next]_vars

\* The process runs and signals are delivered; nobody has to press a key, and no
\* call has to fail.
Onward == Call /\ (pc = "getch" => flag # 0) /\ UNCHANGED events
FairSpec == Spec /\ WF_vars(Kernel) /\ WF_vars(Onward)

-----------------------------------------------------------------------------

\* The record returned with PV_OK is one the user could see: it is not deleted
\* and contains the query as it stood when Enter was pressed.
SelectionWasListed ==
    pc = "returned" /\ status = "OK" =>
        selected \in Records /\ selected \notin deleted /\ Matches(selected, query)

\* No signal gets lost: if the handler has seen any, the call raises one of
\* them, under the dispositions and the mask it found.  If they cannot be put
\* back, the call says so.
NoSignalLost ==
    pc = "returned" =>
        IF stuck THEN status = "IO"
        ELSE /\ disp = prev /\ mask = prevMask
             /\ handled # {} => raised \in handled /\ status = "IO"

\* A signal the handler has seen ends the call even if no key is pressed.
SignalEndsPick == flag # 0 ~> pc \in Ended
=============================================================================
