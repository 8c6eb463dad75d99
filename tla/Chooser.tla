------------------------------ MODULE Chooser ------------------------------
(***************************************************************************)
(* Picking a record with an external chooser: command_pick with rofi,      *)
(* rofi_prepare, rofi_select, rofi_cancel and rofi_terminate_and_reap      *)
(* (src/cli.c), and the child process they talk to.                        *)
(*                                                                         *)
(* The child is started before the vault is opened.  One line per live     *)
(* record, its title and a random token, is written to the child's         *)
(* standard input, a socket that holds a few lines; then the answer is     *)
(* read to the end of the child's output, and the child is waited for,     *)
(* terminated and killed.  The child reads, answers, closes its ends,      *)
(* exits or hangs, and may ignore SIGTERM, in any order.                   *)
(***************************************************************************)
EXTENDS Naturals, Sequences, FiniteSets

CONSTANTS
    NRecords,       \* the records of the vault
    Tokens,         \* the tokens that can be drawn
    Room,           \* the lines the socket holds
    MaxEvents       \* bound: failures

ASSUME ChooserAssumption ==
    /\ NRecords \in Nat /\ Room \in Nat \ {0} /\ MaxEvents \in Nat
    /\ Cardinality(Tokens) >= NRecords /\ "junk" \notin Tokens

Records == 1..NRecords
Entry == [record : Records, token : Tokens]
Junk == [record |-> 0, token |-> "junk"]            \* an answer that is no line of the list

VARIABLES
    pc, status, selected,
    live, empty,            \* the records not deleted, those with an empty password
    copy,                   \* --copy
    i, entries,             \* rofi_select's loop and its table
    clip,                   \* the clipboard job: none, ready, sent, cancelled
    opened,                 \* the decrypted vault is in memory
    inFd, outFd, pid,       \* the job's descriptors and process, while open
    line, answer,           \* in the socket; in the output pipe
    response,               \* what has been read
    child,                  \* none, alive, zombie or reaped
    childIn, childOut,      \* the child's ends
    listed,                 \* the lines the child has read
    deaf,                   \* the child ignores SIGTERM
    events

job == <<inFd, outFd, pid>>
pipes == <<line, answer, response>>
childs == <<child, childIn, childOut, listed, deaf>>
fixed == <<live, empty, copy>>
vars == <<pc, status, selected, fixed, i, entries, clip, opened, job, pipes, childs, events>>

Init ==
    /\ pc = "clip" /\ status = "OK" /\ selected = 0
    /\ live \in SUBSET Records /\ empty \in SUBSET live /\ copy \in BOOLEAN
    /\ i = 0 /\ entries = <<>> /\ clip = "none" /\ opened = FALSE
    /\ inFd = FALSE /\ outFd = FALSE /\ pid = FALSE
    /\ line = <<>> /\ answer = <<>> /\ response = <<>>
    /\ child = "none" /\ childIn = FALSE /\ childOut = FALSE /\ listed = {} /\ deaf \in BOOLEAN
    /\ events = 0

Event == events < MaxEvents /\ events' = events + 1
Same == UNCHANGED events

-----------------------------------------------------------------------------
(***************************************************************************)
(* command_pick up to the list.                                            *)
(***************************************************************************)

\* pv_clipboard_prepare.
PrepareClip ==
    /\ pc = "clip"
    /\ \/ ~copy /\ Same /\ pc' = "fork" /\ UNCHANGED <<status, clip>>
       \/ copy /\ Same /\ pc' = "fork" /\ clip' = "ready" /\ UNCHANGED status
       \/ copy /\ Event /\ pc' = "returned" /\ status' = "EXTERNAL" /\ UNCHANGED clip
    /\ UNCHANGED <<selected, fixed, i, entries, opened, job, pipes, childs>>

\* rofi_prepare; a failure cancels the clipboard job.
Prepare ==
    /\ pc = "fork"
    /\ \/ /\ Same /\ pc' = "open"
          /\ inFd' = TRUE /\ outFd' = TRUE /\ pid' = TRUE
          /\ child' = "alive" /\ childIn' = TRUE /\ childOut' = TRUE
          /\ UNCHANGED <<status, clip>>
       \/ /\ Event /\ pc' = "returned" /\ status' = "EXTERNAL"
          /\ clip' = (IF clip = "ready" THEN "cancelled" ELSE clip)
          /\ UNCHANGED <<job, child, childIn, childOut>>
    /\ UNCHANGED <<selected, fixed, i, entries, opened, pipes, listed, deaf>>

\* open_password_vault, once the user has typed the master password, for which it
\* waits as long as it takes, and the table of entries.  If the vault does not open,
\* the clipboard job is cancelled before rofi is; without memory for the table, after.
Open ==
    /\ pc = "open"
    /\ \/ Same /\ pc' = "send" /\ opened' = TRUE /\ UNCHANGED <<status, clip>>
       \/ /\ Event /\ pc' = "closeIn" /\ status' = "AUTH"
          /\ clip' = (IF clip = "ready" THEN "cancelled" ELSE clip)
          /\ UNCHANGED opened
       \/ Event /\ pc' = "closeIn" /\ status' = "NOMEM" /\ opened' = TRUE /\ UNCHANGED clip
    /\ UNCHANGED <<selected, fixed, i, entries, job, pipes, childs>>

-----------------------------------------------------------------------------
(***************************************************************************)
(* rofi_select.                                                            *)
(***************************************************************************)

\* A mutant: a token is not compared with the earlier ones.
NotCompared(t) == TRUE

\* rofi_token_unique.
TokenUnique(t) == \A k \in DOMAIN entries : entries[k].token # t

IsListed(r) == r \in live

\* A mutant: the loop runs once more.
SendOneMore ==
    /\ pc = "send" /\ i <= NRecords
    /\ i' = i + 1 /\ Same
    /\ UNCHANGED <<pc, status, selected, fixed, entries, clip, opened, job, pipes, childs>>

\* One record: skipped, or its line is sent.  The socket must have room or its
\* other end be closed.
Send ==
    /\ pc = "send" /\ i < NRecords
    /\ \/ /\ ~IsListed(i + 1)
          /\ Same /\ i' = i + 1 /\ UNCHANGED <<pc, status, entries, line>>
       \/ /\ IsListed(i + 1) /\ childIn /\ Len(line) < Room
          /\ \E t \in Tokens :
                /\ TokenUnique(t)
                /\ entries' = Append(entries, [record |-> i + 1, token |-> t])
                /\ line' = Append(line, [record |-> i + 1, token |-> t])
          /\ Same /\ i' = i + 1 /\ UNCHANGED <<pc, status>>
       \/ /\ IsListed(i + 1) /\ ~childIn
          /\ Same /\ pc' = "closeIn" /\ status' = "EXTERNAL"
          /\ UNCHANGED <<i, entries, line>>
    /\ UNCHANGED <<selected, fixed, clip, opened, job, answer, response, childs>>

Sent ==
    /\ pc = "send" /\ i = NRecords
    /\ inFd' = FALSE /\ pc' = "read" /\ Same
    /\ UNCHANGED <<status, selected, fixed, i, entries, clip, opened, outFd, pid, pipes, childs>>

\* The answer is read until the child's end is closed or the buffer is full,
\* which no line of the list fills.
Read ==
    /\ pc = "read"
    /\ \/ /\ answer # <<>>
          /\ response' = response \o answer /\ answer' = <<>>
          /\ UNCHANGED <<pc, outFd>>
       \/ /\ answer = <<>> /\ (~childOut \/ response = <<Junk>>)
          /\ outFd' = FALSE /\ pc' = "deadline"
          /\ UNCHANGED <<response, answer>>
    /\ Same
    /\ UNCHANGED <<status, selected, fixed, i, entries, clip, opened, inFd, pid, line, childs>>

\* rofi_cancel: both ends are closed, the child is looked at once.
Cancel ==
    /\ pc = "closeIn"
    /\ inFd' = FALSE /\ outFd' = FALSE /\ pc' = "wait" /\ Same
    /\ UNCHANGED <<status, selected, fixed, i, entries, clip, opened, pid, pipes, childs>>

-----------------------------------------------------------------------------
(***************************************************************************)
(* rofi_wait_deadline and rofi_terminate_and_reap: after an answer the     *)
(* child is waited for for a while; then, and after rofi_cancel at once,   *)
(* it is looked at, told to terminate, waited for again, killed.  A        *)
(* deadline ends early when waitpid fails.                                 *)
(***************************************************************************)
Reap == child' = "reaped" /\ pid' = FALSE

\* A mutant: a child that does not end in time is left behind.
WaitOnce ==
    /\ pc = "wait"
    /\ IF child = "zombie" THEN Reap ELSE pid' = FALSE /\ UNCHANGED child
    /\ pc' = "decide" /\ Same
    /\ UNCHANGED <<status, selected, fixed, i, entries, clip, opened, inFd, outFd, pipes, childIn, childOut, listed, deaf>>

\* A mutant: the child is reaped but not reported as gone.
WaitUnreported ==
    /\ pc = "wait"
    /\ IF child = "zombie" THEN child' = "reaped" ELSE UNCHANGED child
    /\ pc' = "term" /\ Same
    /\ UNCHANGED <<status, selected, fixed, i, entries, clip, opened, job, pipes, childIn, childOut, listed, deaf>>

\* The child is reaped, or the command goes on to the next step: the time is up and
\* the child still runs, or waitpid failed.
WaitDeadline(next) ==
    \/ child = "zombie" /\ Reap /\ pc' = "decide" /\ Same
    \/ child # "zombie" /\ pc' = next /\ Same /\ UNCHANGED <<child, pid>>
    \/ pc' = next /\ Event /\ UNCHANGED <<child, pid>>

\* The fifty tries after the answer.
Deadline ==
    /\ pc = "deadline"
    /\ WaitDeadline("wait")
    /\ UNCHANGED <<status, selected, fixed, i, entries, clip, opened, inFd, outFd, pipes, childIn, childOut, listed, deaf>>

Wait ==
    /\ pc = "wait"
    /\ WaitDeadline("term")
    /\ UNCHANGED <<status, selected, fixed, i, entries, clip, opened, inFd, outFd, pipes, childIn, childOut, listed, deaf>>

Exits == child' = "zombie" /\ childIn' = FALSE /\ childOut' = FALSE

Terminate ==
    /\ pc = "term"
    /\ IF child = "alive" /\ ~deaf THEN Exits ELSE UNCHANGED <<child, childIn, childOut>>
    /\ pc' = "waitTerm" /\ Same
    /\ UNCHANGED <<status, selected, fixed, i, entries, clip, opened, job, pipes, listed, deaf>>

\* A mutant: there is no second deadline.
WaitTermForever ==
    /\ pc = "waitTerm"
    /\ IF child = "zombie" THEN Reap /\ pc' = "decide" ELSE UNCHANGED <<pc, child, pid>>
    /\ Same
    /\ UNCHANGED <<status, selected, fixed, i, entries, clip, opened, inFd, outFd, pipes, childIn, childOut, listed, deaf>>

WaitTerm ==
    /\ pc = "waitTerm"
    /\ WaitDeadline("kill")
    /\ UNCHANGED <<status, selected, fixed, i, entries, clip, opened, inFd, outFd, pipes, childIn, childOut, listed, deaf>>

\* SIGKILL and the last waitpid.
Kill ==
    /\ pc = "kill"
    /\ Reap /\ childIn' = FALSE /\ childOut' = FALSE
    /\ pc' = "decide" /\ Same
    /\ UNCHANGED <<status, selected, fixed, i, entries, clip, opened, inFd, outFd, pipes, listed, deaf>>

-----------------------------------------------------------------------------
(***************************************************************************)
(* The answer, and the end of command_pick.                                *)
(***************************************************************************)

\* One whole line with a token that was handed out.
Named == {k \in DOMAIN entries : Len(response) = 1 /\ response[1].token = entries[k].token}
First(S) == CHOOSE k \in S : \A m \in S : k <= m

Decide ==
    /\ pc = "decide"
    /\ IF status # "OK" THEN UNCHANGED <<status, selected>>
       ELSE IF Named = {} THEN status' = "NOT_FOUND" /\ UNCHANGED selected
       ELSE selected' = entries[First(Named)].record /\ UNCHANGED status
    /\ pc' = "finish" /\ Same
    /\ UNCHANGED <<fixed, i, entries, clip, opened, job, pipes, childs>>

\* A mutant: a failed selection leaves the clipboard job alone.
FinishIfPicked ==
    /\ pc = "finish"
    /\ clip' = (IF status = "OK" /\ copy THEN "sent" ELSE clip)
    /\ opened' = FALSE
    /\ pc' = "returned" /\ UNCHANGED status /\ Same
    /\ UNCHANGED <<selected, fixed, i, entries, job, pipes, childs>>

\* A mutant: a copy that fails returns with the vault.
FinishWithVault ==
    /\ pc = "finish"
    /\ \/ /\ status = "OK" /\ copy /\ selected \notin empty
          /\ clip' = "sent" /\ \/ Same /\ UNCHANGED status /\ opened' = FALSE
                               \/ Event /\ status' = "EXTERNAL" /\ UNCHANGED opened
       \/ /\ status = "OK" /\ copy /\ selected \in empty
          /\ status' = "NOT_FOUND" /\ opened' = FALSE /\ Same /\ UNCHANGED clip
       \/ /\ status # "OK" \/ ~copy
          /\ clip' = (IF clip = "ready" THEN "cancelled" ELSE clip)
          /\ opened' = FALSE /\ Same /\ UNCHANGED status
    /\ pc' = "returned"
    /\ UNCHANGED <<selected, fixed, i, entries, job, pipes, childs>>

\* The password is sent or the record shown; without a password the job is
\* left to the end of the process.  The vault, if there is one, is destroyed.
Finish ==
    /\ pc = "finish"
    /\ \/ /\ status = "OK" /\ copy /\ selected \notin empty
          /\ clip' = "sent" /\ \/ Same /\ UNCHANGED status
                               \/ Event /\ status' = "EXTERNAL"
       \/ /\ status = "OK" /\ copy /\ selected \in empty
          /\ status' = "NOT_FOUND" /\ Same /\ UNCHANGED clip
       \/ /\ status # "OK" \/ ~copy
          /\ clip' = (IF clip = "ready" THEN "cancelled" ELSE clip)
          /\ Same /\ UNCHANGED status
    /\ opened' = FALSE
    /\ pc' = "returned"
    /\ UNCHANGED <<selected, fixed, i, entries, job, pipes, childs>>

Rest == pc = "returned" /\ UNCHANGED vars

-----------------------------------------------------------------------------
(***************************************************************************)
(* The child.                                                              *)
(***************************************************************************)

ChildRead ==
    /\ child = "alive" /\ childIn /\ line # <<>>
    /\ listed' = listed \cup {Head(line)} /\ line' = Tail(line)
    /\ UNCHANGED <<answer, child, childIn, childOut>>

\* The user picks a line of those shown, or the child says something else.
ChildAnswer ==
    /\ child = "alive" /\ childOut /\ outFd /\ answer = <<>> /\ response = <<>>
    /\ \E a \in listed \cup {Junk} : answer' = <<a>>
    /\ UNCHANGED <<line, child, childIn, childOut, listed>>

ChildClose ==
    /\ child = "alive"
    /\ \/ childIn /\ childIn' = FALSE /\ UNCHANGED childOut
       \/ childOut /\ childOut' = FALSE /\ UNCHANGED childIn
    /\ UNCHANGED <<line, answer, child, listed>>

ChildExit == child = "alive" /\ Exits /\ UNCHANGED <<line, answer, listed>>

Child ==
    /\ ChildRead \/ ChildAnswer \/ ChildClose \/ ChildExit
    /\ Same
    /\ UNCHANGED <<pc, status, selected, fixed, i, entries, clip, opened, job, response, deaf>>

Step ==
    \/ PrepareClip \/ Prepare \/ Open \/ Send \/ Sent \/ Read \/ Cancel
    \/ Deadline \/ Wait \/ Terminate \/ WaitTerm \/ Kill \/ Decide \/ Finish

Next == Step \/ Child \/ Rest

Spec == Init /\ [][Next]_vars

\* The command goes on whenever it can without a failure; nobody has to type the
\* master password or to answer rofi.
Onward == Step /\ Same /\ pc # "open"
FairSpec == Spec /\ WF_vars(Onward)

-----------------------------------------------------------------------------
TypeOK ==
    /\ pc \in {"clip", "fork", "open", "send", "read", "closeIn", "deadline", "wait", "term", "waitTerm",
               "kill", "decide", "finish", "returned"}
    /\ status \in {"OK", "AUTH", "NOMEM", "EXTERNAL", "NOT_FOUND"}
    /\ selected \in 0..NRecords /\ i \in 0..NRecords
    /\ entries \in Seq(Entry) /\ clip \in {"none", "ready", "sent", "cancelled"}
    /\ Len(line) <= Room /\ child \in {"none", "alive", "zombie", "reaped"}
    /\ listed \subseteq Entry /\ opened \in BOOLEAN /\ events \in 0..MaxEvents

\* The record that is shown or copied is live, and it is the one whose line the
\* user picked: the answer names it and no other.
SelectedWasPicked ==
    selected # 0 => selected \in live /\ Len(response) = 1 /\ response[1].record = selected

\* However the child behaves, the command returns only with the child reaped
\* and both its descriptors closed.
NoChildLeft == pc = "returned" => child \in {"none", "reaped"} /\ ~inFd /\ ~outFd /\ ~pid

\* A signal is sent only to a child that has not been waited for: its number can
\* not have been given to another process.
SignalsOwnChild == pc \in {"term", "kill"} => child \in {"alive", "zombie"}

\* The clipboard job is sent or cancelled when the command returns, unless the
\* picked record has no password to send.
ClipSettled == pc = "returned" /\ clip = "ready" => selected \in empty

\* The vault is decrypted for the choice only: when the command returns it is gone,
\* on every way out.
NoVaultLeft == pc = "returned" => ~opened

\* Once the child has closed both ends or is gone and the master password was
\* answered, the command returns, even if the child then hangs and ignores SIGTERM.
ChildGoneEnds ==
    (child # "none" /\ ~childIn /\ ~childOut /\ pc # "open") ~> (pc = "returned")
=============================================================================
