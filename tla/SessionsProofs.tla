--------------------------- MODULE SessionsProofs ---------------------------
(***************************************************************************)
(* Proofs about Sessions, for any records, tokens, socket and lines typed, *)
(* and any number of failures.                                             *)
(*                                                                         *)
(* The chooser: which of its descriptors and which child the command has   *)
(* at each step, that the two queues hold nothing but lines handed out or  *)
(* junk, and which record a choice stands for.  The shell: what there is   *)
(* to settle at each step.  Then the behaviour that is about one of them.  *)
(***************************************************************************)
EXTENDS Sessions, SequenceTheorems, TLAPS

(***************************************************************************)
(* The chooser.                                                            *)
(***************************************************************************)

\* The lines handed out so far.
Handed == {entries[k] : k \in DOMAIN entries}
Said == Handed \cup {Junk}

Before == {"clip", "fork"}
During == {"open", "send", "read", "closeIn", "deadline", "wait", "term", "waitTerm", "kill"}
After == {"decide", "finish", "returned"}

Flags ==
    /\ copy \in BOOLEAN /\ deaf \in BOOLEAN /\ inFd \in BOOLEAN /\ outFd \in BOOLEAN
    /\ pid \in BOOLEAN /\ childIn \in BOOLEAN /\ childOut \in BOOLEAN

Lines ==
    /\ live \subseteq Records /\ empty \subseteq live
    /\ line \in Seq(Handed) /\ listed \subseteq Handed
    /\ answer \in Seq(Said) /\ response \in Seq(Said)

\* A token names one line, of a record that is live.
Distinct ==
    /\ \A a, b \in DOMAIN entries : entries[a].token = entries[b].token => a = b
    /\ \A k \in DOMAIN entries : entries[k].record \in live

ChildKnown ==
    /\ pc \in Before => child = "none"
    /\ pc \in During => child \in {"alive", "zombie"}
    /\ pc \in After => child \in {"none", "reaped"}

Closed ==
    /\ pc \in Before \cup After \cup {"deadline", "wait", "term", "waitTerm", "kill"} => ~inFd /\ ~outFd
    /\ pc = "read" => ~inFd
    /\ pc \in Before \cup After => ~pid

Selection ==
    /\ SelectedWasPicked
    /\ selected # 0 => pc \in {"finish", "returned"}

\* What the command has acquired besides the child: the clipboard job and the vault.
Acquired ==
    /\ ClipSettled /\ (pc = "clip" => clip = "none")
    /\ pc \in Before \cup {"open", "returned"} => ~opened

ChooserInv ==
    /\ TypeOK /\ Flags /\ Lines /\ Distinct
    /\ ChildKnown /\ Closed /\ Selection /\ Acquired

\* A step of command_pick that leaves the list and what was read of it alone.
LEMMA ListKept ==
    ASSUME ChooserInv, UNCHANGED <<fixed, entries, line, answer, response, listed>>
    PROVE  Lines' /\ Distinct'
BY Zenon DEF ChooserInv, Lines, Distinct, Handed, Said, fixed

LEMMA PrepareClipStep == ASSUME ChooserInv, PrepareClip PROVE ChooserInv'
<1>1. Lines' /\ Distinct'
    BY Zenon, ListKept DEF PrepareClip, pipes, childs
<1>2. UNCHANGED <<copy, deaf, inFd, outFd, pid, childIn, childOut>>
    BY Zenon DEF PrepareClip, fixed, job, childs
<1>3. Flags'
    BY Zenon, <1>2 DEF ChooserInv, Flags
<1>4. TypeOK'
    BY ChooserAssumption DEF ChooserInv, TypeOK, PrepareClip, fixed, job, pipes, childs, Same, Event
<1>5. ChildKnown' /\ Closed' /\ Acquired'
    BY Zenon DEF ChooserInv, ChildKnown, Closed, Acquired, ClipSettled, PrepareClip, job, childs, Before, During, After
<1>6. Selection'
    BY Zenon DEF ChooserInv, Selection, SelectedWasPicked, PrepareClip, fixed, pipes
<1> QED BY Zenon, <1>1, <1>3, <1>4, <1>5, <1>6 DEF ChooserInv

LEMMA PrepareStep == ASSUME ChooserInv, Prepare PROVE ChooserInv'
<1>1. Lines' /\ Distinct'
    BY Zenon, ListKept DEF Prepare, pipes, childs
<1>2. UNCHANGED <<copy, deaf>>
    BY Zenon DEF Prepare, fixed, childs
<1>3. Flags'
    BY Zenon, <1>2 DEF ChooserInv, Flags, Prepare, job, childs
<1>4. TypeOK'
    BY ChooserAssumption DEF ChooserInv, TypeOK, Prepare, fixed, job, pipes, childs, Same, Event
<1>5. ChildKnown' /\ Closed' /\ Acquired'
    BY DEF ChooserInv, ChildKnown, Closed, Acquired, ClipSettled, Prepare, fixed, job, childs, Before, During, After
<1>6. Selection'
    BY Zenon DEF ChooserInv, Selection, SelectedWasPicked, Prepare, fixed, pipes
<1> QED BY Zenon, <1>1, <1>3, <1>4, <1>5, <1>6 DEF ChooserInv

LEMMA OpenStep == ASSUME ChooserInv, Open PROVE ChooserInv'
<1>1. Lines' /\ Distinct'
    BY Zenon, ListKept DEF Open, pipes, childs
<1>2. UNCHANGED <<copy, deaf>>
    BY Zenon DEF Open, fixed, childs
<1>3. Flags'
    BY Zenon, <1>2 DEF ChooserInv, Flags, Open, job, childs
<1>4. TypeOK'
  <2>1. events' \in 0..MaxEvents
      BY ChooserAssumption DEF ChooserInv, TypeOK, Open, Same, Event
  <2> QED BY Zenon, <2>1 DEF ChooserInv, TypeOK, Open, fixed, job, pipes, childs
<1>5. ChildKnown' /\ Closed' /\ Acquired'
    BY Zenon DEF ChooserInv, ChildKnown, Closed, Acquired, ClipSettled, Open, fixed, job, childs, Before, During, After
<1>6. Selection'
    BY Zenon DEF ChooserInv, Selection, SelectedWasPicked, Open, fixed, pipes
<1> QED BY Zenon, <1>1, <1>3, <1>4, <1>5, <1>6 DEF ChooserInv

LEMMA SentStep == ASSUME ChooserInv, Sent PROVE ChooserInv'
<1>1. Lines' /\ Distinct'
    BY Zenon, ListKept DEF Sent, pipes, childs
<1>2. UNCHANGED <<copy, deaf>>
    BY Zenon DEF Sent, fixed, childs
<1>3. Flags'
    BY Zenon, <1>2 DEF ChooserInv, Flags, Sent, job, childs
<1>4. TypeOK'
    BY Zenon, ChooserAssumption DEF ChooserInv, TypeOK, Sent, fixed, job, pipes, childs, Same, Event
<1>5. ChildKnown' /\ Closed' /\ Acquired'
    BY Zenon DEF ChooserInv, ChildKnown, Closed, Acquired, ClipSettled, Sent, fixed, job, childs, Before, During, After
<1>6. Selection'
    BY Zenon DEF ChooserInv, Selection, SelectedWasPicked, Sent, fixed, pipes
<1> QED BY Zenon, <1>1, <1>3, <1>4, <1>5, <1>6 DEF ChooserInv

LEMMA CancelStep == ASSUME ChooserInv, Cancel PROVE ChooserInv'
<1>1. Lines' /\ Distinct'
    BY Zenon, ListKept DEF Cancel, pipes, childs
<1>2. UNCHANGED <<copy, deaf>>
    BY Zenon DEF Cancel, fixed, childs
<1>3. Flags'
    BY Zenon, <1>2 DEF ChooserInv, Flags, Cancel, job, childs
<1>4. TypeOK'
    BY Zenon, ChooserAssumption DEF ChooserInv, TypeOK, Cancel, fixed, job, pipes, childs, Same, Event
<1>5. ChildKnown' /\ Closed' /\ Acquired'
    BY Zenon DEF ChooserInv, ChildKnown, Closed, Acquired, ClipSettled, Cancel, fixed, job, childs, Before, During, After
<1>6. Selection'
    BY Zenon DEF ChooserInv, Selection, SelectedWasPicked, Cancel, fixed, pipes
<1> QED BY Zenon, <1>1, <1>3, <1>4, <1>5, <1>6 DEF ChooserInv

LEMMA DeadlineStep == ASSUME ChooserInv, Deadline PROVE ChooserInv'
<1>1. Lines' /\ Distinct'
    BY Zenon, ListKept DEF Deadline, pipes, childs, WaitDeadline, Reap
<1>2. UNCHANGED <<copy, deaf>>
    BY Zenon DEF Deadline, fixed, childs, WaitDeadline, Reap
<1>3. Flags'
    BY Zenon, <1>2 DEF ChooserInv, Flags, Deadline, job, childs, WaitDeadline, Reap
<1>4. TypeOK'
  <2>1. events' \in 0..MaxEvents
      BY ChooserAssumption DEF ChooserInv, TypeOK, Deadline, Same, Event, WaitDeadline, Reap
  <2> QED BY Zenon, <2>1 DEF ChooserInv, TypeOK, Deadline, fixed, job, pipes, childs, WaitDeadline, Reap
<1>5. ChildKnown' /\ Closed' /\ Acquired'
    BY Zenon DEF ChooserInv, ChildKnown, Closed, Acquired, ClipSettled, Deadline, fixed, job, childs, Before, During, After, WaitDeadline, Reap
<1>6. Selection'
    BY Zenon DEF ChooserInv, Selection, SelectedWasPicked, Deadline, fixed, pipes
<1> QED BY Zenon, <1>1, <1>3, <1>4, <1>5, <1>6 DEF ChooserInv

LEMMA WaitStep == ASSUME ChooserInv, Wait PROVE ChooserInv'
<1>1. Lines' /\ Distinct'
    BY Zenon, ListKept DEF Wait, pipes, childs, WaitDeadline, Reap
<1>2. UNCHANGED <<copy, deaf>>
    BY Zenon DEF Wait, fixed, childs, WaitDeadline, Reap
<1>3. Flags'
    BY Zenon, <1>2 DEF ChooserInv, Flags, Wait, job, childs, WaitDeadline, Reap
<1>4. TypeOK'
  <2>1. events' \in 0..MaxEvents
      BY ChooserAssumption DEF ChooserInv, TypeOK, Wait, Same, Event, WaitDeadline, Reap
  <2> QED BY Zenon, <2>1 DEF ChooserInv, TypeOK, Wait, fixed, job, pipes, childs, WaitDeadline, Reap
<1>5. ChildKnown' /\ Closed' /\ Acquired'
    BY Zenon DEF ChooserInv, ChildKnown, Closed, Acquired, ClipSettled, Wait, fixed, job, childs, Before, During, After, WaitDeadline, Reap
<1>6. Selection'
    BY Zenon DEF ChooserInv, Selection, SelectedWasPicked, Wait, fixed, pipes
<1> QED BY Zenon, <1>1, <1>3, <1>4, <1>5, <1>6 DEF ChooserInv

LEMMA TerminateStep == ASSUME ChooserInv, Terminate PROVE ChooserInv'
<1>1. Lines' /\ Distinct'
    BY Zenon, ListKept DEF Terminate, pipes, childs, Exits
<1>2. UNCHANGED <<copy, deaf>>
    BY Zenon DEF Terminate, fixed, childs, Exits
<1>3. Flags'
    BY Zenon, <1>2 DEF ChooserInv, Flags, Terminate, job, childs, Exits
<1>4. TypeOK'
    BY Zenon, ChooserAssumption DEF ChooserInv, TypeOK, Terminate, fixed, job, pipes, childs, Same, Event, Exits
<1>5. ChildKnown' /\ Closed' /\ Acquired'
    BY Zenon DEF ChooserInv, ChildKnown, Closed, Acquired, ClipSettled, Terminate, fixed, job, childs, Before, During, After, Exits
<1>6. Selection'
    BY Zenon DEF ChooserInv, Selection, SelectedWasPicked, Terminate, fixed, pipes
<1> QED BY Zenon, <1>1, <1>3, <1>4, <1>5, <1>6 DEF ChooserInv

LEMMA WaitTermStep == ASSUME ChooserInv, WaitTerm PROVE ChooserInv'
<1>1. Lines' /\ Distinct'
    BY Zenon, ListKept DEF WaitTerm, pipes, childs, WaitDeadline, Reap
<1>2. UNCHANGED <<copy, deaf>>
    BY Zenon DEF WaitTerm, fixed, childs, WaitDeadline, Reap
<1>3. Flags'
    BY Zenon, <1>2 DEF ChooserInv, Flags, WaitTerm, job, childs, WaitDeadline, Reap
<1>4. TypeOK'
  <2>1. events' \in 0..MaxEvents
      BY ChooserAssumption DEF ChooserInv, TypeOK, WaitTerm, Same, Event, WaitDeadline, Reap
  <2> QED BY Zenon, <2>1 DEF ChooserInv, TypeOK, WaitTerm, fixed, job, pipes, childs, WaitDeadline, Reap
<1>5. ChildKnown' /\ Closed' /\ Acquired'
    BY Zenon DEF ChooserInv, ChildKnown, Closed, Acquired, ClipSettled, WaitTerm, fixed, job, childs, Before, During, After, WaitDeadline, Reap
<1>6. Selection'
    BY Zenon DEF ChooserInv, Selection, SelectedWasPicked, WaitTerm, fixed, pipes
<1> QED BY Zenon, <1>1, <1>3, <1>4, <1>5, <1>6 DEF ChooserInv

LEMMA KillStep == ASSUME ChooserInv, Kill PROVE ChooserInv'
<1>1. Lines' /\ Distinct'
    BY Zenon, ListKept DEF Kill, pipes, childs, Reap
<1>2. UNCHANGED <<copy, deaf>>
    BY Zenon DEF Kill, fixed, childs, Reap
<1>3. Flags'
    BY Zenon, <1>2 DEF ChooserInv, Flags, Kill, job, childs, Reap
<1>4. TypeOK'
    BY Zenon, ChooserAssumption DEF ChooserInv, TypeOK, Kill, fixed, job, pipes, childs, Same, Event, Reap
<1>5. ChildKnown' /\ Closed' /\ Acquired'
    BY Zenon DEF ChooserInv, ChildKnown, Closed, Acquired, ClipSettled, Kill, fixed, job, childs, Before, During, After, Reap
<1>6. Selection'
    BY Zenon DEF ChooserInv, Selection, SelectedWasPicked, Kill, fixed, pipes
<1> QED BY Zenon, <1>1, <1>3, <1>4, <1>5, <1>6 DEF ChooserInv

LEMMA FinishStep == ASSUME ChooserInv, Finish PROVE ChooserInv'
<1>1. Lines' /\ Distinct'
    BY Zenon, ListKept DEF Finish, pipes, childs
<1>2. UNCHANGED <<copy, deaf>>
    BY Zenon DEF Finish, fixed, childs
<1>3. Flags'
    BY Zenon, <1>2 DEF ChooserInv, Flags, Finish, job, childs
<1>4. TypeOK'
  <2>1. events' \in 0..MaxEvents
      BY ChooserAssumption DEF ChooserInv, TypeOK, Finish, Same, Event
  <2> QED BY Zenon, <2>1 DEF ChooserInv, TypeOK, Finish, fixed, job, pipes, childs
<1>5. ChildKnown' /\ Closed' /\ Acquired'
    BY Zenon DEF ChooserInv, ChildKnown, Closed, Acquired, ClipSettled, Finish, fixed, job, childs, Before, During, After
<1>6. Selection'
    BY Zenon DEF ChooserInv, Selection, SelectedWasPicked, Finish, fixed, pipes
<1> QED BY Zenon, <1>1, <1>3, <1>4, <1>5, <1>6 DEF ChooserInv

LEMMA SeqGrows == ASSUME NEW S, NEW T, S \subseteq T PROVE Seq(S) \subseteq Seq(T)
OBVIOUS

LEMMA TailTyped == ASSUME NEW S, NEW s \in Seq(S), s # <<>>
    PROVE Head(s) \in S /\ Tail(s) \in Seq(S) /\ Len(Tail(s)) = Len(s) - 1 /\ Len(s) \in Nat
OBVIOUS

\* A line handed out: its token is new.
LEMMA AppendStep ==
    ASSUME ChooserInv, NEW t \in Tokens, TokenUnique(t), i + 1 \in live,
           NEW e, e = [record |-> i + 1, token |-> t], entries' = Append(entries, e),
           line' = Append(line, e), UNCHANGED <<fixed, answer, response, listed>>
    PROVE  Lines' /\ Distinct' /\ entries' \in Seq(Entry)
<1> DEFINE n == Len(entries)
<1>1. entries \in Seq(Entry) /\ n \in Nat /\ DOMAIN entries = 1..n
    BY DEF ChooserInv, TypeOK
<1>2. e \in Entry
    BY Zenon DEF ChooserInv, Lines, Entry
<1>3. /\ entries' \in Seq(Entry) /\ DOMAIN entries' = 1..(n + 1) /\ entries'[n + 1] = e
      /\ \A k \in 1..n : entries'[k] = entries[k]
    BY <1>1, <1>2
<1>4. Handed \subseteq Handed' /\ e \in Handed'
    BY <1>1, <1>3 DEF Handed
<1>5. Lines'
  <2>1. line \in Seq(Handed') /\ answer' \in Seq(Said') /\ response' \in Seq(Said') /\ listed' \subseteq Handed'
      BY Zenon, <1>4, SeqGrows DEF ChooserInv, Lines, Said
  <2>2. line' \in Seq(Handed')
      BY <1>4, <2>1
  <2> QED BY Zenon, <2>1, <2>2 DEF ChooserInv, Lines, fixed
<1>6. Distinct'
  <2>1. \A k \in 1..n : entries'[k].token # e.token /\ entries'[k].record \in live
      BY Zenon, <1>1, <1>3 DEF ChooserInv, Distinct, TokenUnique
  <2>2. e.record \in live /\ live' = live
      BY Zenon DEF fixed
  <2>3. \A a, b \in 1..n : entries'[a].token = entries'[b].token => a = b
      BY Zenon, <1>1, <1>3 DEF ChooserInv, Distinct
  <2>4. \A k \in 1..(n + 1) : k \in 1..n \/ k = n + 1
      BY <1>1
  <2> HIDE DEF n
  <2>5. ASSUME NEW a \in 1..(n + 1), NEW b \in 1..(n + 1), entries'[a].token = entries'[b].token
        PROVE  a = b
    <3>1. CASE a \in 1..n /\ b \in 1..n
        BY Zenon, <2>3, <2>5, <3>1
    <3>2. CASE a \in 1..n /\ b = n + 1
        BY Zenon, <1>3, <2>1, <2>5, <3>2
    <3>3. CASE a = n + 1 /\ b \in 1..n
        BY Zenon, <1>3, <2>1, <2>5, <3>3
    <3> QED BY Zenon, <2>4, <3>1, <3>2, <3>3
  <2>6. \A k \in 1..(n + 1) : entries'[k].record \in live
      BY Zenon, <1>3, <2>1, <2>2, <2>4
  <2> QED BY Zenon, <1>3, <2>2, <2>5, <2>6 DEF Distinct
<1> QED BY Zenon, <1>3, <1>5, <1>6

LEMMA SendStep == ASSUME ChooserInv, Send PROVE ChooserInv'
<1>1. Lines' /\ Distinct' /\ entries' \in Seq(Entry) /\ Len(line') <= Room
  <2>1. CASE UNCHANGED <<entries, line>>
      BY Zenon, <2>1, ListKept DEF Send, childs, ChooserInv, TypeOK
  <2>2. CASE ~UNCHANGED <<entries, line>>
    <3>1. PICK t \in Tokens :
            /\ TokenUnique(t) /\ IsListed(i + 1) /\ Len(line) < Room
            /\ entries' = Append(entries, [record |-> i + 1, token |-> t])
            /\ line' = Append(line, [record |-> i + 1, token |-> t])
        BY Zenon, <2>2 DEF Send
    <3>2. Lines' /\ Distinct' /\ entries' \in Seq(Entry)
        BY Zenon, <3>1, AppendStep DEF Send, childs, IsListed
    <3>3. Len(line') <= Room
        BY <3>1, ChooserAssumption DEF ChooserInv, Lines
    <3> QED BY Zenon, <3>2, <3>3
  <2> QED BY Zenon, <2>1, <2>2
<1>3. Flags'
    BY Zenon DEF ChooserInv, Flags, Send, fixed, job, childs
<1>4. TypeOK'
    BY <1>1, ChooserAssumption DEF ChooserInv, TypeOK, Send, Entry, fixed, childs, Same, Event
<1>5. ChildKnown' /\ Closed' /\ Acquired'
    BY Zenon DEF ChooserInv, ChildKnown, Closed, Acquired, ClipSettled, Send, fixed, job, childs, Before, During, After
<1>6. Selection'
    BY Zenon DEF ChooserInv, Selection, SelectedWasPicked, Send, fixed
<1> QED BY Zenon, <1>1, <1>3, <1>4, <1>5, <1>6 DEF ChooserInv

LEMMA ReadStep == ASSUME ChooserInv, Read PROVE ChooserInv'
<1>1. UNCHANGED <<entries, line, listed, fixed>> /\ answer' \in Seq(Said) /\ response' \in Seq(Said)
  <2>1. UNCHANGED <<entries, line, listed, fixed>>
      BY Zenon DEF Read, childs
  <2>2. answer \in Seq(Said) /\ response \in Seq(Said)
      BY Zenon DEF ChooserInv, Lines
  <2>3. <<>> \in Seq(Said) /\ response \o answer \in Seq(Said)
      BY <2>2, ConcatProperties
  <2> QED BY Zenon, <2>1, <2>2, <2>3 DEF Read
<1>2. Lines' /\ Distinct'
    BY Zenon, <1>1 DEF ChooserInv, Lines, Distinct, Handed, Said, fixed
<1>3. Flags'
    BY Zenon DEF ChooserInv, Flags, Read, fixed, job, childs
<1>4. TypeOK'
    BY Zenon, <1>1, ChooserAssumption DEF ChooserInv, TypeOK, Read, fixed, childs, Same
<1>5. ChildKnown' /\ Closed' /\ Acquired'
    BY Zenon DEF ChooserInv, ChildKnown, Closed, Acquired, ClipSettled, Read, fixed, job, childs, Before, During, After
<1>6. Selection'
    BY Zenon DEF ChooserInv, Selection, SelectedWasPicked, Read, fixed
<1> QED BY Zenon, <1>2, <1>3, <1>4, <1>5, <1>6 DEF ChooserInv

\* The one entry with the token that was answered.
LEMMA FirstNamed ==
    ASSUME ChooserInv, Named # {}
    PROVE  LET k == First(Named) IN
           /\ k \in DOMAIN entries /\ Len(response) = 1 /\ response[1].record = entries[k].record
           /\ entries[k].record \in live
<1>1. PICK k \in Named : TRUE
    BY Zenon
<1>2. k \in DOMAIN entries /\ Len(response) = 1 /\ response[1].token = entries[k].token
    BY Zenon DEF Named
<1>3. entries \in Seq(Entry) /\ DOMAIN entries = 1..Len(entries) /\ Len(entries) \in Nat
    BY DEF ChooserInv, TypeOK
<1>4. \A m \in Named : m = k
    BY Zenon, <1>2 DEF Named, ChooserInv, Distinct
<1>5. First(Named) = k
    BY <1>1, <1>2, <1>3, <1>4 DEF First
<1>6. response[1] \in Said
  <2>1. response \in Seq(Said)
      BY Zenon DEF ChooserInv, Lines
  <2> QED BY <1>2, <2>1
<1>7. response[1] # Junk
  <2>1. entries[k] \in Entry
      BY <1>2, <1>3
  <2>2. entries[k].token \in Tokens
      BY Zenon, <2>1 DEF Entry
  <2>3. Junk.token = "junk"
      BY Zenon DEF Junk
  <2> QED BY Zenon, <1>2, <2>2, <2>3, ChooserAssumption
<1>8. PICK j \in DOMAIN entries : response[1] = entries[j]
    BY Zenon, <1>6, <1>7 DEF Said, Handed
<1>9. j = k
    BY Zenon, <1>2, <1>8 DEF ChooserInv, Distinct
<1> QED BY Zenon, <1>2, <1>5, <1>8, <1>9 DEF ChooserInv, Distinct

LEMMA DecideStep == ASSUME ChooserInv, Decide PROVE ChooserInv'
<1>1. Lines' /\ Distinct'
    BY Zenon, ListKept DEF Decide, pipes, childs
<1>3. Flags'
    BY Zenon DEF ChooserInv, Flags, Decide, fixed, job, childs
<1>5. ChildKnown' /\ Closed' /\ Acquired'
    BY Zenon DEF ChooserInv, ChildKnown, Closed, Acquired, ClipSettled, Decide, fixed, job, childs, Before, During, After
<1>6. selected = 0 /\ UNCHANGED <<live, response>> /\ pc' = "finish"
    BY Zenon DEF ChooserInv, Selection, Decide, fixed, pipes
<1>7. selected' = 0 \/ (selected' \in live /\ Len(response) = 1 /\ response[1].record = selected')
    BY Zenon, <1>6, FirstNamed DEF Decide
<1>8. Selection'
    BY Zenon, <1>6, <1>7 DEF Selection, SelectedWasPicked
<1>9. selected' \in 0..NRecords
  <2>1. 0 \in 0..NRecords /\ live \subseteq 0..NRecords
      BY ChooserAssumption DEF ChooserInv, Lines, Records
  <2> QED BY Zenon, <1>7, <2>1
<1>4. TypeOK'
    BY Zenon, <1>9 DEF ChooserInv, TypeOK, Decide, fixed, pipes, childs, Same
<1> QED BY Zenon, <1>1, <1>3, <1>4, <1>5, <1>8 DEF ChooserInv

LEMMA ChildStep == ASSUME ChooserInv, Child PROVE ChooserInv'
<1>1. UNCHANGED <<pc, status, selected, fixed, i, entries, clip, opened, job, response, deaf, events>>
    BY Zenon DEF Child, Same
<1>2. /\ line' \in Seq(Handed) /\ listed' \subseteq Handed /\ answer' \in Seq(Said) /\ Len(line') <= Room
  <2>0. Len(line) \in Nat /\ Room \in Nat /\ Len(line) <= Room
      BY ChooserAssumption DEF ChooserInv, TypeOK, Lines
  <2>1. CASE ChildRead
      BY <2>0, <2>1, TailTyped DEF ChildRead, ChooserInv, Lines
  <2>2. CASE ChildAnswer
      BY <2>0, <2>2 DEF ChildAnswer, ChooserInv, Lines, Said
  <2>3. CASE ChildClose \/ ChildExit
      BY Zenon, <2>0, <2>3 DEF ChildClose, ChildExit, ChooserInv, Lines
  <2> QED BY Zenon, <2>1, <2>2, <2>3 DEF Child
<1>3. Lines' /\ Distinct'
    BY <1>1, <1>2 DEF ChooserInv, Lines, Distinct, Handed, Said, fixed
<1>4. Flags'
    BY Zenon, <1>1 DEF ChooserInv, Flags, Child, ChildRead, ChildAnswer, ChildClose, ChildExit, Exits, fixed, job
<1>5. child = "alive" /\ child' \in {"alive", "zombie"}
    BY Zenon DEF Child, ChildRead, ChildAnswer, ChildClose, ChildExit, Exits
<1>6. Handed \subseteq Entry
    BY DEF ChooserInv, TypeOK, Handed
<1>7. TypeOK'
    BY Zenon, <1>1, <1>2, <1>5, <1>6 DEF ChooserInv, TypeOK
<1>8. ChildKnown' /\ Closed' /\ Acquired' /\ Selection'
    BY Zenon, <1>1, <1>5 DEF ChooserInv, ChildKnown, Closed, Acquired, ClipSettled, Selection, SelectedWasPicked,
                      fixed, job, Before, During, After
<1> QED BY Zenon, <1>3, <1>4, <1>7, <1>8 DEF ChooserInv

LEMMA ChooserStays == ASSUME ChooserInv, UNCHANGED vars PROVE ChooserInv'
<1>1. Lines' /\ Distinct'
    BY Zenon, ListKept DEF vars, pipes, childs
<1>2. Flags' /\ TypeOK' /\ ChildKnown' /\ Closed' /\ Acquired' /\ Selection'
    BY DEF ChooserInv, Flags, TypeOK, ChildKnown, Closed, Acquired, ClipSettled, Selection,
           SelectedWasPicked, vars, fixed, job, pipes, childs
<1> QED BY Zenon, <1>1, <1>2 DEF ChooserInv

LEMMA ChooserNext == ASSUME ChooserInv, Next PROVE ChooserInv'
BY Zenon, PrepareClipStep, PrepareStep, OpenStep, SendStep, SentStep, ReadStep, CancelStep, DeadlineStep, WaitStep,
   TerminateStep, WaitTermStep, KillStep, DecideStep, FinishStep, ChildStep, ChooserStays
   DEF Next, Step, Rest

LEMMA ChooserInit == ASSUME Init PROVE ChooserInv
<1>1. Handed = {} /\ DOMAIN entries = {}
    BY DEF Init, Handed
<1>2. Lines /\ Distinct
    BY <1>1 DEF Init, Lines, Distinct, Said
<1>3. Flags
    BY Zenon DEF Init, Flags
<1>4. TypeOK
  <2>1. opened \in BOOLEAN
      BY Zenon DEF Init
  <2> QED BY <2>1, ChooserAssumption DEF Init, TypeOK
<1>5. ChildKnown /\ Closed /\ Acquired /\ Selection
    BY Zenon DEF Init, ChildKnown, Closed, Acquired, ClipSettled, Selection, SelectedWasPicked, Before, During, After
<1> QED BY Zenon, <1>2, <1>3, <1>4, <1>5 DEF ChooserInv

-----------------------------------------------------------------------------
(***************************************************************************)
(* The shell.                                                              *)
(***************************************************************************)

ShellInv ==
    /\ Sh!TypeOK /\ Sh!JobSettled /\ Sh!CopyEndsSession
    /\ spc \in {"prepare", "open"} => ~vault

LEMMA ShellTypes == ASSUME ShellInv, Sh!Step PROVE Sh!TypeOK'
<1>0. MaxEvents \in Nat /\ MaxItems \in Nat
    BY Zenon, ChooserAssumption, SessionsAssumption DEF Sh!ShellConstants
<1>1. tty \in Seq(Items) /\ Len(tty) \in Nat /\ Len(tty) <= typed /\ typed \in 0..MaxItems
    BY DEF ShellInv, Sh!TypeOK
<1>2. tty' = tty \/ (tty # <<>> /\ tty' = Tail(tty))
    BY Zenon DEF Sh!Step, Sh!Prepare, Sh!Open, Sh!Poll, Sh!Fgets, Sh!Drain, Sh!Command, Sh!Leave, Sh!session
<1>3. typed' = typed
    BY Zenon DEF Sh!Step, Sh!Prepare, Sh!Open, Sh!Poll, Sh!Fgets, Sh!Drain, Sh!Command, Sh!Leave
<1>4. tty' \in Seq(Items) /\ Len(tty') <= typed'
    BY <1>0, <1>1, <1>2, <1>3, TailTyped
<1>5. sevents' \in 0..MaxEvents
    BY <1>0 DEF ShellInv, Sh!TypeOK, Sh!Step, Sh!Prepare, Sh!Open, Sh!Poll, Sh!Fgets, Sh!Drain,
                Sh!Command, Sh!Copy, Sh!Leave, Sh!Event
<1>6. spc' \in Sh!PCs /\ sstatus' \in {"OK", "AUTH", "IO", "EXTERNAL"}
    BY Zenon DEF ShellInv, Sh!TypeOK, Sh!Step, Sh!Prepare, Sh!Open, Sh!Poll, Sh!Fgets, Sh!Drain,
           Sh!Command, Sh!Copy, Sh!Leave, Sh!PCs
<1>7. ready' \in BOOLEAN /\ vault' \in BOOLEAN
    BY Zenon DEF ShellInv, Sh!TypeOK, Sh!Step, Sh!Prepare, Sh!Open, Sh!Poll, Sh!Fgets, Sh!Drain,
           Sh!Command, Sh!Copy, Sh!Leave, Sh!Cancel, Sh!session
<1>8. sjob' \in {"none", "waiting", "filled", "failed", "cancelled"}
    BY Zenon DEF ShellInv, Sh!TypeOK, Sh!Step, Sh!Prepare, Sh!Open, Sh!Poll, Sh!Fgets, Sh!Drain,
           Sh!Command, Sh!Copy, Sh!Leave, Sh!Cancel, Sh!session
<1>9. partial' \in BOOLEAN /\ feof' \in BOOLEAN
    BY Zenon DEF ShellInv, Sh!TypeOK, Sh!Step, Sh!Prepare, Sh!Open, Sh!Poll, Sh!Fgets, Sh!Drain,
           Sh!Command, Sh!Leave, Sh!input
<1>10. sline' \in Sh!Commands
    BY Zenon DEF ShellInv, Sh!TypeOK, Sh!Step, Sh!Prepare, Sh!Open, Sh!Poll, Sh!Fgets, Sh!Drain,
           Sh!Command, Sh!Leave, Sh!input
<1> QED BY Zenon, <1>1, <1>3, <1>4, <1>5, <1>6, <1>7, <1>8, <1>9, <1>10 DEF Sh!TypeOK

LEMMA ShellSteps == ASSUME ShellInv, Sh!Step PROVE ShellInv'
<1> USE DEF ShellInv, Sh!TypeOK, Sh!JobSettled, Sh!CopyEndsSession, Sh!session, Sh!Cancel
<1>1. CASE Sh!Prepare
    BY <1>1, ShellTypes DEF Sh!Prepare
<1>2. CASE Sh!Open
    BY <1>2, ShellTypes DEF Sh!Open
<1>3. CASE Sh!Poll
    BY Zenon, <1>3, ShellTypes DEF Sh!Poll
<1>4. CASE Sh!Fgets
    BY Zenon, <1>4, ShellTypes DEF Sh!Fgets
<1>5. CASE Sh!Drain
    BY Zenon, <1>5, ShellTypes DEF Sh!Drain
<1>6. CASE Sh!Command
    BY <1>6, ShellTypes DEF Sh!Command, Sh!Copy
<1>7. CASE Sh!Leave
    BY Zenon, <1>7, ShellTypes DEF Sh!Leave
<1> QED BY Zenon, <1>1, <1>2, <1>3, <1>4, <1>5, <1>6, <1>7 DEF Sh!Step

LEMMA ShellStays == ASSUME ShellInv, UNCHANGED shellVars PROVE ShellInv'
BY Zenon DEF ShellInv, Sh!TypeOK, Sh!JobSettled, Sh!CopyEndsSession, shellVars

LEMMA ShellNext == ASSUME ShellInv, Sh!Next PROVE ShellInv'
<1>1. ASSUME NEW x \in Items, Sh!Type(x) PROVE ShellInv'
  <2>1. MaxItems \in Nat
      BY Zenon, SessionsAssumption DEF Sh!ShellConstants
  <2>2. tty' \in Seq(Items) /\ Len(tty') <= typed' /\ typed' \in 0..MaxItems
      BY <1>1, <2>1 DEF Sh!Type, ShellInv, Sh!TypeOK
  <2>3. UNCHANGED <<spc, sstatus, ready, sjob, vault, partial, feof, sline, sevents>>
      BY Zenon, <1>1 DEF Sh!Type, Sh!session, Sh!input
  <2> QED BY Zenon, <2>2, <2>3 DEF ShellInv, Sh!TypeOK, Sh!JobSettled, Sh!CopyEndsSession
<1>2. CASE Sh!Wait
    BY Zenon, <1>2, ShellStays DEF Sh!Wait, Sh!vars, Sh!session, Sh!input, shellVars
<1> QED BY Zenon, <1>1, <1>2, ShellSteps DEF Sh!Next

LEMMA ShellInit == ASSUME Sh!Init PROVE ShellInv
<1>1. MaxEvents \in Nat /\ MaxItems \in Nat
    BY Zenon, ChooserAssumption, SessionsAssumption DEF Sh!ShellConstants
<1>2. tty \in Seq(Items) /\ Len(tty) <= typed /\ typed \in 0..MaxItems /\ sevents \in 0..MaxEvents
    BY <1>1 DEF Sh!Init
<1>3. ready \in BOOLEAN /\ vault \in BOOLEAN /\ partial \in BOOLEAN /\ feof \in BOOLEAN
    BY Zenon DEF Sh!Init
<1>4. Sh!TypeOK
    BY Zenon, <1>2, <1>3 DEF Sh!Init, Sh!TypeOK, Sh!PCs, Sh!Commands
<1>5. Sh!JobSettled /\ Sh!CopyEndsSession /\ ~vault
    BY Zenon DEF Sh!Init, Sh!JobSettled, Sh!CopyEndsSession
<1> QED BY Zenon, <1>4, <1>5 DEF ShellInv

-----------------------------------------------------------------------------
(***************************************************************************)
(* Either command.                                                         *)
(***************************************************************************)

SessionInv == ChooserInv /\ ShellInv

\* What holds in every state of pick --rofi and of the shell.
THEOREM SessionInvariant == SessionSpec => []SessionInv
<1>1. SessionInit => SessionInv
    BY Zenon, ChooserInit, ShellInit DEF SessionInit, SessionInv
<1>2. SessionInv /\ [SessionNext]_sessionVars => SessionInv'
  <2> SUFFICES ASSUME SessionInv, [SessionNext]_sessionVars PROVE SessionInv'
      BY Zenon
  <2>1. CASE Next /\ Picks
      BY Zenon, <2>1, ChooserNext, ShellStays DEF Picks, SessionInv
  <2>2. CASE Sh!Next /\ Shells
      BY Zenon, <2>2, ShellNext, ChooserStays DEF Shells, SessionInv
  <2>3. CASE UNCHANGED sessionVars
      BY Zenon, <2>3, ChooserStays, ShellStays DEF sessionVars, SessionInv
  <2> QED BY Zenon, <2>1, <2>2, <2>3 DEF SessionNext
<1> QED BY <1>1, <1>2, PTL DEF SessionSpec

\* What rofi_select sends and what the shell reads stays in the pipes' bounds.
THEOREM SessionsTyped == SessionSpec => []TypesOK
<1>1. SessionInv => TypesOK
    BY Zenon DEF SessionInv, ChooserInv, ShellInv, TypesOK
<1> QED BY <1>1, SessionInvariant, PTL

\* rofi_terminate_and_reap signals only a child that has not been waited for.
THEOREM OwnChildSignalled == SessionSpec => []SignalsOwnChild
<1>1. SessionInv => SignalsOwnChild
    BY Zenon DEF SessionInv, ChooserInv, ChildKnown, SignalsOwnChild, During
<1> QED BY <1>1, SessionInvariant, PTL

\* The record shown or copied is the live one whose line the user picked, for any
\* number of records and tokens and whatever the child answers.
THEOREM PickedIsSelected == SessionSpec => []SelectedWasPicked
<1>1. SessionInv => SelectedWasPicked
    BY Zenon DEF SessionInv, ChooserInv, Selection
<1> QED BY <1>1, SessionInvariant, PTL

\* However command_pick and pv_shell_run end, the child is reaped, its descriptors are
\* closed, the clipboard job is settled and the decrypted vault of either is gone.
THEOREM NothingLeft == SessionSpec => []NothingLeftBehind
<1>1. SessionInv => NothingLeftBehind
    BY Zenon DEF SessionInv, ChooserInv, ShellInv, NothingLeftBehind, NoChildLeft, ChildKnown, Closed,
           Acquired, NoVaultLeft, After
<1> QED BY <1>1, SessionInvariant, PTL
=============================================================================
