------------------------- MODULE TerminalPickProofs -------------------------
(***************************************************************************)
(* The password prompt and the picker, for any number of signals, any      *)
(* length of a secret, any list of records and any number of lines, keys,  *)
(* signals and failures.                                                   *)
(*                                                                         *)
(* First the prompt by itself: where the handlers are (IInv) and what the  *)
(* buffers hold (DInv) at each of its steps.  Then the picker: its signals *)
(* (UIInv) and its list (ListInv).  Last the command that calls one after  *)
(* the other (PickInv).                                                    *)
(***************************************************************************)
EXTENDS TerminalPick, WellFoundedInduction, TLAPS

\* The part of the type invariant the argument needs.
Types ==
    /\ pc \in PCs /\ stopped \in BOOLEAN
    /\ prev \in [Signals -> {"default", "ignore"}]
    /\ disp \in [Signals -> {"default", "ignore", "handler"}]
    /\ installed \in 0..NSig

\* The handlers are those of the first installed signals; the others are as the
\* process found them.
Guarded ==
    \A s \in Signals : disp[s] = IF s <= installed THEN "handler" ELSE prev[s]

\* From the moment before the echo goes off until it is on again all the handlers
\* are there; before the call and after it none is.
GuardedWhere ==
    /\ pc \in HiddenInput \cup {"hide", "fetch"} => installed = NSig
    /\ pc \in {"start", "returned"} => installed = 0

\* The echo is off only there, and nothing can stop the process there.
HiddenWhere == echo \/ stuck \/ (pc \in HiddenInput /\ ~stopped)

\* The flag has the first signal a handler saw until the call is over.
FlagIsFirst ==
    /\ pc \notin Ended => flag = first
    /\ pc = "start" => first = 0
    /\ hushed # {} => first # 0
    /\ pc \in {"start", "install", "rollback", "hide", "giveup"} => hushed = {}
    /\ pc = "restore" /\ hushed # {} => caught = first
    /\ pc = "returned" /\ hushed # {} => raised = first

IInv == Types /\ Guarded /\ GuardedWhere /\ HiddenWhere /\ FlagIsFirst

-----------------------------------------------------------------------------
LEMMA InitIInv == Init => IInv
<1> SUFFICES ASSUME Init PROVE IInv
    BY Zenon
<1> USE SecretAssumption
<1>1. Types
  <2>1. pc \in PCs /\ stopped \in BOOLEAN
      BY Zenon DEF Init, PCs
  <2>3. installed \in 0..NSig
    <3>1. installed = 0
        BY Zenon DEF Init
    <3> QED
        BY <3>1
  <2>2. disp \in [Signals -> {"default", "ignore", "handler"}]
    <3>1. prev \in [Signals -> {"default", "ignore"}] /\ disp = prev
        BY Zenon DEF Init
    <3> QED
        BY Zenon, <3>1
  <2> QED
      BY Zenon, <2>1, <2>2, <2>3 DEF Init, Types
<1>2. Guarded
    BY DEF Init, Guarded, Signals
<1>3. GuardedWhere /\ HiddenWhere /\ FlagIsFirst
    BY Zenon DEF Init, GuardedWhere, HiddenWhere, FlagIsFirst, HiddenInput, Ended
<1> QED
    BY Zenon, <1>1, <1>2, <1>3 DEF IInv

\* Steps that leave the signals alone and stay between Hide and Unhide.
LEMMA ReadingIInv ==
    ASSUME IInv, ~stopped, pc \in HiddenInput, pc' \in HiddenInput,
           UNCHANGED <<stopped, prev, disp, installed, flag, caught, echo, stuck, first,
                       hushed, raised>>
    PROVE  IInv'
BY Zenon DEF IInv, Types, Guarded, GuardedWhere, HiddenWhere, FlagIsFirst, PCs, Ended, HiddenInput

LEMMA CallIInv == IInv /\ Call => IInv'
<1> SUFFICES ASSUME IInv, Call PROVE IInv'
    BY Zenon
<1> USE SecretAssumption
<1>1. CASE OpenTty
    BY Zenon, <1>1 DEF OpenTty, At, memory, hist, IInv, Types, Guarded, GuardedWhere, HiddenWhere,
          FlagIsFirst, PCs, Ended, HiddenInput
<1>2. CASE InstallOne
    BY <1>2 DEF InstallOne, At, memory, hist, IInv, Types, Guarded, GuardedWhere, HiddenWhere,
          FlagIsFirst, PCs, Ended, HiddenInput, Signals
<1>3. CASE Hide
    BY <1>3 DEF Hide, At, signals, memory, hist, IInv, Types, Guarded, GuardedWhere,
          HiddenWhere, FlagIsFirst, PCs, Ended, HiddenInput
<1>4. CASE Allocate
    BY Zenon, <1>4, ReadingIInv DEF Allocate, At, signals, hist, ReadFails, HiddenInput
<1>5. CASE CheckFlag
    BY Zenon, <1>5, ReadingIInv DEF CheckFlag, At, hist, ReadFails, HiddenInput
<1>6. CASE Poll
    BY Zenon, <1>6, ReadingIInv DEF Poll, At, signals, hist, ReadFails, HiddenInput
<1>7. CASE ReadByte
    BY Zenon, <1>7, ReadingIInv DEF ReadByte, At, signals, ReadFails, HiddenInput
<1>8. CASE Compare
    BY Zenon, <1>8, ReadingIInv DEF Compare, At, signals, hist, HiddenInput
<1>9. CASE Unhide
    BY Zenon, <1>9 DEF Unhide, At, signals, memory, IInv, Types, Guarded, GuardedWhere,
          HiddenWhere, FlagIsFirst, PCs, Ended, HiddenInput
<1>10. CASE Fetch
    BY Zenon, <1>10 DEF Fetch, At, hist, IInv, Types, Guarded, GuardedWhere,
          HiddenWhere, FlagIsFirst, PCs, Ended, HiddenInput
<1>11. CASE RestoreOne
    BY <1>11 DEF RestoreOne, memory, hist, IInv, Types, Guarded, GuardedWhere,
          HiddenWhere, FlagIsFirst, PCs, Ended, HiddenInput, Signals
<1>12. CASE GiveUp
    BY Zenon, <1>12 DEF GiveUp, signals, memory, hist, IInv, Types, Guarded, GuardedWhere,
          HiddenWhere, FlagIsFirst, PCs, Ended, HiddenInput
<1>13. CASE Finish
    BY Zenon, <1>13 DEF Finish, At, Take, IInv, Types, Guarded, GuardedWhere,
          HiddenWhere, FlagIsFirst, PCs, Ended, HiddenInput
<1> QED
    BY Zenon, <1>1, <1>2, <1>3, <1>4, <1>5, <1>6, <1>7, <1>8, <1>9, <1>10, <1>11, <1>12, <1>13 DEF Call

LEMMA SignalIInv ==
    ASSUME IInv, NEW s \in Signals, Signal(s)
    PROVE  IInv'
<1> USE SecretAssumption
<1>1. CASE disp[s] = "handler"
    BY <1>1 DEF Signal, Handler, Take, memory, IInv, Types, Guarded, GuardedWhere, HiddenWhere,
          FlagIsFirst, PCs, Ended, HiddenInput, Signals
<1>2. CASE disp[s] = "default"
  <2>1. pc \notin HiddenInput
      BY <1>2 DEF IInv, Types, Guarded, GuardedWhere, Signals
  <2> QED
      BY Zenon, <1>2, <2>1 DEF Signal, Take, memory, IInv, Types, Guarded, GuardedWhere, HiddenWhere,
            FlagIsFirst, PCs, Ended, HiddenInput
<1>3. CASE disp[s] = "ignore"
    BY <1>3 DEF Signal, memory, IInv, Types, Guarded, GuardedWhere, HiddenWhere,
          FlagIsFirst, PCs, Ended
<1> QED
    BY Zenon, <1>1, <1>2, <1>3 DEF Signal

LEMMA NextIInv == IInv /\ [Next]_vars => IInv'
<1> SUFFICES ASSUME IInv, [Next]_vars PROVE IInv'
    BY Zenon
<1>1. CASE Call
    BY Zenon, <1>1, CallIInv
<1>2. CASE Type
    BY Zenon, <1>2 DEF Type, signals, memory, IInv, Types, Guarded, GuardedWhere, HiddenWhere,
          FlagIsFirst
<1>3. CASE \E s \in Signals : Signal(s)
    BY Zenon, <1>3, SignalIInv
<1>4. CASE Continue
    BY Zenon, <1>4 DEF Continue, signals, hist, IInv, Types, Guarded, GuardedWhere, HiddenWhere,
          FlagIsFirst
<1>5. CASE UNCHANGED vars
    BY Zenon, <1>5 DEF vars, signals, hist, IInv, Types, Guarded, GuardedWhere, HiddenWhere,
          FlagIsFirst
<1> QED
    BY Zenon, <1>1, <1>2, <1>3, <1>4, <1>5 DEF Next, Rest

LEMMA Invariance == Spec => []IInv
BY InitIInv, NextIInv, PTL DEF Spec

\* The terminal echoes whenever pv_secure_read_secret has returned or a signal
\* has ended or stopped the process, for any number of signals at any time,
\* unless tcsetattr refused to turn the echo on.
THEOREM EchoSafeHolds == Spec => []EchoSafe
<1>1. IInv => EchoSafe
    BY Zenon DEF IInv, HiddenWhere, EchoSafe, Ended, HiddenInput
<1> QED
    BY <1>1, Invariance, PTL

LEMMA IInvReraises == IInv => FirstSignalReraised
<1> SUFFICES ASSUME IInv, pc = "returned"
             PROVE  disp = prev /\ (hushed # {} => raised = first /\ raised # 0)
    BY Zenon DEF FirstSignalReraised
<1>1. \A s \in Signals : disp[s] = prev[s]
    BY SecretAssumption DEF IInv, Guarded, GuardedWhere, Signals
<1>2. disp = prev
    BY <1>1 DEF IInv, Types
<1> QED
    BY Zenon, <1>2 DEF IInv, FlagIsFirst

\* When pv_secure_read_secret returns the dispositions are those it found, and
\* if a signal came during the hidden input, the first one was raised again.
THEOREM FirstSignalReraisedHolds == Spec => []FirstSignalReraised
BY IInvReraises, Invariance, PTL

-----------------------------------------------------------------------------
(***************************************************************************)
(* What the caller gets.                                                   *)
(***************************************************************************)

MaybeLine == Lines \cup {NoLine}

DataTypes ==
    /\ confirm \in BOOLEAN /\ second \in BOOLEAN /\ overflow \in BOOLEAN
    /\ buf \in Buffers /\ buf2 \in Buffers
    /\ input \in MaybeLine /\ line \in MaybeLine
    /\ lines \in MaybeLine \X MaybeLine

\* A buffer has a line that was read, whole.
Holds(b, l) == b.held /\ b.len \in 1..Max /\ b.len = l.len /\ b.text = l.text

\* The buffer and what the terminal still has make up the line that was typed,
\* until the buffer is full.
Reading ==
    /\ pc \in {"alloc", "check", "poll", "read"} /\ second => confirm /\ Holds(buf, lines[1])
    /\ pc \in {"alloc", "compare"} => input \in {NoLine, line}
    /\ pc \in {"check", "poll", "read"} =>
          /\ Buf.held
          /\ input = NoLine => Buf.len = 0 /\ ~overflow
          /\ input # NoLine =>
                /\ input.text = line.text
                /\ ~overflow => Buf.len + input.len = line.len
                /\ Buf.len > 0 => Buf.text = line.text
    /\ pc = "read" => input # NoLine

\* The lines were read, agree if there are two, and the first is in the buffer.
Read == Holds(buf, lines[1]) /\ (confirm => lines[2] = lines[1])

Result ==
    /\ pc \in {"start", "install", "hide", "rollback", "giveup"} =>
          buf = NoBuffer /\ buf2 = NoBuffer /\ ~second
    /\ pc \in {"start", "install", "hide", "alloc", "check", "poll", "read", "compare"} =>
          status = "none"
    /\ pc \in {"alloc", "check", "poll", "read", "compare"} /\ ~second => buf2 = NoBuffer
    /\ pc \in {"rollback", "giveup"} => status = "IO"
    /\ pc = "compare" => /\ Holds(buf, lines[1])
                         /\ second => confirm /\ Holds(buf2, lines[2])
    /\ pc \in {"unhide", "fetch", "restore"} /\ status = "OK" => Read
    /\ pc = "restore" => buf2 = NoBuffer
    /\ pc = "returned" =>
          /\ buf2 = NoBuffer
          /\ IF status = "OK" THEN Read /\ hushed = {} ELSE buf = NoBuffer

DInv == DataTypes /\ Reading /\ Result

-----------------------------------------------------------------------------
LEMMA EmptyBuffer == NoBuffer \in Buffers /\ ~NoBuffer.held /\ NoBuffer.len = 0
<1>1. NoBuffer \in Buffers
    BY SecretAssumption DEF NoBuffer, Buffers, NoText
<1>2. ~NoBuffer.held /\ NoBuffer.len = 0
    BY Zenon DEF NoBuffer
<1> QED BY Zenon, <1>1, <1>2

\* What allocate_secret gives.
Fresh == [NoBuffer EXCEPT !.held = TRUE]

LEMMA FreshBuffer == Fresh \in Buffers /\ Fresh.held /\ Fresh.len = 0
<1>1. NoBuffer \in [text : Texts \cup {NoText}, len : 0..Max, held : BOOLEAN]
    BY Zenon, EmptyBuffer DEF Buffers
<1>2. Fresh \in [text : Texts \cup {NoText}, len : 0..Max, held : BOOLEAN]
    BY Zenon, <1>1 DEF Fresh
<1>3. Fresh.held /\ Fresh.len = 0
    BY Zenon DEF Fresh, NoBuffer
<1> QED BY Zenon, <1>2, <1>3 DEF Buffers

LEMMA LineLength ==
    ASSUME NEW l \in MaybeLine
    PROVE  l.len \in Nat /\ (l # NoLine => l \in Lines)
BY SecretAssumption DEF MaybeLine, Lines, NoLine

LEMMA InitDInv == Init => DInv
<1> SUFFICES ASSUME Init PROVE DInv
    BY Zenon
<1> USE SecretAssumption
<1>1. DataTypes
  <2>1. buf \in Buffers /\ buf2 \in Buffers
      BY Zenon, EmptyBuffer DEF Init
  <2>2. input \in MaybeLine /\ line \in MaybeLine /\ lines \in MaybeLine \X MaybeLine
      BY Zenon DEF Init, MaybeLine
  <2>3. confirm \in BOOLEAN /\ second \in BOOLEAN /\ overflow \in BOOLEAN
      BY Zenon DEF Init
  <2> QED BY Zenon, <2>1, <2>2, <2>3 DEF DataTypes
<1>2. Reading /\ Result
    BY Zenon DEF Init, Reading, Result
<1> QED
    BY Zenon, <1>1, <1>2 DEF DInv

LEMMA EnterDInv ==
    ASSUME DInv, OpenTty \/ InstallOne \/ Hide
    PROVE  DInv'
<1> USE DEF DInv
<1>1. CASE OpenTty
  <2>1. DataTypes' /\ Reading'
      BY Zenon, <1>1 DEF OpenTty, At, memory, hist, DataTypes, Reading
  <2>2. Result'
      BY Zenon, <1>1 DEF OpenTty, At, memory, hist, Result
  <2> QED BY Zenon, <2>1, <2>2
<1>2. CASE InstallOne
  <2>1. DataTypes' /\ Reading'
      BY Zenon, <1>2 DEF InstallOne, At, memory, hist, DataTypes, Reading
  <2>2. Result'
      BY Zenon, <1>2 DEF InstallOne, At, memory, hist, Result
  <2> QED BY Zenon, <2>1, <2>2
<1>3. CASE Hide
  <2>1. DataTypes' /\ Reading'
      BY Zenon, <1>3 DEF Hide, At, memory, hist, DataTypes, Reading, MaybeLine, Result
  <2>2. Result'
      BY Zenon, <1>3 DEF Hide, At, memory, hist, Result
  <2> QED BY Zenon, <2>1, <2>2
<1> QED BY Zenon, <1>1, <1>2, <1>3

\* read_one_secret ends with an error.
LEMMA ReadFailsDInv ==
    ASSUME DInv, NEW s \in {"IO", "LIMIT", "USAGE", "SECURE_MEMORY"}, ReadFails(s),
           input' \in MaybeLine, lines' \in MaybeLine \X MaybeLine, overflow' \in BOOLEAN,
           UNCHANGED <<confirm, second, line>>
    PROVE  DInv'
<1>1. DataTypes'
    BY Zenon, EmptyBuffer DEF DInv, DataTypes, ReadFails, SetBuf
<1>2. Reading' /\ Result'
    BY Zenon DEF DInv, Reading, Result, ReadFails
<1> QED BY Zenon, <1>1, <1>2 DEF DInv

LEMMA AllocateDInv == DInv /\ Allocate => DInv'
<1> SUFFICES ASSUME DInv, Allocate PROVE DInv'
    BY Zenon
<1> USE SecretAssumption
<1>2. CASE pc' = "check" /\ SetBuf(Fresh) /\ UNCHANGED <<status, bounds>>
  <2>0. overflow' = FALSE /\ UNCHANGED <<confirm, input, second, line, lines>> /\ pc = "alloc"
      BY Zenon DEF Allocate, At, hist
  <2>1. DataTypes'
      BY Zenon, FreshBuffer, <1>2, <2>0 DEF DInv, DataTypes, SetBuf
  <2>2. Reading'
      BY FreshBuffer, LineLength, <1>2, <2>0
         DEF DInv, DataTypes, Reading, SetBuf, Buf, Holds
  <2>3. Result'
      BY Zenon, <1>2, <2>0 DEF DInv, Result, SetBuf
  <2> QED BY Zenon, <2>1, <2>2, <2>3 DEF DInv
<1>3. CASE ReadFails("SECURE_MEMORY") \/ ReadFails("IO")
  <2>1. input' \in MaybeLine /\ lines' \in MaybeLine \X MaybeLine /\ overflow' \in BOOLEAN
        /\ UNCHANGED <<confirm, second, line>>
      BY Zenon DEF Allocate, hist, DInv, DataTypes
  <2> QED BY Zenon, <1>3, <2>1, ReadFailsDInv
<1> QED BY Zenon, <1>2, <1>3 DEF Allocate, Fresh

LEMMA CheckFlagDInv == DInv /\ CheckFlag => DInv'
<1> SUFFICES ASSUME DInv, CheckFlag PROVE DInv'
    BY Zenon
<1>1. UNCHANGED <<confirm, input, second, line, lines, overflow>> /\ pc = "check"
    BY Zenon DEF CheckFlag, At, hist
<1>2. CASE ReadFails("IO")
    BY Zenon, <1>1, <1>2, ReadFailsDInv DEF DInv, DataTypes
<1>3. CASE pc' = "poll" /\ UNCHANGED <<status, buf, buf2>>
    BY Zenon, <1>1, <1>3 DEF DInv, DataTypes, Reading, Result, Buf, Holds
<1> QED BY Zenon, <1>2, <1>3 DEF CheckFlag

LEMMA PollDInv == DInv /\ Poll => DInv'
<1> SUFFICES ASSUME DInv, Poll PROVE DInv'
    BY Zenon
<1>1. UNCHANGED <<confirm, input, second, line, lines, overflow>> /\ pc = "poll"
    BY Zenon DEF Poll, At, hist
<1>2. CASE ReadFails("IO")
    BY Zenon, <1>1, <1>2, ReadFailsDInv DEF DInv, DataTypes
<1>3. CASE input # NoLine /\ pc' = "read" /\ UNCHANGED <<status, buf, buf2>>
    BY Zenon, <1>1, <1>3 DEF DInv, DataTypes, Reading, Result, Buf, Holds
<1>4. CASE pc' = "check" /\ UNCHANGED <<status, buf, buf2>>
    BY Zenon, <1>1, <1>4 DEF DInv, DataTypes, Reading, Result, Buf, Holds
<1> QED BY Zenon, <1>2, <1>3, <1>4 DEF Poll

\* A byte goes into the buffer, or is dropped when the buffer is full.
LEMMA ByteDInv ==
    ASSUME DInv, At("read"), input.len > 0, input' = [input EXCEPT !.len = @ - 1], pc' = "check",
           \/ /\ Fits(Buf.len)
              /\ SetBuf([Buf EXCEPT !.text = input.text, !.len = @ + 1])
              /\ UNCHANGED overflow
           \/ ~Fits(Buf.len) /\ overflow' = TRUE /\ UNCHANGED <<buf, buf2>>,
           UNCHANGED <<status, confirm, second, line, lines>>
    PROVE  DInv'
<1> USE SecretAssumption
<1>1. pc = "read" /\ input # NoLine /\ Buf \in Buffers /\ input \in Lines /\ line.len \in Nat
    BY Zenon, LineLength DEF At, DInv, Reading, DataTypes, Buf
<1>2. /\ input' \in Lines /\ input'.text = input.text /\ input'.len = input.len - 1
      /\ input.len \in Nat /\ input' # NoLine
    BY <1>1 DEF Lines, NoLine, Texts, NoText
<1>3. input' \in MaybeLine
    BY Zenon, <1>2 DEF MaybeLine
<1>4. CASE Fits(Buf.len) /\ SetBuf([Buf EXCEPT !.text = input.text, !.len = @ + 1])
           /\ UNCHANGED overflow
  <2> DEFINE more == [Buf EXCEPT !.text = input.text, !.len = @ + 1]
  <2>1. /\ more \in Buffers /\ more.held = Buf.held /\ more.len = Buf.len + 1
        /\ more.text = input.text /\ Buf.len \in Nat
    <3>1. Buf \in [text : Texts \cup {NoText}, len : 0..Max, held : BOOLEAN]
        BY Zenon, <1>1 DEF Buffers
    <3>2. Buf.len \in Nat /\ Buf.len + 1 \in 0..Max
        BY <3>1, <1>4 DEF Fits
    <3>3. input.text \in Texts \cup {NoText}
        BY Zenon, <1>1 DEF Lines
    <3>4. more \in [text : Texts \cup {NoText}, len : 0..Max, held : BOOLEAN]
        BY ONLY Zenon, <3>1, <3>2, <3>3
    <3>5. more.held = Buf.held /\ more.len = Buf.len + 1 /\ more.text = input.text
        BY ONLY Zenon, <3>1
    <3> QED BY Zenon, <3>2, <3>4, <3>5 DEF Buffers
  <2>2. SetBuf(more)
      BY Zenon, <1>4
  <2> HIDE DEF more
  <2>3. DataTypes'
      BY Zenon, <1>3, <1>4, <2>1, <2>2 DEF DInv, DataTypes, SetBuf
  <2>4. Buf' = more
      BY Zenon, <2>2 DEF SetBuf, Buf
  <2>5. Reading'
    <3>1. (second => confirm /\ Holds(buf, lines[1]))'
        BY Zenon, <1>1, <2>2 DEF DInv, Reading, SetBuf, Holds
    <3>2. Buf.held' /\ input.text' = line.text' /\ (~overflow => Buf.len + input.len = line.len)'
          /\ Buf.text' = line.text'
        BY <1>1, <1>2, <1>4, <2>1, <2>4 DEF DInv, Reading
    <3> QED BY Zenon, <1>2, <3>1, <3>2 DEF Reading
  <2>6. Result'
      BY Zenon, <1>1, <2>2 DEF DInv, Result, SetBuf
  <2> QED BY Zenon, <2>3, <2>5, <2>6 DEF DInv
<1>5. CASE overflow' = TRUE /\ UNCHANGED <<buf, buf2>>
  <2>1. DataTypes'
      BY Zenon, <1>3, <1>5 DEF DInv, DataTypes
  <2>2. Reading'
      BY Zenon, <1>1, <1>2, <1>5 DEF DInv, Reading, Holds, Buf
  <2>3. Result'
      BY Zenon, <1>1, <1>5 DEF DInv, Result
  <2> QED BY Zenon, <2>1, <2>2, <2>3 DEF DInv
<1> QED BY Zenon, <1>4, <1>5

\* The end of the line: what is in the buffer is the line.
LEMMA LineEndDInv ==
    ASSUME DInv, At("read"), input.len = 0, input' = NoLine,
           lines' = IF second THEN <<lines[1], line>> ELSE <<line, NoLine>>,
           ~overflow, Buf.len > 0, pc' = "compare",
           UNCHANGED <<status, buf, buf2, overflow, confirm, second, line>>
    PROVE  DInv'
<1> USE SecretAssumption
<1>1. /\ pc = "read" /\ input # NoLine /\ Buf \in Buffers /\ line.len \in Nat
      /\ line \in MaybeLine /\ lines \in MaybeLine \X MaybeLine
    BY Zenon, LineLength DEF At, DInv, Reading, DataTypes, Buf
<1>2. Buf.len \in 1..Max
    BY <1>1 DEF Buffers
<1>3. Holds(Buf, line)
    BY <1>1, <1>2 DEF DInv, Reading, Holds
<1>4. lines' \in MaybeLine \X MaybeLine /\ NoLine \in MaybeLine
    BY Zenon, <1>1 DEF MaybeLine
<1>5. DataTypes'
    BY Zenon, <1>4 DEF DInv, DataTypes
<1>6. Reading'
    BY Zenon DEF Reading
<1>7. Result'
  <2>1. CASE second
    <3>1. lines'[1] = lines[1] /\ lines'[2] = line
        BY Zenon, <2>1
    <3>2. Holds(buf, lines[1]) /\ confirm /\ Holds(buf2, line)
        BY Zenon, <1>1, <1>3, <2>1 DEF DInv, Reading, Buf
    <3> QED BY Zenon, <1>1, <2>1, <3>1, <3>2 DEF DInv, Result, Holds
  <2>2. CASE ~second
    <3>1. lines'[1] = line
        BY Zenon, <2>2
    <3> QED BY Zenon, <1>1, <1>3, <2>2, <3>1 DEF DInv, Result, Holds, Buf
  <2> QED BY Zenon, <2>1, <2>2
<1> QED BY Zenon, <1>5, <1>6, <1>7 DEF DInv

LEMMA ReadByteDInv == DInv /\ ReadByte => DInv'
<1> SUFFICES ASSUME DInv, ReadByte PROVE DInv'
    BY Zenon
<1>1. At("read") /\ UNCHANGED <<confirm, second, line>> /\ input \in MaybeLine
      /\ line \in MaybeLine /\ NoLine \in MaybeLine
      /\ lines \in MaybeLine \X MaybeLine /\ overflow \in BOOLEAN
    BY Zenon DEF ReadByte, DInv, DataTypes, MaybeLine
<1>2. CASE
      /\ input.len > 0 /\ input' = [input EXCEPT !.len = @ - 1] /\ pc' = "check"
      /\ \/ /\ Fits(Buf.len)
            /\ SetBuf([Buf EXCEPT !.text = input.text, !.len = @ + 1])
            /\ UNCHANGED overflow
         \/ ~Fits(Buf.len) /\ overflow' = TRUE /\ UNCHANGED <<buf, buf2>>
      /\ UNCHANGED <<status, lines>>
  <2>1. UNCHANGED <<status, confirm, second, line, lines>>
      BY Zenon, <1>1, <1>2
  <2> QED BY ONLY Zenon, <1>1, <1>2, <2>1, DInv, ByteDInv
<1>3. ASSUME NEW s \in {"IO", "LIMIT", "USAGE"}, ReadFails(s), UNCHANGED overflow,
             UNCHANGED <<input, lines>>
             \/ (input' = NoLine
                 /\ lines' = IF second THEN <<lines[1], line>> ELSE <<line, NoLine>>)
      PROVE  DInv'
  <2>1. input' \in MaybeLine /\ lines' \in MaybeLine \X MaybeLine
      BY <1>1, <1>3
  <2> QED BY Zenon, <1>1, <1>3, <2>1, ReadFailsDInv
<1>4. CASE
      /\ input.len = 0 /\ input' = NoLine
      /\ lines' = IF second THEN <<lines[1], line>> ELSE <<line, NoLine>>
      /\ ~overflow /\ Buf.len > 0 /\ pc' = "compare"
      /\ UNCHANGED <<status, buf, buf2, overflow>>
  <2>1. UNCHANGED <<status, buf, buf2, overflow, confirm, second, line>>
      BY Zenon, <1>1, <1>4
  <2> QED BY ONLY Zenon, <1>1, <1>4, <2>1, DInv, LineEndDInv
<1> QED BY Zenon, <1>1, <1>2, <1>3, <1>4 DEF ReadByte

\* Two buffers that hold their lines and agree hold the same line.
LEMMA SameLine ==
    ASSUME DataTypes, Holds(buf, lines[1]), Holds(buf2, lines[2]), Agree
    PROVE  lines[2] = lines[1]
<1>1. lines[1] \in MaybeLine /\ lines[2] \in MaybeLine
    BY Zenon DEF DataTypes
<1>2. lines[1].len > 0 /\ lines[2].len > 0
    BY SecretAssumption DEF Holds
<1>3. lines[1] \in Lines /\ lines[2] \in Lines
    BY <1>1, <1>2, LineLength DEF NoLine
<1>4. lines[1].len = lines[2].len /\ lines[1].text = lines[2].text
    BY Zenon DEF Holds, Agree
<1> QED BY <1>3, <1>4 DEF Lines

LEMMA CompareDInv == DInv /\ Compare => DInv'
<1> SUFFICES ASSUME DInv, Compare PROVE DInv'
    BY Zenon
<1>1. pc = "compare" /\ UNCHANGED <<confirm, input, buf, buf2, overflow, line, lines>>
    BY Zenon DEF Compare, At, hist
<1>2. CASE confirm /\ ~second /\ second' = TRUE /\ pc' = "alloc" /\ UNCHANGED status
  <2>1. DataTypes'
      BY Zenon, <1>1, <1>2 DEF DInv, DataTypes
  <2>2. Reading'
      BY Zenon, <1>1, <1>2 DEF DInv, Reading, Result, Holds
  <2>3. Result'
      BY Zenon, <1>1, <1>2 DEF DInv, Result
  <2> QED BY Zenon, <2>1, <2>2, <2>3 DEF DInv
<1>3. CASE /\ confirm => second
           /\ pc' = "unhide"
           /\ status' = (IF second /\ ~Agree THEN "AUTH" ELSE "OK")
           /\ UNCHANGED second
  <2>1. DataTypes' /\ Reading'
      BY Zenon, <1>1, <1>3 DEF DInv, DataTypes, Reading
  <2>2. status' = "OK" => Read
      BY Zenon, <1>1, <1>3, SameLine DEF DInv, Result, Read
  <2>3. Result'
      BY Zenon, <1>1, <1>3, <2>2 DEF Result, Read, Holds
  <2> QED BY Zenon, <2>1, <2>3 DEF DInv
<1> QED BY Zenon, <1>2, <1>3 DEF Compare

\* A step that changes neither the place nor the data.
LEMMA DataKept ==
    ASSUME DInv,
           UNCHANGED <<pc, status, confirm, input, second, buf, buf2, overflow, line, lines, hushed>>
    PROVE  DInv'
<1>1. DataTypes' /\ Reading'
    BY Zenon DEF DInv, DataTypes, Reading, Holds, Buf
<1>2. Result'
    BY Zenon DEF DInv, Result, Read, Holds
<1> QED BY Zenon, <1>1, <1>2 DEF DInv

\* Steps that leave the lines alone, outside of read_one_secret.
LEMMA LeavingDInv ==
    ASSUME DInv, IInv, Unhide \/ Fetch \/ RestoreOne \/ GiveUp \/ Finish
    PROVE  DInv'
<1>1. CASE Unhide
  <2>1. DataTypes' /\ Reading'
      BY Zenon, <1>1 DEF Unhide, At, memory, DInv, DataTypes, Reading, MaybeLine
  <2>2. Result'
      BY Zenon, <1>1 DEF Unhide, At, memory, DInv, Result, Read, Holds
  <2> QED BY Zenon, <2>1, <2>2 DEF DInv
<1>2. CASE Fetch
  <2>1. DataTypes' /\ Reading'
      BY Zenon, <1>2, EmptyBuffer DEF Fetch, At, hist, DInv, DataTypes, Reading
  <2>2. Result'
      BY Zenon, <1>2 DEF Fetch, At, hist, DInv, Result, Read, Holds
  <2> QED BY Zenon, <2>1, <2>2 DEF DInv
<1>3. CASE RestoreOne
  <2>1. UNCHANGED <<pc, status, confirm, input, second, buf, buf2, overflow, line, lines, hushed>>
      BY Zenon, <1>3 DEF RestoreOne, memory, hist
  <2> QED BY Zenon, <2>1, DataKept
<1>4. CASE GiveUp
  <2>1. DataTypes' /\ Reading'
      BY Zenon, <1>4 DEF GiveUp, memory, hist, DInv, DataTypes, Reading
  <2>2. Result'
      BY Zenon, <1>4 DEF GiveUp, memory, hist, DInv, Result
  <2> QED BY Zenon, <2>1, <2>2 DEF DInv
<1>5. CASE Finish
  <2>1. pc = "restore" /\ pc' \in {"returned", "dead"}
      BY Zenon, <1>5 DEF Finish, At, Take
  <2>2. DataTypes' /\ Reading'
      BY Zenon, <1>5, <2>1, EmptyBuffer DEF Finish, DInv, DataTypes, Reading
  <2>3. caught = 0 => hushed = {}
      BY Zenon, <2>1 DEF IInv, FlagIsFirst
  <2>4. Result'
      BY Zenon, <1>5, <2>1, <2>3 DEF Finish, DInv, Result, Read, Holds
  <2> QED BY Zenon, <2>2, <2>4 DEF DInv
<1> QED BY Zenon, <1>1, <1>2, <1>3, <1>4, <1>5

LEMMA TypeDInv == DInv /\ Type => DInv'
<1> SUFFICES ASSUME DInv, Type PROVE DInv'
    BY Zenon
<1>1. input = NoLine /\ input' \in Lines /\ line' = input' /\ pc \notin Ended
      /\ UNCHANGED <<pc, status, confirm, second, buf, buf2, overflow, lines>>
    BY Zenon DEF Type, memory
<1>2. DataTypes'
    BY Zenon, <1>1 DEF DInv, DataTypes, MaybeLine
<1>3. Reading'
  <2>1. line'.len \in Nat /\ line' # NoLine
      BY SMTT(30), <1>1, SecretAssumption DEF Lines, NoLine, Texts, NoText
  <2> QED BY <1>1, <2>1 DEF DInv, Reading, Holds, Buf
<1>4. Result'
    BY Zenon, <1>1 DEF DInv, Result, Read, Holds, Ended
<1> QED BY Zenon, <1>2, <1>3, <1>4 DEF DInv

LEMMA SignalDInv ==
    ASSUME DInv, NEW s \in Signals, Signal(s)
    PROVE  DInv'
<1>1. pc # "returned" /\ pc' \in {pc, "dead"}
      /\ UNCHANGED <<status, confirm, input, second, buf, buf2, overflow, line, lines>>
    BY Zenon DEF Signal, Take, memory, Ended
<1>2. DataTypes' /\ Reading'
    BY Zenon, <1>1 DEF DInv, DataTypes, Reading, Holds, Buf
<1>3. Result'
    BY Zenon, <1>1 DEF DInv, Result, Read, Holds
<1> QED BY Zenon, <1>2, <1>3 DEF DInv

LEMMA NextDInv == IInv /\ DInv /\ [Next]_vars => DInv'
<1> SUFFICES ASSUME IInv, DInv, [Next]_vars PROVE DInv'
    BY Zenon
<1>1. CASE Call
    BY Zenon, <1>1, EnterDInv, AllocateDInv, CheckFlagDInv, PollDInv, ReadByteDInv, CompareDInv,
       LeavingDInv DEF Call
<1>2. CASE Type
    BY Zenon, <1>2, TypeDInv
<1>3. CASE \E s \in Signals : Signal(s)
    BY Zenon, <1>3, SignalDInv
<1>4. CASE Continue \/ UNCHANGED vars
  <2>1. UNCHANGED <<pc, status, confirm, input, second, buf, buf2, overflow, line, lines, hushed>>
      BY Zenon, <1>4 DEF Continue, memory, hist, vars
  <2> QED BY Zenon, <2>1, DataKept
<1> QED
    BY Zenon, <1>1, <1>2, <1>3, <1>4 DEF Next, Rest

LEMMA DInvTyped == DInv => OkMeansTyped
BY Zenon, EmptyBuffer DEF DInv, Result, Read, Holds, OkMeansTyped

\* pv_secure_read_secret gives a secret exactly with PV_OK, and then it is the
\* line the user typed, of any length up to the maximum, and typed twice if that
\* was asked for; otherwise nothing of it is left in memory.
THEOREM OkMeansTypedHolds == Spec => []OkMeansTyped
<1>1. Init => IInv /\ DInv
    BY Zenon, InitIInv, InitDInv
<1>2. IInv /\ DInv /\ [Next]_vars => (IInv /\ DInv)'
    BY Zenon, NextIInv, NextDInv
<1> QED
    BY <1>1, <1>2, DInvTyped, PTL DEF Spec

-----------------------------------------------------------------------------
(***************************************************************************)
(* The picker, after the prompt.                                           *)
(***************************************************************************)

\* The prompt that succeeded has left no flag for the picker's caller.
FlagGone == pc = "returned" /\ status = "OK" => flag = 0

\* One of the two calls is going on; the prompt is done with when the picker runs,
\* and the picker was called under the dispositions the prompt found.
InTurn ==
    /\ picking \in BOOLEAN /\ uprev = prev
    /\ picking => pc = "start" /\ ~stopped
    /\ ~picking => upc = "none" /\ ~ustopped

UIPCs == {"none", "start", "newterm", "install", "check", "draw", "getch", "key", "block",
          "fetch", "endwin", "restore", "finish", "returned", "dead"}
Looping == {"check", "draw", "getch", "key"}

UITypes ==
    /\ upc \in UIPCs /\ ustopped \in BOOLEAN /\ prepared \in BOOLEAN /\ curses \in BOOLEAN
    /\ ustuck \in BOOLEAN
    /\ udisp \in [Signals -> {"default", "ignore", "curses", "handler"}]
    /\ mask \subseteq Signals /\ prevMask \subseteq Signals /\ handled \subseteq Signals

\* No signal ends or stops the process.
Sheltered == Signals \subseteq mask \/ \A s \in Signals : udisp[s] \in {"handler", "ignore"}

\* The terminal is curses' only while that is so.
CursesWhere ==
    curses => /\ prepared /\ ~ustopped /\ Sheltered
              /\ upc \in Looping \cup {"install", "block", "fetch", "endwin"}

\* What the guard has done to the signals, at each place of the call.
GuardWhere ==
    /\ upc \in {"newterm", "install", "fetch"} => prepared /\ Signals \subseteq mask
    /\ upc \in Looping =>
          prepared /\ \A s \in Signals : udisp[s] \in {"handler", "ignore"}
    /\ upc \in {"endwin", "restore"} /\ prepared => Signals \subseteq mask
    /\ upc = "block" /\ prepared => Sheltered
    /\ upc \in {"none", "start"} => ~prepared
    /\ ~prepared \/ (upc \in {"finish", "returned"} /\ ~ustuck) => udisp = uprev /\ mask = prevMask
    /\ ~prepared => handled = {} /\ uflag = 0 /\ ucaught = 0
    /\ ustuck => upc \in {"finish", "returned", "dead"} /\ ustatus = "IO"

\* n is a signal the handler has seen, or 0 if there is none.
Seen(n) == IF handled = {} THEN n = 0 ELSE n \in handled

\* The flag has a signal the handler saw; caught_signal takes it when no other can
\* come, and it is what is raised (a handler that could not be removed goes on).
SeenWhere ==
    /\ upc \notin {"finish", "returned", "dead"} => Seen(uflag)
    /\ upc \in {"endwin", "restore", "finish"} /\ ~ustuck => Seen(ucaught)
    /\ upc = "returned" /\ ~ustuck => Seen(uraised) /\ (handled # {} => ustatus = "IO")

UInv == FlagGone /\ InTurn /\ UITypes /\ CursesWhere /\ GuardWhere /\ SeenWhere

\* The list on the screen is that of the query, and the cursor is on it; the record
\* taken from it is still what it was.
Shown ==
    /\ matches \in Seq(UI!Records)
    /\ \A k \in 1..Len(matches) : UI!Listed(matches[k])

ListInv ==
    /\ current \in Nat \ {0}
    /\ upc \in {"getch", "key"} => Shown /\ (matches # <<>> => current <= Len(matches))
    /\ ustatus = "OK" =>
          /\ upc \in {"block", "fetch", "endwin", "restore", "finish", "returned", "dead"}
          /\ selected \in UI!Records /\ UI!Listed(selected)

-----------------------------------------------------------------------------
LEMMA SameSignals == UI!Signals = Signals
BY Zenon DEF UI!Signals, Signals

\* What the picker's steps preserve by themselves.
UIInv ==
    /\ uprev \in [Signals -> {"default", "ignore"}]
    /\ UITypes /\ CursesWhere /\ GuardWhere /\ SeenWhere

LEMMA PrepareUI == UIInv /\ UI!Prepare => UIInv'
<1> SUFFICES ASSUME UIInv, UI!Prepare PROVE UIInv'
    BY Zenon
<1> USE SecretAssumption, SameSignals DEF UIInv, UI!Prepare, UI!At, UI!Cleanup, UI!Event, UI!bounds, UI!list, UI!hist, Looping
<1>1. UITypes'
    BY Zenon DEF UITypes, UIPCs
<1>2. CursesWhere'
    BY Zenon DEF CursesWhere, Sheltered, UITypes, GuardWhere
<1>3. GuardWhere'
    BY DEF CursesWhere, Sheltered, UITypes, GuardWhere
<1>4. SeenWhere'
    BY Zenon DEF UITypes, GuardWhere, SeenWhere, Seen
<1> QED BY Zenon, <1>1, <1>2, <1>3, <1>4

LEMMA NewTermUI == UIInv /\ UI!NewTerm => UIInv'
<1> SUFFICES ASSUME UIInv, UI!NewTerm PROVE UIInv'
    BY Zenon
<1> USE SecretAssumption, SameSignals DEF UIInv, UI!NewTerm, UI!At, UI!Cleanup, UI!Event, UI!bounds, UI!list, UI!hist, Looping
<1>1. UITypes'
    BY Zenon DEF UITypes, UIPCs
<1>2. CursesWhere'
    BY Zenon DEF CursesWhere, Sheltered, UITypes, GuardWhere
<1>3. GuardWhere'
    BY Zenon DEF CursesWhere, Sheltered, UITypes, GuardWhere
<1>4. SeenWhere'
    BY Zenon DEF UITypes, GuardWhere, SeenWhere, Seen
<1> QED BY Zenon, <1>1, <1>2, <1>3, <1>4

LEMMA InstallUI == UIInv /\ UI!Install => UIInv'
<1> SUFFICES ASSUME UIInv, UI!Install PROVE UIInv'
    BY Zenon
<1> USE SecretAssumption, SameSignals DEF UIInv, UI!Install, UI!At, UI!Cleanup, UI!Event, UI!bounds, UI!list, UI!hist, Looping
<1>1. UITypes'
    BY Zenon DEF UITypes, UIPCs
<1>2. CursesWhere'
    BY Zenon DEF CursesWhere, Sheltered, UITypes, GuardWhere
<1>3. GuardWhere'
    BY Zenon DEF CursesWhere, Sheltered, UITypes, GuardWhere
<1>4. SeenWhere'
    BY Zenon DEF UITypes, GuardWhere, SeenWhere, Seen
<1> QED BY Zenon, <1>1, <1>2, <1>3, <1>4

LEMMA SetupUI == UIInv /\ UI!Setup => UIInv'
<1> SUFFICES ASSUME UIInv, UI!Setup PROVE UIInv'
    BY Zenon
<1> USE SecretAssumption, SameSignals DEF UIInv, UI!Setup, UI!At, UI!Cleanup, UI!Event, UI!bounds, UI!list, UI!hist, UI!signals, Looping
<1>1. UITypes'
    BY Zenon DEF UITypes, UIPCs
<1>2. CursesWhere'
    BY Zenon DEF CursesWhere, Sheltered, UITypes, GuardWhere
<1>3. GuardWhere'
    BY Zenon DEF CursesWhere, Sheltered, UITypes, GuardWhere
<1>4. SeenWhere'
    BY Zenon DEF UITypes, GuardWhere, SeenWhere, Seen
<1> QED BY Zenon, <1>1, <1>2, <1>3, <1>4

LEMMA DrawUI == UIInv /\ UI!Draw => UIInv'
<1> SUFFICES ASSUME UIInv, UI!Draw PROVE UIInv'
    BY Zenon
<1> USE SecretAssumption, SameSignals DEF UIInv, UI!Draw, UI!At, UI!Cleanup, UI!bounds, UI!hist, UI!signals, Looping
<1>1. UITypes'
    BY Zenon DEF UITypes, UIPCs
<1>2. CursesWhere'
    BY Zenon DEF CursesWhere, Sheltered, UITypes, GuardWhere
<1>3. GuardWhere'
    BY Zenon DEF CursesWhere, Sheltered, UITypes, GuardWhere
<1>4. SeenWhere'
    BY Zenon DEF UITypes, GuardWhere, SeenWhere, Seen
<1> QED BY Zenon, <1>1, <1>2, <1>3, <1>4

LEMMA GetchUI == UIInv /\ UI!Getch => UIInv'
<1> SUFFICES ASSUME UIInv, UI!Getch PROVE UIInv'
    BY Zenon
<1> USE SecretAssumption, SameSignals DEF UIInv, UI!Getch, UI!At, UI!Cleanup, UI!hist, UI!signals, Looping
<1>1. UITypes'
    BY Zenon DEF UITypes, UIPCs
<1>2. CursesWhere'
    BY Zenon DEF CursesWhere, Sheltered, UITypes, GuardWhere
<1>3. GuardWhere'
    BY Zenon DEF CursesWhere, Sheltered, UITypes, GuardWhere
<1>4. SeenWhere'
    BY Zenon DEF UITypes, GuardWhere, SeenWhere, Seen
<1> QED BY Zenon, <1>1, <1>2, <1>3, <1>4

LEMMA HandleKeyUI == UIInv /\ UI!HandleKey => UIInv'
<1> SUFFICES ASSUME UIInv, UI!HandleKey PROVE UIInv'
    BY Zenon
<1> USE SecretAssumption, SameSignals DEF UIInv, UI!HandleKey, UI!At, UI!Cleanup, UI!bounds, UI!hist, UI!signals, UI!SetQuery, UI!MayGoDown, Looping
<1>1. UITypes'
    BY Zenon DEF UITypes, UIPCs
<1>2. CursesWhere'
    BY Zenon DEF CursesWhere, Sheltered, UITypes, GuardWhere
<1>3. GuardWhere'
    BY Zenon DEF CursesWhere, Sheltered, UITypes, GuardWhere
<1>4. SeenWhere'
    BY Zenon DEF UITypes, GuardWhere, SeenWhere, Seen
<1> QED BY Zenon, <1>1, <1>2, <1>3, <1>4

LEMMA BlockUI == UIInv /\ UI!Block => UIInv'
<1> SUFFICES ASSUME UIInv, UI!Block PROVE UIInv'
    BY Zenon
<1> USE SecretAssumption, SameSignals DEF UIInv, UI!Block, UI!At, UI!bounds, UI!list, UI!hist, Looping
<1>1. UITypes'
    BY Zenon DEF UITypes, UIPCs
<1>2. CursesWhere'
    BY Zenon DEF CursesWhere, Sheltered, UITypes, GuardWhere
<1>3. GuardWhere'
    BY Zenon DEF CursesWhere, Sheltered, UITypes, GuardWhere
<1>4. SeenWhere'
    BY Zenon DEF UITypes, GuardWhere, SeenWhere, Seen
<1> QED BY Zenon, <1>1, <1>2, <1>3, <1>4

LEMMA FetchUI == UIInv /\ UI!Fetch => UIInv'
<1> SUFFICES ASSUME UIInv, UI!Fetch PROVE UIInv'
    BY Zenon
<1> USE SecretAssumption, SameSignals DEF UIInv, UI!Fetch, UI!At, UI!bounds, UI!list, UI!hist, Looping
<1>1. UITypes'
    BY Zenon DEF UITypes, UIPCs
<1>2. CursesWhere'
    BY Zenon DEF CursesWhere, Sheltered, UITypes, GuardWhere
<1>3. GuardWhere'
    BY Zenon DEF CursesWhere, Sheltered, UITypes, GuardWhere
<1>4. SeenWhere'
    BY Zenon DEF UITypes, GuardWhere, SeenWhere, Seen
<1> QED BY Zenon, <1>1, <1>2, <1>3, <1>4

LEMMA EndWinUI == UIInv /\ UI!EndWin => UIInv'
<1> SUFFICES ASSUME UIInv, UI!EndWin PROVE UIInv'
    BY Zenon
<1> USE SecretAssumption, SameSignals DEF UIInv, UI!EndWin, UI!At, UI!bounds, UI!list, UI!hist, UI!signals, Looping
<1>1. UITypes'
    BY Zenon DEF UITypes, UIPCs
<1>2. CursesWhere'
    BY Zenon DEF CursesWhere, Sheltered, UITypes, GuardWhere
<1>3. GuardWhere'
    BY Zenon DEF CursesWhere, Sheltered, UITypes, GuardWhere
<1>4. SeenWhere'
    BY Zenon DEF UITypes, GuardWhere, SeenWhere, Seen
<1> QED BY Zenon, <1>1, <1>2, <1>3, <1>4

LEMMA RestoreUI == UIInv /\ UI!Restore => UIInv'
<1> SUFFICES ASSUME UIInv, UI!Restore PROVE UIInv'
    BY Zenon
<1> USE SecretAssumption, SameSignals DEF UIInv, UI!Restore, UI!At, UI!bounds, UI!list, UI!hist, Looping
<1>0. udisp' \in [Signals -> {"default", "ignore", "curses", "handler"}]
  <2>1. udisp' \in {udisp, uprev} \cup {[uprev EXCEPT ![s] = udisp[s]] : s \in Signals}
      BY Zenon
  <2> QED BY <2>1 DEF UITypes
<1>1. UITypes'
    BY Zenon, <1>0 DEF UITypes, UIPCs
<1>2. CursesWhere'
    BY Zenon DEF CursesWhere, Sheltered, UITypes, GuardWhere
<1>3. GuardWhere'
  <2>1. upc = "restore" /\ upc' = "finish" /\ ~ustuck
        /\ UNCHANGED <<prepared, uprev, prevMask, handled, uflag, ucaught>>
      BY Zenon DEF GuardWhere
  <2>2. CASE UNCHANGED <<ustatus, ustuck>> /\ udisp' = (IF prepared THEN uprev ELSE udisp)
             /\ mask' = (IF prepared THEN prevMask ELSE mask)
      BY ONLY Zenon, <2>1, <2>2, GuardWhere DEF GuardWhere, Looping
  <2>3. CASE prepared /\ ustatus' = "IO" /\ ustuck' = TRUE
      BY ONLY Zenon, <2>1, <2>3, GuardWhere DEF GuardWhere, Looping
  <2> QED BY Zenon, <2>2, <2>3
<1>4. SeenWhere'
    BY Zenon DEF UITypes, GuardWhere, SeenWhere, Seen
<1> QED BY Zenon, <1>1, <1>2, <1>3, <1>4

LEMMA FinishUI == UIInv /\ UI!Finish => UIInv'
<1> SUFFICES ASSUME UIInv, UI!Finish PROVE UIInv'
    BY Zenon
<1> USE SecretAssumption, SameSignals DEF UIInv, UI!Finish, UI!At, UI!bounds, UI!list, Looping
<1>1. UITypes'
    BY Zenon DEF UITypes, UIPCs
<1>2. CursesWhere'
    BY Zenon DEF CursesWhere, Sheltered, UITypes, GuardWhere
<1>3. GuardWhere'
    BY Zenon DEF CursesWhere, Sheltered, UITypes, GuardWhere
<1>4. SeenWhere'
  <2>0. CASE ustuck
      BY Zenon, <2>0 DEF SeenWhere
  <2>1. upc' = "returned" /\ uraised' = ucaught /\ handled' = handled /\ (~ustuck => Seen(ucaught))
      BY Zenon DEF SeenWhere
  <2>2. ~ustuck /\ handled # {} => ustatus' = "IO"
    <3>1. handled \subseteq 1..NSig
        BY Zenon DEF UITypes, Signals
    <3>2. ~ustuck /\ handled # {} => ucaught \in handled
        BY Zenon, <2>1 DEF Seen
    <3>3. ~ustuck /\ handled # {} => ucaught # 0
        BY ONLY <3>1, <3>2
    <3> QED BY Zenon, <3>3
  <2> QED BY Zenon, <2>0, <2>1, <2>2 DEF SeenWhere, Seen
<1> QED BY Zenon, <1>1, <1>2, <1>3, <1>4

LEMMA SignalUI ==
    ASSUME UIInv, NEW s \in Signals, UI!Signal(s)
    PROVE  UIInv'
BY Zenon DEF UI!Signal, UI!signals, UI!hist, UIInv, UITypes, CursesWhere, Sheltered, GuardWhere,
       SeenWhere, Seen

\* A signal is delivered: to the handler, to nobody, or with its default action,
\* which ends or stops the process.
LEMMA DeliverUI ==
    ASSUME UIInv, NEW s \in Signals, UI!Deliver(s)
    PROVE  UIInv'
<1> USE SecretAssumption, SameSignals DEF UIInv
<1>0. /\ s \notin mask /\ upc # "dead" /\ ~ustopped
      /\ UNCHANGED <<ustatus, uprev, prevMask, udisp, mask, prepared, ucaught, curses, uraised,
                     ustuck>>
    BY Zenon DEF UI!Deliver
<1>1. CASE udisp[s] = "handler"
  <2>1. /\ uflag' = (IF uflag = 0 THEN s ELSE uflag) /\ handled' = handled \cup {s}
        /\ UNCHANGED <<upc, ustopped>>
      BY Zenon, <1>1 DEF UI!Deliver, UI!Handler
  <2>2. UITypes'
      BY Zenon, <1>0, <2>1 DEF UITypes
  <2>3. CursesWhere'
      BY Zenon, <1>0, <2>1 DEF CursesWhere, Sheltered
  <2>4. /\ prepared /\ upc \notin {"endwin", "restore"}
        /\ upc \in {"finish", "returned"} => ustuck
      BY Zenon, <1>0, <1>1 DEF GuardWhere
  <2>5. GuardWhere'
      BY Zenon, <1>0, <2>1, <2>4 DEF GuardWhere, Sheltered
  <2>6. SeenWhere'
      BY Zenon, <1>0, <2>1, <2>4 DEF SeenWhere, Seen, UITypes, Signals
  <2> QED BY Zenon, <1>0, <2>2, <2>3, <2>5, <2>6
<1>2. CASE udisp[s] = "ignore"
  <2>1. UNCHANGED <<upc, ustopped, uflag, handled>>
      BY Zenon, <1>2 DEF UI!Deliver
  <2> QED BY Zenon, <1>0, <2>1 DEF UITypes, CursesWhere, Sheltered, GuardWhere, SeenWhere, Seen
<1>3. CASE udisp[s] \in {"default", "curses"}
  <2>1. upc' \in {upc, "dead"} /\ ustopped' \in BOOLEAN /\ UNCHANGED <<uflag, handled>>
      BY Zenon, <1>3 DEF UI!Deliver
  <2>2. ~Sheltered
      BY Zenon, <1>0, <1>3 DEF Sheltered
  <2>3. ~curses
      BY Zenon, <2>2 DEF CursesWhere
  <2>4. UITypes' /\ CursesWhere'
      BY Zenon, <1>0, <2>1, <2>3 DEF UITypes, UIPCs, CursesWhere
  <2>5. GuardWhere'
      BY Zenon, <1>0, <2>1 DEF GuardWhere, Looping, Sheltered
  <2>6. SeenWhere'
      BY Zenon, <1>0, <2>1 DEF SeenWhere, Seen
  <2> QED BY Zenon, <1>0, <2>4, <2>5, <2>6
<1> QED BY Zenon, <1>1, <1>2, <1>3 DEF UI!Deliver

LEMMA ContinueUI ==
    ASSUME UIInv, UI!Continue \/ UNCHANGED UI!vars
    PROVE  UIInv'
<1>1. /\ UNCHANGED <<upc, ustatus, uprev, prevMask, udisp, mask, prepared, uflag, ucaught, curses,
                     handled, uraised, ustuck>>
      /\ ustopped' = ustopped \/ ustopped' = FALSE
    BY Zenon DEF UI!Continue, UI!vars, UI!signals, UI!hist
<1>2. UITypes' /\ CursesWhere'
  <2>0. ustopped \in BOOLEAN
      BY Zenon DEF UIInv, UITypes
  <2>1. ustopped' \in BOOLEAN /\ (ustopped' => ustopped)
    <3>1. CASE ustopped' = ustopped
        BY Zenon, <2>0, <3>1
    <3>2. CASE ustopped' = FALSE
        BY Zenon, <3>2
    <3> QED BY Zenon, <1>1, <3>1, <3>2
  <2>2. UITypes'
      BY Zenon, <1>1, <2>1 DEF UIInv, UITypes
  <2>3. Sheltered' <=> Sheltered
      BY Zenon, <1>1 DEF Sheltered
  <2>4. CursesWhere'
      BY Zenon, <1>1, <2>1, <2>3 DEF UIInv, CursesWhere
  <2> QED BY Zenon, <2>2, <2>4
<1>3. GuardWhere'
  <2>1. Sheltered' <=> Sheltered
      BY Zenon, <1>1 DEF Sheltered
  <2> QED BY Zenon, <1>1, <2>1 DEF UIInv, GuardWhere
<1>4. SeenWhere'
    BY Zenon, <1>1 DEF UIInv, SeenWhere, Seen
<1> QED BY Zenon, <1>1, <1>2, <1>3, <1>4 DEF UIInv

LEMMA NextUI == UIInv /\ UI!Next => UIInv'
<1> SUFFICES ASSUME UIInv, UI!Next PROVE UIInv'
    BY Zenon
<1>1. CASE UI!Call
    BY Zenon, <1>1, PrepareUI, NewTermUI, InstallUI, SetupUI, DrawUI, GetchUI, HandleKeyUI, BlockUI,
       FetchUI, EndWinUI, RestoreUI, FinishUI DEF UI!Call
<1>2. CASE UI!Kernel
    BY Zenon, <1>2, SameSignals, DeliverUI, ContinueUI DEF UI!Kernel
<1>3. CASE \E s \in UI!Signals : UI!Signal(s)
    BY Zenon, <1>3, SameSignals, SignalUI
<1>4. CASE UNCHANGED UI!vars
    BY Zenon, <1>4, ContinueUI
<1> QED BY Zenon, <1>1, <1>2, <1>3, <1>4 DEF UI!Next, UI!Rest

-----------------------------------------------------------------------------
(***************************************************************************)
(* The list.  What build_matches returns, for any number of records: the   *)
(* recursive function is shown to exist, and then to be what the loop      *)
(* computes, by looking at the least number for which it is not.           *)
(***************************************************************************)

LEMMA LeastNumber ==
    ASSUME NEW S, S \subseteq Nat, S # {}
    PROVE  \E m \in S : \A n \in S : m <= n
<1>1. PICK m \in S : \A n \in S : ~(<<n, m>> \in OpToRel(<, Nat))
    BY Zenon, WFMin, NatLessThanWellFounded
<1>2. \A n \in S : ~(n < m)
    BY Zenon, <1>1 DEF OpToRel
<1>3. \A n \in S : m <= n
    BY ONLY <1>2, m \in S, S \subseteq Nat
<1> QED BY ONLY Zenon, <1>3, m \in S

NRecords == Len(RecordTexts)

\* One turn of the loop, given what the turns before it found.
Turn(f, n) ==
    IF n = 0 THEN <<>>
    ELSE IF UI!Listed(n) THEN Append(f[n - 1], n) ELSE f[n - 1]
Turns(f, m) == f = [n \in 0..m |-> Turn(f, n)]

LEMMA SomeRecords == NRecords \in Nat \ {0} /\ UI!Records = 1..NRecords
BY PickAssumption DEF UI!PickerConstants, UI!Records, NRecords

LEMMA TurnsExist == \A m \in 0..NRecords : \E f : Turns(f, m)
<1> DEFINE S == {m \in 0..NRecords : ~ \E f : Turns(f, m)}
<1> SUFFICES ASSUME S # {} PROVE FALSE
    BY Zenon
<1>0. NRecords \in Nat /\ S \subseteq Nat
    BY SomeRecords
<1>1. PICK m \in S : \A n \in S : m <= n
    BY Zenon, <1>0, LeastNumber
<1>2. m \in 0..NRecords /\ ~ \E f : Turns(f, m)
    BY Zenon
<1>3. m # 0
  <2>1. SUFFICES ASSUME m = 0 PROVE FALSE
      BY Zenon
  <2> DEFINE f == [n \in 0..0 |-> <<>>]
  <2>2. f = [n \in 0..0 |-> Turn(f, n)]
      BY DEF Turn
  <2> QED BY Zenon, <1>2, <2>1, <2>2 DEF Turns
<1>4. m - 1 \in 0..NRecords /\ m - 1 \notin S
    BY <1>0, <1>1, <1>2, <1>3
<1>5. PICK f : Turns(f, m - 1)
    BY Zenon, <1>4
<1> DEFINE g == [n \in 0..m |-> IF n < m THEN f[n] ELSE Turn(f, m)]
<1>6. \A n \in 0..m : g[n] = Turn(g, n)
  <2> TAKE n \in 0..m
  <2>1. CASE n < m
    <3>1. n \in 0..(m - 1) /\ g[n] = f[n]
        BY <2>1, <1>0, <1>2
    <3>2. f[n] = Turn(f, n)
        BY Zenon, <3>1, <1>5 DEF Turns
    <3>3. n # 0 => g[n - 1] = f[n - 1]
        BY <3>1, <1>0, <1>2
    <3> QED BY Zenon, <3>1, <3>2, <3>3 DEF Turn
  <2>2. CASE n = m
    <3>1. g[n] = Turn(f, m)
        BY <2>2
    <3>2. g[m - 1] = f[m - 1]
        BY <1>0, <1>2, <1>3
    <3> QED BY Zenon, <3>1, <3>2, <2>2, <1>3 DEF Turn
  <2> QED BY <2>1, <2>2, <1>0, <1>2
<1>7. g = [n \in 0..m |-> Turn(g, n)]
    BY ONLY Zenon, <1>6
<1> HIDE DEF g
<1> QED BY Zenon, <1>2, <1>7 DEF Turns

LEMMA FoundTurns == Turns(UI!Found, NRecords)
<1>1. \E f : Turns(f, NRecords)
    BY TurnsExist, SomeRecords
<1>2. UI!Found = CHOOSE f : Turns(f, NRecords)
    BY Zenon DEF UI!Found, Turns, Turn, NRecords
<1> QED BY Zenon, <1>1, <1>2

\* A sequence of records that are on the list.
AllListed(q) == q \in Seq(UI!Records) /\ \A k \in 1..Len(q) : UI!Listed(q[k])

\* build_matches returns records that are not deleted and match the query.
LEMMA BuildMatchesListed == AllListed(UI!BuildMatches)
<1> DEFINE S == {m \in 0..NRecords : ~AllListed(UI!Found[m])}
<1>0. NRecords \in Nat /\ UI!Records = 1..NRecords /\ S \subseteq Nat
    BY SomeRecords
<1>1. \A n \in 0..NRecords : UI!Found[n] = Turn(UI!Found, n)
    BY Zenon, FoundTurns DEF Turns
<1>2. ASSUME S # {} PROVE FALSE
  <2>1. PICK m \in S : \A n \in S : m <= n
      BY Zenon, <1>0, <1>2, LeastNumber
  <2>2. UI!Found[m] = Turn(UI!Found, m)
      BY Zenon, <1>1
  <2>3. m # 0
    <3>1. AllListed(<<>>)
        BY DEF AllListed
    <3>2. m = 0 => UI!Found[m] = <<>>
        BY Zenon, <2>2 DEF Turn
    <3> QED BY Zenon, <3>1, <3>2
  <2>4. m - 1 \in 0..NRecords /\ AllListed(UI!Found[m - 1]) /\ m \in UI!Records
      BY <1>0, <2>1, <2>3
  <2>5. PICK q : q = UI!Found[m - 1]
      BY Zenon
  <2>6. UI!Listed(m) => AllListed(Append(q, m))
      BY <2>4, <2>5 DEF AllListed
  <2>7. AllListed(UI!Found[m])
      BY Zenon, <2>2, <2>3, <2>4, <2>5, <2>6 DEF Turn
  <2> QED BY Zenon, <2>7
<1> QED BY <1>0, <1>2 DEF UI!BuildMatches, NRecords

Leaving == {"block", "fetch", "endwin", "restore", "finish", "returned", "dead"}

\* Steps that leave the list and the records alone.
LEMMA ListKept ==
    ASSUME ListInv, UNCHANGED <<deleted, query, matches, current, selected>>,
           upc' \in {"getch", "key"} => upc \in {"getch", "key"},
           ustatus' = "OK" => ustatus = "OK" /\ upc' \in Leaving
    PROVE  ListInv'
<1>1. \A r : UI!Listed(r)' <=> UI!Listed(r)
    BY Zenon DEF UI!Listed, UI!Matches
<1>2. Shown' <=> Shown
    BY Zenon, <1>1 DEF Shown, UI!Records
<1>3. current' \in Nat \ {0}
    BY Zenon DEF ListInv
<1>4. upc' \in {"getch", "key"} => (Shown /\ (matches # <<>> => current <= Len(matches)))'
    BY Zenon, <1>2 DEF ListInv
<1>5. ustatus' = "OK" => /\ upc' \in Leaving
                         /\ (selected \in UI!Records /\ UI!Listed(selected))'
    BY Zenon, <1>1 DEF ListInv, UI!Records
<1> QED BY Zenon, <1>3, <1>4, <1>5 DEF ListInv, Leaving

LEMMA DrawList == ListInv /\ UI!Draw => ListInv'
<1> SUFFICES ASSUME ListInv, UI!Draw PROVE ListInv'
    BY Zenon
<1>0. upc = "draw" /\ UNCHANGED <<deleted, query, selected>>
    BY Zenon DEF UI!Draw, UI!At
<1>1. CASE UI!Cleanup("IO") /\ UNCHANGED <<matches, current>>
    BY Zenon, <1>0, <1>1, ListKept DEF UI!Cleanup
<1>2. CASE /\ upc' = "getch" /\ matches' = UI!BuildMatches /\ UNCHANGED ustatus
           /\ current' = IF current > Len(matches') /\ matches' # <<>> THEN Len(matches')
                         ELSE current
  <2>1. AllListed(matches')
      BY Zenon, <1>2, BuildMatchesListed
  <2>2. \A r : UI!Listed(r)' <=> UI!Listed(r)
      BY Zenon, <1>0 DEF UI!Listed, UI!Matches
  <2>3. Shown'
      BY Zenon, <2>1, <2>2 DEF AllListed, Shown, UI!Records
  <2>4. Len(matches') \in Nat /\ (matches' # <<>> => Len(matches') # 0)
      BY <2>1 DEF AllListed
  <2>5. current' \in Nat \ {0} /\ (matches' # <<>> => current' <= Len(matches'))
      BY <1>2, <2>4 DEF ListInv
  <2>6. ustatus' # "OK"
      BY Zenon, <1>0, <1>2 DEF ListInv
  <2> QED BY Zenon, <1>2, <2>3, <2>5, <2>6 DEF ListInv
<1> QED BY Zenon, <1>1, <1>2 DEF UI!Draw

LEMMA HandleKeyList == ListInv /\ UI!HandleKey => ListInv'
<1> SUFFICES ASSUME ListInv, UI!HandleKey PROVE ListInv'
    BY Zenon
<1>0. upc = "key" /\ UNCHANGED <<deleted, matches>> /\ ustatus # "OK"
    BY Zenon DEF UI!HandleKey, UI!At, ListInv
<1>1. CASE (UI!Cleanup("IO") \/ UI!Cleanup("NOT_FOUND")) /\ UNCHANGED <<query, current, selected>>
    BY Zenon, <1>0, <1>1, ListKept DEF UI!Cleanup
<1>2. CASE /\ matches # <<>> /\ selected' = matches[current] /\ UI!Cleanup("OK")
           /\ UNCHANGED <<query, current>>
  <2>1. Shown /\ current \in 1..Len(matches)
      BY <1>0, <1>2 DEF ListInv, Shown
  <2>2. selected' \in UI!Records /\ UI!Listed(selected')
      BY <1>2, <2>1 DEF Shown
  <2>3. (selected \in UI!Records /\ UI!Listed(selected))'
      BY Zenon, <1>0, <1>2, <2>2 DEF UI!Records, UI!Listed, UI!Matches
  <2>4. current' \in Nat \ {0} /\ upc' = "block"
      BY Zenon, <1>2 DEF ListInv, UI!Cleanup
  <2> QED BY Zenon, <2>3, <2>4 DEF ListInv
<1>3. CASE upc' = "draw" /\ UNCHANGED <<ustatus, selected>> /\ current' \in Nat \ {0}
    BY Zenon, <1>0, <1>3 DEF ListInv
<1>4. current \in Nat \ {0}
    BY Zenon DEF ListInv
<1>5. ASSUME /\ \/ current > 1 /\ current' = current - 1
                \/ current' = current + 1
                \/ current' = 1
                \/ current' = current
      PROVE  current' \in Nat \ {0}
    BY <1>4, <1>5
<1>6. \/ upc' = "draw" /\ UNCHANGED <<ustatus, selected>> /\ current' \in Nat \ {0}
      \/ (UI!Cleanup("IO") \/ UI!Cleanup("NOT_FOUND")) /\ UNCHANGED <<query, current, selected>>
      \/ /\ matches # <<>> /\ selected' = matches[current] /\ UI!Cleanup("OK")
         /\ UNCHANGED <<query, current>>
    BY Zenon, <1>5 DEF UI!HandleKey, UI!SetQuery
<1> QED BY Zenon, <1>1, <1>2, <1>3, <1>6

LEMMA CallList ==
    ASSUME ListInv, UI!Call
    PROVE  ListInv'
<1>1. CASE UI!Draw \/ UI!HandleKey
    BY Zenon, <1>1, DrawList, HandleKeyList
<1>2. CASE UI!Getch
    BY Zenon, <1>2, ListKept DEF UI!Getch, UI!At, UI!Cleanup, ListInv
<1>3. CASE UI!Prepare \/ UI!NewTerm \/ UI!Install \/ UI!Setup
    BY Zenon, <1>3, ListKept DEF UI!Prepare, UI!NewTerm, UI!Install, UI!Setup, UI!At, UI!Cleanup,
                          UI!list, ListInv
<1>4. CASE UI!Block \/ UI!Fetch \/ UI!EndWin \/ UI!Restore \/ UI!Finish
    BY Zenon, <1>4, ListKept DEF UI!Block, UI!Fetch, UI!EndWin, UI!Restore, UI!Finish, UI!At,
                          UI!list, ListInv, Leaving
<1> QED BY Zenon, <1>1, <1>2, <1>3, <1>4 DEF UI!Call

LEMMA NextList == ListInv /\ UI!Next => ListInv'
<1> SUFFICES ASSUME ListInv, UI!Next PROVE ListInv'
    BY Zenon
<1>1. CASE UI!Call
    BY Zenon, <1>1, CallList
<1>2. CASE UI!Kernel \/ (\E s \in UI!Signals : UI!Signal(s)) \/ UNCHANGED UI!vars
  <2>1. /\ UNCHANGED <<ustatus, deleted, query, matches, current, selected>>
        /\ upc' = upc \/ upc' = "dead"
      BY Zenon, <1>2 DEF UI!Kernel, UI!Continue, UI!Deliver, UI!Signal, UI!vars, UI!list
  <2> QED BY Zenon, <2>1, ListKept DEF ListInv, Leaving
<1> QED BY Zenon, <1>1, <1>2 DEF UI!Next, UI!Rest

-----------------------------------------------------------------------------
(***************************************************************************)
(* Both calls together.                                                    *)
(***************************************************************************)

LEMMA NextFlagGone ==
    ASSUME IInv, DInv, FlagGone, Next
    PROVE  FlagGone'
<1>1. CASE OpenTty \/ GiveUp
    BY Zenon, <1>1 DEF OpenTty, GiveUp, At, signals, DInv, Result, FlagGone
<1>2. CASE Finish
    BY Zenon, <1>2 DEF Finish, FlagGone
<1>3. CASE \/ InstallOne \/ Hide \/ Allocate \/ CheckFlag \/ Poll \/ ReadByte \/ Compare
           \/ Unhide \/ Fetch \/ RestoreOne
  <2>1. pc' # "returned"
      BY Zenon, <1>3 DEF InstallOne, Hide, Allocate, CheckFlag, Poll, ReadByte, Compare, Unhide, Fetch,
            RestoreOne, At, ReadFails
  <2> QED BY Zenon, <2>1 DEF FlagGone
<1>4. CASE Type \/ Continue \/ Rest
    BY Zenon, <1>4 DEF Type, Continue, Rest, vars, signals, FlagGone
<1>5. CASE \E s \in Signals : Signal(s)
  <2>1. pc' # "returned"
      BY Zenon, <1>5 DEF Signal, Take, Ended
  <2> QED BY Zenon, <2>1 DEF FlagGone
<1> QED BY Zenon, <1>1, <1>2, <1>3, <1>4, <1>5 DEF Next, Call

\* The prompt, forgotten, is as if it had not been called.
LEMMA ConsumeInv ==
    ASSUME IInv, DInv, FlagGone, Consume
    PROVE  IInv' /\ DInv' /\ disp = prev
<1> USE SecretAssumption
<1>0. /\ pc = "returned" /\ status = "OK" /\ pc' = "start" /\ status' = "none"
      /\ UNCHANGED <<confirm, stopped, prev, disp, installed, flag, caught, echo, buf2, stuck,
                     raised>>
      /\ buf' = NoBuffer /\ input' = NoLine /\ line' = NoLine /\ lines' = <<NoLine, NoLine>>
      /\ first' = 0 /\ hushed' = {}
    BY Zenon DEF Consume
<1>1. Types' /\ Guarded'
    BY Zenon, <1>0 DEF IInv, Types, Guarded, PCs
<1>2. GuardedWhere' /\ HiddenWhere'
    BY Zenon, <1>0 DEF IInv, GuardedWhere, HiddenWhere, HiddenInput
<1>3. FlagIsFirst'
    BY Zenon, <1>0 DEF FlagIsFirst, FlagGone, Ended
<1>4. second' = FALSE /\ overflow' = FALSE
    BY Zenon DEF Consume
<1>5. DataTypes'
  <2>1. buf' \in Buffers /\ buf2' \in Buffers
      BY Zenon, <1>0, EmptyBuffer DEF DInv, DataTypes
  <2>2. input' \in MaybeLine /\ line' \in MaybeLine /\ lines' \in MaybeLine \X MaybeLine
      BY Zenon, <1>0 DEF MaybeLine
  <2>3. confirm' \in BOOLEAN /\ second' \in BOOLEAN /\ overflow' \in BOOLEAN
      BY Zenon, <1>0, <1>4 DEF DInv, DataTypes
  <2> QED BY Zenon, <2>1, <2>2, <2>3 DEF DataTypes
<1>6. Reading'
    BY Zenon, <1>0 DEF Reading
<1>7. Result'
    BY Zenon, <1>0, <1>4 DEF DInv, Result
<1>8. disp = prev
  <2>1. \A s \in Signals : disp[s] = prev[s]
      BY <1>0 DEF IInv, Guarded, GuardedWhere, Signals
  <2> QED BY <2>1 DEF IInv, Types
<1> QED BY Zenon, <1>1, <1>2, <1>3, <1>5, <1>6, <1>7, <1>8 DEF IInv, DInv

PickInv == IInv /\ DInv /\ UInv /\ ListInv

LEMMA UISplit == ASSUME IInv PROVE UInv <=> FlagGone /\ InTurn /\ UIInv
BY Zenon DEF IInv, Types, UInv, UIInv, InTurn

LEMMA InitPick == PickInit => PickInv
<1> SUFFICES ASSUME PickInit PROVE PickInv
    BY Zenon
<1>1. IInv /\ DInv
    BY Zenon, InitIInv, InitDInv DEF PickInit
<1>2. FlagGone /\ InTurn
    BY Zenon DEF PickInit, Init, FlagGone, InTurn
<1>3. UITypes
  <2>1. udisp \in [Signals -> {"default", "ignore", "curses", "handler"}]
    <3>1. prev \in [Signals -> {"default", "ignore"}] /\ udisp = prev
        BY Zenon DEF PickInit, Init
    <3> QED BY Zenon, <3>1
  <2>2. ustopped \in BOOLEAN /\ prepared \in BOOLEAN /\ curses \in BOOLEAN /\ ustuck \in BOOLEAN
      BY Zenon DEF PickInit
  <2> QED BY Zenon, <2>1, <2>2 DEF PickInit, UITypes, UIPCs
<1>4. CursesWhere /\ GuardWhere /\ SeenWhere
    BY Zenon DEF PickInit, CursesWhere, GuardWhere, SeenWhere, Seen, Looping
<1>5. ListInv
    BY DEF PickInit, ListInv
<1> QED BY Zenon, <1>1, <1>2, <1>3, <1>4, <1>5 DEF PickInv, UInv

\* A step of the prompt leaves the picker's state alone.
LEMMA PromptingPick ==
    ASSUME PickInv, ~picking, [Next]_vars, UNCHANGED <<picking, uiVars>>
    PROVE  PickInv'
<1>1. IInv' /\ DInv'
    BY Zenon, NextIInv, NextDInv DEF PickInv
<1>2. FlagGone'
    BY Zenon, NextFlagGone DEF PickInv, UInv, vars, signals, FlagGone
<1>3. prev' = prev
    BY Zenon DEF Next, Call, vars, signals, OpenTty, InstallOne, Hide, Allocate, CheckFlag, Poll,
           ReadByte, Compare, Unhide, Fetch, RestoreOne, GiveUp, Finish, Type, Signal, Continue,
           Rest
<1>4. InTurn'
    BY Zenon, <1>3 DEF PickInv, UInv, InTurn, uiVars
<1>5. UIInv'
  <2>1. UNCHANGED UI!vars
      BY Zenon DEF uiVars, UI!vars, UI!signals, UI!list, UI!bounds, UI!hist
  <2> QED BY Zenon, <2>1, ContinueUI, UISplit DEF PickInv
<1>6. ListInv'
    BY Zenon, ListKept DEF PickInv, uiVars, ListInv, Leaving
<1>7. UInv'
    BY Zenon, <1>1, <1>2, <1>4, <1>5 DEF UInv, UIInv
<1> QED BY Zenon, <1>1, <1>6, <1>7 DEF PickInv

LEMMA PickPick ==
    ASSUME PickInv, Pick
    PROVE  PickInv'
<1>1. IInv' /\ DInv' /\ disp = prev
    BY Zenon, ConsumeInv DEF PickInv, UInv, Pick
<1>2. /\ ~picking /\ picking' = TRUE /\ upc' = "start" /\ uprev' = prev /\ udisp' = prev
      /\ prevMask' \in SUBSET Signals /\ mask' = prevMask'
      /\ UNCHANGED <<ustatus, ustopped, prepared, uflag, ucaught, curses, query, matches,
                     current, selected, handled, uraised, ustuck>>
    BY Zenon, <1>1 DEF Pick
<1>3. pc' = "start" /\ ~stopped /\ UNCHANGED <<stopped, prev>>
    BY Zenon DEF Pick, Consume
<1>4. FlagGone'
    BY Zenon, <1>3 DEF FlagGone
<1>5. upc = "none" /\ ~ustopped
    BY Zenon, <1>2 DEF PickInv, UInv, InTurn
<1>6. InTurn'
    BY Zenon, <1>2, <1>3 DEF InTurn
<1>7. UITypes'
  <2>1. udisp' \in [Signals -> {"default", "ignore", "curses", "handler"}]
    <3>1. prev \in [Signals -> {"default", "ignore"}]
        BY Zenon DEF PickInv, IInv, Types
    <3> QED BY Zenon, <1>2, <3>1
  <2>2. ustopped' \in BOOLEAN /\ prepared' \in BOOLEAN /\ curses' \in BOOLEAN /\ ustuck' \in BOOLEAN
      BY Zenon, <1>2 DEF PickInv, UInv, UITypes
  <2> QED BY Zenon, <1>2, <2>1, <2>2 DEF PickInv, UInv, UITypes, UIPCs
<1>8. ~curses /\ ~prepared /\ handled = {} /\ uflag = 0 /\ ucaught = 0 /\ ~ustuck
    BY Zenon, <1>5 DEF PickInv, UInv, CursesWhere, GuardWhere, Looping
<1>9. CursesWhere' /\ GuardWhere' /\ SeenWhere'
  <2>1. CursesWhere'
      BY Zenon, <1>2, <1>8 DEF CursesWhere
  <2>2. GuardWhere'
      BY Zenon, <1>2, <1>8 DEF GuardWhere, Looping
  <2>3. SeenWhere'
      BY Zenon, <1>2, <1>8 DEF SeenWhere, Seen
  <2> QED BY Zenon, <2>1, <2>2, <2>3
<1>10. ListInv'
    BY Zenon, <1>2, <1>5 DEF PickInv, ListInv
<1> QED BY Zenon, <1>1, <1>4, <1>6, <1>7, <1>9, <1>10 DEF PickInv, UInv

LEMMA PickingPick ==
    ASSUME PickInv, picking, UI!Next, UNCHANGED <<picking, vars>>
    PROVE  PickInv'
<1>1. IInv' /\ DInv'
    BY Zenon, NextIInv, NextDInv DEF PickInv
<1>2. UNCHANGED <<pc, status, flag, stopped, prev>>
    BY Zenon DEF vars, signals
<1>3. FlagGone'
    BY Zenon, <1>2 DEF PickInv, UInv, FlagGone
<1>4. UIInv' /\ ListInv'
    BY Zenon, NextUI, NextList, UISplit DEF PickInv
<1>5. uprev' = uprev
    BY Zenon DEF UI!Next, UI!Call, UI!Kernel, UI!Prepare, UI!NewTerm, UI!Install, UI!Setup, UI!Draw,
           UI!Getch, UI!HandleKey, UI!Block, UI!Fetch, UI!EndWin, UI!Restore, UI!Finish,
           UI!Continue, UI!Deliver, UI!Signal, UI!Rest, UI!vars, UI!signals
<1>6. InTurn'
    BY Zenon, <1>2, <1>5 DEF PickInv, UInv, InTurn
<1> QED BY Zenon, <1>1, <1>3, <1>4, <1>6 DEF PickInv, UInv, UIInv

LEMMA NextPick == PickInv /\ [PickNext]_pickVars => PickInv'
<1> SUFFICES ASSUME PickInv, [PickNext]_pickVars PROVE PickInv'
    BY Zenon
<1>1. CASE Prompting(Next)
    BY Zenon, <1>1, PromptingPick DEF Prompting
<1>2. CASE Pick
    BY Zenon, <1>2, PickPick
<1>3. CASE Picking(UI!Next)
    BY Zenon, <1>3, PickingPick DEF Picking
<1>4. CASE UNCHANGED pickVars
  <2>1. UNCHANGED <<picking, vars, uiVars>>
      BY Zenon, <1>4 DEF pickVars
  <2>2. IInv' /\ DInv'
      BY Zenon, <2>1, NextIInv, NextDInv DEF PickInv
  <2>3. FlagGone' /\ InTurn'
      BY Zenon, <2>1 DEF vars, signals, uiVars, PickInv, UInv, FlagGone, InTurn
  <2>4. UNCHANGED UI!vars
      BY Zenon, <2>1 DEF uiVars, UI!vars, UI!signals, UI!list, UI!bounds, UI!hist
  <2>5. UIInv'
      BY Zenon, <2>4, ContinueUI, UISplit DEF PickInv
  <2>6. ListInv'
      BY Zenon, <2>1, ListKept DEF PickInv, uiVars, ListInv, Leaving
  <2> QED BY Zenon, <2>2, <2>3, <2>5, <2>6 DEF PickInv, UInv, UIInv
<1> QED BY Zenon, <1>1, <1>2, <1>3, <1>4 DEF PickNext

LEMMA PickInvariance == PickSpec => []PickInv
BY InitPick, NextPick, PTL DEF PickSpec

\* Over the prompt and the picker together, for any number of signals, keys,
\* records and failures: whenever the command has ended, is dead or is stopped the
\* terminal echoes (unless tcsetattr refused) and curses has given it back, and
\* when pick returns, dispositions and mask are those the command began with
\* (unless sigaction or sigprocmask refused).
THEOREM TerminalGivenBack == PickSpec => []TerminalAsFound
<1>1. PickInv => TerminalAsFound
  <2> SUFFICES ASSUME PickInv PROVE TerminalAsFound
      BY Zenon
  <2>1. ASSUME pc \in Ended \/ upc \in Ended \/ stopped \/ ustopped
        PROVE  (echo \/ stuck) /\ ~curses
    <3>1. CASE picking
        BY Zenon, <2>1, <3>1 DEF PickInv, UInv, InTurn, IInv, HiddenWhere, HiddenInput, CursesWhere,
              Looping, Ended
    <3>2. CASE ~picking
        BY Zenon, <2>1, <3>2 DEF PickInv, UInv, InTurn, IInv, HiddenWhere, HiddenInput, CursesWhere,
              Looping, Ended
    <3> QED BY Zenon, <3>1, <3>2
  <2>2. upc = "returned" => ustuck \/ (udisp = prev /\ mask = prevMask)
      BY Zenon DEF PickInv, UInv, InTurn, GuardWhere
  <2> QED BY Zenon, <2>1, <2>2 DEF TerminalAsFound
<1> QED
    BY <1>1, PickInvariance, PTL

\* A signal that the prompt's handler sees while the echo is off, or the picker's
\* handler at any time, is raised again before the call returns, by the prompt the
\* first one, under the dispositions and the mask that were there before.  (One the
\* prompt's handler sees after the flag was read, with the echo on, is not.)
THEOREM SignalsAreReraised == PickSpec => []SignalsReraised
<1>1. PickInv => SignalsReraised
  <2> SUFFICES ASSUME PickInv PROVE SignalsReraised
      BY Zenon
  <2>1. FirstSignalReraised
      BY Zenon, IInvReraises DEF PickInv
  <2>2. UI!NoSignalLost
      BY Zenon DEF PickInv, UInv, InTurn, GuardWhere, SeenWhere, Seen, UI!NoSignalLost
  <2> QED BY Zenon, <2>1, <2>2 DEF SignalsReraised
<1> QED
    BY <1>1, PickInvariance, PTL

\* What the command goes on with is what the user did: the password is the whole
\* line they typed, and the record pv_ui_pick_internal returns is one that
\* build_matches had put on the list under the query at that moment: not deleted,
\* and matching, for any number of records of any length.
THEOREM UserHasAnswered == PickSpec => []UserAnswered
<1>1. PickInv => UserAnswered
  <2> SUFFICES ASSUME PickInv PROVE UserAnswered
      BY Zenon
  <2>1. OkMeansTyped
      BY Zenon, DInvTyped DEF PickInv
  <2>2. UI!SelectionWasListed
      BY Zenon DEF PickInv, ListInv, UI!Listed, UI!SelectionWasListed
  <2> QED BY Zenon, <2>1, <2>2 DEF UserAnswered
<1> QED
    BY <1>1, PickInvariance, PTL

\* The prompt's own guarantee also holds when the picker follows it.
THEOREM EchoSafeInPick == PickSpec => []EchoSafe
<1>1. PickInv => EchoSafe
    BY Zenon DEF PickInv, IInv, HiddenWhere, EchoSafe, Ended, HiddenInput
<1> QED
    BY <1>1, PickInvariance, PTL
=============================================================================
