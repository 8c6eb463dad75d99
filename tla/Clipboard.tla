------------------------------ MODULE Clipboard ------------------------------
(***************************************************************************)
(* One copy to the clipboard (src/clipboard.c).  The client (a pvault      *)
(* command or shell) launches a detached worker before the vault is        *)
(* unlocked; on START the worker spawns the owner (xclip), the client      *)
(* writes the secret to a pipe the owner reads, and the worker ends the    *)
(* owner when the time to live is over.                                    *)
(*                                                                         *)
(* Each process may die at any moment, and every timeout of the client may *)
(* expire while the answer is on its way.  A secret is Chunks pieces, of   *)
(* which the pipe holds PipeCap.  START_TEXT and START_BINARY differ only  *)
(* for the Wayland backend, which no installable build contains.           *)
(***************************************************************************)
EXTENDS Naturals, Sequences

CONSTANTS
    Chunks,            \* size of the secret
    PipeCap,           \* size of the pipe
    MaxEvents          \* bound: failed calls, kills, signals from outside

ASSUME ClipboardAssumption ==
    /\ Chunks \in Nat \ {0}
    /\ PipeCap \in Nat \ {0}
    /\ MaxEvents \in Nat

Messages == {"START", "READY", "DONE", "FAILED", "ACCEPTED"}

ClientPCs == {"start", "setup", "prepared", "ready", "write", "finish", "accepted",
              "signal", "done"}
WorkerPCs == {"none", "boot", "report", "waitStart", "spawn", "spawning",
              "waitDone", "arm", "check", "accept", "waitEnd", "term", "sigterm",
              "grace", "kill", "reap", "exit", "gone"}
OwnerPCs == {"none", "forked", "guarded", "reading", "holding", "gone", "reaped"}

VARIABLES
    client,   \* the pv_clipboard_job and where its process is
    worker,   \* pvault-clip; stop: pv_clip_stop_requested, intr: it interrupts a wait
    owner,    \* xclip; term: SIGTERM is pending, err: it reported a failed exec,
              \* deaf: once it runs, only SIGKILL ends it
    control,  \* the socket pair: both queues, and which ends are open
    data,     \* the pipe of the secret: both ends, pieces written, pieces inside
    setup,    \* the answer in the setup pipe
    timer,    \* the worker's timerfd
    events    \* how many of the bounded events have happened

vars == <<client, worker, owner, control, data, setup, timer, events>>

Init ==
    /\ client = [pc |-> "start", status |-> "none", pidfd |-> FALSE]
    /\ worker = [pc |-> "none", stop |-> FALSE, intr |-> FALSE, pidfd |-> FALSE]
    /\ owner \in [pc : {"none"}, term : {FALSE}, err : {FALSE}, got : {0}, deaf : BOOLEAN]
    /\ control = [toWorker |-> <<>>, toClient |-> <<>>, client |-> FALSE, worker |-> FALSE]
    /\ data = [write |-> FALSE, read |-> FALSE, sent |-> 0, inside |-> 0]
    /\ setup = "none"
    /\ timer = "off"
    /\ events = 0

Event == events < MaxEvents /\ events' = events + 1

WorkerAlive == worker.pc \notin {"none", "gone"}
OwnerAlive == owner.pc \in {"forked", "guarded", "reading", "holding"}

-----------------------------------------------------------------------------
(***************************************************************************)
(* The client.                                                             *)
(***************************************************************************)

\* The client's ends are closed, by close or by the end of its process.
CloseClient ==
    /\ control' = [control EXCEPT !.client = FALSE]
    /\ data' = [data EXCEPT !.write = FALSE]

\* pv_clipboard_cancel: close both ends, then signal the worker.
Cancel ==
    /\ client' = [client EXCEPT !.pc = "signal", !.status = "ERR"]
    /\ CloseClient
    /\ UNCHANGED <<worker, owner, setup, timer>>

ClientGoto(label) == client' = [client EXCEPT !.pc = label]

\* pv_clipboard_prepare: the pipes, the launcher and the worker.
Prepare ==
    /\ client.pc = "start"
    /\ \/ /\ ClientGoto("setup")
          /\ worker' = [worker EXCEPT !.pc = "boot"]
          /\ control' = [control EXCEPT !.client = TRUE, !.worker = TRUE]
          /\ data' = [data EXCEPT !.write = TRUE, !.read = TRUE]
          /\ UNCHANGED events
       \/ /\ client' = [client EXCEPT !.pc = "done", !.status = "ERR"]
          /\ Event
          /\ UNCHANGED <<worker, control, data>>
    /\ UNCHANGED <<owner, setup, timer>>

\* wait_for_setup: an error, the end of the worker and the timeout all close the
\* job; no signal is sent, the closed channel tells the worker.
WaitForSetup ==
    /\ client.pc = "setup"
    /\ \/ /\ setup = "OK"
          /\ \E opened \in BOOLEAN :
                client' = [client EXCEPT !.pc = "prepared", !.pidfd = opened]
          /\ UNCHANGED <<control, data>>
       \/ /\ setup # "OK"
          /\ client' = [client EXCEPT !.pc = "done", !.status = "ERR"]
          /\ CloseClient
    /\ UNCHANGED <<worker, owner, setup, timer, events>>

\* The password was wrong, the user gave up, the session was idle: the job is
\* cancelled.
GiveUp == client.pc = "prepared" /\ Cancel /\ UNCHANGED events

\* command_pick with an empty password forgets the job; its process ends.
Forget ==
    /\ client.pc = "prepared"
    /\ client' = [client EXCEPT !.pc = "done", !.status = "ERR"]
    /\ CloseClient
    /\ UNCHANGED <<worker, owner, setup, timer, events>>

\* send_control by the client: fails when the worker's end is closed.
ClientSends(msg, label) ==
    \/ /\ control.worker
       /\ control' = [control EXCEPT !.toWorker = Append(@, msg)]
       /\ ClientGoto(label)
       /\ UNCHANGED <<worker, owner, data, setup, timer, events>>
    \/ ~control.worker /\ Cancel /\ UNCHANGED events

\* pv_clipboard_send begins.
SendStart == client.pc = "prepared" /\ ClientSends("START", "ready")

\* wait_for_owner_ready and wait_for_owner_accepted: one message, or the end of
\* the channel or the timeout.
Received(msg) == control.toClient # <<>> /\ Head(control.toClient) = msg

WaitForOwnerReady ==
    /\ client.pc = "ready"
    /\ \/ /\ Received("READY")
          /\ control' = [control EXCEPT !.toClient = Tail(@)]
          /\ ClientGoto("write")
          /\ UNCHANGED <<worker, owner, data, setup, timer, events>>
       \/ ~Received("READY") /\ Cancel /\ UNCHANGED events

\* A piece of write_secret.  Without a reader the write fails; with a full pipe
\* the client waits, and gives up on a message, a closed channel or the timeout;
\* any call may fail.
Readers == data.read \/ OwnerAlive

\* A mutant: one piece too many.
RemainingOffByOne == data.sent <= Chunks

Remaining == data.sent < Chunks

WriteSecret ==
    /\ client.pc = "write"
    /\ \/ /\ Remaining /\ data.inside < PipeCap /\ Readers
          /\ data' = [data EXCEPT !.sent = @ + 1, !.inside = @ + 1]
          /\ UNCHANGED <<client, worker, owner, control, setup, timer, events>>
       \/ /\ Remaining
          /\ ~Readers \/ data.inside = PipeCap
          /\ Cancel /\ UNCHANGED events
       \/ Cancel /\ Event
       \/ /\ ~Remaining
          /\ data' = [data EXCEPT !.write = FALSE]
          /\ ClientGoto("finish")
          /\ UNCHANGED <<worker, owner, control, setup, timer, events>>

SendDone == client.pc = "finish" /\ ClientSends("DONE", "accepted")

\* A mutant: the answer is awaited without a timeout.
WaitForOwnerAcceptedForever ==
    /\ client.pc = "accepted"
    /\ Received("ACCEPTED")
    /\ client' = [client EXCEPT !.pc = "done", !.status = "OK"]
    /\ CloseClient
    /\ UNCHANGED <<worker, owner, setup, timer, events>>

WaitForOwnerAccepted ==
    /\ client.pc = "accepted"
    /\ \/ /\ Received("ACCEPTED")
          /\ client' = [client EXCEPT !.pc = "done", !.status = "OK"]
          /\ CloseClient
          /\ UNCHANGED <<worker, owner, setup, timer, events>>
       \/ ~Received("ACCEPTED") /\ Cancel /\ UNCHANGED events

\* The handlers are installed once the worker has chosen its backend.  A signal
\* that arrives between the worker's last look at the flag and its wait does not
\* interrupt that wait.
Signalled(w) ==
    CASE w.pc \in {"none", "gone"} -> {w}
      [] w.pc \in {"waitStart", "waitDone", "waitEnd"} ->
            {[w EXCEPT !.stop = TRUE, !.intr = b] : b \in BOOLEAN}
      [] OTHER -> {[w EXCEPT !.stop = TRUE]}

SignalWorker ==
    /\ client.pc = "signal"
    /\ ClientGoto("done")
    /\ worker' \in IF client.pidfd THEN Signalled(worker) ELSE {worker}
    /\ UNCHANGED <<owner, control, data, setup, timer, events>>

-----------------------------------------------------------------------------
(***************************************************************************)
(* The worker: worker_loop.                                                *)
(***************************************************************************)

WorkerGoto(label) == worker' = [worker EXCEPT !.pc = label]

\* send_control(FAILED), its result ignored, and the cleanup.
Failed ==
    /\ WorkerGoto("term")
    /\ control' = IF control.client
                  THEN [control EXCEPT !.toClient = Append(@, "FAILED")] ELSE control

\* A dead worker: its ends are closed and the kernel sends the owner the signal it
\* asked for with PR_SET_PDEATHSIG.
WorkerGone ==
    /\ WorkerGoto("gone")
    /\ control' = [control EXCEPT !.worker = FALSE]
    /\ data' = [data EXCEPT !.read = FALSE]
    /\ owner' = IF owner.pc \in {"guarded", "reading", "holding"}
                THEN [owner EXCEPT !.term = TRUE] ELSE owner

\* Everything up to the choice of the backend, and report_setup: an error goes into
\* the setup pipe, too.
Boot ==
    /\ worker.pc = "boot"
    /\ \/ WorkerGoto("report") /\ UNCHANGED <<setup, events>>
       \/ WorkerGoto("exit") /\ setup' = "ERR" /\ Event
    /\ UNCHANGED <<client, owner, control, data, timer>>

ReportSetup ==
    /\ worker.pc = "report"
    /\ IF client.pc = "setup"
       THEN setup' = "OK" /\ WorkerGoto("waitStart")
       ELSE WorkerGoto("exit") /\ UNCHANGED setup
    /\ UNCHANGED <<client, owner, control, data, timer, events>>

\* receive_control blocks for the first message.
WaitForStart ==
    /\ worker.pc = "waitStart"
    /\ \/ /\ control.toWorker # <<>>
          /\ control' = [control EXCEPT !.toWorker = Tail(@)]
          /\ WorkerGoto(IF worker.stop \/ Head(control.toWorker) # "START"
                        THEN "term" ELSE "spawn")
       \/ /\ control.toWorker = <<>>
          /\ ~control.client \/ worker.intr
          /\ WorkerGoto("term")
          /\ UNCHANGED control
    /\ UNCHANGED <<client, owner, data, setup, timer, events>>

\* spawn_owner: fork, and then read its error pipe until exec closes it.
SpawnOwner ==
    /\ worker.pc = "spawn"
    /\ \/ /\ WorkerGoto("spawning")
          /\ owner' = [owner EXCEPT !.pc = "forked"]
          /\ UNCHANGED <<control, events>>
       \/ Failed /\ Event /\ UNCHANGED owner
    /\ UNCHANGED <<client, data, setup, timer>>

\* The owner runs, or ended without a report: READY.
Spawned ==
    /\ worker.pc = "spawning"
    /\ owner.pc \in {"reading", "holding", "gone"}
    /\ \/ /\ owner.err
          /\ Failed
          /\ owner' = [owner EXCEPT !.pc = "reaped"]
          /\ UNCHANGED <<data, events>>
       \/ /\ ~owner.err
          /\ data' = [data EXCEPT !.read = FALSE]
          /\ \E opened \in BOOLEAN :
                worker' = [worker EXCEPT !.pc = IF control.client THEN "waitDone" ELSE "term",
                                         !.pidfd = opened]
          /\ control' = IF control.client
                        THEN [control EXCEPT !.toClient = Append(@, "READY")] ELSE control
          /\ UNCHANGED <<owner, events>>
       \/ /\ ~owner.err
          /\ data' = [data EXCEPT !.read = FALSE]
          /\ Failed
          /\ Event
          /\ UNCHANGED owner
    /\ UNCHANGED <<client, setup, timer>>

\* What ends a poll: a signal that interrupts it, the end of the owner, or, without
\* a pidfd, the next period, which only then looks at the flag.
Interrupted == worker.intr \/ ~OwnerAlive \/ (worker.stop /\ ~worker.pidfd)

\* A mutant: the end of the channel does not end the wait.
HungUpIgnored == FALSE

\* POLLHUP on the control channel.
HungUp == ~control.client

\* wait_for_done, without a bound; the end of the owner comes before any message.
WaitForDone ==
    /\ worker.pc = "waitDone"
    /\ LET received == control.toWorker # <<>> IN
       /\ Interrupted \/ received \/ HungUp
       /\ IF ~worker.stop /\ OwnerAlive /\ received /\ Head(control.toWorker) = "DONE"
          THEN /\ control' = [control EXCEPT !.toWorker = Tail(@)]
               /\ WorkerGoto("arm")
          ELSE Failed
    /\ owner' = IF ~worker.stop /\ owner.pc = "gone"
                THEN [owner EXCEPT !.pc = "reaped"] ELSE owner
    /\ UNCHANGED <<client, data, setup, timer, events>>

\* A mutant: the timer is created and never set.
ArmTimerForgotten ==
    /\ worker.pc = "arm"
    /\ WorkerGoto("check")
    /\ UNCHANGED <<client, owner, control, data, setup, timer, events>>

\* timerfd_settime.
ArmTimer ==
    /\ worker.pc = "arm"
    /\ \/ timer' = "armed" /\ WorkerGoto("check") /\ UNCHANGED <<control, events>>
       \/ Failed /\ Event /\ UNCHANGED timer
    /\ UNCHANGED <<client, owner, data, setup>>

\* The last look at the flag and at the owner before the secret is accepted.
CheckOwner ==
    /\ worker.pc = "check"
    /\ IF worker.stop \/ ~OwnerAlive
       THEN Failed
       ELSE WorkerGoto("accept") /\ UNCHANGED control
    /\ owner' = IF ~worker.stop /\ owner.pc = "gone"
                THEN [owner EXCEPT !.pc = "reaped"] ELSE owner
    /\ UNCHANGED <<client, data, setup, timer, events>>

\* send_control(ACCEPTED), and the channel is closed.
Accept ==
    /\ worker.pc = "accept"
    /\ IF control.client
       THEN /\ control' = [control EXCEPT !.toClient = Append(@, "ACCEPTED"),
                                          !.worker = FALSE]
            /\ WorkerGoto("waitEnd")
       ELSE WorkerGoto("term") /\ UNCHANGED control
    /\ UNCHANGED <<client, owner, data, setup, timer, events>>

\* A mutant: the timer is not among what is waited for.
WaitForOwnerOnly ==
    /\ worker.pc = "waitEnd"
    /\ Interrupted
    /\ WorkerGoto("term")
    /\ UNCHANGED <<client, owner, control, data, setup, timer, events>>

\* wait_for_owner_or_timeout; the flag comes first, then the owner, then the timer.
WaitForOwnerOrTimeout ==
    /\ worker.pc = "waitEnd"
    /\ Interrupted \/ timer = "fired"
    /\ IF ~worker.stop /\ owner.pc = "gone"
       THEN WorkerGoto("exit") /\ owner' = [owner EXCEPT !.pc = "reaped"]
       ELSE WorkerGoto("term") /\ UNCHANGED owner
    /\ UNCHANGED <<client, control, data, setup, timer, events>>

\* A mutant: the owner is signalled without asking whether it has been reaped.
TerminateOwnerBlindly ==
    /\ worker.pc = "term"
    /\ WorkerGoto(IF owner.pc = "none" THEN "exit" ELSE "sigterm")
    /\ UNCHANGED <<client, owner, control, data, setup, timer, events>>

\* owner_has_exited, which reaps an owner that has.
HasExited ==
    /\ ~OwnerAlive
    /\ owner' = IF owner.pc = "gone" THEN [owner EXCEPT !.pc = "reaped"] ELSE owner

StillRuns == OwnerAlive /\ UNCHANGED owner

\* terminate_owner: an owner that has exited is only reaped.
TerminateOwner ==
    /\ worker.pc = "term"
    /\ \/ HasExited /\ WorkerGoto("exit")
       \/ StillRuns /\ WorkerGoto("sigterm")
    /\ UNCHANGED <<client, control, data, setup, timer, events>>

\* SIGTERM, which may fail unnoticed; an owner that has exited since the question
\* is a zombie, and keeps its id.
SendTerm ==
    /\ worker.pc = "sigterm"
    /\ WorkerGoto("grace")
    /\ \/ owner' = [owner EXCEPT !.term = TRUE] /\ UNCHANGED events
       \/ Event /\ UNCHANGED owner
    /\ UNCHANGED <<client, control, data, setup, timer>>

\* A mutant: an owner that ends in the grace period is reaped, and the loop goes on.
GraceGoesOn ==
    /\ worker.pc = "grace"
    /\ WorkerGoto("kill")
    /\ HasExited \/ StillRuns
    /\ UNCHANGED <<client, control, data, setup, timer, events>>

\* The grace period: it ends with the owner, or when its time is over.
Grace ==
    /\ worker.pc = "grace"
    /\ \/ HasExited /\ WorkerGoto("exit")
       \/ StillRuns /\ WorkerGoto("kill")
    /\ UNCHANGED <<client, control, data, setup, timer, events>>

\* SIGKILL.  If that cannot be sent the worker leaves the owner to its
\* PR_SET_PDEATHSIG.
SendKill ==
    /\ worker.pc = "kill"
    /\ \/ owner' = [owner EXCEPT !.pc = "gone"] /\ WorkerGoto("reap") /\ UNCHANGED events
       \/ Event /\ WorkerGoto("exit") /\ UNCHANGED owner
    /\ UNCHANGED <<client, control, data, setup, timer>>

ReapKilled ==
    /\ worker.pc = "reap"
    /\ HasExited
    /\ WorkerGoto("exit")
    /\ UNCHANGED <<client, control, data, setup, timer, events>>

WorkerExit ==
    /\ worker.pc = "exit"
    /\ WorkerGone
    /\ UNCHANGED <<client, setup, timer, events>>

-----------------------------------------------------------------------------
(***************************************************************************)
(* The owner: owner_exec, and then xclip.                                  *)
(***************************************************************************)

\* A failure before exec is written to the error pipe.
ExecFailed ==
    /\ owner' = [owner EXCEPT !.pc = "gone", !.err = TRUE]
    /\ UNCHANGED <<client, worker, control, data, setup, timer>>

\* prctl(PR_SET_PDEATHSIG): from here the death of the worker is a signal.
Guard ==
    /\ owner.pc = "forked"
    /\ \/ /\ owner' = [owner EXCEPT !.pc = "guarded"]
          /\ UNCHANGED <<client, worker, control, data, setup, timer, events>>
       \/ ExecFailed /\ Event

\* A mutant: getppid is not compared.
ExecUnchecked ==
    /\ owner.pc = "guarded"
    /\ owner' = [owner EXCEPT !.pc = "reading"]
    /\ UNCHANGED <<client, worker, control, data, setup, timer, events>>

\* getppid() tells whether the worker died before that; then exec.
Exec ==
    /\ owner.pc = "guarded"
    /\ \/ /\ WorkerAlive
          /\ owner' = [owner EXCEPT !.pc = "reading"]
          /\ UNCHANGED <<client, worker, control, data, setup, timer, events>>
       \/ ~WorkerAlive /\ ExecFailed /\ UNCHANGED events
       \/ ExecFailed /\ Event

\* xclip reads to the end of its input and then owns the selection.
ReadInput ==
    /\ owner.pc = "reading"
    /\ \/ /\ data.inside > 0
          /\ data' = [data EXCEPT !.inside = @ - 1]
          /\ owner' = [owner EXCEPT !.got = @ + 1]
       \/ /\ data.inside = 0 /\ ~data.write
          /\ owner' = [owner EXCEPT !.pc = "holding"]
          /\ UNCHANGED data
    /\ UNCHANGED <<client, worker, control, setup, timer, events>>

\* SIGTERM ends the owner, in its own time.
ObeyTerm ==
    /\ OwnerAlive /\ owner.term
    /\ owner.pc \in {"reading", "holding"} => ~owner.deaf
    /\ owner' = [owner EXCEPT !.pc = "gone"]
    /\ UNCHANGED <<client, worker, control, data, setup, timer, events>>

\* Another program takes the selection, or the display goes away.
QuitByItself ==
    /\ owner.pc \in {"reading", "holding"}
    /\ owner' = [owner EXCEPT !.pc = "gone"]
    /\ UNCHANGED <<client, worker, control, data, setup, timer, events>>

-----------------------------------------------------------------------------
(***************************************************************************)
(* Time, and what may happen to any process.                               *)
(***************************************************************************)

Expire ==
    /\ timer = "armed" /\ WorkerAlive
    /\ timer' = "fired"
    /\ UNCHANGED <<client, worker, owner, control, data, setup, events>>

KillClient ==
    /\ client.pc \notin {"start", "done"}
    /\ Event
    /\ client' = [client EXCEPT !.pc = "done"]
    /\ CloseClient
    /\ UNCHANGED <<worker, owner, setup, timer>>

KillWorker == WorkerAlive /\ Event /\ WorkerGone /\ UNCHANGED <<client, setup, timer>>

\* SIGTERM, SIGINT or SIGHUP for the worker from outside.
StopWorker ==
    /\ worker.pc \notin {"none", "boot", "gone"} /\ ~worker.stop
    /\ Event
    /\ worker' \in Signalled(worker)
    /\ UNCHANGED <<client, owner, control, data, setup, timer>>

ClientStep ==
    \/ WaitForSetup \/ WaitForOwnerReady \/ WriteSecret \/ SendDone
    \/ WaitForOwnerAccepted \/ SignalWorker

WorkerStep ==
    \/ Boot \/ ReportSetup \/ WaitForStart \/ SpawnOwner \/ Spawned \/ WaitForDone
    \/ ArmTimer \/ CheckOwner \/ Accept \/ WaitForOwnerOrTimeout
    \/ TerminateOwner \/ SendTerm \/ Grace \/ SendKill \/ ReapKilled \/ WorkerExit

OwnerStep == Guard \/ Exec \/ ReadInput

Next ==
    \/ Prepare \/ GiveUp \/ Forget \/ SendStart
    \/ ClientStep \/ WorkerStep \/ OwnerStep
    \/ ObeyTerm \/ QuitByItself \/ Expire
    \/ KillClient \/ KillWorker \/ StopWorker

Spec == Init /\ [][Next]_vars

\* Running processes are scheduled, poll timeouts and the timer expire.  Nothing is
\* assumed of the user, who may leave a prepared job alone for ever.
FairSpec ==
    /\ Spec
    /\ WF_vars(ClientStep)
    /\ WF_vars(WorkerStep)
    /\ WF_vars(OwnerStep)
    /\ WF_vars(ObeyTerm)
    /\ WF_vars(Expire)

-----------------------------------------------------------------------------
(***************************************************************************)
(* Properties.                                                             *)
(***************************************************************************)

\* Every variable has its type; no queue holds more than the protocol puts there.
TypeOK ==
    /\ client \in [pc : ClientPCs, status : {"none", "OK", "ERR"}, pidfd : BOOLEAN]
    /\ worker \in [pc : WorkerPCs, stop : BOOLEAN, intr : BOOLEAN, pidfd : BOOLEAN]
    /\ owner \in [pc : OwnerPCs, term : BOOLEAN, err : BOOLEAN, got : 0..Chunks, deaf : BOOLEAN]
    /\ control.toWorker \in Seq(Messages) /\ Len(control.toWorker) <= 2
    /\ control.toClient \in Seq(Messages) /\ Len(control.toClient) <= 2
    /\ control.client \in BOOLEAN /\ control.worker \in BOOLEAN
    /\ data \in [write : BOOLEAN, read : BOOLEAN, sent : 0..Chunks, inside : 0..PipeCap]
    /\ setup \in {"none", "OK", "ERR"}
    /\ timer \in {"off", "armed", "fired"}
    /\ events \in 0..MaxEvents

\* A copy reported PV_OK has been delivered and will expire: the whole secret went
\* into the pipe, the owner that holds the selection holds all of it, and the timer
\* was set before the client heard ACCEPTED.
OkMeansDelivered ==
    client.status = "OK" =>
        /\ data.sent = Chunks
        /\ timer # "off"
        /\ owner.pc = "holding" => owner.got = Chunks

\* No owner outlives its worker: whenever the worker is gone, an owner that has
\* started has a SIGTERM waiting (PR_SET_PDEATHSIG and the comparison of getppid).
NoOrphan ==
    worker.pc = "gone" /\ owner.pc \in {"reading", "holding"} => owner.term

\* The worker never signals a process id that has been given back.  Between the
\* question whether the owner has exited and SIGTERM, in the grace period, and between
\* its last look and SIGKILL the owner may end at any moment; only the worker reaps it,
\* and after it has done so, there or in one of its waits, no signal follows.
NoStaleSignal ==
    worker.pc \in {"sigterm", "grace", "kill", "reap"} => owner.pc \notin {"none", "reaped"}

\* Once START is sent the client returns, whatever becomes of the others.
ClientReturns == client.pc = "ready" ~> client.pc = "done"

\* A worker does not outlive the job of a client that is done with it.
WorkerEnds == client.pc = "done" ~> worker.pc \in {"none", "gone"}

\* The selection is given up: every owner that was spawned ends.  One that ignores
\* SIGTERM is killed by its worker, so that it stays only if the worker could not:
\* if a call failed or the worker was killed itself.
OwnerEnds == OwnerAlive ~> ~OwnerAlive \/ (owner.deaf /\ events > 0)

\* No process of a copy waits for ever for another one, whatever fails, dies or
\* is slow on the way: client, worker and owner all end.
EverybodyEnds == ClientReturns /\ WorkerEnds /\ OwnerEnds
=============================================================================
