-------------------------- MODULE ClipboardProofs --------------------------
(***************************************************************************)
(* For a secret and a pipe of any size and any number of failures, kills   *)
(* and signals: the queues and the pipe stay within their bounds (TypeOK), *)
(* a copy that was reported PV_OK has been delivered whole and will expire *)
(* (OkMeansDelivered), an owner whose worker is gone has its SIGTERM       *)
(* (NoOrphan), and no reaped process is signalled (NoStaleSignal).         *)
(***************************************************************************)
EXTENDS Clipboard, TLAPS

Statuses == {"none", "OK", "ERR"}
ClientType == [pc : ClientPCs, status : Statuses, pidfd : BOOLEAN]
WorkerType == [pc : WorkerPCs, stop : BOOLEAN, intr : BOOLEAN, pidfd : BOOLEAN]
OwnerType == [pc : OwnerPCs, term : BOOLEAN, err : BOOLEAN, got : Nat, deaf : BOOLEAN]
ControlType ==
    [toWorker : Seq(Messages), toClient : Seq(Messages), client : BOOLEAN, worker : BOOLEAN]
DataType == [write : BOOLEAN, read : BOOLEAN, sent : 0..Chunks, inside : 0..PipeCap]

Types ==
    /\ client \in ClientType /\ worker \in WorkerType /\ owner \in OwnerType
    /\ control \in ControlType /\ data \in DataType
    /\ setup \in {"none", "OK", "ERR"}
    /\ timer \in {"off", "armed", "fired"}
    /\ events \in 0..MaxEvents

\* The worker is started by the client and the owner by the worker.
Stages ==
    /\ client.pc = "start" => worker.pc = "none"
    /\ worker.pc \in {"none", "boot", "report", "waitStart", "spawn"} => owner.pc = "none"

\* The client sends START and DONE, each once.
ToWorker ==
    /\ client.pc \in {"start", "setup", "prepared"} => Len(control.toWorker) = 0
    /\ client.pc \in {"ready", "write", "finish"} => Len(control.toWorker) <= 1
    /\ Len(control.toWorker) <= 2

\* The worker sends READY, then ACCEPTED or FAILED, or FAILED only.
ToClient ==
    /\ worker.pc \in {"none", "boot", "report", "waitStart", "spawn", "spawning"} =>
          Len(control.toClient) = 0
    /\ worker.pc \in {"waitDone", "arm", "check", "accept"} => Len(control.toClient) <= 1
    /\ Len(control.toClient) <= 2

\* ACCEPTED is sent once the timer has been set, and believed.
Accepted(q) == \E i \in 1..Len(q) : q[i] = "ACCEPTED"
Timed ==
    /\ worker.pc \in {"check", "accept"} => timer # "off"
    /\ Accepted(control.toClient) => timer # "off"
    /\ client.status = "OK" => client.pc = "done" /\ timer # "off"

\* Nothing is lost in the pipe: what was sent is inside or has been read; who
\* holds the selection has read to the end.
Pipe ==
    /\ owner.got + data.inside = data.sent
    /\ client.pc \in {"setup", "prepared", "ready", "write"} => data.write
    /\ client.pc \in {"finish", "accepted"} \/ client.status = "OK" => data.sent = Chunks
    /\ owner.pc = "holding" => data.inside = 0 /\ ~data.write

IInv == Types /\ Stages /\ ToWorker /\ ToClient /\ Timed /\ Pipe /\ NoOrphan

-----------------------------------------------------------------------------
(***************************************************************************)
(* The records and the queues.                                             *)
(***************************************************************************)
LEMMA ClientTyped ==
    ASSUME NEW c \in ClientType, NEW l \in ClientPCs, NEW s \in Statuses, NEW b \in BOOLEAN
    PROVE  /\ [c EXCEPT !.pc = l] \in ClientType
           /\ [c EXCEPT !.pc = l, !.status = s] \in ClientType
           /\ [c EXCEPT !.pc = l, !.pidfd = b] \in ClientType
BY Zenon DEF ClientType

LEMMA WorkerTyped ==
    ASSUME NEW w \in WorkerType, NEW l \in WorkerPCs, NEW b \in BOOLEAN
    PROVE  /\ [w EXCEPT !.pc = l] \in WorkerType
           /\ [w EXCEPT !.pc = l, !.pidfd = b] \in WorkerType
BY Zenon DEF WorkerType

LEMMA FlagsTyped ==
    ASSUME NEW w \in WorkerType, NEW b \in BOOLEAN
    PROVE  /\ [w EXCEPT !.stop = TRUE] \in WorkerType
           /\ [w EXCEPT !.stop = TRUE, !.intr = b] \in WorkerType
BY Zenon DEF WorkerType

LEMMA OwnerTyped ==
    ASSUME NEW o \in OwnerType, NEW l \in OwnerPCs
    PROVE  /\ [o EXCEPT !.pc = l] \in OwnerType
           /\ [o EXCEPT !.pc = l, !.err = TRUE] \in OwnerType
BY Zenon DEF OwnerType

LEMMA OwnerChanged ==
    ASSUME NEW o \in OwnerType
    PROVE  /\ [o EXCEPT !.term = TRUE] \in OwnerType
           /\ [o EXCEPT !.got = @ + 1] \in OwnerType
<1>1. o.got + 1 \in Nat
    BY DEF OwnerType
<1> QED BY Zenon, <1>1 DEF OwnerType

LEMMA QueuesTyped ==
    ASSUME NEW c \in ControlType, NEW q \in Seq(Messages)
    PROVE  /\ [c EXCEPT !.toWorker = q] \in ControlType
           /\ [c EXCEPT !.toClient = q] \in ControlType
           /\ [c EXCEPT !.toClient = q, !.worker = FALSE] \in ControlType
BY Zenon DEF ControlType

LEMMA EndsTyped ==
    ASSUME NEW c \in ControlType, NEW b \in BOOLEAN
    PROVE  /\ [c EXCEPT !.client = b] \in ControlType
           /\ [c EXCEPT !.worker = b] \in ControlType
           /\ [c EXCEPT !.client = b, !.worker = b] \in ControlType
BY Zenon DEF ControlType

LEMMA DataTyped ==
    ASSUME NEW x \in DataType, NEW b \in BOOLEAN
    PROVE  /\ [x EXCEPT !.write = b] \in DataType
           /\ [x EXCEPT !.read = b] \in DataType
           /\ [x EXCEPT !.write = b, !.read = b] \in DataType
           /\ x.sent < Chunks /\ x.inside < PipeCap =>
                 [x EXCEPT !.sent = @ + 1, !.inside = @ + 1] \in DataType
           /\ x.inside > 0 => [x EXCEPT !.inside = @ - 1] \in DataType
<1>1. /\ x.sent < Chunks => x.sent + 1 \in 0..Chunks
      /\ x.inside < PipeCap => x.inside + 1 \in 0..PipeCap
      /\ x.inside > 0 => x.inside - 1 \in 0..PipeCap
    BY ClipboardAssumption DEF DataType
<1> QED BY Zenon, <1>1 DEF DataType

LEMMA QueueGrows ==
    ASSUME NEW q \in Seq(Messages), NEW m \in Messages
    PROVE  /\ Append(q, m) \in Seq(Messages)
           /\ Len(q) \in Nat /\ Len(Append(q, m)) = Len(q) + 1
           /\ Accepted(Append(q, m)) => Accepted(q) \/ m = "ACCEPTED"
<1>1. /\ Append(q, m) \in Seq(Messages)
      /\ Len(q) \in Nat /\ Len(Append(q, m)) = Len(q) + 1
      /\ \A i \in 1..Len(q) + 1 : Append(q, m)[i] = IF i <= Len(q) THEN q[i] ELSE m
    OBVIOUS
<1> QED BY <1>1 DEF Accepted

LEMMA QueueShrinks ==
    ASSUME NEW q \in Seq(Messages), q # <<>>
    PROVE  /\ Tail(q) \in Seq(Messages)
           /\ Len(q) \in Nat \ {0} /\ Len(Tail(q)) = Len(q) - 1
           /\ Head(q) \in Messages
           /\ Head(q) = "ACCEPTED" \/ Accepted(Tail(q)) => Accepted(q)
<1>1. /\ Tail(q) \in Seq(Messages)
      /\ Len(q) \in Nat \ {0} /\ Len(Tail(q)) = Len(q) - 1
      /\ Head(q) = q[1] /\ q[1] \in Messages
      /\ \A i \in 1..Len(q) - 1 : Tail(q)[i] = q[i + 1]
    OBVIOUS
<1> QED BY <1>1 DEF Accepted

-----------------------------------------------------------------------------
LEMMA InitIInv == Init => IInv
<1> SUFFICES ASSUME Init PROVE IInv
    BY Zenon
<1> USE ClipboardAssumption DEF Init
<1>1. client \in ClientType /\ worker \in WorkerType
    BY Zenon DEF ClientType, WorkerType, ClientPCs, WorkerPCs, Statuses
<1>2. owner \in OwnerType
  <2>1. {"none"} \subseteq OwnerPCs /\ {FALSE} \subseteq BOOLEAN /\ {0} \subseteq Nat
      BY DEF OwnerPCs
  <2> QED BY Zenon, <2>1 DEF OwnerType
<1>3. control \in ControlType /\ data \in DataType
  <2>1. <<>> \in Seq(Messages) /\ 0 \in 0..Chunks /\ 0 \in 0..PipeCap
      BY ClipboardAssumption
  <2>2. control \in ControlType
      BY Zenon, <2>1 DEF ControlType
  <2>3. data \in DataType
      BY Zenon, <2>1 DEF DataType
  <2> QED BY Zenon, <2>2, <2>3
<1>4. Types
    BY <1>1, <1>2, <1>3 DEF Types
<1>5. Stages /\ NoOrphan
    BY Zenon DEF Stages, NoOrphan
<1>6. ToWorker /\ ToClient /\ Timed
    BY DEF ToWorker, ToClient, Timed, Accepted
<1>7. Pipe
    BY DEF Pipe
<1> QED BY Zenon, <1>4, <1>5, <1>6, <1>7 DEF IInv

\* The client closes its ends, on whatever way out.
LEMMA ClientCloses ==
    ASSUME IInv, CloseClient, UNCHANGED <<worker, owner, setup, timer>>,
           events' \in 0..MaxEvents,
           client' \in ClientType, client.pc # "start", client'.pc \in {"signal", "done"},
           client'.status = "OK" => /\ client'.pc = "done" /\ timer # "off"
                                    /\ data.sent = Chunks
    PROVE  IInv'
<1>1. /\ control' \in ControlType /\ data' \in DataType
      /\ control'.toWorker = control.toWorker /\ control'.toClient = control.toClient
      /\ data'.sent = data.sent /\ data'.inside = data.inside /\ data'.write = FALSE
  <2>1. control' \in ControlType /\ data' \in DataType
      BY Zenon, EndsTyped, DataTyped DEF CloseClient, IInv, Types
  <2>2. control'.toWorker = control.toWorker /\ control'.toClient = control.toClient
      BY Zenon DEF CloseClient, IInv, Types, ControlType
  <2>3. data'.sent = data.sent /\ data'.inside = data.inside /\ data'.write = FALSE
      BY Zenon DEF CloseClient, IInv, Types, DataType
  <2> QED BY Zenon, <2>1, <2>2, <2>3
<1>2. Types'
    BY Zenon, <1>1 DEF IInv, Types
<1>3. Stages' /\ NoOrphan'
    BY Zenon DEF IInv, Stages, NoOrphan
<1>4. ToWorker' /\ ToClient'
    BY Zenon, <1>1 DEF IInv, ToWorker, ToClient
<1>5. Timed'
    BY Zenon, <1>1 DEF IInv, Timed
<1>6. Pipe'
    BY Zenon, <1>1 DEF IInv, Pipe
<1> QED BY Zenon, <1>2, <1>3, <1>4, <1>5, <1>6 DEF IInv

LEMMA CancelStep ==
    ASSUME IInv, Cancel, client.pc # "start", events' \in 0..MaxEvents
    PROVE  IInv'
<1>1. client' \in ClientType /\ client'.pc = "signal" /\ client'.status = "ERR"
  <2>1. client' \in ClientType
      BY Zenon, ClientTyped DEF Cancel, IInv, Types, ClientPCs, Statuses
  <2>2. client'.pc = "signal" /\ client'.status = "ERR"
      BY Zenon DEF Cancel, IInv, Types, ClientType
  <2> QED BY Zenon, <2>1, <2>2
<1> QED BY Zenon, <1>1, ClientCloses DEF Cancel

LEMMA EventBound == IInv /\ (Event \/ UNCHANGED events) => events' \in 0..MaxEvents
BY ClipboardAssumption DEF Event, IInv, Types

LEMMA PrepareStep == ASSUME IInv, Prepare PROVE IInv'
<1>0. client.pc = "start" /\ worker.pc = "none" /\ owner.pc = "none"
    BY Zenon DEF Prepare, IInv, Stages
<1>1. CASE client' = [client EXCEPT !.pc = "done", !.status = "ERR"] /\ Event /\ UNCHANGED <<worker, control, data>>
  <2>1. client' \in ClientType
      BY Zenon, <1>1, ClientTyped DEF IInv, Types, ClientPCs, Statuses
  <2>2. client'.pc = "done" /\ client'.status = "ERR"
      BY Zenon, <1>1 DEF IInv, Types, ClientType
  <2>3. events' \in 0..MaxEvents
      BY Zenon, <1>1, EventBound
  <2>4. UNCHANGED <<worker, control, data, owner, setup, timer>>
      BY Zenon, <1>1 DEF Prepare
  <2>5. Types'
      BY Zenon, <2>1, <2>3, <2>4 DEF IInv, Types
  <2>6. Stages' /\ NoOrphan' /\ ToWorker' /\ ToClient' /\ Timed' /\ Pipe'
      BY Zenon, <2>2, <2>4 DEF IInv, Stages, NoOrphan, ToWorker, ToClient, Timed, Pipe
  <2> QED BY Zenon, <2>5, <2>6 DEF IInv
<1>2. CASE /\ ClientGoto("setup")
           /\ worker' = [worker EXCEPT !.pc = "boot"]
           /\ control' = [control EXCEPT !.client = TRUE, !.worker = TRUE]
           /\ data' = [data EXCEPT !.write = TRUE, !.read = TRUE]
           /\ UNCHANGED events
  <2>1. client' \in ClientType /\ worker' \in WorkerType
    <3>1. client' \in ClientType
        BY Zenon, <1>2, ClientTyped DEF IInv, Types, ClientGoto, ClientPCs, Statuses
    <3>2. worker' \in WorkerType
        BY Zenon, <1>2, WorkerTyped DEF IInv, Types, WorkerPCs
    <3> QED BY Zenon, <3>1, <3>2
  <2>2. control' \in ControlType /\ data' \in DataType
      BY Zenon, <1>2, EndsTyped, DataTyped DEF IInv, Types
  <2>3. client'.pc = "setup" /\ client'.status = client.status /\ worker'.pc = "boot"
      BY Zenon, <1>2 DEF IInv, Types, ClientGoto, ClientType, WorkerType
  <2>4. control'.toWorker = control.toWorker /\ control'.toClient = control.toClient
      BY Zenon, <1>2 DEF IInv, Types, ControlType
  <2>5. data'.sent = data.sent /\ data'.inside = data.inside /\ data'.write = TRUE
      BY Zenon, <1>2 DEF IInv, Types, DataType
  <2>6. UNCHANGED <<owner, setup, timer, events>>
      BY Zenon, <1>2 DEF Prepare
  <2>7. Types'
      BY Zenon, <2>1, <2>2, <2>6 DEF IInv, Types
  <2>8. Stages' /\ NoOrphan' /\ ToWorker' /\ ToClient' /\ Timed' /\ Pipe'
      BY Zenon, <1>0, <2>3, <2>4, <2>5, <2>6 DEF IInv, Stages, NoOrphan, ToWorker, ToClient, Timed, Pipe
  <2> QED BY Zenon, <2>7, <2>8 DEF IInv
<1> QED BY Zenon, <1>1, <1>2 DEF Prepare

LEMMA WaitForSetupStep == ASSUME IInv, WaitForSetup PROVE IInv'
<1>1. CASE setup = "OK" /\ \E opened \in BOOLEAN :
                client' = [client EXCEPT !.pc = "prepared", !.pidfd = opened]
  <2>0. client.pc = "setup" /\ UNCHANGED <<worker, owner, control, data, setup, timer, events>>
      BY Zenon, <1>1 DEF WaitForSetup
  <2>1. client' \in ClientType
      BY Zenon, <1>1, ClientTyped DEF IInv, Types, ClientPCs, Statuses
  <2>2. client'.pc = "prepared" /\ client'.status = client.status
      BY Zenon, <1>1 DEF IInv, Types, ClientType
  <2>3. Types'
      BY Zenon, <2>0, <2>1 DEF IInv, Types
  <2>4. Stages' /\ NoOrphan' /\ ToWorker' /\ ToClient' /\ Timed' /\ Pipe'
      BY Zenon, <2>0, <2>2 DEF IInv, Stages, NoOrphan, ToWorker, ToClient, Timed, Pipe
  <2> QED BY Zenon, <2>3, <2>4 DEF IInv
<1>2. CASE client' = [client EXCEPT !.pc = "done", !.status = "ERR"] /\ CloseClient
  <2>1. client' \in ClientType
      BY Zenon, <1>2, ClientTyped DEF IInv, Types, ClientPCs, Statuses
  <2>2. client'.pc = "done" /\ client'.status = "ERR"
      BY Zenon, <1>2 DEF IInv, Types, ClientType
  <2> QED BY Zenon, <1>2, <2>1, <2>2, ClientCloses, EventBound DEF WaitForSetup
<1> QED BY Zenon, <1>1, <1>2 DEF WaitForSetup

LEMMA ForgetStep == ASSUME IInv, Forget PROVE IInv'
<1>1. client' \in ClientType
    BY Zenon, ClientTyped DEF Forget, IInv, Types, ClientPCs, Statuses
<1>2. client'.pc = "done" /\ client'.status = "ERR"
    BY Zenon DEF Forget, IInv, Types, ClientType
<1> QED BY Zenon, <1>1, <1>2, ClientCloses, EventBound DEF Forget

LEMMA KillClientStep == ASSUME IInv, KillClient PROVE IInv'
<1>1. client' \in ClientType
    BY Zenon, ClientTyped DEF KillClient, IInv, Types, ClientPCs, Statuses
<1>2. client'.pc = "done" /\ client'.status = client.status /\ client.status # "OK"
    BY Zenon DEF KillClient, IInv, Types, ClientType, Timed
<1> QED BY Zenon, <1>1, <1>2, ClientCloses, EventBound DEF KillClient

LEMMA ClientSendsStep ==
    ASSUME IInv, NEW m \in {"START", "DONE"}, NEW l \in {"ready", "accepted"}, ClientSends(m, l),
           \/ client.pc = "prepared" /\ l = "ready"
           \/ client.pc = "finish" /\ l = "accepted"
    PROVE  IInv'
<1>1. CASE Cancel /\ UNCHANGED events
    BY Zenon, <1>1, CancelStep, EventBound
<1>2. CASE /\ control' = [control EXCEPT !.toWorker = Append(@, m)]
           /\ ClientGoto(l)
           /\ UNCHANGED <<worker, owner, data, setup, timer, events>>
  <2>0. control.toWorker \in Seq(Messages) /\ m \in Messages
      BY Zenon DEF IInv, Types, ControlType, Messages
  <2>1. /\ Append(control.toWorker, m) \in Seq(Messages)
        /\ Len(Append(control.toWorker, m)) = Len(control.toWorker) + 1
        /\ Len(control.toWorker) \in Nat
      BY Zenon, <2>0, QueueGrows
  <2>2. control' \in ControlType
      BY Zenon, <1>2, <2>1, QueuesTyped DEF IInv, Types
  <2>3. client' \in ClientType
      BY Zenon, <1>2, ClientTyped DEF IInv, Types, ClientGoto, ClientPCs, Statuses
  <2>4. client'.pc = l /\ client'.status = client.status
      BY Zenon, <1>2 DEF IInv, Types, ClientGoto, ClientType
  <2>5. /\ control'.toWorker = Append(control.toWorker, m)
        /\ control'.toClient = control.toClient
      BY Zenon, <1>2 DEF IInv, Types, ControlType
  <2>6. Types'
      BY Zenon, <1>2, <2>2, <2>3 DEF IInv, Types
  <2>7. Stages' /\ NoOrphan' /\ ToClient' /\ Timed' /\ Pipe'
      BY Zenon, <1>2, <2>4, <2>5 DEF IInv, Stages, NoOrphan, ToClient, Timed, Pipe
  <2>8. ToWorker'
      BY <2>1, <2>4, <2>5 DEF IInv, ToWorker
  <2> QED BY Zenon, <2>6, <2>7, <2>8 DEF IInv
<1> QED BY Zenon, <1>1, <1>2 DEF ClientSends

LEMMA WaitForOwnerReadyStep == ASSUME IInv, WaitForOwnerReady PROVE IInv'
<1>1. CASE Cancel /\ UNCHANGED events
    BY Zenon, <1>1, CancelStep, EventBound DEF WaitForOwnerReady
<1>2. CASE /\ Received("READY")
           /\ control' = [control EXCEPT !.toClient = Tail(@)]
           /\ ClientGoto("write")
           /\ UNCHANGED <<worker, owner, data, setup, timer, events>>
  <2>0. control.toClient \in Seq(Messages) /\ control.toClient # <<>>
      BY Zenon, <1>2 DEF IInv, Types, ControlType, Received
  <2>1. /\ Tail(control.toClient) \in Seq(Messages)
        /\ Len(control.toClient) \in Nat \ {0}
        /\ Len(Tail(control.toClient)) = Len(control.toClient) - 1
        /\ Accepted(Tail(control.toClient)) => Accepted(control.toClient)
      BY Zenon, <2>0, QueueShrinks
  <2>2. control' \in ControlType
      BY Zenon, <1>2, <2>1, QueuesTyped DEF IInv, Types
  <2>3. client' \in ClientType
      BY Zenon, <1>2, ClientTyped DEF IInv, Types, ClientGoto, ClientPCs, Statuses
  <2>4. client'.pc = "write" /\ client'.status = client.status
      BY Zenon, <1>2 DEF IInv, Types, ClientGoto, ClientType
  <2>5. control'.toWorker = control.toWorker /\ control'.toClient = Tail(control.toClient)
      BY Zenon, <1>2 DEF IInv, Types, ControlType
  <2>6. Types'
      BY Zenon, <1>2, <2>2, <2>3 DEF IInv, Types
  <2>7. Stages' /\ NoOrphan' /\ ToWorker' /\ Pipe'
      BY Zenon, <1>2, <2>4, <2>5 DEF WaitForOwnerReady, IInv, Stages, NoOrphan, ToWorker, Pipe
  <2>8. ToClient' /\ Timed'
      BY <1>2, <2>1, <2>4, <2>5 DEF WaitForOwnerReady, IInv, ToClient, Timed
  <2> QED BY Zenon, <2>6, <2>7, <2>8 DEF IInv
<1> QED BY Zenon, <1>1, <1>2 DEF WaitForOwnerReady

LEMMA WriteSecretStep == ASSUME IInv, WriteSecret PROVE IInv'
<1>0. client.pc = "write" /\ client.status # "OK" /\ data.write
    BY Zenon DEF WriteSecret, IInv, Timed, Pipe
<1>1. CASE Cancel /\ (UNCHANGED events \/ Event)
    BY Zenon, <1>0, <1>1, CancelStep, EventBound
<1>2. CASE /\ Remaining /\ data.inside < PipeCap
           /\ data' = [data EXCEPT !.sent = @ + 1, !.inside = @ + 1]
           /\ UNCHANGED <<client, worker, owner, control, setup, timer, events>>
  <2>1. data' \in DataType
      BY Zenon, <1>2, DataTyped DEF IInv, Types, Remaining
  <2>2. /\ data'.sent = data.sent + 1 /\ data'.inside = data.inside + 1
        /\ data'.write = data.write
      BY Zenon, <1>2 DEF IInv, Types, DataType
  <2>3. Types'
      BY Zenon, <1>2, <2>1 DEF IInv, Types
  <2>4. Stages' /\ NoOrphan' /\ ToWorker' /\ ToClient' /\ Timed'
      BY Zenon, <1>2 DEF IInv, Stages, NoOrphan, ToWorker, ToClient, Timed
  <2>5. owner.got \in Nat /\ data.sent \in Nat /\ data.inside \in Nat
      BY ClipboardAssumption DEF IInv, Types, OwnerType, DataType
  <2>6. Pipe'
      BY <1>0, <1>2, <2>2, <2>5 DEF IInv, Pipe
  <2> QED BY Zenon, <2>3, <2>4, <2>6 DEF IInv
<1>3. CASE /\ ~Remaining
           /\ data' = [data EXCEPT !.write = FALSE]
           /\ ClientGoto("finish")
           /\ UNCHANGED <<worker, owner, control, setup, timer, events>>
  <2>1. data' \in DataType
      BY Zenon, <1>3, DataTyped DEF IInv, Types
  <2>2. /\ data'.sent = data.sent /\ data'.inside = data.inside /\ data'.write = FALSE
        /\ data.sent = Chunks
      BY <1>3, ClipboardAssumption DEF IInv, Types, DataType, Remaining
  <2>3. client' \in ClientType
      BY Zenon, <1>3, ClientTyped DEF IInv, Types, ClientGoto, ClientPCs, Statuses
  <2>4. client'.pc = "finish" /\ client'.status = client.status
      BY Zenon, <1>3 DEF IInv, Types, ClientGoto, ClientType
  <2>5. Types'
      BY Zenon, <1>3, <2>1, <2>3 DEF IInv, Types
  <2>6. Stages' /\ NoOrphan' /\ ToWorker' /\ ToClient' /\ Timed'
      BY Zenon, <1>0, <1>3, <2>4 DEF IInv, Stages, NoOrphan, ToWorker, ToClient, Timed
  <2>7. Pipe'
      BY Zenon, <1>0, <1>3, <2>2, <2>4 DEF IInv, Pipe
  <2> QED BY Zenon, <2>5, <2>6, <2>7 DEF IInv
<1> QED BY Zenon, <1>1, <1>2, <1>3 DEF WriteSecret

LEMMA WaitForOwnerAcceptedStep == ASSUME IInv, WaitForOwnerAccepted PROVE IInv'
<1>0. client.pc = "accepted" /\ data.sent = Chunks
    BY Zenon DEF WaitForOwnerAccepted, IInv, Pipe
<1>1. CASE Cancel /\ UNCHANGED events
    BY Zenon, <1>0, <1>1, CancelStep, EventBound
<1>2. CASE /\ Received("ACCEPTED")
           /\ client' = [client EXCEPT !.pc = "done", !.status = "OK"]
           /\ CloseClient
           /\ UNCHANGED <<worker, owner, setup, timer, events>>
  <2>1. client' \in ClientType
      BY Zenon, <1>2, ClientTyped DEF IInv, Types, ClientPCs, Statuses
  <2>2. client'.pc = "done" /\ client'.status = "OK"
      BY Zenon, <1>2 DEF IInv, Types, ClientType
  <2>3. timer # "off"
    <3>1. control.toClient \in Seq(Messages) /\ control.toClient # <<>>
          /\ Head(control.toClient) = "ACCEPTED"
        BY Zenon, <1>2 DEF IInv, Types, ControlType, Received
    <3> QED BY Zenon, <3>1, QueueShrinks DEF IInv, Timed
  <2> QED BY Zenon, <1>0, <1>2, <2>1, <2>2, <2>3, ClientCloses, EventBound
<1> QED BY Zenon, <1>1, <1>2 DEF WaitForOwnerAccepted

\* A signal changes nothing but the worker's flags.
LEMMA SignalledFlags ==
    ASSUME NEW w \in WorkerType, NEW v \in Signalled(w)
    PROVE  v \in WorkerType /\ v.pc = w.pc
<1>1. CASE w.pc \in {"none", "gone"}
    BY Zenon, <1>1 DEF Signalled
<1>2. CASE w.pc \in {"waitStart", "waitDone", "waitEnd"}
  <2>0. Signalled(w) = {[w EXCEPT !.stop = TRUE, !.intr = b] : b \in BOOLEAN}
      BY Zenon, <1>2, w.pc \notin {"none", "gone"} DEF Signalled
  <2>1. PICK b \in BOOLEAN : v = [w EXCEPT !.stop = TRUE, !.intr = b]
      BY Zenon, <2>0
  <2>2. v \in WorkerType
      BY Zenon, <2>1, FlagsTyped
  <2> QED BY Zenon, <2>1, <2>2 DEF WorkerType
<1>3. CASE w.pc \notin {"none", "gone", "waitStart", "waitDone", "waitEnd"}
  <2>1. v = [w EXCEPT !.stop = TRUE]
    <3>1. Signalled(w) = {[w EXCEPT !.stop = TRUE]}
        BY Zenon, <1>3, w.pc \notin {"none", "gone"}, w.pc \notin {"waitStart", "waitDone", "waitEnd"}
           DEF Signalled
    <3> QED BY Zenon, <3>1
  <2>2. v \in WorkerType
      BY Zenon, <2>1, FlagsTyped
  <2> QED BY Zenon, <2>1, <2>2 DEF WorkerType
<1> QED BY Zenon, <1>1, <1>2, <1>3

LEMMA SignalWorkerStep == ASSUME IInv, SignalWorker PROVE IInv'
<1>1. worker' \in WorkerType /\ worker'.pc = worker.pc
    BY Zenon, SignalledFlags DEF SignalWorker, IInv, Types
<1>2. client' \in ClientType
    BY Zenon, ClientTyped DEF SignalWorker, ClientGoto, IInv, Types, ClientPCs, Statuses
<1>3. client.pc = "signal" /\ client'.pc = "done" /\ client'.status = client.status
    BY Zenon DEF SignalWorker, ClientGoto, IInv, Types, ClientType
<1>4. UNCHANGED <<owner, control, data, setup, timer, events>>
    BY Zenon DEF SignalWorker
<1>5. Types'
    BY Zenon, <1>1, <1>2, <1>4 DEF IInv, Types
<1>6. Stages' /\ NoOrphan' /\ ToWorker' /\ ToClient' /\ Timed' /\ Pipe'
    BY Zenon, <1>1, <1>3, <1>4 DEF IInv, Stages, NoOrphan, ToWorker, ToClient, Timed, Pipe
<1> QED BY Zenon, <1>5, <1>6 DEF IInv

LEMMA StopWorkerStep == ASSUME IInv, StopWorker PROVE IInv'
<1>1. worker' \in WorkerType /\ worker'.pc = worker.pc
    BY Zenon, SignalledFlags DEF StopWorker, IInv, Types
<1>2. UNCHANGED <<client, owner, control, data, setup, timer>> /\ events' \in 0..MaxEvents
    BY Zenon, EventBound DEF StopWorker
<1>3. Types'
    BY Zenon, <1>1, <1>2 DEF IInv, Types
<1>4. Stages' /\ NoOrphan' /\ ToWorker' /\ ToClient' /\ Timed' /\ Pipe'
    BY Zenon, <1>1, <1>2 DEF IInv, Stages, NoOrphan, ToWorker, ToClient, Timed, Pipe
<1> QED BY Zenon, <1>3, <1>4 DEF IInv

-----------------------------------------------------------------------------
(***************************************************************************)
(* The worker.                                                             *)
(***************************************************************************)

\* What every step of the worker respects.
LEMMA WorkerMoves ==
    ASSUME IInv, Types', UNCHANGED client, worker.pc # "none", NoOrphan', ToClient',
           worker'.pc \in {"none", "boot", "report", "waitStart", "spawn"} => owner'.pc = "none",
           worker'.pc \in {"check", "accept"} \/ Accepted(control'.toClient) \/ timer # "off"
               => timer' # "off",
           Len(control'.toWorker) <= Len(control.toWorker),
           data'.sent = data.sent, data'.inside = data.inside, data'.write = data.write,
           owner'.got = owner.got, owner'.pc = "holding" => owner.pc = "holding"
    PROVE  IInv'
<1>1. Stages' /\ Timed'
    BY Zenon DEF IInv, Stages, Timed
<1>2. ToWorker'
  <2>1. Len(control.toWorker) \in Nat /\ Len(control'.toWorker) \in Nat
      BY DEF IInv, Types, ControlType
  <2> QED BY <2>1 DEF IInv, ToWorker
<1>3. Pipe'
    BY Zenon DEF IInv, Pipe
<1> QED BY Zenon, <1>1, <1>2, <1>3 DEF IInv

\* A step of the worker alone.
LEMMA WorkerAlone ==
    ASSUME IInv, worker' \in WorkerType, UNCHANGED <<client, owner, control, data, timer>>,
           setup' \in {"none", "OK", "ERR"}, events' \in 0..MaxEvents,
           worker.pc # "none", worker'.pc # "none", worker'.pc # "gone",
           worker'.pc \in {"boot", "report", "waitStart", "spawn"} => owner.pc = "none",
           worker'.pc \in {"boot", "report", "waitStart", "spawn", "spawning"} =>
               Len(control.toClient) = 0,
           worker'.pc \in {"waitDone", "arm", "check", "accept"} => Len(control.toClient) <= 1,
           worker'.pc \in {"check", "accept"} => timer # "off"
    PROVE  IInv'
<1>1. Types'
    BY Zenon DEF IInv, Types
<1>2. NoOrphan' /\ ToClient'
    BY Zenon DEF NoOrphan, IInv, ToClient
<1>3. Accepted(control'.toClient) => timer' # "off"
    BY Zenon DEF IInv, Timed
<1>4. Len(control'.toWorker) <= Len(control.toWorker)
    BY DEF IInv, Types, ControlType
<1> QED BY Zenon, <1>1, <1>2, <1>3, <1>4, WorkerMoves

\* FAILED is sent if the client is there, and the cleanup follows.
LEMMA FailedEffect ==
    ASSUME IInv, Failed, Len(control.toClient) <= 1
    PROVE  /\ worker' \in WorkerType /\ worker'.pc = "term"
           /\ control' \in ControlType /\ control'.toWorker = control.toWorker
           /\ Len(control'.toClient) <= 2
           /\ Accepted(control'.toClient) => Accepted(control.toClient)
<1>1. worker' \in WorkerType
    BY Zenon, WorkerTyped DEF Failed, WorkerGoto, IInv, Types, WorkerPCs
<1>2. worker'.pc = "term"
    BY Zenon DEF Failed, WorkerGoto, IInv, Types, WorkerType
<1>3. control.toClient \in Seq(Messages) /\ "FAILED" \in Messages
    BY Zenon DEF IInv, Types, ControlType, Messages
<1>4. CASE control' = control
    BY <1>1, <1>2, <1>3, <1>4 DEF IInv, Types
<1>5. CASE control' = [control EXCEPT !.toClient = Append(@, "FAILED")]
  <2>1. /\ Append(control.toClient, "FAILED") \in Seq(Messages)
        /\ Len(control.toClient) \in Nat
        /\ Len(Append(control.toClient, "FAILED")) = Len(control.toClient) + 1
        /\ Accepted(Append(control.toClient, "FAILED")) => Accepted(control.toClient)
      BY Zenon, <1>3, QueueGrows
  <2>2. control' \in ControlType
      BY Zenon, <1>5, <2>1, QueuesTyped DEF IInv, Types
  <2>3. /\ control'.toWorker = control.toWorker
        /\ control'.toClient = Append(control.toClient, "FAILED")
      BY Zenon, <1>5 DEF IInv, Types, ControlType
  <2> QED BY <1>1, <1>2, <2>1, <2>2, <2>3
<1> QED BY Zenon, <1>4, <1>5 DEF Failed

\* A step that fails.
LEMMA FailedStep ==
    ASSUME IInv, Failed, Len(control.toClient) <= 1, worker.pc # "none",
           owner' \in OwnerType, owner'.got = owner.got,
           owner'.pc = "holding" => owner.pc = "holding",
           data' \in DataType, data'.sent = data.sent, data'.inside = data.inside,
           data'.write = data.write,
           UNCHANGED <<client, setup, timer>>, events' \in 0..MaxEvents
    PROVE  IInv'
<1>1. /\ worker' \in WorkerType /\ worker'.pc = "term"
      /\ control' \in ControlType /\ control'.toWorker = control.toWorker
      /\ Len(control'.toClient) <= 2
      /\ Accepted(control'.toClient) => Accepted(control.toClient)
    BY Zenon, FailedEffect
<1>2. Types'
    BY Zenon, <1>1 DEF IInv, Types
<1>3. NoOrphan' /\ ToClient'
    BY Zenon, <1>1 DEF NoOrphan, ToClient
<1>4. Accepted(control'.toClient) => timer' # "off"
    BY Zenon, <1>1 DEF IInv, Timed
<1>5. Len(control'.toWorker) <= Len(control.toWorker)
    BY <1>1 DEF IInv, Types, ControlType
<1> QED BY Zenon, <1>1, <1>2, <1>3, <1>4, <1>5, WorkerMoves

LEMMA BootStep == ASSUME IInv, Boot PROVE IInv'
<1>1. worker' \in WorkerType
    BY Zenon, WorkerTyped DEF Boot, WorkerGoto, IInv, Types, WorkerPCs
<1>2. worker.pc = "boot" /\ worker'.pc \in {"report", "exit"}
    BY Zenon DEF Boot, WorkerGoto, IInv, Types, WorkerType
<1>3. UNCHANGED <<client, owner, control, data, timer>> /\ setup' \in {"none", "OK", "ERR"}
    BY Zenon DEF Boot, IInv, Types
<1>4. events' \in 0..MaxEvents
    BY Zenon, EventBound DEF Boot
<1> QED BY Zenon, <1>1, <1>2, <1>3, <1>4, WorkerAlone DEF IInv, Stages, ToClient

LEMMA ReportSetupStep == ASSUME IInv, ReportSetup PROVE IInv'
<1>1. worker' \in WorkerType
    BY Zenon, WorkerTyped DEF ReportSetup, WorkerGoto, IInv, Types, WorkerPCs
<1>2. worker.pc = "report" /\ worker'.pc \in {"waitStart", "exit"}
    BY Zenon DEF ReportSetup, WorkerGoto, IInv, Types, WorkerType
<1>3. UNCHANGED <<client, owner, control, data, timer, events>> /\ setup' \in {"none", "OK", "ERR"}
    BY Zenon DEF ReportSetup, IInv, Types
<1> QED BY Zenon, <1>1, <1>2, <1>3, WorkerAlone, EventBound DEF IInv, Stages, ToClient

\* The first message is taken out of the queue.
LEMMA Taken ==
    ASSUME IInv, control.toWorker # <<>>, control' = [control EXCEPT !.toWorker = Tail(@)]
    PROVE  /\ control' \in ControlType /\ control'.toClient = control.toClient
           /\ Len(control'.toWorker) <= Len(control.toWorker)
<1>1. control.toWorker \in Seq(Messages)
    BY Zenon DEF IInv, Types, ControlType
<1>2. /\ Tail(control.toWorker) \in Seq(Messages) /\ Len(control.toWorker) \in Nat
      /\ Len(Tail(control.toWorker)) = Len(control.toWorker) - 1
    BY Zenon, <1>1, QueueShrinks
<1>3. control' \in ControlType
    BY Zenon, <1>2, QueuesTyped DEF IInv, Types
<1>4. control'.toClient = control.toClient /\ control'.toWorker = Tail(control.toWorker)
    BY Zenon DEF IInv, Types, ControlType
<1> QED BY <1>2, <1>3, <1>4

LEMMA WaitForStartStep == ASSUME IInv, WaitForStart PROVE IInv'
<1>1. worker' \in WorkerType
    BY Zenon, WorkerTyped DEF WaitForStart, WorkerGoto, IInv, Types, WorkerPCs
<1>2. worker.pc = "waitStart" /\ worker'.pc \in {"term", "spawn"}
    BY Zenon DEF WaitForStart, WorkerGoto, IInv, Types, WorkerType
<1>3. UNCHANGED <<client, owner, data, setup, timer, events>>
    BY Zenon DEF WaitForStart
<1>4. CASE control' = control
    BY Zenon, <1>1, <1>2, <1>3, <1>4, WorkerAlone, EventBound DEF IInv, Stages, ToClient, Types
<1>5. CASE control.toWorker # <<>> /\ control' = [control EXCEPT !.toWorker = Tail(@)]
  <2>1. /\ control' \in ControlType /\ control'.toClient = control.toClient
        /\ Len(control'.toWorker) <= Len(control.toWorker)
      BY Zenon, <1>5, Taken
  <2>2. Types'
      BY Zenon, <1>1, <1>3, <2>1 DEF IInv, Types
  <2>3. NoOrphan' /\ ToClient' /\ owner'.pc = "none"
      BY Zenon, <1>2, <1>3, <2>1 DEF IInv, NoOrphan, ToClient, Stages
  <2>4. worker'.pc \in {"check", "accept"} \/ Accepted(control'.toClient) \/ timer # "off"
               => timer' # "off"
      BY Zenon, <1>2, <1>3, <2>1 DEF IInv, Timed
  <2> QED BY Zenon, <1>2, <1>3, <2>1, <2>2, <2>3, <2>4, WorkerMoves
<1> QED BY Zenon, <1>4, <1>5 DEF WaitForStart

\* The owner is left alone, or its pc is one that holds nothing.
OwnerStays ==
    /\ owner' \in OwnerType /\ owner'.got = owner.got
    /\ owner'.pc = "holding" => owner.pc = "holding"

LEMMA OwnerReaped ==
    ASSUME IInv, owner' = owner \/ owner' = [owner EXCEPT !.pc = "reaped"]
                 \/ owner' = [owner EXCEPT !.pc = "forked"] \/ owner' = [owner EXCEPT !.term = TRUE]
                 \/ owner' = [owner EXCEPT !.pc = "gone"]
    PROVE  OwnerStays
<1>1. owner \in OwnerType /\ "reaped" \in OwnerPCs /\ "forked" \in OwnerPCs /\ "gone" \in OwnerPCs
    BY Zenon DEF IInv, Types, OwnerPCs
<1>2. owner' \in OwnerType
    BY Zenon, <1>1, OwnerTyped, OwnerChanged
<1>3. owner'.got = owner.got /\ (owner'.pc = "holding" => owner.pc = "holding")
    BY Zenon, <1>1 DEF OwnerType
<1> QED BY Zenon, <1>2, <1>3 DEF OwnerStays

LEMMA SpawnOwnerStep == ASSUME IInv, SpawnOwner PROVE IInv'
<1>0. worker.pc = "spawn" /\ Len(control.toClient) = 0
    BY Zenon DEF SpawnOwner, IInv, ToClient
<1>1. CASE Failed /\ Event /\ UNCHANGED owner
  <2>1. UNCHANGED <<client, data, setup, timer, owner>> /\ events' \in 0..MaxEvents
      BY Zenon, <1>1, EventBound DEF SpawnOwner
  <2>2. owner' \in OwnerType /\ data' \in DataType
      BY Zenon, <2>1 DEF IInv, Types
  <2> QED BY <1>0, <1>1, <2>1, <2>2, FailedStep
<1>2. CASE /\ WorkerGoto("spawning")
           /\ owner' = [owner EXCEPT !.pc = "forked"]
           /\ UNCHANGED <<control, events>>
  <2>1. worker' \in WorkerType
      BY Zenon, <1>2, WorkerTyped DEF WorkerGoto, IInv, Types, WorkerPCs
  <2>2. worker'.pc = "spawning"
      BY Zenon, <1>2 DEF WorkerGoto, IInv, Types, WorkerType
  <2>3. OwnerStays
      BY Zenon, <1>2, OwnerReaped
  <2>4. UNCHANGED <<client, control, data, setup, timer, events>>
      BY Zenon, <1>2 DEF SpawnOwner
  <2>5. Types'
      BY Zenon, <2>1, <2>3, <2>4 DEF IInv, Types, OwnerStays
  <2>6. NoOrphan' /\ ToClient'
      BY <1>0, <2>2, <2>4 DEF NoOrphan, ToClient
  <2>7. (Accepted(control'.toClient) => timer' # "off") /\ Len(control'.toWorker) <= Len(control.toWorker)
      BY <2>4 DEF IInv, Timed, Types, ControlType
  <2> QED BY Zenon, <1>0, <2>2, <2>3, <2>4, <2>5, <2>6, <2>7, WorkerMoves DEF OwnerStays
<1> QED BY Zenon, <1>1, <1>2 DEF SpawnOwner

LEMMA SpawnedStep == ASSUME IInv, Spawned PROVE IInv'
<1>0. worker.pc = "spawning" /\ Len(control.toClient) = 0 /\ UNCHANGED <<client, setup, timer>>
    BY Zenon DEF Spawned, IInv, ToClient
<1>1. CASE Failed /\ owner' = [owner EXCEPT !.pc = "reaped"] /\ UNCHANGED <<data, events>>
  <2>1. OwnerStays /\ data' \in DataType /\ events' \in 0..MaxEvents
      BY Zenon, <1>1, OwnerReaped, EventBound DEF IInv, Types
  <2> QED BY <1>0, <1>1, <2>1, FailedStep DEF OwnerStays
<1>a. ASSUME data' = [data EXCEPT !.read = FALSE]
      PROVE  /\ data' \in DataType /\ data'.sent = data.sent
             /\ data'.inside = data.inside /\ data'.write = data.write
  <2>1. data' \in DataType
      BY Zenon, <1>a, DataTyped DEF IInv, Types
  <2>2. data'.sent = data.sent /\ data'.inside = data.inside /\ data'.write = data.write
      BY Zenon, <1>a DEF IInv, Types, DataType
  <2> QED BY Zenon, <2>1, <2>2
<1>2. CASE data' = [data EXCEPT !.read = FALSE] /\ Failed /\ Event /\ UNCHANGED owner
  <2>1. OwnerStays /\ events' \in 0..MaxEvents
      BY Zenon, <1>2, OwnerReaped, EventBound
  <2> QED BY <1>0, <1>2, <1>a, <2>1, FailedStep DEF OwnerStays
<1>3. CASE /\ data' = [data EXCEPT !.read = FALSE]
           /\ \E opened \in BOOLEAN :
                worker' = [worker EXCEPT !.pc = IF control.client THEN "waitDone" ELSE "term",
                                         !.pidfd = opened]
           /\ control' = IF control.client
                         THEN [control EXCEPT !.toClient = Append(@, "READY")] ELSE control
           /\ UNCHANGED <<owner, events>>
  <2>1. worker' \in WorkerType
      BY Zenon, <1>3, WorkerTyped DEF IInv, Types, WorkerPCs
  <2>2. worker'.pc = IF control.client THEN "waitDone" ELSE "term"
      BY Zenon, <1>3 DEF IInv, Types, WorkerType
  <2>3. control.toClient \in Seq(Messages) /\ "READY" \in Messages
      BY Zenon DEF IInv, Types, ControlType, Messages
  <2>4. /\ Append(control.toClient, "READY") \in Seq(Messages)
        /\ Len(Append(control.toClient, "READY")) = 1
        /\ Accepted(Append(control.toClient, "READY")) => Accepted(control.toClient)
      BY <1>0, <2>3, QueueGrows
  <2>5. control' \in ControlType
      BY Zenon, <1>3, <2>4, QueuesTyped DEF IInv, Types
  <2>6. /\ control'.toWorker = control.toWorker /\ Len(control'.toClient) <= 1
        /\ Accepted(control'.toClient) => Accepted(control.toClient)
      BY <1>0, <1>3, <2>4 DEF IInv, Types, ControlType
  <2>7. Types'
      BY Zenon, <1>0, <1>3, <1>a, <2>1, <2>5 DEF IInv, Types
  <2>8. NoOrphan' /\ ToClient'
      BY <2>2, <2>6 DEF NoOrphan, ToClient
  <2>9. (Accepted(control'.toClient) => timer' # "off") /\ Len(control'.toWorker) <= Len(control.toWorker)
      BY <1>0, <2>6 DEF IInv, Timed, Types, ControlType
  <2> QED BY Zenon, <1>0, <1>3, <1>a, <2>2, <2>7, <2>8, <2>9, WorkerMoves
<1> QED BY Zenon, <1>1, <1>2, <1>3 DEF Spawned

LEMMA WaitForDoneStep == ASSUME IInv, WaitForDone PROVE IInv'
<1>0. /\ worker.pc = "waitDone" /\ Len(control.toClient) <= 1
      /\ UNCHANGED <<client, data, setup, timer, events>>
    BY Zenon DEF WaitForDone, IInv, ToClient
<1>1. OwnerStays
    BY Zenon, OwnerReaped DEF WaitForDone
<1>2. events' \in 0..MaxEvents /\ data' \in DataType
    BY Zenon, <1>0, EventBound DEF IInv, Types
<1>3. CASE Failed
    BY Zenon, <1>0, <1>1, <1>2, <1>3, FailedStep DEF OwnerStays
<1>4. CASE /\ control.toWorker # <<>> /\ control' = [control EXCEPT !.toWorker = Tail(@)]
           /\ WorkerGoto("arm")
  <2>1. worker' \in WorkerType
      BY Zenon, <1>4, WorkerTyped DEF WorkerGoto, IInv, Types, WorkerPCs
  <2>2. worker'.pc = "arm"
      BY Zenon, <1>4 DEF WorkerGoto, IInv, Types, WorkerType
  <2>3. /\ control' \in ControlType /\ control'.toClient = control.toClient
        /\ Len(control'.toWorker) <= Len(control.toWorker)
      BY Zenon, <1>4, Taken
  <2>4. Types'
      BY Zenon, <1>0, <1>1, <2>1, <2>3 DEF IInv, Types, OwnerStays
  <2>5. NoOrphan' /\ ToClient'
      BY <1>0, <2>2, <2>3 DEF NoOrphan, ToClient
  <2>6. Accepted(control'.toClient) => timer' # "off"
      BY Zenon, <1>0, <2>3 DEF IInv, Timed
  <2> QED BY Zenon, <1>0, <1>1, <2>2, <2>3, <2>4, <2>5, <2>6, WorkerMoves DEF OwnerStays
<1> QED BY Zenon, <1>3, <1>4 DEF WaitForDone

LEMMA ArmTimerStep == ASSUME IInv, ArmTimer PROVE IInv'
<1>0. /\ worker.pc = "arm" /\ Len(control.toClient) <= 1
      /\ UNCHANGED <<client, owner, data, setup>>
    BY Zenon DEF ArmTimer, IInv, ToClient
<1>1. CASE Failed /\ Event /\ UNCHANGED timer
  <2>1. events' \in 0..MaxEvents /\ data' \in DataType /\ owner' \in OwnerType
      BY Zenon, <1>0, <1>1, EventBound DEF IInv, Types
  <2> QED BY Zenon, <1>0, <1>1, <2>1, FailedStep
<1>2. CASE timer' = "armed" /\ WorkerGoto("check") /\ UNCHANGED <<control, events>>
  <2>1. worker' \in WorkerType
      BY Zenon, <1>2, WorkerTyped DEF WorkerGoto, IInv, Types, WorkerPCs
  <2>2. worker'.pc = "check"
      BY Zenon, <1>2 DEF WorkerGoto, IInv, Types, WorkerType
  <2>3. Types'
      BY Zenon, <1>0, <1>2, <2>1 DEF IInv, Types
  <2>4. NoOrphan' /\ ToClient'
      BY <1>0, <1>2, <2>2 DEF NoOrphan, ToClient
  <2>5. Len(control'.toWorker) <= Len(control.toWorker)
      BY <1>2 DEF IInv, Types, ControlType
  <2> QED BY Zenon, <1>0, <1>2, <2>2, <2>3, <2>4, <2>5, WorkerMoves
<1> QED BY Zenon, <1>1, <1>2 DEF ArmTimer

LEMMA CheckOwnerStep == ASSUME IInv, CheckOwner PROVE IInv'
<1>0. /\ worker.pc = "check" /\ Len(control.toClient) <= 1 /\ timer # "off"
      /\ UNCHANGED <<client, data, setup, timer, events>>
    BY Zenon DEF CheckOwner, IInv, ToClient, Timed
<1>1. OwnerStays /\ events' \in 0..MaxEvents /\ data' \in DataType
    BY Zenon, <1>0, OwnerReaped, EventBound DEF CheckOwner, IInv, Types
<1>2. CASE Failed
    BY Zenon, <1>0, <1>1, <1>2, FailedStep DEF OwnerStays
<1>3. CASE WorkerGoto("accept") /\ UNCHANGED control
  <2>1. worker' \in WorkerType
      BY Zenon, <1>3, WorkerTyped DEF WorkerGoto, IInv, Types, WorkerPCs
  <2>2. worker'.pc = "accept"
      BY Zenon, <1>3 DEF WorkerGoto, IInv, Types, WorkerType
  <2>3. Types'
      BY Zenon, <1>0, <1>1, <1>3, <2>1 DEF IInv, Types, OwnerStays
  <2>4. NoOrphan' /\ ToClient'
      BY <1>0, <1>3, <2>2 DEF NoOrphan, ToClient
  <2>5. Len(control'.toWorker) <= Len(control.toWorker)
      BY <1>3 DEF IInv, Types, ControlType
  <2> QED BY Zenon, <1>0, <1>1, <1>3, <2>2, <2>3, <2>4, <2>5, WorkerMoves DEF OwnerStays
<1> QED BY Zenon, <1>2, <1>3 DEF CheckOwner

\* ACCEPTED is the last message of the worker.
LEMMA AcceptStep == ASSUME IInv, Accept PROVE IInv'
<1>0. /\ worker.pc = "accept" /\ Len(control.toClient) <= 1 /\ timer # "off"
      /\ UNCHANGED <<client, owner, data, setup, timer, events>>
    BY Zenon DEF Accept, IInv, ToClient, Timed
<1>1. worker' \in WorkerType
    BY Zenon, WorkerTyped DEF Accept, WorkerGoto, IInv, Types, WorkerPCs
<1>2. worker'.pc \in {"waitEnd", "term"}
    BY Zenon DEF Accept, WorkerGoto, IInv, Types, WorkerType
<1>3. CASE control' = control
    BY Zenon, <1>0, <1>1, <1>2, <1>3, WorkerAlone, EventBound DEF IInv, Types
<1>4. CASE control' = [control EXCEPT !.toClient = Append(@, "ACCEPTED"), !.worker = FALSE]
  <2>1. control.toClient \in Seq(Messages) /\ "ACCEPTED" \in Messages
      BY Zenon DEF IInv, Types, ControlType, Messages
  <2>2. /\ Append(control.toClient, "ACCEPTED") \in Seq(Messages)
        /\ Len(control.toClient) \in Nat
        /\ Len(Append(control.toClient, "ACCEPTED")) = Len(control.toClient) + 1
      BY Zenon, <2>1, QueueGrows
  <2>3. control' \in ControlType
      BY Zenon, <1>4, <2>2, QueuesTyped DEF IInv, Types
  <2>4. /\ control'.toWorker = control.toWorker
        /\ control'.toClient = Append(control.toClient, "ACCEPTED")
      BY Zenon, <1>4 DEF IInv, Types, ControlType
  <2>5. Types'
      BY Zenon, <1>0, <1>1, <2>3 DEF IInv, Types
  <2>6. NoOrphan' /\ ToClient'
      BY <1>0, <1>2, <2>2, <2>4 DEF NoOrphan, ToClient
  <2>7. Len(control'.toWorker) <= Len(control.toWorker)
      BY <2>4 DEF IInv, Types, ControlType
  <2> QED BY Zenon, <1>0, <1>2, <2>5, <2>6, <2>7, WorkerMoves
<1> QED BY Zenon, <1>3, <1>4 DEF Accept

\* Where the worker signals the owner or is about to.
Signalling == {"sigterm", "grace", "kill", "reap"}

LEMMA WorkerGoes ==
    ASSUME worker \in WorkerType, NEW l, WorkerGoto(l)
    PROVE  worker'.pc = l
BY Zenon DEF WorkerGoto, WorkerType

\* The end of the worker's work: only the worker and the owner change.
LEMMA WorkerEndsStep ==
    ASSUME IInv, OwnerStays, worker' \in WorkerType, UNCHANGED <<client, control, data, setup, timer>>,
           events' \in 0..MaxEvents, worker.pc # "none", worker'.pc \in {"term", "exit"} \cup Signalling
    PROVE  IInv'
<1>1. Types'
    BY Zenon DEF IInv, Types, OwnerStays
<1>2. NoOrphan' /\ ToClient'
    BY Zenon DEF NoOrphan, ToClient, IInv, Signalling
<1>3. Len(control'.toWorker) <= Len(control.toWorker)
    BY DEF IInv, Types, ControlType
<1>4. Accepted(control'.toClient) => timer' # "off"
    BY Zenon DEF IInv, Timed
<1>5. worker'.pc \notin {"none", "boot", "report", "waitStart", "spawn", "check", "accept"}
    BY Zenon DEF Signalling
<1> QED BY Zenon, <1>1, <1>2, <1>3, <1>4, <1>5, WorkerMoves DEF OwnerStays

LEMMA WaitForOwnerOrTimeoutStep == ASSUME IInv, WaitForOwnerOrTimeout PROVE IInv'
<1>1. worker' \in WorkerType
    BY Zenon, WorkerTyped DEF WaitForOwnerOrTimeout, WorkerGoto, IInv, Types, WorkerPCs
<1>2. worker.pc = "waitEnd" /\ worker'.pc \in {"term", "exit"}
    BY Zenon DEF WaitForOwnerOrTimeout, WorkerGoto, IInv, Types, WorkerType
<1>3. OwnerStays /\ UNCHANGED <<client, control, data, setup, timer, events>>
    BY Zenon, OwnerReaped DEF WaitForOwnerOrTimeout
<1> QED BY Zenon, <1>1, <1>2, <1>3, WorkerEndsStep, EventBound

LEMMA TerminateStep ==
    ASSUME IInv, TerminateOwner \/ SendTerm \/ Grace \/ SendKill \/ ReapKilled PROVE IInv'
<1>1. PICK l \in {"exit"} \cup Signalling : WorkerGoto(l)
    BY Zenon DEF TerminateOwner, SendTerm, Grace, SendKill, ReapKilled, Signalling
<1>2. worker' \in WorkerType
    BY Zenon, <1>1, WorkerTyped DEF WorkerGoto, IInv, Types, WorkerPCs, Signalling
<1>3. worker.pc # "none" /\ worker'.pc = l
    BY Zenon, <1>1, WorkerGoes DEF TerminateOwner, SendTerm, Grace, SendKill, ReapKilled, IInv, Types
<1>4. OwnerStays
    BY Zenon, OwnerReaped DEF TerminateOwner, SendTerm, Grace, SendKill, ReapKilled, HasExited, StillRuns
<1>5. UNCHANGED <<client, control, data, setup, timer>>
    BY Zenon DEF TerminateOwner, SendTerm, Grace, SendKill, ReapKilled
<1>6. events' \in 0..MaxEvents
    BY Zenon, EventBound DEF TerminateOwner, SendTerm, Grace, SendKill, ReapKilled
<1> QED BY Zenon, <1>2, <1>3, <1>4, <1>5, <1>6, WorkerEndsStep

\* The death of the worker is a signal to the owner that has started.
LEMMA WorkerGoneStep ==
    ASSUME IInv, WorkerGone, worker.pc # "none", UNCHANGED <<client, setup, timer>>,
           events' \in 0..MaxEvents
    PROVE  IInv'
<1>1. worker' \in WorkerType
    BY Zenon, WorkerTyped DEF WorkerGone, WorkerGoto, IInv, Types, WorkerPCs
<1>2. worker'.pc = "gone"
    BY Zenon DEF WorkerGone, WorkerGoto, IInv, Types, WorkerType
<1>3. OwnerStays
    BY Zenon, OwnerReaped DEF WorkerGone
<1>4. owner'.pc \in {"reading", "holding"} => owner'.term
    BY Zenon DEF WorkerGone, IInv, Types, OwnerType
<1>5. control' \in ControlType
    BY Zenon, EndsTyped DEF WorkerGone, IInv, Types
<1>6. control'.toWorker = control.toWorker /\ control'.toClient = control.toClient
    BY Zenon DEF WorkerGone, IInv, Types, ControlType
<1>7. data' \in DataType
    BY Zenon, DataTyped DEF WorkerGone, IInv, Types
<1>8. data'.sent = data.sent /\ data'.inside = data.inside /\ data'.write = data.write
    BY Zenon DEF WorkerGone, IInv, Types, DataType
<1>9. Types'
    BY Zenon, <1>1, <1>3, <1>5, <1>7 DEF IInv, Types, OwnerStays
<1>10. NoOrphan' /\ ToClient'
    BY Zenon, <1>2, <1>4, <1>6 DEF NoOrphan, ToClient, IInv
<1>11. Len(control'.toWorker) <= Len(control.toWorker)
    BY <1>6 DEF IInv, Types, ControlType
<1>12. Accepted(control'.toClient) => timer' # "off"
    BY Zenon, <1>6 DEF IInv, Timed
<1> QED BY Zenon, <1>2, <1>3, <1>8, <1>9, <1>10, <1>11, <1>12, WorkerMoves DEF OwnerStays

LEMMA WorkerExitStep == ASSUME IInv, WorkerExit PROVE IInv'
BY Zenon, WorkerGoneStep, EventBound DEF WorkerExit

LEMMA KillWorkerStep == ASSUME IInv, KillWorker PROVE IInv'
BY Zenon, WorkerGoneStep, EventBound DEF KillWorker, WorkerAlive

-----------------------------------------------------------------------------
(***************************************************************************)
(* The owner and the timer.                                                *)
(***************************************************************************)

\* The owner's pc moves, and nothing else.
LEMMA OwnerMoves ==
    ASSUME IInv, owner.pc # "none", owner' \in OwnerType, owner'.got = owner.got,
           UNCHANGED <<client, worker, control, data, setup, timer>>, events' \in 0..MaxEvents,
           owner'.pc = "holding" => data.inside = 0 /\ ~data.write,
           worker.pc = "gone" /\ owner'.pc \in {"reading", "holding"} => owner'.term
    PROVE  IInv'
<1>1. Types'
    BY Zenon DEF IInv, Types
<1>2. Stages' /\ ToWorker' /\ ToClient' /\ Timed'
    BY Zenon DEF IInv, Stages, ToWorker, ToClient, Timed
<1>3. Pipe' /\ NoOrphan'
    BY Zenon DEF IInv, Pipe, NoOrphan
<1> QED BY Zenon, <1>1, <1>2, <1>3 DEF IInv

LEMMA ExecFailedStep ==
    ASSUME IInv, ExecFailed, owner.pc # "none", events' \in 0..MaxEvents
    PROVE  IInv'
<1>1. owner' \in OwnerType
    BY Zenon, OwnerTyped DEF ExecFailed, IInv, Types, OwnerPCs
<1>2. owner'.pc = "gone" /\ owner'.got = owner.got
    BY Zenon DEF ExecFailed, IInv, Types, OwnerType
<1>3. UNCHANGED <<client, worker, control, data, setup, timer>>
    BY Zenon DEF ExecFailed
<1> QED BY Zenon, <1>1, <1>2, <1>3, OwnerMoves

\* The owner goes on to a label, if that label is not "holding".
LEMMA OwnerGoesStep ==
    ASSUME IInv, owner.pc # "none", NEW l \in OwnerPCs, owner' = [owner EXCEPT !.pc = l],
           l # "holding", l = "reading" => WorkerAlive,
           UNCHANGED <<client, worker, control, data, setup, timer, events>>
    PROVE  IInv'
<1>1. owner' \in OwnerType
    BY Zenon, OwnerTyped DEF IInv, Types
<1>2. owner'.pc = l /\ owner'.got = owner.got
    BY Zenon DEF IInv, Types, OwnerType
<1>3. worker.pc = "gone" => l # "reading"
    BY Zenon DEF WorkerAlive
<1> QED BY Zenon, <1>1, <1>2, <1>3, OwnerMoves, EventBound

LEMMA GuardStep == ASSUME IInv, Guard PROVE IInv'
<1>0. owner.pc # "none" /\ "guarded" \in OwnerPCs
    BY Zenon DEF Guard, OwnerPCs
<1>1. CASE /\ owner' = [owner EXCEPT !.pc = "guarded"]
           /\ UNCHANGED <<client, worker, control, data, setup, timer, events>>
    BY Zenon, <1>0, <1>1, OwnerGoesStep
<1>2. CASE ExecFailed /\ Event
    BY Zenon, <1>0, <1>2, ExecFailedStep, EventBound
<1> QED BY Zenon, <1>1, <1>2 DEF Guard

LEMMA ExecStep == ASSUME IInv, Exec PROVE IInv'
<1>0. owner.pc # "none" /\ "reading" \in OwnerPCs
    BY Zenon DEF Exec, OwnerPCs
<1>1. CASE /\ WorkerAlive /\ owner' = [owner EXCEPT !.pc = "reading"]
           /\ UNCHANGED <<client, worker, control, data, setup, timer, events>>
    BY Zenon, <1>0, <1>1, OwnerGoesStep
<1>2. CASE ExecFailed /\ (Event \/ UNCHANGED events)
    BY Zenon, <1>0, <1>2, ExecFailedStep, EventBound
<1> QED BY Zenon, <1>1, <1>2 DEF Exec

LEMMA ReadInputStep == ASSUME IInv, ReadInput PROVE IInv'
<1>0. /\ owner.pc = "reading" /\ UNCHANGED <<client, worker, control, setup, timer, events>>
      /\ owner \in OwnerType /\ data \in DataType
    BY Zenon DEF ReadInput, IInv, Types
<1>1. CASE /\ data.inside > 0 /\ data' = [data EXCEPT !.inside = @ - 1]
           /\ owner' = [owner EXCEPT !.got = @ + 1]
  <2>1. owner' \in OwnerType /\ data' \in DataType
      BY Zenon, <1>0, <1>1, OwnerChanged, DataTyped
  <2>2. /\ owner'.got = owner.got + 1 /\ owner'.pc = owner.pc /\ owner'.term = owner.term
        /\ data'.inside = data.inside - 1
      BY Zenon, <1>0, <1>1 DEF OwnerType, DataType
  <2>3. data'.sent = data.sent /\ data'.write = data.write
      BY Zenon, <1>0, <1>1 DEF DataType
  <2>4. Types'
      BY Zenon, <1>0, <2>1 DEF IInv, Types
  <2>5. Stages' /\ ToWorker' /\ ToClient' /\ Timed'
      BY Zenon, <1>0, <2>2 DEF IInv, Stages, ToWorker, ToClient, Timed
  <2>6. owner.got \in Nat /\ data.inside \in Nat
      BY <1>0 DEF OwnerType, DataType
  <2>7. Pipe' /\ NoOrphan'
      BY <1>0, <2>2, <2>3, <2>6 DEF IInv, Pipe, NoOrphan
  <2> QED BY Zenon, <2>4, <2>5, <2>7 DEF IInv
<1>2. CASE data.inside = 0 /\ ~data.write /\ owner' = [owner EXCEPT !.pc = "holding"] /\ UNCHANGED data
  <2>1. owner' \in OwnerType
      BY Zenon, <1>0, <1>2, OwnerTyped DEF OwnerPCs
  <2>2. owner'.got = owner.got /\ owner'.term = owner.term
      BY Zenon, <1>0, <1>2 DEF OwnerType
  <2>3. worker.pc = "gone" => owner'.term
      BY Zenon, <1>0, <2>2 DEF IInv, NoOrphan
  <2> QED BY Zenon, <1>0, <1>2, <2>1, <2>2, <2>3, OwnerMoves, EventBound
<1> QED BY Zenon, <1>1, <1>2 DEF ReadInput

LEMMA OwnerGoneStep == ASSUME IInv, ObeyTerm \/ QuitByItself PROVE IInv'
<1>1. /\ owner.pc # "none" /\ "gone" \in OwnerPCs /\ owner' = [owner EXCEPT !.pc = "gone"]
      /\ UNCHANGED <<client, worker, control, data, setup, timer, events>>
    BY Zenon DEF ObeyTerm, QuitByItself, OwnerAlive, OwnerPCs
<1> QED BY Zenon, <1>1, OwnerGoesStep

LEMMA ExpireStep == ASSUME IInv, Expire PROVE IInv'
<1>1. Types' /\ Stages' /\ ToWorker' /\ ToClient' /\ Timed'
    BY Zenon DEF Expire, IInv, Types, Stages, ToWorker, ToClient, Timed
<1>2. Pipe' /\ NoOrphan'
    BY Zenon DEF Expire, IInv, Pipe, NoOrphan
<1> QED BY Zenon, <1>1, <1>2 DEF IInv

LEMMA StutterStep == ASSUME IInv, UNCHANGED vars PROVE IInv'
<1>1. Types' /\ Stages' /\ ToWorker' /\ ToClient' /\ Timed'
    BY Zenon DEF vars, IInv, Types, Stages, ToWorker, ToClient, Timed
<1>2. Pipe' /\ NoOrphan'
    BY Zenon DEF vars, IInv, Pipe, NoOrphan
<1> QED BY Zenon, <1>1, <1>2 DEF IInv

-----------------------------------------------------------------------------
(***************************************************************************)
(* The theorems.                                                           *)
(***************************************************************************)
LEMMA GiveUpStep == ASSUME IInv, GiveUp PROVE IInv'
BY Zenon, CancelStep, EventBound DEF GiveUp

LEMMA SendStartStep == ASSUME IInv, SendStart PROVE IInv'
<1>1. "START" \in Messages /\ client.pc = "prepared"
    BY Zenon DEF SendStart, Messages
<1> QED BY Zenon, <1>1, ClientSendsStep DEF SendStart

LEMMA SendDoneStep == ASSUME IInv, SendDone PROVE IInv'
<1>1. "DONE" \in Messages /\ client.pc = "finish"
    BY Zenon DEF SendDone, Messages
<1> QED BY Zenon, <1>1, ClientSendsStep DEF SendDone

LEMMA NextIInv == IInv /\ [Next]_vars => IInv'
<1> SUFFICES ASSUME IInv, [Next]_vars PROVE IInv'
    BY Zenon
<1>1. CASE Prepare \/ GiveUp \/ Forget \/ SendStart \/ KillClient \/ KillWorker \/ StopWorker
    BY Zenon, <1>1, PrepareStep, GiveUpStep, ForgetStep, SendStartStep, KillClientStep,
       KillWorkerStep, StopWorkerStep
<1>2. CASE ClientStep
    BY Zenon, <1>2, WaitForSetupStep, WaitForOwnerReadyStep, WriteSecretStep, SendDoneStep,
       WaitForOwnerAcceptedStep, SignalWorkerStep DEF ClientStep
<1>3. CASE WorkerStep
    BY Zenon, <1>3, BootStep, ReportSetupStep, WaitForStartStep, SpawnOwnerStep, SpawnedStep,
       WaitForDoneStep, ArmTimerStep, CheckOwnerStep, AcceptStep, WaitForOwnerOrTimeoutStep,
       TerminateStep, WorkerExitStep DEF WorkerStep
<1>4. CASE OwnerStep \/ ObeyTerm \/ QuitByItself \/ Expire
    BY Zenon, <1>4, GuardStep, ExecStep, ReadInputStep, OwnerGoneStep, ExpireStep DEF OwnerStep
<1> QED BY Zenon, <1>1, <1>2, <1>3, <1>4, StutterStep DEF Next

\* The inductive invariant holds of every behaviour.
THEOREM Invariant == Spec => []IInv
BY InitIInv, NextIInv, PTL DEF Spec

\* Every variable has its type and no queue holds more than two messages, for a
\* secret and a pipe of any size; what the owner has read never exceeds what
\* write_secret wrote.
THEOREM TypeCorrect == Spec => []TypeOK
<1>1. IInv => TypeOK
  <2> SUFFICES ASSUME IInv PROVE TypeOK
      BY Zenon
  <2>1. client \in ClientType /\ worker \in WorkerType /\ data \in DataType
        /\ setup \in {"none", "OK", "ERR"} /\ timer \in {"off", "armed", "fired"}
        /\ events \in 0..MaxEvents
      BY Zenon DEF IInv, Types
  <2>2. owner \in OwnerType /\ owner.got + data.inside = data.sent
      BY Zenon DEF IInv, Types, Pipe
  <2>3. owner.got \in 0..Chunks
      BY <2>1, <2>2, ClipboardAssumption DEF OwnerType, DataType
  <2>4. owner \in [pc : OwnerPCs, term : BOOLEAN, err : BOOLEAN, got : 0..Chunks, deaf : BOOLEAN]
      BY Zenon, <2>2, <2>3 DEF OwnerType
  <2>5. /\ control.toWorker \in Seq(Messages) /\ Len(control.toWorker) <= 2
        /\ control.toClient \in Seq(Messages) /\ Len(control.toClient) <= 2
        /\ control.client \in BOOLEAN /\ control.worker \in BOOLEAN
      BY Zenon DEF IInv, Types, ControlType, ToWorker, ToClient
  <2> QED BY Zenon, <2>1, <2>4, <2>5 DEF TypeOK, ClientType, WorkerType, DataType, Statuses
<1> QED BY <1>1, Invariant, PTL

\* A copy that pv_clipboard_send reported PV_OK has been delivered whole and will
\* expire, whatever failed, died or was signalled in the meantime.
THEOREM Delivered == Spec => []OkMeansDelivered
<1>1. IInv => OkMeansDelivered
  <2> SUFFICES ASSUME IInv, client.status = "OK"
               PROVE  /\ data.sent = Chunks /\ timer # "off"
                      /\ owner.pc = "holding" => owner.got = Chunks
      BY Zenon DEF OkMeansDelivered
  <2>1. data.sent = Chunks /\ timer # "off"
      BY Zenon DEF IInv, Pipe, Timed
  <2>2. owner.got \in Nat /\ owner.got + data.inside = data.sent
      BY Zenon DEF IInv, Types, OwnerType, Pipe
  <2>3. owner.pc = "holding" => data.inside = 0
      BY Zenon DEF IInv, Pipe
  <2> QED BY <2>1, <2>2, <2>3
<1> QED BY <1>1, Invariant, PTL

\* No owner outlives its worker: PR_SET_PDEATHSIG, set before getppid is compared,
\* covers every moment at which the worker may be killed.
THEOREM Guarded == Spec => []NoOrphan
<1>1. IInv => NoOrphan
    BY Zenon DEF IInv
<1> QED BY <1>1, Invariant, PTL

\* The owner has a process id that the worker has not given back.
HasId(o) == o.pc \notin {"none", "reaped"}

\* No step of the owner takes its id away.
LEMMA OwnerKeepsId ==
    ASSUME IInv, HasId(owner), Guard \/ Exec \/ ReadInput \/ ObeyTerm \/ QuitByItself
    PROVE  HasId(owner') /\ UNCHANGED worker
<1>1. owner \in OwnerType
    BY Zenon DEF IInv, Types
<1>2. CASE Guard \/ Exec
    BY Zenon, <1>1, <1>2 DEF Guard, Exec, ExecFailed, HasId, OwnerType
<1>3. CASE ReadInput \/ ObeyTerm \/ QuitByItself
    BY Zenon, <1>1, <1>3 DEF ReadInput, ObeyTerm, QuitByItself, HasId, OwnerType
<1> QED BY Zenon, <1>2, <1>3

\* The worker's steps before terminate_owner lead to none of its signals.
LEMMA QuietWorker ==
    ASSUME IInv, \/ Boot \/ ReportSetup \/ WaitForStart \/ SpawnOwner \/ Spawned \/ WaitForDone
                 \/ ArmTimer \/ CheckOwner \/ Accept \/ WaitForOwnerOrTimeout \/ WorkerExit
                 \/ KillWorker \/ Prepare
    PROVE  worker'.pc \notin Signalling
<1>1. worker \in WorkerType
    BY Zenon DEF IInv, Types
<1>2. CASE Boot \/ ReportSetup \/ WaitForStart \/ SpawnOwner
    BY Zenon, <1>1, <1>2, WorkerGoes DEF Boot, ReportSetup, WaitForStart, SpawnOwner, Failed, Signalling
<1>3. CASE Spawned
    BY Zenon, <1>1, <1>3, WorkerGoes DEF Spawned, Failed, Signalling, WorkerType
<1>4. CASE WaitForDone \/ ArmTimer \/ CheckOwner
    BY Zenon, <1>1, <1>4, WorkerGoes DEF WaitForDone, ArmTimer, CheckOwner, Failed, Signalling
<1>5. CASE Accept \/ WaitForOwnerOrTimeout \/ WorkerExit \/ KillWorker
    BY Zenon, <1>1, <1>5, WorkerGoes
       DEF Accept, WaitForOwnerOrTimeout, WorkerExit, KillWorker, WorkerGone, Signalling
<1>6. CASE Prepare
    BY Zenon, <1>1, <1>6 DEF Prepare, IInv, Stages, Signalling, WorkerType
<1> QED BY Zenon, <1>2, <1>3, <1>4, <1>5, <1>6

\* terminate_owner: what it asks, signals and reaps.
LEMMA TerminateKeepsId ==
    ASSUME IInv, NoStaleSignal, TerminateOwner \/ SendTerm \/ Grace \/ SendKill \/ ReapKilled
    PROVE  NoStaleSignal'
<1>1. worker \in WorkerType /\ owner \in OwnerType
    BY Zenon DEF IInv, Types
<1>2. ASSUME HasExited, WorkerGoto("exit") PROVE NoStaleSignal'
    BY Zenon, <1>1, <1>2, WorkerGoes DEF NoStaleSignal
<1>3. ASSUME StillRuns PROVE NoStaleSignal'
    BY Zenon, <1>3 DEF StillRuns, OwnerAlive, NoStaleSignal
<1>4. CASE TerminateOwner \/ Grace \/ ReapKilled
    BY Zenon, <1>2, <1>3, <1>4 DEF TerminateOwner, Grace, ReapKilled
<1>5. CASE SendTerm
    BY Zenon, <1>1, <1>5 DEF SendTerm, NoStaleSignal, OwnerType
<1>6. CASE SendKill
  <2>1. CASE owner' = [owner EXCEPT !.pc = "gone"]
      BY Zenon, <1>1, <2>1 DEF NoStaleSignal, OwnerType
  <2>2. CASE WorkerGoto("exit")
      BY Zenon, <1>1, <2>2, WorkerGoes DEF NoStaleSignal
  <2> QED BY Zenon, <1>6, <2>1, <2>2 DEF SendKill
<1> QED BY Zenon, <1>4, <1>5, <1>6

\* terminate_owner never signals a process id that has been given back, with SIGTERM
\* or with SIGKILL, whenever the owner ends: only the worker reaps it, in
\* owner_has_exited and in its waits, and no signal follows.
THEOREM FreshSignal == Spec => []NoStaleSignal
<1>1. Init => NoStaleSignal
    BY DEF Init, NoStaleSignal
<1>2. IInv /\ NoStaleSignal /\ [Next]_vars => NoStaleSignal'
  <2> SUFFICES ASSUME IInv, NoStaleSignal, [Next]_vars PROVE NoStaleSignal'
      BY Zenon
  <2>1. worker \in WorkerType
      BY Zenon DEF IInv, Types
  <2>2. ASSUME worker'.pc \notin Signalling PROVE NoStaleSignal'
      BY Zenon, <2>2 DEF NoStaleSignal, Signalling
  <2>3. ASSUME worker'.pc = worker.pc, HasId(owner) => HasId(owner') PROVE NoStaleSignal'
      BY Zenon, <2>3 DEF NoStaleSignal, HasId
  <2>4. CASE WorkerStep \/ KillWorker \/ Prepare
      BY Zenon, <2>2, <2>4, QuietWorker, TerminateKeepsId DEF WorkerStep
  <2>5. CASE OwnerStep \/ ObeyTerm \/ QuitByItself
    <3>1. UNCHANGED worker
        BY Zenon, <2>5 DEF OwnerStep, Guard, Exec, ExecFailed, ReadInput, ObeyTerm, QuitByItself
    <3> QED BY Zenon, <2>3, <2>5, <3>1, OwnerKeepsId DEF OwnerStep
  <2>6. CASE SignalWorker \/ StopWorker
    <3>1. (worker' \in Signalled(worker) \/ worker' = worker) /\ UNCHANGED owner
        BY Zenon, <2>6 DEF SignalWorker, StopWorker
    <3>2. worker'.pc = worker.pc
        BY Zenon, <2>1, <3>1, SignalledFlags
    <3> QED BY Zenon, <2>3, <3>1, <3>2
  <2>7. CASE UNCHANGED <<worker, owner>>
      BY Zenon, <2>3, <2>7
  <2>8. \/ WorkerStep \/ KillWorker \/ Prepare \/ OwnerStep \/ ObeyTerm \/ QuitByItself
        \/ SignalWorker \/ StopWorker \/ UNCHANGED <<worker, owner>>
      BY Zenon DEF Next, vars, ClientStep, GiveUp, Forget, SendStart, SendDone, ClientSends, Cancel,
             WaitForSetup, WaitForOwnerReady, WriteSecret, WaitForOwnerAccepted, Expire, KillClient
  <2> QED BY Zenon, <2>4, <2>5, <2>6, <2>7, <2>8
<1> QED BY <1>1, <1>2, Invariant, PTL DEF Spec
=============================================================================
