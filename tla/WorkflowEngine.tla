--------------------------- MODULE WorkflowEngine ---------------------------
(***************************************************************************)
(* The durable workflow engine (internal/workflows/engine.go) with the two *)
(* things it stands on: the PostgreSQL tables workflows / workflow_steps   *)
(* (internal/infrastructure/postgres/workflow_repo.go) and the RabbitMQ    *)
(* dispatch queue (internal/infrastructure/rabbitmq/broker.go).            *)
(*                                                                         *)
(* Processes: API requests that call Engine.Enqueue, callers of            *)
(* Engine.Resume (the GitHub webhook or an operator), and the consumers of *)
(* the dispatch queue (platform-worker and platform-api both consume).     *)
(* Every statement of the engine that reads or writes the database or the  *)
(* queue is one step, so that any two processes interleave between them.   *)
(*                                                                         *)
(* A run is named by the Enqueue call that created it: shared.NewID() is   *)
(* fresh in every call.                                                    *)
(***************************************************************************)
EXTENDS Naturals, FiniteSets

CONSTANTS
    Workers,         \* processes subscribed to the dispatch queue
    Requests,        \* calls of Engine.Enqueue, and the runs they create
    Keys,            \* idempotency keys
    Key,             \* the key of each request
    Registered,      \* requests whose workflow type is in the registry
    Callers,         \* calls of Engine.Resume
    Target,          \* the run each call of Resume names
    Hooks,           \* the callers that are GitHub "pull request merged" events
    NumSteps,        \* rows Enqueue creates: len(def.Steps) in the API process
    DefSteps,        \* len(def.Steps) in each worker's registry: one may be older
    Gate,            \* sequence of the step that waits for the merge
    MaxWorkerFaults, \* bound: crashes, failed database writes, lost connections
    MaxLostConns,    \* bound: how many of those are lost broker connections
    MaxApiFaults     \* bound: API processes that die or fail inside a call

ASSUME ConstantsAssumption ==
    /\ Requests # {}
    /\ Key \in [Requests -> Keys]
    /\ Registered \subseteq Requests
    /\ Target \in [Callers -> Requests]
    /\ Hooks \subseteq Callers
    /\ NumSteps \in Nat \ {0}
    /\ DefSteps \in [Workers -> Nat]
    /\ Gate \in Nat \ {0}
    /\ MaxWorkerFaults \in Nat
    /\ MaxLostConns \in Nat
    /\ MaxApiFaults \in Nat

VARIABLES
    wf,           \* the workflows row of each run, status "NONE" before its INSERT
    step,         \* workflow_steps.status of each run and sequence
    queue,        \* ready dispatch messages of each run
    pr,           \* the run's pull request
    reqPc,        \* where each Enqueue call is
    callPc,       \* where each Resume call is
    callSnap,     \* the copy of the row a Resume call read
    pc,           \* where each worker is inside executeNext
    run,          \* the run of the message a worker is handling
    seq,          \* the sequence of the step a worker selected
    snap,         \* the worker's copy of the row, mutated before it is saved
    conn,         \* whether a worker's broker connection is up
    workerFaults, \* faults of workers so far
    lostConns,    \* lost connections so far
    apiFaults     \* faults of API calls so far

dbVars    == <<wf, step>>
apiVars   == <<reqPc, callPc, callSnap>>
localVars == <<pc, run, seq, snap>>
faultVars == <<workerFaults, lostConns, apiFaults>>
vars == <<wf, step, queue, pr, reqPc, callPc, callSnap,
          pc, run, seq, snap, conn, workerFaults, lostConns, apiFaults>>

-----------------------------------------------------------------------------
(* Statuses, internal/domain/workflow/workflow.go.                         *)

Steps == 0 .. (NumSteps - 1)

Terminal == {"SUCCEEDED", "FAILED", "CANCELLED", "NEEDS_ATTENTION"}

Status == {"PENDING", "RUNNING", "AWAITING_APPROVAL"} \cup Terminal

StepStatus == {"PENDING", "RUNNING", "SUCCEEDED", "FAILED"}

Row == [status : Status \cup {"NONE"}, currentStep : Nat]

NoRow == [status |-> "NONE", currentStep |-> 0]

AnyRun == CHOOSE r \in Requests : TRUE

WorkerPc == {"idle", "start", "claim", "locked", "run", "revert", "pause",
             "fail", "finish", "complete", "advance", "redispatch", "ack"}

TypeOK ==
    /\ wf \in [Requests -> Row]
    /\ step \in [Requests -> [Steps -> StepStatus]]
    /\ queue \in [Requests -> Nat]
    /\ pr \in [Requests -> {"none", "open", "merged"}]
    /\ reqPc \in [Requests -> {"ready", "create", "dispatch", "done"}]
    /\ callPc \in [Callers -> {"ready", "update", "dispatch", "done"}]
    /\ callSnap \in [Callers -> Row]
    /\ pc \in [Workers -> WorkerPc]
    /\ run \in [Workers -> Requests]
    /\ seq \in [Workers -> Steps]
    /\ snap \in [Workers -> Row]
    /\ conn \in [Workers -> BOOLEAN]
    /\ workerFaults \in Nat
    /\ lostConns \in Nat
    /\ apiFaults \in Nat

Init ==
    /\ wf = [r \in Requests |-> NoRow]
    /\ step = [r \in Requests |-> [k \in Steps |-> "PENDING"]]
    /\ queue = [r \in Requests |-> 0]
    /\ pr = [r \in Requests |-> "none"]
    /\ reqPc = [r \in Requests |-> "ready"]
    /\ callPc = [c \in Callers |-> "ready"]
    /\ callSnap = [c \in Callers |-> NoRow]
    /\ pc = [w \in Workers |-> "idle"]
    /\ run = [w \in Workers |-> AnyRun]
    /\ seq = [w \in Workers |-> 0]
    /\ snap = [w \in Workers |-> NoRow]
    /\ conn = [w \in Workers |-> TRUE]
    /\ workerFaults = 0
    /\ lostConns = 0
    /\ apiFaults = 0

-----------------------------------------------------------------------------
(* The broker: a durable queue with manual acknowledgement. A message that *)
(* was delivered and not acknowledged is the `run' of a connected worker.  *)

Publish(r) == queue' = [queue EXCEPT ![r] = @ + 1]

\* The handler of worker w returns, or dies: its local variables are gone.
EndHandler(w) ==
    /\ pc' = [pc EXCEPT ![w] = "idle"]
    /\ run' = [run EXCEPT ![w] = AnyRun]
    /\ seq' = [seq EXCEPT ![w] = 0]
    /\ snap' = [snap EXCEPT ![w] = NoRow]

\* Mutation of Requeue: autoAck, the broker forgets a message on delivery.
RequeueAutoAck(w) == UNCHANGED queue

\* The unacknowledged message of w, if its connection still holds one, goes
\* back to the queue: Nack with requeue, or the broker seeing the channel close.
Requeue(w) ==
    queue' = [queue EXCEPT ![run[w]] =
                @ + (IF conn[w] /\ pc[w] # "idle" THEN 1 ELSE 0)]

-----------------------------------------------------------------------------
(* Engine.Enqueue                                                          *)

Exists(r) == wf[r].status # "NONE"

\* A committed run with the key of r: the UNIQUE column idempotency_key.
KeyTaken(r) == \E q \in Requests : Exists(q) /\ Key[q] = Key[r]

\* GetByIdempotencyKey, then the registry lookup.
CheckKey(r) ==
    /\ reqPc[r] = "ready"
    /\ reqPc' = [reqPc EXCEPT ![r] =
         IF KeyTaken(r) \/ r \notin Registered THEN "done" ELSE "create"]
    /\ UNCHANGED <<dbVars, queue, pr, callPc, callSnap, localVars, conn, faultVars>>

\* Mutation of CreateRun: no unique constraint behind the check.
CreateRunNotUnique(r) ==
    /\ reqPc[r] = "create"
    /\ wf' = [wf EXCEPT ![r].status = "PENDING"]
    /\ reqPc' = [reqPc EXCEPT ![r] = "dispatch"]
    /\ UNCHANGED <<step, queue, pr, callPc, callSnap, localVars, conn, faultVars>>

\* Repository.Create: the row and its PENDING steps in one transaction, which
\* the unique constraint aborts when another request committed the key first.
CreateRun(r) ==
    /\ reqPc[r] = "create"
    /\ \/ /\ KeyTaken(r)
          /\ reqPc' = [reqPc EXCEPT ![r] = "done"]
          /\ UNCHANGED wf
       \/ /\ ~KeyTaken(r)
          /\ wf' = [wf EXCEPT ![r].status = "PENDING"]
          /\ reqPc' = [reqPc EXCEPT ![r] = "dispatch"]
    /\ UNCHANGED <<step, queue, pr, callPc, callSnap, localVars, conn, faultVars>>

\* The initial dispatch message.
DispatchRun(r) ==
    /\ reqPc[r] = "dispatch"
    /\ Publish(r)
    /\ reqPc' = [reqPc EXCEPT ![r] = "done"]
    /\ UNCHANGED <<dbVars, pr, callPc, callSnap, localVars, conn, faultVars>>

\* The call fails or its process dies between two of the statements above:
\* every error return of Enqueue, the failed publish included.
RequestFails(r) ==
    /\ reqPc[r] \in {"create", "dispatch"}
    /\ apiFaults < MaxApiFaults
    /\ apiFaults' = apiFaults + 1
    /\ reqPc' = [reqPc EXCEPT ![r] = "done"]
    /\ UNCHANGED <<dbVars, queue, pr, callPc, callSnap, localVars, conn,
                   workerFaults, lostConns>>

-----------------------------------------------------------------------------
(* Engine.Resume, called by the webhook handler or by an operator          *)

\* The webhook handler calls Resume for a "closed" event of a merged pull request
\* only, and each merge is delivered once; an operator may call at any time.
Delivered(c) == c \in Hooks => pr[Target[c]] = "merged"

\* Mutation of ResumeLoad: any run that exists is resumed, whatever its status.
ResumeLoadUnchecked(c) ==
    /\ callPc[c] = "ready"
    /\ Delivered(c)
    /\ Exists(Target[c])
    /\ callPc' = [callPc EXCEPT ![c] = "update"]
    /\ callSnap' = [callSnap EXCEPT ![c] = [wf[Target[c]] EXCEPT !.status = "RUNNING"]]
    /\ UNCHANGED <<dbVars, queue, pr, reqPc, localVars, conn, faultVars>>

\* A run that does not exist, or is not awaiting approval, is an error and the
\* call is over.
ResumeLoad(c) ==
    /\ callPc[c] = "ready"
    /\ Delivered(c)
    /\ \/ /\ wf[Target[c]].status # "AWAITING_APPROVAL"
          /\ callPc' = [callPc EXCEPT ![c] = "done"]
          /\ UNCHANGED callSnap
       \/ /\ wf[Target[c]].status = "AWAITING_APPROVAL"
          /\ callPc' = [callPc EXCEPT ![c] = "update"]
          /\ callSnap' = [callSnap EXCEPT ![c] = [wf[Target[c]] EXCEPT !.status = "RUNNING"]]
    /\ UNCHANGED <<dbVars, queue, pr, reqPc, localVars, conn, faultVars>>

\* Repository.Update writes the whole row from the copy.
ResumeUpdate(c) ==
    /\ callPc[c] = "update"
    /\ wf' = [wf EXCEPT ![Target[c]] = callSnap[c]]
    /\ callPc' = [callPc EXCEPT ![c] = "dispatch"]
    /\ UNCHANGED <<step, queue, pr, reqPc, callSnap, localVars, conn, faultVars>>

ResumeDispatch(c) ==
    /\ callPc[c] = "dispatch"
    /\ Publish(Target[c])
    /\ callPc' = [callPc EXCEPT ![c] = "done"]
    /\ UNCHANGED <<dbVars, pr, reqPc, callSnap, localVars, conn, faultVars>>

ResumeFails(c) ==
    /\ callPc[c] \in {"update", "dispatch"}
    /\ apiFaults < MaxApiFaults
    /\ apiFaults' = apiFaults + 1
    /\ callPc' = [callPc EXCEPT ![c] = "done"]
    /\ UNCHANGED <<dbVars, queue, pr, reqPc, callSnap, localVars, conn,
                   workerFaults, lostConns>>

-----------------------------------------------------------------------------
(* Engine.executeNext, run by the consumer goroutine of worker w           *)

\* What every step of the handler other than Receive leaves alone.
Elsewhere == UNCHANGED <<pr, apiVars, conn, faultVars>>

Goto(w, l) == pc' = [pc EXCEPT ![w] = l]

\* Mutation of Receive: the channel's ok is not looked at, so the handler also
\* runs when there was no message.
ReceiveUnchecked(w, r) ==
    /\ pc[w] = "idle" /\ conn[w]
    /\ Exists(r)
    /\ queue' = [queue EXCEPT ![r] = @ - 1]
    /\ run' = [run EXCEPT ![w] = r]
    /\ Goto(w, "start")
    /\ snap' = [snap EXCEPT ![w] = wf[r]]
    /\ UNCHANGED <<dbVars, seq>>
    /\ Elsewhere

\* Delivery, decoding and Repository.Get: a terminal run is acknowledged, a
\* PENDING one is started, and any other, AWAITING_APPROVAL too, is claimed from.
Receive(w, r) ==
    /\ pc[w] = "idle" /\ conn[w]
    /\ queue[r] > 0
    /\ queue' = [queue EXCEPT ![r] = @ - 1]
    /\ run' = [run EXCEPT ![w] = r]
    /\ \/ /\ wf[r].status \in Terminal
          /\ Goto(w, "ack")
          /\ snap' = [snap EXCEPT ![w] = wf[r]]
       \/ /\ wf[r].status = "PENDING"
          /\ Goto(w, "start")
          /\ snap' = [snap EXCEPT ![w] = [wf[r] EXCEPT !.status = "RUNNING"]]
       \/ /\ wf[r].status \in {"RUNNING", "AWAITING_APPROVAL"}
          /\ Goto(w, "claim")
          /\ snap' = [snap EXCEPT ![w] = wf[r]]
    /\ UNCHANGED <<dbVars, seq>>
    /\ Elsewhere

\* Repository.Update: the whole row from the copy, whatever the row holds now.
Save(w) == wf' = [wf EXCEPT ![run[w]] = snap[w]]

\* Repository.UpdateStep on the step w claimed.
SaveStep(w, s) == step' = [step EXCEPT ![run[w]][seq[w]] = s]

MarkRunning(w) ==
    /\ pc[w] = "start"
    /\ Save(w)
    /\ Goto(w, "claim")
    /\ UNCHANGED <<step, queue, run, seq, snap>>
    /\ Elsewhere

\* Mutation of Claimable: a plain SELECT, without FOR UPDATE SKIP LOCKED.
ClaimableUnlocked(w) == {k \in Steps : step[run[w]][k] = "PENDING"}

\* Mutation of Claimable: failed steps are offered again.
ClaimableFailedToo(w) ==
    {k \in Steps : /\ step[run[w]][k] \in {"PENDING", "FAILED"}
                   /\ \A v \in Workers \ {w} :
                        ~(pc[v] = "locked" /\ run[v] = run[w] /\ seq[v] = k)}

\* Rows SELECT ... FOR UPDATE SKIP LOCKED can return to w: PENDING, and not
\* locked by the claim transaction of another worker.
Claimable(w) ==
    {k \in Steps : /\ step[run[w]][k] = "PENDING"
                   /\ \A v \in Workers \ {w} :
                        ~(pc[v] = "locked" /\ run[v] = run[w] /\ seq[v] = k)}

\* The SELECT of ClaimNextStep: the lowest such row is locked.
ClaimSelect(w) ==
    /\ pc[w] = "claim"
    /\ \E k \in Claimable(w) :
         /\ \A j \in Claimable(w) : k <= j
         /\ seq' = [seq EXCEPT ![w] = k]
    /\ Goto(w, "locked")
    /\ UNCHANGED <<dbVars, queue, run, snap>>
    /\ Elsewhere

\* No row: ErrNotFound, which executeNext takes for "no step remains".
ClaimNothing(w) ==
    /\ pc[w] = "claim"
    /\ Claimable(w) = {}
    /\ snap' = [snap EXCEPT ![w].status = "SUCCEEDED"]
    /\ Goto(w, "finish")
    /\ UNCHANGED <<dbVars, queue, run, seq>>
    /\ Elsewhere

\* The registry of w's process has a function for the claimed step.
KnowsStep(w) == seq[w] < DefSteps[w]

\* The UPDATE and COMMIT of ClaimNextStep, then the lookup of the step in the
\* registry: a sequence the worker's definition lacks fails the run.
ClaimCommit(w) ==
    /\ pc[w] = "locked"
    /\ step' = [step EXCEPT ![run[w]][seq[w]] = "RUNNING"]
    /\ \/ /\ ~KnowsStep(w)
          /\ Goto(w, "finish")
          /\ snap' = [snap EXCEPT ![w].status = "FAILED"]
       \/ /\ KnowsStep(w)
          /\ Goto(w, "run")
          /\ UNCHANGED snap
    /\ UNCHANGED <<wf, queue, run, seq>>
    /\ Elsewhere

\* The step before the gate asks GitHub for the pull request, and has yet to
\* record its URL and return.
CreatePullRequest(w) ==
    /\ pc[w] = "run"
    /\ seq[w] + 1 = Gate
    /\ pr[run[w]] = "none"
    /\ pr' = [pr EXCEPT ![run[w]] = "open"]
    /\ Goto(w, "run")
    /\ UNCHANGED <<dbVars, queue, run, seq, snap, apiVars, conn, faultVars>>

\* Mutation of RunSucceeds: the gate is content with an open pull request.
RunSucceedsUnmerged(w) ==
    /\ pc[w] = "run"
    /\ seq[w] + 1 = Gate \/ seq[w] = Gate => pr[run[w]] # "none"
    /\ Goto(w, "complete")
    /\ UNCHANGED <<dbVars, queue, run, seq, snap>>
    /\ Elsewhere

\* The step function returned nil. The step before the gate has opened the pull
\* request; the gate succeeds only on a merged one.
RunSucceeds(w) ==
    /\ pc[w] = "run"
    /\ seq[w] + 1 = Gate => pr[run[w]] # "none"
    /\ seq[w] = Gate => pr[run[w]] = "merged"
    /\ Goto(w, "complete")
    /\ UNCHANGED <<dbVars, queue, run, seq, snap>>
    /\ Elsewhere

\* The gate returned ErrAwaitingApproval.
RunAwaits(w) ==
    /\ pc[w] = "run"
    /\ seq[w] = Gate
    /\ pr[run[w]] # "merged"
    /\ Goto(w, "revert")
    /\ UNCHANGED <<dbVars, queue, run, seq, snap>>
    /\ Elsewhere

\* The step function returned any other error.
RunFails(w) ==
    /\ pc[w] = "run"
    /\ Goto(w, "fail")
    /\ UNCHANGED <<dbVars, queue, run, seq, snap>>
    /\ Elsewhere

\* Mutation of RevertStep: the gate polls, dispatching itself instead of pausing.
RevertStepPolls(w) ==
    /\ pc[w] = "revert"
    /\ SaveStep(w, "PENDING")
    /\ Goto(w, "redispatch")
    /\ UNCHANGED <<wf, queue, run, seq, snap>>
    /\ Elsewhere

\* UpdateStep back to PENDING, so that Resume finds the step again.
RevertStep(w) ==
    /\ pc[w] = "revert"
    /\ SaveStep(w, "PENDING")
    /\ snap' = [snap EXCEPT ![w].status = "AWAITING_APPROVAL"]
    /\ Goto(w, "pause")
    /\ UNCHANGED <<wf, queue, run, seq>>
    /\ Elsewhere

\* Mutation of Pause: the early return is missing, the run is dispatched anyway.
PauseDispatches(w) ==
    /\ pc[w] = "pause"
    /\ Save(w)
    /\ Goto(w, "redispatch")
    /\ UNCHANGED <<step, queue, run, seq, snap>>
    /\ Elsewhere

\* Update to AWAITING_APPROVAL; nothing is dispatched.
Pause(w) ==
    /\ pc[w] = "pause"
    /\ Save(w)
    /\ Goto(w, "ack")
    /\ UNCHANGED <<step, queue, run, seq, snap>>
    /\ Elsewhere

\* Mutation of FailStep: the early return is missing, the next step is dispatched.
FailStepGoesOn(w) ==
    /\ pc[w] = "fail"
    /\ SaveStep(w, "FAILED")
    /\ Goto(w, "redispatch")
    /\ UNCHANGED <<wf, queue, run, seq, snap>>
    /\ Elsewhere

\* UpdateStep to FAILED, whose error the code drops.
FailStep(w) ==
    /\ pc[w] = "fail"
    /\ \/ SaveStep(w, "FAILED") /\ UNCHANGED workerFaults
       \/ /\ workerFaults < MaxWorkerFaults
          /\ workerFaults' = workerFaults + 1
          /\ UNCHANGED step
    /\ snap' = [snap EXCEPT ![w].status = "NEEDS_ATTENTION"]
    /\ Goto(w, "finish")
    /\ UNCHANGED <<wf, queue, run, seq, pr, apiVars, conn, lostConns, apiFaults>>

\* Engine.finish with the terminal status put into the copy.
Finish(w) ==
    /\ pc[w] = "finish"
    /\ Save(w)
    /\ Goto(w, "ack")
    /\ UNCHANGED <<step, queue, run, seq, snap>>
    /\ Elsewhere

\* Mutation of CompleteStep: current_step moves on, the step's result is not saved.
CompleteStepUnsaved(w) ==
    /\ pc[w] = "complete"
    /\ snap' = [snap EXCEPT ![w].currentStep = seq[w] + 1]
    /\ Goto(w, "advance")
    /\ UNCHANGED <<dbVars, queue, run, seq>>
    /\ Elsewhere

\* UpdateStep to SUCCEEDED.
CompleteStep(w) ==
    /\ pc[w] = "complete"
    /\ SaveStep(w, "SUCCEEDED")
    /\ snap' = [snap EXCEPT ![w].currentStep = seq[w] + 1]
    /\ Goto(w, "advance")
    /\ UNCHANGED <<wf, queue, run, seq>>
    /\ Elsewhere

\* Update with the new current_step and the status the copy was read with.
Advance(w) ==
    /\ pc[w] = "advance"
    /\ Save(w)
    /\ Goto(w, "redispatch")
    /\ UNCHANGED <<step, queue, run, seq, snap>>
    /\ Elsewhere

\* The message for the next step, published before this one is acknowledged.
Redispatch(w) ==
    /\ pc[w] = "redispatch" /\ conn[w]
    /\ Publish(run[w])
    /\ Goto(w, "ack")
    /\ UNCHANGED <<dbVars, run, seq, snap>>
    /\ Elsewhere

\* Publishing on a closed connection is an error; its Nack is lost too.
RedispatchFails(w) ==
    /\ pc[w] = "redispatch" /\ ~conn[w]
    /\ EndHandler(w)
    /\ UNCHANGED <<dbVars, queue>>
    /\ Elsewhere

\* msg.Ack after the handler returned nil.
Ack(w) ==
    /\ pc[w] = "ack"
    /\ EndHandler(w)
    /\ UNCHANGED <<dbVars, queue>>
    /\ Elsewhere

-----------------------------------------------------------------------------
(* Faults of workers and the environment                                   *)

\* A database call of the handler, or its publish, fails: executeNext returns the error and the
\* subscription nacks with requeue. An open claim transaction rolls back.
HandlerError(w) ==
    /\ pc[w] \notin {"idle", "run", "fail", "ack"}
    /\ workerFaults < MaxWorkerFaults
    /\ workerFaults' = workerFaults + 1
    /\ Requeue(w)
    /\ EndHandler(w)
    /\ UNCHANGED <<dbVars, pr, apiVars, conn, lostConns, apiFaults>>

\* The process dies (or is stopped: the handler runs under the signal's context)
\* and is started again.
Crash(w) ==
    /\ pc[w] # "idle" \/ ~conn[w]
    /\ workerFaults < MaxWorkerFaults
    /\ workerFaults' = workerFaults + 1
    /\ Requeue(w)
    /\ EndHandler(w)
    /\ conn' = [conn EXCEPT ![w] = TRUE]
    /\ UNCHANGED <<dbVars, pr, apiVars, lostConns, apiFaults>>

\* The connection drops while the process lives: the broker redelivers the
\* message, the handler goes on, and nothing ever reconnects or resubscribes.
LoseConnection(w) ==
    /\ conn[w]
    /\ workerFaults < MaxWorkerFaults /\ lostConns < MaxLostConns
    /\ workerFaults' = workerFaults + 1
    /\ lostConns' = lostConns + 1
    /\ Requeue(w)
    /\ conn' = [conn EXCEPT ![w] = FALSE]
    /\ UNCHANGED <<dbVars, pr, apiVars, localVars, apiFaults>>

\* A reviewer merges the open pull request.
Merge(r) ==
    /\ pr[r] = "open"
    /\ pr' = [pr EXCEPT ![r] = "merged"]
    /\ UNCHANGED <<dbVars, queue, apiVars, localVars, conn, faultVars>>

-----------------------------------------------------------------------------

RequestStep(r) == CheckKey(r) \/ CreateRun(r) \/ DispatchRun(r)

CallStep(c) == ResumeLoad(c) \/ ResumeUpdate(c) \/ ResumeDispatch(c)

HandlerStep(w) ==
    \/ MarkRunning(w) \/ ClaimSelect(w) \/ ClaimNothing(w) \/ ClaimCommit(w)
    \/ CreatePullRequest(w) \/ RunSucceeds(w) \/ RunAwaits(w) \/ RunFails(w)
    \/ RevertStep(w) \/ Pause(w) \/ FailStep(w) \/ Finish(w)
    \/ CompleteStep(w) \/ Advance(w) \/ Redispatch(w) \/ RedispatchFails(w)
    \/ Ack(w)

WorkerStep(w) == HandlerStep(w) \/ \E r \in Requests : Receive(w, r)

Fault ==
    \/ \E r \in Requests : RequestFails(r)
    \/ \E c \in Callers : ResumeFails(c)
    \/ \E w \in Workers : HandlerError(w) \/ Crash(w) \/ LoseConnection(w)

Next ==
    \/ \E r \in Requests : RequestStep(r) \/ Merge(r)
    \/ \E c \in Callers : CallStep(c)
    \/ \E w \in Workers : WorkerStep(w)
    \/ Fault

\* Consumers keep consuming, a started API call goes on, and GitHub delivers
\* the webhook of a merge. Nothing obliges a client to start a call, a reviewer
\* to merge, or a fault to happen.
Fairness ==
    /\ \A w \in Workers : WF_vars(WorkerStep(w))
    /\ \A r \in Requests : WF_vars(CreateRun(r) \/ DispatchRun(r))
    /\ \A c \in Callers : WF_vars(ResumeUpdate(c) \/ ResumeDispatch(c))
    /\ \A c \in Hooks : WF_vars(ResumeLoad(c))

Spec == Init /\ [][Next]_vars

FairSpec == Spec /\ Fairness

-----------------------------------------------------------------------------
(* Properties                                                              *)

\* A worker owns a step from the commit of its claim until it writes the step.
Holds(w, r, k) ==
    /\ pc[w] \in {"run", "revert", "fail", "complete"}
    /\ run[w] = r
    /\ seq[w] = k

\* Two workers never execute the same step at the same time, whatever crashes,
\* redeliveries and duplicate resumes happen: what ClaimNextStep's SKIP LOCKED
\* claim is for (workflow_repo.go:185-188, ADR-0005).
ClaimExclusive ==
    \A v, w \in Workers, r \in Requests, k \in Steps :
        Holds(v, r, k) /\ Holds(w, r, k) => v = w

\* The row a claim transaction has locked.
Locks(w, r, k) == pc[w] = "locked" /\ run[w] = r /\ seq[w] = k

\* What makes ClaimExclusive inductive: a locked row is PENDING and locked once,
\* and a held step is RUNNING, so no second claim can select it.
ClaimInv ==
    /\ \A w \in Workers, r \in Requests, k \in Steps :
          /\ Locks(w, r, k) => step[r][k] = "PENDING"
          /\ Holds(w, r, k) => step[r][k] = "RUNNING"
    /\ \A v, w \in Workers, r \in Requests, k \in Steps :
          Locks(v, r, k) /\ Locks(w, r, k) => v = w
    /\ ClaimExclusive

\* A step recorded as SUCCEEDED or FAILED is never claimed, re-run or rewritten
\* by a later, redelivered or concurrent executeNext.
SettledStepsStay ==
    [][\A r \in Requests, k \in Steps :
         step[r][k] \in {"SUCCEEDED", "FAILED"} => step'[r][k] = step[r][k]]_vars

\* Concurrent Enqueue calls with one idempotency key create one run: the check
\* of GetByIdempotencyKey alone would let two of them through.
OneRunPerKey ==
    \A q, r \in Requests : Exists(q) /\ Exists(r) /\ Key[q] = Key[r] => q = r

\* What makes OneRunPerKey inductive: messages, handlers and calls only ever name
\* runs that exist, so that the blind whole-row saves never bring a row into
\* being behind the unique constraint.
KeyInv ==
    /\ OneRunPerKey
    /\ \A r \in Requests : queue[r] > 0 \/ reqPc[r] = "dispatch" => Exists(r)
    /\ \A w \in Workers : pc[w] # "idle" => Exists(run[w]) /\ snap[w].status # "NONE"
    /\ \A c \in Callers : callPc[c] \in {"update", "dispatch"} =>
                             Exists(Target[c]) /\ callSnap[c].status # "NONE"

\* Something will still drive run r: a queued message, a message a connected
\* worker has yet to act on, or an API call about to publish one.
Driven(r) ==
    \/ queue[r] > 0
    \/ reqPc[r] = "dispatch"
    \/ \E c \in Callers : Target[c] = r /\ callPc[c] = "dispatch"
    \/ \E w \in Workers : run[w] = r /\ conn[w] /\ pc[w] \notin {"idle", "ack"}

\* A run that is PENDING or RUNNING is never forgotten: the next message is
\* published before the current one is acknowledged, so a worker that dies
\* anywhere in executeNext leaves a message behind. (API calls that die, and
\* lost broker connections, are outside this promise: see ResumesAfterRestart.)
NoLostDispatch ==
    \A r \in Requests : wf[r].status \in {"PENDING", "RUNNING"} => Driven(r)

\* What makes NoLostDispatch inductive when API calls do not die and broker
\* connections hold: a worker about to pause or to finish has that status in
\* its copy, so the row it saves needs no further message.
DispatchInv ==
    /\ NoLostDispatch
    /\ \A w \in Workers :
          /\ conn[w]
          /\ pc[w] = "pause" => snap[w].status = "AWAITING_APPROVAL"
          /\ pc[w] = "finish" => snap[w].status \in Terminal

Settled(r) == wf[r].status \in Terminal \cup {"AWAITING_APPROVAL"}

\* Every submitted or resumed run gets to a terminal status or to its approval
\* gate, even if workers crash on the way.
RunsSettle ==
    \A r \in Requests : wf[r].status \in {"PENDING", "RUNNING"} ~> Settled(r)

\* Dispatching dies down: no run is redelivered or redispatched for ever.
QueueDrains == <>[](\A r \in Requests : queue[r] = 0)

\* "Resuming after an application restart requires no special-case code: the
\* worker just picks up any workflow left in a non-terminal state with pending
\* steps" (ADR-0005): RunsSettle with API processes that may die too.
ResumesAfterRestart ==
    \A r \in Requests :
        wf[r].status \in {"PENDING", "RUNNING"} /\ (\E k \in Steps : step[r][k] = "PENDING")
            ~> Settled(r)

\* No step after the approval gate starts before the pull request is merged
\* (cluster_provision.go: the gate decides whether anything else happens).
GateRespected ==
    \A r \in Requests, k \in Steps :
        k > Gate /\ step[r][k] # "PENDING" => pr[r] = "merged"

\* A run reported SUCCEEDED has completed every one of its steps.
SucceededMeansDone ==
    \A r \in Requests : wf[r].status = "SUCCEEDED" =>
        \A k \in Steps : step[r][k] = "SUCCEEDED"

\* After a step failure the run stops: no later step starts (engine.go:189-192).
FailureStops ==
    \A r \in Requests, j, k \in Steps :
        j < k /\ step[r][j] = "FAILED" => step[r][k] = "PENDING"

\* A terminal run is never revived or given another verdict: "terminal; nothing
\* to do" (engine.go:200).
TerminalStays ==
    [][\A r \in Requests : wf[r].status \in Terminal => wf'[r].status = wf[r].status]_vars

\* While a run is AWAITING_APPROVAL none of its steps is claimed: "nothing runs
\* again until something calls Engine.Resume" (engine.go:32).
PausedStaysIdle ==
    [][\A r \in Requests, k \in Steps :
         /\ wf[r].status = "AWAITING_APPROVAL"
         /\ wf'[r].status = "AWAITING_APPROVAL"
         => step'[r][k] = step[r][k]]_vars

\* A merge whose webhook was delivered lets the run go on: it does not stay at
\* its gate for ever (webhook_handlers.go:41-44).
MergeResumes ==
    \A r \in Requests : pr[r] = "merged" ~> wf[r].status # "AWAITING_APPROVAL"

\* current_step never claims more progress than was made: every step below it
\* has SUCCEEDED.
ProgressSound ==
    \A r \in Requests, k \in Steps :
        k < wf[r].currentStep => step[r][k] = "SUCCEEDED"

=============================================================================
