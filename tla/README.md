# Verification of the Talos Platform

TLA+ specifications of the parts of the Talos Platform in which processes,
messages and failures interact, TLC configurations that check them on small
instances, and TLAPS proofs of the properties that hold for every size.
Paths below are relative to `src/`.

## 1. The system

A control plane for Talos Kubernetes clusters. Three long-running programs share
PostgreSQL, RabbitMQ and Redis:

* `platform-api` serves HTTP, creates workflow runs and also consumes dispatch
  messages;
* `platform-worker` (any number of replicas) executes workflow steps;
* `platform-scheduler` (any number of replicas, one leader) observes Argo CD and
  maintains alerts.

### Components

| Component | State | Operations | Interacts with | Hard part | Must hold |
|---|---|---|---|---|---|
| Workflow engine `internal/workflows/engine.go` | none of its own; a copy of the row while it handles a message | `Enqueue`, `Resume`, `executeNext`, `finish` | repository, broker, step functions | crash between any two writes; redelivery; stale whole-row saves | one executor per step; no unfinished run is forgotten; steps in order; the gate holds |
| Workflow repository `postgres/workflow_repo.go` | `workflows`, `workflow_steps` | `Create`, `Update`, `UpdateStep`, `ClaimNextStep` | engine | row locks, `SKIP LOCKED`, unique key | one claim per step, one run per key |
| Dispatch queue `rabbitmq/broker.go` | durable queue, unacknowledged messages | `Publish`, `Subscribe` | engine | at-least-once, no reconnection | nothing lost while connections hold |
| Workflow definitions `cluster_provision.go`, `cluster_upgrade.go`, `worker_scale.go`, `capi_change.go` | cluster row, change sets, Git | step functions | GitHub, Argo CD, Cluster API | a step whose worker dies is skipped; the newest change set is somebody else's | the state follows the life cycle; what is installed was merged |
| Approval gate and webhook | pull request, change sets | open, await merge, webhook, resume | GitHub, engine | webhook racing the pause; newer change sets | nothing after the gate before the run's own merge; a merge resumes the run |
| Cluster service `clusterservice/service.go`, life cycle `domain/cluster`, `cluster_repo.go` | `clusters` row: state and spec | `Create`, `Plan`, `Provision`, `Delete`, `Upgrade`, `ScaleWorkers`, `TriggerSync`, `Rollback` | engine, repositories, GitHub | whole-row saves from stale copies; failure between the save and `Enqueue` | legal moves only; no lost spec; Git carries what the row asks for |
| Manifest rendering `gitopsrender`, `clusterapi` | none | spec to files | definitions | files shared by pools | a change of the spec changes a file |
| Leader election `leaderelection/`, `redis/client.go` | Redis key with TTL, `Elector.lock` | `IsLeader`, `Resign`; `AcquireLock`, `Renew`, `Unlock` | scheduler loop | expiry during a pass, half-executed calls | one pass at a time; nobody touches another's lease; failover |
| Scheduler pass `cmd/platform-scheduler` | `alerts`, `argo_applications` | `run`, `reconcileCluster`, `reconcileArgoCD`, `upsertAlert` | Argo CD, PostgreSQL | overlapping passes with stale reads, calls whose errors are only logged | alerts follow what they watch and keep their times |
| Machine operations `machineservice/service.go`, handlers, audit | `operations`, `audit_logs` | begin, run, finish | Talos, providers | two requests with one key, hang-ups, crashes, lost answers | once per key; a truthful record and audit entry |
| Authentication and authorization `middleware/auth.go`, `authservice`, `auth/rbac.go` | `users`, `role_bindings` | `GetOrCreateUser`, `Authorize` | handlers | first logins racing; revocation; inherited scopes | nothing is done for somebody without the role |
| Talos client `integrations/talos` | registered credentials per endpoint | `EnsureCredentials`, calls | machines | concurrent requests for several clusters in one client | own credentials for each cluster |
| Infrastructure providers `inframanager`, `proxmox`, `baremetal` | none | power control | hypervisors, BMCs | unconfigured provider or protocol | an error, not a hang |
| In-process broker, live event feed, configuration, HTTP plumbing, CLI, web | none that matters | | | | |

`PROJECT.json` lists each of them with its status, and under `hazards` the places
where this code can go wrong in ways a test hardly reaches.

## 2. Modules

| Module | Models |
|---|---|
| `WorkflowEngine` | engine, repository, queue, gate and webhook, with their faults |
| `SequentialWorkflow` | what a run promises: the abstract specification |
| `EngineRefinement` | the two compared: `SerialResumes`, `SerialSpec` and the refinement mapping |
| `MCWorkflowEngine` | constants for TLC |
| `WorkflowEngineProofs` | theorems about `WorkflowEngine` |
| `EngineRefinementProofs` | the engine implements the sequential run, and what follows |
| `LeaderElection` | elector, Redis lock and the scheduler's loop, with their faults |
| `MCLeaderElection` | symmetry for TLC |
| `LeaderElectionProofs` | theorems about `LeaderElection` |
| `Manifests` | what a spec renders to, as functions from paths to contents |
| `ClusterOperations` | one cluster: its row, change sets, repository and pull requests, the requests and runs that share them |
| `MCClusterOperations` | specs and bounds for TLC, and the state a first provisioning leaves |
| `ClusterOperationsProofs` | theorems about `ClusterOperations` |
| `ClusterSerialProofs` | while requests and runs do not overlap: the row and its copies |
| `ClusterGitProofs` | while requests and runs do not overlap: branches, change sets, gates and what a run delivers |
| `Access` | roles, scope chain, `Authorize` |
| `MachineOperations` | a request that operates on a machine, from token to audit entry |
| `MCMachineOperations` | a small tenancy tree, machines and requests for TLC |
| `MachineOperationsProofs` | theorems about `MachineOperations` |
| `Alerts` | the scheduler's pass over the clusters |
| `MCAlerts` | applications for TLC |
| `AlertsProofs` | theorems about `Alerts` |

How they fit together. `ClusterOperations` uses `Manifests`, `MachineOperations` uses
`Access`. Between the others the composition is by assumption and guarantee:
`WorkflowEngine` shows that the steps of a run execute one at a time and in order
while no dispatch message is duplicated, and `ClusterOperations` executes them so;
`LeaderElection` shows how many passes run at a time and when two may, and `Alerts`
lets them overlap freely.

### WorkflowEngine

State. `wf[r]` is the `workflows` row (status, `current_step`), `step[r][k]` the
status of a `workflow_steps` row, `queue[r]` the number of ready messages that name
run `r`. The message a worker is handling is unacknowledged as long as its
connection lives. `pc`, `run`, `seq` and `snap` are the local variables of
`executeNext`: `snap` is the struct `wf` of the Go code, which is mutated first and
saved later. `reqPc` and `callPc`/`callSnap` play that role for `Enqueue` and
`Resume`. `pr[r]` is the run's pull request.

Steps. Every statement of `Enqueue`, `Resume` and `executeNext` that touches the
database or the queue is an action, in the order of the code, so that any two
processes interleave between statements:

    Enqueue      CheckKey, CreateRun, DispatchRun
    Resume       ResumeLoad, ResumeUpdate, ResumeDispatch
    executeNext  Receive, [MarkRunning], ClaimSelect | ClaimNothing, ClaimCommit,
                 [CreatePullRequest], RunSucceeds | RunAwaits | RunFails, then
                   CompleteStep, Advance, Redispatch, Ack      (nil)
                   RevertStep, Pause, Ack                      (ErrAwaitingApproval)
                   FailStep, Finish, Ack                       (any other error)
    finish       Finish

`ClaimSelect` and `ClaimCommit` are the two halves of one transaction; the row lock
of `FOR UPDATE SKIP LOCKED` is the state between them. `Save` is
`Repository.Update`: it writes the whole row from the copy, whatever the row has
become.

Faults. `HandlerError`: any database call, or the publish, returns an error and the
message is requeued (`Nack`). `Crash`: the process dies at any point, its message is
requeued and it starts again; a stopped process is the same, because the handler
runs under the signal's context. `LoseConnection`: the connection drops, the
message is redelivered while the old handler goes on, and nothing reconnects.
`RequestFails`, `ResumeFails`: an API call fails or its process dies between two
statements. A write that took effect although its caller saw an error is the write
followed by the crash.

Abstractions. The order of messages in the queue is not kept (they only name a run).
Prefetching is left out: a message a worker has prefetched is one it can receive,
or one that is requeued. Timestamps, attempts, outputs, error texts and audit events
are left out: no branch of the engine reads them. The step functions are reduced to
their three results, except that the step before the gate opens the pull request.

### LeaderElection

State. `holder`/`ttl` is the Redis key, `handle[p]` says whether `Elector.lock` is
set, `pc[p]` is where the loop is, `due[p]`/`ready[p]` the ticker and its channel of
capacity one, `left[p]` how long the current pass may still take. All timers count
down, so that the state space is finite without bounding time.

Steps. `Renewed`, `Lost`, `RenewFails`, `Acquired`, `Refused` and `AcquireFails` are
the outcomes of `IsLeader`; after `Lost` the call goes on to acquire, as in the code.
`RenewFails` and `AcquireFails` happen before or after the server executed the
command. `Shutdown` is the deferred `Resign`, whose `Unlock` may fail. `Tick` lets
one unit pass. Redis executes a command atomically; Redis failover with loss of the
key, and clocks of different rates, are not modelled. `PassMax` counts the pass from
the moment the server granted the lease, so it includes the delay of the answer.

### ClusterOperations

State. `cluster` is the row of the one cluster there is, `changeSets` the rows of
`gitops_changesets`; `main`, `branches` and `pulls` are the repository, whose commits
are trees (functions from paths to contents) and whose pull requests remember the
tree they forked from. A process is a request (a caller) or a run (named by its
idempotency key); `kind` says which program it executes and `pc` how far it is.
`row[p]` and `held[p]` are its local copies, the struct `c` and the change set of the
Go code.

Steps. A program is the list of the calls its handler or its step functions make,
in their order (`Program`); every call is one action, so processes interleave
between calls and write from copies that may be stale. `Load` is `clusters.Get`; the
actions that write (`transitionAndSave`, `Transition`, `Claim`, `Retarget`, `Resize`)
save the whole copy, as `Update` does. `Claim` is `Provision`'s walk through three
states in memory. `Enqueue` returns the run of a known key, starts a run of a
registered definition, or fails. A run that fails stays failed; a run that reaches an
unmerged gate is put back to the start of its step (`StepStart`) and waits; the webhook
or an operator resumes it there. `Skips` are the branches for `DIRECT_TALOS` clusters and clusters
without Argo CD. Steps of the definitions that only compute or log, such as the
upgrade steps of `DIRECT_TALOS` clusters that are placeholders in the code, have no
call and no entry.

Environment. People merge, close and delete branches of pull requests, as GitHub lets
them; a merge is GitHub's three-way merge by file. Readiness and health of the cluster
are free choices. `CallFails`: any call may fail. `Crash`: a request is lost; of a run, the
step it was in is skipped (`SkipStep`). The engine commits the claim of a step before it
runs it, so after the worker's death the step is `RUNNING` for ever, the redelivered message
claims the next `PENDING` step (`NextStep`), and a run interrupted in its last step
has `SUCCEEDED`. The same action stands for an engine that cannot write that a step goes back to
`PENDING`, or that it failed. `faults` counts lost calls and requests apart from workers that
died in a step; `Unharmed` says that none of the latter happened so far. What `WorkflowEngine`
has besides, two overlapping steps of one run after a duplicated message, is left out.

`Spec` lets any number of requests and runs overlap. `SerialSpec` starts a request
only when no other is under way and no run works or waits; this is how the
repository expects a cluster to be used, and most of what it says holds only then.

### MachineOperations

State. The four tables, the Talos client's registry `byEndpoint`, how often the
operation of a key was really carried out (`acts`, which no code sees), and for every
request its place and local variables.

Steps. One action per call in the order of `Authenticate`, `requireRoleAudited`, the
handler, `runOperation` or `runInfraOperation`, and `recordAudit`. `runOperation`
lets the call to the machine be done or not and be reported or not. A key that is on
record answers with its operation, whatever it is for.

Faults. `CallFails`: a call to the database returns an error. `HangUp`: the client
goes away, which cancels the request's context, so that every later call fails, the
final save and the audit entry included. `Crash`: the process dies with its requests
and its registry. A request that was calling its machine may have had its effect.
Users are disabled, and bindings given and taken, at any time. No code in the
repository disables a user; the row can be changed by hand and is read on every
request.

`beginOperation`'s comment speaks of "the already-recorded terminal Operation"; the
code returns the recorded one also while it is RUNNING, and so does the model.

### Alerts

State. What the scheduler watches (`state`, `app`), the two tables it writes, and for
each scheduler the place of its pass and what it read. Steps are the calls of `run`
in order; an error is only logged, so a failed call is a step without its effect.
`firing` is empty if the list could not be read. `moves` counts changes of the world
and is the time that `fired_at` and `resolved_at` hold.

## 3. Runs

One unit of time is 15 s in the `LE_` runs: TTL 3 (45 s), ticker 2 (30 s).

| Run | Checks | Result |
|---|---|---|
| `WE_faults` | `TypeOK`, `ClaimExclusive`, `SettledStepsStay` with 2 workers, 3 steps, 2 overlapping resumes, 2 worker faults (1 may be a lost connection), 1 API fault | holds, 2.8 M states |
| `WE_serial` | refinement of `SequentialWorkflow`, `PausedStaysIdle`, `ProgressSound`, `OneRunPerKey`, and the promises `GateRespected`, `SucceededMeansDone`, `FailureStops`, `TerminalStays`; no worker fault, resumes of one run do not overlap, one API fault, two requests with one key, one worker with an older definition | holds |
| `WE_dispatch` | `NoLostDispatch`, `RunsSettle`, `QueueDrains` with a worker fault, under fairness | holds |
| `WE_gate_crash` | `GateRespected` with one crash | **violated** |
| `WE_lost_webhook` | `MergeResumes`, no fault | **violated** |
| `LE_timely` | `OnePass`, `HandleFresh`: 3 replicas, passes within the TTL, 3 faults | holds |
| `LE_stalled` | `LeaseIsKept`, `WorkGoesOn`: 3 replicas, passes of up to 4 units, 2 faults, under fairness | holds |
| `CL_serial` | life cycle, gate, change sets and delivery, one request or run at a time: 1 caller, 2 keys, 4 specs (both modes, one incomplete, one unplaced), 3 change sets, 1 fault, which may be a worker that dies in a step | holds, 1.4 M states |
| `CL_gate` | `GateMeansMerged` from a provisioned cluster, overlapping requests, no fault | **violated** |
| `CL_stranded` | `UpgradeReturns`, no fault | **violated** |
| `MO_requests` | 2 requests out of 9 (shared and own keys, a bad body, an unknown machine), 3 machines in 2 projects, 1 fault, 1 change of users or bindings; `OperationsSettle` under fairness | holds, 0.36 M states |
| `AL_passes` | 2 schedulers, 2 clusters (one with Argo CD), 1 change, 1 fault, under fairness | holds, 0.6 M states |

What the violations of the engine show together: the claim protects one step, not the sequence.
As long as one message of a run is in flight the engine is the sequential run
(`WE_serial`, and for all constants `EngineIsSequential`), but at-least-once delivery duplicates messages, and then the next
`PENDING` step may be claimed while, or although, an earlier one did not succeed;
the rows themselves are saved without looking at what they have become. Each
finding in `PROJECT.json` quotes the sentence of the repository that says otherwise.
`PausedStaysIdle` and `ProgressSound` also fail with one worker fault, for the same
reason: a redelivered message of a paused run claims the gate again, and with a
duplicated message `current_step` moves past a step that is still running.

Five more statements of the repository about these modules are refuted the same way;
the configurations named here with the property put in place of theirs show it. The
first three and `GateRespected` hold in `WE_serial`, without worker faults and
overlapping resumes, so these are their only causes:

| Property | Configuration | What happens |
|---|---|---|
| `SucceededMeansDone` (engine.go:38-40, ADR-0005) | `WE_gate_crash` | a worker dies inside a step; the step stays `RUNNING`, is never claimed again, and the run ends `SUCCEEDED` without it |
| `FailureStops` (engine.go:190-192) | `WE_gate_crash` | a worker dies between the `FAILED` step and the `NEEDS_ATTENTION` run; the redelivered message runs the next step |
| `TerminalStays` (engine.go:200) | `WE_gate_crash` with `MaxWorkerFaults = 0` | the second of two overlapping `Resume` calls writes its stale row over a run that ended |
| `ResumesAfterRestart` (ADR-0005) | `WE_lost_webhook` with `MaxApiFaults = 1` | the API process dies between creating a run and dispatching it; no restart picks the run up |
| `OnePass` (platform-scheduler/main.go:6) | `LE_timely` with `PassMax = 4` | a pass longer than the TTL overlaps with the pass of the next leader |

Of the cluster properties `LegalMoves`, `SpecKept`, `StatusForward` and `Delivered`
are also false under `Spec`, where requests and runs overlap: every save writes the
whole row from a copy. `TypeOK` and `InstalledWasMerged` hold there too.

A worker that dies inside a step is enough to break three promises without any overlap,
because the step is skipped and the run goes on. In the await step of a scaling or an
upgrade: the run is past its gate with its pull request unmerged, and ends `SUCCEEDED`. In
the commit step, before the change set is recorded: the await step takes an older change set
that is already `SYNCED`, finds it merged and writes `MERGED` over it, and again the run
ends with nothing merged that it was asked for. So `GateMeansMerged`, `StatusForward` and
`Delivered` say what holds until a worker dies in a step (`Unharmed`), and no more: calls
still fail, requests are lost and gates are resumed. Without that condition TLC refutes each
of them with the constants of `CL_gate`, `MaxFaults = 1` and `ProvisionedSerialSpec`, where
nothing overlaps (`OwnMerged` is `GateMeansMerged` without it). The comment at
`internal/workflows/capi_change.go:84-88` ("checks whether the PR that opened has been merged
yet, and if not, returns ErrAwaitingApproval") is not true of a run whose await step was
interrupted. `TypeOK`, `InstalledWasMerged`, `LegalMoves` and `SpecKept` hold whoever dies.
In particular a provisioning that skips its gate cannot install: the transition to
`INSTALLING` is in the gate's step, and from `BOOTSTRAPPING` the life cycle refuses the one
that follows.

What a cluster is left with when things fail is part of the model and not of a promise: a
`Provision` whose `Enqueue` fails leaves `PROVISIONING` behind, a `Delete` always ends
in `DELETING` because no process registers `CLUSTER_DELETE`, a second `Upgrade` with
the default key changes the spec and starts no run, and a commit step that fails after
`CreateBranch` leaves its branch, at which every later run of that operation fails. `Rollback` of a change set that created files fails: the comment at
clusterservice/service.go:319-326 says it deletes them, but GitHub's 404 does not
become the `ErrNotFound` that branch of the code waits for.

Bounds. Two workers are enough for every pairwise race of claims and saves; a third
only repeats a role. Three steps with the gate in the middle give one step on each
side of it. One run at a time in the fault runs, because runs share nothing but the
queue's capacity; `WE_serial` has two requests. Two worker faults allow a duplicated message and
a crash of one of its handlers. Worker symmetry is used where no liveness is checked.
`CHECK_DEADLOCK FALSE` in the `WE_` runs: a system whose runs have all settled, with
no further request, rightly stops. The same holds of the `CL_` and `MO_` runs.

`CL_serial` tells states apart by `LiveState` (a VIEW), which leaves out what no call reads any
more; every property but `TypeOK`'s clauses about those values is a property of what is left.
Three change sets allow a provisioning, a change and a rollback, and two
keys a run whose key is asked for again; while requests are serial a second caller
would be no different from the first. In `MO_requests` two requests give every race for
a key, an endpoint or a first login, and the nine requests cover every kind of route,
provider and refusal. In `AL_passes` two overlapping passes write over each other in
every order, one change makes what a pass read stale, and a second cluster shows that a
pass carries nothing from one to the next.

Fairness. `WorkflowEngine`: each worker keeps taking steps (its goroutine is always
scheduled and the broker delivers to a connected consumer), an API call that started
goes on, and the one webhook of a merge is delivered. No fairness is assumed of
clients, reviewers, operators or faults. Weak fairness per worker is enough, because
nothing another worker does disables a handler for ever. `LeaderElection`: time
passes, loops run, passes end and dead processes are restarted (the Deployment does
that). `MachineOperations`: a handler that has begun goes on, that is, its calls return or
fail. This is an assumption about the environment: the code gives the calls to Talos
machines the request's context and no deadline (`integrations/talos/client.go:240-250`), so a
machine that accepts a connection and never answers holds its request for as long as the
client waits. Nothing is assumed of clients and faults. `Alerts`: some scheduler keeps beginning passes (the leader's ticker) and a
pass that has begun goes on. `AlertsTrack` and `CacheTracks` claim only conditions that
stay as they are from some time on, so they ask nothing of the world.

## 4. Proofs

All theorems hold for any sets of workers, replicas, runs and callers, any number of
steps and any bounds on faults, from the named assumptions on the constants only
(`ConstantsAssumption`, `LeaseAssumption`, `ManifestsAssumption`, `ClusterAssumption`,
`AccessAssumption`, `MachineAssumption`, `AlertsAssumption`, which TLC evaluates in every
run). A theorem that needs more names it in its statement.

| Theorem | Statement | Argument |
|---|---|---|
| `WorkflowEngineProofs!TypeCorrect` | `Spec => []TypeOK` | per action |
| `ClaimsAreExclusive` | `Spec => []ClaimExclusive` | `ClaimInv`: a locked row is `PENDING` and locked once, a held step is `RUNNING`; a claim only selects `PENDING` rows nobody locks, so neither can be selected twice. `ClaimExclusive` alone is not inductive: it says nothing of the time between `SELECT` and `COMMIT`. |
| `SettledSteps` | `Spec => SettledStepsStay` | only the owner of a step writes it, and by `ClaimInv` it is then `RUNNING` or `PENDING` |
| `NoDispatchIsLost` | `MaxApiFaults = 0`, `MaxLostConns = 0`: `Spec => []NoLostDispatch` | `DispatchInv`: a worker about to pause or finish has that status in its copy, so the save that ends the driving of a run also ends the need for it |
| `KeysAreUnique` | `Spec => []OneRunPerKey` | `KeyInv`: messages, handlers and calls only name runs that exist, so that the blind saves never create a row behind the unique constraint |
| `EngineRefinementProofs!EngineIsSequential` | `MaxWorkerFaults = 0`: `SerialSpec => ImplementsSequential` | `SerialInv`, below; then one lemma per action, a step of `SequentialWorkflow` or a stutter |
| `ProgressIsSound`, `PausedRunsAreIdle` | `MaxWorkerFaults = 0`: `SerialSpec => []ProgressSound`, `PausedStaysIdle` | from `SerialInv` |
| `GatesAreRespected`, `SuccessIsComplete`, `FailuresStop` | `MaxWorkerFaults = 0`: `SerialSpec => []GateRespected`, `[]SucceededMeansDone`, `[]FailureStops` | from `SerialInv` |
| `VerdictsStay` | `MaxWorkerFaults = 0`: `SerialSpec => TerminalStays` | from the refinement: the abstract steps leave ended runs alone |
| `LeaderElectionProofs!TypeCorrect` | `Spec => []TypeOK` | per action |
| `PassesAreExclusive` | `PassMax < TTL`: `Spec => []OnePass` | `PassCovered`: a replica in its pass owns the key, and the key outlives the pass |
| `LeasesAreKept` | `Spec => LeaseIsKept` | per action, from the type invariant |
| `HandlesAreFresh` | `PassMax < TTL`, `Interval < TTL`: `Spec => []HandleFresh` | `InTime`: who has a handle owns a key that outlives both its pass and the time until its next tick |
| `ClusterOperationsProofs!TypeCorrect` | `Spec => []TypeOK` | from `Inv`, below |
| `InstalledWereMerged` | `Spec => []InstalledWasMerged` | `Merged`: every copy of the row in an installed state, and every provisioning run in its gate's step and behind the gate, has a merged pull request before it, and merged pull requests stay merged |
| `ClusterSerialProofs!MovesAreLegal`, `SpecIsKept` | `SerialSpec => LegalMoves`, `SpecKept` | from `SerialInv`, below |
| `ClusterGitProofs!GatesMeanMerged` | `SerialSpec => []GateMeansMerged` | from `GitInv`, below |
| `StatusesGoForward`, `RunsDeliver` | `SerialSpec => StatusForward`, `Delivered` | from `GitInv`, below |
| `MachineOperationsProofs!TypeCorrect` | `Spec => []TypeOK` | from `Inv`, below |
| `OnceOnly`, `TrueRecords` | `Spec => []AtMostOnce`, `[]RecordIsTrue` | a request that works on an operation owns the record of its key, and only the owner calls the machine |
| `OnlyPermitted` | `Spec => []Permitted` | the owner of a record was granted its route's role; `ChainAbove`: every scope the check looks at is the platform or above the cluster, for any tenancy tree |
| `RightCredentials` | `Spec => []OwnCredentials` | what is registered for an endpoint is its cluster's, and is there when the call is made |
| `FaultsStrand`, `AuditAgrees` | `Spec => []OnlyFaultsStrand`, `[]Audited` | how far a record is determines how far its owner is, or the owner met a fault |
| `RecordsStay` | `Spec => SettledOperationsStay` | `finishOperation` writes the owner's record, which is `RUNNING` |
| `AlertsProofs!TypeCorrect`, `ResolvedWasFired`, `BeganKept` | `Spec => []TypeOK`, `NeverResolvedUnfired`, `FiredAtKept` | `Remembered`: a title a pass holds as firing has a row; rows never disappear, and an upsert (`Moved`) respects what it finds |

`EngineRefinementProofs!SerialInv` says that a run has at most one baton: its message in
the queue, the handler that took the message and has not published the next, or a
request or `Resume` about to publish (`Apart`, `Waiting`). Only who has the baton writes
the run. So the copy a handler will save differs from the row by what the handler did
to it (`View`), blind saves lose nothing, and the steps of a run settle in their order
(`RowFine`). Neither hypothesis can be dropped. A worker fault makes a second baton, and
`WE_gate_crash` refutes three of these properties with a single crash. Two overlapping
`Resume` calls of one run make one too, and refute `TerminalStays` (section 3). Faults of
API calls are allowed: a request that dies drops the baton, and a run without one stands
still.

`MachineOperationsProofs!Inv` is the inductive invariant of that module: `Informed`
(a request knows its user's bindings and its machine's scope), `Placed` (where a
request can be, and what it was granted to be there), `Owning` (a request between
`beginOperation` and `finishOperation` owns the record of its key, which is `RUNNING`,
and its machine was not called before its call), `Recordings` (what each record says
of its owner), and `Credentials`. None of the properties is inductive by itself:
`AtMostOnce` says nothing of a request that has yet to call its machine. The proofs
need that machines of different clusters have different management addresses
(`EndpointsApart`); without it the registry really mixes credentials. The database does not
enforce it (`migrations/0002_clusters.up.sql:40`): it is a premise of a registry keyed by
endpoint.

`ClusterOperationsProofs!Inv` joins `Merged` with what it needs: `Placed` (a process is
inside its program), `Loaded` (a process inside a step holds the copy of a cluster
that exists, so that what it saves does too) and `Tables`, `Numbers` (what rows and
copies name exists). `InstalledWasMerged` alone is not inductive, because a stale copy
may be saved at any time. Where the calls of a program are is `ProgramFacts`; that the
step of a gate starts at a call the run had reached needs that a finite set of
numbers has a largest one, which is derived from the well-founded order of finite sets.
A skipped step does no harm to any of this: the run comes to the head of the next step
(`Came`), which loads the row before anything is saved (`StepEntered`), and leaves what a
merge has to be behind (`BehindGate` is inside the gate's own step).
The theorems are about `Spec`, where everything overlaps, and so hold of `SerialSpec`.

`ClusterSerialProofs!SerialInv` adds to it what is true while requests and runs do not
overlap: at most one process is under way (`Alone`), so inside a step, which begins with a
load, its copy is the row as it is (`Current`), and a run executes a workflow and never the
program of a request (`RunsRun`). A save then changes what the call changes and nothing
else; neither property can be read off the calls without `Current`, and both are false
where it fails, under `Spec`.

`ClusterGitProofs!GitInv` adds what is true of Git. A process that goes through Git and
has recorded its change set holds the newest one, which is its own (`Holds`), so that
"the newest change set of the cluster", which is what the code asks for, is the one it
means. What a run was asked for is on its branch, then in its pull request, and stays
there until the run ends (`Asked`), because the row's spec stays (`SpecIsKept`) and nobody
deletes a branch while somebody is at work. A run records one change set at most (`Once`).
A run
goes back only from its gate, and only to the start of the gate's own step, which comes after
the record, so it never records twice. It goes forward only from call to call, as long as no
step is skipped: a skipped one leads past the record or past the gate. The inductive
invariant is therefore `UntilDeath`, which is `SerialInv`, and `GitInv` until a worker dies in
a step. Who waits for the
approval has linked (`Waits`), so a branch deleted meanwhile is not needed any more. None
of the three properties is inductive: `GateMeansMerged` says nothing of a run that has yet
to reach its gate.
Change sets name "none" where no run made them, so "none" must be no key
(`ClusterAssumption`); in the code it is NULL. Under `Spec`, where the newest change set may be
another run's, `CL_gate` refutes `GateMeansMerged` without any fault.

The assumption of `PassesAreExclusive` is necessary: the counterexample is
`LE_timely` with `PassMax = 4`. The assumptions of `NoDispatchIsLost` are
too: `ResumesAfterRestart` for dying API calls, and a worker whose publish fails on a lost
connection for the other.

Only model-checked: everything about liveness (`RunsSettle`, `QueueDrains`,
`WorkGoesOn`, `OperationsSettle`, `AlertsTrack`, `CacheTracks`), which the prover does
not handle. Every invariant and every action property that a passing run checks is proved.

## 5. Not modelled

* The text of manifests, encryption of secrets, configuration, routing and decoding of
  HTTP, metrics and logs, the CLI and the web front end: no state or protocol of their
  own. The rate limiter only refuses requests.
* The in-process broker: `Publish` calls its handlers and returns, so a run is one call
  stack. The live event feed: best effort, and nothing depends on it.
* `ProvisionMachine`, `DeleteMachine`, `Shutdown`, `DiscoverClusterTopology` and the
  removal of rows (`Delete` of the repositories): no route or workflow calls them, or
  they only read.
* Dev login; tokens are valid or not.
* Publisher confirms do not exist in the code, and a broker that loses a published
  message is not modelled. The go-redis client's own retries are part of a failed call.
* Several clusters in one repository: their files and branches are apart, by name.

## 6. Plan

1. The safety parts of what is only model-checked: what a pass that met no fault leaves
   behind in the tables of `Alerts`.
2. `MergeTree` as lemmas: what GitHub's three-way merge makes of a tree that carries a
   spec, and so what the default branch holds when a run is delivered.
3. With the code: `CLUSTER_DELETE` once a definition is registered, and
   `ProvisionMachine` once a workflow calls it.
