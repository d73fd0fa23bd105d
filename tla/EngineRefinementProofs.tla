----------------------- MODULE EngineRefinementProofs -----------------------
(***************************************************************************)
(* While no worker faults and the Resume calls for one run do not overlap, *)
(* the engine implements the sequential run, for any number of workers,    *)
(* runs, steps and dying API calls.                                        *)
(*                                                                         *)
(* The argument: a run has at most one baton, which is a message in the    *)
(* queue, a handler that has not published yet, or a call about to. Only   *)
(* who has the baton writes the run, so that the copy it saves differs     *)
(* from the row by what it changed, and the steps of the run settle in     *)
(* their order.                                                            *)
(***************************************************************************)
EXTENDS EngineRefinement, WorkflowEngineProofs

\* Worker w has the baton of run[w]; caller c has that of Target[c].
Acts(w) == pc[w] \notin {"idle", "ack"}

Calls(c) == callPc[c] \in {"update", "dispatch"}

\* No step of r is being executed and none failed.
Clean(r) == \A k \in Steps : step[r][k] \in {"PENDING", "SUCCEEDED"}

\* All steps before k have succeeded.
Reached(r, k) == \A j \in Steps : j < k => step[r][j] = "SUCCEEDED"

Waiting(r) == queue[r] = 0 /\ reqPc[r] # "dispatch"

RowFine(r) ==
    /\ queue[r] \in {0, 1}
    /\ reqPc[r] = "dispatch" => queue[r] = 0 /\ wf[r].status = "PENDING"
    /\ queue[r] = 1 => wf[r].status \in {"PENDING", "RUNNING"} /\ Clean(r)
    /\ wf[r].status \in {"NONE", "PENDING"} =>
          wf[r].currentStep = 0 /\ \A k \in Steps : step[r][k] = "PENDING"
    /\ wf[r].status = "AWAITING_APPROVAL" => Clean(r)
    /\ wf[r].status = "SUCCEEDED" => \A k \in Steps : step[r][k] = "SUCCEEDED"
    /\ \A k \in Steps : step[r][k] # "PENDING" => Reached(r, k)
    /\ Reached(r, wf[r].currentStep)
    /\ Gate \in Steps /\ step[r][Gate] = "SUCCEEDED" => pr[r] = "merged"

\* The run of w is RUNNING, and w's copy is its row with the status s.
CopyIs(w, s) ==
    /\ wf[run[w]].status = "RUNNING"
    /\ snap[w].status = s /\ snap[w].currentStep = wf[run[w]].currentStep

\* What worker w has done to its copy, and how far its step is.
View(w) ==
    LET r == run[w]
        k == seq[w]
    IN
    /\ pc[w] = "start" =>
          wf[r].status = "PENDING" /\ snap[w] = [status |-> "RUNNING", currentStep |-> 0]
    /\ pc[w] \in {"claim", "redispatch"} => CopyIs(w, "RUNNING") /\ Clean(r)
    /\ pc[w] = "locked" => CopyIs(w, "RUNNING") /\ Clean(r) /\ step[r][k] = "PENDING" /\ Reached(r, k)
    /\ pc[w] \in {"run", "revert", "complete", "fail"} =>
          CopyIs(w, "RUNNING") /\ step[r][k] = "RUNNING" /\ k < DefSteps[w]
    /\ pc[w] = "revert" => k = Gate
    /\ pc[w] = "complete" /\ k = Gate => pr[r] = "merged"
    /\ pc[w] = "pause" =>
          CopyIs(w, "AWAITING_APPROVAL") /\ Clean(r) /\ k = Gate /\ step[r][k] = "PENDING" /\ Reached(r, k)
    /\ pc[w] = "advance" =>
          /\ wf[r].status = "RUNNING" /\ snap[w] = [status |-> "RUNNING", currentStep |-> k + 1]
          /\ Clean(r) /\ step[r][k] = "SUCCEEDED"
    /\ pc[w] = "finish" =>
          \/ CopyIs(w, "SUCCEEDED") /\ \A j \in Steps : step[r][j] = "SUCCEEDED"
          \/ CopyIs(w, "FAILED") /\ step[r][k] = "RUNNING" /\ k >= DefSteps[w]
          \/ CopyIs(w, "NEEDS_ATTENTION") /\ step[r][k] = "FAILED"

WorkerFine(w) == Acts(w) => Waiting(run[w]) /\ View(w)

CallerFine(c) ==
    Calls(c) =>
        LET r == Target[c] IN
        /\ Waiting(r) /\ Clean(r)
        /\ callPc[c] = "update" =>
              /\ wf[r].status = "AWAITING_APPROVAL"
              /\ callSnap[c] = [status |-> "RUNNING", currentStep |-> wf[r].currentStep]
        /\ callPc[c] = "dispatch" => wf[r].status = "RUNNING"

\* One baton for each run.
Apart ==
    /\ \A v, w \in Workers : Acts(v) /\ Acts(w) /\ run[v] = run[w] => v = w
    /\ \A w \in Workers, c \in Callers : Acts(w) /\ Calls(c) => run[w] # Target[c]
    /\ SerialResumes

SerialInv ==
    /\ TypeOK
    /\ \A r \in Requests : RowFine(r)
    /\ \A w \in Workers : WorkerFine(w)
    /\ \A c \in Callers : CallerFine(c)
    /\ Apart

-----------------------------------------------------------------------------
(* What a step leaves alone stays fine. *)

LEMMA RowKeeps ==
  ASSUME NEW r \in Requests, RowFine(r),
         wf'[r] = wf[r], step'[r] = step[r], pr'[r] = pr[r], queue'[r] = queue[r],
         reqPc'[r] = "dispatch" => reqPc[r] = "dispatch"
  PROVE  RowFine(r)'
  BY DEF RowFine, Clean, Reached

LEMMA WorkerKeeps ==
  ASSUME NEW w \in Workers, WorkerFine(w),
         pc'[w] = pc[w], run'[w] = run[w], seq'[w] = seq[w], snap'[w] = snap[w],
         wf'[run[w]] = wf[run[w]], step'[run[w]] = step[run[w]],
         Waiting(run[w]) => queue'[run[w]] = 0 /\ reqPc'[run[w]] # "dispatch",
         pr'[run[w]] \in {pr[run[w]], "merged"}
  PROVE  WorkerFine(w)'
  BY DEF WorkerFine, View, Waiting, Acts, CopyIs, Clean, Reached

LEMMA CallerKeeps ==
  ASSUME NEW c \in Callers, CallerFine(c), callPc'[c] = callPc[c], callSnap'[c] = callSnap[c],
         wf'[Target[c]] = wf[Target[c]], step'[Target[c]] = step[Target[c]],
         queue'[Target[c]] = queue[Target[c]],
         reqPc'[Target[c]] = "dispatch" => reqPc[Target[c]] = "dispatch"
  PROVE  CallerFine(c)'
  BY DEF CallerFine, Waiting, Calls, Clean

\* A handler that has the baton disturbs only its run.
LEMMA HandlerKeeps ==
  ASSUME SerialInv, TypeOK', NEW w \in Workers, Acts(w),
         \A q \in Requests \ {run[w]} :
            /\ wf'[q] = wf[q] /\ step'[q] = step[q] /\ pr'[q] = pr[q] /\ queue'[q] = queue[q],
         \A v \in Workers \ {w} :
            pc'[v] = pc[v] /\ run'[v] = run[v] /\ seq'[v] = seq[v] /\ snap'[v] = snap[v],
         run'[w] = run[w], UNCHANGED apiVars,
         RowFine(run[w])', WorkerFine(w)'
  PROVE  SerialInv'
  <1>api. reqPc' = reqPc /\ callPc' = callPc /\ callSnap' = callSnap
    BY DEF apiVars
  <1>run. run[w] \in Requests
    BY DEF SerialInv, TypeOK
  <1>1. \A q \in Requests : RowFine(q)'
    <2>1. ASSUME NEW q \in Requests, q # run[w] PROVE RowFine(q)'
      BY <2>1, <1>api, RowKeeps DEF SerialInv
    <2>2. QED BY <2>1
  <1>2. \A v \in Workers : WorkerFine(v)'
    <2>1. ASSUME NEW v \in Workers, v # w, Acts(v) PROVE WorkerFine(v)'
      <3>1. run[v] # run[w]
        BY <2>1 DEF SerialInv, Apart
      <3>2. run[v] \in Requests
        BY DEF SerialInv, TypeOK
      <3>3. QED BY <2>1, <3>1, <3>2, <1>api, WorkerKeeps DEF SerialInv, Waiting
    <2>2. ASSUME NEW v \in Workers, v # w, ~Acts(v) PROVE WorkerFine(v)'
      BY <2>2 DEF WorkerFine, Acts
    <2>3. QED BY <2>1, <2>2
  <1>3. \A c \in Callers : CallerFine(c)'
    <2>1. ASSUME NEW c \in Callers, Calls(c) PROVE CallerFine(c)'
      <3>1. Target[c] # run[w]
        BY <2>1 DEF SerialInv, Apart
      <3>2. Target[c] \in Requests
        BY ConstantsAssumption
      <3>3. QED BY <3>1, <3>2, <1>api, CallerKeeps DEF SerialInv
    <2>2. ASSUME NEW c \in Callers, ~Calls(c) PROVE CallerFine(c)'
      BY <2>2, <1>api DEF CallerFine, Calls
    <2>3. QED BY <2>1, <2>2
  <1>4. Apart'
    <2>1. \A v \in Workers : run'[v] = run[v] /\ (Acts(v)' => Acts(v))
      BY DEF Acts
    <2>2. \A c \in Callers : Calls(c)' <=> Calls(c)
      BY <1>api DEF Calls
    <2>3. SerialResumes'
      BY <1>api DEF SerialInv, Apart, SerialResumes
    <2>4. QED BY <2>1, <2>2, <2>3 DEF SerialInv, Apart
  <1>5. QED BY <1>1, <1>2, <1>3, <1>4 DEF SerialInv

\* A handler that ends and publishes nothing disturbs nothing.
LEMMA EndKeeps ==
  ASSUME SerialInv, TypeOK', NEW w \in Workers, EndHandler(w),
         UNCHANGED <<wf, step, queue, pr, apiVars>>
  PROVE  SerialInv'
  <1>api. reqPc' = reqPc /\ callPc' = callPc /\ callSnap' = callSnap
    BY DEF apiVars
  <1>w. ~Acts(w)'
    BY DEF EndHandler, Acts, SerialInv, TypeOK
  <1>v. ASSUME NEW v \in Workers, v # w
        PROVE  pc'[v] = pc[v] /\ run'[v] = run[v] /\ seq'[v] = seq[v] /\ snap'[v] = snap[v]
    BY <1>v DEF EndHandler, SerialInv, TypeOK
  <1>1. \A q \in Requests : RowFine(q)'
    BY <1>api, RowKeeps DEF SerialInv
  <1>2. ASSUME NEW v \in Workers PROVE WorkerFine(v)'
    <2>1. CASE v = w
      BY <2>1, <1>w DEF WorkerFine
    <2>2. CASE v # w
      BY <2>2, <1>v, <1>api, WorkerKeeps DEF SerialInv, Waiting
    <2>3. QED BY <2>1, <2>2
  <1>3. \A c \in Callers : CallerFine(c)'
    BY <1>api, CallerKeeps DEF SerialInv
  <1>4. Apart'
    <2>1. \A v \in Workers : Acts(v)' => Acts(v) /\ run'[v] = run[v]
      BY <1>w, <1>v DEF Acts
    <2>2. \A c \in Callers : Calls(c)' <=> Calls(c)
      BY <1>api DEF Calls
    <2>3. SerialResumes'
      BY <1>api DEF SerialInv, Apart, SerialResumes
    <2>4. QED BY <2>1, <2>2, <2>3 DEF SerialInv, Apart
  <1>5. QED BY <1>1, <1>2, <1>3, <1>4 DEF SerialInv

-----------------------------------------------------------------------------
(* The steps of executeNext. *)

\* What the type invariant says of the row and the step w works on.
LEMMA Handled ==
  ASSUME SerialInv, NEW w \in Workers
  PROVE  /\ run[w] \in Requests /\ seq[w] \in Steps
         /\ wf[run[w]] \in Row /\ snap[w] \in Row
         /\ step[run[w]] \in [Steps -> StepStatus]
         /\ pc[w] \in WorkerPc
         /\ RowFine(run[w])
         /\ Acts(w) => Waiting(run[w]) /\ View(w)
  BY DEF SerialInv, TypeOK, WorkerFine

\* The step before a baton is taken or passed on inside the handler.
LEMMA Claims ==
  ASSUME SerialInv, TypeOK', NEW w \in Workers,
         MarkRunning(w) \/ ClaimSelect(w) \/ ClaimNothing(w) \/ ClaimCommit(w)
  PROVE  SerialInv'
  <1> USE Handled DEF Elsewhere, Goto, dbVars, apiVars, faultVars, Acts
  <1> DEFINE r == run[w]
  <1>alone. \A v \in Workers \ {w} : Acts(w) => ~(pc[v] = "locked" /\ run[v] = r)
    BY DEF SerialInv, Apart
  <1>1. CASE MarkRunning(w)
    <2>1. wf'[r] = snap[w] /\ \A q \in Requests \ {r} : wf'[q] = wf[q]
      BY <1>1 DEF MarkRunning, Save, SerialInv, TypeOK
    <2>2. pc'[w] = "claim" /\ \A v \in Workers \ {w} : pc'[v] = pc[v]
      BY <1>1 DEF MarkRunning, SerialInv, TypeOK
    <2>3. wf[r].status = "PENDING" /\ snap[w] = [status |-> "RUNNING", currentStep |-> 0]
          /\ Waiting(r)
      BY <1>1 DEF MarkRunning, View
    <2>4. snap[w].status = "RUNNING" /\ snap[w].currentStep = 0
      BY <2>3
    <2>5. RowFine(r)'
      BY <1>1, <2>1, <2>3, <2>4 DEF MarkRunning, RowFine, Reached, Clean, Waiting
    <2>6. WorkerFine(w)'
      <3>1. CopyIs(w, "RUNNING")'
        BY <1>1, <2>1, <2>4 DEF MarkRunning, CopyIs, Row
      <3>2. Clean(r)'
        BY <1>1, <2>3 DEF MarkRunning, RowFine, Clean
      <3>3. QED BY <1>1, <2>2, <2>3, <3>1, <3>2 DEF MarkRunning, WorkerFine, View, Waiting, Clean
    <2>7. QED BY <1>1, <2>1, <2>2, <2>5, <2>6, HandlerKeeps DEF MarkRunning
  <1>2. CASE ClaimSelect(w)
    <2>1. pc'[w] = "locked" /\ \A v \in Workers \ {w} : pc'[v] = pc[v]
      BY <1>2 DEF ClaimSelect, SerialInv, TypeOK
    <2>2. \A v \in Workers \ {w} : seq'[v] = seq[v]
      BY <1>2 DEF ClaimSelect, SerialInv, TypeOK
    <2>3. Claimable(w) = {j \in Steps : step[r][j] = "PENDING"}
      BY <1>2, <1>alone DEF ClaimSelect, Claimable
    <2>4. seq'[w] \in Claimable(w) /\ \A j \in Claimable(w) : seq'[w] <= j
      BY <1>2 DEF ClaimSelect, SerialInv, TypeOK
    <2>5. CopyIs(w, "RUNNING") /\ Clean(r) /\ Waiting(r)
      BY <1>2 DEF ClaimSelect, View
    <2>6. Reached(r, seq'[w])
      BY <2>3, <2>4, <2>5 DEF Reached, Clean, Steps
    <2>7. RowFine(r)'
      BY <1>2, RowKeeps DEF ClaimSelect
    <2>8. WorkerFine(w)'
      BY <1>2, <2>1, <2>3, <2>4, <2>5, <2>6
         DEF ClaimSelect, WorkerFine, View, Waiting, CopyIs, Clean, Reached
    <2>9. QED BY <1>2, <2>1, <2>2, <2>7, <2>8, HandlerKeeps DEF ClaimSelect
  <1>3. CASE ClaimNothing(w)
    <2>1. pc'[w] = "finish" /\ \A v \in Workers \ {w} : pc'[v] = pc[v]
      BY <1>3 DEF ClaimNothing, SerialInv, TypeOK
    <2>2. snap'[w] = [snap[w] EXCEPT !.status = "SUCCEEDED"]
          /\ \A v \in Workers \ {w} : snap'[v] = snap[v]
      BY <1>3 DEF ClaimNothing, SerialInv, TypeOK
    <2>3. Claimable(w) = {j \in Steps : step[r][j] = "PENDING"}
      BY <1>3, <1>alone DEF ClaimNothing, Claimable
    <2>4. CopyIs(w, "RUNNING") /\ Clean(r) /\ Waiting(r)
      BY <1>3 DEF ClaimNothing, View
    <2>5. \A j \in Steps : step[r][j] = "SUCCEEDED"
      BY <1>3, <2>3, <2>4 DEF ClaimNothing, Clean
    <2>6. CopyIs(w, "SUCCEEDED")'
      BY <1>3, <2>2, <2>4 DEF ClaimNothing, CopyIs, Row
    <2>7. RowFine(r)'
      BY <1>3, RowKeeps DEF ClaimNothing
    <2>8. WorkerFine(w)'
      BY <1>3, <2>1, <2>4, <2>5, <2>6 DEF ClaimNothing, WorkerFine, View, Waiting
    <2>9. QED BY <1>3, <2>1, <2>2, <2>7, <2>8, HandlerKeeps DEF ClaimNothing
  <1>4. CASE ClaimCommit(w)
    <2> DEFINE k == seq[w]
    <2>1. pc'[w] \in {"run", "finish"} /\ \A v \in Workers \ {w} : pc'[v] = pc[v]
      BY <1>4 DEF ClaimCommit, SerialInv, TypeOK
    <2>2. \A v \in Workers \ {w} : snap'[v] = snap[v]
      BY <1>4 DEF ClaimCommit, SerialInv, TypeOK
    <2>3. /\ step'[r] = [step[r] EXCEPT ![k] = "RUNNING"]
          /\ \A q \in Requests \ {r} : step'[q] = step[q]
      BY <1>4 DEF ClaimCommit, SerialInv, TypeOK
    <2>4. /\ CopyIs(w, "RUNNING") /\ Clean(r) /\ Waiting(r)
          /\ step[r][k] = "PENDING" /\ Reached(r, k)
      BY <1>4 DEF ClaimCommit, View
    <2>same. /\ wf' = wf /\ queue' = queue /\ run' = run /\ seq' = seq
             /\ pr' = pr /\ reqPc' = reqPc
      BY <1>4 DEF ClaimCommit
    <2>5. RowFine(r)'
      <3>1. \A j \in Steps : step'[r][j] # "PENDING" => Reached(r, j)'
        <4>1. ASSUME NEW j \in Steps, NEW i \in Steps, i < j, step'[r][j] # "PENDING"
              PROVE  step'[r][i] = "SUCCEEDED"
          <5>1. CASE j = k
            BY <4>1, <5>1, <2>3, <2>4 DEF Reached, Steps
          <5>2. CASE j # k
            <6>1. step[r][j] # "PENDING"
              BY <4>1, <5>2, <2>3
            <6>2. step[r][i] = "SUCCEEDED"
              BY <4>1, <6>1 DEF RowFine, Reached
            <6>3. QED BY <6>2, <2>3, <2>4
          <5>3. QED BY <5>1, <5>2
        <4>2. QED BY <4>1, <2>same DEF Reached
      <3>2. Reached(r, wf[r].currentStep)'
        BY <1>4, <2>3, <2>4 DEF ClaimCommit, RowFine, Reached
      <3>3. wf[r].status = "RUNNING" /\ queue[r] = 0 /\ reqPc[r] # "dispatch"
        BY <2>4 DEF CopyIs, Waiting
      <3>4. Gate \in Steps /\ step'[r][Gate] = "SUCCEEDED" => pr[r] = "merged"
        BY <2>3 DEF RowFine
      <3>5. QED BY <2>same, <3>1, <3>2, <3>3, <3>4 DEF RowFine
    <2>6. WorkerFine(w)'
      <3>1. CASE KnowsStep(w)
        <4>1. pc'[w] = "run" /\ snap' = snap
          BY <1>4, <3>1 DEF ClaimCommit, SerialInv, TypeOK
        <4>2. CopyIs(w, "RUNNING")' /\ Waiting(r)' /\ step'[r][k] = "RUNNING" /\ k < DefSteps[w]
          BY <4>1, <2>same, <2>3, <2>4, <3>1 DEF KnowsStep, Waiting, CopyIs
        <4>3. QED BY <4>1, <4>2, <2>same DEF WorkerFine, View
      <3>2. CASE ~KnowsStep(w)
        <4>1. pc'[w] = "finish" /\ snap'[w] = [snap[w] EXCEPT !.status = "FAILED"]
          BY <1>4, <3>2 DEF ClaimCommit, SerialInv, TypeOK
        <4>2. CopyIs(w, "FAILED")'
          BY <1>4, <4>1, <2>4 DEF ClaimCommit, CopyIs, Row
        <4>3. k >= DefSteps[w]
          BY <3>2, ConstantsAssumption DEF KnowsStep, Steps
        <4>4. Waiting(r)' /\ step'[r][k] = "RUNNING"
          BY <2>same, <2>3, <2>4 DEF Waiting
        <4>5. QED BY <4>1, <4>2, <4>3, <4>4, <2>same DEF WorkerFine, View
      <3>3. QED BY <3>1, <3>2
    <2>7. QED BY <1>4, <2>1, <2>2, <2>3, <2>5, <2>6, HandlerKeeps DEF ClaimCommit
  <1>5. QED BY <1>1, <1>2, <1>3, <1>4

\* A step function runs, and returns.
LEMMA StepRuns ==
  ASSUME SerialInv, TypeOK', NEW w \in Workers,
         CreatePullRequest(w) \/ RunSucceeds(w) \/ RunAwaits(w) \/ RunFails(w)
  PROVE  SerialInv'
  <1> USE Handled DEF Elsewhere, Goto, dbVars, apiVars, faultVars, Acts
  <1>at. pc[w] = "run"
    BY DEF CreatePullRequest, RunSucceeds, RunAwaits, RunFails
  <1>same. /\ wf' = wf /\ step' = step /\ queue' = queue /\ run' = run /\ seq' = seq /\ snap' = snap
           /\ reqPc' = reqPc /\ callPc' = callPc /\ callSnap' = callSnap
    BY DEF CreatePullRequest, RunSucceeds, RunAwaits, RunFails
  <1>pc. pc'[w] \in {"run", "complete", "revert", "fail"} /\ \A v \in Workers \ {w} : pc'[v] = pc[v]
    BY DEF CreatePullRequest, RunSucceeds, RunAwaits, RunFails, SerialInv, TypeOK
  <1>pr. \A q \in Requests \ {run[w]} : pr'[q] = pr[q]
    BY DEF CreatePullRequest, RunSucceeds, RunAwaits, RunFails, SerialInv, TypeOK
  <1>merged. pr[run[w]] = "merged" => pr'[run[w]] = "merged"
    BY DEF CreatePullRequest, RunSucceeds, RunAwaits, RunFails
  <1>1. RowFine(run[w])'
    BY <1>same, <1>merged DEF RowFine, Clean, Reached
  <1>2. WorkerFine(w)'
    <2>1. /\ Waiting(run[w]) /\ CopyIs(w, "RUNNING") /\ step[run[w]][seq[w]] = "RUNNING"
          /\ seq[w] < DefSteps[w]
      BY <1>at DEF View
    <2>2. /\ Waiting(run[w])' /\ CopyIs(w, "RUNNING")' /\ step'[run'[w]][seq'[w]] = "RUNNING"
          /\ seq'[w] < DefSteps[w]
      BY <2>1, <1>same DEF Waiting, CopyIs
    <2>3. pc'[w] = "complete" /\ seq'[w] = Gate => pr'[run'[w]] = "merged"
      BY <1>at, <1>same DEF CreatePullRequest, RunSucceeds, RunAwaits, RunFails, SerialInv, TypeOK
    <2>4. pc'[w] = "revert" => seq'[w] = Gate
      BY <1>at, <1>same DEF CreatePullRequest, RunSucceeds, RunAwaits, RunFails, SerialInv, TypeOK
    <2>5. QED BY <1>pc, <2>2, <2>3, <2>4 DEF WorkerFine, View
  <1>3. QED BY <1>at, <1>same, <1>pc, <1>pr, <1>1, <1>2, HandlerKeeps

\* The step a worker owns is written, and its row stays as it is.
LEMMA StepWritten ==
  ASSUME SerialInv, NEW w \in Workers, pc[w] \in {"revert", "complete", "fail"},
         NEW s \in StepStatus, SaveStep(w, s),
         s = "SUCCEEDED" /\ seq[w] = Gate => pr[run[w]] = "merged",
         wf' = wf, queue' = queue, reqPc' = reqPc, pr' = pr, run' = run, seq' = seq
  PROVE  /\ RowFine(run[w])' /\ Reached(run[w], seq[w])'
         /\ step'[run[w]][seq[w]] = s
         /\ s \in {"PENDING", "SUCCEEDED"} => Clean(run[w])'
         /\ \A q \in Requests \ {run[w]} : step'[q] = step[q]
  <1> USE Handled
  <1>1. PICK r \in Requests, k \in Steps : r = run[w] /\ k = seq[w]
    OBVIOUS
  <1>2. step' = [step EXCEPT ![r][k] = s]
    BY <1>1 DEF SaveStep
  <1>3. /\ step'[r] = [step[r] EXCEPT ![k] = s]
        /\ \A q \in Requests \ {r} : step'[q] = step[q]
    BY <1>2 DEF SerialInv, TypeOK
  <1>4. step'[r][k] = s /\ \A j \in Steps \ {k} : step'[r][j] = step[r][j]
    BY <1>1, <1>3
  <1>5. /\ step[r][k] = "RUNNING" /\ wf[r].status = "RUNNING"
        /\ queue[r] = 0 /\ reqPc[r] # "dispatch"
    BY <1>1 DEF Acts, View, CopyIs, Waiting
  <1>6. /\ \A j, i \in Steps : step[r][j] # "PENDING" /\ i < j => step[r][i] = "SUCCEEDED"
        /\ \A i \in Steps : i < wf[r].currentStep => step[r][i] = "SUCCEEDED"
        /\ Gate \in Steps /\ step[r][Gate] = "SUCCEEDED" => pr[r] = "merged"
    BY <1>1 DEF RowFine, Reached
  <1>7. \A i \in Steps : i < k => step'[r][i] = "SUCCEEDED"
    BY <1>4, <1>5, <1>6 DEF Steps
  <1>8. \A j \in Steps : k < j => step'[r][j] = "PENDING"
    BY <1>4, <1>5, <1>6 DEF Steps
  <1>9. \A j, i \in Steps : step'[r][j] # "PENDING" /\ i < j => step'[r][i] = "SUCCEEDED"
    <2>1. ASSUME NEW j \in Steps, NEW i \in Steps, step'[r][j] # "PENDING", i < j
          PROVE  step'[r][i] = "SUCCEEDED"
      <3>1. j <= k
        BY <2>1, <1>8, ConstantsAssumption DEF Steps
      <3>2. i < k
        BY <2>1, <3>1, ConstantsAssumption DEF Steps
      <3>3. QED BY <3>2, <1>7
    <2>2. QED BY <2>1
  <1>10. \A i \in Steps : i < wf[r].currentStep => step'[r][i] = "SUCCEEDED"
    BY <1>4, <1>5, <1>6
  <1>11. Gate \in Steps /\ step'[r][Gate] = "SUCCEEDED" => pr[r] = "merged"
    BY <1>1, <1>4, <1>6
  <1>12. RowFine(run[w])'
    <2>1. RowFine(r)'
      BY <1>5, <1>9, <1>10, <1>11 DEF RowFine, Reached
    <2>2. QED BY <2>1, <1>1
  <1>13. \A j \in Steps : s \in {"PENDING", "SUCCEEDED"} => step'[r][j] \in {"PENDING", "SUCCEEDED"}
    <2>1. ASSUME NEW j \in Steps, s \in {"PENDING", "SUCCEEDED"}
          PROVE  step'[r][j] \in {"PENDING", "SUCCEEDED"}
      <3>1. j < k \/ j = k \/ k < j
        BY ConstantsAssumption DEF Steps
      <3>2. QED BY <3>1, <2>1, <1>4, <1>7, <1>8
    <2>2. QED BY <2>1
  <1>14. Reached(r, k)' /\ (s \in {"PENDING", "SUCCEEDED"} => Clean(r)')
    BY <1>7, <1>13 DEF Reached, Clean
  <1>15. QED BY <1>1, <1>3, <1>4, <1>12, <1>14

\* The outcome of the step is written to its row.
LEMMA Records ==
  ASSUME SerialInv, TypeOK', MaxWorkerFaults = 0, NEW w \in Workers,
         RevertStep(w) \/ FailStep(w) \/ CompleteStep(w)
  PROVE  SerialInv'
  <1> USE Handled DEF Elsewhere, Goto, dbVars, apiVars, faultVars
  <1>at. pc[w] \in {"revert", "fail", "complete"}
    BY DEF RevertStep, FailStep, CompleteStep
  <1>same. /\ wf' = wf /\ queue' = queue /\ run' = run /\ seq' = seq /\ pr' = pr
           /\ reqPc' = reqPc /\ callPc' = callPc /\ callSnap' = callSnap
    BY DEF RevertStep, FailStep, CompleteStep
  <1>others. /\ \A v \in Workers \ {w} : pc'[v] = pc[v] /\ snap'[v] = snap[v]
    BY DEF RevertStep, FailStep, CompleteStep, SerialInv, TypeOK
  <1>view. /\ Acts(w) /\ Waiting(run[w]) /\ CopyIs(w, "RUNNING")
           /\ pc[w] = "revert" => seq[w] = Gate
           /\ pc[w] = "complete" /\ seq[w] = Gate => pr[run[w]] = "merged"
    BY <1>at DEF View, Acts
  <1>waiting. Waiting(run[w])'
    BY <1>view, <1>same DEF Waiting
  <1> HIDE DEF Elsewhere, dbVars, apiVars, faultVars
  <1>1. CASE RevertStep(w)
    <2>1. SaveStep(w, "PENDING") /\ pc[w] = "revert"
      BY <1>1 DEF RevertStep
    <2>2. /\ RowFine(run[w])' /\ Reached(run[w], seq[w])' /\ Clean(run[w])'
          /\ step'[run[w]][seq[w]] = "PENDING"
          /\ \A q \in Requests \ {run[w]} : step'[q] = step[q]
      BY <2>1, <1>same, StepWritten DEF StepStatus
    <2>3. pc'[w] = "pause" /\ snap'[w] = [snap[w] EXCEPT !.status = "AWAITING_APPROVAL"]
      BY <1>1 DEF RevertStep, SerialInv, TypeOK
    <2>4. CopyIs(w, "AWAITING_APPROVAL")'
      BY <2>3, <1>view, <1>same DEF CopyIs, Row
    <2>5. WorkerFine(w)'
      BY <2>1, <2>2, <2>3, <2>4, <1>view, <1>waiting, <1>same DEF WorkerFine, View
    <2>6. QED BY <1>view, <1>same, <1>others, <2>2, <2>5, HandlerKeeps DEF apiVars
  <1>2. CASE FailStep(w)
    <2>1. SaveStep(w, "FAILED") /\ pc[w] = "fail"
      BY <1>2 DEF FailStep, SerialInv, TypeOK
    <2>2. /\ RowFine(run[w])' /\ step'[run[w]][seq[w]] = "FAILED"
          /\ \A q \in Requests \ {run[w]} : step'[q] = step[q]
      BY <2>1, <1>same, StepWritten DEF StepStatus
    <2>3. pc'[w] = "finish" /\ snap'[w] = [snap[w] EXCEPT !.status = "NEEDS_ATTENTION"]
      BY <1>2 DEF FailStep, SerialInv, TypeOK
    <2>4. CopyIs(w, "NEEDS_ATTENTION")'
      BY <2>3, <1>view, <1>same DEF CopyIs, Row
    <2>5. WorkerFine(w)'
      BY <2>1, <2>2, <2>3, <2>4, <1>waiting, <1>same DEF WorkerFine, View
    <2>6. QED BY <1>view, <1>same, <1>others, <2>2, <2>5, HandlerKeeps DEF apiVars
  <1>3. CASE CompleteStep(w)
    <2>1. SaveStep(w, "SUCCEEDED") /\ pc[w] = "complete"
      BY <1>3 DEF CompleteStep
    <2>2. /\ RowFine(run[w])' /\ Clean(run[w])' /\ step'[run[w]][seq[w]] = "SUCCEEDED"
          /\ \A q \in Requests \ {run[w]} : step'[q] = step[q]
      BY <2>1, <1>view, <1>same, StepWritten DEF StepStatus
    <2>3. pc'[w] = "advance" /\ snap'[w] = [snap[w] EXCEPT !.currentStep = seq[w] + 1]
      BY <1>3 DEF CompleteStep, SerialInv, TypeOK
    <2>4. snap'[w] = [status |-> "RUNNING", currentStep |-> seq[w] + 1]
      BY <2>3, <1>view DEF CopyIs, Row
    <2>5. WorkerFine(w)'
      BY <2>2, <2>3, <2>4, <1>view, <1>waiting, <1>same DEF WorkerFine, View, CopyIs
    <2>6. QED BY <1>view, <1>same, <1>others, <2>2, <2>5, HandlerKeeps DEF apiVars
  <1>4. QED BY <1>1, <1>2, <1>3

\* The copy is saved over the row.
LEMMA Saves ==
  ASSUME SerialInv, TypeOK', NEW w \in Workers, Pause(w) \/ Finish(w) \/ Advance(w)
  PROVE  SerialInv'
  <1> USE Handled DEF Elsewhere, Goto, dbVars, apiVars, faultVars
  <1>at. pc[w] \in {"pause", "finish", "advance"}
    BY DEF Pause, Finish, Advance
  <1>same. /\ step' = step /\ queue' = queue /\ run' = run /\ seq' = seq /\ snap' = snap /\ pr' = pr
           /\ reqPc' = reqPc /\ callPc' = callPc /\ callSnap' = callSnap
    BY DEF Pause, Finish, Advance
  <1>others. /\ \A v \in Workers \ {w} : pc'[v] = pc[v]
             /\ \A q \in Requests \ {run[w]} : wf'[q] = wf[q]
    BY DEF Pause, Finish, Advance, Save, SerialInv, TypeOK
  <1>row. wf'[run[w]] = snap[w]
    BY DEF Pause, Finish, Advance, Save, SerialInv, TypeOK
  <1>pc. pc'[w] = (IF pc[w] = "advance" THEN "redispatch" ELSE "ack")
    BY DEF Pause, Finish, Advance, SerialInv, TypeOK
  <1> HIDE DEF Elsewhere, dbVars, apiVars, faultVars
  <1>acts. Acts(w) /\ Waiting(run[w])
    BY <1>at DEF Acts
  <1>fine. /\ \A k \in Steps : step[run[w]][k] # "PENDING" => Reached(run[w], k)
           /\ Reached(run[w], wf[run[w]].currentStep)
           /\ Gate \in Steps /\ step[run[w]][Gate] = "SUCCEEDED" => pr[run[w]] = "merged"
    BY DEF RowFine
  <1>advanced. pc[w] = "advance" =>
                  /\ snap[w].status = "RUNNING" /\ snap[w].currentStep = seq[w] + 1
                  /\ step[run[w]][seq[w]] = "SUCCEEDED"
    <2>1. ASSUME pc[w] = "advance"
          PROVE  /\ snap[w] = [status |-> "RUNNING", currentStep |-> seq[w] + 1]
                 /\ step[run[w]][seq[w]] = "SUCCEEDED"
      <3>1. View(w)
        BY <1>acts
      <3>2. QED BY <2>1, <3>1, Zenon DEF View
    <2>2. QED BY <2>1
  <1>1. /\ Reached(run[w], snap[w].currentStep)
        /\ snap[w].status \notin {"NONE", "PENDING"}
        /\ snap[w].status = "AWAITING_APPROVAL" => Clean(run[w])
        /\ snap[w].status = "SUCCEEDED" => \A k \in Steps : step[run[w]][k] = "SUCCEEDED"
    <2>1. CASE pc[w] = "pause"
      BY <2>1, <1>fine, <1>acts DEF View, CopyIs
    <2>2. CASE pc[w] = "finish"
      BY <2>2, <1>fine, <1>acts DEF View, CopyIs
    <2>3. CASE pc[w] = "advance"
      <3>1. /\ snap[w].status = "RUNNING" /\ snap[w].currentStep = seq[w] + 1
            /\ step[run[w]][seq[w]] = "SUCCEEDED"
        BY <2>3, <1>advanced
      <3>2. Reached(run[w], seq[w] + 1)
        <4>1. Reached(run[w], seq[w])
          BY <3>1, <1>fine
        <4>2. \A j \in Steps : j < seq[w] + 1 => j < seq[w] \/ j = seq[w]
          BY ConstantsAssumption DEF Steps
        <4>3. QED BY <3>1, <4>1, <4>2 DEF Reached
      <3>3. QED BY <3>1, <3>2
    <2>4. QED BY <1>at, <2>1, <2>2, <2>3
  <1>2. RowFine(run[w])'
    <2>1. Reached(run[w], wf'[run[w]].currentStep)
      BY <1>1, <1>row
    <2>2. \A k \in Steps : step'[run[w]][k] # "PENDING" => Reached(run[w], k)'
      BY <1>fine, <1>same DEF Reached
    <2>3. Reached(run[w], wf[run[w]].currentStep)'
      BY <2>1, <1>same DEF Reached
    <2>4. wf[run[w]]'.status = "AWAITING_APPROVAL" => Clean(run[w])'
      BY <1>1, <1>row, <1>same DEF Clean
    <2>5. queue'[run[w]] = 0 /\ reqPc'[run[w]] # "dispatch"
      BY <1>acts, <1>same DEF Waiting
    <2>6. QED BY <1>1, <1>fine, <1>row, <1>same, <2>2, <2>3, <2>4, <2>5 DEF RowFine
  <1>3. WorkerFine(w)'
    <2>1. CASE pc[w] = "advance"
      <3>1. pc'[w] = "redispatch" /\ Clean(run[w])' /\ Waiting(run[w])'
        BY <2>1, <1>pc, <1>acts, <1>same DEF View, Clean, Waiting
      <3>2. CopyIs(w, "RUNNING")'
        <4>1. snap[w].status = "RUNNING"
          BY <2>1, <1>advanced
        <4>2. QED BY <4>1, <1>row, <1>same DEF CopyIs
      <3>3. QED BY <3>1, <3>2 DEF WorkerFine, View
    <2>2. CASE pc[w] # "advance"
      BY <2>2, <1>pc DEF WorkerFine, Acts
    <2>3. QED BY <2>1, <2>2
  <1>4. QED BY <1>acts, <1>same, <1>others, <1>2, <1>3, HandlerKeeps DEF apiVars

\* The next message is published, and the handler has no baton any more.
LEMMA Redispatches ==
  ASSUME SerialInv, TypeOK', NEW w \in Workers, Redispatch(w)
  PROVE  SerialInv'
  <1> USE Handled DEF Elsewhere, Goto, dbVars, apiVars, faultVars
  <1>at. pc[w] = "redispatch" /\ Acts(w)
    BY DEF Redispatch, Acts
  <1>same. /\ step' = step /\ wf' = wf /\ run' = run /\ seq' = seq /\ snap' = snap /\ pr' = pr
           /\ reqPc' = reqPc /\ callPc' = callPc /\ callSnap' = callSnap
    BY DEF Redispatch
  <1>others. /\ \A v \in Workers \ {w} : pc'[v] = pc[v]
             /\ \A q \in Requests \ {run[w]} : queue'[q] = queue[q]
    BY DEF Redispatch, Publish, SerialInv, TypeOK
  <1>1. pc'[w] = "ack" /\ queue'[run[w]] = 1
    BY <1>at DEF Redispatch, Publish, Waiting, SerialInv, TypeOK
  <1>2. wf[run[w]].status = "RUNNING" /\ Clean(run[w]) /\ reqPc[run[w]] # "dispatch"
    BY <1>at DEF View, CopyIs, Waiting
  <1>3. RowFine(run[w])'
    BY <1>1, <1>2, <1>same DEF RowFine, Clean, Reached
  <1>4. WorkerFine(w)'
    BY <1>1 DEF WorkerFine, Acts
  <1>5. QED BY <1>at, <1>same, <1>others, <1>3, <1>4, HandlerKeeps

\* A message is delivered: its baton goes to the handler.
LEMMA Receives ==
  ASSUME SerialInv, TypeOK', NEW w \in Workers, NEW r \in Requests, Receive(w, r)
  PROVE  SerialInv'
  <1> USE DEF Elsewhere, Goto, dbVars, apiVars, faultVars
  <1>same. /\ step' = step /\ wf' = wf /\ seq' = seq /\ pr' = pr
           /\ reqPc' = reqPc /\ callPc' = callPc /\ callSnap' = callSnap
    BY DEF Receive
  <1>others. /\ \A v \in Workers \ {w} : pc'[v] = pc[v] /\ run'[v] = run[v] /\ snap'[v] = snap[v]
             /\ \A q \in Requests \ {r} : queue'[q] = queue[q]
    BY DEF Receive, SerialInv, TypeOK
  <1>row. RowFine(r) /\ wf[r] \in Row
    BY DEF SerialInv, TypeOK
  <1>1. queue[r] = 1 /\ queue'[r] = 0 /\ reqPc[r] # "dispatch" /\ run'[w] = r /\ Clean(r)
        /\ wf[r].status \in {"PENDING", "RUNNING"}
    <2>1. queue[r] > 0 /\ queue[r] \in {0, 1}
      BY <1>row DEF Receive, RowFine
    <2>2. queue[r] = 1
      BY <2>1
    <2>3. queue' = [queue EXCEPT ![r] = @ - 1] /\ run' = [run EXCEPT ![w] = r]
      BY DEF Receive
    <2>4. queue'[r] = 0 /\ run'[w] = r
      BY <2>2, <2>3 DEF SerialInv, TypeOK
    <2>5. QED BY <2>2, <2>4, <1>row DEF RowFine
  <1>2. \A v \in Workers : Acts(v) => run[v] # r
    BY <1>1 DEF SerialInv, WorkerFine, Waiting
  <1>3. \A c \in Callers : Calls(c) => Target[c] # r
    <2>1. \A c \in Callers : Calls(c) => Waiting(Target[c])
      BY DEF SerialInv, CallerFine
    <2>2. ~Waiting(r)
      BY <1>1 DEF Waiting
    <2>3. QED BY <2>1, <2>2
  <1>4. \A q \in Requests : RowFine(q)'
    <2>1. ASSUME NEW q \in Requests, q # r PROVE RowFine(q)'
      BY <2>1, <1>same, <1>others, RowKeeps DEF SerialInv
    <2>2. RowFine(r)'
      BY <1>row, <1>1, <1>same DEF RowFine, Clean, Reached
    <2>3. QED BY <2>1, <2>2
  <1>5. \A v \in Workers : WorkerFine(v)'
    <2>1. ASSUME NEW v \in Workers, v # w, Acts(v) PROVE WorkerFine(v)'
      <3>1. run[v] # r /\ run[v] \in Requests
        BY <2>1, <1>2 DEF SerialInv, TypeOK
      <3>2. QED BY <2>1, <3>1, <1>same, <1>others, WorkerKeeps DEF SerialInv, Waiting
    <2>2. ASSUME NEW v \in Workers, v # w, ~Acts(v) PROVE WorkerFine(v)'
      BY <2>2, <1>others DEF WorkerFine, Acts
    <2>3. WorkerFine(w)'
      <3>1. Waiting(r)' /\ Clean(r)'
        BY <1>1, <1>same DEF Waiting, Clean
      <3>2. CASE wf[r].status = "PENDING"
        <4>1. pc'[w] = "start" /\ snap'[w] = [wf[r] EXCEPT !.status = "RUNNING"]
          BY <3>2 DEF Receive, Terminal, SerialInv, TypeOK
        <4>2. snap'[w] = [status |-> "RUNNING", currentStep |-> 0]
          BY <4>1, <3>2, <1>row DEF RowFine, Row
        <4>3. QED BY <4>1, <4>2, <3>1, <3>2, <1>1, <1>same DEF WorkerFine, View
      <3>3. CASE wf[r].status = "RUNNING"
        <4>1. pc'[w] = "claim" /\ snap'[w] = wf[r]
          BY <3>3 DEF Receive, Terminal, SerialInv, TypeOK
        <4>2. CopyIs(w, "RUNNING")'
          BY <4>1, <3>3, <1>1, <1>same DEF CopyIs
        <4>3. QED BY <4>1, <4>2, <3>1, <1>1, <1>same DEF WorkerFine, View
      <3>4. QED BY <1>1, <3>2, <3>3
    <2>4. QED BY <2>1, <2>2, <2>3
  <1>6. \A c \in Callers : CallerFine(c)'
    <2>1. ASSUME NEW c \in Callers, Calls(c) PROVE CallerFine(c)'
      <3>1. Target[c] # r /\ Target[c] \in Requests
        BY <2>1, <1>3, ConstantsAssumption
      <3>2. QED BY <2>1, <3>1, <1>same, <1>others, CallerKeeps DEF SerialInv
    <2>2. ASSUME NEW c \in Callers, ~Calls(c) PROVE CallerFine(c)'
      BY <2>2, <1>same DEF CallerFine, Calls
    <2>3. QED BY <2>1, <2>2
  <1>7. Apart'
    <2>1. \A v \in Workers \ {w} : Acts(v)' => Acts(v) /\ run'[v] = run[v] /\ run[v] # r
      BY <1>others, <1>2 DEF Acts
    <2>2. \A c \in Callers : Calls(c)' => Calls(c) /\ Target[c] # r
      BY <1>same, <1>3 DEF Calls
    <2>3. SerialResumes'
      BY <1>same DEF SerialInv, Apart, SerialResumes
    <2>4. QED BY <2>1, <2>2, <2>3, <1>1 DEF SerialInv, Apart
  <1>8. QED BY <1>4, <1>5, <1>6, <1>7 DEF SerialInv

LEMMA WorkerSerial ==
  ASSUME SerialInv, TypeOK', MaxWorkerFaults = 0, NEW w \in Workers, WorkerStep(w)
  PROVE  SerialInv'
  <1>1. CASE RedispatchFails(w) \/ Ack(w)
    <2>1. EndHandler(w) /\ UNCHANGED <<wf, step, queue, pr, apiVars>>
      BY <1>1 DEF RedispatchFails, Ack, Elsewhere, dbVars
    <2>2. QED BY <2>1, EndKeeps
  <1>2. QED BY <1>1, Claims, StepRuns, Records, Saves, Redispatches, Receives
            DEF WorkerStep, HandlerStep

-----------------------------------------------------------------------------
(* The steps of Engine.Enqueue, of Engine.Resume and of reviewers. *)

\* An API step for run r disturbs nothing else.
LEMMA ApiKeeps ==
  ASSUME SerialInv, TypeOK', SerialResumes', NEW r \in Requests, UNCHANGED localVars,
         \A q \in Requests \ {r} :
            /\ wf'[q] = wf[q] /\ step'[q] = step[q] /\ queue'[q] = queue[q]
            /\ reqPc'[q] = reqPc[q] /\ pr'[q] = pr[q],
         RowFine(r)',
         \A w \in Workers : Acts(w) /\ run[w] = r => WorkerFine(w)',
         \A c \in Callers : Target[c] # r => callPc'[c] = callPc[c] /\ callSnap'[c] = callSnap[c],
         \A c \in Callers : Target[c] = r => CallerFine(c)',
         \A c \in Callers, w \in Workers :
            Target[c] = r /\ Calls(c)' /\ Acts(w) => Calls(c) \/ run[w] # r
  PROVE  SerialInv'
  <1>local. pc' = pc /\ run' = run /\ seq' = seq /\ snap' = snap
    BY DEF localVars
  <1>1. \A q \in Requests : RowFine(q)'
    <2>1. ASSUME NEW q \in Requests, q # r PROVE RowFine(q)'
      BY <2>1, RowKeeps DEF SerialInv
    <2>2. QED BY <2>1
  <1>2. \A v \in Workers : WorkerFine(v)'
    <2>1. ASSUME NEW v \in Workers, run[v] # r PROVE WorkerFine(v)'
      <3>1. run[v] \in Requests
        BY DEF SerialInv, TypeOK
      <3>2. QED BY <2>1, <3>1, <1>local, WorkerKeeps DEF SerialInv, Waiting
    <2>2. ASSUME NEW v \in Workers, ~Acts(v) PROVE WorkerFine(v)'
      BY <2>2, <1>local DEF WorkerFine, Acts
    <2>3. QED BY <2>1, <2>2
  <1>3. \A c \in Callers : CallerFine(c)'
    <2>1. ASSUME NEW c \in Callers, Target[c] # r PROVE CallerFine(c)'
      BY <2>1, CallerKeeps, ConstantsAssumption DEF SerialInv
    <2>2. QED BY <2>1
  <1>4. Apart'
    <2>1. \A v \in Workers : run'[v] = run[v] /\ (Acts(v)' => Acts(v))
      BY <1>local DEF Acts
    <2>2. \A c \in Callers : Target[c] # r => (Calls(c)' <=> Calls(c))
      BY DEF Calls
    <2>3. \A v \in Workers, c \in Callers : Acts(v)' /\ Calls(c)' => run'[v] # Target[c]
      BY <2>1, <2>2 DEF SerialInv, Apart
    <2>4. QED BY <2>1, <2>3 DEF SerialInv, Apart
  <1>5. QED BY <1>1, <1>2, <1>3, <1>4 DEF SerialInv

\* Where a run is that a handler or a call has the baton of.
LEMMA Batons ==
  ASSUME SerialInv
  PROVE  /\ \A w \in Workers : Acts(w) => wf[run[w]].status \in {"PENDING", "RUNNING"}
         /\ \A c \in Callers : Calls(c) => wf[Target[c]].status \in {"AWAITING_APPROVAL", "RUNNING"}
         /\ \A w \in Workers : Acts(w) => Waiting(run[w])
         /\ \A c \in Callers : Calls(c) => Waiting(Target[c])
  <1>1. ASSUME NEW w \in Workers, Acts(w) PROVE wf[run[w]].status \in {"PENDING", "RUNNING"}
    <2>1. View(w) /\ pc[w] \in WorkerPc
      BY <1>1 DEF SerialInv, WorkerFine, TypeOK
    <2>2. QED BY <1>1, <2>1 DEF View, CopyIs, Acts, WorkerPc
  <1>2. ASSUME NEW c \in Callers, Calls(c)
        PROVE  wf[Target[c]].status \in {"AWAITING_APPROVAL", "RUNNING"}
    BY <1>2 DEF SerialInv, CallerFine, Calls
  <1>3. QED BY <1>1, <1>2 DEF SerialInv, WorkerFine, CallerFine

LEMMA RequestSerial ==
  ASSUME SerialInv, TypeOK', SerialResumes', NEW r \in Requests,
         RequestStep(r) \/ RequestFails(r) \/ Merge(r)
  PROVE  SerialInv'
  <1> USE DEF dbVars, apiVars, faultVars
  <1>fine. RowFine(r) /\ \A w \in Workers : WorkerFine(w)
    BY DEF SerialInv
  <1>callers. \A c \in Callers : CallerFine(c)
    BY DEF SerialInv
  <1>target. Target \in [Callers -> Requests]
    BY ConstantsAssumption
  <1>same. /\ step' = step /\ UNCHANGED localVars /\ callPc' = callPc /\ callSnap' = callSnap
           /\ pc' = pc /\ run' = run /\ seq' = seq /\ snap' = snap
    BY DEF RequestStep, CheckKey, CreateRun, DispatchRun, RequestFails, Merge, localVars
  <1>others. \A q \in Requests \ {r} : /\ wf'[q] = wf[q] /\ queue'[q] = queue[q]
                                       /\ reqPc'[q] = reqPc[q] /\ pr'[q] = pr[q]
    BY DEF RequestStep, CheckKey, CreateRun, DispatchRun, RequestFails, Merge, Publish,
           SerialInv, TypeOK
  <1>1. CASE /\ wf' = wf /\ queue' = queue /\ pr'[r] \in {pr[r], "merged"}
             /\ reqPc'[r] = "dispatch" => reqPc[r] = "dispatch"
    <2>1. RowFine(r)'
      BY <1>1, <1>fine, <1>same DEF RowFine, Clean, Reached
    <2>2. \A w \in Workers : Acts(w) /\ run[w] = r => WorkerFine(w)'
      BY <1>1, <1>fine, <1>same, WorkerKeeps DEF Waiting
    <2>3. \A c \in Callers : Target[c] = r => CallerFine(c)'
      BY <1>1, <1>callers, <1>same, CallerKeeps
    <2>4. \A c \in Callers : Calls(c)' => Calls(c)
      BY <1>same DEF Calls
    <2>5. QED BY <1>same, <1>others, <2>1, <2>2, <2>3, <2>4, ApiKeeps DEF SerialInv, Apart
  <1>2. CASE CreateRun(r) /\ ~KeyTaken(r)
    <2>1. wf[r].status = "NONE"
      BY <1>2 DEF KeyTaken, Exists
    <2>2. /\ wf'[r] = [wf[r] EXCEPT !.status = "PENDING"] /\ reqPc'[r] = "dispatch"
          /\ queue' = queue /\ pr' = pr
      BY <1>2 DEF CreateRun, SerialInv, TypeOK
    <2>3. wf'[r].status = "PENDING" /\ wf'[r].currentStep = wf[r].currentStep
      BY <2>2 DEF SerialInv, TypeOK, Row
    <2>4. RowFine(r)'
      BY <2>1, <2>2, <2>3, <1>fine, <1>same DEF RowFine, Clean, Reached
    <2>5. \A w \in Workers : Acts(w) => run[w] # r
      BY <2>1, Batons
    <2>6. \A c \in Callers : Target[c] = r => ~Calls(c)
      BY <2>1, Batons
    <2>7. \A c \in Callers : Target[c] = r => CallerFine(c)'
      BY <2>6, <1>same DEF CallerFine, Calls
    <2>8. QED BY <1>same, <1>others, <2>4, <2>5, <2>7, ApiKeeps
  <1>3. CASE DispatchRun(r)
    <2>1. /\ reqPc[r] = "dispatch" /\ queue'[r] = queue[r] + 1 /\ reqPc'[r] = "done"
          /\ wf' = wf /\ pr' = pr
      BY <1>3 DEF DispatchRun, Publish, SerialInv, TypeOK
    <2>2. ~Waiting(r)
      BY <2>1 DEF Waiting
    <2>3. RowFine(r)'
      BY <2>1, <1>fine, <1>same DEF RowFine, Clean, Reached
    <2>4. \A w \in Workers : Acts(w) => run[w] # r
      BY <2>2, Batons
    <2>5. \A c \in Callers : Target[c] = r => ~Calls(c)
      BY <2>2, Batons
    <2>6. \A c \in Callers : Target[c] = r => CallerFine(c)'
      BY <2>5, <1>same DEF CallerFine, Calls
    <2>7. QED BY <1>same, <1>others, <2>3, <2>4, <2>6, ApiKeeps
  <1>4. \/ /\ wf' = wf /\ queue' = queue /\ pr'[r] \in {pr[r], "merged"}
           /\ reqPc'[r] = "dispatch" => reqPc[r] = "dispatch"
        \/ CreateRun(r) /\ ~KeyTaken(r)
        \/ DispatchRun(r)
    <2>1. CASE CheckKey(r) \/ RequestFails(r) \/ (CreateRun(r) /\ KeyTaken(r))
      BY <2>1 DEF CheckKey, RequestFails, CreateRun, SerialInv, TypeOK
    <2>2. CASE Merge(r)
      <3>1. pr'[r] = "merged" /\ wf' = wf /\ queue' = queue /\ reqPc' = reqPc /\ pr[r] = "open"
        BY <2>2 DEF Merge, SerialInv, TypeOK
      <3>2. QED BY <3>1
    <2>3. QED BY <2>1, <2>2 DEF RequestStep
  <1>5. QED BY <1>1, <1>2, <1>3, <1>4

LEMMA CallerSerial ==
  ASSUME SerialInv, TypeOK', SerialResumes', NEW c \in Callers, CallStep(c) \/ ResumeFails(c)
  PROVE  SerialInv'
  <1> USE DEF dbVars, apiVars, faultVars
  <1>r. PICK r \in Requests : r = Target[c]
    BY ConstantsAssumption
  <1>fine. /\ RowFine(r) /\ CallerFine(c) /\ \A w \in Workers : WorkerFine(w)
           /\ \A d \in Callers : CallerFine(d)
           /\ wf[r] \in Row
    BY DEF SerialInv, TypeOK
  <1>same. /\ step' = step /\ UNCHANGED localVars /\ pr' = pr /\ reqPc' = reqPc
           /\ pc' = pc /\ run' = run /\ seq' = seq /\ snap' = snap
    BY DEF CallStep, ResumeLoad, ResumeUpdate, ResumeDispatch, ResumeFails, localVars
  <1>others. /\ \A q \in Requests \ {r} : wf'[q] = wf[q] /\ queue'[q] = queue[q]
             /\ \A d \in Callers \ {c} : callPc'[d] = callPc[d] /\ callSnap'[d] = callSnap[d]
    BY <1>r DEF CallStep, ResumeLoad, ResumeUpdate, ResumeDispatch, ResumeFails, Publish,
           SerialInv, TypeOK
  <1>alone. Calls(c) => /\ \A d \in Callers \ {c} : Target[d] = r => ~Calls(d)
                        /\ \A w \in Workers : Acts(w) => run[w] # r
                        /\ Waiting(r) /\ Clean(r)
    BY <1>r, <1>fine DEF SerialInv, Apart, SerialResumes, Calls, CallerFine
  <1>1. CASE ResumeLoad(c) /\ wf[r].status = "AWAITING_APPROVAL" /\ callPc'[c] = "update"
    <2>1. /\ wf' = wf /\ queue' = queue
          /\ callSnap'[c] = [wf[r] EXCEPT !.status = "RUNNING"]
      BY <1>1, <1>r DEF ResumeLoad, SerialInv, TypeOK
    <2>2. callSnap'[c] = [status |-> "RUNNING", currentStep |-> wf[r].currentStep]
      BY <2>1, <1>fine DEF Row
    <2>3. \A w \in Workers : Acts(w) => run[w] # r
      BY <1>1, Batons
    <2>4. Waiting(r) /\ Clean(r)
      BY <1>1, <1>fine DEF RowFine, Waiting
    <2>5. CallerFine(c)'
      BY <1>1, <1>r, <1>same, <2>1, <2>2, <2>4 DEF CallerFine, Waiting, Clean
    <2>6. \A d \in Callers : Target[d] = r => CallerFine(d)'
      BY <1>fine, <1>same, <1>others, <2>1, <2>5, CallerKeeps
    <2>7. RowFine(r)'
      BY <2>1, <1>fine, <1>same, RowKeeps
    <2>8. QED BY <1>r, <1>same, <1>others, <2>3, <2>6, <2>7, ApiKeeps
  <1>2. CASE callPc'[c] = "done" /\ wf' = wf /\ queue' = queue
    <2>1. CallerFine(c)' /\ ~Calls(c)'
      BY <1>2 DEF CallerFine, Calls
    <2>2. \A d \in Callers : Target[d] = r => CallerFine(d)'
      BY <1>fine, <1>same, <1>others, <1>2, <2>1, CallerKeeps
    <2>3. RowFine(r)' /\ \A w \in Workers : Acts(w) /\ run[w] = r => WorkerFine(w)'
      BY <1>2, <1>fine, <1>same, RowKeeps, WorkerKeeps DEF Waiting
    <2>4. \A d \in Callers : Calls(d)' => Calls(d)
      BY <1>others, <2>1 DEF Calls
    <2>5. QED BY <1>r, <1>same, <1>others, <2>2, <2>3, <2>4, ApiKeeps DEF SerialInv, Apart
  <1>3. CASE ResumeUpdate(c)
    <2>1. /\ wf'[r] = callSnap[c] /\ callPc'[c] = "dispatch" /\ callPc[c] = "update"
          /\ queue' = queue /\ Calls(c)
      BY <1>3, <1>r DEF ResumeUpdate, Calls, SerialInv, TypeOK
    <2>2. callSnap[c] = [status |-> "RUNNING", currentStep |-> wf[r].currentStep]
      BY <2>1, <1>fine, <1>r DEF CallerFine
    <2>3. wf'[r].status = "RUNNING" /\ wf'[r].currentStep = wf[r].currentStep
      BY <2>1, <2>2
    <2>4. RowFine(r)'
      BY <2>1, <2>3, <1>alone, <1>fine, <1>same DEF RowFine, Waiting, Clean, Reached
    <2>5. CallerFine(c)'
      BY <2>1, <2>3, <1>r, <1>alone, <1>same DEF CallerFine, Waiting, Clean
    <2>6. \A d \in Callers \ {c} : Target[d] = r => CallerFine(d)'
      BY <2>1, <1>alone, <1>others DEF CallerFine, Calls
    <2>7. QED BY <1>r, <1>same, <1>others, <1>alone, <2>1, <2>4, <2>5, <2>6, ApiKeeps
  <1>4. CASE ResumeDispatch(c)
    <2>1. /\ queue'[r] = queue[r] + 1 /\ callPc'[c] = "done" /\ callPc[c] = "dispatch"
          /\ wf' = wf /\ Calls(c)
      BY <1>4, <1>r DEF ResumeDispatch, Publish, Calls, SerialInv, TypeOK
    <2>2. wf[r].status = "RUNNING" /\ queue'[r] = 1 /\ Clean(r) /\ reqPc[r] # "dispatch"
      BY <2>1, <1>fine, <1>alone, <1>r DEF CallerFine, Waiting
    <2>3. RowFine(r)'
      BY <2>1, <2>2, <1>fine, <1>same DEF RowFine, Clean, Reached
    <2>4. \A d \in Callers : Target[d] = r => CallerFine(d)'
      BY <2>1, <1>alone, <1>others DEF CallerFine, Calls
    <2>5. QED BY <1>r, <1>same, <1>others, <1>alone, <2>1, <2>3, <2>4, ApiKeeps
  <1>5. CASE ResumeLoad(c) \/ ResumeFails(c)
    <2>1. callPc'[c] \in {"done", "update"} /\ wf' = wf /\ queue' = queue
      BY <1>5 DEF ResumeLoad, ResumeFails, SerialInv, TypeOK
    <2>2. callPc'[c] = "update" => ResumeLoad(c) /\ wf[r].status = "AWAITING_APPROVAL"
      BY <1>5, <1>r DEF ResumeLoad, ResumeFails, SerialInv, TypeOK
    <2>3. QED BY <2>1, <2>2, <1>1, <1>2
  <1>6. QED BY <1>3, <1>4, <1>5 DEF CallStep

-----------------------------------------------------------------------------

LEMMA SeriallyAtFirst == Init => SerialInv
  <1>1. Init => TypeOK
    BY TypeInit
  <1>2. ASSUME Init PROVE SerialInv
    <2>1. \A r \in Requests : RowFine(r)
      BY <1>2 DEF Init, RowFine, Reached, NoRow, Steps
    <2>2. \A w \in Workers : WorkerFine(w)
      BY <1>2 DEF Init, WorkerFine, Acts
    <2>3. \A c \in Callers : CallerFine(c)
      BY <1>2 DEF Init, CallerFine, Calls
    <2>4. Apart
      BY <1>2 DEF Init, Apart, Acts, Calls, SerialResumes
    <2>5. QED BY <1>1, <1>2, <2>1, <2>2, <2>3, <2>4 DEF SerialInv
  <1>3. QED BY <1>2

LEMMA SeriallyInductive ==
  ASSUME MaxWorkerFaults = 0, SerialInv, [Next /\ SerialResumes']_vars
  PROVE  SerialInv'
  <1>1. TypeOK'
    BY TypeNext DEF SerialInv
  <1>2. CASE UNCHANGED vars
    <2>1. /\ wf' = wf /\ step' = step /\ queue' = queue /\ pr' = pr /\ reqPc' = reqPc
          /\ callPc' = callPc /\ callSnap' = callSnap
          /\ pc' = pc /\ run' = run /\ seq' = seq /\ snap' = snap
      BY <1>2 DEF vars
    <2>2. \A r \in Requests : RowFine(r)'
      BY <2>1, RowKeeps DEF SerialInv
    <2>3. \A w \in Workers : WorkerFine(w)'
      BY <2>1, WorkerKeeps DEF SerialInv, Waiting
    <2>4. \A c \in Callers : CallerFine(c)'
      BY <2>1, CallerKeeps DEF SerialInv
    <2>5. Apart'
      BY <2>1 DEF SerialInv, Apart, Acts, Calls, SerialResumes
    <2>6. QED BY <1>1, <2>2, <2>3, <2>4, <2>5 DEF SerialInv
  <1>3. CASE Next /\ SerialResumes'
    <2>1. ~(workerFaults < MaxWorkerFaults)
      BY DEF SerialInv, TypeOK
    <2>2. \A w \in Workers : ~(HandlerError(w) \/ Crash(w) \/ LoseConnection(w))
      BY <2>1 DEF HandlerError, Crash, LoseConnection
    <2>3. \/ \E r \in Requests : RequestStep(r) \/ RequestFails(r) \/ Merge(r)
          \/ \E c \in Callers : CallStep(c) \/ ResumeFails(c)
          \/ \E w \in Workers : WorkerStep(w)
      BY <1>3, <2>2 DEF Next, Fault
    <2>4. QED BY <1>1, <1>3, <2>3, RequestSerial, CallerSerial, WorkerSerial
  <1>4. QED BY <1>2, <1>3

LEMMA SerialInvariance == MaxWorkerFaults = 0 => (SerialSpec => []SerialInv)
  <1> SUFFICES ASSUME MaxWorkerFaults = 0 PROVE SerialSpec => []SerialInv
    OBVIOUS
  <1>1. SerialInv /\ [Next /\ SerialResumes']_vars => SerialInv'
    BY SeriallyInductive
  <1>2. QED BY <1>1, SeriallyAtFirst, PTL DEF SerialSpec

-----------------------------------------------------------------------------
(* Every step of the engine is a step of the sequential run, or none. *)

\* A step that changes neither a status, nor a completed step, nor a merge.
LEMMA Unseen ==
  ASSUME \A r \in Requests :
            /\ wf'[r].status = wf[r].status
            /\ \A k \in Steps : step'[r][k] = "SUCCEEDED" <=> step[r][k] = "SUCCEEDED"
            /\ pr'[r] = "merged" <=> pr[r] = "merged"
  PROVE  UNCHANGED Sequential!vars
  <1>1. [r \in Requests |-> wf[r].status]' = [r \in Requests |-> wf[r].status]
    OBVIOUS
  <1>2. [r \in Requests |-> {k \in Steps : step[r][k] = "SUCCEEDED"}]'
          = [r \in Requests |-> {k \in Steps : step[r][k] = "SUCCEEDED"}]
    <2>1. \A r \in Requests : {k \in Steps : step'[r][k] = "SUCCEEDED"}
                              = {k \in Steps : step[r][k] = "SUCCEEDED"}
      OBVIOUS
    <2>2. QED BY <2>1
  <1>3. [r \in Requests |-> pr[r] = "merged"]' = [r \in Requests |-> pr[r] = "merged"]
    BY Zenon
  <1>4. QED BY <1>1, <1>2, <1>3 DEF Sequential!vars

\* A step that moves the status of one run.
LEMMA Moves ==
  ASSUME NEW r \in Requests, NEW from, NEW to,
         wf[r].status \in from, wf'[r].status = to,
         \A q \in Requests \ {r} : wf'[q] = wf[q],
         step' = step, pr' = pr
  PROVE  Sequential!Move(r, from, to)
  <1>1. [q \in Requests |-> wf[q].status]'
          = [[q \in Requests |-> wf[q].status] EXCEPT ![r] = to]
    OBVIOUS
  <1>2. QED BY <1>1 DEF Sequential!Move

\* The step whose turn it is, in both specifications.
LEMMA Turns ==
  ASSUME NEW r \in Requests, NEW k \in Steps, Reached(r, k), step[r][k] # "SUCCEEDED"
  PROVE  /\ Sequential!IsNextStep(r, k)
         /\ [q \in Requests |-> {j \in Steps : step[q][j] = "SUCCEEDED"}][r] # Sequential!Steps
  BY DEF Sequential!IsNextStep, Sequential!Steps, Steps, Reached

LEMMA SavesRefine ==
  ASSUME SerialInv, NEW w \in Workers, Pause(w) \/ Finish(w) \/ Advance(w)
  PROVE  \/ Sequential!Next
         \/ UNCHANGED Sequential!vars
  <1> USE Handled DEF Elsewhere
  <1>r. PICK r \in Requests, k \in Steps : r = run[w] /\ k = seq[w]
    OBVIOUS
  <1>1. /\ wf'[r] = snap[w] /\ \A q \in Requests \ {r} : wf'[q] = wf[q]
        /\ step' = step /\ pr' = pr
    BY <1>r DEF Pause, Finish, Advance, Save, SerialInv, TypeOK
  <1>2. View(w) /\ RowFine(r)
    BY <1>r DEF Pause, Finish, Advance, Acts
  <1>3. CASE Pause(w)
    <2>1. /\ CopyIs(w, "AWAITING_APPROVAL") /\ k = Gate /\ step[r][k] = "PENDING" /\ Reached(r, k)
      BY <1>r, <1>2, <1>3 DEF View, Pause
    <2>2. Sequential!Move(r, {"RUNNING"}, "AWAITING_APPROVAL")
      BY <1>r, <1>1, <2>1, Moves DEF CopyIs
    <2>3. Sequential!IsNextStep(r, Gate) /\ Gate \in Sequential!Steps
      BY <2>1, Turns DEF Sequential!Steps, Steps
    <2>4. QED BY <2>2, <2>3 DEF Sequential!Next, Sequential!Pause
  <1>4. CASE Finish(w)
    <2>1. \/ CopyIs(w, "SUCCEEDED") /\ \A j \in Steps : step[r][j] = "SUCCEEDED"
          \/ CopyIs(w, "FAILED") /\ step[r][k] = "RUNNING" /\ k >= DefSteps[w]
          \/ CopyIs(w, "NEEDS_ATTENTION") /\ step[r][k] = "FAILED"
      BY <1>r, <1>2, <1>4 DEF View, Finish
    <2>2. CASE CopyIs(w, "SUCCEEDED") /\ \A j \in Steps : step[r][j] = "SUCCEEDED"
      <3>1. Sequential!Move(r, {"RUNNING"}, "SUCCEEDED")
        BY <1>r, <1>1, <2>2, Moves DEF CopyIs
      <3>2. [q \in Requests |-> {j \in Steps : step[q][j] = "SUCCEEDED"}][r] = Sequential!Steps
        BY <2>2 DEF Sequential!Steps, Steps
      <3>3. QED BY <3>1, <3>2 DEF Sequential!Next, Sequential!Succeed
    <2>3. CASE CopyIs(w, "FAILED") /\ step[r][k] = "RUNNING" /\ k >= DefSteps[w]
      <3>1. Sequential!Move(r, {"RUNNING"}, "FAILED")
        BY <1>r, <1>1, <2>3, Moves DEF CopyIs
      <3>2. Sequential!IsNextStep(r, k)
        BY <1>2, <2>3, Turns DEF RowFine
      <3>3. QED BY <3>1, <3>2, <2>3 DEF Sequential!Next, Sequential!Reject, Sequential!Steps, Steps
    <2>4. CASE CopyIs(w, "NEEDS_ATTENTION") /\ step[r][k] = "FAILED"
      <3>1. Sequential!Move(r, {"RUNNING"}, "NEEDS_ATTENTION")
        BY <1>r, <1>1, <2>4, Moves DEF CopyIs
      <3>2. [q \in Requests |-> {j \in Steps : step[q][j] = "SUCCEEDED"}][r] # Sequential!Steps
        BY <1>2, <2>4, Turns DEF RowFine
      <3>3. QED BY <3>1, <3>2 DEF Sequential!Next, Sequential!Fail
    <2>5. QED BY <2>1, <2>2, <2>3, <2>4
  <1>5. CASE Advance(w)
    <2>1. wf[r].status = "RUNNING" /\ snap[w] = [status |-> "RUNNING", currentStep |-> k + 1]
      BY <1>r, <1>2, <1>5 DEF View, Advance
    <2>2. \A q \in Requests : wf'[q].status = wf[q].status
      <3>1. wf'[r].status = "RUNNING"
        BY <1>1, <2>1
      <3>2. QED BY <1>1, <2>1, <3>1
    <2>3. QED BY <1>1, <2>2, Unseen
  <1>6. QED BY <1>3, <1>4, <1>5

LEMMA HandlersRefine ==
  ASSUME SerialInv, MaxWorkerFaults = 0, NEW w \in Workers, WorkerStep(w)
  PROVE  \/ Sequential!Next
         \/ UNCHANGED Sequential!vars
  <1> USE Handled DEF Elsewhere, dbVars
  <1>r. PICK r \in Requests, k \in Steps : r = run[w] /\ k = seq[w]
    OBVIOUS
  <1>1. CASE MarkRunning(w)
    <2>1. /\ wf[r].status = "PENDING" /\ snap[w].status = "RUNNING"
      <3>1. pc[w] = "start" /\ View(w)
        BY <1>1 DEF MarkRunning, Acts
      <3>2. wf[r].status = "PENDING" /\ snap[w] = [status |-> "RUNNING", currentStep |-> 0]
        BY <1>r, <3>1, Zenon DEF View
      <3>3. QED BY <3>2
    <2>2. /\ wf'[r].status = "RUNNING" /\ \A q \in Requests \ {r} : wf'[q] = wf[q]
          /\ step' = step /\ pr' = pr
      BY <1>r, <1>1, <2>1 DEF MarkRunning, Save, SerialInv, TypeOK
    <2>3. Sequential!Move(r, {"PENDING"}, "RUNNING")
      BY <2>1, <2>2, Moves
    <2>4. QED BY <2>3 DEF Sequential!Next, Sequential!Start
  <1>2. CASE CompleteStep(w)
    <2>1. /\ wf[r].status = "RUNNING" /\ step[r][k] = "RUNNING" /\ k < DefSteps[w]
          /\ k = Gate => pr[r] = "merged"
      BY <1>r, <1>2 DEF CompleteStep, Acts, View, CopyIs
    <2>2. wf' = wf /\ pr' = pr /\ step' = [step EXCEPT ![r][k] = "SUCCEEDED"]
      BY <1>r, <1>2 DEF CompleteStep, SaveStep
    <2>3. Sequential!IsNextStep(r, k)
      BY <1>r, <2>1, Turns DEF RowFine
    <2>4. [q \in Requests |-> {j \in Steps : step[q][j] = "SUCCEEDED"}]'
            = [[q \in Requests |-> {j \in Steps : step[q][j] = "SUCCEEDED"}]
                 EXCEPT ![r] = @ \cup {k}]
      <3>1. /\ \A q \in Requests \ {r} : step'[q] = step[q]
            /\ step'[r][k] = "SUCCEEDED"
            /\ \A j \in Steps \ {k} : step'[r][j] = step[r][j]
        BY <2>2 DEF SerialInv, TypeOK
      <3>2. {j \in Steps : step'[r][j] = "SUCCEEDED"}
              = {j \in Steps : step[r][j] = "SUCCEEDED"} \cup {k}
        BY <3>1
      <3>3. QED BY <3>1, <3>2
    <2>5. Sequential!CompleteStep(r, k)
      BY <2>1, <2>2, <2>3, <2>4 DEF Sequential!CompleteStep
    <2>6. QED BY <2>5 DEF Sequential!Next, Sequential!Steps, Steps
  <1>3. CASE ClaimCommit(w) \/ RevertStep(w) \/ FailStep(w)
    <2>1. wf' = wf /\ pr' = pr /\ step[r][k] \in {"PENDING", "RUNNING"}
      BY <1>r, <1>3 DEF ClaimCommit, RevertStep, FailStep, Acts, View
    <2>2. PICK s \in {"RUNNING", "PENDING", "FAILED"} :
            step' = [step EXCEPT ![r][k] = s] \/ step' = step
      BY <1>r, <1>3 DEF ClaimCommit, RevertStep, FailStep, SaveStep
    <2>3. \A q \in Requests, j \in Steps :
            step'[q][j] = "SUCCEEDED" <=> step[q][j] = "SUCCEEDED"
      <3>1. CASE step' = step
        BY <3>1
      <3>2. CASE step' = [step EXCEPT ![r][k] = s]
        <4>1. step'[r][k] = s /\ \A j \in Steps \ {k} : step'[r][j] = step[r][j]
          BY <3>2 DEF SerialInv, TypeOK
        <4>2. \A q \in Requests \ {r} : step'[q] = step[q]
          BY <3>2 DEF SerialInv, TypeOK
        <4>3. QED BY <4>1, <4>2, <2>1
      <3>3. QED BY <2>2, <3>1, <3>2
    <2>4. QED BY <2>1, <2>3, Unseen
  <1>4. CASE Pause(w) \/ Finish(w) \/ Advance(w)
    BY <1>4, SavesRefine
  <1>5. CASE CreatePullRequest(w)
    <2>1. /\ wf' = wf /\ step' = step
          /\ \A q \in Requests : pr'[q] = "merged" <=> pr[q] = "merged"
      BY <1>r, <1>5 DEF CreatePullRequest, SerialInv, TypeOK
    <2>2. QED BY <2>1, Unseen
  <1>6. CASE \/ ClaimSelect(w) \/ ClaimNothing(w) \/ RunSucceeds(w) \/ RunAwaits(w) \/ RunFails(w)
             \/ Redispatch(w) \/ RedispatchFails(w) \/ Ack(w) \/ \E q \in Requests : Receive(w, q)
    <2>1. wf' = wf /\ step' = step /\ pr' = pr
      BY <1>6 DEF ClaimSelect, ClaimNothing, RunSucceeds, RunAwaits, RunFails, Redispatch,
                  RedispatchFails, Ack, Receive
    <2>2. QED BY <2>1, Unseen
  <1>7. QED BY <1>1, <1>2, <1>3, <1>4, <1>5, <1>6 DEF WorkerStep, HandlerStep

LEMMA ApiRefines ==
  ASSUME SerialInv,
         \/ \E r \in Requests : RequestStep(r) \/ RequestFails(r) \/ Merge(r)
         \/ \E c \in Callers : CallStep(c) \/ ResumeFails(c)
  PROVE  \/ Sequential!Next
         \/ UNCHANGED Sequential!vars
  <1> USE DEF dbVars
  <1>1. ASSUME NEW r \in Requests, CreateRun(r), ~KeyTaken(r) PROVE Sequential!Next
    <2>1. wf[r].status = "NONE"
      BY <1>1 DEF KeyTaken, Exists
    <2>2. /\ wf'[r].status = "PENDING" /\ \A q \in Requests \ {r} : wf'[q] = wf[q]
          /\ step' = step /\ pr' = pr
      BY <1>1 DEF CreateRun, SerialInv, TypeOK, Row
    <2>3. Sequential!Move(r, {"NONE"}, "PENDING")
      BY <2>1, <2>2, Moves
    <2>4. QED BY <2>3 DEF Sequential!Next, Sequential!Submit
  <1>2. ASSUME NEW r \in Requests, Merge(r) PROVE Sequential!Next
    <2>1. pr[r] = "open" /\ pr' = [pr EXCEPT ![r] = "merged"] /\ wf' = wf /\ step' = step
      BY <1>2 DEF Merge
    <2>2. [q \in Requests |-> pr[q] = "merged"]'
            = [[q \in Requests |-> pr[q] = "merged"] EXCEPT ![r] = TRUE]
      BY <2>1 DEF SerialInv, TypeOK
    <2>3. Sequential!Merge(r)
      BY <2>1, <2>2 DEF Sequential!Merge
    <2>4. QED BY <2>3 DEF Sequential!Next
  <1>3. ASSUME NEW c \in Callers, ResumeUpdate(c) PROVE Sequential!Next
    <2>1. PICK r \in Requests : r = Target[c]
      BY ConstantsAssumption
    <2>2. /\ wf[r].status = "AWAITING_APPROVAL"
          /\ callSnap[c] = [status |-> "RUNNING", currentStep |-> wf[r].currentStep]
      BY <1>3, <2>1 DEF ResumeUpdate, SerialInv, CallerFine, Calls
    <2>3. wf'[r] = callSnap[c] /\ \A q \in Requests \ {r} : wf'[q] = wf[q]
      BY <1>3, <2>1 DEF ResumeUpdate, SerialInv, TypeOK
    <2>4. step' = step /\ pr' = pr /\ wf'[r].status = "RUNNING"
      BY <1>3, <2>2, <2>3 DEF ResumeUpdate
    <2>5. Sequential!Move(r, {"AWAITING_APPROVAL"}, "RUNNING")
      BY <2>2, <2>3, <2>4, Moves
    <2>6. QED BY <2>5 DEF Sequential!Next, Sequential!Resume
  <1>4. \/ \E r \in Requests : (CreateRun(r) /\ ~KeyTaken(r)) \/ Merge(r)
        \/ \E c \in Callers : ResumeUpdate(c)
        \/ wf' = wf /\ step' = step /\ pr' = pr
    BY DEF RequestStep, CheckKey, CreateRun, DispatchRun, RequestFails,
           CallStep, ResumeLoad, ResumeDispatch, ResumeFails
  <1>5. QED BY <1>1, <1>2, <1>3, <1>4, Unseen

LEMMA StepsRefine ==
  ASSUME MaxWorkerFaults = 0, SerialInv, [Next /\ SerialResumes']_vars
  PROVE  [Sequential!Next]_(Sequential!vars)
  <1>1. CASE UNCHANGED vars
    BY <1>1, Unseen DEF vars
  <1>2. CASE Next
    <2>1. ~(workerFaults < MaxWorkerFaults)
      BY DEF SerialInv, TypeOK
    <2>2. \A w \in Workers : ~(HandlerError(w) \/ Crash(w) \/ LoseConnection(w))
      BY <2>1 DEF HandlerError, Crash, LoseConnection
    <2>3. \/ \E r \in Requests : RequestStep(r) \/ RequestFails(r) \/ Merge(r)
          \/ \E c \in Callers : CallStep(c) \/ ResumeFails(c)
          \/ \E w \in Workers : WorkerStep(w)
      BY <1>2, <2>2 DEF Next, Fault
    <2>4. QED BY <2>3, ApiRefines, HandlersRefine
  <1>3. QED BY <1>1, <1>2

\* Without worker faults and with Resume calls that do not overlap, the engine
\* implements the sequential run (engine.go, executeNext; ADR-0005): workers,
\* messages, claims, stale copies and dying API calls do not show.
THEOREM EngineIsSequential == MaxWorkerFaults = 0 => (SerialSpec => ImplementsSequential)
  <1> SUFFICES ASSUME MaxWorkerFaults = 0 PROVE SerialSpec => ImplementsSequential
    OBVIOUS
  <1>1. Init => Sequential!Init
    <2> SUFFICES ASSUME Init PROVE Sequential!Init
      OBVIOUS
    <2>1. [r \in Requests |-> wf[r].status] = [r \in Requests |-> "NONE"]
      BY DEF Init, NoRow
    <2>2. [r \in Requests |-> {k \in Steps : step[r][k] = "SUCCEEDED"}] = [r \in Requests |-> {}]
      <3>1. \A r \in Requests : {k \in Steps : step[r][k] = "SUCCEEDED"} = {}
        BY DEF Init
      <3>2. QED BY <3>1
    <2>3. [r \in Requests |-> pr[r] = "merged"] = [r \in Requests |-> FALSE]
      BY DEF Init
    <2>4. QED BY <2>1, <2>2, <2>3 DEF Sequential!Init
  <1>2. SerialInv /\ [Next /\ SerialResumes']_vars => [Sequential!Next]_(Sequential!vars)
    BY StepsRefine
  <1>3. SerialSpec => []SerialInv
    BY SerialInvariance
  <1>4. QED BY <1>1, <1>2, <1>3, PTL DEF SerialSpec, ImplementsSequential, Sequential!Spec

-----------------------------------------------------------------------------
(* What the invariant says of single runs. *)

\* current_step never claims more progress than was made (engine.go, advance), as
\* long as no worker faults and resumes do not overlap.
THEOREM ProgressIsSound == MaxWorkerFaults = 0 => (SerialSpec => []ProgressSound)
  <1> SUFFICES ASSUME MaxWorkerFaults = 0 PROVE SerialSpec => []ProgressSound
    OBVIOUS
  <1>1. SerialInv => ProgressSound
    BY DEF SerialInv, RowFine, Reached, ProgressSound
  <1>2. QED BY <1>1, SerialInvariance, PTL

\* No step is claimed or written while its run waits for the approval
\* (engine.go:32), under the same conditions.
THEOREM PausedRunsAreIdle == MaxWorkerFaults = 0 => (SerialSpec => PausedStaysIdle)
  <1> SUFFICES ASSUME MaxWorkerFaults = 0 PROVE SerialSpec => PausedStaysIdle
    OBVIOUS
  <1> DEFINE Idle == \A r \in Requests, k \in Steps :
                       /\ wf[r].status = "AWAITING_APPROVAL"
                       /\ wf'[r].status = "AWAITING_APPROVAL"
                       => step'[r][k] = step[r][k]
  <1>1. ASSUME SerialInv, [Next /\ SerialResumes']_vars PROVE Idle
    <2>1. CASE step' = step
      BY <2>1
    <2>2. CASE step' # step
      <3>1. workerFaults \in Nat
        BY <1>1 DEF SerialInv, TypeOK
      <3>2. PICK w \in Workers : ClaimCommit(w) \/ RevertStep(w) \/ FailStep(w) \/ CompleteStep(w)
        BY <1>1, <2>2, <3>1
           DEF Next, Fault, RequestStep, CallStep, WorkerStep, HandlerStep, vars, dbVars,
               CheckKey, CreateRun, DispatchRun, RequestFails, Merge, ResumeLoad, ResumeUpdate,
               ResumeDispatch, ResumeFails, MarkRunning, ClaimSelect, ClaimNothing,
               CreatePullRequest, RunSucceeds, RunAwaits, RunFails, Pause, Finish, Advance,
               Redispatch, RedispatchFails, Ack, Receive, HandlerError, Crash, LoseConnection
      <3>3. Acts(w) /\ run[w] \in Requests
        BY <1>1, <3>2 DEF ClaimCommit, RevertStep, FailStep, CompleteStep, Acts, SerialInv, TypeOK
      <3>4. \A r \in Requests \ {run[w]} : step'[r] = step[r]
        BY <1>1, <3>2, <3>3 DEF ClaimCommit, RevertStep, FailStep, CompleteStep, SaveStep,
                           SerialInv, TypeOK
      <3>5. wf[run[w]].status # "AWAITING_APPROVAL"
        BY <1>1, <3>3, Batons
      <3>6. QED BY <3>4, <3>5
    <2>3. QED BY <2>1, <2>2
  <1>2. SerialInv /\ [Next /\ SerialResumes']_vars => [Idle]_vars
    BY <1>1
  <1> HIDE DEF Idle
  <1>3. SerialSpec => [][Idle]_vars
    BY <1>2, SerialInvariance, PTL DEF SerialSpec
  <1>4. QED BY <1>3 DEF Idle, PausedStaysIdle

\* Under the same conditions nothing behind the approval gate starts before the merge
\* (cluster_provision.go: the gate decides whether anything else happens).
THEOREM GatesAreRespected == MaxWorkerFaults = 0 => (SerialSpec => []GateRespected)
  <1> SUFFICES ASSUME MaxWorkerFaults = 0 PROVE SerialSpec => []GateRespected
    OBVIOUS
  <1>1. ASSUME SerialInv PROVE GateRespected
    <2>1. ASSUME NEW r \in Requests, NEW k \in Steps, k > Gate, step[r][k] # "PENDING"
          PROVE  pr[r] = "merged"
      <3>1. Gate \in Steps /\ Gate < k
        BY <2>1, ConstantsAssumption DEF Steps
      <3>2. step[r][Gate] = "SUCCEEDED"
        BY <1>1, <2>1, <3>1 DEF SerialInv, RowFine, Reached
      <3>3. QED BY <1>1, <3>1, <3>2 DEF SerialInv, RowFine
    <2>2. QED BY <2>1 DEF GateRespected
  <1>2. QED BY <1>1, SerialInvariance, PTL

\* Under the same conditions a run reported SUCCEEDED completed every step
\* (engine.go:38-40).
THEOREM SuccessIsComplete == MaxWorkerFaults = 0 => (SerialSpec => []SucceededMeansDone)
  <1>1. SerialInv => SucceededMeansDone
    BY DEF SerialInv, RowFine, SucceededMeansDone
  <1>2. QED BY <1>1, SerialInvariance, PTL

\* Under the same conditions nothing starts behind a failed step (engine.go:190-192).
THEOREM FailuresStop == MaxWorkerFaults = 0 => (SerialSpec => []FailureStops)
  <1> SUFFICES ASSUME MaxWorkerFaults = 0 PROVE SerialSpec => []FailureStops
    OBVIOUS
  <1>1. ASSUME SerialInv PROVE FailureStops
    <2>1. ASSUME NEW r \in Requests, NEW j \in Steps, NEW k \in Steps,
                 j < k, step[r][j] = "FAILED", step[r][k] # "PENDING"
          PROVE  FALSE
      BY <1>1, <2>1 DEF SerialInv, RowFine, Reached
    <2>2. QED BY <2>1 DEF FailureStops
  <1>2. QED BY <1>1, SerialInvariance, PTL

\* Under the same conditions a terminal run is never revived or given another
\* verdict (engine.go:200): the sequential run has no step that does it.
THEOREM VerdictsStay == MaxWorkerFaults = 0 => (SerialSpec => TerminalStays)
  <1> SUFFICES ASSUME MaxWorkerFaults = 0 PROVE SerialSpec => TerminalStays
    OBVIOUS
  <1> DEFINE Stay == \A r \in Requests : wf[r].status \in Terminal => wf'[r].status = wf[r].status
             phase == [r \in Requests |-> wf[r].status]
  <1>1. ASSUME [Sequential!Next]_(Sequential!vars) PROVE Stay
    <2>1. \/ phase' = phase
          \/ \E r \in Requests : phase[r] \notin Terminal /\ \E s : phase' = [phase EXCEPT ![r] = s]
      <3>1. CASE UNCHANGED Sequential!vars
        BY <3>1 DEF Sequential!vars
      <3>2. ASSUME NEW r \in Requests, NEW from, NEW to, Sequential!Move(r, from, to),
                   from \in {{"NONE"}, {"PENDING"}, {"RUNNING"}, {"AWAITING_APPROVAL"}}
            PROVE  phase[r] \notin Terminal /\ \E s : phase' = [phase EXCEPT ![r] = s]
        BY <3>2 DEF Sequential!Move, Terminal
      <3>3. ASSUME NEW r \in Requests, NEW k, Sequential!CompleteStep(r, k) \/ Sequential!Merge(r)
            PROVE  phase' = phase
        BY <3>3 DEF Sequential!CompleteStep, Sequential!Merge
      <3>4. CASE Sequential!Next
        BY <3>4, <3>2, <3>3
           DEF Sequential!Next, Sequential!Submit, Sequential!Start, Sequential!Pause,
               Sequential!Resume, Sequential!Succeed, Sequential!Fail, Sequential!Reject
      <3>5. QED BY <1>1, <3>1, <3>4
    <2>2. \A r \in Requests : phase[r] = wf[r].status /\ phase'[r] = wf'[r].status
      OBVIOUS
    <2>3. \A r \in Requests : phase[r] \in Terminal => phase'[r] = phase[r]
      BY <2>1
    <2>4. QED BY <2>2, <2>3
  <1>2. SerialInv /\ [Next /\ SerialResumes']_vars => [Stay]_vars
    BY <1>1, StepsRefine
  <1> HIDE DEF Stay
  <1>3. SerialSpec => [][Stay]_vars
    BY <1>2, SerialInvariance, PTL DEF SerialSpec
  <1>4. QED BY <1>3 DEF Stay, TerminalStays

=============================================================================
