------------------------ MODULE WorkflowEngineProofs ------------------------
(***************************************************************************)
(* Proofs about WorkflowEngine, for any number of workers, requests,       *)
(* resume calls, steps and faults.                                         *)
(***************************************************************************)
EXTENDS WorkflowEngine, TLAPS

LEMMA AnyRunType == AnyRun \in Requests
  BY ConstantsAssumption DEF AnyRun

LEMMA ZeroIsStep == 0 \in Steps
  BY ConstantsAssumption DEF Steps

\* Row values stay rows when one field is changed.
LEMMA RowUpdate ==
  ASSUME NEW row \in Row
  PROVE  /\ \A s \in Status : [row EXCEPT !.status = s] \in Row
         /\ \A n \in Nat : [row EXCEPT !.currentStep = n] \in Row
  BY DEF Row

LEMMA NoRowType == NoRow \in Row
  BY DEF NoRow, Row

LEMMA TypeInit == Init => TypeOK
  BY AnyRunType, ZeroIsStep, NoRowType
     DEF Init, TypeOK, StepStatus, WorkerPc

\* The unacknowledged message of a worker goes back to a queue of naturals.
LEMMA RequeueType ==
  ASSUME TypeOK, NEW w \in Workers, Requeue(w)
  PROVE  queue' \in [Requests -> Nat]
  BY DEF TypeOK, Requeue

LEMMA EndHandlerType ==
  ASSUME TypeOK, NEW w \in Workers, EndHandler(w)
  PROVE  /\ pc' \in [Workers -> WorkerPc]
         /\ run' \in [Workers -> Requests]
         /\ seq' \in [Workers -> Steps]
         /\ snap' \in [Workers -> Row]
  BY AnyRunType, ZeroIsStep, NoRowType DEF TypeOK, EndHandler, WorkerPc

\* The steps of Engine.Enqueue and of Engine.Resume.
LEMMA TypeApi ==
  ASSUME TypeOK,
         \/ \E r \in Requests : RequestStep(r) \/ Merge(r) \/ RequestFails(r)
         \/ \E c \in Callers : CallStep(c) \/ ResumeFails(c)
  PROVE  TypeOK'
  <1> USE DEF dbVars, apiVars, localVars, faultVars
  <1>1. ASSUME NEW r \in Requests, CheckKey(r) PROVE TypeOK'
    BY <1>1 DEF CheckKey, TypeOK
  <1>2. ASSUME NEW r \in Requests, CreateRun(r) PROVE TypeOK'
    <2>1. [wf[r] EXCEPT !.status = "PENDING"] \in Row
      BY RowUpdate DEF TypeOK, Status
    <2>2. wf' \in [Requests -> Row]
      BY <1>2, <2>1 DEF CreateRun, TypeOK
    <2>3. QED BY <1>2, <2>2 DEF CreateRun, TypeOK
  <1>3. ASSUME NEW r \in Requests, DispatchRun(r) PROVE TypeOK'
    BY <1>3 DEF DispatchRun, Publish, TypeOK
  <1>4. ASSUME NEW r \in Requests, RequestFails(r) PROVE TypeOK'
    BY <1>4 DEF RequestFails, TypeOK
  <1>5. ASSUME NEW r \in Requests, Merge(r) PROVE TypeOK'
    BY <1>5 DEF Merge, TypeOK
  <1>6. ASSUME NEW c \in Callers, ResumeLoad(c) PROVE TypeOK'
    <2>1. [wf[Target[c]] EXCEPT !.status = "RUNNING"] \in Row
      BY RowUpdate, ConstantsAssumption DEF TypeOK, Status
    <2>2. callSnap' \in [Callers -> Row]
      BY <1>6, <2>1 DEF ResumeLoad, TypeOK
    <2>3. QED BY <1>6, <2>2 DEF ResumeLoad, TypeOK
  <1>7. ASSUME NEW c \in Callers, ResumeUpdate(c) PROVE TypeOK'
    BY <1>7, ConstantsAssumption DEF ResumeUpdate, TypeOK
  <1>8. ASSUME NEW c \in Callers, ResumeDispatch(c) PROVE TypeOK'
    <2>1. Target[c] \in Requests
      BY ConstantsAssumption
    <2>2. queue' \in [Requests -> Nat]
      BY <1>8, <2>1 DEF ResumeDispatch, Publish, TypeOK
    <2>3. QED BY <1>8, <2>2 DEF ResumeDispatch, TypeOK
  <1>9. ASSUME NEW c \in Callers, ResumeFails(c) PROVE TypeOK'
    BY <1>9 DEF ResumeFails, TypeOK
  <1>10. QED
    BY <1>1, <1>2, <1>3, <1>4, <1>5, <1>6, <1>7, <1>8, <1>9 DEF RequestStep, CallStep

\* The steps of executeNext.
LEMMA TypeWorker ==
  ASSUME TypeOK, NEW w \in Workers, WorkerStep(w)
  PROVE  TypeOK'
  <1> USE DEF dbVars, apiVars, localVars, faultVars, Elsewhere, Goto, SaveStep
  <1>row. /\ \A s \in Status : [snap[w] EXCEPT !.status = s] \in Row
          /\ [snap[w] EXCEPT !.currentStep = seq[w] + 1] \in Row
    <2>1. snap[w] \in Row
      BY DEF TypeOK
    <2>2. seq[w] \in Steps
      BY DEF TypeOK
    <2>3. seq[w] + 1 \in Nat
      BY <2>2, ConstantsAssumption DEF Steps
    <2>4. QED BY <2>1, <2>3, RowUpdate
  <1>save. Save(w) => wf' \in [Requests -> Row]
    BY DEF Save, TypeOK
  <1>step. \A s \in StepStatus :
             [step EXCEPT ![run[w]][seq[w]] = s] \in [Requests -> [Steps -> StepStatus]]
    BY DEF TypeOK
  <1>1. ASSUME NEW r \in Requests, Receive(w, r) PROVE TypeOK'
    <2>1. [wf[r] EXCEPT !.status = "RUNNING"] \in Row
      BY RowUpdate DEF TypeOK, Status
    <2>2. snap' \in [Workers -> Row]
      BY <1>1, <2>1, ZenonT(60) DEF Receive, TypeOK
    <2>3. queue' \in [Requests -> Nat]
      BY <1>1 DEF Receive, TypeOK
    <2>4. pc' \in [Workers -> WorkerPc]
      BY <1>1 DEF Receive, TypeOK, WorkerPc
    <2>5. QED BY <1>1, <2>2, <2>3, <2>4 DEF Receive, TypeOK
  <1>2. CASE MarkRunning(w)
    BY <1>2, <1>save DEF MarkRunning, TypeOK, WorkerPc
  <1>3. CASE ClaimSelect(w)
    BY <1>3 DEF ClaimSelect, Claimable, TypeOK, WorkerPc
  <1>4. CASE ClaimNothing(w)
    BY <1>4, <1>row DEF ClaimNothing, TypeOK, WorkerPc, Status, Terminal
  <1>5. CASE ClaimCommit(w)
    <2>1. snap' \in [Workers -> Row]
      <3>1. [snap[w] EXCEPT !.status = "FAILED"] \in Row
        BY <1>row DEF Status, Terminal
      <3>2. snap' = snap \/ snap' = [snap EXCEPT ![w].status = "FAILED"]
        BY <1>5 DEF ClaimCommit
      <3>3. snap \in [Workers -> Row]
        BY DEF TypeOK
      <3>4. QED BY <3>1, <3>2, <3>3
    <2>2. step' \in [Requests -> [Steps -> StepStatus]]
      BY <1>5, <1>step DEF ClaimCommit, StepStatus
    <2>3. pc' \in [Workers -> WorkerPc]
      <3>1. \E l \in WorkerPc : pc' = [pc EXCEPT ![w] = l]
        BY <1>5 DEF ClaimCommit, WorkerPc
      <3>2. QED BY <3>1 DEF TypeOK
    <2>4. QED BY <1>5, <2>1, <2>2, <2>3 DEF ClaimCommit, TypeOK
  <1>open. CASE CreatePullRequest(w)
    BY <1>open DEF CreatePullRequest, TypeOK, WorkerPc
  <1>6. CASE RunSucceeds(w)
    BY <1>6 DEF RunSucceeds, TypeOK, WorkerPc
  <1>7. CASE RunAwaits(w)
    BY <1>7 DEF RunAwaits, TypeOK, WorkerPc
  <1>8. CASE RunFails(w)
    BY <1>8 DEF RunFails, TypeOK, WorkerPc
  <1>9. CASE RevertStep(w)
    <2>1. snap' \in [Workers -> Row]
      BY <1>9, <1>row DEF RevertStep, TypeOK, Status
    <2>2. step' \in [Requests -> [Steps -> StepStatus]]
      BY <1>9, <1>step DEF RevertStep, StepStatus
    <2>3. QED BY <1>9, <2>1, <2>2 DEF RevertStep, TypeOK, WorkerPc
  <1>10. CASE Pause(w)
    BY <1>10, <1>save DEF Pause, TypeOK, WorkerPc
  <1>11. CASE FailStep(w)
    <2>1. snap' \in [Workers -> Row]
      BY <1>11, <1>row DEF FailStep, TypeOK, Status, Terminal
    <2>2. step' \in [Requests -> [Steps -> StepStatus]]
      BY <1>11, <1>step DEF FailStep, StepStatus, TypeOK
    <2>3. pc' \in [Workers -> WorkerPc]
      BY <1>11 DEF FailStep, TypeOK, WorkerPc
    <2>4. QED BY <1>11, <2>1, <2>2, <2>3 DEF FailStep, TypeOK
  <1>12. CASE Finish(w)
    BY <1>12, <1>save DEF Finish, TypeOK, WorkerPc
  <1>13. CASE CompleteStep(w)
    <2>1. snap' \in [Workers -> Row]
      BY <1>13, <1>row DEF CompleteStep, TypeOK
    <2>2. step' \in [Requests -> [Steps -> StepStatus]]
      BY <1>13, <1>step DEF CompleteStep, StepStatus
    <2>3. QED BY <1>13, <2>1, <2>2 DEF CompleteStep, TypeOK, WorkerPc
  <1>14. CASE Advance(w)
    BY <1>14, <1>save DEF Advance, TypeOK, WorkerPc
  <1>15. CASE Redispatch(w)
    BY <1>15 DEF Redispatch, Publish, TypeOK, WorkerPc
  <1>16. CASE RedispatchFails(w)
    BY <1>16, EndHandlerType DEF RedispatchFails, TypeOK
  <1>17. CASE Ack(w)
    BY <1>17, EndHandlerType DEF Ack, TypeOK
  <1>18. QED
    BY <1>1, <1>2, <1>3, <1>4, <1>5, <1>open, <1>6, <1>7, <1>8, <1>9, <1>10, <1>11, <1>12,
       <1>13, <1>14, <1>15, <1>16, <1>17 DEF WorkerStep, HandlerStep

\* Faults of workers.
LEMMA TypeFault ==
  ASSUME TypeOK, NEW w \in Workers, HandlerError(w) \/ Crash(w) \/ LoseConnection(w)
  PROVE  TypeOK'
  <1> USE DEF dbVars, apiVars, localVars
  <1>1. CASE HandlerError(w)
    BY <1>1, EndHandlerType, RequeueType DEF HandlerError, TypeOK
  <1>2. CASE Crash(w)
    BY <1>2, EndHandlerType, RequeueType DEF Crash, TypeOK
  <1>3. CASE LoseConnection(w)
    BY <1>3, RequeueType DEF LoseConnection, TypeOK
  <1>4. QED BY <1>1, <1>2, <1>3

LEMMA TypeNext == TypeOK /\ [Next]_vars => TypeOK'
  <1> SUFFICES ASSUME TypeOK, [Next]_vars PROVE TypeOK'
    OBVIOUS
  <1>1. CASE Next
    BY <1>1, TypeApi, TypeWorker, TypeFault DEF Next, Fault
  <1>2. CASE UNCHANGED vars
    BY <1>2 DEF vars, TypeOK
  <1>3. QED BY <1>1, <1>2

\* Every variable of the engine, the broker and the callers keeps its type in
\* every execution.
THEOREM TypeCorrect == Spec => []TypeOK
  BY TypeInit, TypeNext, PTL DEF Spec

-----------------------------------------------------------------------------
(* Claims are exclusive                                                    *)

LEMMA ClaimInit == Init => ClaimInv
  BY DEF Init, ClaimInv, ClaimExclusive, Locks, Holds

\* A worker that neither locks nor holds a step after its move, and whose move
\* leaves the steps and the other workers alone, disturbs no claim.
LEMMA ClaimFrame ==
  ASSUME TypeOK, ClaimInv, NEW w \in Workers,
         UNCHANGED step,
         pc'[w] \notin {"locked", "run", "revert", "fail", "complete"},
         \A v \in Workers \ {w} : pc'[v] = pc[v] /\ run'[v] = run[v] /\ seq'[v] = seq[v]
  PROVE  ClaimInv'
  BY DEF ClaimInv, ClaimExclusive, Locks, Holds

\* The worker keeps the step it holds.
LEMMA ClaimKeep ==
  ASSUME TypeOK, ClaimInv, NEW w \in Workers,
         UNCHANGED <<step, run, seq>>,
         pc[w] \in {"run", "revert", "fail", "complete"},
         NEW l \in WorkerPc, pc' = [pc EXCEPT ![w] = l],
         l \in {"run", "revert", "fail", "complete"}
  PROVE  ClaimInv'
  BY DEF ClaimInv, ClaimExclusive, Locks, Holds, TypeOK

\* The worker writes the step it holds and lets go of it.
LEMMA ClaimRelease ==
  ASSUME TypeOK, ClaimInv, NEW w \in Workers,
         UNCHANGED <<run, seq>>,
         pc[w] \in {"run", "revert", "fail", "complete"},
         NEW s \in StepStatus, step' = [step EXCEPT ![run[w]][seq[w]] = s],
         NEW l \in WorkerPc, pc' = [pc EXCEPT ![w] = l],
         l \notin {"locked", "run", "revert", "fail", "complete"}
  PROVE  ClaimInv'
  <1>1. Holds(w, run[w], seq[w]) /\ run[w] \in Requests /\ seq[w] \in Steps
    BY DEF Holds, TypeOK
  <1>2. step[run[w]][seq[w]] = "RUNNING"
    BY <1>1 DEF ClaimInv
  <1>3. \A v \in Workers, r \in Requests, k \in Steps :
          /\ Locks(v, r, k)' => Locks(v, r, k) /\ step'[r][k] = step[r][k]
          /\ Holds(v, r, k)' => Holds(v, r, k) /\ step'[r][k] = step[r][k]
    <2> SUFFICES ASSUME NEW v \in Workers, NEW r \in Requests, NEW k \in Steps
                 PROVE  /\ Locks(v, r, k)' => Locks(v, r, k) /\ step'[r][k] = step[r][k]
                        /\ Holds(v, r, k)' => Holds(v, r, k) /\ step'[r][k] = step[r][k]
      OBVIOUS
    <2>1. r # run[w] \/ k # seq[w] => step'[r][k] = step[r][k]
      BY DEF TypeOK
    <2>2. Locks(v, r, k)' => Locks(v, r, k)
      BY DEF Locks, TypeOK
    <2>3. Holds(v, r, k)' => Holds(v, r, k) /\ v # w
      BY DEF Holds, TypeOK
    <2>4. Locks(v, r, k) => r # run[w] \/ k # seq[w]
      BY <1>2 DEF ClaimInv
    <2>5. Holds(v, r, k) /\ v # w => r # run[w] \/ k # seq[w]
      BY <1>1 DEF ClaimInv, ClaimExclusive
    <2>6. QED BY <2>1, <2>2, <2>3, <2>4, <2>5
  <1>4. QED BY <1>3 DEF ClaimInv, ClaimExclusive

\* The SELECT locks a PENDING row that no other transaction has locked.
LEMMA ClaimSelectInv ==
  ASSUME TypeOK, ClaimInv, NEW w \in Workers, ClaimSelect(w)
  PROVE  ClaimInv'
  <1> USE DEF dbVars, apiVars, Goto
  <1>1. PICK k \in Claimable(w) : seq' = [seq EXCEPT ![w] = k]
    BY DEF ClaimSelect
  <1>2. /\ UNCHANGED <<step, run>>
        /\ pc' = [pc EXCEPT ![w] = "locked"]
    BY DEF ClaimSelect
  <1>3. /\ k \in Steps
        /\ step[run[w]][k] = "PENDING"
        /\ \A v \in Workers \ {w} : ~Locks(v, run[w], k)
    BY <1>1 DEF Claimable, Locks
  <1>4. \A v \in Workers, r \in Requests, j \in Steps :
          /\ Locks(v, r, j)' => (Locks(v, r, j) /\ v # w) \/ (v = w /\ r = run[w] /\ j = k)
          /\ Holds(v, r, j)' => Holds(v, r, j)
    <2> SUFFICES ASSUME NEW v \in Workers, NEW r \in Requests, NEW j \in Steps
                 PROVE  /\ Locks(v, r, j)' => (Locks(v, r, j) /\ v # w) \/ (v = w /\ r = run[w] /\ j = k)
                        /\ Holds(v, r, j)' => Holds(v, r, j)
      OBVIOUS
    <2>1. CASE v = w
      BY <2>1, <1>1, <1>2 DEF Locks, Holds, TypeOK
    <2>2. CASE v # w
      <3>1. pc'[v] = pc[v] /\ run'[v] = run[v] /\ seq'[v] = seq[v]
        BY <2>2, <1>1, <1>2 DEF TypeOK
      <3>2. QED BY <2>2, <3>1 DEF Locks, Holds
    <2>3. QED BY <2>1, <2>2
  <1>5. QED BY <1>2, <1>3, <1>4 DEF ClaimInv, ClaimExclusive

\* The COMMIT turns the one lock on the row into the one hold on the step.
LEMMA ClaimCommitInv ==
  ASSUME TypeOK, ClaimInv, NEW w \in Workers, ClaimCommit(w)
  PROVE  ClaimInv'
  <1> USE DEF Goto
  <1>1. /\ UNCHANGED <<run, seq>>
        /\ step' = [step EXCEPT ![run[w]][seq[w]] = "RUNNING"]
        /\ pc[w] = "locked"
        /\ pc' = [pc EXCEPT ![w] = "finish"] \/ pc' = [pc EXCEPT ![w] = "run"]
    BY DEF ClaimCommit
  <1>2. /\ Locks(w, run[w], seq[w])
        /\ run[w] \in Requests /\ seq[w] \in Steps
        /\ step[run[w]][seq[w]] = "PENDING"
    <2>1. Locks(w, run[w], seq[w]) /\ run[w] \in Requests /\ seq[w] \in Steps
      BY <1>1 DEF Locks, TypeOK
    <2>2. QED BY <2>1 DEF ClaimInv
  <1>3. \A r \in Requests, k \in Steps :
          step'[r][k] = IF r = run[w] /\ k = seq[w] THEN "RUNNING" ELSE step[r][k]
    BY <1>1, <1>2 DEF TypeOK
  <1>4. \A v \in Workers, r \in Requests, k \in Steps :
          Locks(v, r, k)' => Locks(v, r, k) /\ v # w
    BY <1>1 DEF Locks, TypeOK
  <1>5. \A v \in Workers, r \in Requests, k \in Steps :
          Holds(v, r, k)' => Holds(v, r, k) \/ (v = w /\ r = run[w] /\ k = seq[w])
    <2> SUFFICES ASSUME NEW v \in Workers, NEW r \in Requests, NEW k \in Steps,
                        Holds(v, r, k)'
                 PROVE  Holds(v, r, k) \/ (v = w /\ r = run[w] /\ k = seq[w])
      OBVIOUS
    <2>1. CASE v = w
      BY <2>1, <1>1 DEF Holds
    <2>2. CASE v # w
      <3>1. pc'[v] = pc[v] /\ run'[v] = run[v] /\ seq'[v] = seq[v]
        BY <2>2, <1>1 DEF TypeOK
      <3>2. QED BY <3>1 DEF Holds
    <2>3. QED BY <2>1, <2>2
  <1>6. \A v \in Workers, r \in Requests, k \in Steps :
          /\ Locks(v, r, k)' => step'[r][k] = "PENDING"
          /\ Holds(v, r, k)' => step'[r][k] = "RUNNING"
    BY <1>2, <1>3, <1>4, <1>5 DEF ClaimInv
  <1>7. \A v \in Workers, r \in Requests, k \in Steps :
          Holds(v, r, k) => ~(r = run[w] /\ k = seq[w])
    BY <1>2 DEF ClaimInv
  <1>8. ClaimExclusive'
    <2> SUFFICES ASSUME NEW u \in Workers, NEW v \in Workers,
                        NEW r \in Requests, NEW k \in Steps,
                        Holds(u, r, k)', Holds(v, r, k)'
                 PROVE  u = v
      BY DEF ClaimExclusive
    <2>1. CASE r = run[w] /\ k = seq[w]
      BY <2>1, <1>5, <1>7
    <2>2. CASE ~(r = run[w] /\ k = seq[w])
      <3>1. Holds(u, r, k) /\ Holds(v, r, k)
        BY <2>2, <1>5
      <3>2. QED BY <3>1 DEF ClaimInv, ClaimExclusive
    <2>3. QED BY <2>1, <2>2
  <1>9. QED BY <1>4, <1>6, <1>8 DEF ClaimInv

LEMMA ClaimWorker ==
  ASSUME TypeOK, ClaimInv, NEW w \in Workers, WorkerStep(w)
  PROVE  ClaimInv'
  <1> USE DEF dbVars, Goto
  <1>1. ASSUME NEW r \in Requests, Receive(w, r) PROVE ClaimInv'
    <2>1. /\ \E l \in {"ack", "start", "claim"} : pc' = [pc EXCEPT ![w] = l]
          /\ run' = [run EXCEPT ![w] = r]
          /\ UNCHANGED <<step, seq>>
      BY <1>1 DEF Receive
    <2>2. pc'[w] \notin {"locked", "run", "revert", "fail", "complete"}
      BY <2>1 DEF TypeOK
    <2>3. \A v \in Workers \ {w} : pc'[v] = pc[v] /\ run'[v] = run[v] /\ seq'[v] = seq[v]
      BY <2>1 DEF TypeOK
    <2>4. QED BY <2>1, <2>2, <2>3, ClaimFrame
  <1>2. ASSUME MarkRunning(w) \/ ClaimNothing(w) \/ Pause(w) \/ Finish(w) \/ Advance(w)
                 \/ Redispatch(w)
        PROVE  ClaimInv'
    <2>1. /\ \E l \in {"claim", "finish", "ack", "redispatch"} : pc' = [pc EXCEPT ![w] = l]
          /\ UNCHANGED <<step, run, seq>>
      BY <1>2 DEF MarkRunning, ClaimNothing, Pause, Finish, Advance, Redispatch
    <2>2. pc'[w] \notin {"locked", "run", "revert", "fail", "complete"}
      BY <2>1 DEF TypeOK
    <2>3. \A v \in Workers \ {w} : pc'[v] = pc[v] /\ run'[v] = run[v] /\ seq'[v] = seq[v]
      BY <2>1 DEF TypeOK
    <2>4. QED BY <2>1, <2>2, <2>3, ClaimFrame
  <1>3. ASSUME CreatePullRequest(w) \/ RunSucceeds(w) \/ RunAwaits(w) \/ RunFails(w)
        PROVE  ClaimInv'
    <2>1. PICK l \in {"run", "complete", "revert", "fail"} : pc' = [pc EXCEPT ![w] = l]
      BY <1>3 DEF CreatePullRequest, RunSucceeds, RunAwaits, RunFails
    <2>2. pc[w] = "run" /\ UNCHANGED <<step, run, seq>>
      BY <1>3 DEF CreatePullRequest, RunSucceeds, RunAwaits, RunFails
    <2>3. l \in WorkerPc
      BY DEF WorkerPc
    <2>4. QED BY <2>1, <2>2, <2>3, ClaimKeep
  <1>4. CASE RevertStep(w)
    BY <1>4, ClaimRelease DEF RevertStep, SaveStep, StepStatus, WorkerPc
  <1>5. CASE CompleteStep(w)
    BY <1>5, ClaimRelease DEF CompleteStep, SaveStep, StepStatus, WorkerPc
  <1>6. CASE FailStep(w)
    <2>1. CASE step' = [step EXCEPT ![run[w]][seq[w]] = "FAILED"]
      BY <1>6, <2>1, ClaimRelease DEF FailStep, SaveStep, StepStatus, WorkerPc
    <2>2. CASE UNCHANGED step
      BY <1>6, <2>2, ClaimFrame DEF FailStep, SaveStep, TypeOK
    <2>3. QED BY <1>6, <2>1, <2>2 DEF FailStep, SaveStep
  <1>7. ASSUME RedispatchFails(w) \/ Ack(w) PROVE ClaimInv'
    BY <1>7, ClaimFrame DEF RedispatchFails, Ack, EndHandler, TypeOK
  <1>8. QED
    BY <1>1, <1>2, <1>3, <1>4, <1>5, <1>6, <1>7, ClaimSelectInv, ClaimCommitInv
       DEF WorkerStep, HandlerStep

LEMMA ClaimNext == TypeOK /\ ClaimInv /\ [Next]_vars => ClaimInv'
  <1> SUFFICES ASSUME TypeOK, ClaimInv, [Next]_vars PROVE ClaimInv'
    OBVIOUS
  <1> USE DEF dbVars, localVars
  <1>1. ASSUME UNCHANGED <<step, pc, run, seq>> PROVE ClaimInv'
    BY <1>1 DEF ClaimInv, ClaimExclusive, Locks, Holds
  <1>2. ASSUME NEW r \in Requests, RequestStep(r) \/ Merge(r) \/ RequestFails(r) PROVE ClaimInv'
    BY <1>1, <1>2 DEF RequestStep, CheckKey, CreateRun, DispatchRun, Merge, RequestFails
  <1>3. ASSUME NEW c \in Callers, CallStep(c) \/ ResumeFails(c) PROVE ClaimInv'
    BY <1>1, <1>3 DEF CallStep, ResumeLoad, ResumeUpdate, ResumeDispatch, ResumeFails
  <1>4. ASSUME NEW w \in Workers, HandlerError(w) \/ Crash(w) PROVE ClaimInv'
    BY <1>4, ClaimFrame DEF HandlerError, Crash, EndHandler, TypeOK
  <1>5. ASSUME NEW w \in Workers, LoseConnection(w) PROVE ClaimInv'
    BY <1>1, <1>5 DEF LoseConnection
  <1>6. CASE UNCHANGED vars
    BY <1>1, <1>6 DEF vars
  <1>7. QED
    BY <1>2, <1>3, <1>4, <1>5, <1>6, ClaimWorker DEF Next, Fault

\* The claim protocol's inductive invariant holds in every execution.
THEOREM ClaimInvariant == Spec => [](TypeOK /\ ClaimInv)
  <1>1. Init => TypeOK /\ ClaimInv
    BY TypeInit, ClaimInit
  <1>2. TypeOK /\ ClaimInv /\ [Next]_vars => (TypeOK /\ ClaimInv)'
    BY TypeNext, ClaimNext
  <1>3. QED BY <1>1, <1>2, PTL DEF Spec

\* Two workers never execute the same step at the same time, for any number of
\* workers, runs, steps, resumes and faults.
THEOREM ClaimsAreExclusive == Spec => []ClaimExclusive
  <1>1. ClaimInv => ClaimExclusive
    BY DEF ClaimInv
  <1>2. QED BY <1>1, ClaimInvariant, PTL

-----------------------------------------------------------------------------
(* Settled steps stay, and a key names one run                             *)

\* A step is written only by the commit of a claim, which finds it PENDING, and
\* by the worker that holds it, which finds it RUNNING.
LEMMA SettledNext ==
  ASSUME TypeOK, ClaimInv, [Next]_vars, NEW r \in Requests, NEW k \in Steps,
         step[r][k] \in {"SUCCEEDED", "FAILED"}
  PROVE  step'[r][k] = step[r][k]
  <1> USE DEF dbVars, localVars
  <1>1. ASSUME NEW w \in Workers, NEW s \in StepStatus,
               step' = [step EXCEPT ![run[w]][seq[w]] = s],
               pc[w] \in {"locked", "revert", "fail", "complete"}
        PROVE  step'[r][k] = step[r][k]
    <2>1. Locks(w, run[w], seq[w]) \/ Holds(w, run[w], seq[w])
      BY <1>1 DEF Locks, Holds
    <2>2. run[w] \in Requests /\ seq[w] \in Steps
      BY DEF TypeOK
    <2>3. step[run[w]][seq[w]] \in {"PENDING", "RUNNING"}
      BY <2>1, <2>2 DEF ClaimInv
    <2>4. run[w] # r \/ seq[w] # k
      BY <2>3
    <2>5. QED BY <1>1, <2>2, <2>4 DEF TypeOK
  <1>2. ASSUME NEW w \in Workers, WorkerStep(w) PROVE step'[r][k] = step[r][k]
    <2>1. CASE ClaimCommit(w)
      BY <2>1, <1>1 DEF ClaimCommit, StepStatus
    <2>2. CASE RevertStep(w)
      BY <2>2, <1>1 DEF RevertStep, SaveStep, StepStatus
    <2>3. CASE FailStep(w)
      BY <2>3, <1>1 DEF FailStep, SaveStep, StepStatus
    <2>4. CASE CompleteStep(w)
      BY <2>4, <1>1 DEF CompleteStep, SaveStep, StepStatus
    <2>5. QED
      BY <1>2, <2>1, <2>2, <2>3, <2>4
         DEF WorkerStep, HandlerStep, Receive, MarkRunning, ClaimSelect, ClaimNothing,
             CreatePullRequest, RunSucceeds, RunAwaits, RunFails, Pause, Finish, Advance, Redispatch,
             RedispatchFails, Ack
  <1>3. ASSUME NEW q \in Requests, RequestStep(q) \/ Merge(q) \/ RequestFails(q)
        PROVE  UNCHANGED step
    BY <1>3 DEF RequestStep, CheckKey, CreateRun, DispatchRun, Merge, RequestFails
  <1>4. ASSUME NEW c \in Callers, CallStep(c) \/ ResumeFails(c) PROVE UNCHANGED step
    BY <1>4 DEF CallStep, ResumeLoad, ResumeUpdate, ResumeDispatch, ResumeFails
  <1>5. ASSUME NEW w \in Workers, HandlerError(w) \/ Crash(w) \/ LoseConnection(w)
        PROVE  UNCHANGED step
    BY <1>5 DEF HandlerError, Crash, LoseConnection
  <1>6. CASE UNCHANGED vars
    BY <1>6 DEF vars
  <1>7. QED BY <1>2, <1>3, <1>4, <1>5, <1>6 DEF Next, Fault

\* A step recorded as SUCCEEDED or FAILED is never claimed or rewritten again.
THEOREM SettledSteps == Spec => SettledStepsStay
  <1>1. TypeOK /\ ClaimInv /\ [Next]_vars =>
          [\A r \in Requests, k \in Steps :
             step[r][k] \in {"SUCCEEDED", "FAILED"} => step'[r][k] = step[r][k]]_vars
    BY SettledNext
  <1>2. QED BY <1>1, ClaimInvariant, PTL DEF Spec, SettledStepsStay

-----------------------------------------------------------------------------
(* No dispatch is lost to the crash of a worker                            *)

\* A run keeps being driven when the worker that moves was not what drove it.
LEMMA DrivenByOthers ==
  ASSUME TypeOK, NEW w \in Workers, NEW r \in Requests, Driven(r),
         run[w] # r \/ pc[w] \in {"idle", "ack"},
         queue'[r] \in Nat, queue'[r] >= queue[r],
         UNCHANGED <<reqPc, callPc>>,
         \A v \in Workers \ {w} : pc'[v] = pc[v] /\ run'[v] = run[v] /\ conn'[v] = conn[v]
  PROVE  Driven(r)'
  <1>1. CASE queue[r] > 0
    <2>1. queue[r] \in Nat
      BY DEF TypeOK
    <2>2. queue'[r] > 0
      BY <1>1, <2>1
    <2>3. QED BY <2>2 DEF Driven
  <1>2. CASE ~(queue[r] > 0)
    BY <1>2 DEF Driven
  <1>3. QED BY <1>1, <1>2

\* A connected worker inside the handler drives its run.
LEMMA DrivenBySelf ==
  ASSUME NEW w \in Workers, NEW r \in Requests,
         run'[w] = r, conn'[w], pc'[w] \notin {"idle", "ack"}
  PROVE  Driven(r)'
  BY DEF Driven

LEMMA DispatchInit == Init => DispatchInv
  <1> SUFFICES ASSUME Init PROVE DispatchInv
    OBVIOUS
  <1>1. NoLostDispatch
    BY DEF Init, NoLostDispatch, NoRow
  <1>2. QED BY <1>1 DEF Init, DispatchInv

\* A handler step that stays inside the handler.
LEMMA DispatchInside ==
  ASSUME TypeOK, DispatchInv, NEW w \in Workers,
         NEW l \in WorkerPc \ {"idle", "ack"}, pc' = [pc EXCEPT ![w] = l],
         UNCHANGED <<run, conn, queue, reqPc, callPc>>,
         \A r \in Requests : r # run[w] => wf'[r] = wf[r],
         pc[w] # "idle",
         \A v \in Workers \ {w} : snap'[v] = snap[v],
         l = "pause" => snap'[w].status = "AWAITING_APPROVAL",
         l = "finish" => snap'[w].status \in Terminal
  PROVE  DispatchInv'
  <1>1. ASSUME NEW r \in Requests, wf'[r].status \in {"PENDING", "RUNNING"}
        PROVE  Driven(r)'
    <2>1. CASE r = run[w]
      <3>1. conn'[w] /\ pc'[w] \notin {"idle", "ack"} /\ run'[w] = r
        BY <2>1 DEF DispatchInv, TypeOK
      <3>2. QED BY <3>1, DrivenBySelf
    <2>2. CASE r # run[w]
      <3>1. Driven(r)
        BY <1>1, <2>2 DEF DispatchInv, NoLostDispatch
      <3>2. queue'[r] \in Nat /\ queue'[r] >= queue[r]
        BY DEF TypeOK
      <3>3. \A v \in Workers \ {w} : pc'[v] = pc[v] /\ run'[v] = run[v] /\ conn'[v] = conn[v]
        BY DEF TypeOK
      <3>4. QED BY <2>2, <3>1, <3>2, <3>3, DrivenByOthers
    <2>3. QED BY <2>1, <2>2
  <1>2. NoLostDispatch'
    BY <1>1 DEF NoLostDispatch
  <1>3. ASSUME NEW v \in Workers
        PROVE  /\ conn'[v]
               /\ pc'[v] = "pause" => snap'[v].status = "AWAITING_APPROVAL"
               /\ pc'[v] = "finish" => snap'[v].status \in Terminal
    <2>1. conn'[v]
      BY DEF DispatchInv
    <2>2. CASE v = w
      BY <2>1, <2>2 DEF TypeOK
    <2>3. CASE v # w
      <3>1. pc'[v] = pc[v] /\ snap'[v] = snap[v]
        BY <2>3 DEF TypeOK
      <3>2. QED BY <2>1, <3>1 DEF DispatchInv
    <2>4. QED BY <2>2, <2>3
  <1>4. QED BY <1>2, <1>3 DEF DispatchInv

\* A handler step that leaves the worker with nothing more to do for its run
\* than to acknowledge the message: either the saved row needs no message, or
\* one was published, or the worker was not what drove the run.
LEMMA DispatchOutside ==
  ASSUME TypeOK, TypeOK', DispatchInv, NEW w \in Workers,
         pc'[w] \in {"idle", "ack"},
         UNCHANGED <<reqPc, callPc>>,
         \A v \in Workers : conn'[v],
         \A v \in Workers \ {w} : /\ pc'[v] = pc[v]
                                  /\ run'[v] = run[v]
                                  /\ snap'[v] = snap[v]
                                  /\ conn'[v] = conn[v],
         \A r \in Requests :
            \/ wf'[r].status \notin {"PENDING", "RUNNING"}
            \/ queue'[r] > 0
            \/ /\ wf'[r] = wf[r]
               /\ queue'[r] >= queue[r]
               /\ run[w] # r \/ pc[w] \in {"idle", "ack"}
  PROVE  DispatchInv'
  <1>1. ASSUME NEW r \in Requests, wf'[r].status \in {"PENDING", "RUNNING"}
        PROVE  Driven(r)'
    <2>1. CASE queue'[r] > 0
      BY <2>1 DEF Driven
    <2>2. CASE ~(queue'[r] > 0)
      <3>1. /\ wf'[r] = wf[r]
            /\ queue'[r] >= queue[r]
            /\ run[w] # r \/ pc[w] \in {"idle", "ack"}
        BY <1>1, <2>2
      <3>2. Driven(r)
        BY <1>1, <3>1 DEF DispatchInv, NoLostDispatch
      <3>3. queue'[r] \in Nat
        BY DEF TypeOK
      <3>4. QED BY <3>1, <3>2, <3>3, DrivenByOthers
    <2>3. QED BY <2>1, <2>2
  <1>2. NoLostDispatch'
    BY <1>1 DEF NoLostDispatch
  <1>3. ASSUME NEW v \in Workers
        PROVE  /\ pc'[v] = "pause" => snap'[v].status = "AWAITING_APPROVAL"
               /\ pc'[v] = "finish" => snap'[v].status \in Terminal
    <2>1. CASE v = w
      BY <2>1
    <2>2. CASE v # w
      BY <2>2 DEF DispatchInv
    <2>3. QED BY <2>1, <2>2
  <1>4. QED BY <1>2, <1>3 DEF DispatchInv

LEMMA DispatchWorker ==
  ASSUME TypeOK, TypeOK', DispatchInv, NEW w \in Workers, WorkerStep(w)
  PROVE  DispatchInv'
  <1> USE DEF dbVars, apiVars, Goto, Elsewhere
  <1>run. run[w] \in Requests /\ conn[w]
    BY DEF TypeOK, DispatchInv
  <1>save. ASSUME Save(w) PROVE \A r \in Requests : r # run[w] => wf'[r] = wf[r]
    BY <1>save DEF Save, TypeOK
  <1>1. ASSUME NEW q \in Requests, Receive(w, q) PROVE DispatchInv'
    <2>1. /\ UNCHANGED <<wf, reqPc, callPc, conn>>
          /\ pc[w] = "idle" /\ queue[q] > 0
          /\ run' = [run EXCEPT ![w] = q]
          /\ queue' = [queue EXCEPT ![q] = @ - 1]
      BY <1>1 DEF Receive
    <2>2. \A v \in Workers \ {w} :
            pc'[v] = pc[v] /\ run'[v] = run[v] /\ snap'[v] = snap[v] /\ conn'[v] = conn[v]
      BY <1>1, <2>1 DEF Receive, TypeOK
    <2>3. /\ wf[q].status \in Terminal => pc'[w] = "ack"
          /\ wf[q].status \notin Terminal => pc'[w] \in {"start", "claim"}
      BY <1>1 DEF Receive, TypeOK, Terminal
    <2>4. ASSUME NEW r \in Requests, wf'[r].status \in {"PENDING", "RUNNING"}
          PROVE  Driven(r)'
      <3>1. CASE r = q
        <4>1. pc'[w] \in {"start", "claim"}
          BY <2>1, <2>3, <2>4, <3>1 DEF Terminal
        <4>2. run'[w] = r /\ conn'[w]
          BY <2>1, <3>1, <1>run DEF TypeOK
        <4>3. QED BY <4>1, <4>2, DrivenBySelf
      <3>2. CASE r # q
        <4>1. Driven(r)
          BY <2>1, <2>4 DEF DispatchInv, NoLostDispatch
        <4>2. queue'[r] = queue[r] /\ queue'[r] \in Nat
          BY <2>1, <3>2 DEF TypeOK
        <4>3. queue'[r] >= queue[r]
          BY <4>2
        <4>4. QED BY <2>1, <2>2, <4>1, <4>2, <4>3, DrivenByOthers
      <3>3. QED BY <3>1, <3>2
    <2>5. NoLostDispatch'
      BY <2>4 DEF NoLostDispatch
    <2>6. pc'[w] \notin {"pause", "finish"}
      BY <2>3
    <2>7. \A v \in Workers : conn'[v]
      BY <2>1 DEF DispatchInv
    <2>8. ASSUME NEW v \in Workers
          PROVE  /\ pc'[v] = "pause" => snap'[v].status = "AWAITING_APPROVAL"
                 /\ pc'[v] = "finish" => snap'[v].status \in Terminal
      BY <2>2, <2>6 DEF DispatchInv
    <2>9. QED BY <2>5, <2>7, <2>8 DEF DispatchInv
  <1>2. ASSUME MarkRunning(w) \/ Advance(w) PROVE DispatchInv'
    <2>1. PICK l \in {"claim", "redispatch"} : pc' = [pc EXCEPT ![w] = l]
      BY <1>2 DEF MarkRunning, Advance
    <2>2. l \in WorkerPc \ {"idle", "ack"}
      BY DEF WorkerPc
    <2>3. /\ UNCHANGED <<run, conn, queue, reqPc, callPc, snap>>
          /\ pc[w] # "idle"
          /\ Save(w)
      BY <1>2 DEF MarkRunning, Advance
    <2>4. QED BY <1>save, <2>1, <2>2, <2>3, DispatchInside
  <1>3. ASSUME ClaimSelect(w) \/ CreatePullRequest(w) \/ RunSucceeds(w) \/ RunAwaits(w)
                 \/ RunFails(w)
        PROVE DispatchInv'
    <2>1. PICK l \in {"locked", "run", "complete", "revert", "fail"} : pc' = [pc EXCEPT ![w] = l]
      BY <1>3 DEF ClaimSelect, CreatePullRequest, RunSucceeds, RunAwaits, RunFails
    <2>2. l \in WorkerPc \ {"idle", "ack"}
      BY DEF WorkerPc
    <2>3. UNCHANGED <<wf, run, conn, queue, reqPc, callPc, snap>> /\ pc[w] # "idle"
      BY <1>3 DEF ClaimSelect, CreatePullRequest, RunSucceeds, RunAwaits, RunFails
    <2>4. QED BY <2>1, <2>2, <2>3, DispatchInside
  <1>4. ASSUME ClaimNothing(w) \/ ClaimCommit(w) \/ RevertStep(w) \/ FailStep(w)
                 \/ CompleteStep(w)
        PROVE  DispatchInv'
    <2>1. PICK l \in {"run", "pause", "finish", "advance"} :
            /\ pc' = [pc EXCEPT ![w] = l]
            /\ l = "pause" => snap' = [snap EXCEPT ![w].status = "AWAITING_APPROVAL"]
            /\ l = "finish" => \E s \in Terminal : snap' = [snap EXCEPT ![w].status = s]
      BY <1>4 DEF ClaimNothing, ClaimCommit, RevertStep, FailStep, CompleteStep, Terminal
    <2>2. l \in WorkerPc \ {"idle", "ack"}
      BY DEF WorkerPc
    <2>3. /\ UNCHANGED <<wf, run, conn, queue, reqPc, callPc>>
          /\ pc[w] # "idle"
      BY <1>4 DEF ClaimNothing, ClaimCommit, RevertStep, FailStep, CompleteStep
    <2>4. \A v \in Workers \ {w} : snap'[v] = snap[v]
      BY <1>4 DEF ClaimNothing, ClaimCommit, RevertStep, FailStep, CompleteStep, TypeOK
    <2>5. snap \in [Workers -> Row] /\ snap[w] \in Row
      BY DEF TypeOK
    <2>6. \A s : [snap[w] EXCEPT !.status = s].status = s
      BY <2>5 DEF Row
    <2>7. \A s : snap' = [snap EXCEPT ![w].status = s] => snap'[w].status = s
      BY <2>5, <2>6
    <2>8. /\ l = "pause" => snap'[w].status = "AWAITING_APPROVAL"
          /\ l = "finish" => snap'[w].status \in Terminal
      BY <2>1, <2>7
    <2>9. QED BY <2>1, <2>2, <2>3, <2>4, <2>8, DispatchInside
  <1>5. ASSUME Pause(w) \/ Finish(w) PROVE DispatchInv'
    <2>1. /\ pc' = [pc EXCEPT ![w] = "ack"]
          /\ UNCHANGED <<queue, run, snap, conn, reqPc, callPc>>
          /\ Save(w)
          /\ pc[w] \in {"pause", "finish"}
      BY <1>5 DEF Pause, Finish
    <2>2. wf'[run[w]].status \notin {"PENDING", "RUNNING"}
      <3>1. snap[w].status \in Terminal \cup {"AWAITING_APPROVAL"}
        BY <2>1 DEF DispatchInv
      <3>2. wf'[run[w]] = snap[w]
        BY <2>1, <1>run DEF Save, TypeOK
      <3>3. QED BY <3>1, <3>2 DEF Terminal
    <2>3. \A r \in Requests : \/ wf'[r].status \notin {"PENDING", "RUNNING"}
                              \/ wf'[r] = wf[r] /\ run[w] # r
      BY <2>1, <2>2, <1>save
    <2>4. \A r \in Requests : queue'[r] >= queue[r]
      BY <2>1 DEF TypeOK
    <2>5. pc'[w] = "ack" /\ \A v \in Workers \ {w} : pc'[v] = pc[v]
      BY <2>1 DEF TypeOK
    <2>6. \A v \in Workers : conn'[v]
      BY <2>1 DEF DispatchInv
    <2>7. QED BY <2>1, <2>3, <2>4, <2>5, <2>6, DispatchOutside
  <1>6. CASE Redispatch(w)
    <2>1. /\ pc' = [pc EXCEPT ![w] = "ack"]
          /\ UNCHANGED <<wf, run, snap, conn, reqPc, callPc>>
          /\ queue' = [queue EXCEPT ![run[w]] = @ + 1]
      BY <1>6 DEF Redispatch, Publish
    <2>2. \A r \in Requests : \/ queue'[r] > 0
                              \/ queue'[r] >= queue[r] /\ run[w] # r
      BY <2>1, <1>run DEF TypeOK
    <2>3. pc'[w] = "ack" /\ \A v \in Workers \ {w} : pc'[v] = pc[v]
      BY <2>1 DEF TypeOK
    <2>4. \A v \in Workers : conn'[v]
      BY <2>1 DEF DispatchInv
    <2>5. QED BY <2>1, <2>2, <2>3, <2>4, DispatchOutside
  <1>7. CASE RedispatchFails(w)
    BY <1>7, <1>run DEF RedispatchFails
  <1>8. CASE Ack(w)
    <2>1. /\ UNCHANGED <<wf, queue, conn, reqPc, callPc>>
          /\ pc[w] = "ack" /\ EndHandler(w)
      BY <1>8 DEF Ack
    <2>2. /\ pc'[w] = "idle"
          /\ \A v \in Workers \ {w} : pc'[v] = pc[v] /\ run'[v] = run[v] /\ snap'[v] = snap[v]
      BY <2>1 DEF EndHandler, TypeOK
    <2>3. \A r \in Requests : queue'[r] >= queue[r]
      BY <2>1 DEF TypeOK
    <2>4. \A v \in Workers : conn'[v]
      BY <2>1 DEF DispatchInv
    <2>5. QED BY <2>1, <2>2, <2>3, <2>4, DispatchOutside
  <1>9. QED
    BY <1>1, <1>2, <1>3, <1>4, <1>5, <1>6, <1>7, <1>8 DEF WorkerStep, HandlerStep

\* An API call or a reviewer moves: no worker changes, no message disappears,
\* and a call that stops being about to publish has published.
LEMMA DispatchApi ==
  ASSUME TypeOK, TypeOK', DispatchInv, MaxApiFaults = 0,
         \/ \E r \in Requests : RequestStep(r) \/ Merge(r) \/ RequestFails(r)
         \/ \E c \in Callers : CallStep(c) \/ ResumeFails(c)
  PROVE  DispatchInv'
  <1> USE DEF dbVars, apiVars, localVars, faultVars
  <1>0. apiFaults \in Nat
    BY DEF TypeOK
  <1>1. ASSUME UNCHANGED <<pc, snap, conn>>, NoLostDispatch' PROVE DispatchInv'
    BY <1>1 DEF DispatchInv
  <1>2. ASSUME UNCHANGED <<wf, queue, pc, run, conn>>,
               \A r \in Requests : reqPc[r] = "dispatch" => reqPc'[r] = "dispatch",
               \A c \in Callers : callPc[c] = "dispatch" => callPc'[c] = "dispatch"
        PROVE  NoLostDispatch'
    <2> SUFFICES ASSUME NEW r \in Requests, wf[r].status \in {"PENDING", "RUNNING"}
                 PROVE  Driven(r)'
      BY <1>2 DEF NoLostDispatch
    <2>1. Driven(r)
      BY DEF DispatchInv, NoLostDispatch
    <2>2. QED BY <1>2, <2>1 DEF Driven
  <1>3. ASSUME NEW q \in Requests, CheckKey(q) PROVE DispatchInv'
    <2>1. \A r \in Requests : reqPc[r] = "dispatch" => reqPc'[r] = "dispatch"
      BY <1>3 DEF CheckKey, TypeOK
    <2>2. QED BY <1>1, <1>2, <1>3, <2>1 DEF CheckKey
  <1>4. ASSUME NEW q \in Requests, Merge(q) PROVE DispatchInv'
    BY <1>1, <1>2, <1>4 DEF Merge
  <1>5. ASSUME NEW c \in Callers, ResumeLoad(c) PROVE DispatchInv'
    <2>1. \A d \in Callers : callPc[d] = "dispatch" => callPc'[d] = "dispatch"
      BY <1>5 DEF ResumeLoad, TypeOK
    <2>2. QED BY <1>1, <1>2, <1>5, <2>1 DEF ResumeLoad
  <1>6. ASSUME NEW q \in Requests, CreateRun(q) PROVE DispatchInv'
    <2>1. UNCHANGED <<queue, pc, run, conn, snap, callPc>>
      BY <1>6 DEF CreateRun
    <2>2. \A r \in Requests : reqPc[r] = "dispatch" => reqPc'[r] = "dispatch"
      BY <1>6 DEF CreateRun, TypeOK
    <2>3. \A r \in Requests : wf'[r] = wf[r] \/ reqPc'[r] = "dispatch"
      BY <1>6 DEF CreateRun, TypeOK
    <2>4. ASSUME NEW r \in Requests, wf'[r].status \in {"PENDING", "RUNNING"}
          PROVE  Driven(r)'
      <3>1. CASE reqPc'[r] = "dispatch"
        BY <3>1 DEF Driven
      <3>2. CASE wf'[r] = wf[r]
        <4>1. Driven(r)
          BY <2>4, <3>2 DEF DispatchInv, NoLostDispatch
        <4>2. QED BY <2>1, <2>2, <4>1 DEF Driven
      <3>3. QED BY <2>3, <3>1, <3>2
    <2>5. QED BY <1>1, <2>1, <2>4 DEF NoLostDispatch
  <1>7. ASSUME NEW c \in Callers, ResumeUpdate(c) PROVE DispatchInv'
    <2>1. UNCHANGED <<queue, pc, run, conn, snap, reqPc>>
      BY <1>7 DEF ResumeUpdate
    <2>2. /\ callPc'[c] = "dispatch"
          /\ \A d \in Callers : callPc[d] = "dispatch" => callPc'[d] = "dispatch"
      BY <1>7 DEF ResumeUpdate, TypeOK
    <2>3. \A r \in Requests : wf'[r] = wf[r] \/ r = Target[c]
      BY <1>7 DEF ResumeUpdate, TypeOK
    <2>4. ASSUME NEW r \in Requests, wf'[r].status \in {"PENDING", "RUNNING"}
          PROVE  Driven(r)'
      <3>1. CASE r = Target[c]
        BY <2>2, <3>1 DEF Driven
      <3>2. CASE wf'[r] = wf[r]
        <4>1. Driven(r)
          BY <2>4, <3>2 DEF DispatchInv, NoLostDispatch
        <4>2. QED BY <2>1, <2>2, <4>1 DEF Driven
      <3>3. QED BY <2>3, <3>1, <3>2
    <2>5. QED BY <1>1, <2>1, <2>4 DEF NoLostDispatch
  <1>8. ASSUME NEW q \in Requests, Publish(q), UNCHANGED <<wf, pc, run, conn, snap>>,
               \A r \in Requests \ {q} : reqPc[r] = "dispatch" => reqPc'[r] = "dispatch",
               \A d \in Callers : callPc[d] = "dispatch" =>
                                     callPc'[d] = "dispatch" \/ Target[d] = q
        PROVE  DispatchInv'
    <2>1. queue'[q] > 0 /\ \A r \in Requests \ {q} : queue'[r] = queue[r]
      BY <1>8 DEF Publish, TypeOK
    <2>2. ASSUME NEW r \in Requests, wf'[r].status \in {"PENDING", "RUNNING"}
          PROVE  Driven(r)'
      <3>1. CASE r = q
        BY <2>1, <3>1 DEF Driven
      <3>2. CASE r # q
        <4>1. Driven(r)
          BY <1>8, <2>2 DEF DispatchInv, NoLostDispatch
        <4>2. QED BY <1>8, <2>1, <3>2, <4>1 DEF Driven
      <3>3. QED BY <3>1, <3>2
    <2>3. QED BY <1>1, <1>8, <2>2 DEF NoLostDispatch
  <1>9. ASSUME NEW q \in Requests, DispatchRun(q) PROVE DispatchInv'
    <2>1. \A r \in Requests \ {q} : reqPc[r] = "dispatch" => reqPc'[r] = "dispatch"
      BY <1>9 DEF DispatchRun, TypeOK
    <2>2. QED BY <1>8, <1>9, <2>1 DEF DispatchRun
  <1>10. ASSUME NEW c \in Callers, ResumeDispatch(c) PROVE DispatchInv'
    <2>1. Target[c] \in Requests
      BY ConstantsAssumption
    <2>2. \A d \in Callers : callPc[d] = "dispatch" =>
                               callPc'[d] = "dispatch" \/ Target[d] = Target[c]
      BY <1>10 DEF ResumeDispatch, TypeOK
    <2>3. QED BY <1>8, <1>10, <2>1, <2>2 DEF ResumeDispatch
  <1>11. ASSUME NEW q \in Requests, RequestFails(q) PROVE FALSE
    BY <1>0, <1>11 DEF RequestFails
  <1>12. ASSUME NEW c \in Callers, ResumeFails(c) PROVE FALSE
    BY <1>0, <1>12 DEF ResumeFails
  <1>13. QED
    BY <1>3, <1>4, <1>5, <1>6, <1>7, <1>9, <1>10, <1>11, <1>12 DEF RequestStep, CallStep

\* A crash or an error in the handler puts the message back.
LEMMA DispatchFault ==
  ASSUME TypeOK, TypeOK', DispatchInv, MaxLostConns = 0, NEW w \in Workers,
         HandlerError(w) \/ Crash(w) \/ LoseConnection(w)
  PROVE  DispatchInv'
  <1> USE DEF dbVars, apiVars
  <1>0. lostConns \in Nat /\ conn[w] /\ run[w] \in Requests
    BY DEF TypeOK, DispatchInv
  <1>1. ~LoseConnection(w)
    BY <1>0 DEF LoseConnection
  <1>2. /\ UNCHANGED <<wf, reqPc, callPc>>
        /\ Requeue(w) /\ EndHandler(w)
        /\ pc[w] # "idle"
    BY <1>0, <1>1 DEF HandlerError, Crash
  <1>3. UNCHANGED conn \/ conn' = [conn EXCEPT ![w] = TRUE]
    BY <1>1 DEF HandlerError, Crash
  <1>4. \A v \in Workers : conn'[v]
    BY <1>3 DEF DispatchInv, TypeOK
  <1>5. \A v \in Workers \ {w} : /\ pc'[v] = pc[v]
                                 /\ run'[v] = run[v]
                                 /\ snap'[v] = snap[v]
                                 /\ conn'[v] = conn[v]
    BY <1>2, <1>3 DEF EndHandler, TypeOK
  <1>6. pc'[w] = "idle"
    BY <1>2 DEF EndHandler, TypeOK
  <1>7. \A r \in Requests : queue'[r] > 0 \/ (queue'[r] >= queue[r] /\ run[w] # r)
    BY <1>0, <1>2 DEF Requeue, TypeOK
  <1>8. QED BY <1>2, <1>4, <1>5, <1>6, <1>7, DispatchOutside

\* When API calls do not die half-way and broker connections hold, no run that
\* is PENDING or RUNNING is ever left without something to drive it, however
\* many workers there are and however often they crash.
THEOREM NoDispatchIsLost ==
  ASSUME MaxApiFaults = 0, MaxLostConns = 0
  PROVE  Spec => []NoLostDispatch
  <1>1. Init => TypeOK /\ DispatchInv
    BY TypeInit, DispatchInit
  <1>2. TypeOK /\ DispatchInv /\ [Next]_vars => (TypeOK /\ DispatchInv)'
    <2> SUFFICES ASSUME TypeOK, DispatchInv, [Next]_vars PROVE (TypeOK /\ DispatchInv)'
      OBVIOUS
    <2>1. TypeOK'
      BY TypeNext
    <2>2. CASE UNCHANGED vars
      BY <2>1, <2>2 DEF vars, DispatchInv, NoLostDispatch, Driven
    <2>3. CASE Next
      BY <2>1, <2>3, DispatchApi, DispatchWorker, DispatchFault DEF Next, Fault
    <2>4. QED BY <2>2, <2>3
  <1>3. DispatchInv => NoLostDispatch
    BY DEF DispatchInv
  <1>4. QED BY <1>1, <1>2, <1>3, PTL DEF Spec

-----------------------------------------------------------------------------
(* One run per idempotency key                                             *)

LEMMA KeyInit == Init => KeyInv
  <1> SUFFICES ASSUME Init PROVE KeyInv
    OBVIOUS
  <1>1. \A r \in Requests : ~Exists(r) /\ queue[r] = 0 /\ reqPc[r] = "ready"
    BY DEF Init, Exists, NoRow
  <1>2. OneRunPerKey
    BY <1>1 DEF OneRunPerKey
  <1>3. QED BY <1>1, <1>2 DEF Init, KeyInv

\* A step that makes no row appear or disappear keeps the key property.
LEMMA KeyFrame ==
  ASSUME KeyInv, \A r \in Requests : Exists(r)' <=> Exists(r)
  PROVE  OneRunPerKey'
  BY DEF KeyInv, OneRunPerKey

\* A step of worker w inside executeNext, or its end.
LEMMA KeyWorker ==
  ASSUME TypeOK, KeyInv, NEW w \in Workers, WorkerStep(w)
  PROVE  KeyInv'
  <1> USE DEF dbVars, apiVars, Goto, Elsewhere
  <1>run. run[w] \in Requests /\ snap[w] \in Row
    BY DEF TypeOK
  <1>1. ASSUME \A r \in Requests : Exists(r)' <=> Exists(r),
               \A r \in Requests : queue'[r] > 0 => queue[r] > 0 \/ (run[w] = r /\ pc[w] # "idle"),
               UNCHANGED apiVars,
               run'[w] \in Requests,
               pc'[w] # "idle" => Exists(run'[w]) /\ snap'[w].status # "NONE",
               \A v \in Workers \ {w} : pc'[v] = pc[v] /\ run'[v] = run[v] /\ snap'[v] = snap[v]
        PROVE  KeyInv'
    <2>1. OneRunPerKey'
      BY <1>1, KeyFrame
    <2>2. \A r \in Requests : (queue[r] > 0 \/ reqPc[r] = "dispatch" => Exists(r))'
      BY <1>1 DEF KeyInv
    <2>3. ASSUME NEW v \in Workers, pc'[v] # "idle"
          PROVE  Exists(run[v])' /\ snap'[v].status # "NONE"
      <3>1. CASE v = w
        BY <1>1, <2>3, <3>1 DEF Exists
      <3>2. CASE v # w
        <4>1. run[v] \in Requests /\ Exists(run[v]) /\ snap[v].status # "NONE"
          BY <1>1, <2>3, <3>2 DEF KeyInv, TypeOK
        <4>2. run'[v] = run[v] /\ snap'[v] = snap[v]
          BY <1>1, <3>2
        <4>3. wf'[run[v]].status # "NONE"
          BY <1>1, <4>1 DEF Exists
        <4>4. QED BY <4>1, <4>2, <4>3 DEF Exists
      <3>3. QED BY <3>1, <3>2
    <2>4. ASSUME NEW c \in Callers, callPc'[c] \in {"update", "dispatch"}
          PROVE  Exists(Target[c])' /\ callSnap'[c].status # "NONE"
      BY <1>1, <2>4, ConstantsAssumption DEF KeyInv
    <2>5. QED BY <2>1, <2>2, <2>3, <2>4 DEF KeyInv
  <1>2. ASSUME Save(w), pc[w] # "idle" PROVE \A r \in Requests : Exists(r)' <=> Exists(r)
    <2>1. \A r \in Requests : r # run[w] => wf'[r] = wf[r]
      BY <1>2 DEF Save, TypeOK
    <2>2. wf'[run[w]] = snap[w] /\ snap[w].status # "NONE" /\ Exists(run[w])
      BY <1>2, <1>run DEF Save, TypeOK, KeyInv
    <2>3. QED BY <2>1, <2>2 DEF Exists
  <1>3. ASSUME NEW q \in Requests, Receive(w, q) PROVE KeyInv'
    <2>1. /\ UNCHANGED <<wf, apiVars>>
          /\ queue[q] > 0
          /\ queue' = [queue EXCEPT ![q] = @ - 1]
          /\ run' = [run EXCEPT ![w] = q]
      BY <1>3 DEF Receive
    <2>2. \A r \in Requests : (Exists(r)' <=> Exists(r)) /\ (queue'[r] > 0 => queue[r] > 0)
      BY <2>1 DEF Exists, TypeOK
    <2>3. run'[w] = q /\ Exists(q)
      BY <2>1 DEF TypeOK, KeyInv
    <2>4. snap'[w].status # "NONE"
      <3>1. wf[q] \in Row /\ wf[q].status # "NONE" /\ snap \in [Workers -> Row]
        BY <2>3 DEF TypeOK, Exists
      <3>2. [wf[q] EXCEPT !.status = "RUNNING"].status = "RUNNING"
        BY <3>1 DEF Row
      <3>3. snap'[w] = wf[q] \/ snap'[w] = [wf[q] EXCEPT !.status = "RUNNING"]
        BY <1>3, <3>1 DEF Receive
      <3>4. QED BY <3>1, <3>2, <3>3
    <2>5. \A v \in Workers \ {w} : pc'[v] = pc[v] /\ run'[v] = run[v] /\ snap'[v] = snap[v]
      BY <1>3 DEF Receive, TypeOK
    <2>6. Exists(run'[w])
      BY <2>3
    <2>7. QED BY <1>1, <2>1, <2>2, <2>3, <2>4, <2>5, <2>6
  <1>4. ASSUME MarkRunning(w) \/ Pause(w) \/ Finish(w) \/ Advance(w) PROVE KeyInv'
    <2>1. /\ UNCHANGED <<queue, run, snap, apiVars>>
          /\ pc[w] # "idle" /\ Save(w)
          /\ \E l \in WorkerPc : pc' = [pc EXCEPT ![w] = l]
      BY <1>4 DEF MarkRunning, Pause, Finish, Advance, WorkerPc
    <2>2. \A v \in Workers \ {w} : pc'[v] = pc[v]
      BY <2>1 DEF TypeOK
    <2>3. Exists(run'[w]) /\ snap'[w].status # "NONE"
      BY <2>1 DEF KeyInv
    <2>4. QED BY <1>1, <1>2, <1>run, <2>1, <2>2, <2>3
  <1>5. ASSUME ClaimSelect(w) \/ ClaimNothing(w) \/ ClaimCommit(w)
                 \/ CreatePullRequest(w) \/ RunSucceeds(w)
                 \/ RunAwaits(w) \/ RunFails(w) \/ RevertStep(w) \/ FailStep(w)
                 \/ CompleteStep(w) \/ Redispatch(w)
        PROVE KeyInv'
    <2>1. UNCHANGED <<wf, run, apiVars>> /\ pc[w] # "idle"
      BY <1>5 DEF ClaimSelect, ClaimNothing, ClaimCommit, CreatePullRequest, RunSucceeds,
                  RunAwaits, RunFails,
                  RevertStep, FailStep, CompleteStep, Redispatch
    <2>2. \E l \in WorkerPc : pc' = [pc EXCEPT ![w] = l]
      BY <1>5 DEF ClaimSelect, ClaimNothing, ClaimCommit, CreatePullRequest, RunSucceeds,
                  RunAwaits, RunFails,
                  RevertStep, FailStep, CompleteStep, Redispatch, WorkerPc
    <2>3. UNCHANGED queue \/ queue' = [queue EXCEPT ![run[w]] = @ + 1]
      BY <1>5 DEF ClaimSelect, ClaimNothing, ClaimCommit, CreatePullRequest, RunSucceeds,
                  RunAwaits, RunFails,
                  RevertStep, FailStep, CompleteStep, Redispatch, Publish
    <2>4. \/ UNCHANGED snap
          \/ \E s \in Status : snap' = [snap EXCEPT ![w].status = s]
          \/ \E n \in Nat : snap' = [snap EXCEPT ![w].currentStep = n]
      <3>1. seq[w] + 1 \in Nat
        <4>1. seq[w] \in Steps
          BY DEF TypeOK
        <4>2. QED BY <4>1, ConstantsAssumption DEF Steps
      <3>2. QED
        BY <1>5, <3>1
           DEF ClaimSelect, ClaimNothing, ClaimCommit, CreatePullRequest, RunSucceeds,
                  RunAwaits, RunFails,
               RevertStep, FailStep, CompleteStep, Redispatch, Status, Terminal
    <2>5. Exists(run[w]) /\ snap[w].status # "NONE"
      BY <2>1 DEF KeyInv
    <2>6. snap'[w].status # "NONE"
      <3>1. snap \in [Workers -> Row] /\ snap[w] \in Row
        BY DEF TypeOK
      <3>2. \A s : [snap[w] EXCEPT !.status = s].status = s
        BY <3>1 DEF Row
      <3>3. \A n : [snap[w] EXCEPT !.currentStep = n].status = snap[w].status
        BY <3>1 DEF Row
      <3>4. "NONE" \notin Status
        BY DEF Status, Terminal
      <3>5. \/ snap'[w] = snap[w]
            \/ \E s \in Status : snap'[w] = [snap[w] EXCEPT !.status = s]
            \/ \E n \in Nat : snap'[w] = [snap[w] EXCEPT !.currentStep = n]
        BY <2>4, <3>1
      <3>6. QED BY <2>5, <3>2, <3>3, <3>4, <3>5
    <2>7. \A v \in Workers \ {w} : pc'[v] = pc[v] /\ run'[v] = run[v] /\ snap'[v] = snap[v]
      BY <2>1, <2>2, <2>4 DEF TypeOK
    <2>8. \A r \in Requests : queue'[r] > 0 => queue[r] > 0 \/ (run[w] = r /\ pc[w] # "idle")
      BY <2>1, <2>3 DEF TypeOK
    <2>9. \A r \in Requests : Exists(r)' <=> Exists(r)
      BY <2>1 DEF Exists
    <2>10. Exists(run'[w]) /\ run'[w] \in Requests
      BY <1>run, <2>1, <2>5
    <2>11. QED BY <1>1, <2>1, <2>6, <2>7, <2>8, <2>9, <2>10
  <1>6. ASSUME RedispatchFails(w) \/ Ack(w) PROVE KeyInv'
    <2>1. UNCHANGED <<wf, queue, apiVars>> /\ EndHandler(w)
      BY <1>6 DEF RedispatchFails, Ack
    <2>2. /\ pc'[w] = "idle" /\ run'[w] \in Requests
          /\ \A v \in Workers \ {w} : pc'[v] = pc[v] /\ run'[v] = run[v] /\ snap'[v] = snap[v]
      BY <2>1, AnyRunType DEF EndHandler, TypeOK
    <2>3. \A r \in Requests : Exists(r)' <=> Exists(r)
      BY <2>1 DEF Exists
    <2>4. QED BY <1>1, <2>1, <2>2, <2>3
  <1>7. QED
    BY <1>3, <1>4, <1>5, <1>6 DEF WorkerStep, HandlerStep

\* Only Create makes a row exist, and only when no row has its key.
LEMMA KeyApi ==
  ASSUME TypeOK, KeyInv,
         \/ \E r \in Requests : RequestStep(r) \/ Merge(r) \/ RequestFails(r)
         \/ \E c \in Callers : CallStep(c) \/ ResumeFails(c)
  PROVE  KeyInv'
  <1> USE DEF dbVars, apiVars, localVars
  <1>1. ASSUME \A r \in Requests : Exists(r) => Exists(r)',
               OneRunPerKey',
               UNCHANGED <<pc, run, snap>>,
               \A r \in Requests : queue'[r] > 0 \/ reqPc'[r] = "dispatch" => Exists(r)',
               \A c \in Callers : callPc'[c] \in {"update", "dispatch"} =>
                                    Exists(Target[c]) /\ callSnap'[c].status # "NONE"
        PROVE  KeyInv'
    <2>1. ASSUME NEW w \in Workers, pc'[w] # "idle"
          PROVE  Exists(run[w])' /\ snap'[w].status # "NONE"
      <3>1. run[w] \in Requests /\ Exists(run[w]) /\ snap[w].status # "NONE"
        BY <1>1, <2>1 DEF KeyInv, TypeOK
      <3>2. wf'[run[w]].status # "NONE"
        BY <1>1, <3>1 DEF Exists
      <3>3. QED BY <1>1, <3>1, <3>2 DEF Exists
    <2>2. ASSUME NEW c \in Callers, callPc'[c] \in {"update", "dispatch"}
          PROVE  Exists(Target[c])' /\ callSnap'[c].status # "NONE"
      BY <1>1, <2>2, ConstantsAssumption
    <2>3. QED BY <1>1, <2>1, <2>2 DEF KeyInv
  <1>2. ASSUME UNCHANGED wf PROVE OneRunPerKey' /\ \A r \in Requests : Exists(r)' <=> Exists(r)
    <2>1. \A r \in Requests : Exists(r)' <=> Exists(r)
      BY <1>2 DEF Exists
    <2>2. QED BY <2>1, KeyFrame
  <1>3. ASSUME NEW q \in Requests, CheckKey(q) \/ Merge(q) \/ RequestFails(q) PROVE KeyInv'
    <2>1. UNCHANGED <<wf, queue, pc, run, snap, callPc, callSnap>>
      BY <1>3 DEF CheckKey, Merge, RequestFails
    <2>2. \A r \in Requests : reqPc'[r] = "dispatch" => reqPc[r] = "dispatch"
      BY <1>3 DEF CheckKey, Merge, RequestFails, TypeOK
    <2>3. \A r \in Requests : queue'[r] > 0 \/ reqPc'[r] = "dispatch" => Exists(r)'
      BY <1>2, <2>1, <2>2 DEF KeyInv
    <2>4. QED BY <1>1, <1>2, <2>1, <2>3 DEF KeyInv
  <1>4. ASSUME NEW q \in Requests, CreateRun(q) PROVE KeyInv'
    <2>1. UNCHANGED <<queue, pc, run, snap, callPc, callSnap>>
      BY <1>4 DEF CreateRun
    <2>2. CASE KeyTaken(q)
      <3>1. UNCHANGED wf /\ reqPc' = [reqPc EXCEPT ![q] = "done"]
        BY <1>4, <2>2 DEF CreateRun
      <3>2. \A r \in Requests : queue'[r] > 0 \/ reqPc'[r] = "dispatch" => Exists(r)'
        BY <1>2, <2>1, <3>1 DEF KeyInv, TypeOK
      <3>3. QED BY <1>1, <1>2, <2>1, <3>1, <3>2 DEF KeyInv
    <2>3. CASE ~KeyTaken(q)
      <3>1. /\ wf' = [wf EXCEPT ![q].status = "PENDING"]
            /\ reqPc' = [reqPc EXCEPT ![q] = "dispatch"]
        BY <1>4, <2>3 DEF CreateRun
      <3>2. wf[q] \in Row /\ wf \in [Requests -> Row]
        BY DEF TypeOK
      <3>3. [wf[q] EXCEPT !.status = "PENDING"].status = "PENDING"
        BY <3>2 DEF Row
      <3>4. /\ Exists(q)'
            /\ \A r \in Requests \ {q} : Exists(r)' <=> Exists(r)
        BY <3>1, <3>2, <3>3 DEF Exists
      <3>5. OneRunPerKey'
        BY <2>3, <3>4 DEF KeyInv, OneRunPerKey, KeyTaken
      <3>6. \A r \in Requests : queue'[r] > 0 \/ reqPc'[r] = "dispatch" => Exists(r)'
        BY <2>1, <3>1, <3>4 DEF KeyInv, TypeOK
      <3>7. \A r \in Requests : Exists(r) => Exists(r)'
        BY <3>4
      <3>8. QED BY <1>1, <2>1, <3>5, <3>6, <3>7 DEF KeyInv
    <2>4. QED BY <2>2, <2>3
  <1>5. ASSUME NEW q \in Requests, Publish(q), Exists(q),
               UNCHANGED <<wf, pc, run, snap, callSnap>>,
               \A r \in Requests : reqPc'[r] = "dispatch" => reqPc[r] = "dispatch",
               \A c \in Callers : callPc'[c] \in {"update", "dispatch"} =>
                                    callPc[c] \in {"update", "dispatch"}
        PROVE  KeyInv'
    <2>1. \A r \in Requests : queue'[r] > 0 => queue[r] > 0 \/ r = q
      BY <1>5 DEF Publish, TypeOK
    <2>2. \A r \in Requests : queue'[r] > 0 \/ reqPc'[r] = "dispatch" => Exists(r)'
      BY <1>2, <1>5, <2>1 DEF KeyInv
    <2>3. QED BY <1>1, <1>2, <1>5, <2>2 DEF KeyInv
  <1>6. ASSUME NEW q \in Requests, DispatchRun(q) PROVE KeyInv'
    <2>1. Exists(q)
      BY <1>6 DEF DispatchRun, KeyInv
    <2>2. \A r \in Requests : reqPc'[r] = "dispatch" => reqPc[r] = "dispatch"
      BY <1>6 DEF DispatchRun, TypeOK
    <2>3. QED BY <1>5, <1>6, <2>1, <2>2 DEF DispatchRun
  <1>7. ASSUME NEW c \in Callers, ResumeDispatch(c) PROVE KeyInv'
    <2>1. Exists(Target[c]) /\ Target[c] \in Requests
      BY <1>7, ConstantsAssumption DEF ResumeDispatch, KeyInv
    <2>2. \A d \in Callers : callPc'[d] \in {"update", "dispatch"} =>
                               callPc[d] \in {"update", "dispatch"}
      BY <1>7 DEF ResumeDispatch, TypeOK
    <2>3. QED BY <1>5, <1>7, <2>1, <2>2 DEF ResumeDispatch
  <1>8. ASSUME NEW c \in Callers, ResumeFails(c) PROVE KeyInv'
    <2>1. UNCHANGED <<wf, queue, pc, run, snap, reqPc, callSnap>>
      BY <1>8 DEF ResumeFails
    <2>2. \A d \in Callers : callPc'[d] \in {"update", "dispatch"} =>
                               callPc[d] \in {"update", "dispatch"}
      BY <1>8 DEF ResumeFails, TypeOK
    <2>3. \A r \in Requests : queue'[r] > 0 \/ reqPc'[r] = "dispatch" => Exists(r)'
      BY <1>2, <2>1 DEF KeyInv
    <2>4. QED BY <1>1, <1>2, <2>1, <2>2, <2>3 DEF KeyInv
  <1>9. ASSUME NEW c \in Callers, ResumeLoad(c) PROVE KeyInv'
    <2>1. UNCHANGED <<wf, queue, pc, run, snap, reqPc>>
      BY <1>9 DEF ResumeLoad
    <2>2. \A r \in Requests : queue'[r] > 0 \/ reqPc'[r] = "dispatch" => Exists(r)'
      BY <1>2, <2>1 DEF KeyInv
    <2>3. \A d \in Callers \ {c} : callPc'[d] = callPc[d] /\ callSnap'[d] = callSnap[d]
      BY <1>9 DEF ResumeLoad, TypeOK
    <2>4. callPc'[c] \in {"update", "dispatch"} =>
            Exists(Target[c]) /\ callSnap'[c].status # "NONE"
      <3> SUFFICES ASSUME callPc'[c] \in {"update", "dispatch"}
                   PROVE  Exists(Target[c]) /\ callSnap'[c].status # "NONE"
        OBVIOUS
      <3>1. /\ wf[Target[c]].status = "AWAITING_APPROVAL"
            /\ callSnap' = [callSnap EXCEPT ![c] = [wf[Target[c]] EXCEPT !.status = "RUNNING"]]
        BY <1>9 DEF ResumeLoad, TypeOK
      <3>2. wf[Target[c]] \in Row /\ callSnap \in [Callers -> Row]
        BY ConstantsAssumption DEF TypeOK
      <3>3. [wf[Target[c]] EXCEPT !.status = "RUNNING"].status = "RUNNING"
        BY <3>2 DEF Row
      <3>4. QED BY <3>1, <3>2, <3>3 DEF Exists
    <2>5. \A d \in Callers : callPc'[d] \in {"update", "dispatch"} =>
            Exists(Target[d]) /\ callSnap'[d].status # "NONE"
      BY <2>3, <2>4 DEF KeyInv
    <2>6. QED BY <1>1, <1>2, <2>1, <2>2, <2>5
  <1>10. ASSUME NEW c \in Callers, ResumeUpdate(c) PROVE KeyInv'
    <2>1. UNCHANGED <<queue, pc, run, snap, reqPc, callSnap>>
      BY <1>10 DEF ResumeUpdate
    <2>2. Target[c] \in Requests /\ Exists(Target[c]) /\ callSnap[c].status # "NONE"
      BY <1>10, ConstantsAssumption DEF ResumeUpdate, KeyInv
    <2>3. /\ wf'[Target[c]] = callSnap[c]
          /\ \A r \in Requests : r # Target[c] => wf'[r] = wf[r]
      BY <1>10, <2>2 DEF ResumeUpdate, TypeOK
    <2>4. \A r \in Requests : Exists(r)' <=> Exists(r)
      BY <2>2, <2>3 DEF Exists
    <2>5. \A d \in Callers : callPc'[d] \in {"update", "dispatch"} =>
                               callPc[d] \in {"update", "dispatch"}
      BY <1>10 DEF ResumeUpdate, TypeOK
    <2>6. \A r \in Requests : queue'[r] > 0 \/ reqPc'[r] = "dispatch" => Exists(r)'
      BY <2>1, <2>4 DEF KeyInv
    <2>7. OneRunPerKey'
      BY <2>4, KeyFrame
    <2>8. QED BY <1>1, <2>1, <2>4, <2>5, <2>6, <2>7 DEF KeyInv
  <1>11. QED
    BY <1>3, <1>4, <1>6, <1>7, <1>8, <1>9, <1>10 DEF RequestStep, CallStep

\* A message that goes back to the queue names the run of its handler.
LEMMA KeyFault ==
  ASSUME TypeOK, KeyInv, NEW w \in Workers,
         HandlerError(w) \/ Crash(w) \/ LoseConnection(w)
  PROVE  KeyInv'
  <1> USE DEF dbVars, apiVars, localVars
  <1>1. UNCHANGED <<wf, reqPc, callPc, callSnap>> /\ Requeue(w)
    BY DEF HandlerError, Crash, LoseConnection
  <1>2. \A r \in Requests : queue'[r] > 0 => queue[r] > 0 \/ (run[w] = r /\ pc[w] # "idle")
    BY <1>1 DEF Requeue, TypeOK
  <1>3. \A r \in Requests : Exists(r)' <=> Exists(r)
    BY <1>1 DEF Exists
  <1>4. \A r \in Requests : (queue[r] > 0 \/ reqPc[r] = "dispatch" => Exists(r))'
    BY <1>1, <1>2, <1>3 DEF KeyInv
  <1>5. OneRunPerKey'
    BY <1>3, KeyFrame
  <1>6. ASSUME NEW v \in Workers, pc'[v] # "idle"
        PROVE  Exists(run[v])' /\ snap'[v].status # "NONE"
    <2>1. pc'[v] = pc[v] /\ run'[v] = run[v] /\ snap'[v] = snap[v]
      BY <1>6 DEF HandlerError, Crash, LoseConnection, EndHandler, TypeOK
    <2>2. Exists(run[v]) /\ snap[v].status # "NONE"
      BY <1>6, <2>1 DEF KeyInv
    <2>3. QED BY <1>1, <2>1, <2>2 DEF Exists
  <1>7. ASSUME NEW c \in Callers, callPc'[c] \in {"update", "dispatch"}
        PROVE  Exists(Target[c])' /\ callSnap'[c].status # "NONE"
    BY <1>1, <1>7 DEF KeyInv, Exists
  <1>8. QED BY <1>4, <1>5, <1>6, <1>7 DEF KeyInv

\* Concurrent, repeated and failing Enqueue calls with one idempotency key
\* never create two runs, whatever the workers and the resume calls do.
THEOREM KeysAreUnique == Spec => []OneRunPerKey
  <1>1. Init => TypeOK /\ KeyInv
    BY TypeInit, KeyInit
  <1>2. TypeOK /\ KeyInv /\ [Next]_vars => (TypeOK /\ KeyInv)'
    <2> SUFFICES ASSUME TypeOK, KeyInv, [Next]_vars PROVE (TypeOK /\ KeyInv)'
      OBVIOUS
    <2>1. TypeOK'
      BY TypeNext
    <2>2. CASE UNCHANGED vars
      BY <2>1, <2>2 DEF vars, KeyInv, OneRunPerKey, Exists
    <2>3. CASE Next
      BY <2>1, <2>3, KeyApi, KeyWorker, KeyFault DEF Next, Fault
    <2>4. QED BY <2>2, <2>3
  <1>3. KeyInv => OneRunPerKey
    BY DEF KeyInv
  <1>4. QED BY <1>1, <1>2, <1>3, PTL DEF Spec

=============================================================================
