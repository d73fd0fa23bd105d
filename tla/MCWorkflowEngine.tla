-------------------------- MODULE MCWorkflowEngine --------------------------
(***************************************************************************)
(* Instances of WorkflowEngine for TLC, and its comparison with the        *)
(* abstract SequentialWorkflow.                                            *)
(***************************************************************************)
EXTENDS EngineRefinement, TLC

CONSTANTS r1, r2, k1, hook, op, w1, w2

\* Both requests carry the same idempotency key: a client retries.
SharedKey == [r \in Requests |-> k1]

\* Every caller of Resume names the first run.
TargetFirst == [c \in Callers |-> r1]

\* Every worker has the definition the run was created from.
Current == [w \in Workers |-> NumSteps]

\* A rolling update: the other worker's definition lacks the last step.
Rolling == [Current EXCEPT ![w1] = NumSteps - 1]

WorkerSymmetry == Permutations(Workers)

=============================================================================
