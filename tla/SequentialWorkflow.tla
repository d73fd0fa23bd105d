------------------------- MODULE SequentialWorkflow -------------------------
(***************************************************************************)
(* What a workflow run promises its users, with no workers, messages or    *)
(* database rows: its steps complete one at a time and in order, the gate  *)
(* lets nothing past an unmerged pull request, a failure stops the run for *)
(* good, and SUCCEEDED means that every step completed. This is the reading*)
(* of docs/adr/0005-workflow-architecture.md and of the comments of        *)
(* internal/workflows/engine.go that WorkflowEngine is compared with.      *)
(***************************************************************************)
EXTENDS Naturals

CONSTANTS
    Runs,      \* workflow runs
    NumSteps,  \* steps of a run
    Known,     \* how many steps the executing processes know
    Gate       \* the step that waits for the merge

VARIABLES
    phase,     \* the status a user sees
    done,      \* the set of completed steps
    merged     \* whether the run's pull request is merged

vars == <<phase, done, merged>>

Steps == 0 .. (NumSteps - 1)

Init ==
    /\ phase = [r \in Runs |-> "NONE"]
    /\ done = [r \in Runs |-> {}]
    /\ merged = [r \in Runs |-> FALSE]

\* The run moves from one of the phases in from to the phase to.
Move(r, from, to) ==
    /\ phase[r] \in from
    /\ phase' = [phase EXCEPT ![r] = to]
    /\ UNCHANGED <<done, merged>>

\* k is the step whose turn it is.
IsNextStep(r, k) == k \notin done[r] /\ \A j \in Steps : j < k => j \in done[r]

Submit(r) == Move(r, {"NONE"}, "PENDING")

Start(r) == Move(r, {"PENDING"}, "RUNNING")

CompleteStep(r, k) ==
    /\ phase[r] = "RUNNING"
    /\ IsNextStep(r, k)
    /\ \E n \in Known : k < n
    /\ k = Gate => merged[r]
    /\ done' = [done EXCEPT ![r] = @ \cup {k}]
    /\ UNCHANGED <<phase, merged>>

\* The gate, and only the gate, pauses a run.
Pause(r) ==
    /\ Gate \in Steps /\ IsNextStep(r, Gate)
    /\ Move(r, {"RUNNING"}, "AWAITING_APPROVAL")

Resume(r) == Move(r, {"AWAITING_APPROVAL"}, "RUNNING")

Succeed(r) ==
    /\ done[r] = Steps
    /\ Move(r, {"RUNNING"}, "SUCCEEDED")

\* A step function failed.
Fail(r) ==
    /\ done[r] # Steps
    /\ Move(r, {"RUNNING"}, "NEEDS_ATTENTION")

\* A step some executing process has no definition for.
Reject(r) ==
    /\ \E k \in Steps, n \in Known : IsNextStep(r, k) /\ k >= n
    /\ Move(r, {"RUNNING"}, "FAILED")

Merge(r) ==
    /\ ~merged[r]
    /\ merged' = [merged EXCEPT ![r] = TRUE]
    /\ UNCHANGED <<phase, done>>

Next ==
    \E r \in Runs :
        \/ Submit(r) \/ Start(r) \/ Pause(r) \/ Resume(r)
        \/ Succeed(r) \/ Fail(r) \/ Reject(r) \/ Merge(r)
        \/ \E k \in Steps : CompleteStep(r, k)

Spec == Init /\ [][Next]_vars

=============================================================================
