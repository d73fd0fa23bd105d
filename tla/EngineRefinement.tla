-------------------------- MODULE EngineRefinement --------------------------
(***************************************************************************)
(* The workflow engine compared with the sequential run of a workflow that *)
(* SequentialWorkflow describes.                                           *)
(***************************************************************************)
EXTENDS WorkflowEngine

\* Resume calls for one run that do not overlap: an assumption on the clients,
\* which the code does not enforce.
SerialResumes ==
    \A c, d \in Callers :
        /\ callPc[c] \in {"update", "dispatch"} /\ callPc[d] \in {"update", "dispatch"}
        /\ Target[c] = Target[d]
        => c = d

SerialSpec == Init /\ [][Next /\ SerialResumes']_vars

\* What a user sees of the rows: the status, the completed steps, and whether the
\* pull request is merged.
Sequential == INSTANCE SequentialWorkflow WITH
    Runs   <- Requests,
    Known  <- {DefSteps[w] : w \in Workers},
    phase  <- [r \in Requests |-> wf[r].status],
    done   <- [r \in Requests |-> {k \in Steps : step[r][k] = "SUCCEEDED"}],
    merged <- [r \in Requests |-> pr[r] = "merged"]

\* With no worker fault and no overlapping Resume calls, the engine, its queue and its
\* claims implement the sequential run: steps complete in order, nothing passes
\* the unmerged gate, a failure is final and SUCCEEDED means done.
ImplementsSequential == Sequential!Spec

=============================================================================
