------------------------ MODULE ClusterSerialProofs ------------------------
(***************************************************************************)
(* While a cluster is operated on by one request or run at a time, its     *)
(* state keeps to the life cycle and its spec changes only when somebody   *)
(* asks for it, for any number of callers, keys, specs and faults.         *)
(*                                                                         *)
(* The argument: what has begun and not ended is one process, nobody else  *)
(* writes the row meanwhile, so that inside a step, which begins with a    *)
(* load, the copy it saves its change from is the row as it is. That holds *)
(* when a worker dies, too: the step after is entered at its load.         *)
(***************************************************************************)
EXTENDS ClusterOperationsProofs

\* At most one process is under way.
Alone == \A p, q \in Procs : ~Ended(p) /\ ~Ended(q) => p = q

\* Who is inside a step holds the row as it is.
Current == \A p \in Procs : ~Ended(p) /\ Op(p) \notin StepHeads => row[p] = cluster

\* Runs execute workflows, never a request's program.
RunsRun ==
    \A k \in Keys : kind[k] \in {"none", "CLUSTER_PROVISION", "CLUSTER_UPGRADE", "WORKER_SCALE"}

SerialInv == Inv /\ Alone /\ Current /\ RunsRun

-----------------------------------------------------------------------------

\* A serial step is a step.
LEMMA SerialSteps == [SerialNext]_vars => [Next]_vars
BY DEF SerialNext, Next

\* Only callers write the spec.
LEMMA WritePlaces ==
    ASSUME NEW k \in DOMAIN Program, NEW i \in 1 .. Len(Program[k]),
           Program[k][i] \in {"retarget", "resize"}
    PROVE  k \notin {"none", "CLUSTER_PROVISION", "CLUSTER_UPGRADE", "WORKER_SCALE"}
<1>none. k # "none"
    BY DEF Program
<1>up. CASE k = "CLUSTER_UPGRADE"
    <2>1. Program[k] = ClusterUpgrade /\ i \in 1 .. 17
        BY <1>up, UpgradeCalls DEF Program
    <2> QED BY <2>1, UpgradeCalls
<1>scale. CASE k = "WORKER_SCALE"
    <2>1. Program[k] = WorkerScale /\ i \in 1 .. 14
        BY <1>scale, ScaleCalls DEF Program
    <2> QED BY <2>1, ScaleCalls
<1>provision. CASE k = "CLUSTER_PROVISION"
    <2>1. Program[k] = ClusterProvision /\ Len(Program[k]) = 27
        BY <1>provision, ProgramFacts DEF Program
    <2>2. i \in 1 .. 27
        BY <2>1
    <2> QED BY <2>1, <2>2 DEF ClusterProvision
<1> QED BY <1>none, <1>up, <1>scale, <1>provision

-----------------------------------------------------------------------------
(* The invariant. *)

\* Whoever steps is the one process under way.
LEMMA OnlyOne ==
    ASSUME SerialInv, NEW p \in Procs, Step(p)
    PROVE  \A q \in Procs \ {p} : Ended(q)
<1>1. ~Ended(p)
    BY StepGoes DEF Ended
<1> QED BY <1>1 DEF SerialInv, Alone

\* After its step it is still the only one, unless it is a request that ended
\* by starting a run.
LEMMA StepAlone ==
    ASSUME SerialInv, NEW p \in Procs, Step(p)
    PROVE  /\ Alone' /\ RunsRun'
           /\ \A q \in Procs \ {p} : Ended(q)' \/ pc'[q] = 1
<1>inv. /\ kind \in [Procs -> DOMAIN Program \cup {"none"}]
        /\ status \in [Procs -> Statuses] /\ pc \in [Procs -> Nat]
        /\ Keys \subseteq Procs
    BY DEF SerialInv, Inv, Locals, Procs
<1>others. \A q \in Procs \ {p} : Ended(q)
    BY OnlyOne
<1>same. CASE kind' = kind /\ \A q \in Procs \ {p} : status'[q] = status[q]
    BY <1>same, <1>others DEF SerialInv, Alone, RunsRun, Ended
<1>goes. CASE Goes(p)
    BY <1>goes, <1>same, <1>inv DEF Goes, Advance, Fail, Restarts, SkipStep
<1>fails. CASE CallFails(p)
    BY <1>fails, <1>same, <1>inv DEF CallFails, Fail
<1>enqueue. CASE Enqueue(p)
    <2> DEFINE k == request[p].key
    <2>1. CASE kind' = kind /\ (Advance(p) \/ Fail(p))
        BY <2>1, <1>goes DEF Goes
    <2>2. CASE /\ kind[k] = "none" /\ request[p].op \in DOMAIN Definition
               /\ kind' = [kind EXCEPT ![k] = Definition[request[p].op]]
               /\ status' = [status EXCEPT ![p] = "done", ![k] = "active"]
               /\ pc' = pc
        <3> HIDE DEF k
        <3>1. kind[p] # "none"
            BY StepHere DEF SerialInv, Program
        <3>2. k # p
            BY <2>2, <3>1
        <3>3. Ended(p)' /\ \A q \in Procs \ {p, k} : Ended(q)'
            BY <2>2, <3>2, <1>inv, <1>others DEF Ended
        <3>4. Definition[request[p].op] \in {"CLUSTER_PROVISION", "CLUSTER_UPGRADE", "WORKER_SCALE"}
            BY <2>2 DEF Definition
        <3>5. RunsRun'
            BY <2>2, <3>4, <1>inv DEF SerialInv, RunsRun
        <3>6. k \in Procs => pc'[k] = 1
            BY <2>2 DEF SerialInv, Inv, Placed
        <3> QED BY <3>3, <3>5, <3>6 DEF Alone
    <2> QED BY <2>1, <2>2, <1>enqueue DEF Enqueue
<1> QED BY <1>goes, <1>fails, <1>enqueue, StepGoes

\* Its copy stays current.
LEMMA StepCurrent ==
    ASSUME SerialInv, NEW p \in Procs, Step(p)
    PROVE  Current'
<1>inv. Inv /\ DOMAIN row = Procs /\ pc \in [Procs -> Nat]
    BY DEF SerialInv, Inv, Locals
<1>places. PlacesOK' /\ Came(p)
    BY <1>inv, StepPlaces
<1> SUFFICES ASSUME NEW q \in Procs, ~Ended(q)', Op(q)' \notin StepHeads
             PROVE  row'[q] = cluster'
    BY DEF Current
<1>me. q = p
    <2>1. CASE pc'[q] = 1
        <3>1. kind'[q] = "none" => status'[q] = "idle"
            BY <1>places DEF PlacesOK, Placed
        <3>2. kind'[q] \in DOMAIN Program
            BY <3>1, <1>places DEF PlacesOK, Ended
        <3> QED BY <2>1, <3>2, ProgramLengths, ProgramFacts DEF Op
    <2> QED BY <2>1, StepAlone
<1>past. CASE Op(p) \notin StepHeads
    <2>1. row[p] = cluster
        BY <1>past, StepGoes DEF SerialInv, Current, Ended
    <2>2. CASE UNCHANGED <<cluster, row>>
        BY <2>1, <2>2, <1>me
    <2>3. CASE Load(p)
        BY <2>3, <1>inv, <1>me DEF Load
    <2>4. ASSUME NEW c, Saved(p, c)
          PROVE  row'[p] = cluster'
        BY <2>4, <1>inv DEF Saved
    <2> QED BY <2>2, <2>3, <2>4, <1>inv, <1>me, StepRows, WriteFacts
<1>enters. CASE Op(p) \in StepHeads
    <2>1. Load(p)
        BY <1>enters, <1>inv, <1>me, StepEntered
    <2> QED BY <2>1, <1>inv, <1>me DEF Load
<1> QED BY <1>past, <1>enters

\* The people touch neither the row nor who is under way.
LEMMA PeopleAlone ==
    ASSUME SerialInv, People
    PROVE  Alone' /\ Current' /\ RunsRun'
<1>1. UNCHANGED <<cluster, row, kind, pc>> /\ \A q \in Procs : Op(q)' = Op(q)
    BY DEF Op, People, PeopleMerge, PeopleClose, PeopleDeleteBranch, Webhook, Resume, procVars
<1>2. \A q \in Procs : Ended(q)' <=> Ended(q)
    <2>1. CASE status' = status
        BY <2>1 DEF Ended
    <2>2. ASSUME NEW k, Resume(k)
          PROVE  \A q \in Procs : Ended(q)' <=> Ended(q)
        <3>1. status[k] = "awaiting" /\ status' = [status EXCEPT ![k] = "active"]
            BY <2>2 DEF Resume
        <3>2. status \in [Procs -> Statuses]
            BY DEF SerialInv, Inv, Locals
        <3> QED BY <3>1, <3>2 DEF Ended
    <2> QED BY <2>1, <2>2
        DEF People, PeopleMerge, PeopleClose, PeopleDeleteBranch, Webhook, procVars
<1> QED BY <1>1, <1>2 DEF SerialInv, Alone, Current, RunsRun

\* A request begins while nothing is under way.
LEMMA StartAlone ==
    ASSUME SerialInv, Quiet, Start
    PROVE  Alone' /\ Current' /\ RunsRun'
<1>same. CASE UNCHANGED procVars
    BY <1>same DEF SerialInv, Quiet, Alone, Current, RunsRun, Ended, Op, procVars
<1>call. ASSUME NEW c \in Callers, Call(c)
         PROVE  Alone' /\ Current' /\ RunsRun'
    <2>1. /\ pc' = [pc EXCEPT ![c] = 1] /\ status' = [status EXCEPT ![c] = "active"]
          /\ \E o : kind' = [kind EXCEPT ![c] = o]
        BY <1>call DEF Call
    <2>2. DOMAIN pc = Procs /\ DOMAIN status = Procs /\ DOMAIN kind = Procs /\ c \in Procs
        BY DEF SerialInv, Inv, Locals, Procs
    <2>3. \A q \in Procs \ {c} : Ended(q)'
        BY <2>1, <2>2 DEF Quiet, Ended
    <2>4. pc'[c] = 1
        BY <2>1, <2>2
    <2>5. RunsRun'
        BY <2>1, <2>2, ClusterAssumption DEF SerialInv, RunsRun, Procs
    <2>6. Op(c)' \in StepHeads
        <3>1. PICK o \in {"Provision", "Delete", "TriggerSync", "Upgrade", "ScaleWorkers", "Rollback"} :
                kind'[c] = o
            BY <1>call, <2>2 DEF Call, Requests
        <3>2. o \in DOMAIN Program
            BY DEF Program
        <3> QED BY <2>4, <3>1, <3>2, ProgramLengths, ProgramFacts DEF Op
    <2>7. Current'
        BY <2>3, <2>6 DEF Current
    <2> QED BY <2>3, <2>5, <2>7 DEF Alone
<1> QED BY <1>same, <1>call DEF Start, Create, ScaffoldRepository

\* The serial invariant holds at first,
LEMMA SeriallyAtFirst == Init => SerialInv
BY Initially DEF Init, SerialInv, Alone, Current, RunsRun, Ended, Procs

\* and every serial step keeps it.
LEMMA SeriallyInductive == SerialInv /\ [SerialNext]_vars => SerialInv'
<1> SUFFICES ASSUME SerialInv, [SerialNext]_vars
             PROVE  SerialInv'
    OBVIOUS
<1>1. Inv'
    BY SerialSteps, Inductive DEF SerialInv
<1>2. Alone' /\ Current' /\ RunsRun'
    <2>1. CASE UNCHANGED vars
        BY <2>1 DEF vars, SerialInv, Alone, Current, RunsRun, Ended, Op
    <2> QED BY <2>1, StepAlone, StepCurrent, PeopleAlone, StartAlone DEF SerialNext
<1> QED BY <1>1, <1>2 DEF SerialInv

-----------------------------------------------------------------------------
(* What a serial step does to the cluster. *)

LegalMove ==
    \/ cluster.state = cluster'.state
    \/ cluster = NoCluster
    \/ CanTransition(cluster.state, cluster'.state)
    \/ CanTransition(cluster.state, "PLANNING") /\ cluster'.state = "PROVISIONING"

SpecAsked ==
    \/ cluster.spec = cluster'.spec
    \/ \E c \in Callers : At(c, "retarget") \/ At(c, "resize")

SpecStays ==
    \/ cluster.spec = cluster'.spec
    \/ cluster = NoCluster
    \/ \E c \in Callers : At(c, "retarget") \/ At(c, "resize")

\* A write is a move of the life cycle, and only an upgrade or a scaling that
\* was asked for writes the spec.
LEMMA WritesAreLegal ==
    ASSUME SerialInv, NEW p \in Procs, Writes(p)
    PROVE  LegalMove /\ SpecAsked
<1>inv. Inv /\ Step(p)
    BY DEF SerialInv, Step, Writes
<1>here. kind[p] \in DOMAIN Program /\ pc[p] \in 1 .. Len(Program[kind[p]])
    BY <1>inv, StepHere
<1>op. Op(p) \in {"BOOTSTRAPPING", "INSTALLING", "CONFIGURING", "UPGRADING", "READY", "DELETING",
                  "markReady", "claim", "retarget", "resize"}
    BY DEF Writes, transitionAndSave, Delete, markReady, Claim, Retarget, Resize, At
<1>now. row[p] = cluster
    <2>1. Op(p) \notin StepHeads
        BY <1>op DEF StepHeads
    <2> QED BY <2>1, <1>inv, StepGoes DEF SerialInv, Current, Ended
<1>row. {"state", "spec"} \subseteq DOMAIN cluster
    BY <1>inv DEF Inv, Rows, IsRow
<1>to. ASSUME NEW s, cluster' = [cluster EXCEPT !.state = s],
              \/ CanTransition(cluster.state, s)
              \/ CanTransition(cluster.state, "PLANNING") /\ s = "PROVISIONING"
       PROVE  LegalMove /\ SpecAsked
    <2>1. cluster'.state = s /\ cluster'.spec = cluster.spec
        BY <1>to, <1>row
    <2> QED BY <2>1, <1>to DEF LegalMove, SpecAsked
<1>same. CASE cluster' = cluster
    BY <1>same DEF LegalMove, SpecAsked
<1>transition. CASE transitionAndSave(p) \/ Delete(p) \/ markReady(p)
    BY <1>transition, <1>same, <1>to, <1>now
    DEF transitionAndSave, Delete, markReady, Transition, Save, Refuse
<1>claim. CASE Claim(p)
    BY <1>claim, <1>same, <1>to, <1>now DEF Claim, Save, Refuse
<1>spec. ASSUME NEW c, Op(p) \in {"retarget", "resize"}, cluster' = c, c.state = cluster.state
         PROVE  LegalMove /\ SpecAsked
    <2>1. p \in Callers
        BY <1>spec, <1>here, WritePlaces DEF Op, SerialInv, RunsRun, Procs
    <2>2. At(p, "retarget") \/ At(p, "resize")
        BY <1>spec, <1>inv, StepGoes DEF At
    <2> QED BY <2>1, <2>2, <1>spec DEF LegalMove, SpecAsked
<1>retarget. CASE Retarget(p)
    <2> DEFINE t == request[p].target
               Chosen(new, old) == IF new = Unset THEN old ELSE new
               c == [row[p] EXCEPT !.spec.k8s = Chosen(t[1], @), !.spec.talos = Chosen(t[2], @)]
    <2>1. cluster' = cluster \/ cluster' = c
        BY <1>retarget DEF Retarget, Refuse, Save
    <2>2. c.state = cluster.state
        BY <1>row, <1>now
    <2>3. Op(p) = "retarget"
        BY <1>retarget DEF Retarget, At
    <2> HIDE DEF c
    <2> QED BY <2>1, <2>2, <2>3, <1>spec, <1>same
<1>resize. CASE Resize(p)
    <2> DEFINE c(i) == [row[p] EXCEPT !.spec.pools[i].replicas = request[p].size]
    <2>1. cluster' = cluster \/ \E i : cluster' = c(i)
        BY <1>resize DEF Resize, Refuse, Save
    <2>2. \A i : c(i).state = cluster.state
        BY <1>row, <1>now
    <2>3. Op(p) = "resize"
        BY <1>resize DEF Resize, At
    <2> HIDE DEF c
    <2> QED BY <2>1, <2>2, <2>3, <1>spec, <1>same
<1> QED BY <1>transition, <1>claim, <1>retarget, <1>resize DEF Writes

\* So is every serial step.
LEMMA SerialMoves ==
    ASSUME SerialInv, [SerialNext]_vars
    PROVE  LegalMove /\ SpecStays
<1>same. CASE cluster' = cluster
    BY <1>same DEF LegalMove, SpecStays
<1>step. ASSUME NEW p \in Procs, Step(p)
         PROVE  LegalMove /\ SpecStays
    BY <1>step, <1>same, StepRows, WritesAreLegal DEF Load, SpecStays, SpecAsked
<1>start. CASE Start
    BY <1>start, <1>same DEF Start, Create, ScaffoldRepository, Call, LegalMove, SpecStays
<1>people. CASE People
    BY <1>people, <1>same
    DEF People, PeopleMerge, PeopleClose, PeopleDeleteBranch, Webhook, Resume
<1>stutter. CASE UNCHANGED vars
    BY <1>stutter, <1>same DEF vars
<1> QED BY <1>step, <1>start, <1>people, <1>stutter DEF SerialNext

\* While requests and runs do not overlap, the row's state moves along the life
\* cycle only, whatever fails or dies (cluster.go).
THEOREM MovesAreLegal == SerialSpec => LegalMoves
<1>1. SerialInv /\ [SerialNext]_vars => [LegalMove]_vars
    BY SerialMoves
<1>2. SerialSpec => [][LegalMove]_vars
    BY <1>1, SeriallyAtFirst, SeriallyInductive, PTL DEF SerialSpec
<1> QED BY <1>2 DEF LegalMoves, LegalMove

\* While requests and runs do not overlap, no step of a run puts an older spec
\* back (cluster_repo.go, Update writes the whole row).
THEOREM SpecIsKept == SerialSpec => SpecKept
<1>1. SerialInv /\ [SerialNext]_vars => [SpecStays]_vars
    BY SerialMoves
<1>2. SerialSpec => [][SpecStays]_vars
    BY <1>1, SeriallyAtFirst, SeriallyInductive, PTL DEF SerialSpec
<1> QED BY <1>2 DEF SpecKept, SpecStays

=============================================================================
