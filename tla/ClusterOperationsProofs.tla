---------------------- MODULE ClusterOperationsProofs ----------------------
(***************************************************************************)
(* For any number of callers, keys, specs, change sets and faults, and with*)
(* requests and runs that overlap freely: the variables keep their kinds,  *)
(* and no cluster is installed before a pull request of it was merged.     *)
(*                                                                         *)
(* Only the step that holds the gate of the provisioning run takes a       *)
(* cluster to INSTALLING, and every later state is reached from there: a   *)
(* run whose worker dies in that step goes on without it, and then finds   *)
(* the cluster BOOTSTRAPPING. A stale copy that is saved may put an earlier*)
(* state back, but no later one: a copy was the row once, and a pull       *)
(* request that was merged stays merged.                                   *)
(***************************************************************************)
EXTENDS ClusterOperations, FiniteSetTheorems, SequenceTheorems, TLAPS

Statuses == {"idle", "active", "awaiting", "failed", "done"}

Installed == {"INSTALLING", "CONFIGURING", "READY", "UPGRADING", "DEGRADED"}

\* A sequence, whatever its elements are.
IsSeq(s) == s \in Seq({s[i] : i \in 1 .. Len(s)})

Tables ==
    /\ IsSeq(changeSets) /\ IsSeq(pulls)
    /\ \A i \in 1 .. Len(changeSets) : {"url", "status"} \subseteq DOMAIN changeSets[i]
    /\ \A n \in 1 .. Len(pulls) : "state" \in DOMAIN pulls[n]

\* A row that was loaded or saved, or none.
IsRow(c) == {"state", "spec"} \subseteq DOMAIN c /\ (c = NoCluster \/ c.state \in States)

Locals ==
    /\ kind \in [Procs -> DOMAIN Program \cup {"none"}]
    /\ pc \in [Procs -> Nat]
    /\ status \in [Procs -> Statuses]
    /\ held \in [Procs -> [id : Nat, url : Nat]]
    /\ DOMAIN row = Procs

\* What has no program has not begun; what has one is inside it.
Placed ==
    \A p \in Procs :
        /\ kind[p] = "none" => pc[p] = 1 /\ status[p] = "idle"
        /\ kind[p] # "none" => pc[p] \in 1 .. Len(Program[kind[p]])

\* Inside a step a process holds a copy of a cluster that exists: wherever its
\* program has more than one call, the first loads the row.
Loaded ==
    \A p \in Procs : kind[p] # "none" /\ Op(p) \notin StepHeads =>
        row[p].state \in States /\ cluster.state \in States

Rows == IsRow(cluster) /\ \A p \in Procs : IsRow(row[p])

\* A provisioning run in the step of its gate, behind it.
BehindGate(p) == kind[p] = "CLUSTER_PROVISION" /\ pc[p] \in {16, 17}

\* What is installed, in the row or in a copy, was merged, and so was what a
\* provisioning run in the step of its gate, behind it, works on.
Merged ==
    /\ cluster.state \in Installed => MergedSomewhere
    /\ \A p \in Procs : row[p].state \in Installed \/ BehindGate(p) => MergedSomewhere

Numbers ==
    /\ \A p \in Procs : held[p].id \in 0 .. Len(changeSets) /\ held[p].url \in 0 .. Len(pulls)
    /\ \A i \in 1 .. Len(changeSets) :
        /\ changeSets[i].url \in 0 .. Len(pulls)
        /\ changeSets[i].status \in {"COMMITTED", "PR_CREATED", "MERGED", "SYNCED"}

\* The inductive invariant.
Inv ==
    /\ Tables /\ Locals /\ Placed /\ Loaded /\ Rows /\ Merged /\ Numbers
    /\ faults \in [calls : 0 .. MaxFaults, deaths : 0 .. MaxFaults]

-----------------------------------------------------------------------------
(* Sequences and numbers. *)

\* A set of numbers up to n that is not empty has a largest one.
LEMMA LargestNumber ==
    ASSUME NEW n \in Nat, NEW T \in SUBSET (1 .. n), T # {}
    PROVE  \E i \in T : \A j \in T : j <= i
<1> DEFINE Above(i) == {j \in 1 .. n : j > i}
           Order == StrictSubsetOrdering(1 .. n)
           Family == {Above(i) : i \in T}
<1>1. IsWellFoundedOn(Order, SUBSET (1 .. n))
    <2>1. IsFiniteSet(1 .. n)
        BY FS_Interval
    <2>2. FiniteSubsetsOf(1 .. n) = SUBSET (1 .. n)
        BY <2>1, FS_FiniteSubsetsOfFinite
    <2> QED BY <2>2, FS_StrictSubsetOrderingWellFounded
<1>2. Family \subseteq SUBSET (1 .. n) /\ Family # {}
    OBVIOUS
<1>3. PICK x \in Family : \A y \in Family : <<y, x>> \notin Order
    <2> HIDE DEF Order, Family
    <2> QED BY <1>1, <1>2, WFMin
<1>4. PICK i \in T : x = Above(i)
    OBVIOUS
<1>5. ASSUME NEW j \in T, j > i
      PROVE  FALSE
    <2>1. Above(j) \in SUBSET (1 .. n) /\ Above(i) \in SUBSET (1 .. n)
        OBVIOUS
    <2>2. Above(j) \subseteq Above(i) /\ j \in Above(i) /\ j \notin Above(j)
        BY <1>5
    <2>3. <<Above(j), Above(i)>> \in Order
        <3> HIDE DEF Above
        <3> QED BY <2>1, <2>2 DEF StrictSubsetOrdering
    <2> QED BY <2>3, <1>3, <1>4
<1> QED BY <1>5

\* Appending keeps a sequence and its elements.
LEMMA AppendFacts ==
    ASSUME NEW s, IsSeq(s), NEW e
    PROVE  /\ IsSeq(Append(s, e)) /\ Len(s) \in Nat
           /\ Len(Append(s, e)) = Len(s) + 1
           /\ \A i \in 1 .. Len(s) : Append(s, e)[i] = s[i]
           /\ Append(s, e)[Len(s) + 1] = e
<1> DEFINE S == {s[i] : i \in 1 .. Len(s)} \cup {e}
<1>1. s \in Seq(S)
    BY SeqMonotonic DEF IsSeq
<1>2. e \in S
    OBVIOUS
<1> HIDE DEF S
<1>3. Len(s) \in Nat
    BY <1>1, LenProperties
<1>app. /\ Append(s, e) \in Seq(S)
        /\ Len(Append(s, e)) = Len(s) + 1
        /\ \A i \in 1 .. Len(s) : Append(s, e)[i] = s[i]
        /\ Append(s, e)[Len(s) + 1] = e
    BY <1>1, <1>2, AppendProperties
<1>4. IsSeq(Append(s, e))
    <2> DEFINE t == Append(s, e)
    <2> HIDE DEF t
    <2>1. t \in [1 .. Len(t) -> S] /\ Len(t) \in Nat
        BY <1>app, LenProperties DEF t
    <2>2. t \in [1 .. Len(t) -> {t[i] : i \in 1 .. Len(t)}]
        BY <2>1
    <2>3. t \in Seq({t[i] : i \in 1 .. Len(t)})
        BY <2>1, <2>2, SeqDef
    <2> QED BY <2>3 DEF IsSeq, t
<1> QED BY <1>3, <1>app, <1>4

\* What has the domain of a sequence is one of the same length.
LEMMA SameDomain ==
    ASSUME NEW s, IsSeq(s), NEW t, DOMAIN t = DOMAIN s, t = [j \in DOMAIN s |-> t[j]]
    PROVE  IsSeq(t) /\ Len(t) = Len(s) /\ Len(s) \in Nat /\ DOMAIN s = 1 .. Len(s)
<1> DEFINE T == {t[j] : j \in 1 .. Len(s)}
<1>1. DOMAIN s = 1 .. Len(s) /\ Len(s) \in Nat
    BY LenProperties DEF IsSeq
<1>2. t \in [1 .. Len(s) -> T]
    BY <1>1
<1>3. t \in Seq(T)
    <2> HIDE DEF T
    <2> QED BY <1>1, <1>2, SeqDef
<1>4. Len(t) = Len(s)
    <2> HIDE DEF T
    <2>1. DOMAIN t = 1 .. Len(t) /\ Len(t) \in Nat
        BY <1>3, LenProperties
    <2> QED BY <2>1, <1>1
<1> QED BY <1>1, <1>3, <1>4 DEF IsSeq

-----------------------------------------------------------------------------
(* The programs. *)

\* The two programs that are put together from parts, call by call.
LEMMA UpgradeCalls ==
    /\ Len(ClusterUpgrade) = 17
    /\ ClusterUpgrade[1] = "load" /\ ClusterUpgrade[2] = "UPGRADING"
    /\ ClusterUpgrade[3] = "load" /\ ClusterUpgrade[4] = "branch"
    /\ ClusterUpgrade[5] = "commit" /\ ClusterUpgrade[6] = "record"
    /\ ClusterUpgrade[7] = "openPR" /\ ClusterUpgrade[8] = "link"
    /\ ClusterUpgrade[9] = "load" /\ ClusterUpgrade[10] = "latest"
    /\ ClusterUpgrade[11] = "gate" /\ ClusterUpgrade[12] = "markMerged"
    /\ ClusterUpgrade[13] = "sync" /\ ClusterUpgrade[14] = "markSynced"
    /\ ClusterUpgrade[15] = "capiReady" /\ ClusterUpgrade[16] = "load"
    /\ ClusterUpgrade[17] = "READY"
BY DEF ClusterUpgrade, commitClusterAPIChange, awaitClusterAPIChangeMerge

LEMMA ScaleCalls ==
    /\ Len(WorkerScale) = 14
    /\ WorkerScale[1] = "scalable" /\ WorkerScale[2] = "load"
    /\ WorkerScale[3] = "branch" /\ WorkerScale[4] = "commit"
    /\ WorkerScale[5] = "record" /\ WorkerScale[6] = "openPR"
    /\ WorkerScale[7] = "link" /\ WorkerScale[8] = "load"
    /\ WorkerScale[9] = "latest" /\ WorkerScale[10] = "gate"
    /\ WorkerScale[11] = "markMerged" /\ WorkerScale[12] = "sync"
    /\ WorkerScale[13] = "markSynced" /\ WorkerScale[14] = "capiReady"
BY DEF WorkerScale, commitClusterAPIChange, awaitClusterAPIChangeMerge

\* No program is empty.
LEMMA ProgramLengths ==
    ASSUME NEW k \in DOMAIN Program
    PROVE  Len(Program[k]) \in Nat /\ 1 \in 1 .. Len(Program[k])
<1>1. k \in {"Provision", "Delete", "Upgrade", "ScaleWorkers", "TriggerSync", "Rollback",
             "CLUSTER_PROVISION", "CLUSTER_UPGRADE", "WORKER_SCALE"}
    BY DEF Program
<1>2. Program[k] \in {ClusterUpgrade, WorkerScale} =>
        Len(Program[k]) \in Nat /\ 1 \in 1 .. Len(Program[k])
    <2>1. \A s \in {ClusterUpgrade, WorkerScale} : Len(s) \in {14, 17}
        BY UpgradeCalls, ScaleCalls
    <2> QED BY <2>1
<1>3. CASE k \notin {"CLUSTER_UPGRADE", "WORKER_SCALE"}
    <2>1. Program[k] \in {ClusterProvision, RollbackCalls, TriggerSync,
                          <<"load", "plan", "claim", "enqueue">>,
                          <<"load", "DELETING", "enqueue">>, <<"load", "retarget", "enqueue">>,
                          <<"load", "resize", "enqueue">>}
        BY <1>1, <1>3 DEF Program
    <2>2. Len(Program[k]) \in {3, 4, 11, 27}
        BY <2>1 DEF ClusterProvision, RollbackCalls, TriggerSync
    <2>3. \A m \in {3, 4, 11, 27} : m \in Nat /\ 1 \in 1 .. m
        OBVIOUS
    <2> QED BY <2>2, <2>3
<1> QED BY <1>2, <1>3 DEF Program

\* Where in a program a call is.
LEMMA ProgramFacts ==
    ASSUME NEW k \in DOMAIN Program, NEW i \in 1 .. Len(Program[k])
    PROVE  LET c == Program[k][i] IN
           /\ Len(Program[k]) \in Nat
           /\ 1 \in 1 .. Len(Program[k]) /\ Program[k][1] \in StepHeads
           /\ c \notin StepHeads =>
                i > 1 /\ (Program[k][i - 1] \in StepHeads => Program[k][i - 1] = "load")
           /\ c = "INSTALLING" => k = "CLUSTER_PROVISION" /\ i = 17
           /\ k = "CLUSTER_PROVISION" =>
                /\ Len(Program[k]) = 27
                /\ i = 15 => c = "gate"
                /\ i \in {16, 17} => c \notin StepHeads
                /\ i = 22 => c \in StepHeads
                /\ c = "recall" => i = 20
                /\ c = "markSynced" => i = 21
<1>kinds. k \in {"Provision", "Delete", "Upgrade", "ScaleWorkers", "TriggerSync", "Rollback",
                 "CLUSTER_PROVISION", "CLUSTER_UPGRADE", "WORKER_SCALE"}
    BY DEF Program
<1>up. CASE k = "CLUSTER_UPGRADE"
    <2>1. Program[k] = ClusterUpgrade /\ i \in 1 .. 17
        BY <1>up, UpgradeCalls DEF Program
    <2> QED BY <1>up, <2>1, UpgradeCalls DEF StepHeads
<1>scale. CASE k = "WORKER_SCALE"
    <2>1. Program[k] = WorkerScale /\ i \in 1 .. 14
        BY <1>scale, ScaleCalls DEF Program
    <2> QED BY <1>scale, <2>1, ScaleCalls DEF StepHeads
<1>provision. CASE k = "CLUSTER_PROVISION"
    <2>1. Program[k] = ClusterProvision
        BY <1>provision DEF Program
    <2>2. Len(ClusterProvision) = 27
        BY DEF ClusterProvision
    <2>3. i \in 1 .. 27
        BY <2>1, <2>2
    <2> QED BY <1>provision, <2>1, <2>2, <2>3 DEF ClusterProvision, StepHeads
<1>requests. CASE k \in {"Provision", "Delete", "Upgrade", "ScaleWorkers", "TriggerSync",
                         "Rollback"}
    <2>1. Program[k] \in {<<"load", "plan", "claim", "enqueue">>,
                          <<"load", "DELETING", "enqueue">>, <<"load", "retarget", "enqueue">>,
                          <<"load", "resize", "enqueue">>, TriggerSync, RollbackCalls}
        BY <1>requests DEF Program
    <2> QED BY <1>requests, <2>1, SMTT(30) DEF TriggerSync, RollbackCalls, StepHeads
<1> QED BY <1>kinds, <1>up, <1>scale, <1>provision, <1>requests

\* A step that is started again is the last one p has reached.
LEMMA StepStartFacts ==
    ASSUME NEW p, kind[p] \in DOMAIN Program, pc[p] \in 1 .. Len(Program[kind[p]])
    PROVE  /\ StepStart(p) \in 1 .. pc[p]
           /\ Program[kind[p]][StepStart(p)] \in StepHeads
           /\ \A j \in StepStart(p) + 1 .. pc[p] : Program[kind[p]][j] \notin StepHeads
<1> DEFINE heads == {i \in 1 .. pc[p] : Program[kind[p]][i] \in StepHeads}
<1>1. pc[p] \in Nat /\ 1 \in heads
    BY ProgramFacts
<1>2. PICK i \in heads : \A j \in heads : j <= i
    BY <1>1, LargestNumber
<1>3. /\ i \in 1 .. pc[p] /\ Program[kind[p]][i] \in StepHeads
      /\ \A j \in i + 1 .. pc[p] : Program[kind[p]][j] \notin StepHeads
    BY <1>1, <1>2
<1> QED BY <1>3 DEF StepStart

-----------------------------------------------------------------------------
(* What a step does to places. *)

Restarts(p) ==
    /\ pc' = [pc EXCEPT ![p] = StepStart(p)]
    /\ status' = status \/ status' = [status EXCEPT ![p] = "awaiting"]

Goes(p) == kind' = kind /\ (Advance(p) \/ Fail(p) \/ Restarts(p) \/ (WorkerLost /\ SkipStep(p)))

\* Every step of p but two goes on, fails, starts its step again, or goes on to
\* the next.
LEMMA StepGoes ==
    ASSUME NEW p, Step(p)
    PROVE  status[p] = "active" /\ (Goes(p) \/ Enqueue(p) \/ CallFails(p))
<1> USE DEF Goes, Demand
<1>rows. CASE Load(p) \/ Check(p) \/ Resize(p) \/ Retarget(p) \/ Claim(p)
    BY <1>rows DEF Load, Check, Resize, Retarget, Claim, Save, Refuse, At
<1>moves. CASE transitionAndSave(p) \/ Delete(p) \/ markReady(p)
    BY <1>moves DEF transitionAndSave, Delete, markReady, Transition, Save, Refuse, At
<1>git. CASE Revert(p) \/ CreateBranch(p) \/ Commit(p) \/ CreatePullRequest(p) \/ MergePullRequest(p)
    BY <1>git DEF Revert, CreateBranch, Commit, CreatePullRequest, MergePullRequest, Doing, At
<1>sets. CASE CreateChangeSet(p) \/ latestChangeSet(p) \/ UpdateChangeSet(p)
    BY <1>sets DEF CreateChangeSet, latestChangeSet, UpdateChangeSet, Doing, At
<1>gate. CASE Gate(p)
    BY <1>gate DEF Gate, Doing, At, Restarts
<1>others. CASE Skip(p) \/ Sync(p) \/ waitForClusterAPIReady(p) \/ checkTalosHealth(p)
    BY <1>others DEF Skip, Sync, waitForClusterAPIReady, checkTalosHealth, Doing, At
<1>crash. CASE Crash(p)
    BY <1>crash DEF Crash
<1>enqueue. CASE Enqueue(p)
    BY <1>enqueue DEF Enqueue, At
<1>fails. CASE CallFails(p)
    BY <1>fails DEF CallFails
<1> QED BY <1>rows, <1>moves, <1>git, <1>sets, <1>gate, <1>others, <1>crash, <1>enqueue,
           <1>fails DEF Step

PlacesOK ==
    /\ kind \in [Procs -> DOMAIN Program \cup {"none"}]
    /\ pc \in [Procs -> Nat]
    /\ status \in [Procs -> Statuses]
    /\ Placed

\* Where q comes to: it stays, gets to its next call, or begins a step.
Came(q) ==
    /\ kind'[q] = kind[q]
    /\ \/ pc'[q] = pc[q] \/ pc'[q] = pc[q] + 1
       \/ Program[kind[q]][pc'[q]] \in StepHeads

\* A step of p leaves everything in its place, and p is not far from where it was.
LEMMA StepPlaces ==
    ASSUME Inv, NEW p \in Procs, Step(p)
    PROVE  /\ PlacesOK'
           /\ Came(p)
           /\ \A q \in Procs \ {p} : pc'[q] = pc[q] /\ (kind'[q] = kind[q] \/ pc[q] = 1)
<1>inv. /\ kind \in [Procs -> DOMAIN Program \cup {"none"}]
        /\ pc \in [Procs -> Nat]
        /\ status \in [Procs -> Statuses]
        /\ Placed
    BY DEF Inv, Locals
<1>active. status[p] = "active" /\ kind[p] # "none"
    BY <1>inv, StepGoes DEF Placed
<1>here. kind[p] \in DOMAIN Program /\ pc[p] \in 1 .. Len(Program[kind[p]])
    BY <1>inv, <1>active DEF Placed
<1>len. Len(Program[kind[p]]) \in Nat
    BY <1>here, ProgramFacts
<1>goes. CASE Goes(p)
    <2>1. PICK n \in 1 .. Len(Program[kind[p]]) :
            /\ pc' = [pc EXCEPT ![p] = n]
            /\ \/ n = pc[p] \/ n = pc[p] + 1
               \/ Program[kind[p]][n] \in StepHeads
        <3>1. CASE Advance(p)
            BY <3>1, <1>here, <1>len, <1>inv DEF Advance
        <3>2. CASE Fail(p)
            BY <3>2, <1>here, <1>len, <1>inv DEF Fail
        <3>3. CASE Restarts(p)
            <4>1. StepStart(p) \in 1 .. pc[p] /\ Program[kind[p]][StepStart(p)] \in StepHeads
                BY <1>here, StepStartFacts
            <4>2. StepStart(p) \in 1 .. Len(Program[kind[p]])
                BY <4>1, <1>here, <1>len
            <4> QED BY <4>1, <4>2, <3>3 DEF Restarts
        <3>4. CASE SkipStep(p)
            <4>1. pc' = pc \/ \E i \in NextStep(p) : pc' = [pc EXCEPT ![p] = i]
                BY <3>4 DEF SkipStep
            <4>2. \A i \in NextStep(p) :
                    i \in 1 .. Len(Program[kind[p]]) /\ Program[kind[p]][i] \in StepHeads
                BY <1>here, <1>len DEF NextStep
            <4> QED BY <4>1, <4>2, <1>here, <1>inv
        <3>5. Advance(p) \/ Fail(p) \/ Restarts(p) \/ SkipStep(p)
            BY <1>goes DEF Goes
        <3> QED BY <3>1, <3>2, <3>3, <3>4, <3>5
    <2>2. status' \in [Procs -> Statuses] /\ \A q \in Procs \ {p} : status'[q] = status[q]
        BY <1>goes, <1>inv DEF Goes, Advance, Fail, Restarts, SkipStep, Statuses
    <2>3. kind' = kind
        BY <1>goes DEF Goes
    <2>4. PlacesOK'
        BY <2>1, <2>2, <2>3, <1>inv, <1>len, <1>active DEF PlacesOK, Placed
    <2> QED BY <2>1, <2>3, <2>4, <1>inv DEF Came
<1>fails. CASE CallFails(p)
    <2>1. CASE Fail(p)
        <3>1. kind' = kind
            BY <1>fails DEF CallFails
        <3> QED BY <2>1, <3>1, <1>goes DEF Goes
    <2>2. CASE ~Fail(p)
        <3>1. /\ kind[p] = "CLUSTER_PROVISION" /\ Op(p) \in {"recall", "markSynced"}
              /\ pc' = [pc EXCEPT ![p] = @ + (IF Op(p) = "recall" THEN 2 ELSE 1)]
              /\ status' = status /\ kind' = kind
            BY <2>2, <1>fails DEF CallFails
        <3>2. pc[p] \in {20, 21} /\ Len(Program[kind[p]]) = 27
            BY <3>1, <1>here, ProgramFacts DEF Op
        <3>3. pc'[p] = 22 /\ pc'[p] \in 1 .. Len(Program[kind[p]])
            BY <3>1, <3>2, <1>inv, <1>here, ProgramFacts DEF Op
        <3>head. Program[kind[p]][pc'[p]] \in StepHeads
            BY <3>1, <3>3, <1>here, ProgramFacts
        <3>4. /\ pc' \in [Procs -> Nat]
              /\ \A q \in Procs \ {p} : pc'[q] = pc[q]
            BY <3>1, <1>inv
        <3>5. Placed'
            BY <3>1, <3>3, <3>4, <1>inv, <1>active DEF Placed
        <3>places. PlacesOK'
            BY <3>1, <3>4, <3>5, <1>inv DEF PlacesOK
        <3> QED BY <3>1, <3>4, <3>head, <3>places, <1>inv DEF Came
    <2> QED BY <2>1, <2>2
<1>enqueue. CASE Enqueue(p)
    <2> DEFINE k == request[p].key
    <2>1. CASE kind' = kind /\ (Advance(p) \/ Fail(p))
        BY <2>1, <1>goes DEF Goes
    <2>2. CASE /\ kind[k] = "none" /\ request[p].op \in DOMAIN Definition
               /\ kind' = [kind EXCEPT ![k] = Definition[request[p].op]]
               /\ status' = [status EXCEPT ![p] = "done", ![k] = "active"]
               /\ pc' = pc
        <3> HIDE DEF k
        <3>1. Definition[request[p].op] \in DOMAIN Program /\ Definition[request[p].op] # "none"
            BY <2>2 DEF Definition, Program
        <3>2. /\ kind' \in [Procs -> DOMAIN Program \cup {"none"}]
              /\ status' \in [Procs -> Statuses]
            BY <2>2, <3>1, <1>inv DEF Statuses
        <3>3. k # p
            BY <2>2, <1>active
        <3>4. ASSUME NEW q \in Procs
              PROVE  /\ kind'[q] = "none" => pc'[q] = 1 /\ status'[q] = "idle"
                     /\ kind'[q] # "none" => pc'[q] \in 1 .. Len(Program[kind'[q]])
            <4>1. CASE q = k
                <5>1. kind'[q] = Definition[request[p].op] /\ pc'[q] = 1
                    BY <4>1, <2>2, <1>inv DEF Placed
                <5>2. 1 \in 1 .. Len(Program[kind'[q]])
                    <6>1. Definition[request[p].op] \in
                            {"CLUSTER_PROVISION", "CLUSTER_UPGRADE", "WORKER_SCALE"}
                        BY <2>2 DEF Definition
                    <6> QED BY <5>1, <6>1, <3>1, ProgramLengths
                <5> QED BY <5>1, <5>2, <3>1
            <4>2. CASE q = p
                BY <4>2, <3>3, <2>2, <1>inv, <1>active, <1>here
            <4>3. CASE q # k /\ q # p
                BY <4>3, <2>2, <1>inv DEF Placed
            <4> QED BY <4>1, <4>2, <4>3
        <3>5. PlacesOK'
            BY <3>2, <3>4, <2>2, <1>inv DEF PlacesOK, Placed
        <3>6. \A q \in Procs : kind'[q] = kind[q] \/ pc[q] = 1
            BY <2>2, <1>inv DEF Placed
        <3>7. kind'[p] = kind[p]
            BY <3>3, <2>2, <1>inv
        <3> QED BY <3>5, <3>6, <3>7, <2>2, <1>inv DEF Came
    <2> QED BY <2>1, <2>2, <1>enqueue DEF Enqueue
<1> QED BY <1>goes, <1>fails, <1>enqueue, StepGoes

\* q is where it was, or begins.
Untouched(q) == pc'[q] = 1 \/ (kind'[q] = kind[q] /\ pc'[q] = pc[q])

\* A start or the people move nothing but a caller that begins a program, and a
\* run that waits.
LEMMA OtherPlaces ==
    ASSUME Inv, Start \/ People
    PROVE  /\ PlacesOK'
           /\ \A q \in Procs : Untouched(q)
<1>inv. /\ kind \in [Procs -> DOMAIN Program \cup {"none"}]
        /\ pc \in [Procs -> Nat]
        /\ status \in [Procs -> Statuses]
        /\ Placed
    BY DEF Inv, Locals
<1>same. CASE UNCHANGED <<kind, pc, status>>
    BY <1>same, <1>inv DEF PlacesOK, Placed, Untouched
<1>call. ASSUME NEW c \in Callers, Call(c)
         PROVE  /\ PlacesOK'
                /\ \A q \in Procs : Untouched(q)
    <2>1. PICK o \in {"Provision", "Delete", "TriggerSync", "Upgrade", "ScaleWorkers", "Rollback"} :
            kind' = [kind EXCEPT ![c] = o]
        BY <1>call DEF Call, Requests
    <2>2. /\ pc' = [pc EXCEPT ![c] = 1] /\ status' = [status EXCEPT ![c] = "active"]
          /\ c \in Procs
        BY <1>call DEF Call, Procs
    <2>3. o \in DOMAIN Program /\ o # "none"
        BY DEF Program
    <2>4. 1 \in 1 .. Len(Program[o])
        BY <2>3, ProgramLengths
    <2>5. PlacesOK'
        <3>1. /\ kind' \in [Procs -> DOMAIN Program \cup {"none"}]
              /\ pc' \in [Procs -> Nat] /\ status' \in [Procs -> Statuses]
            BY <2>1, <2>2, <2>3, <1>inv DEF Statuses
        <3>2. Placed'
            BY <2>1, <2>2, <2>3, <2>4, <1>inv DEF Placed
        <3> QED BY <3>1, <3>2 DEF PlacesOK
    <2>6. \A q \in Procs : Untouched(q)
        BY <2>1, <2>2, <1>inv DEF Untouched
    <2> QED BY <2>5, <2>6
<1>resume. ASSUME NEW k, Resume(k)
           PROVE  /\ PlacesOK'
                  /\ \A q \in Procs : Untouched(q)
    <2>1. /\ status[k] = "awaiting" /\ status' = [status EXCEPT ![k] = "active"]
          /\ kind' = kind /\ pc' = pc
        BY <1>resume DEF Resume
    <2>2. status' \in [Procs -> Statuses]
        BY <2>1, <1>inv DEF Statuses
    <2>3. Placed'
        BY <2>1, <1>inv DEF Placed
    <2> QED BY <2>1, <2>2, <2>3, <1>inv DEF PlacesOK, Untouched
<1>start. CASE Start
    BY <1>start, <1>same, <1>call DEF Start, Create, ScaffoldRepository, procVars
<1>people. CASE People
    BY <1>people, <1>same, <1>resume
    DEF People, PeopleMerge, PeopleClose, PeopleDeleteBranch, Webhook, procVars
<1> QED BY <1>start, <1>people

-----------------------------------------------------------------------------
(* What a step does to the tables. *)

\* A pull request stays in its place, and a merged one stays merged.
PullsGrow ==
    /\ Len(pulls) <= Len(pulls')
    /\ \A n \in 1 .. Len(pulls) : pulls[n].state = "merged" => pulls'[n].state = "merged"

TablesOK ==
    /\ Tables /\ Numbers
    /\ held \in [Procs -> [id : Nat, url : Nat]]

\* Setting a pull request's state keeps the pull requests and the others' states.
LEMMA SetPull ==
    ASSUME Inv, NEW n \in 1 .. Len(pulls), NEW v,
           pulls' = [pulls EXCEPT ![n].state = v],
           v = "merged" \/ pulls[n].state # "merged",
           UNCHANGED <<changeSets, held>>
    PROVE  TablesOK' /\ PullsGrow
<1> DEFINE e == [pulls[n] EXCEPT !.state = v]
<1>1. pulls' = [pulls EXCEPT ![n] = e]
    OBVIOUS
<1>2. \A m \in 1 .. Len(pulls) : "state" \in DOMAIN pulls[m]
    BY DEF Inv, Tables
<1>3. e.state = v /\ "state" \in DOMAIN e
    BY <1>2
<1>4. IsSeq(pulls) /\ IsSeq(changeSets)
    BY DEF Inv, Tables
<1> HIDE DEF e
<1>5. DOMAIN pulls' = DOMAIN pulls /\ pulls' = [m \in DOMAIN pulls |-> pulls'[m]]
    BY <1>1
<1>6. /\ IsSeq(pulls') /\ Len(pulls') = Len(pulls) /\ Len(pulls) \in Nat
      /\ \A m \in 1 .. Len(pulls) : pulls'[m] = IF m = n THEN e ELSE pulls[m]
    <2>1. /\ IsSeq(pulls') /\ Len(pulls') = Len(pulls) /\ Len(pulls) \in Nat
          /\ DOMAIN pulls = 1 .. Len(pulls)
        BY <1>4, <1>5, SameDomain
    <2> QED BY <2>1, <1>1
<1>7. \A m \in 1 .. Len(pulls') : "state" \in DOMAIN pulls'[m]
    BY <1>2, <1>3, <1>6
<1>8. Tables' /\ Numbers'
    BY <1>4, <1>6, <1>7 DEF Inv, Tables, Numbers
<1>9. PullsGrow
    BY <1>3, <1>6 DEF PullsGrow
<1> QED BY <1>8, <1>9 DEF TablesOK, Inv, Locals

\* Nothing happens to the tables when nothing is written.
LEMMA SameTables ==
    ASSUME Inv, UNCHANGED <<changeSets, pulls, held>>
    PROVE  TablesOK' /\ PullsGrow
<1>1. IsSeq(pulls) /\ Len(pulls) \in Nat
    BY LenProperties DEF Inv, Tables, IsSeq
<1>2. Tables' /\ Numbers' /\ held' \in [Procs -> [id : Nat, url : Nat]]
    BY DEF Inv, Tables, Numbers, Locals
<1> QED BY <1>1, <1>2 DEF TablesOK, PullsGrow

\* A new change set has no pull request yet, and whoever recorded it holds it.
LEMMA RecordTables ==
    ASSUME Inv, NEW p \in Procs, CreateChangeSet(p)
    PROVE  TablesOK' /\ PullsGrow
<1> DEFINE e == NewChangeSet(p)
           h == [id |-> Len(changeSets) + 1, url |-> 0]
<1>1. /\ changeSets' = Append(changeSets, e) /\ held' = [held EXCEPT ![p] = h]
      /\ pulls' = pulls
    BY DEF CreateChangeSet, gitVars
<1>2. {"url", "status"} \subseteq DOMAIN e /\ e.url = 0 /\ e.status = "COMMITTED"
    BY DEF NewChangeSet
<1>3. IsSeq(changeSets) /\ IsSeq(pulls)
    BY DEF Inv, Tables
<1>4. Len(pulls) \in Nat
    BY <1>3, LenProperties DEF IsSeq
<1> HIDE DEF e
<1>5. /\ IsSeq(changeSets') /\ Len(changeSets') = Len(changeSets) + 1 /\ Len(changeSets) \in Nat
      /\ \A i \in 1 .. Len(changeSets) : changeSets'[i] = changeSets[i]
      /\ changeSets'[Len(changeSets) + 1] = e
    BY <1>1, <1>3, AppendFacts
<1>6. held \in [Procs -> [id : Nat, url : Nat]]
    BY DEF Inv, Locals
<1>7. /\ held' \in [Procs -> [id : Nat, url : Nat]]
      /\ held'[p] = h /\ \A q \in Procs \ {p} : held'[q] = held[q]
    BY <1>1, <1>5, <1>6
<1>8. \A q \in Procs : held'[q].id \in 0 .. Len(changeSets') /\ held'[q].url \in 0 .. Len(pulls')
    BY <1>1, <1>4, <1>5, <1>7 DEF Inv, Numbers
<1>9. \A i \in 1 .. Len(changeSets') :
        /\ {"url", "status"} \subseteq DOMAIN changeSets'[i]
        /\ changeSets'[i].url \in 0 .. Len(pulls')
        /\ changeSets'[i].status \in {"COMMITTED", "PR_CREATED", "MERGED", "SYNCED"}
    <2>1. \A i \in 1 .. Len(changeSets') : i \in 1 .. Len(changeSets) \/ i = Len(changeSets) + 1
        BY <1>5
    <2> QED BY <1>1, <1>2, <1>4, <1>5, <2>1 DEF Inv, Tables, Numbers
<1>10. Tables' /\ Numbers'
    BY <1>1, <1>3, <1>5, <1>8, <1>9 DEF Inv, Tables, Numbers
<1> QED BY <1>1, <1>4, <1>7, <1>10 DEF TablesOK, PullsGrow

\* A new pull request is open, and whoever opened it holds its number.
LEMMA OpenTables ==
    ASSUME Inv, NEW p \in Procs, CreatePullRequest(p)
    PROVE  TablesOK' /\ PullsGrow
<1> DEFINE e == NewPullRequest(BranchOf(p))
<1>1. \/ UNCHANGED <<changeSets, pulls, held>>
      \/ /\ pulls' = Append(pulls, e) /\ held' = [held EXCEPT ![p].url = Len(pulls) + 1]
         /\ changeSets' = changeSets
    BY DEF CreatePullRequest
<1>2. "state" \in DOMAIN e
    BY DEF NewPullRequest
<1>3. IsSeq(changeSets) /\ IsSeq(pulls)
    BY DEF Inv, Tables
<1>4. held \in [Procs -> [id : Nat, url : Nat]]
    BY DEF Inv, Locals
<1> HIDE DEF e
<1>opened. CASE /\ pulls' = Append(pulls, e) /\ held' = [held EXCEPT ![p].url = Len(pulls) + 1]
                /\ changeSets' = changeSets
    <2>1. /\ IsSeq(pulls') /\ Len(pulls') = Len(pulls) + 1 /\ Len(pulls) \in Nat
          /\ \A n \in 1 .. Len(pulls) : pulls'[n] = pulls[n]
          /\ pulls'[Len(pulls) + 1] = e
        BY <1>opened, <1>3, AppendFacts
    <2>2. /\ held' \in [Procs -> [id : Nat, url : Nat]]
          /\ held'[p].id = held[p].id /\ held'[p].url = Len(pulls) + 1
          /\ \A q \in Procs \ {p} : held'[q] = held[q]
        BY <1>opened, <1>4, <2>1
    <2>3. \A n \in 1 .. Len(pulls') : "state" \in DOMAIN pulls'[n]
        <3>1. \A n \in 1 .. Len(pulls') : n \in 1 .. Len(pulls) \/ n = Len(pulls) + 1
            BY <2>1
        <3> QED BY <1>2, <2>1, <3>1 DEF Inv, Tables
    <2>4. Tables'
        BY <1>opened, <1>3, <2>1, <2>3 DEF Inv, Tables
    <2>5. Numbers'
        BY <1>opened, <2>1, <2>2 DEF Inv, Numbers
    <2> QED BY <2>1, <2>2, <2>4, <2>5 DEF TablesOK, PullsGrow
<1> QED BY <1>1, <1>opened, SameTables

\* The newest change set is one there is.
LEMMA LatestTables ==
    ASSUME Inv, NEW p \in Procs, latestChangeSet(p)
    PROVE  TablesOK' /\ PullsGrow
<1>1. /\ changeSets' = changeSets /\ pulls' = pulls
      /\ \/ held' = held
         \/ \E last \in 1 .. Len(changeSets) : \E u \in {held[p].url, changeSets[last].url} :
                held' = [held EXCEPT ![p] = [id |-> last, url |-> u]]
    BY DEF latestChangeSet, ListChangeSetsForCluster, gitVars
<1>2. /\ held \in [Procs -> [id : Nat, url : Nat]]
      /\ Len(pulls) \in Nat /\ Len(changeSets) \in Nat
    BY LenProperties DEF Inv, Locals, Tables, IsSeq
<1>new. ASSUME NEW last \in 1 .. Len(changeSets), NEW u \in {held[p].url, changeSets[last].url},
               held' = [held EXCEPT ![p] = [id |-> last, url |-> u]]
        PROVE  TablesOK' /\ PullsGrow
    <2>1. u \in 0 .. Len(pulls)
        BY DEF Inv, Numbers
    <2>2. /\ held' \in [Procs -> [id : Nat, url : Nat]]
          /\ \A q \in Procs : held'[q] = IF q = p THEN [id |-> last, url |-> u] ELSE held[q]
        BY <1>new, <1>2, <2>1
    <2>3. Numbers'
        BY <1>1, <1>2, <2>1, <2>2, SMTT(30) DEF Inv, Numbers
    <2> QED BY <1>1, <1>2, <2>2, <2>3 DEF TablesOK, PullsGrow, Inv, Tables
<1> QED BY <1>1, <1>new, SameTables

\* Saving a change set writes the pull request that is held.
LEMMA UpdateTables ==
    ASSUME Inv, NEW p \in Procs, UpdateChangeSet(p)
    PROVE  TablesOK' /\ PullsGrow
<1> DEFINE marks == [link |-> "PR_CREATED", markMerged |-> "MERGED", markSynced |-> "SYNCED"]
<1>1. /\ held' = held /\ pulls' = pulls
      /\ Op(p) \in DOMAIN marks
      /\ changeSets' = [changeSets EXCEPT ![held[p].id].url = held[p].url,
                                          ![held[p].id].status = marks[Op(p)]]
    BY DEF UpdateChangeSet, gitVars
<1>2. PICK to \in {"PR_CREATED", "MERGED", "SYNCED"} : to = marks[Op(p)]
    BY <1>1
<1> HIDE DEF marks
<1>3. IsSeq(changeSets) /\ IsSeq(pulls)
    BY DEF Inv, Tables
<1>4. Len(pulls) \in Nat
    BY <1>3, LenProperties DEF IsSeq
<1>5. DOMAIN changeSets' = DOMAIN changeSets /\ changeSets' = [i \in DOMAIN changeSets |-> changeSets'[i]]
    BY <1>1
<1>6. /\ IsSeq(changeSets') /\ Len(changeSets') = Len(changeSets)
      /\ DOMAIN changeSets = 1 .. Len(changeSets)
    BY <1>3, <1>5, SameDomain
<1>7. \A i \in 1 .. Len(changeSets) : {"url", "status"} \subseteq DOMAIN changeSets[i]
    BY DEF Inv, Tables
<1>8. ASSUME NEW i \in 1 .. Len(changeSets)
      PROVE  /\ {"url", "status"} \subseteq DOMAIN changeSets'[i]
             /\ changeSets'[i].url \in 0 .. Len(pulls)
             /\ changeSets'[i].status \in {"COMMITTED", "PR_CREATED", "MERGED", "SYNCED"}
    <2>1. CASE i = held[p].id
        <3>1. changeSets'[i] = [changeSets[i] EXCEPT !.url = held[p].url, !.status = to]
            BY <2>1, <1>1, <1>2, <1>6
        <3> QED BY <3>1, <1>7 DEF Inv, Numbers
    <2>2. CASE i # held[p].id
        <3>1. changeSets'[i] = changeSets[i]
            BY <2>2, <1>1, <1>6
        <3> QED BY <3>1, <1>7 DEF Inv, Numbers
    <2> QED BY <2>1, <2>2
<1>9. Tables' /\ Numbers'
    BY <1>1, <1>3, <1>6, <1>8 DEF Inv, Tables, Numbers
<1> QED BY <1>1, <1>4, <1>9 DEF TablesOK, PullsGrow, Inv, Locals

\* Rollback merges the pull request it holds, if that one can be merged.
LEMMA MergeTables ==
    ASSUME Inv, NEW p \in Procs, MergePullRequest(p)
    PROVE  TablesOK' /\ PullsGrow
<1> DEFINE n == held[p].url
<1>1. /\ changeSets' = changeSets /\ held' = held
      /\ \/ pulls' = pulls
         \/ pulls[n].state = "open" /\ pulls' = [pulls EXCEPT ![n].state = "merged"]
    BY DEF MergePullRequest, Mergeable, Merge
<1>2. n \in 0 .. Len(pulls) /\ Len(pulls) \in Nat /\ DOMAIN pulls = 1 .. Len(pulls)
      /\ pulls = [m \in DOMAIN pulls |-> pulls[m]]
    BY LenProperties DEF Inv, Numbers, Tables, IsSeq
<1> HIDE DEF n
<1>3. CASE n \in 1 .. Len(pulls)
    BY <1>1, <1>3, SetPull, SameTables
<1>4. CASE n = 0
    <2>1. pulls' = pulls
        BY <1>1, <1>2, <1>4
    <2> QED BY <1>1, <2>1, SameTables
<1> QED BY <1>2, <1>3, <1>4

\* The tables are sound after every step.
LEMMA NextTables ==
    ASSUME Inv, [Next]_vars
    PROVE  TablesOK' /\ PullsGrow
<1>quiet. CASE UNCHANGED <<changeSets, pulls, held>>
    BY <1>quiet, SameTables
<1>step. ASSUME NEW p \in Procs, Step(p)
         PROVE  TablesOK' /\ PullsGrow
    <2>rows. CASE \/ Load(p) \/ Check(p) \/ transitionAndSave(p) \/ Delete(p) \/ markReady(p)
                  \/ Claim(p) \/ Retarget(p) \/ Resize(p) \/ Enqueue(p)
        BY <2>rows, <1>quiet
        DEF Load, Check, transitionAndSave, Delete, markReady, Transition, Claim, Retarget,
            Resize, Enqueue, gitVars
    <2>git. CASE \/ Skip(p) \/ Revert(p) \/ CreateBranch(p) \/ Commit(p) \/ Gate(p) \/ Sync(p)
                 \/ waitForClusterAPIReady(p) \/ checkTalosHealth(p)
                 \/ CallFails(p) \/ Crash(p)
        BY <2>git, <1>quiet
        DEF Skip, Revert, CreateBranch, Commit, Gate, Sync, waitForClusterAPIReady,
            checkTalosHealth, CallFails, Crash, gitVars
    <2>writes. CASE \/ CreateChangeSet(p) \/ CreatePullRequest(p) \/ latestChangeSet(p)
                    \/ UpdateChangeSet(p) \/ MergePullRequest(p)
        BY <2>writes, RecordTables, OpenTables, LatestTables, UpdateTables, MergeTables
    <2> QED BY <2>rows, <2>git, <2>writes, <1>step DEF Step
<1>people. CASE People
    <2>pull. ASSUME NEW n \in 1 .. Len(pulls), PeopleMerge(n) \/ PeopleClose(n)
             PROVE  TablesOK' /\ PullsGrow
        <3>1. /\ pulls[n].state = "open" /\ UNCHANGED <<changeSets, held>>
              /\ \E v \in {"merged", "closed"} : pulls' = [pulls EXCEPT ![n].state = v]
            BY <2>pull DEF PeopleMerge, PeopleClose, Mergeable, Merge, procVars
        <3> QED BY <3>1, SetPull
    <2>other. ASSUME NEW n, PeopleDeleteBranch(n) \/ Webhook(n) \/ Resume(n)
              PROVE  UNCHANGED <<changeSets, pulls, held>>
        BY <2>other DEF PeopleDeleteBranch, Webhook, Resume, procVars, gitVars
    <2> QED BY <2>pull, <2>other, <1>quiet, <1>people DEF People
<1>start. CASE Start
    BY <1>start, <1>quiet DEF Start, Create, ScaffoldRepository, Call, procVars, gitVars
<1>stutter. CASE UNCHANGED vars
    BY <1>stutter, <1>quiet DEF vars
<1> QED BY <1>step, <1>people, <1>start, <1>stutter DEF Next

-----------------------------------------------------------------------------
(* What a step does to the row and its copies. *)

\* Who takes a step is inside a program.
LEMMA StepHere ==
    ASSUME Inv, NEW p \in Procs, Step(p)
    PROVE  kind[p] \in DOMAIN Program /\ pc[p] \in 1 .. Len(Program[kind[p]])
<1>1. status[p] = "active"
    BY StepGoes
<1> QED BY <1>1 DEF Inv, Locals, Placed

Writes(p) ==
    transitionAndSave(p) \/ Delete(p) \/ markReady(p) \/ Claim(p) \/ Retarget(p) \/ Resize(p)

\* What was saved: a cluster whose state is known, and that was merged if its
\* state says that it is installed.
Saved(p, c) ==
    /\ cluster' = c /\ row' = [row EXCEPT ![p] = c]
    /\ {"state", "spec"} \subseteq DOMAIN c /\ c.state \in States
    /\ c.state \in Installed => MergedSomewhere

\* Every write refuses, changes nothing, or saves such a cluster.
LEMMA WriteFacts ==
    ASSUME Inv, NEW p \in Procs, Writes(p)
    PROVE  UNCHANGED <<cluster, row>> \/ \E c : Saved(p, c)
<1>here. kind[p] \in DOMAIN Program /\ pc[p] \in 1 .. Len(Program[kind[p]])
    BY StepHere DEF Step, Writes
<1> DEFINE r == row[p]
<1>row. {"state", "spec"} \subseteq DOMAIN r
    BY DEF Inv, Rows, IsRow
<1>merged. r.state \in Installed \/ BehindGate(p) => MergedSomewhere
    BY DEF Inv, Merged
<1>states. /\ States = {"DRAFT", "PLANNING", "VALIDATING", "PROVISIONING", "BOOTSTRAPPING",
                        "INSTALLING", "CONFIGURING", "READY", "DEGRADED", "UPGRADING", "FAILED",
                        "DELETING", "DELETED"}
    BY DEF States, validTransitions
<1>inside. Op(p) \notin StepHeads => r.state \in States
    BY <1>here DEF Inv, Loaded, Program
<1>onwards. ASSUME NEW s \in {"CONFIGURING", "UPGRADING", "READY"}, CanTransition(r.state, s),
                   Op(p) \notin StepHeads
            PROVE  MergedSomewhere
    <2>1. r.state \in Installed
        BY <1>onwards, <1>inside, <1>states DEF CanTransition, validTransitions, Installed
    <2> QED BY <2>1, <1>merged
<1>to. ASSUME NEW s \in States, Save(p, [r EXCEPT !.state = s]),
              s \in Installed => MergedSomewhere
       PROVE  \E c : Saved(p, c)
    <2> DEFINE c == [r EXCEPT !.state = s]
    <2>1. c.state = s /\ {"state", "spec"} \subseteq DOMAIN c
        BY <1>row
    <2> HIDE DEF c, r
    <2>2. cluster' = c /\ row' = [row EXCEPT ![p] = c]
        BY <1>to DEF Save, c
    <2> QED BY <2>1, <2>2, <1>to DEF Saved
<1>transition. CASE transitionAndSave(p)
    <2>1. CASE UNCHANGED <<cluster, row>>
        BY <2>1
    <2>2. CASE CanTransition(r.state, Op(p)) /\ Save(p, [r EXCEPT !.state = Op(p)])
        <3>1. Op(p) \in {"BOOTSTRAPPING", "INSTALLING", "CONFIGURING", "UPGRADING", "READY"}
            BY <1>transition DEF transitionAndSave
        <3>2. Op(p) = "INSTALLING" => MergedSomewhere
            BY <1>here, <1>merged, ProgramFacts DEF Op, BehindGate
        <3>3. Op(p) \in {"CONFIGURING", "UPGRADING", "READY"} => MergedSomewhere
            BY <2>2, <1>onwards DEF StepHeads
        <3> QED BY <3>1, <3>2, <3>3, <2>2, <1>to, <1>states DEF Installed
    <2> QED BY <2>1, <2>2, <1>transition DEF transitionAndSave, Refuse
<1>delete. CASE Delete(p)
    <2>1. UNCHANGED <<cluster, row>> \/ Save(p, [r EXCEPT !.state = "DELETING"])
        BY <1>delete DEF Delete, Transition, Refuse
    <2> QED BY <2>1, <1>to, <1>states DEF Installed
<1>ready. CASE markReady(p)
    <2>1. \/ UNCHANGED <<cluster, row>>
          \/ CanTransition(r.state, "READY") /\ Save(p, [r EXCEPT !.state = "READY"])
        BY <1>ready DEF markReady, Transition, Refuse
    <2>2. Op(p) \notin StepHeads
        BY <1>ready DEF markReady, At, StepHeads
    <2> QED BY <2>1, <2>2, <1>to, <1>onwards, <1>states
<1>claim. CASE Claim(p)
    <2>1. UNCHANGED <<cluster, row>> \/ Save(p, [r EXCEPT !.state = "PROVISIONING"])
        BY <1>claim DEF Claim, Refuse
    <2> QED BY <2>1, <1>to, <1>states DEF Installed
<1>spec. ASSUME NEW c, Op(p) \in {"retarget", "resize"}, Save(p, c),
                {"state", "spec"} \subseteq DOMAIN c, c.state = r.state
         PROVE  Saved(p, c)
    <2>1. r.state \in States
        BY <1>spec, <1>inside DEF StepHeads
    <2> QED BY <2>1, <1>spec, <1>merged DEF Save, Saved
<1>retarget. CASE Retarget(p)
    <2> DEFINE t == request[p].target
               Chosen(new, old) == IF new = Unset THEN old ELSE new
               c == [r EXCEPT !.spec.k8s = Chosen(t[1], @), !.spec.talos = Chosen(t[2], @)]
    <2>1. UNCHANGED <<cluster, row>> \/ Save(p, c)
        BY <1>retarget DEF Retarget, Refuse
    <2>2. {"state", "spec"} \subseteq DOMAIN c /\ c.state = r.state
        BY <1>row
    <2>3. Op(p) = "retarget"
        BY <1>retarget DEF Retarget, At
    <2> HIDE DEF c, r
    <2> QED BY <2>1, <2>2, <2>3, <1>spec
<1>resize. CASE Resize(p)
    <2> DEFINE c(i) == [r EXCEPT !.spec.pools[i].replicas = request[p].size]
    <2>1. UNCHANGED <<cluster, row>> \/ \E i : Save(p, c(i))
        BY <1>resize DEF Resize, Refuse
    <2>2. \A i : {"state", "spec"} \subseteq DOMAIN c(i) /\ c(i).state = r.state
        BY <1>row
    <2>3. Op(p) = "resize"
        BY <1>resize DEF Resize, At
    <2> HIDE DEF c, r
    <2> QED BY <2>1, <2>2, <2>3, <1>spec
<1> QED BY <1>transition, <1>delete, <1>ready, <1>claim, <1>retarget, <1>resize DEF Writes

\* A step of p loads the row, writes it, or leaves it and its copies alone.
LEMMA StepRows ==
    ASSUME NEW p, Step(p)
    PROVE  Load(p) \/ Writes(p) \/ UNCHANGED <<cluster, row>>
<1>calls. CASE \/ Check(p) \/ Enqueue(p) \/ Skip(p) \/ Gate(p) \/ Sync(p)
               \/ waitForClusterAPIReady(p) \/ checkTalosHealth(p) \/ CallFails(p) \/ Crash(p)
    BY <1>calls DEF Check, Enqueue, Skip, Gate, Sync, waitForClusterAPIReady, checkTalosHealth,
                    CallFails, Crash
<1>git. CASE \/ Revert(p) \/ CreateBranch(p) \/ Commit(p) \/ CreateChangeSet(p)
             \/ CreatePullRequest(p) \/ latestChangeSet(p) \/ UpdateChangeSet(p)
             \/ MergePullRequest(p)
    BY <1>git DEF Revert, CreateBranch, Commit, CreateChangeSet, CreatePullRequest,
                  latestChangeSet, UpdateChangeSet, MergePullRequest
<1> QED BY <1>calls, <1>git DEF Step, Writes

\* The row and its copies after a step.
RowsAfter ==
    /\ Rows' /\ DOMAIN row' = Procs
    /\ cluster.state \in States => cluster'.state \in States
    /\ cluster'.state \in Installed => MergedSomewhere
    /\ \A q \in Procs :
        /\ row'[q].state \in Installed => MergedSomewhere
        /\ row[q].state \in States /\ cluster.state \in States => row'[q].state \in States

\* They are sound after every step, and no known cluster is forgotten.
LEMMA NextRows ==
    ASSUME Inv, [Next]_vars
    PROVE  RowsAfter
<1>inv. /\ IsRow(cluster) /\ DOMAIN row = Procs
        /\ \A q \in Procs : IsRow(row[q])
        /\ cluster.state \in Installed => MergedSomewhere
        /\ \A q \in Procs : row[q].state \in Installed => MergedSomewhere
    BY DEF Inv, Rows, Locals, Merged
<1>same. CASE UNCHANGED <<cluster, row>>
    BY <1>same, <1>inv DEF RowsAfter, Rows, IsRow
<1>load. ASSUME NEW p \in Procs, Load(p)
         PROVE  RowsAfter
    <2>1. cluster' = cluster /\ row' = [row EXCEPT ![p] = cluster]
        BY <1>load DEF Load
    <2>2. \A q \in Procs : row'[q] = IF q = p THEN cluster ELSE row[q]
        BY <2>1, <1>inv
    <2> QED BY <2>1, <2>2, <1>inv DEF RowsAfter, Rows, IsRow
<1>saved. ASSUME NEW p \in Procs, NEW c, Saved(p, c)
          PROVE  RowsAfter
    <2>1. \A q \in Procs : row'[q] = IF q = p THEN c ELSE row[q]
        BY <1>saved, <1>inv DEF Saved
    <2>2. DOMAIN row' = Procs
        BY <1>saved, <1>inv DEF Saved
    <2> QED BY <2>1, <2>2, <1>saved, <1>inv DEF Saved, RowsAfter, Rows, IsRow
<1>create. CASE Create
    <2>1. PICK s \in Specs : cluster' = [state |-> "DRAFT", spec |-> s]
        BY <1>create DEF Create, NewCluster
    <2>2. row' = row
        BY <1>create DEF Create, procVars
    <2>3. "DRAFT" \in States /\ "DRAFT" \notin Installed
        BY DEF States, validTransitions, Installed
    <2> QED BY <2>1, <2>2, <2>3, <1>inv DEF RowsAfter, Rows, IsRow
<1>step. ASSUME NEW p \in Procs, Step(p)
         PROVE  RowsAfter
    BY <1>step, <1>same, <1>load, <1>saved, StepRows, WriteFacts
<1>start. CASE Start
    BY <1>start, <1>same, <1>create DEF Start, ScaffoldRepository, Call, procVars
<1>people. CASE People
    BY <1>people, <1>same
    DEF People, PeopleMerge, PeopleClose, PeopleDeleteBranch, Webhook, Resume, procVars
<1>stutter. CASE UNCHANGED vars
    BY <1>stutter, <1>same DEF vars
<1> QED BY <1>step, <1>start, <1>people, <1>stutter DEF Next

-----------------------------------------------------------------------------
(* The invariant. *)

\* Whoever gets from a load into a step has loaded a cluster that exists.
LEMMA LoadPassed ==
    ASSUME Inv, NEW p \in Procs, Step(p), Op(p) = "load",
           pc'[p] # pc[p], Program[kind[p]][pc'[p]] \notin StepHeads
    PROVE  Load(p) /\ scanCluster
<1>here. kind[p] \in DOMAIN Program /\ pc[p] \in 1 .. Len(Program[kind[p]])
    BY StepHere
<1>inv. pc \in [Procs -> Nat]
    BY DEF Inv, Locals
<1>1. ~CallFails(p)
    BY <1>inv DEF CallFails, Fail
<1>2. ~Crash(p)
    BY <1>inv DEF Crash, Fail, SkipStep, NextStep
<1>3. Load(p)
    <2>rows. ~Check(p) /\ ~transitionAndSave(p) /\ ~Delete(p) /\ ~markReady(p) /\ ~Claim(p)
        BY DEF Check, transitionAndSave, Delete, markReady, Claim, At
    <2>calls. ~Retarget(p) /\ ~Resize(p) /\ ~Enqueue(p) /\ ~Skip(p) /\ ~Revert(p)
        BY DEF Retarget, Resize, Enqueue, Skip, Revert, At
    <2>git. ~CreateBranch(p) /\ ~Commit(p) /\ ~CreateChangeSet(p) /\ ~CreatePullRequest(p)
        BY DEF CreateBranch, Commit, CreateChangeSet, CreatePullRequest, Doing, At
    <2>sets. ~latestChangeSet(p) /\ ~UpdateChangeSet(p) /\ ~Gate(p) /\ ~MergePullRequest(p)
        BY DEF latestChangeSet, UpdateChangeSet, Gate, MergePullRequest, Doing, At
    <2>waits. ~Sync(p) /\ ~waitForClusterAPIReady(p) /\ ~checkTalosHealth(p)
        BY DEF Sync, waitForClusterAPIReady, checkTalosHealth, Doing, At
    <2> QED BY <2>rows, <2>calls, <2>git, <2>sets, <2>waits, <1>1, <1>2 DEF Step
<1>4. scanCluster
    BY <1>3, <1>inv DEF Load, Demand, Fail
<1> QED BY <1>3, <1>4

\* Whoever gets into a step loads the row, and finds a cluster.
LEMMA StepEntered ==
    ASSUME Inv, NEW p \in Procs, Step(p), Op(p) \in StepHeads, Op(p)' \notin StepHeads
    PROVE  Load(p) /\ cluster.state \in States /\ row'[p].state \in States
<1>here. kind[p] \in DOMAIN Program /\ pc[p] \in 1 .. Len(Program[kind[p]])
    BY StepHere
<1>places. PlacesOK' /\ Came(p) /\ pc[p] \in Nat
    BY StepPlaces DEF Inv, Locals
<1>1. /\ kind'[p] = kind[p] /\ pc'[p] = pc[p] + 1
      /\ Program[kind[p]][pc'[p]] \notin StepHeads
    BY <1>places DEF Came, Op
<1>next. pc'[p] \in 1 .. Len(Program[kind[p]])
    BY <1>1, <1>places, <1>here DEF PlacesOK, Placed, Program
<1>load. Op(p) = "load"
    <2>1. pc'[p] - 1 = pc[p]
        BY <1>1, <1>places
    <2> QED BY <2>1, <1>1, <1>next, <1>here, ProgramFacts DEF Op
<1>2. Load(p) /\ scanCluster
    BY <1>1, <1>load, <1>places, LoadPassed
<1>3. cluster.state \in States
    BY <1>2 DEF scanCluster, Inv, Rows, IsRow
<1>4. row'[p] = cluster
    BY <1>2 DEF Load, Inv, Locals
<1> QED BY <1>2, <1>3, <1>4

\* A provisioning run gets behind its gate only when a pull request was merged.
LEMMA GatePassed ==
    ASSUME Inv, NEW p \in Procs, Step(p), kind[p] = "CLUSTER_PROVISION",
           pc[p] = 15, pc'[p] = 16
    PROVE  MergedSomewhere
<1>here. kind[p] \in DOMAIN Program /\ pc[p] \in 1 .. Len(Program[kind[p]])
    BY StepHere
<1>inv. DOMAIN pc = Procs
    BY DEF Inv, Locals
<1>next. Program[kind[p]][16] \notin StepHeads
    <2>1. Len(Program[kind[p]]) = 27
        BY <1>here, ProgramFacts
    <2>2. 16 \in 1 .. Len(Program[kind[p]])
        BY <2>1
    <2> QED BY <2>2, <1>here, ProgramFacts
<1>1. Op(p) = "gate"
    BY <1>here, ProgramFacts DEF Op
<1>2. ~CallFails(p)
    BY <1>1, <1>inv DEF CallFails, Fail
<1>3. ~Crash(p)
    BY <1>inv, <1>next DEF Crash, Fail, SkipStep, NextStep
<1>4. ~Skip(p)
    BY <1>1 DEF Skip, Skips
<1>5. Gate(p)
    <2>rows. ~Load(p) /\ ~Check(p) /\ ~transitionAndSave(p) /\ ~Delete(p) /\ ~markReady(p)
        BY <1>1 DEF Load, Check, transitionAndSave, Delete, markReady, At
    <2>calls. ~Claim(p) /\ ~Retarget(p) /\ ~Resize(p) /\ ~Enqueue(p) /\ ~Revert(p)
        BY <1>1 DEF Claim, Retarget, Resize, Enqueue, Revert, At
    <2>git. ~CreateBranch(p) /\ ~Commit(p) /\ ~CreateChangeSet(p) /\ ~CreatePullRequest(p)
        BY <1>1 DEF CreateBranch, Commit, CreateChangeSet, CreatePullRequest, Doing, At
    <2>sets. ~latestChangeSet(p) /\ ~UpdateChangeSet(p) /\ ~MergePullRequest(p)
        BY <1>1 DEF latestChangeSet, UpdateChangeSet, MergePullRequest, Doing, At
    <2>waits. ~Sync(p) /\ ~waitForClusterAPIReady(p) /\ ~checkTalosHealth(p)
        BY <1>1 DEF Sync, waitForClusterAPIReady, checkTalosHealth, Doing, At
    <2> QED BY <2>rows, <2>calls, <2>git, <2>sets, <2>waits, <1>2, <1>3, <1>4 DEF Step
<1>6. \E n \in prNumberFromURL(held[p].url) : GetPullRequest(n) = "merged"
    <2>1. StepStart(p) \in 1 .. 15
        BY <1>here, StepStartFacts
    <2> QED BY <2>1, <1>5, <1>inv DEF Gate, Fail
<1>7. held[p].url \in 0 .. Len(pulls) /\ Len(pulls) \in Nat
    BY LenProperties DEF Inv, Numbers, Tables, IsSeq
<1> QED BY <1>6, <1>7 DEF prNumberFromURL, GetPullRequest, MergedSomewhere

\* Places after any step, with what became of each.
LEMMA NextPlaces ==
    ASSUME Inv, [Next]_vars
    PROVE  /\ PlacesOK'
           /\ \A q \in Procs : Untouched(q) \/ (Step(q) /\ Came(q))
<1>step. ASSUME NEW p \in Procs, Step(p)
         PROVE  PlacesOK' /\ \A q \in Procs : Untouched(q) \/ (Step(q) /\ Came(q))
    <2>1. /\ PlacesOK' /\ Came(p)
          /\ \A q \in Procs \ {p} : pc'[q] = pc[q] /\ (kind'[q] = kind[q] \/ pc[q] = 1)
        BY <1>step, StepPlaces
    <2> QED BY <2>1, <1>step DEF Untouched
<1>stutter. CASE UNCHANGED vars
    BY <1>stutter DEF vars, PlacesOK, Placed, Untouched, Inv, Locals
<1> QED BY <1>step, <1>stutter, OtherPlaces DEF Next

\* Inside a step a process holds a copy of a cluster that exists, still.
LEMMA NextLoaded ==
    ASSUME Inv, [Next]_vars
    PROVE  Loaded'
<1> SUFFICES ASSUME NEW q \in Procs, kind'[q] # "none", Op(q)' \notin StepHeads
             PROVE  row'[q].state \in States /\ cluster'.state \in States
    BY DEF Loaded
<1>inv. PlacesOK' /\ RowsAfter
    BY NextPlaces, NextRows
<1>past. CASE kind[q] # "none" /\ Op(q) \notin StepHeads
    BY <1>past, <1>inv DEF RowsAfter, Inv, Loaded
<1>enters. CASE ~(kind[q] # "none" /\ Op(q) \notin StepHeads)
    <2>1. ~Untouched(q)
        <3>1. kind'[q] \in DOMAIN Program
            BY <1>inv DEF PlacesOK
        <3>2. pc'[q] # 1
            BY <3>1, ProgramLengths, ProgramFacts DEF Op
        <3> QED BY <3>2, <1>enters DEF Untouched, Op
    <2>2. Step(q)
        BY <2>1, NextPlaces
    <2>3. kind[q] # "none"
        BY <2>2, StepHere DEF Program
    <2>4. cluster.state \in States /\ row'[q].state \in States
        BY <2>2, <2>3, <1>enters, StepEntered
    <2> QED BY <2>4, <1>inv DEF RowsAfter
<1> QED BY <1>past, <1>enters

\* What is installed was merged, still.
LEMMA NextMerged ==
    ASSUME Inv, [Next]_vars
    PROVE  Merged'
<1>inv. pc \in [Procs -> Nat] /\ PlacesOK' /\ RowsAfter /\ PullsGrow
    BY NextPlaces, NextRows, NextTables DEF Inv, Locals
<1>grow. MergedSomewhere => MergedSomewhere'
    <2>1. Len(pulls) \in Nat /\ Len(pulls') \in Nat
        BY NextTables, LenProperties DEF Inv, TablesOK, Tables, IsSeq
    <2> QED BY <2>1, <1>inv DEF MergedSomewhere, PullsGrow
<1>gate. ASSUME NEW q \in Procs, BehindGate(q)'
         PROVE  MergedSomewhere
    <2>past. CASE BehindGate(q)
        BY <2>past DEF Inv, Merged
    <2>first. CASE ~BehindGate(q)
        <3>1. Step(q) /\ kind[q] = "CLUSTER_PROVISION" /\ pc[q] = 15 /\ pc'[q] = 16
            <4>1. kind'[q] = "CLUSTER_PROVISION" /\ pc'[q] \in {16, 17}
                BY <1>gate DEF BehindGate
            <4>2. Step(q) /\ Came(q) /\ pc[q] \in Nat
                BY <4>1, <2>first, <1>inv, NextPlaces DEF Untouched, BehindGate
            <4>3. kind[q] = "CLUSTER_PROVISION" /\ Len(Program[kind[q]]) = 27
                BY <4>1, <4>2, StepHere, ProgramFacts DEF Came
            <4>4. Program[kind[q]][pc'[q]] \notin StepHeads
                BY <4>1, <4>2, <4>3, StepHere, ProgramFacts
            <4> QED BY <4>1, <4>2, <4>3, <4>4, <2>first DEF Came, BehindGate
        <3> QED BY <3>1, GatePassed
    <2> QED BY <2>past, <2>first
<1> QED BY <1>inv, <1>grow, <1>gate DEF Merged, RowsAfter

\* Faults are counted, one at a time.
Counted == faults' = faults \/ CallLost \/ WorkerLost

LEMMA NextFaults ==
    ASSUME [Next]_vars
    PROVE  Counted
<1>same. CASE faults' = faults
    BY <1>same DEF Counted
<1>step. ASSUME NEW p \in Procs, Step(p)
         PROVE  Counted
    <2>faults. CASE CallFails(p) \/ Crash(p)
        BY <2>faults DEF CallFails, Crash, Counted
    <2>rows. CASE \/ Load(p) \/ Check(p) \/ transitionAndSave(p) \/ Delete(p) \/ markReady(p)
                  \/ Claim(p) \/ Retarget(p) \/ Resize(p) \/ Enqueue(p)
        BY <2>rows, <1>same
        DEF Load, Check, transitionAndSave, Delete, markReady, Transition, Claim, Retarget,
            Resize, Enqueue
    <2>git. CASE \/ Skip(p) \/ Revert(p) \/ CreateBranch(p) \/ Commit(p) \/ Gate(p) \/ Sync(p)
                 \/ waitForClusterAPIReady(p) \/ checkTalosHealth(p)
        BY <2>git, <1>same
        DEF Skip, Revert, CreateBranch, Commit, Gate, Sync, waitForClusterAPIReady,
            checkTalosHealth
    <2>sets. CASE \/ CreateChangeSet(p) \/ CreatePullRequest(p) \/ latestChangeSet(p)
                  \/ UpdateChangeSet(p) \/ MergePullRequest(p)
        BY <2>sets, <1>same
        DEF CreateChangeSet, CreatePullRequest, latestChangeSet, UpdateChangeSet, MergePullRequest
    <2> QED BY <2>faults, <2>rows, <2>git, <2>sets, <1>step DEF Step
<1>start. CASE Start
    BY <1>start, <1>same DEF Start, Create, ScaffoldRepository, Call
<1>people. CASE People
    BY <1>people, <1>same
    DEF People, PeopleMerge, PeopleClose, PeopleDeleteBranch, Webhook, Resume
<1>stutter. CASE UNCHANGED vars
    BY <1>stutter, <1>same DEF vars
<1> QED BY <1>step, <1>start, <1>people, <1>stutter DEF Next

LEMMA FaultsTyped ==
    ASSUME Inv, Counted
    PROVE  faults' \in [calls : 0 .. MaxFaults, deaths : 0 .. MaxFaults]
<1>1. faults \in [calls : 0 .. MaxFaults, deaths : 0 .. MaxFaults] /\ MaxFaults \in Nat
    BY ClusterAssumption DEF Inv
<1>2. CASE CallLost
    BY <1>1, <1>2 DEF CallLost
<1>3. CASE WorkerLost
    BY <1>1, <1>3 DEF WorkerLost
<1> QED BY <1>1, <1>2, <1>3 DEF Counted

\* The invariant holds at first,
LEMMA Initially == Init => Inv
<1> SUFFICES ASSUME Init
             PROVE  Inv
    OBVIOUS
<1>1. /\ changeSets = <<>> /\ pulls = <<>>
      /\ Len(changeSets) = 0 /\ Len(pulls) = 0
      /\ IsSeq(<<>>)
    BY EmptySeq DEF Init, IsSeq
<1>2. Tables /\ Numbers
    BY <1>1 DEF Init, Tables, Numbers
<1>3. Locals /\ Placed /\ Loaded
    BY DEF Init, Locals, Placed, Loaded, Statuses, Program
<1>4. Rows /\ Merged
    BY DEF Init, Rows, IsRow, NoCluster, Merged, BehindGate, Installed
<1>5. faults \in [calls : 0 .. MaxFaults, deaths : 0 .. MaxFaults]
    BY ClusterAssumption DEF Init
<1> QED BY <1>1, <1>2, <1>3, <1>4, <1>5 DEF Inv

\* every step keeps it,
LEMMA Inductive == Inv /\ [Next]_vars => Inv'
<1> SUFFICES ASSUME Inv, [Next]_vars
             PROVE  Inv'
    OBVIOUS
<1>1. TablesOK' /\ PlacesOK' /\ RowsAfter
    BY NextTables, NextPlaces, NextRows
<1>2. Loaded' /\ Merged' /\ faults' \in [calls : 0 .. MaxFaults, deaths : 0 .. MaxFaults]
    BY NextLoaded, NextMerged, NextFaults, FaultsTyped
<1> QED BY <1>1, <1>2 DEF Inv, TablesOK, PlacesOK, RowsAfter, Locals

\* and so it always holds.
THEOREM Invariance == Spec => []Inv
BY Initially, Inductive, PTL DEF Spec

\* Every variable keeps to its kind: programs are never left, and the pull
\* requests and change sets that are named exist.
THEOREM TypeCorrect == Spec => []TypeOK
<1>1. Inv => TypeOK
    BY DEF Inv, TypeOK, Locals, Placed, Rows, IsRow, Numbers, Statuses
<1> QED BY <1>1, Invariance, PTL

\* A cluster is installed, and anything about it upgraded, only after a pull
\* request of it was merged, however requests and runs overlap, fail or die
\* (cluster_provision.go, await-pull-request-merge).
THEOREM InstalledWereMerged == Spec => []InstalledWasMerged
<1>1. Inv => InstalledWasMerged
    BY DEF Inv, Merged, InstalledWasMerged, Installed
<1> QED BY <1>1, Invariance, PTL

=============================================================================
