-------------------------- MODULE ClusterGitProofs --------------------------
(***************************************************************************)
(* While a cluster is operated on by one request or run at a time, and     *)
(* until a worker dies in a step: a run gets past its approval gate only   *)
(* when its own pull request was merged, change sets only go forward, and  *)
(* a run of a managed cluster that completes had its files merged, for any *)
(* number of callers, keys, specs, change sets and failed calls.           *)
(*                                                                         *)
(* The argument: a run makes its calls one after the other and goes back   *)
(* only from its gate, to the start of the gate's own step. So it records  *)
(* one change set, before that step, and as nobody else records one        *)
(* meanwhile it is the newest that the gate finds. Nobody deletes branches *)
(* while somebody is at work.                                              *)
(***************************************************************************)
EXTENDS ClusterSerialProofs

\* The programs that record a change set, and where their calls are. Rollback
\* has no gate.
Gitters == {"CLUSTER_PROVISION", "CLUSTER_UPGRADE", "WORKER_SCALE", "Rollback"}

BranchAt(k) == CASE k = "CLUSTER_PROVISION" -> 6 [] k = "CLUSTER_UPGRADE" -> 4 [] OTHER -> 3

RecordAt(k) == BranchAt(k) + 2

OpenAt(k) == CASE k = "CLUSTER_PROVISION" -> 10 [] k = "CLUSTER_UPGRADE" -> 7 [] OTHER -> 6

LinkAt(k) == CASE k = "CLUSTER_PROVISION" -> 12 [] k = "CLUSTER_UPGRADE" -> 8 [] OTHER -> 7

GateAt(k) ==
    CASE k = "CLUSTER_PROVISION" -> 15 [] k = "CLUSTER_UPGRADE" -> 11
      [] k = "WORKER_SCALE" -> 10 [] OTHER -> 13

SyncedAt(k) ==
    CASE k = "CLUSTER_PROVISION" -> 21 [] k = "CLUSTER_UPGRADE" -> 14
      [] k = "WORKER_SCALE" -> 13 [] OTHER -> 11

\* p goes through Git.
ByGit(p) ==
    \/ kind[p] \in {"CLUSTER_PROVISION", "Rollback"}
    \/ kind[p] \in {"CLUSTER_UPGRADE", "WORKER_SCALE"} /\ cluster.spec.mode = "CLUSTER_API"

Works(p) == ~Ended(p) /\ ByGit(p)

Last == changeSets[Len(changeSets)]

\* The change set that p works on is the newest, p recorded it, and p holds it.
Holds(p) ==
    /\ pc[p] > RecordAt(kind[p]) =>
        /\ Len(changeSets) > 0 /\ held[p].id = Len(changeSets)
        /\ Last.run = (IF p \in Keys THEN p ELSE "none")
        /\ pc[p] <= LinkAt(kind[p]) => Last.status = "COMMITTED"
        /\ pc[p] <= SyncedAt(kind[p]) => Last.status # "SYNCED"
    /\ pc[p] >= GateAt(kind[p]) => held[p].url = Last.url

\* A tree has every file of the spec that the row holds.
Carries(tree) ==
    LET want == renderManifestSet(cluster.spec)
    IN  \A f \in DOMAIN want : Agree(tree, want, f)

\* What run k was asked for is on its branch, then in its pull request.
Asked(k) ==
    /\ pc[k] > BranchAt(kind[k]) /\ pc[k] <= LinkAt(kind[k]) => BranchOf(k) \in DOMAIN branches
    /\ pc[k] > BranchAt(kind[k]) + 1 /\ pc[k] <= LinkAt(kind[k]) =>
        Carries(branches[BranchOf(k)].tip)
    /\ pc[k] > OpenAt(kind[k]) /\ pc[k] <= LinkAt(kind[k]) =>
        held[k].url # 0 /\ Carries(pulls[held[k].url].tree)
    /\ pc[k] > LinkAt(kind[k]) => Last.url # 0 /\ Carries(pulls[Last.url].tree)

\* A run records one change set, and is past that.
Once(k) ==
    \A i \in 1 .. Len(changeSets) : changeSets[i].run = k =>
        i = Len(changeSets) /\ ByGit(k) /\ pc[k] > RecordAt(kind[k])

\* A key that has no run has no change set.
Fresh(k) == kind[k] = "none" => \A i \in 1 .. Len(changeSets) : changeSets[i].run # k

\* Who waits for the approval has linked its pull request.
Waits(p) == status[p] = "awaiting" => ByGit(p) /\ pc[p] > LinkAt(kind[p])

Shapes ==
    /\ \A i \in 1 .. Len(changeSets) : "run" \in DOMAIN changeSets[i]
    /\ \A n \in 1 .. Len(pulls) : "tree" \in DOMAIN pulls[n]
    /\ \A b \in DOMAIN branches : "tip" \in DOMAIN branches[b]

Run(k) == (Works(k) => Asked(k)) /\ (~Ended(k) => Once(k)) /\ Fresh(k)

GitInv ==
    /\ SerialInv /\ Shapes
    /\ \A p \in Procs : (Works(p) => Holds(p)) /\ Waits(p)
    /\ \A k \in Keys : Run(k)
    /\ OwnMerged

-----------------------------------------------------------------------------
(* Places. *)

\* The order of the calls.
LEMMA PlaceOrder ==
    ASSUME NEW k \in Gitters
    PROVE  /\ BranchAt(k) \in 3 .. 6 /\ RecordAt(k) = BranchAt(k) + 2
           /\ OpenAt(k) \in 6 .. 10 /\ LinkAt(k) \in 7 .. 12
           /\ GateAt(k) \in 10 .. 15 /\ SyncedAt(k) \in 11 .. 21
           /\ RecordAt(k) < OpenAt(k) /\ OpenAt(k) < LinkAt(k) /\ LinkAt(k) < GateAt(k) - 1
           /\ LinkAt(k) < SyncedAt(k)
           /\ k # "Rollback" => GateAt(k) < SyncedAt(k)
<1>1. k \in {"CLUSTER_PROVISION", "CLUSTER_UPGRADE", "WORKER_SCALE", "Rollback"}
    BY DEF Gitters
<1> QED BY <1>1 DEF BranchAt, RecordAt, OpenAt, LinkAt, GateAt, SyncedAt

\* Where the calls are.
LEMMA GitPlaces ==
    ASSUME NEW k \in Gitters, NEW i \in 1 .. Len(Program[k])
    PROVE  LET c == Program[k][i] IN
           /\ k \in DOMAIN Program
           /\ c = "branch" <=> i = BranchAt(k)
           /\ c = "commit" <=> i = BranchAt(k) + 1
           /\ c = "record" <=> i = RecordAt(k)
           /\ c = "openPR" <=> i = OpenAt(k)
           /\ c = "link" <=> i = LinkAt(k)
           /\ c = "gate" <=> i = GateAt(k)
           /\ i = GateAt(k) - 1 => c = "latest" /\ i + 1 \in 1 .. Len(Program[k])
           /\ c = "latest" => i + 1 \in {LinkAt(k), GateAt(k)} /\ i + 1 \in 1 .. Len(Program[k])
           /\ c = "recall" => /\ k = "CLUSTER_PROVISION" /\ i > GateAt(k)
                             /\ Program[k][i + 1] = "markSynced"
           /\ c = "markMerged" => i > LinkAt(k) /\ i < SyncedAt(k) /\ (k # "Rollback" => i > GateAt(k))
           /\ c = "markSynced" => i = SyncedAt(k) /\ (k # "Rollback" => i > GateAt(k))
           /\ c = "merge" => k = "Rollback"
           /\ k # "Rollback" => Len(Program[k]) > GateAt(k)
<1>provision. CASE k = "CLUSTER_PROVISION"
    <2>1. Program[k] = ClusterProvision /\ Len(Program[k]) = 27 /\ k \in DOMAIN Program
        BY <1>provision, ProgramFacts DEF Program
    <2>2. i \in 1 .. 27
        BY <2>1
    <2>3. /\ BranchAt(k) = 6 /\ RecordAt(k) = 8 /\ OpenAt(k) = 10 /\ LinkAt(k) = 12
          /\ GateAt(k) = 15 /\ SyncedAt(k) = 21
        BY <1>provision DEF BranchAt, RecordAt, OpenAt, LinkAt, GateAt, SyncedAt
    <2> QED BY <1>provision, <2>1, <2>2, <2>3 DEF ClusterProvision
<1>up. CASE k = "CLUSTER_UPGRADE"
    <2>1. Program[k] = ClusterUpgrade /\ i \in 1 .. 17 /\ k \in DOMAIN Program
        BY <1>up, UpgradeCalls DEF Program
    <2>2. /\ BranchAt(k) = 4 /\ RecordAt(k) = 6 /\ OpenAt(k) = 7 /\ LinkAt(k) = 8
          /\ GateAt(k) = 11 /\ SyncedAt(k) = 14
        BY <1>up DEF BranchAt, RecordAt, OpenAt, LinkAt, GateAt, SyncedAt
    <2> QED BY <1>up, <2>1, <2>2, UpgradeCalls
<1>scale. CASE k = "WORKER_SCALE"
    <2>1. Program[k] = WorkerScale /\ i \in 1 .. 14 /\ k \in DOMAIN Program
        BY <1>scale, ScaleCalls DEF Program
    <2>2. /\ BranchAt(k) = 3 /\ RecordAt(k) = 5 /\ OpenAt(k) = 6 /\ LinkAt(k) = 7
          /\ GateAt(k) = 10 /\ SyncedAt(k) = 13
        BY <1>scale DEF BranchAt, RecordAt, OpenAt, LinkAt, GateAt, SyncedAt
    <2> QED BY <1>scale, <2>1, <2>2, ScaleCalls
<1>rollback. CASE k = "Rollback"
    <2>1. Program[k] = RollbackCalls /\ Len(RollbackCalls) = 11 /\ k \in DOMAIN Program
        BY <1>rollback DEF Program, RollbackCalls
    <2>2. /\ BranchAt(k) = 3 /\ RecordAt(k) = 5 /\ OpenAt(k) = 6 /\ LinkAt(k) = 7
          /\ GateAt(k) = 13 /\ SyncedAt(k) = 11
        BY <1>rollback DEF BranchAt, RecordAt, OpenAt, LinkAt, GateAt, SyncedAt
    <2>3. i \in 1 .. 11
        BY <2>1
    <2> QED BY <1>rollback, <2>1, <2>2, <2>3 DEF RollbackCalls
<1> QED BY <1>provision, <1>up, <1>scale, <1>rollback DEF Gitters

\* The step of the gate begins behind the call that links the pull request.
LEMMA HeadPlaces ==
    ASSUME NEW k \in Gitters, k # "Rollback", LinkAt(k) + 1 \in 1 .. Len(Program[k])
    PROVE  Program[k][LinkAt(k) + 1] \in StepHeads
<1>provision. CASE k = "CLUSTER_PROVISION"
    <2>1. Program[k] = ClusterProvision /\ LinkAt(k) = 12
        BY <1>provision DEF Program, LinkAt
    <2> QED BY <2>1 DEF ClusterProvision, StepHeads
<1>up. CASE k = "CLUSTER_UPGRADE"
    <2>1. Program[k] = ClusterUpgrade /\ LinkAt(k) = 8
        BY <1>up DEF Program, LinkAt
    <2> QED BY <2>1, UpgradeCalls DEF StepHeads
<1>scale. CASE k = "WORKER_SCALE"
    <2>1. Program[k] = WorkerScale /\ LinkAt(k) = 7
        BY <1>scale DEF Program, LinkAt
    <2> QED BY <2>1, ScaleCalls DEF StepHeads
<1> QED BY <1>provision, <1>up, <1>scale DEF Gitters

\* No other program touches change sets.
LEMMA OthersPlaces ==
    ASSUME NEW k \in DOMAIN Program \ Gitters, NEW i \in 1 .. Len(Program[k])
    PROVE  Program[k][i] \notin {"branch", "commit", "record", "openPR", "latest", "recall", "link",
                                 "gate", "markMerged", "markSynced", "merge"}
<1>1. k \in {"Provision", "Delete", "Upgrade", "ScaleWorkers", "TriggerSync"}
    BY DEF Program, Gitters
<1>2. Program[k] \in {<<"load", "plan", "claim", "enqueue">>, <<"load", "DELETING", "enqueue">>,
                      TriggerSync, <<"load", "retarget", "enqueue">>, <<"load", "resize", "enqueue">>}
    BY <1>1 DEF Program
<1> QED BY <1>2 DEF TriggerSync

\* Only requests that are no programs of a run start one or write the spec.
LEMMA RunPlaces ==
    ASSUME NEW k \in Gitters, NEW i \in 1 .. Len(Program[k])
    PROVE  Program[k][i] \notin {"enqueue", "retarget", "resize"}
<1>provision. CASE k = "CLUSTER_PROVISION"
    <2>1. Program[k] = ClusterProvision /\ Len(ClusterProvision) = 27
        BY <1>provision DEF Program, ClusterProvision
    <2>2. i \in 1 .. 27
        BY <2>1
    <2> QED BY <2>1, <2>2 DEF ClusterProvision
<1>up. CASE k = "CLUSTER_UPGRADE"
    <2>1. Program[k] = ClusterUpgrade /\ i \in 1 .. 17
        BY <1>up, UpgradeCalls DEF Program
    <2> QED BY <2>1, UpgradeCalls
<1>scale. CASE k = "WORKER_SCALE"
    <2>1. Program[k] = WorkerScale /\ i \in 1 .. 14
        BY <1>scale, ScaleCalls DEF Program
    <2> QED BY <2>1, ScaleCalls
<1>rollback. CASE k = "Rollback"
    <2>1. Program[k] = RollbackCalls /\ i \in 1 .. 11
        BY <1>rollback DEF Program, RollbackCalls
    <2> QED BY <2>1 DEF RollbackCalls
<1> QED BY <1>provision, <1>up, <1>scale, <1>rollback DEF Gitters

-----------------------------------------------------------------------------
(* Where a step goes. *)

\* Who steps keeps its program.
LEMMA SameKind ==
    ASSUME SerialInv, NEW p \in Procs, Step(p)
    PROVE  /\ kind'[p] = kind[p] /\ ~Ended(p) /\ status[p] = "active"
           /\ kind[p] \in DOMAIN Program /\ pc[p] \in 1 .. Len(Program[kind[p]])
           /\ pc[p] \in Nat /\ pc'[p] \in Nat
<1>1. /\ kind[p] \in DOMAIN Program /\ pc[p] \in 1 .. Len(Program[kind[p]])
      /\ status[p] = "active" /\ kind[p] # "none"
    BY StepHere, StepGoes DEF SerialInv, Program
<1>2. kind'[p] = kind[p]
    <2>1. kind \in [Procs -> DOMAIN Program \cup {"none"}]
        BY DEF SerialInv, Inv, Locals
    <2>2. CASE Goes(p) \/ CallFails(p)
        BY <2>2 DEF Goes, CallFails
    <2>3. CASE Enqueue(p)
        BY <2>1, <2>3, <1>1 DEF Enqueue
    <2> QED BY <2>2, <2>3, StepGoes
<1>3. pc[p] \in Nat /\ pc'[p] \in Nat
    BY StepPlaces DEF SerialInv, Inv, Locals, PlacesOK
<1> QED BY <1>1, <1>2, <1>3 DEF Ended

\* Who gets past a place up to the gate was there and made the call.
LEMMA Reaches ==
    ASSUME ~WorkerLost, SerialInv, NEW p \in Procs, Step(p), NEW t \in 1 .. 15, pc[p] <= t, pc'[p] > t
    PROVE  pc[p] = t /\ pc'[p] = t + 1
<1>here. /\ kind[p] \in DOMAIN Program /\ pc[p] \in 1 .. Len(Program[kind[p]])
         /\ pc[p] \in Nat /\ pc'[p] \in Nat /\ pc \in [Procs -> Nat]
    BY SameKind DEF SerialInv, Inv, Locals
<1>1. CASE Advance(p) \/ Fail(p)
    <2>1. pc'[p] \in {pc[p], pc[p] + 1}
        BY <1>1, <1>here DEF Advance, Fail
    <2> QED BY <2>1, <1>here
<1>2. ~Restarts(p)
    <2>1. StepStart(p) \in 1 .. pc[p]
        BY <1>here, StepStartFacts
    <2> QED BY <2>1, <1>here DEF Restarts
<1>3. CASE CallFails(p)
    <2>1. Op(p) \in {"recall", "markSynced"} /\ kind[p] = "CLUSTER_PROVISION" => pc[p] \in {20, 21}
        BY <1>here, ProgramFacts DEF Op
    <2> QED BY <2>1, <1>1, <1>3, <1>here DEF CallFails
<1>4. CASE Enqueue(p)
    BY <1>1, <1>4, <1>here DEF Enqueue
<1> QED BY <1>1, <1>2, <1>3, <1>4, StepGoes DEF Goes

\* Only a gate goes back, to the start of its own step.
LEMMA GoesBack ==
    ASSUME ~WorkerLost, SerialInv, NEW p \in Procs, Step(p), kind[p] \in Gitters, pc'[p] < pc[p]
    PROVE  /\ kind[p] # "Rollback" /\ pc[p] = GateAt(kind[p])
           /\ pc'[p] > LinkAt(kind[p])
<1> DEFINE k == kind[p]
<1>here. k \in DOMAIN Program /\ pc[p] \in 1 .. Len(Program[k]) /\ pc[p] \in Nat /\ pc'[p] \in Nat
    BY SameKind
<1>pc. pc \in [Procs -> Nat] /\ Len(Program[k]) \in Nat
    BY <1>here, ProgramFacts DEF SerialInv, Inv, Locals
<1>1. Gate(p)
    <2>1. ~(Advance(p) \/ Fail(p))
        BY <1>here, <1>pc DEF Advance, Fail
    <2>rows. ~(Load(p) \/ Check(p) \/ transitionAndSave(p) \/ Delete(p) \/ markReady(p) \/ Claim(p))
        BY <2>1, <1>pc DEF Load, Check, transitionAndSave, Delete, markReady, Claim, Transition, Save, Refuse, Demand
    <2>calls. ~(Retarget(p) \/ Resize(p) \/ Enqueue(p) \/ Skip(p) \/ Revert(p) \/ Sync(p))
        BY <2>1, <1>pc DEF Retarget, Resize, Enqueue, Skip, Revert, Sync, Save, Refuse, Demand
    <2>git. ~(CreateBranch(p) \/ Commit(p) \/ CreateChangeSet(p) \/ CreatePullRequest(p))
        BY <2>1 DEF CreateBranch, Commit, CreateChangeSet, CreatePullRequest, Demand
    <2>sets. ~(latestChangeSet(p) \/ UpdateChangeSet(p) \/ MergePullRequest(p))
        BY <2>1 DEF latestChangeSet, UpdateChangeSet, MergePullRequest, Demand
    <2>waits. ~(waitForClusterAPIReady(p) \/ checkTalosHealth(p))
        BY <2>1 DEF waitForClusterAPIReady, checkTalosHealth, Demand
    <2>fails. ~CallFails(p) /\ ~Crash(p)
        <3>1. pc'[p] # pc[p] + 1 /\ pc'[p] # pc[p] + 2
            BY <1>here
        <3> QED BY <2>1, <3>1, <1>here, <1>pc DEF CallFails, Crash
    <2> QED BY <2>rows, <2>calls, <2>git, <2>sets, <2>waits, <2>fails DEF Step
<1>2. pc'[p] = StepStart(p)
    BY <1>1, <1>here, <1>pc DEF Gate, Advance, Fail
<1>3. k # "Rollback" /\ pc[p] = GateAt(k)
    <2>1. Program[k][pc[p]] = "gate"
        BY <1>1 DEF Gate, Doing, At, Op
    <2>2. CASE k = "Rollback"
        <3>1. Program[k] = RollbackCalls /\ pc[p] \in 1 .. 11
            BY <2>2, <1>here DEF Program, RollbackCalls
        <3> QED BY <2>1, <3>1 DEF RollbackCalls
    <2> QED BY <2>1, <2>2, <1>here, GitPlaces
<1>4. LinkAt(k) \in 7 .. 12 /\ LinkAt(k) < pc[p]
    BY <1>3, PlaceOrder
<1>start. /\ StepStart(p) \in 1 .. pc[p]
          /\ \A j \in StepStart(p) + 1 .. pc[p] : Program[k][j] \notin StepHeads
    BY <1>here, StepStartFacts
<1>5. StepStart(p) > LinkAt(k)
    <2>1. CASE StepStart(p) <= LinkAt(k)
        <3>1. LinkAt(k) + 1 \in StepStart(p) + 1 .. pc[p] /\ LinkAt(k) + 1 \in 1 .. Len(Program[k])
            BY <2>1, <1>4, <1>start, <1>here, <1>pc
        <3> QED BY <3>1, <1>start, <1>3, HeadPlaces
    <2> QED BY <2>1, <1>4, <1>start, <1>here
<1> QED BY <1>2, <1>3, <1>5

GitCalls == {"branch", "commit", "record", "openPR", "latest", "link", "gate", "markMerged"}

\* Inside its step p holds the row as it is.
LEMMA RowIsCurrent ==
    ASSUME SerialInv, NEW p \in Procs, Step(p), Op(p) \notin StepHeads
    PROVE  row[p] = cluster
BY SameKind DEF SerialInv, Current

\* The calls that touch a change set or its branch, and who skips them.
LEMMA SkipsOrNot ==
    ASSUME SerialInv, NEW p \in Procs, Step(p), Op(p) \in GitCalls \cup {"recall", "markSynced"}
    PROVE  /\ kind[p] \in Gitters /\ pc[p] >= BranchAt(kind[p]) /\ row[p] = cluster
           /\ Op(p) \in GitCalls => (Skips(p) <=> ~ByGit(p))
           /\ ~Skips(p) => ByGit(p)
<1>here. kind[p] \in DOMAIN Program /\ pc[p] \in 1 .. Len(Program[kind[p]]) /\ pc[p] \in Nat /\ ~Ended(p)
    BY SameKind
<1>1. kind[p] \in Gitters
    BY <1>here, OthersPlaces DEF Op, GitCalls
<1>2. pc[p] >= BranchAt(kind[p])
    <2>1. pc[p] \in {BranchAt(kind[p]), BranchAt(kind[p]) + 1, RecordAt(kind[p]), OpenAt(kind[p]),
                     LinkAt(kind[p]), GateAt(kind[p]), SyncedAt(kind[p])}
            \/ pc[p] + 1 \in {LinkAt(kind[p]), GateAt(kind[p])}
            \/ pc[p] > LinkAt(kind[p]) \/ pc[p] > GateAt(kind[p])
        BY <1>here, <1>1, GitPlaces DEF Op, GitCalls
    <2>2. /\ BranchAt(kind[p]) \in 3 .. 6 /\ RecordAt(kind[p]) = BranchAt(kind[p]) + 2
          /\ OpenAt(kind[p]) \in 6 .. 10 /\ LinkAt(kind[p]) \in 7 .. 12
          /\ GateAt(kind[p]) \in 10 .. 15 /\ SyncedAt(kind[p]) \in 11 .. 21
        BY <1>1, PlaceOrder
    <2>3. BranchAt(kind[p]) < LinkAt(kind[p])
        BY <1>1, PlaceOrder
    <2>4. pc[p] \in Nat
        BY <1>here
    <2> QED BY <2>1, <2>2, <2>3, <2>4
<1>3. row[p] = cluster
    BY RowIsCurrent DEF GitCalls, StepHeads
<1>4. Op(p) \in GitCalls => (Skips(p) <=> ~ByGit(p))
    BY <1>1, <1>3 DEF Skips, ByGit, Gitters, GitCalls
<1>5. ~Skips(p) => ByGit(p)
    <2>1. Op(p) = "recall" => kind[p] = "CLUSTER_PROVISION"
        BY <1>here, <1>1, GitPlaces DEF Op
    <2> QED BY <2>1, <1>1, <1>3 DEF Skips, ByGit, Gitters, GitCalls
<1> QED BY <1>1, <1>2, <1>3, <1>4, <1>5

\* Who goes through Git and gets past such a call made it.
LEMMA CallMade ==
    ASSUME ~WorkerLost, SerialInv, NEW p \in Procs, Step(p), ByGit(p), Op(p) \in GitCalls,
           pc'[p] > pc[p]
    PROVE  /\ Op(p) = "branch" => CreateBranch(p)
           /\ Op(p) = "commit" => Commit(p)
           /\ Op(p) = "record" => CreateChangeSet(p)
           /\ Op(p) = "openPR" => CreatePullRequest(p)
           /\ Op(p) = "latest" => latestChangeSet(p)
           /\ Op(p) \in {"link", "markMerged"} => UpdateChangeSet(p)
           /\ Op(p) = "gate" => Gate(p)
<1>here. kind[p] \in DOMAIN Program /\ pc[p] \in 1 .. Len(Program[kind[p]]) /\ pc[p] \in Nat
    BY SameKind
<1>pc. DOMAIN pc = Procs
    BY DEF SerialInv, Inv, Locals
<1>0. ~Fail(p)
    BY <1>here DEF Fail
<1>1. ~CallFails(p)
    <2>1. Op(p) \notin {"recall", "markSynced"}
        BY DEF GitCalls
    <2> QED BY <2>1, <1>0 DEF CallFails
<1>2. ~Crash(p)
    BY <1>0 DEF Crash
<1>3. ~Skip(p)
    BY SkipsOrNot DEF Skip
<1>rows. ~Load(p) /\ ~Check(p) /\ ~transitionAndSave(p) /\ ~Delete(p) /\ ~markReady(p)
    BY DEF Load, Check, transitionAndSave, Delete, markReady, At, GitCalls
<1>calls. ~Claim(p) /\ ~Retarget(p) /\ ~Resize(p) /\ ~Enqueue(p) /\ ~Revert(p) /\ ~MergePullRequest(p)
    BY DEF Claim, Retarget, Resize, Enqueue, Revert, MergePullRequest, At, GitCalls
<1>waits. ~Sync(p) /\ ~waitForClusterAPIReady(p) /\ ~checkTalosHealth(p)
    BY DEF Sync, waitForClusterAPIReady, checkTalosHealth, Doing, At, GitCalls
<1>git. \/ CreateBranch(p) \/ Commit(p) \/ CreateChangeSet(p) \/ CreatePullRequest(p)
        \/ latestChangeSet(p) \/ UpdateChangeSet(p) \/ Gate(p)
    BY <1>1, <1>2, <1>3, <1>rows, <1>calls, <1>waits DEF Step
<1>ops. /\ CreateBranch(p) => Op(p) = "branch"
        /\ Commit(p) => Op(p) = "commit"
        /\ CreateChangeSet(p) => Op(p) = "record"
        /\ CreatePullRequest(p) => Op(p) = "openPR"
        /\ latestChangeSet(p) => Op(p) \in {"latest", "recall"}
        /\ UpdateChangeSet(p) => Op(p) \in {"link", "markMerged", "markSynced"}
        /\ Gate(p) => Op(p) = "gate"
    BY DEF CreateBranch, Commit, CreateChangeSet, CreatePullRequest, latestChangeSet,
           UpdateChangeSet, Gate, Doing, At
<1> QED BY <1>git, <1>ops DEF GitCalls

\* A run leaves the spec alone.
LEMMA RunKeepsSpec ==
    ASSUME SerialInv, NEW p \in Procs, Step(p), kind[p] \in Gitters
    PROVE  cluster'.spec = cluster.spec /\ ByGit(p)' = ByGit(p)
<1>1. cluster'.spec = cluster.spec
    <2>1. CASE Writes(p)
        <3>1. SpecAsked
            BY <2>1, WritesAreLegal
        <3>2. ASSUME NEW c \in Callers, At(c, "retarget") \/ At(c, "resize")
              PROVE  FALSE
            <4>1. c = p
                BY <3>2, SameKind DEF SerialInv, Alone, At, Ended, Procs
            <4> QED BY <3>2, <4>1, SameKind, RunPlaces DEF At, Op
        <3> QED BY <3>1, <3>2 DEF SpecAsked
    <2> QED BY <2>1, StepRows DEF Load
<1> QED BY <1>1, SameKind DEF ByGit

-----------------------------------------------------------------------------
(* What a step does to change sets, branches and pull requests. *)

\* Who writes what.
LEMMA StepWrites ==
    ASSUME NEW p, Step(p)
    PROVE  /\ UNCHANGED changeSets \/ CreateChangeSet(p) \/ UpdateChangeSet(p)
           /\ UNCHANGED held \/ CreateChangeSet(p) \/ CreatePullRequest(p) \/ latestChangeSet(p)
           /\ UNCHANGED branches \/ CreateBranch(p) \/ Commit(p)
           /\ UNCHANGED pulls \/ CreatePullRequest(p) \/ MergePullRequest(p)
<1> USE DEF gitVars
<1>rows. CASE \/ Load(p) \/ Check(p) \/ transitionAndSave(p) \/ Delete(p) \/ markReady(p)
              \/ Claim(p) \/ Retarget(p) \/ Resize(p) \/ Enqueue(p)
    BY <1>rows DEF Load, Check, transitionAndSave, Delete, markReady, Transition, Claim, Retarget,
                   Resize, Enqueue
<1>calls. CASE \/ Skip(p) \/ Revert(p) \/ Gate(p) \/ Sync(p) \/ waitForClusterAPIReady(p)
               \/ checkTalosHealth(p) \/ CallFails(p) \/ Crash(p)
    BY <1>calls DEF Skip, Revert, Gate, Sync, waitForClusterAPIReady, checkTalosHealth, CallFails,
                    Crash
<1>git. CASE CreateBranch(p) \/ Commit(p) \/ MergePullRequest(p) \/ latestChangeSet(p)
    BY <1>git DEF CreateBranch, Commit, MergePullRequest, latestChangeSet
<1>sets. CASE CreateChangeSet(p) \/ CreatePullRequest(p) \/ UpdateChangeSet(p)
    BY <1>sets DEF CreateChangeSet, CreatePullRequest, UpdateChangeSet
<1> QED BY <1>rows, <1>calls, <1>git, <1>sets DEF Step

Owner(p) == IF p \in Keys THEN p ELSE "none"

\* The change set that p records is its own, and p holds it.
Recorded(p) ==
    /\ Len(changeSets') = Len(changeSets) + 1
    /\ \A i \in 1 .. Len(changeSets) : changeSets'[i] = changeSets[i]
    /\ LET new == changeSets'[Len(changeSets) + 1] IN
       /\ "run" \in DOMAIN new /\ new.run = Owner(p) /\ new.status = "COMMITTED"
    /\ held'[p].id = Len(changeSets) + 1
    /\ ByGit(p) /\ pc[p] = RecordAt(kind[p]) /\ kind[p] \in Gitters /\ pc'[p] >= pc[p]

LEMMA RecordFacts ==
    ASSUME SerialInv, NEW p \in Procs, Step(p), CreateChangeSet(p)
    PROVE  Recorded(p)
<1> DEFINE e == NewChangeSet(p)
           h == [id |-> Len(changeSets) + 1, url |-> 0]
<1>1. changeSets' = Append(changeSets, e) /\ held' = [held EXCEPT ![p] = h]
    BY DEF CreateChangeSet
<1>2. "run" \in DOMAIN e /\ e.run = Owner(p) /\ e.status = "COMMITTED"
    BY DEF NewChangeSet, Owner
<1>3. IsSeq(changeSets) /\ DOMAIN held = Procs
    BY DEF SerialInv, Inv, Tables, Locals
<1> HIDE DEF e
<1>4. /\ Len(changeSets') = Len(changeSets) + 1
      /\ \A i \in 1 .. Len(changeSets) : changeSets'[i] = changeSets[i]
      /\ changeSets'[Len(changeSets) + 1] = e
    BY <1>1, <1>3, AppendFacts
<1>5. held'[p].id = Len(changeSets) + 1
    BY <1>1, <1>3
<1>6. Op(p) = "record" /\ ~Skips(p) /\ Advance(p)
    BY DEF CreateChangeSet, Doing, At
<1>7. ByGit(p) /\ kind[p] \in Gitters
    BY <1>6, SkipsOrNot DEF GitCalls
<1>8. pc[p] = RecordAt(kind[p])
    BY <1>6, <1>7, SameKind, GitPlaces DEF Op
<1>9. pc'[p] >= pc[p]
    BY <1>6, SameKind DEF Advance, SerialInv, Inv, Locals
<1> QED BY <1>2, <1>4, <1>5, <1>7, <1>8, <1>9 DEF Recorded

\* The status that a call gives.
Marks(op) == CASE op = "link" -> "PR_CREATED" [] op = "markMerged" -> "MERGED" [] OTHER -> "SYNCED"

\* The change set that p saves is the newest, which is its own.
Updated(p) ==
    /\ Works(p) /\ kind[p] \in Gitters /\ pc[p] >= LinkAt(kind[p])
    /\ Op(p) \in {"link", "markMerged", "markSynced"}
    /\ Len(changeSets) \in Nat \ {0}
    /\ Len(changeSets') = Len(changeSets)
    /\ \A i \in 1 .. Len(changeSets) : i # Len(changeSets) => changeSets'[i] = changeSets[i]
    /\ \A i \in 1 .. Len(changeSets) :
        changeSets'[i].run = changeSets[i].run /\ "run" \in DOMAIN changeSets'[i]
    /\ Last.run = Owner(p)
    /\ Last'.url = held[p].url /\ Last'.status = Marks(Op(p))

LEMMA UpdateFacts ==
    ASSUME GitInv, ~WorkerLost, NEW p \in Procs, Step(p), UpdateChangeSet(p)
    PROVE  Updated(p)
<1> DEFINE marks == [link |-> "PR_CREATED", markMerged |-> "MERGED", markSynced |-> "SYNCED"]
           n == Len(changeSets)
<1>1. /\ Op(p) \in {"link", "markMerged", "markSynced"} /\ ~Skips(p)
      /\ changeSets' = [changeSets EXCEPT ![held[p].id].url = held[p].url,
                                          ![held[p].id].status = marks[Op(p)]]
    BY DEF UpdateChangeSet
<1>2. PICK to : to = marks[Op(p)] /\ to = Marks(Op(p))
    BY <1>1 DEF Marks
<1>inv. ~WorkerLost /\ SerialInv
    BY DEF GitInv
<1>3. ByGit(p) /\ kind[p] \in Gitters /\ ~Ended(p)
    BY <1>1, <1>inv, SkipsOrNot, SameKind DEF GitCalls
<1>4. pc[p] >= LinkAt(kind[p]) /\ pc[p] > RecordAt(kind[p])
    <2>1. pc[p] = LinkAt(kind[p]) \/ pc[p] > LinkAt(kind[p])
        <3>1. SyncedAt(kind[p]) > LinkAt(kind[p])
            BY <1>3, PlaceOrder
        <3> QED BY <3>1, <1>1, <1>3, <1>inv, SameKind, GitPlaces DEF Op
    <2> QED BY <2>1, <1>3, <1>inv, SameKind, PlaceOrder
<1>5. n > 0 /\ held[p].id = n /\ Last.run = Owner(p)
    BY <1>3, <1>4 DEF GitInv, Works, Holds, Owner
<1> HIDE DEF marks
<1>6. IsSeq(changeSets)
    BY <1>inv DEF SerialInv, Inv, Tables
<1>7. DOMAIN changeSets' = DOMAIN changeSets /\ changeSets' = [i \in DOMAIN changeSets |-> changeSets'[i]]
    BY <1>1
<1>8. Len(changeSets') = n /\ DOMAIN changeSets = 1 .. n /\ n \in Nat
    BY <1>6, <1>7, SameDomain
<1>9. \A i \in 1 .. n : {"run", "url", "status"} \subseteq DOMAIN changeSets[i]
    BY <1>inv DEF GitInv, Shapes, SerialInv, Inv, Tables
<1>10. \A i \in 1 .. n : i # n => changeSets'[i] = changeSets[i]
    BY <1>1, <1>5, <1>8
<1>11. n \in 1 .. n
    BY <1>5, <1>8
<1>12. changeSets'[n] = [changeSets[n] EXCEPT !.url = held[p].url, !.status = to]
    BY <1>1, <1>2, <1>5, <1>8, <1>11
<1>13. /\ changeSets'[n].run = changeSets[n].run /\ "run" \in DOMAIN changeSets'[n]
       /\ changeSets'[n].url = held[p].url /\ changeSets'[n].status = to
    BY <1>9, <1>11, <1>12
<1>14. \A i \in 1 .. n : changeSets'[i].run = changeSets[i].run /\ "run" \in DOMAIN changeSets'[i]
    BY <1>9, <1>10, <1>13
<1> QED BY <1>1, <1>2, <1>3, <1>4, <1>5, <1>8, <1>10, <1>13, <1>14 DEF Updated, Works, Last

\* A pull request stays in its place and keeps its tree, a merged one is still merged.
TreesStay ==
    /\ Len(pulls) \in Nat /\ Len(pulls') \in Nat /\ Len(pulls) <= Len(pulls')
    /\ \A n \in 1 .. Len(pulls) :
        /\ "tree" \in DOMAIN pulls'[n] /\ pulls'[n].tree = pulls[n].tree
        /\ pulls[n].state = "merged" => pulls'[n].state = "merged"

\* A new pull request has the tree of p's branch, and p holds its number.
Opened(p) ==
    /\ BranchOf(p) \in DOMAIN branches
    /\ Len(pulls) \in Nat /\ Len(pulls') = Len(pulls) + 1
    /\ "tree" \in DOMAIN pulls'[Len(pulls) + 1]
    /\ pulls'[Len(pulls) + 1].tree = branches[BranchOf(p)].tip
    /\ held'[p].url = Len(pulls) + 1 /\ held'[p].id = held[p].id

LEMMA OpenFacts ==
    ASSUME GitInv, ~WorkerLost, NEW p \in Procs, Step(p), CreatePullRequest(p)
    PROVE  /\ TreesStay /\ UNCHANGED <<changeSets, branches>>
           /\ (UNCHANGED <<pulls, held>> /\ pc'[p] = pc[p]) \/ Opened(p)
           /\ kind[p] \in Gitters /\ pc[p] = OpenAt(kind[p])
<1> DEFINE e == NewPullRequest(BranchOf(p))
<1>inv. ~WorkerLost /\ SerialInv /\ Inv /\ IsSeq(pulls) /\ DOMAIN held = Procs /\ DOMAIN pc = Procs
    BY DEF GitInv, SerialInv, Inv, Tables, Locals
<1>trees. \A n \in 1 .. Len(pulls) : "tree" \in DOMAIN pulls[n]
    BY DEF GitInv, Shapes
<1>same. UNCHANGED <<changeSets, branches>> /\ Op(p) = "openPR"
    BY DEF CreatePullRequest, Doing, At
<1>place. kind[p] \in Gitters /\ pc[p] = OpenAt(kind[p])
    <2>1. kind[p] \in Gitters
        BY <1>same, <1>inv, SkipsOrNot DEF GitCalls
    <2> QED BY <2>1, <1>same, <1>inv, SameKind, GitPlaces DEF Op
<1>len. Len(pulls) \in Nat
    BY <1>inv, LenProperties DEF IsSeq
<1>refused. CASE UNCHANGED <<pulls, held>> /\ Fail(p)
    BY <1>refused, <1>same, <1>place, <1>len, <1>trees DEF TreesStay, Fail
<1>opened. CASE /\ pulls' = Append(pulls, e) /\ held' = [held EXCEPT ![p].url = Len(pulls) + 1]
                /\ BranchOf(p) \in DOMAIN branches
    <2>1. "tree" \in DOMAIN e /\ e.tree = branches[BranchOf(p)].tip
        BY DEF NewPullRequest
    <2> HIDE DEF e
    <2>2. /\ Len(pulls') = Len(pulls) + 1
          /\ \A n \in 1 .. Len(pulls) : pulls'[n] = pulls[n]
          /\ pulls'[Len(pulls) + 1] = e
        BY <1>opened, <1>inv, AppendFacts
    <2>3. {"id", "url"} \subseteq DOMAIN held[p]
        BY DEF GitInv, SerialInv, Inv, Locals
    <2>4. held'[p].url = Len(pulls) + 1 /\ held'[p].id = held[p].id
        BY <1>opened, <1>inv, <2>3
    <2> QED BY <1>opened, <1>same, <1>place, <1>len, <1>trees, <2>1, <2>2, <2>4 DEF TreesStay, Opened
<1> QED BY <1>refused, <1>opened DEF CreatePullRequest, Demand

\* The newest change set is taken, with its pull request except by the step that
\* opened one.
LEMMA LatestFacts ==
    ASSUME SerialInv, NEW p \in Procs, Step(p), latestChangeSet(p)
    PROVE  /\ Op(p) \in {"latest", "recall"} /\ kind[p] \in Gitters
           /\ \/ held' = held /\ pc' = pc
              \/ /\ held'[p].id = Len(changeSets)
                 /\ held'[p].url = IF Program[kind[p]][pc[p] + 1] = "link" THEN held[p].url ELSE Last.url
<1>1. Op(p) \in {"latest", "recall"}
    BY DEF latestChangeSet, Doing, At
<1>2. kind[p] \in Gitters
    BY <1>1, SkipsOrNot DEF GitCalls
<1>3. DOMAIN held = Procs
    BY DEF SerialInv, Inv, Locals
<1>4. CASE Fail(p) /\ held' = held
    BY <1>1, <1>2, <1>4 DEF Fail
<1>5. ASSUME NEW last \in ListChangeSetsForCluster,
             held' = [held EXCEPT ![p] =
                [id |-> last,
                 url |-> IF Program[kind[p]][pc[p] + 1] = "link" THEN @.url
                         ELSE changeSets[last].url]]
      PROVE  /\ held'[p].id = Len(changeSets)
             /\ held'[p].url = IF Program[kind[p]][pc[p] + 1] = "link" THEN held[p].url ELSE Last.url
    <2>1. last = Len(changeSets)
        BY DEF ListChangeSetsForCluster
    <2> QED BY <2>1, <1>3, <1>5 DEF Last
<1> QED BY <1>1, <1>2, <1>4, <1>5 DEF latestChangeSet

\* The state of a pull request is all that changes about it.
LEMMA SetPullTree ==
    ASSUME GitInv, NEW n \in 1 .. Len(pulls), NEW v, pulls' = [pulls EXCEPT ![n].state = v],
           v = "merged" \/ pulls[n].state # "merged"
    PROVE  TreesStay /\ Len(pulls') = Len(pulls)
<1> DEFINE e == [pulls[n] EXCEPT !.state = v]
<1>1. pulls' = [pulls EXCEPT ![n] = e]
    OBVIOUS
<1>2. \A m \in 1 .. Len(pulls) : {"tree", "state"} \subseteq DOMAIN pulls[m]
    BY DEF GitInv, Shapes, SerialInv, Inv, Tables
<1>3. "tree" \in DOMAIN e /\ e.tree = pulls[n].tree /\ e.state = v
    BY <1>2
<1>4. IsSeq(pulls)
    BY DEF GitInv, SerialInv, Inv, Tables
<1> HIDE DEF e
<1>5. DOMAIN pulls' = DOMAIN pulls /\ pulls' = [m \in DOMAIN pulls |-> pulls'[m]]
    BY <1>1
<1>6. Len(pulls') = Len(pulls) /\ Len(pulls) \in Nat /\ DOMAIN pulls = 1 .. Len(pulls)
    BY <1>4, <1>5, SameDomain
<1>7. \A m \in 1 .. Len(pulls) : pulls'[m] = IF m = n THEN e ELSE pulls[m]
    BY <1>1, <1>6
<1> QED BY <1>2, <1>3, <1>6, <1>7 DEF TreesStay

\* Pull requests stay whatever p does, and only a new one is added.
LEMMA StepTrees ==
    ASSUME GitInv, ~WorkerLost, NEW p \in Procs, Step(p)
    PROVE  TreesStay /\ \A n \in 1 .. Len(pulls') : "tree" \in DOMAIN pulls'[n]
<1>trees. /\ \A n \in 1 .. Len(pulls) : "tree" \in DOMAIN pulls[n]
          /\ Len(pulls) \in Nat
    BY LenProperties DEF GitInv, Shapes, SerialInv, Inv, Tables, IsSeq
<1>same. CASE UNCHANGED pulls
    BY <1>same, <1>trees DEF TreesStay
<1>open. CASE CreatePullRequest(p)
    <2>1. TreesStay /\ (UNCHANGED pulls \/ Opened(p))
        BY <1>open, OpenFacts
    <2>2. CASE Opened(p)
        <3>1. \A n \in 1 .. Len(pulls') : n \in 1 .. Len(pulls) \/ n = Len(pulls) + 1
            BY <2>2 DEF Opened
        <3> QED BY <2>1, <2>2, <3>1 DEF Opened, TreesStay
    <2> QED BY <1>same, <2>1, <2>2
<1>merge. CASE MergePullRequest(p)
    <2>1. CASE /\ pulls' = [pulls EXCEPT ![held[p].url].state = "merged"]
               /\ held[p].url \in 1 .. Len(pulls)
        <3>1. TreesStay /\ Len(pulls') = Len(pulls)
            BY <2>1, SetPullTree
        <3> QED BY <3>1, <1>trees DEF TreesStay
    <2>2. held[p].url \in 0 .. Len(pulls) /\ DOMAIN pulls = 1 .. Len(pulls)
        BY LenProperties DEF GitInv, SerialInv, Inv, Numbers, Tables, IsSeq
    <2>3. held[p].url = 0 => [pulls EXCEPT ![held[p].url].state = "merged"] = pulls
        <3>1. pulls = [m \in DOMAIN pulls |-> pulls[m]]
            BY DEF GitInv, SerialInv, Inv, Tables, IsSeq
        <3> QED BY <2>2, <3>1
    <2>4. pulls' = pulls \/ pulls' = [pulls EXCEPT ![held[p].url].state = "merged"]
        BY <1>merge DEF MergePullRequest, Merge
    <2> QED BY <2>1, <2>2, <2>3, <2>4, <1>same, <1>trees
<1> QED BY <1>same, <1>open, <1>merge, StepWrites

\* No branch goes while p is at work; who gets past these calls has its branch.
LEMMA StepBranches ==
    ASSUME GitInv, ~WorkerLost, NEW p \in Procs, Step(p)
    PROVE  /\ DOMAIN branches \subseteq DOMAIN branches'
           /\ \A b \in DOMAIN branches' : "tip" \in DOMAIN branches'[b]
           /\ CreateBranch(p) => /\ Op(p) = "branch"
                                 /\ pc'[p] > pc[p] => /\ BranchOf(p) \notin DOMAIN branches
                                                      /\ BranchOf(p) \in DOMAIN branches'
           /\ Commit(p) => /\ Op(p) = "commit"
                           /\ pc'[p] > pc[p] =>
                                /\ BranchOf(p) \in DOMAIN branches
                                /\ branches'[BranchOf(p)].tip
                                     = Overlay(FilesOf(p), branches[BranchOf(p)].tip)
<1> DEFINE b == BranchOf(p)
           root == [base |-> main, tip |-> main]
<1>tips. \A c \in DOMAIN branches : "tip" \in DOMAIN branches[c]
    BY DEF GitInv, Shapes
<1>stays. Fail(p) => ~(pc'[p] > pc[p])
    <2>1. pc[p] \in Nat
        BY SameKind DEF GitInv
    <2> QED BY <2>1 DEF Fail
<1>same. CASE UNCHANGED branches /\ ~CreateBranch(p) /\ ~Commit(p)
    BY <1>same, <1>tips
<1>create. CASE CreateBranch(p)
    <2>1. Op(p) = "branch" /\ ~Commit(p)
        BY <1>create DEF CreateBranch, Commit, Doing, At
    <2>2. branches' = [c \in DOMAIN branches \cup {b} |->
                            IF c \in DOMAIN branches THEN branches[c] ELSE root]
        BY <1>create DEF CreateBranch
    <2>3. "tip" \in DOMAIN root
        OBVIOUS
    <2>4. b \in DOMAIN branches => Fail(p)
        BY <1>create DEF CreateBranch, Demand
    <2> HIDE DEF b, root
    <2>5. /\ DOMAIN branches' = DOMAIN branches \cup {b}
          /\ \A c \in DOMAIN branches' : "tip" \in DOMAIN branches'[c]
        BY <2>2, <2>3, <1>tips
    <2> QED BY <2>1, <2>4, <2>5, <1>stays DEF b
<1>commit. CASE Commit(p)
    <2>1. Op(p) = "commit" /\ ~CreateBranch(p)
        BY <1>commit DEF CreateBranch, Commit, Doing, At
    <2>2. CASE b \notin DOMAIN branches
        <3>1. branches' = branches /\ Fail(p)
            BY <1>commit, <2>2 DEF Commit, Demand
        <3> QED BY <3>1, <2>1, <1>tips, <1>stays
    <2>3. CASE b \in DOMAIN branches
        <3> DEFINE tree == Overlay(FilesOf(p), branches[b].tip)
                   new == [branches[b] EXCEPT !.tip = tree]
        <3>1. branches' = [branches EXCEPT ![b] = new]
            BY <1>commit, <2>3 DEF Commit
        <3>2. "tip" \in DOMAIN new /\ new.tip = tree
            BY <2>3, <1>tips
        <3> HIDE DEF b, tree, new
        <3>3. /\ DOMAIN branches' = DOMAIN branches
              /\ \A c \in DOMAIN branches' : branches'[c] = IF c = b THEN new ELSE branches[c]
            BY <3>1
        <3>4. branches'[b].tip = tree
            BY <3>2, <3>3, <2>3
        <3>5. \A c \in DOMAIN branches' : "tip" \in DOMAIN branches'[c]
            BY <3>2, <3>3, <1>tips
        <3> QED BY <3>3, <3>4, <3>5, <2>1, <2>3 DEF b, tree
    <2> QED BY <2>2, <2>3
<1> QED BY <1>same, <1>create, <1>commit, StepWrites

-----------------------------------------------------------------------------
(* What p holds. *)

\* Whoever records has got past no later call.
LEMMA WhoRecords ==
    ASSUME GitInv, ~WorkerLost, NEW p \in Procs, Step(p), kind[p] \in Gitters, pc[p] > RecordAt(kind[p])
    PROVE  UNCHANGED changeSets \/ Updated(p)
<1>1. ~CreateChangeSet(p)
    <2>1. CASE Recorded(p)
        <3>1. pc[p] = RecordAt(kind[p])
            BY <2>1 DEF Recorded
        <3> QED BY <3>1, SameKind DEF GitInv
    <2> QED BY <2>1, RecordFacts DEF GitInv
<1> QED BY <1>1, StepWrites, UpdateFacts

\* p goes on holding its change set, the newest one.
LEMMA HoldsKept ==
    ASSUME GitInv, ~WorkerLost, NEW p \in Procs, Step(p), Works(p)'
    PROVE  Holds(p)'
<1> DEFINE k == kind[p]
<1>inv. ~WorkerLost /\ SerialInv /\ Inv
    BY DEF GitInv, SerialInv
<1>here. /\ kind'[p] = k /\ pc[p] \in Nat /\ pc'[p] \in Nat /\ ~Ended(p) /\ ~Ended(p)'
         /\ k \in DOMAIN Program /\ pc[p] \in 1 .. Len(Program[k])
    BY <1>inv, SameKind DEF Works
<1>git. k \in Gitters
    BY <1>here DEF Works, ByGit, Gitters
<1>by. ByGit(p)
    BY <1>git, <1>inv, RunKeepsSpec DEF Works
<1>order. /\ RecordAt(k) \in 1 .. 8 /\ LinkAt(k) \in 7 .. 12 /\ GateAt(k) \in 10 .. 15
          /\ SyncedAt(k) \in 11 .. 21 /\ OpenAt(k) \in 6 .. 10
          /\ RecordAt(k) < OpenAt(k) /\ OpenAt(k) < LinkAt(k)
          /\ LinkAt(k) < GateAt(k) - 1 /\ LinkAt(k) < SyncedAt(k)
    BY <1>git, PlaceOrder
<1>old. Holds(p)
    BY <1>by, <1>here DEF GitInv, Works
<1>len. Len(changeSets) \in Nat /\ DOMAIN held = Procs
    BY <1>inv, LenProperties DEF Inv, Tables, Locals, IsSeq
<1>sets. CreateChangeSet(p) => Recorded(p)
    BY <1>inv, RecordFacts
<1>saves. UpdateChangeSet(p) => Updated(p)
    BY UpdateFacts
<1>record. ASSUME pc[p] <= RecordAt(k), pc'[p] > RecordAt(k)
           PROVE  Recorded(p)
    <2>1. pc[p] = RecordAt(k) /\ pc'[p] > pc[p]
        BY <1>record, <1>order, <1>inv, <1>here, Reaches
    <2>2. Op(p) = "record"
        BY <2>1, <1>git, <1>here, GitPlaces DEF Op
    <2> QED BY <2>1, <2>2, <1>by, <1>inv, <1>sets, CallMade DEF GitCalls
<1>id. ASSUME pc'[p] > RecordAt(k)
       PROVE  /\ Len(changeSets') > 0 /\ held'[p].id = Len(changeSets')
              /\ Last'.run = Owner(p)
    <2>1. CASE pc[p] <= RecordAt(k)
        <3>1. Recorded(p)
            BY <2>1, <1>id, <1>record
        <3> QED BY <3>1, <1>len DEF Recorded, Last
    <2>2. CASE pc[p] > RecordAt(k)
        <3>1. Len(changeSets) > 0 /\ held[p].id = Len(changeSets) /\ Last.run = Owner(p)
            BY <2>2, <1>old DEF Holds, Owner
        <3>2. Len(changeSets') = Len(changeSets) /\ Last'.run = Last.run
            BY <2>2, <1>git, <1>len, <3>1, WhoRecords DEF Updated, Last
        <3>3. ~CreateChangeSet(p)
            BY <2>2, <1>sets, <1>order, <1>here DEF Recorded
        <3>4. held'[p].id = Len(changeSets)
            BY <3>1, <3>3, <1>inv, StepWrites, OpenFacts, LatestFacts DEF Opened
        <3> QED BY <3>1, <3>2, <3>4
    <2> QED BY <2>1, <2>2, <1>here, <1>order
<1>link. ASSUME pc'[p] > RecordAt(k), pc'[p] <= LinkAt(k)
         PROVE  Last'.status = "COMMITTED"
    <2>1. CASE pc[p] <= RecordAt(k)
        <3>1. Recorded(p)
            BY <2>1, <1>link, <1>record
        <3> QED BY <3>1, <1>len DEF Recorded, Last
    <2>2. CASE pc[p] > RecordAt(k)
        <3>1. pc[p] <= LinkAt(k)
            BY <1>link, <1>git, <1>inv, <1>here, <1>order, GoesBack
        <3>2. ~UpdateChangeSet(p)
            <4>1. CASE Updated(p) /\ UpdateChangeSet(p)
                <5>1. pc[p] = LinkAt(k) /\ Advance(p)
                    BY <4>1, <3>1, <1>here, <1>order DEF Updated, UpdateChangeSet
                <5>2. pc'[p] # pc[p] + 1
                    BY <5>1, <1>link, <1>here, <1>order
                <5>3. status'[p] = "done"
                    BY <5>1, <5>2, <1>inv, <1>here DEF Advance, Inv, Locals
                <5> QED BY <5>3, <1>here DEF Ended
            <4> QED BY <4>1, <1>saves
        <3>3. UNCHANGED changeSets
            BY <3>2, <2>2, <1>git, <1>sets, <1>order, <1>here, StepWrites DEF Recorded
        <3> QED BY <3>1, <3>3, <2>2, <1>old DEF Holds, Last
    <2> QED BY <2>1, <2>2, <1>here, <1>order
<1>synced. ASSUME pc'[p] > RecordAt(k), pc'[p] <= SyncedAt(k)
           PROVE  Last'.status # "SYNCED"
    <2>1. CASE pc[p] <= RecordAt(k)
        <3>1. Recorded(p)
            BY <2>1, <1>synced, <1>record
        <3> QED BY <3>1, <1>len DEF Recorded, Last
    <2>2. CASE pc[p] > RecordAt(k)
        <3>1. pc[p] <= SyncedAt(k)
            BY <1>synced, <1>git, <1>inv, <1>here, <1>order, GoesBack, PlaceOrder, SMTT(30)
        <3>2. CASE UNCHANGED changeSets
            BY <3>1, <3>2, <2>2, <1>old DEF Holds, Last
        <3>3. CASE Updated(p) /\ UpdateChangeSet(p)
            <4>1. Op(p) # "markSynced"
                <5>1. CASE Op(p) = "markSynced"
                    <6>1. pc[p] = SyncedAt(k) /\ Advance(p)
                        BY <5>1, <3>3, <1>git, <1>here, GitPlaces DEF UpdateChangeSet, Op
                    <6>2. pc'[p] # pc[p] + 1
                        BY <6>1, <1>synced, <1>here, <1>order
                    <6>3. status'[p] = "done"
                        BY <6>1, <6>2, <1>inv, <1>here DEF Advance, Inv, Locals
                    <6> QED BY <6>3, <1>here DEF Ended
                <5> QED BY <5>1
            <4> QED BY <4>1, <3>3 DEF Updated, Marks
        <3> QED BY <3>2, <3>3, <2>2, <1>git, <1>sets, <1>saves, <1>order, <1>here, StepWrites DEF Recorded
    <2> QED BY <2>1, <2>2, <1>here, <1>order
<1>gate. ASSUME pc'[p] >= GateAt(k)
         PROVE  held'[p].url = Last'.url
    <2>1. CASE pc[p] < GateAt(k)
        <3>1. pc[p] = GateAt(k) - 1 /\ pc'[p] > pc[p]
            <4>1. GateAt(k) - 1 \in 1 .. 15 /\ pc[p] <= GateAt(k) - 1 /\ pc'[p] > GateAt(k) - 1
                BY <2>1, <1>gate, <1>order, <1>here
            <4> QED BY <4>1, <1>inv, Reaches
        <3>2. Op(p) = "latest"
            BY <3>1, <1>git, <1>here, GitPlaces DEF Op
        <3>3. latestChangeSet(p)
            BY <3>1, <3>2, <1>by, <1>inv, CallMade DEF GitCalls
        <3>4. Program[k][pc[p] + 1] # "link"
            <4>1. pc[p] + 1 = GateAt(k) /\ pc[p] + 1 \in 1 .. Len(Program[k])
                BY <3>1, <1>git, <1>here, <1>order, GitPlaces
            <4> QED BY <4>1, <1>git, GitPlaces
        <3>5. held'[p].url = Last.url
            BY <3>1, <3>3, <3>4, <1>inv, <1>here, LatestFacts
        <3> QED BY <3>3, <3>5 DEF latestChangeSet, Last
    <2>2. CASE pc[p] >= GateAt(k)
        <3>1. held[p].url = Last.url /\ pc[p] > RecordAt(k)
            BY <2>2, <1>old, <1>here, <1>order DEF Holds
        <3>2. Len(changeSets') = Len(changeSets) /\ (Last'.url = Last.url)
            BY <3>1, <1>git, WhoRecords DEF Updated, Last
        <3>3. ~CreateChangeSet(p) /\ ~CreatePullRequest(p)
            BY <3>1, <2>2, <1>sets, <1>order, <1>here, OpenFacts DEF Recorded
        <3>4. held'[p].url = Last.url
            <4>1. CASE latestChangeSet(p)
                <5>1. Program[k][pc[p] + 1] # "link" \/ held' = held
                    <6>1. Op(p) = "recall"
                        <7>1. CASE Op(p) = "latest"
                            <8>1. pc[p] + 1 \in {LinkAt(k), GateAt(k)}
                                BY <7>1, <1>git, <1>here, GitPlaces DEF Op
                            <8> QED BY <8>1, <2>2, <1>order, <1>here
                        <7> QED BY <7>1, <4>1, <1>inv, LatestFacts
                    <6>2. Program[k][pc[p] + 1] = "markSynced"
                        BY <6>1, <1>git, <1>here, GitPlaces DEF Op
                    <6> QED BY <6>2
                <5> QED BY <5>1, <4>1, <3>1, <1>inv, LatestFacts
            <4>2. CASE UNCHANGED held
                BY <4>2, <3>1
            <4> QED BY <4>1, <4>2, <3>3, StepWrites
        <3> QED BY <3>2, <3>4
    <2> QED BY <2>1, <2>2, <1>here, <1>order
<1> QED BY <1>id, <1>link, <1>synced, <1>gate, <1>here DEF Holds, Owner

-----------------------------------------------------------------------------
(* What run k was asked for is on its way. *)

\* The files of the spec agree with themselves, and the row's spec stays.
LEMMA CarriesStays ==
    ASSUME cluster'.spec = cluster.spec
    PROVE  \A t : Carries(t) <=> \A f \in DOMAIN renderManifestSet(cluster'.spec) :
                                    Agree(t, renderManifestSet(cluster'.spec), f)
BY DEF Carries

LEMMA OverlayCarries ==
    ASSUME NEW under
    PROVE  Carries(Overlay(renderManifestSet(cluster.spec), under))
<1> DEFINE want == renderManifestSet(cluster.spec)
           t == Overlay(want, under)
<1> HIDE DEF want
<1>1. \A f \in DOMAIN want : f \in DOMAIN t /\ t[f] = want[f]
    BY DEF Overlay
<1>2. \A f \in DOMAIN want : Agree(t, want, f)
    BY <1>1 DEF Agree
<1> QED BY <1>2 DEF Carries, want

\* It stays there, and each call hands it on to the next.
LEMMA AskedKept ==
    ASSUME GitInv, ~WorkerLost, NEW k \in Keys, Step(k), Works(k)'
    PROVE  Asked(k)'
<1> DEFINE t == kind[k]
           b == BranchOf(k)
<1>inv. ~WorkerLost /\ SerialInv /\ Inv /\ k \in Procs
    BY DEF GitInv, SerialInv, Procs
<1>here. /\ kind'[k] = t /\ pc[k] \in Nat /\ pc'[k] \in Nat /\ ~Ended(k) /\ ~Ended(k)'
         /\ t \in DOMAIN Program /\ pc[k] \in 1 .. Len(Program[t])
    BY <1>inv, SameKind DEF Works
<1>git. t \in Gitters
    BY <1>here DEF Works, ByGit, Gitters
<1>run. t \in {"CLUSTER_PROVISION", "CLUSTER_UPGRADE", "WORKER_SCALE"}
    BY <1>inv, <1>git DEF SerialInv, RunsRun, Gitters
<1>b. b' = b
    BY <1>here, <1>run DEF BranchOf
<1>spec. cluster'.spec = cluster.spec /\ ByGit(k)
    BY <1>git, <1>inv, RunKeepsSpec DEF Works
<1>old. Asked(k)
    BY <1>spec, <1>here DEF GitInv, Run, Works
<1>order. /\ BranchAt(t) \in 3 .. 6 /\ RecordAt(t) = BranchAt(t) + 2
          /\ OpenAt(t) \in 6 .. 10 /\ LinkAt(t) \in 7 .. 12 /\ GateAt(t) \in 10 .. 15
          /\ RecordAt(t) < OpenAt(t) /\ OpenAt(t) < LinkAt(t) /\ LinkAt(t) < GateAt(t) - 1
    BY <1>git, PlaceOrder
<1>back. pc'[k] <= LinkAt(t) => pc[k] <= LinkAt(t)
    BY <1>git, <1>inv, <1>here, <1>order, GoesBack
<1>trees. TreesStay
    BY <1>inv, StepTrees
<1>url. held[k].url \in 0 .. Len(pulls)
    BY <1>inv DEF Inv, Numbers
<1>branches. DOMAIN branches \subseteq DOMAIN branches'
    BY <1>inv, StepBranches
<1>branch. ASSUME pc'[k] > BranchAt(t), pc'[k] <= LinkAt(t)
           PROVE  b \in DOMAIN branches'
    <2>1. CASE pc[k] <= BranchAt(t)
        <3>1. pc[k] = BranchAt(t) /\ pc'[k] > pc[k]
            BY <2>1, <1>branch, <1>order, <1>inv, <1>here, Reaches
        <3>2. Op(k) = "branch"
            BY <3>1, <1>git, <1>here, GitPlaces DEF Op
        <3>3. CreateBranch(k)
            BY <3>1, <3>2, <1>spec, <1>inv, CallMade DEF GitCalls
        <3> QED BY <3>1, <3>3, <1>inv, StepBranches
    <2>2. CASE pc[k] > BranchAt(t)
        BY <2>2, <1>branch, <1>back, <1>old, <1>branches DEF Asked
    <2> QED BY <2>1, <2>2, <1>here, <1>order
<1>tip. ASSUME pc'[k] > BranchAt(t) + 1, pc'[k] <= LinkAt(t)
        PROVE  Carries(branches'[b].tip)
    <2>1. CASE pc[k] <= BranchAt(t) + 1
        <3>1. pc[k] = BranchAt(t) + 1 /\ pc'[k] > pc[k]
            <4>1. BranchAt(t) + 1 \in 1 .. 15
                BY <1>order
            <4> QED BY <4>1, <2>1, <1>tip, <1>inv, <1>here, <1>order, Reaches
        <3>2. Op(k) = "commit"
            BY <3>1, <1>git, <1>here, GitPlaces DEF Op
        <3>3. Commit(k)
            BY <3>1, <3>2, <1>spec, <1>inv, CallMade DEF GitCalls
        <3>4. branches'[b].tip = Overlay(FilesOf(k), branches[b].tip)
            BY <3>1, <3>3, <1>inv, StepBranches
        <3>5. row[k] = cluster
            BY <3>2, <1>inv, RowIsCurrent DEF StepHeads
        <3>6. FilesOf(k) = renderManifestSet(cluster.spec)
            BY <3>5, <1>run DEF FilesOf
        <3> QED BY <3>4, <3>6, OverlayCarries
    <2>2. CASE pc[k] > BranchAt(t) + 1
        <3>1. Op(k) # "branch" /\ Op(k) # "commit"
            BY <2>2, <1>git, <1>here, <1>order, GitPlaces DEF Op
        <3>2. UNCHANGED branches
            BY <3>1, <1>inv, StepWrites, StepBranches
        <3> QED BY <2>2, <3>2, <1>tip, <1>back, <1>old DEF Asked
    <2> QED BY <2>1, <2>2, <1>here, <1>order
<1>open. ASSUME pc'[k] > OpenAt(t), pc'[k] <= LinkAt(t)
         PROVE  held'[k].url # 0 /\ Carries(pulls'[held'[k].url].tree)
    <2>1. CASE pc[k] <= OpenAt(t)
        <3>1. pc[k] = OpenAt(t) /\ pc'[k] > pc[k]
            BY <2>1, <1>open, <1>order, <1>inv, <1>here, Reaches
        <3>2. Op(k) = "openPR"
            BY <3>1, <1>git, <1>here, GitPlaces DEF Op
        <3>3. CreatePullRequest(k)
            BY <3>1, <3>2, <1>spec, <1>inv, CallMade DEF GitCalls
        <3>4. Opened(k)
            BY <3>1, <3>3, <1>inv, <1>here, OpenFacts
        <3>5. Carries(branches[b].tip)
            BY <3>1, <1>old, <1>order DEF Asked
        <3> QED BY <3>4, <3>5 DEF Opened
    <2>2. CASE pc[k] > OpenAt(t)
        <3>1. held[k].url # 0 /\ Carries(pulls[held[k].url].tree) /\ pc[k] <= LinkAt(t)
            BY <2>2, <1>open, <1>back, <1>old DEF Asked
        <3>2. ~CreateChangeSet(k) /\ ~CreatePullRequest(k)
            BY <2>2, <1>inv, <1>order, <1>here, RecordFacts, OpenFacts DEF Recorded
        <3>3. held'[k].url = held[k].url
            <4>1. CASE latestChangeSet(k)
                <5>1. Op(k) = "latest"
                    <6>1. Op(k) # "recall"
                        BY <3>1, <1>git, <1>here, <1>order, GitPlaces DEF Op
                    <6> QED BY <6>1, <4>1, <1>inv, LatestFacts
                <5>2. pc[k] + 1 = LinkAt(t) /\ pc[k] + 1 \in 1 .. Len(Program[t])
                    BY <5>1, <3>1, <1>git, <1>here, <1>order, GitPlaces, SMTT(30) DEF Op
                <5>3. Program[t][pc[k] + 1] = "link"
                    BY <5>2, <1>git, GitPlaces
                <5> QED BY <5>3, <4>1, <1>inv, LatestFacts
            <4> QED BY <4>1, <3>2, StepWrites
        <3>4. pulls'[held[k].url].tree = pulls[held[k].url].tree
            BY <3>1, <1>url, <1>trees DEF TreesStay
        <3> QED BY <3>1, <3>3, <3>4
    <2> QED BY <2>1, <2>2, <1>here, <1>order
<1>link. ASSUME pc'[k] > LinkAt(t)
         PROVE  Last'.url # 0 /\ Carries(pulls'[Last'.url].tree)
    <2>1. CASE pc[k] <= LinkAt(t)
        <3>1. pc[k] = LinkAt(t) /\ pc'[k] > pc[k]
            BY <2>1, <1>link, <1>order, <1>inv, <1>here, Reaches
        <3>2. Op(k) = "link"
            BY <3>1, <1>git, <1>here, GitPlaces DEF Op
        <3>3. UpdateChangeSet(k)
            BY <3>1, <3>2, <1>spec, <1>inv, CallMade DEF GitCalls
        <3>4. Last'.url = held[k].url
            BY <3>3, <1>inv, UpdateFacts DEF Updated
        <3>5. held[k].url # 0 /\ Carries(pulls[held[k].url].tree)
            BY <3>1, <1>old, <1>order DEF Asked
        <3>6. pulls'[held[k].url].tree = pulls[held[k].url].tree
            BY <3>5, <1>url, <1>trees DEF TreesStay
        <3> QED BY <3>4, <3>5, <3>6
    <2>2. CASE pc[k] > LinkAt(t)
        <3>1. Last.url # 0 /\ Carries(pulls[Last.url].tree)
            BY <2>2, <1>old DEF Asked
        <3>2. Last'.url = Last.url
            <4>1. CASE UNCHANGED changeSets
                BY <4>1 DEF Last
            <4>2. CASE Updated(k)
                <5>1. pc[k] >= GateAt(t)
                    <6>1. Op(k) \in {"markMerged", "markSynced"}
                        <7>1. Op(k) # "link"
                            BY <2>2, <1>git, <1>here, <1>order, GitPlaces DEF Op
                        <7> QED BY <7>1, <4>2 DEF Updated
                    <6>2. pc[k] > GateAt(t)
                        BY <6>1, <1>run, <1>git, <1>here, GitPlaces DEF Op
                    <6> QED BY <6>2, <1>here, <1>order
                <5>2. Holds(k)
                    BY <4>2, <1>inv DEF Updated, GitInv
                <5> QED BY <4>2, <5>1, <5>2 DEF Updated, Holds
            <4> QED BY <4>1, <4>2, <2>2, <1>git, <1>inv, <1>here, <1>order, WhoRecords
        <3>3. Last.url \in 1 .. Len(pulls)
            <4>1. Len(changeSets) \in 1 .. Len(changeSets)
                <5>1. Len(changeSets) > 0
                    BY <2>2, <1>spec, <1>here, <1>inv, <1>order DEF GitInv, Works, Holds
                <5>2. Len(changeSets) \in Nat
                    BY <1>inv, LenProperties DEF Inv, Tables, IsSeq
                <5> QED BY <5>1, <5>2
            <4>2. Last.url \in 0 .. Len(pulls) /\ Len(pulls) \in Nat
                BY <4>1, <1>inv, <1>trees DEF Inv, Numbers, Last, TreesStay
            <4> QED BY <4>2, <3>1
        <3> QED BY <3>1, <3>2, <3>3, <1>trees DEF TreesStay
    <2> QED BY <2>1, <2>2, <1>here, <1>order
<1>carries. \A x : Carries(x) <=> \A f \in DOMAIN renderManifestSet(cluster'.spec) :
                                    Agree(x, renderManifestSet(cluster'.spec), f)
    BY <1>spec, CarriesStays
<1> QED BY <1>branch, <1>tip, <1>open, <1>link, <1>carries, <1>b, <1>here DEF Asked, Carries

-----------------------------------------------------------------------------
(* A run records once, waits behind its link, and passes only what was merged. *)

\* Change sets are of those who recorded them: a step adds one of p's own or
\* leaves them with their runs.
LEMMA StepRuns ==
    ASSUME GitInv, ~WorkerLost, NEW p \in Procs, Step(p)
    PROVE  /\ Len(changeSets) \in Nat
           /\ \/ Recorded(p) /\ CreateChangeSet(p)
              \/ /\ UNCHANGED changeSets \/ Updated(p)
                 /\ Len(changeSets') = Len(changeSets)
                 /\ \A i \in 1 .. Len(changeSets) : changeSets'[i].run = changeSets[i].run
<1>1. Len(changeSets) \in Nat
    BY LenProperties DEF GitInv, SerialInv, Inv, Tables, IsSeq
<1>2. CreateChangeSet(p) => Recorded(p)
    BY RecordFacts DEF GitInv
<1>3. UpdateChangeSet(p) => Updated(p)
    BY UpdateFacts
<1> QED BY <1>1, <1>2, <1>3, StepWrites DEF Updated

\* Runs execute the programs of workflows.
LEMMA RunKinds ==
    ASSUME SerialInv, NEW k \in Keys, Step(k)
    PROVE  /\ k \in Procs /\ kind[k] \in {"CLUSTER_PROVISION", "CLUSTER_UPGRADE", "WORKER_SCALE"}
           /\ kind[k] \in Gitters /\ Len(Program[kind[k]]) > GateAt(kind[k])
<1>1. k \in Procs
    BY DEF Procs
<1>2. kind[k] \in {"CLUSTER_PROVISION", "CLUSTER_UPGRADE", "WORKER_SCALE"}
    BY <1>1, SameKind DEF SerialInv, RunsRun, Program
<1>3. kind[k] \in Gitters
    BY <1>2 DEF Gitters
<1> QED BY <1>1, <1>2, <1>3, SameKind, GitPlaces

\* A run that has its change set never gets back to recording one.
LEMMA OnceKept ==
    ASSUME GitInv, ~WorkerLost, NEW k \in Keys, Step(k), ~Ended(k)'
    PROVE  Once(k)'
<1> DEFINE t == kind[k]
<1>inv. ~WorkerLost /\ SerialInv /\ Inv /\ k \in Procs
    BY DEF GitInv, SerialInv, Procs
<1>here. /\ kind'[k] = t /\ pc[k] \in Nat /\ pc'[k] \in Nat /\ ~Ended(k)
         /\ t \in DOMAIN Program /\ pc[k] \in 1 .. Len(Program[t])
    BY <1>inv, SameKind
<1>git. t \in Gitters /\ Len(Program[t]) > GateAt(t)
    BY <1>inv, RunKinds
<1>by. ByGit(k)' = ByGit(k)
    BY <1>git, <1>inv, RunKeepsSpec
<1>old. Once(k)
    BY <1>here DEF GitInv, Run
<1>order. /\ BranchAt(t) \in 3 .. 6 /\ RecordAt(t) = BranchAt(t) + 2
          /\ OpenAt(t) \in 6 .. 10 /\ LinkAt(t) \in 7 .. 12 /\ GateAt(t) \in 10 .. 15
          /\ RecordAt(t) < OpenAt(t) /\ OpenAt(t) < LinkAt(t) /\ LinkAt(t) < GateAt(t) - 1
    BY <1>git, PlaceOrder
<1>len. Len(changeSets) \in Nat
    BY StepRuns, <1>inv
<1>new. ASSUME Recorded(k), CreateChangeSet(k)
        PROVE  Once(k)'
    <2>1. \A i \in 1 .. Len(changeSets) : changeSets[i].run # k
        BY <1>new, <1>old, <1>order DEF Recorded, Once
    <2>2. pc'[k] > RecordAt(t)
        <3>1. pc[k] = RecordAt(t) /\ Advance(k) /\ pc[k] # Len(Program[t])
            BY <1>new, <1>git, <1>order DEF Recorded, CreateChangeSet
        <3>2. DOMAIN pc = Procs
            BY <1>inv DEF Inv, Locals
        <3> QED BY <3>1, <3>2, <1>inv, <1>here, <1>order DEF Advance
    <2>3. ByGit(k)'
        BY <1>new, <1>by DEF Recorded
    <2>4. \A i \in 1 .. Len(changeSets') : changeSets'[i].run = k => i = Len(changeSets')
        BY <1>new, <2>1, <1>len DEF Recorded
    <2> QED BY <2>2, <2>3, <2>4, <1>here, <1>order DEF Once
<1>same. ASSUME Len(changeSets') = Len(changeSets), NEW i \in 1 .. Len(changeSets),
                changeSets[i].run = k
         PROVE  i = Len(changeSets') /\ ByGit(k)' /\ pc'[k] > RecordAt(t)
    <2>1. i = Len(changeSets') /\ ByGit(k)' /\ pc[k] > RecordAt(t)
        BY <1>same, <1>old, <1>by DEF Once
    <2>2. CASE pc'[k] < pc[k]
        <3>1. pc'[k] > LinkAt(t)
            BY <2>2, <1>git, <1>inv, GoesBack
        <3> QED BY <2>1, <3>1, <1>here, <1>order
    <2> QED BY <2>1, <2>2, <1>here, <1>order, SMTT(30)
<1> QED BY <1>new, <1>same, <1>inv, <1>here, StepRuns DEF Once

\* Only a gate makes p wait.
LEMMA OnlyGateWaits ==
    ASSUME SerialInv, NEW p \in Procs, Step(p), status'[p] = "awaiting"
    PROVE  Gate(p)
<1>here. status[p] = "active" /\ DOMAIN status = Procs
    BY SameKind DEF SerialInv, Inv, Locals
<1>1. ~(Advance(p) \/ Fail(p)) /\ status' # status
    BY <1>here DEF Advance, Fail
<1>rows. ~(Load(p) \/ Check(p) \/ transitionAndSave(p) \/ Delete(p) \/ markReady(p) \/ Claim(p))
    BY <1>1 DEF Load, Check, transitionAndSave, Delete, markReady, Claim, Transition, Save, Refuse, Demand
<1>calls. ~(Retarget(p) \/ Resize(p) \/ Skip(p) \/ Revert(p) \/ Sync(p) \/ CallFails(p))
    BY <1>1 DEF Retarget, Resize, Skip, Revert, Sync, Save, Refuse, Demand, CallFails
<1>enqueue. ~Enqueue(p) /\ ~Crash(p)
    BY <1>1, <1>here DEF Enqueue, Crash, SkipStep
<1>git. ~(CreateBranch(p) \/ Commit(p) \/ CreateChangeSet(p) \/ CreatePullRequest(p))
    BY <1>1 DEF CreateBranch, Commit, CreateChangeSet, CreatePullRequest, Demand
<1>sets. ~(latestChangeSet(p) \/ UpdateChangeSet(p) \/ MergePullRequest(p))
    BY <1>1 DEF latestChangeSet, UpdateChangeSet, MergePullRequest, Demand
<1>waits. ~(waitForClusterAPIReady(p) \/ checkTalosHealth(p))
    BY <1>1 DEF waitForClusterAPIReady, checkTalosHealth, Demand
<1> QED BY <1>rows, <1>calls, <1>enqueue, <1>git, <1>sets, <1>waits DEF Step

\* Its gate is in a step behind the one that linked the pull request.
LEMMA WaitsKept ==
    ASSUME GitInv, ~WorkerLost, NEW p \in Procs, Step(p)
    PROVE  Waits(p)'
<1> SUFFICES ASSUME status'[p] = "awaiting"
             PROVE  (ByGit(p) /\ pc[p] > LinkAt(kind[p]))'
    BY DEF Waits
<1>inv. ~WorkerLost /\ SerialInv
    BY DEF GitInv
<1>gate. Gate(p) /\ Op(p) = "gate" /\ ~Skips(p)
    BY <1>inv, OnlyGateWaits DEF Gate, Doing, At
<1>here. /\ kind'[p] = kind[p] /\ pc[p] \in Nat /\ pc'[p] \in Nat
         /\ kind[p] \in DOMAIN Program /\ pc[p] \in 1 .. Len(Program[kind[p]])
    BY <1>inv, SameKind
<1>1. ByGit(p) /\ kind[p] \in Gitters
    BY <1>gate, <1>inv, SkipsOrNot DEF GitCalls
<1>2. ByGit(p)'
    BY <1>1, <1>inv, RunKeepsSpec
<1>3. pc[p] > LinkAt(kind[p]) /\ LinkAt(kind[p]) \in Nat
    <2>1. pc[p] = GateAt(kind[p])
        BY <1>gate, <1>1, <1>here, GitPlaces DEF Op
    <2> QED BY <2>1, <1>1, PlaceOrder
<1>4. pc'[p] > LinkAt(kind[p])
    <2>1. CASE pc'[p] < pc[p]
        BY <2>1, <1>1, <1>3, <1>inv, GoesBack
    <2>2. CASE ~(pc'[p] < pc[p])
        BY <2>2, <1>3, <1>here
    <2> QED BY <2>1, <2>2
<1> QED BY <1>2, <1>4, <1>here

\* A run is past its gate where its program says so.
LEMMA GateIsPassed ==
    ASSUME NEW k, kind[k] \in Gitters \ {"Rollback"}, pc[k] \in 1 .. Len(Program[kind[k]])
    PROVE  PassedGate(k) <=> pc[k] > GateAt(kind[k])
<1> DEFINE t == kind[k]
<1>1. GateAt(t) \in 10 .. 15 /\ t # "none"
    BY PlaceOrder DEF Gitters
<1>2. t \in DOMAIN Program
    BY DEF Gitters, Program
<1>3. pc[k] \in Nat /\ \A i \in 1 .. pc[k] - 1 : i \in 1 .. Len(Program[t])
    BY <1>2, ProgramFacts
<1>4. \A i \in 1 .. pc[k] - 1 : Program[t][i] = "gate" <=> i = GateAt(t)
    BY <1>3, GitPlaces
<1> QED BY <1>1, <1>3, <1>4 DEF PassedGate

\* Whoever else was past a gate is, and its change set stays as it is.
LEMMA OthersPassed ==
    ASSUME GitInv, ~WorkerLost, NEW p \in Procs, Step(p), NEW k \in Keys, k # p, PassedGate(k)',
           NEW i \in 1 .. Len(changeSets'), changeSets'[i].run = k
    PROVE  changeSets'[i].url # 0 /\ pulls'[changeSets'[i].url].state = "merged"
<1>inv. ~WorkerLost /\ SerialInv /\ Inv /\ k \in Procs
    BY DEF GitInv, SerialInv, Procs
<1>1. PassedGate(k)
    <2>1. pc'[k] = pc[k] /\ (kind'[k] = kind[k] \/ pc[k] = 1)
        BY <1>inv, StepPlaces
    <2>2. pc'[k] # 1
        BY DEF PassedGate
    <2> QED BY <2>1, <2>2 DEF PassedGate
<1>owner. Owner(p) # k
    BY ClusterAssumption DEF Owner
<1>2. i \in 1 .. Len(changeSets) /\ changeSets'[i] = changeSets[i]
    <2>1. CASE Recorded(p)
        BY <2>1, <1>owner, StepRuns DEF Recorded
    <2>2. CASE UNCHANGED changeSets
        BY <2>2
    <2>3. CASE Updated(p)
        BY <2>3, <1>owner DEF Updated, Last
    <2> QED BY <2>1, <2>2, <2>3, StepRuns
<1>3. changeSets[i].url # 0 /\ pulls[changeSets[i].url].state = "merged"
    BY <1>1, <1>2 DEF GitInv, OwnMerged
<1>4. changeSets[i].url \in 1 .. Len(pulls)
    <2>1. changeSets[i].url \in 0 .. Len(pulls) /\ Len(pulls) \in Nat
        BY <1>2, <1>inv, StepTrees DEF Inv, Numbers, TreesStay
    <2> QED BY <2>1, <1>3
<1> QED BY <1>2, <1>3, <1>4, StepTrees DEF TreesStay

\* Who passes its gate finds its own pull request merged.
LEMMA PassesMerged ==
    ASSUME GitInv, ~WorkerLost, NEW k \in Keys, Step(k), PassedGate(k)',
           NEW i \in 1 .. Len(changeSets'), changeSets'[i].run = k
    PROVE  changeSets'[i].url # 0 /\ pulls'[changeSets'[i].url].state = "merged"
<1> DEFINE t == kind[k]
<1>inv. ~WorkerLost /\ SerialInv /\ Inv /\ k \in Procs
    BY DEF GitInv, SerialInv, Procs
<1>here. /\ kind'[k] = t /\ pc[k] \in Nat /\ pc'[k] \in Nat /\ ~Ended(k)
         /\ t \in DOMAIN Program /\ pc[k] \in 1 .. Len(Program[t])
    BY <1>inv, SameKind
<1>run. t \in Gitters \ {"Rollback"} /\ Len(Program[t]) > GateAt(t)
    BY <1>inv, RunKinds
<1>order. BranchAt(t) \in 3 .. 6 /\ RecordAt(t) = BranchAt(t) + 2 /\ GateAt(t) \in 10 .. 15
    BY <1>run, PlaceOrder
<1>now. pc'[k] > GateAt(t)
    <2>1. pc'[k] \in 1 .. Len(Program[t])
        BY <1>inv, <1>here, <1>run, StepPlaces DEF PlacesOK, Placed, Gitters
    <2>2. PassedGate(k)' <=> pc'[k] > GateAt(t)
        <3>1. t # "none"
            BY <1>run DEF Gitters
        <3>2. \A j \in 1 .. pc'[k] - 1 : j \in 1 .. Len(Program[t])
            BY <2>1, <1>here, <1>run, ProgramFacts
        <3>3. \A j \in 1 .. pc'[k] - 1 : Program[t][j] = "gate" <=> j = GateAt(t)
            BY <3>2, <1>run, GitPlaces
        <3>4. PassedGate(k)' <=> \E j \in 1 .. pc'[k] - 1 : Program[t][j] = "gate"
            BY <3>1, <1>here DEF PassedGate
        <3>5. (\E j \in 1 .. pc'[k] - 1 : j = GateAt(t)) <=> pc'[k] > GateAt(t)
            BY <1>here, <1>order, SMTT(30)
        <3> QED BY <3>3, <3>4, <3>5
    <2> QED BY <2>2
<1>same. /\ ~Recorded(k) /\ i \in 1 .. Len(changeSets) /\ changeSets[i].run = k
         /\ UNCHANGED changeSets \/ Updated(k)
    <2>1. ~Recorded(k)
        <3>1. SUFFICES ASSUME Recorded(k)
                       PROVE  FALSE
            OBVIOUS
        <3>2. pc[k] = RecordAt(t)
            BY <3>1 DEF Recorded
        <3>3. pc[k] <= GateAt(t) /\ pc[k] # GateAt(t)
            BY <3>2, <1>order
        <3> QED BY <3>3, <1>now, <1>order, <1>inv, Reaches
    <2> QED BY <2>1, StepRuns, <1>inv
<1>once. i = Len(changeSets) /\ ByGit(k)
    BY <1>same, <1>here DEF GitInv, Run, Once
<1>holds. Holds(k)
    BY <1>once, <1>here, <1>inv DEF GitInv, Works
<1>merged. Last.url # 0 /\ pulls[Last.url].state = "merged" /\ held[k].url = Last.url
    <2>1. CASE pc[k] <= GateAt(t)
        <3>1. pc[k] = GateAt(t) /\ pc'[k] > pc[k]
            BY <2>1, <1>now, <1>order, <1>inv, <1>here, Reaches
        <3>2. Op(k) = "gate"
            BY <3>1, <1>run, <1>here, GitPlaces DEF Op
        <3>3. Gate(k)
            BY <3>1, <3>2, <1>once, <1>inv, CallMade DEF GitCalls
        <3>4. ~Fail(k) /\ pc' # [pc EXCEPT ![k] = StepStart(k)]
            <4>1. StepStart(k) \in 1 .. pc[k] /\ DOMAIN pc = Procs
                BY <1>here, <1>inv, StepStartFacts DEF Inv, Locals
            <4> QED BY <4>1, <3>1, <1>here, <1>inv DEF Fail
        <3>5. held[k].url # 0 /\ pulls[held[k].url].state = "merged"
            BY <3>3, <3>4 DEF Gate, prNumberFromURL, GetPullRequest
        <3>6. held[k].url = Last.url
            BY <3>1, <1>holds, <1>order DEF Holds
        <3> QED BY <3>5, <3>6
    <2>2. CASE pc[k] > GateAt(t)
        <3>1. PassedGate(k)
            BY <2>2, <1>run, <1>here, GateIsPassed
        <3>2. held[k].url = Last.url
            BY <2>2, <1>holds, <1>here, <1>order DEF Holds
        <3> QED BY <3>1, <3>2, <1>same, <1>once DEF GitInv, OwnMerged, Last
    <2> QED BY <2>1, <2>2, <1>here, <1>order
<1>url. changeSets'[i].url = Last.url
    <2>1. CASE UNCHANGED changeSets
        BY <2>1, <1>once DEF Last
    <2>2. CASE Updated(k)
        BY <2>2, <1>once, <1>merged DEF Updated, Last
    <2> QED BY <2>1, <2>2, <1>same
<1>number. Last.url \in 1 .. Len(pulls)
    <2>1. Last.url \in 0 .. Len(pulls) /\ Len(pulls) \in Nat
        BY <1>same, <1>once, <1>inv, StepTrees DEF Inv, Numbers, TreesStay, Last
    <2> QED BY <2>1, <1>merged
<1> QED BY <1>merged, <1>url, <1>number, <1>inv, StepTrees DEF TreesStay

\* Whoever else is under way was just started, and has no change set.
LEMMA OthersAtFirst ==
    ASSUME GitInv, ~WorkerLost, NEW p \in Procs, Step(p), NEW q \in Procs, q # p
    PROVE  /\ ~Ended(q)' => /\ pc'[q] = 1 /\ status'[q] = "active"
                            /\ kind[q] = "none" /\ UNCHANGED changeSets
           /\ status'[q] # "awaiting"
<1>inv. ~WorkerLost /\ SerialInv
    BY DEF GitInv
<1>ended. Ended(q)
    BY <1>inv, OnlyOne
<1>types. DOMAIN status = Procs
    BY <1>inv DEF SerialInv, Inv, Locals
<1>same. CASE status'[q] = status[q]
    BY <1>same, <1>ended DEF Ended
<1>goes. CASE Goes(p)
    BY <1>goes, <1>same, <1>types, <1>inv DEF Goes, Advance, Fail, Restarts
<1>fails. CASE CallFails(p)
    BY <1>fails, <1>same, <1>types DEF CallFails, Fail
<1>enqueue. CASE Enqueue(p)
    <2> DEFINE k == request[p].key
    <2>1. CASE kind' = kind /\ (Advance(p) \/ Fail(p))
        BY <2>1, <1>goes DEF Goes
    <2>2. CASE /\ kind[k] = "none"
               /\ status' = [status EXCEPT ![p] = "done", ![k] = "active"]
               /\ UNCHANGED changeSets
        <3>1. CASE q = k
            <4>1. status'[q] = "active" /\ kind[q] = "none" /\ UNCHANGED changeSets
                BY <2>2, <3>1, <1>types
            <4>2. ~Ended(q)'
                BY <4>1 DEF Ended
            <4>3. pc'[q] = 1
                BY <4>2, <1>inv, StepAlone
            <4> QED BY <4>1, <4>3
        <3>2. CASE q # k
            BY <2>2, <3>2, <1>types, <1>same
        <3> QED BY <3>1, <3>2
    <2> QED BY <2>1, <2>2, <1>enqueue DEF Enqueue
<1> QED BY <1>goes, <1>fails, <1>enqueue, <1>inv, StepGoes

\* A step keeps the invariant about everyone else,
LEMMA OthersKept ==
    ASSUME GitInv, ~WorkerLost, NEW p \in Procs, Step(p), NEW q \in Procs, q # p
    PROVE  /\ (Works(q) => Holds(q))' /\ Waits(q)'
           /\ q \in Keys => (Works(q) => Asked(q))' /\ (~Ended(q) => Once(q))'
<1>1. /\ ~Ended(q)' => /\ pc'[q] = 1 /\ status'[q] = "active"
                       /\ kind[q] = "none" /\ UNCHANGED changeSets
      /\ status'[q] # "awaiting"
    BY OthersAtFirst
<1>2. /\ BranchAt(kind'[q]) \in 3 .. 6 /\ RecordAt(kind'[q]) \in 5 .. 8
      /\ OpenAt(kind'[q]) \in 6 .. 10 /\ LinkAt(kind'[q]) \in 7 .. 12
      /\ GateAt(kind'[q]) \in 10 .. 15
    BY DEF BranchAt, RecordAt, OpenAt, LinkAt, GateAt
<1>3. (Works(q) => Holds(q))'
    BY <1>1, <1>2 DEF Works, Holds
<1>4. Waits(q)'
    BY <1>1 DEF Waits
<1>5. (Works(q) => Asked(q))'
    BY <1>1, <1>2 DEF Works, Asked
<1>6. q \in Keys => (~Ended(q) => Once(q))'
    BY <1>1 DEF GitInv, Run, Fresh, Once
<1> QED BY <1>3, <1>4, <1>5, <1>6

\* and nobody gets a change set without a program.
LEMMA FreshKept ==
    ASSUME GitInv, ~WorkerLost, NEW p \in Procs, Step(p), NEW k \in Keys
    PROVE  Fresh(k)'
<1> SUFFICES ASSUME kind'[k] = "none", NEW i \in 1 .. Len(changeSets'), changeSets'[i].run = k
             PROVE  FALSE
    BY DEF Fresh
<1>inv. ~WorkerLost /\ SerialInv /\ Inv /\ k \in Procs
    BY DEF GitInv, SerialInv, Procs
<1>1. kind[k] = "none"
    <2>1. kind \in [Procs -> DOMAIN Program \cup {"none"}]
        BY <1>inv DEF Inv, Locals
    <2>2. CASE kind' = kind
        BY <2>2
    <2>3. CASE Enqueue(p)
        <3>1. \A d \in DOMAIN Definition : Definition[d] # "none"
            BY DEF Definition
        <3> QED BY <2>1, <2>3, <3>1, <1>inv DEF Enqueue
    <2> QED BY <2>2, <2>3, StepGoes DEF Goes, CallFails
<1>2. k # p
    BY <1>1, <1>inv, SameKind DEF Program
<1>3. \A j \in 1 .. Len(changeSets) : changeSets[j].run # k
    BY <1>1 DEF GitInv, Run, Fresh
<1>4. Owner(p) # k
    BY <1>2, ClusterAssumption DEF Owner
<1> QED BY <1>3, <1>4, StepRuns DEF Recorded

\* Tables keep their shapes.
LEMMA ShapesKept ==
    ASSUME GitInv, ~WorkerLost, NEW p \in Procs, Step(p)
    PROVE  Shapes'
<1>1. \A i \in 1 .. Len(changeSets') : "run" \in DOMAIN changeSets'[i]
    <2>1. \A i \in 1 .. Len(changeSets) : "run" \in DOMAIN changeSets[i]
        BY DEF GitInv, Shapes
    <2>2. CASE Recorded(p)
        <3>1. \A i \in 1 .. Len(changeSets') : i \in 1 .. Len(changeSets) \/ i = Len(changeSets) + 1
            BY <2>2, StepRuns DEF Recorded
        <3> QED BY <2>1, <2>2, <3>1 DEF Recorded
    <2> QED BY <2>1, <2>2, StepRuns DEF Updated
<1> QED BY <1>1, StepTrees, StepBranches DEF Shapes

\* So a step keeps the invariant.
LEMMA StepKeeps ==
    ASSUME GitInv, ~WorkerLost, NEW p \in Procs, Step(p)
    PROVE  GitInv'
<1>inv. ~WorkerLost /\ SerialInv
    BY DEF GitInv
<1>1. SerialInv'
    <2>1. [SerialNext]_vars
        BY DEF SerialNext
    <2> QED BY <2>1, <1>inv, SeriallyInductive
<1>2. \A q \in Procs : (Works(q) => Holds(q))' /\ Waits(q)'
    BY HoldsKept, WaitsKept, OthersKept
<1>3. ASSUME NEW k \in Keys
      PROVE  Run(k)'
    <2>1. k \in Procs /\ Fresh(k)'
        BY FreshKept DEF Procs
    <2>2. (Works(k) => Asked(k))' /\ (~Ended(k) => Once(k))'
        BY <2>1, AskedKept, OnceKept, OthersKept
    <2> QED BY <2>1, <2>2 DEF Run
<1>4. OwnMerged'
    BY PassesMerged, OthersPassed DEF OwnMerged
<1> QED BY <1>1, <1>2, <1>3, <1>4, ShapesKept DEF GitInv

-----------------------------------------------------------------------------
(* What the people and the requests do to it. *)

\* What moves nobody, keeps the trees, and takes no branch from who still
\* needs it, keeps the invariant.
LEMMA FrameKeeps ==
    ASSUME GitInv, SerialInv', Shapes', TreesStay,
           UNCHANGED <<cluster, changeSets, kind, pc, held, request>>,
           \A q \in Procs : /\ Ended(q)' <=> Ended(q)
                            /\ status'[q] = "awaiting" => status[q] = "awaiting",
           \A k \in Keys : ~Ended(k) /\ pc[k] <= LinkAt(kind[k]) => UNCHANGED branches
    PROVE  GitInv'
<1>inv. SerialInv /\ Inv /\ Keys \subseteq Procs
    BY DEF GitInv, SerialInv, Procs
<1>len. Len(changeSets) \in Nat
    BY <1>inv, LenProperties DEF Inv, Tables, IsSeq
<1>merged. ASSUME NEW n \in 0 .. Len(pulls), n # 0
           PROVE  /\ pulls'[n].tree = pulls[n].tree
                  /\ pulls[n].state = "merged" => pulls'[n].state = "merged"
    BY <1>merged DEF TreesStay
<1>held. ASSUME NEW p \in Procs
         PROVE  (Works(p) => Holds(p))' /\ Waits(p)'
    BY DEF GitInv, Works, Holds, Waits, Last, ByGit
<1>run. ASSUME NEW k \in Keys
        PROVE  Run(k)'
    <2> DEFINE t == kind[k]
               b == BranchOf(k)
    <2>b. b' = b
        BY DEF BranchOf
    <2>pc. pc[k] \in Nat
        BY <1>inv DEF Inv, Locals
    <2>1. ASSUME Works(k)
          PROVE  Asked(k)'
        <3>1. Asked(k) /\ Holds(k) /\ ~Ended(k) /\ ByGit(k)
            BY <2>1, <1>inv DEF GitInv, Run, Works
        <3>2. t \in Gitters
            BY <3>1 DEF ByGit, Gitters
        <3>3. RecordAt(t) \in Nat /\ LinkAt(t) \in Nat /\ RecordAt(t) < LinkAt(t)
            BY <3>2, PlaceOrder
        <3>4. held[k].url \in 0 .. Len(pulls)
            BY <1>inv DEF Inv, Numbers
        <3>5. pc[k] > LinkAt(t) => Last.url \in 0 .. Len(pulls)
            <4>1. pc[k] > LinkAt(t) => Len(changeSets) \in 1 .. Len(changeSets)
                BY <3>1, <3>3, <2>pc, <1>len DEF Holds
            <4> QED BY <4>1, <1>inv DEF Inv, Numbers, Last
        <3>6. pc[k] <= LinkAt(t) => UNCHANGED branches
            BY <3>1
        <3>carries. \A x : Carries(x) <=> \A f \in DOMAIN renderManifestSet(cluster'.spec) :
                                            Agree(x, renderManifestSet(cluster'.spec), f)
            BY CarriesStays
        <3>7. Last' = Last /\ held' = held /\ kind'[k] = t /\ pc' = pc /\ BranchOf(k)' = b
            BY <2>b DEF Last
        <3> HIDE DEF b, t
        <3>8. t = kind[k] /\ b = BranchOf(k)
            BY DEF t, b
        <3>open. pc[k] > OpenAt(t) /\ pc[k] <= LinkAt(t) =>
                    held[k].url # 0 /\ Carries(pulls'[held[k].url].tree)
            BY <3>1, <3>4, <3>8, <1>merged DEF Asked
        <3>link. pc[k] > LinkAt(t) => Last.url # 0 /\ Carries(pulls'[Last.url].tree)
            BY <3>1, <3>5, <3>8, <1>merged DEF Asked
        <3>branch. /\ pc[k] > BranchAt(t) /\ pc[k] <= LinkAt(t) => b \in DOMAIN branches'
                   /\ pc[k] > BranchAt(t) + 1 /\ pc[k] <= LinkAt(t) => Carries(branches'[b].tip)
            BY <3>1, <3>6, <3>8 DEF Asked
        <3> QED BY <3>open, <3>link, <3>branch, <3>carries, <3>7 DEF Asked, Carries
    <2>2. ASSUME ~Ended(k)
          PROVE  Once(k)'
        BY <2>2 DEF GitInv, Run, Once, ByGit
    <2>3. Fresh(k)'
        BY DEF GitInv, Run, Fresh
    <2>4. /\ Works(k)' <=> Works(k)
          /\ Ended(k)' <=> Ended(k)
        BY <1>inv DEF Works, ByGit
    <2> QED BY <2>1, <2>2, <2>3, <2>4 DEF Run
<1>gate. OwnMerged'
    <2> SUFFICES ASSUME NEW k \in Keys, PassedGate(k), NEW i \in 1 .. Len(changeSets),
                        changeSets[i].run = k
                 PROVE  changeSets[i].url # 0 /\ pulls'[changeSets[i].url].state = "merged"
        BY DEF OwnMerged, PassedGate
    <2>1. changeSets[i].url # 0 /\ pulls[changeSets[i].url].state = "merged"
        BY DEF GitInv, OwnMerged
    <2>2. changeSets[i].url \in 0 .. Len(pulls)
        BY <1>inv DEF Inv, Numbers
    <2> QED BY <2>1, <2>2, <1>merged
<1> QED BY <1>held, <1>run, <1>gate DEF GitInv

\* Nothing changes.
LEMMA SameTrees ==
    ASSUME GitInv, UNCHANGED pulls
    PROVE  TreesStay
<1>1. Len(pulls) \in Nat
    BY LenProperties DEF GitInv, SerialInv, Inv, Tables, IsSeq
<1> QED BY <1>1 DEF GitInv, Shapes, TreesStay

\* People merge and close, resume, and delete branches nobody works on.
LEMMA PeopleKeep ==
    ASSUME GitInv, People
    PROVE  GitInv'
<1>inv. SerialInv /\ Inv /\ Shapes /\ Keys \subseteq Procs
    BY DEF GitInv, SerialInv, Procs
<1>serial. SerialInv'
    BY <1>inv, SeriallyInductive DEF SerialNext
<1>types. status \in [Procs -> Statuses]
    BY <1>inv DEF Inv, Locals
<1>resume. ASSUME NEW k, Resume(k)
           PROVE  GitInv'
    <2>1. /\ status[k] = "awaiting" /\ status' = [status EXCEPT ![k] = "active"]
          /\ UNCHANGED <<cluster, changeSets, branches, pulls, kind, pc, held, request>>
        BY <1>resume DEF Resume, gitVars
    <2>2. \A q \in Procs : /\ Ended(q)' <=> Ended(q)
                           /\ status'[q] = "awaiting" => status[q] = "awaiting"
        BY <2>1, <1>types DEF Ended
    <2>3. Shapes'
        BY <2>1, <1>inv DEF Shapes
    <2> QED BY <2>1, <2>2, <2>3, <1>serial, SameTrees, FrameKeeps
<1>pull. ASSUME NEW n \in 1 .. Len(pulls), PeopleMerge(n) \/ PeopleClose(n)
         PROVE  GitInv'
    <2>1. /\ UNCHANGED <<cluster, changeSets, branches, kind, pc, status, held, request>>
          /\ \/ pulls' = [pulls EXCEPT ![n].state = "merged"]
             \/ pulls' = [pulls EXCEPT ![n].state = "closed"] /\ pulls[n].state # "merged"
        BY <1>pull DEF PeopleMerge, PeopleClose, Merge, procVars
    <2>2. TreesStay /\ Len(pulls') = Len(pulls)
        BY <2>1, SetPullTree
    <2>3. Shapes'
        BY <2>1, <2>2, <1>inv DEF Shapes, TreesStay
    <2>4. \A q \in Procs : /\ Ended(q)' <=> Ended(q)
                           /\ status'[q] = "awaiting" => status[q] = "awaiting"
        BY <2>1 DEF Ended
    <2> QED BY <2>1, <2>2, <2>3, <2>4, <1>serial, FrameKeeps
<1>delete. ASSUME NEW n \in 1 .. Len(pulls), PeopleDeleteBranch(n)
           PROVE  GitInv'
    <2>1. /\ UNCHANGED <<cluster, changeSets, pulls, kind, pc, status, held, request>>
          /\ \A p \in Procs : status[p] # "active"
          /\ branches' = [b \in DOMAIN branches \ {pulls[n].head} |-> branches[b]]
        BY <1>delete DEF PeopleDeleteBranch, procVars
    <2>2. Shapes'
        BY <2>1, <1>inv DEF Shapes
    <2>3. \A q \in Procs : /\ Ended(q)' <=> Ended(q)
                           /\ status'[q] = "awaiting" => status[q] = "awaiting"
        BY <2>1 DEF Ended
    <2>4. ASSUME NEW k \in Keys, ~Ended(k)
          PROVE  ~(pc[k] <= LinkAt(kind[k]))
        <3>1. status[k] = "awaiting" /\ k \in Procs
            BY <2>1, <2>4, <1>types, <1>inv DEF Ended, Statuses
        <3>2. ByGit(k) /\ pc[k] > LinkAt(kind[k])
            BY <3>1 DEF GitInv, Waits
        <3>3. kind[k] \in Gitters
            BY <3>2 DEF ByGit, Gitters
        <3>4. LinkAt(kind[k]) \in Nat
            BY <3>3, PlaceOrder
        <3>5. pc[k] \in Nat
            BY <3>1, <1>inv DEF Inv, Locals
        <3> QED BY <3>2, <3>4, <3>5
    <2> QED BY <2>1, <2>2, <2>3, <2>4, <1>serial, SameTrees, FrameKeeps
<1> QED BY <1>resume, <1>pull, <1>delete DEF People, Webhook

\* A request begins while nobody is under way.
LEMMA StartKeeps ==
    ASSUME GitInv, Quiet, Start
    PROVE  GitInv'
<1>inv. SerialInv /\ Inv /\ Shapes /\ Keys \subseteq Procs
    BY DEF GitInv, SerialInv, Procs
<1>serial. SerialInv'
    BY <1>inv, SeriallyInductive DEF SerialNext
<1>tables. UNCHANGED <<changeSets, branches, pulls>>
    BY DEF Start, Create, ScaffoldRepository, Call, gitVars
<1>shapes. Shapes'
    BY <1>tables, <1>inv DEF Shapes
<1>others. ASSUME NEW q \in Procs, status'[q] = status[q]
           PROVE  Ended(q)' /\ status'[q] # "awaiting"
    BY <1>others DEF Quiet, Ended
<1>runs. UNCHANGED <<kind, pc, status>> \/ \E c \in Callers : Call(c)
    BY DEF Start, Create, ScaffoldRepository, procVars
<1>keys. \A k \in Keys : kind'[k] = kind[k] /\ pc'[k] = pc[k] /\ status'[k] = status[k]
    <2>1. ASSUME NEW c \in Callers, Call(c)
          PROVE  \A k \in Keys : kind'[k] = kind[k] /\ pc'[k] = pc[k] /\ status'[k] = status[k]
        <3>1. /\ pc' = [pc EXCEPT ![c] = 1] /\ status' = [status EXCEPT ![c] = "active"]
              /\ \E o : kind' = [kind EXCEPT ![c] = o]
            BY <2>1 DEF Call
        <3>2. \A k \in Keys : k # c
            BY ClusterAssumption
        <3> QED BY <3>1, <3>2, <1>inv DEF Inv, Locals
    <2> QED BY <2>1, <1>runs
<1>held. ASSUME NEW p \in Procs
         PROVE  (Works(p) => Holds(p))' /\ Waits(p)'
    <2>1. CASE status'[p] = status[p]
        BY <2>1, <1>others DEF Works, Waits
    <2>2. ASSUME NEW c \in Callers, Call(c)
          PROVE  (Works(p) => Holds(p))' /\ Waits(p)'
        <3>1. pc' = [pc EXCEPT ![c] = 1] /\ status' = [status EXCEPT ![c] = "active"]
            BY <2>2 DEF Call
        <3>2. DOMAIN pc = Procs /\ DOMAIN status = Procs
            BY <1>inv DEF Inv, Locals
        <3>3. CASE p = c
            <4>1. pc'[p] = 1 /\ status'[p] = "active"
                BY <3>1, <3>2, <3>3
            <4>2. RecordAt(kind'[p]) \in 5 .. 8 /\ GateAt(kind'[p]) \in 10 .. 15
                BY DEF RecordAt, BranchAt, GateAt
            <4> QED BY <4>1, <4>2 DEF Holds, Waits
        <3>4. CASE p # c
            BY <3>1, <3>2, <3>4, <2>1
        <3> QED BY <3>3, <3>4
    <2> QED BY <2>1, <2>2, <1>runs
<1>run. ASSUME NEW k \in Keys
        PROVE  Run(k)'
    <2>1. Ended(k)'
        BY <1>keys, <1>others, <1>inv
    <2>2. Fresh(k)'
        BY <1>keys, <1>tables DEF GitInv, Run, Fresh
    <2> QED BY <2>1, <2>2 DEF Run, Works
<1>gate. OwnMerged'
    BY <1>keys, <1>tables DEF GitInv, OwnMerged, PassedGate
<1> QED BY <1>serial, <1>shapes, <1>held, <1>run, <1>gate DEF GitInv

\* The invariant holds at first,
LEMMA GitAtFirst == Init => GitInv
<1> SUFFICES ASSUME Init
             PROVE  GitInv
    OBVIOUS
<1>1. \A p \in Procs : status[p] = "idle" /\ kind[p] = "none"
    BY DEF Init
<1>2. /\ Len(changeSets) = 0 /\ Len(pulls) = 0 /\ DOMAIN branches = {}
      /\ Keys \subseteq Procs
    BY DEF Init, Procs
<1>3. \A p \in Procs : Ended(p) /\ status[p] # "awaiting"
    BY <1>1 DEF Ended
<1>4. \A p \in Procs : (Works(p) => Holds(p)) /\ Waits(p)
    BY <1>3 DEF Works, Waits
<1>5. \A k \in Keys : Run(k)
    BY <1>2, <1>3 DEF Run, Works, Fresh
<1>6. OwnMerged
    BY <1>2 DEF OwnMerged
<1>7. Shapes
    BY <1>2 DEF Shapes
<1> QED BY <1>4, <1>5, <1>6, <1>7, SeriallyAtFirst DEF GitInv

\* and every serial step in which no worker dies keeps it.
LEMMA GitKept ==
    ASSUME GitInv, ~WorkerLost, [SerialNext]_vars
    PROVE  GitInv'
<1>stutter. CASE UNCHANGED vars
    <2>1. /\ UNCHANGED <<cluster, changeSets, branches, pulls, kind, pc, status, held, request>>
          /\ SerialInv'
        BY <1>stutter, SeriallyInductive DEF vars, GitInv
    <2>2. Shapes' /\ \A q \in Procs : /\ Ended(q)' <=> Ended(q)
                                      /\ status'[q] = "awaiting" => status[q] = "awaiting"
        BY <2>1 DEF GitInv, Shapes, Ended
    <2> QED BY <2>1, <2>2, SameTrees, FrameKeeps
<1> QED BY <1>stutter, StepKeeps, PeopleKeep, StartKeeps DEF SerialNext

\* The inductive invariant: until a worker dies in a step, GitInv.
UntilDeath == SerialInv /\ (Unharmed => GitInv)

\* Where nobody died, nobody died before and nobody dies.
LEMMA Unhurt ==
    ASSUME SerialInv, [SerialNext]_vars, Unharmed'
    PROVE  Unharmed /\ ~WorkerLost
<1>1. faults \in [calls : 0 .. MaxFaults, deaths : 0 .. MaxFaults] /\ MaxFaults \in Nat
    BY ClusterAssumption DEF SerialInv, Inv
<1>2. Counted
    BY SerialSteps, NextFaults
<1>3. ~WorkerLost
    BY <1>1 DEF WorkerLost, Unharmed
<1>4. Unharmed
    BY <1>1, <1>2, <1>3 DEF Counted, CallLost, Unharmed
<1> QED BY <1>3, <1>4

LEMMA GitInductive == UntilDeath /\ [SerialNext]_vars => UntilDeath'
<1> SUFFICES ASSUME UntilDeath, [SerialNext]_vars
             PROVE  UntilDeath'
    OBVIOUS
<1>1. SerialInv'
    BY SeriallyInductive DEF UntilDeath
<1>2. ASSUME Unharmed'
      PROVE  GitInv'
    <2>1. Unharmed /\ ~WorkerLost
        BY <1>2, Unhurt DEF UntilDeath
    <2> QED BY <2>1, GitKept DEF UntilDeath
<1> QED BY <1>1, <1>2 DEF UntilDeath

-----------------------------------------------------------------------------
(* What a serial step promises. *)

ForwardMove ==
    \A i \in 1 .. Len(changeSets) :
        Rank(changeSets'[i].status) >= Rank(changeSets[i].status)

\* A change set is saved by the run that holds it, in the order of its calls.
LEMMA MovesForward ==
    ASSUME GitInv, ~WorkerLost, [SerialNext]_vars
    PROVE  ForwardMove
<1>rank. \A s : Rank(s) \in 1 .. 4
    BY DEF Rank
<1>same. CASE UNCHANGED changeSets
    BY <1>same, <1>rank DEF ForwardMove
<1>step. ASSUME NEW p \in Procs, Step(p)
         PROVE  ForwardMove
    <2>1. CASE Recorded(p)
        BY <2>1, <1>rank DEF Recorded, ForwardMove
    <2>2. CASE Updated(p)
        <3> DEFINE t == kind[p]
        <3>1. Works(p) /\ t \in Gitters /\ pc[p] >= LinkAt(t) /\ Op(p) \in {"link", "markMerged", "markSynced"}
            BY <2>2 DEF Updated
        <3>2. /\ RecordAt(t) \in Nat /\ LinkAt(t) \in Nat /\ SyncedAt(t) \in Nat
              /\ RecordAt(t) < LinkAt(t) /\ LinkAt(t) < SyncedAt(t)
            BY <3>1, PlaceOrder
        <3>here. pc[p] \in Nat /\ pc[p] \in 1 .. Len(Program[t])
            BY <1>step, SameKind DEF GitInv
        <3>3. /\ pc[p] <= LinkAt(t) => Last.status = "COMMITTED"
              /\ pc[p] <= SyncedAt(t) => Last.status # "SYNCED"
            <4>1. Holds(p)
                BY <3>1 DEF GitInv
            <4>2. pc[p] > RecordAt(t)
                BY <3>1, <3>2, <3>here
            <4> QED BY <4>1, <4>2 DEF Holds
        <3>4. Last.status \in {"COMMITTED", "PR_CREATED", "MERGED", "SYNCED"}
            <4>1. Len(changeSets) \in 1 .. Len(changeSets)
                BY <2>2 DEF Updated
            <4> QED BY <4>1 DEF Last, GitInv, SerialInv, Inv, Numbers
        <3>5. Rank(Marks(Op(p))) >= Rank(Last.status)
            <4>1. CASE Op(p) = "link"
                <5>1. pc[p] = LinkAt(t)
                    BY <4>1, <3>1, <3>here, GitPlaces DEF Op
                <5>2. Last.status = "COMMITTED"
                    BY <5>1, <3>2, <3>3
                <5> QED BY <4>1, <5>2 DEF Rank, Marks
            <4>2. CASE Op(p) = "markMerged"
                <5>1. pc[p] <= SyncedAt(t)
                    BY <4>2, <3>1, <3>2, <3>here, GitPlaces DEF Op
                <5>2. Last.status # "SYNCED"
                    BY <5>1, <3>3
                <5> QED BY <4>2, <5>2, <3>4 DEF Rank, Marks
            <4>3. CASE Op(p) = "markSynced"
                <5>1. Rank(Marks(Op(p))) = 4
                    BY <4>3 DEF Rank, Marks
                <5>2. Rank(Last.status) \in 1 .. 4
                    BY <1>rank
                <5> QED BY <5>1, <5>2
            <4> QED BY <4>1, <4>2, <4>3, <3>1
        <3>6. changeSets'[Len(changeSets)].status = Marks(Op(p))
            BY <2>2 DEF Updated, Last
        <3>7. \A i \in 1 .. Len(changeSets) : i # Len(changeSets) => changeSets'[i] = changeSets[i]
            BY <2>2 DEF Updated
        <3> QED BY <3>5, <3>6, <3>7, <1>rank DEF ForwardMove, Last
    <2> QED BY <1>step, <2>1, <2>2, <1>same, StepRuns
<1>start. CASE Start
    BY <1>start, <1>same DEF Start, Create, ScaffoldRepository, Call
<1>people. CASE People
    BY <1>people, <1>same
    DEF People, PeopleMerge, PeopleClose, PeopleDeleteBranch, Webhook, Resume
<1>stutter. CASE UNCHANGED vars
    BY <1>stutter, <1>same DEF vars
<1> QED BY <1>step, <1>start, <1>people, <1>stutter DEF SerialNext

\* A run that ends well took its last call.
LEMMA Completes ==
    ASSUME ~WorkerLost, SerialInv, NEW k \in Keys, Step(k), status'[k] = "done"
    PROVE  pc[k] = Len(Program[kind[k]])
<1>1. k \in Procs /\ kind[k] \in Gitters
    BY RunKinds
<1>2. status[k] = "active" /\ DOMAIN status = Procs
    BY <1>1, SameKind DEF SerialInv, Inv, Locals
<1>3. ~Enqueue(k)
    BY <1>1, SameKind, RunPlaces DEF Enqueue, At, Op
<1>4. ~Fail(k) /\ status' # status /\ status' # [status EXCEPT ![k] = "awaiting"]
    BY <1>1, <1>2 DEF Fail
<1>5. ~Restarts(k) /\ ~CallFails(k)
    BY <1>4 DEF Restarts, CallFails
<1>6. Advance(k)
    BY <1>3, <1>4, <1>5, StepGoes DEF Goes
<1> QED BY <1>4, <1>6 DEF Advance

Delivers ==
    \A k \in Keys :
        /\ status[k] = "active" /\ status'[k] = "done" /\ Unharmed'
        /\ cluster.spec.mode = "CLUSTER_API"
        => \E n \in 1 .. Len(pulls) :
            /\ pulls[n].state = "merged"
            /\ LET want == renderManifestSet(cluster.spec)
               IN \A f \in DOMAIN want : Agree(pulls[n].tree, want, f)

\* What it was asked for is in its pull request, which was merged at its gate.
LEMMA CompletesMerged ==
    ASSUME GitInv, ~WorkerLost, [SerialNext]_vars
    PROVE  Delivers
<1> SUFFICES ASSUME NEW k \in Keys, status[k] = "active", status'[k] = "done",
                    cluster.spec.mode = "CLUSTER_API"
             PROVE  \E n \in 1 .. Len(pulls) : pulls[n].state = "merged" /\ Carries(pulls[n].tree)
    BY DEF Delivers, Carries
<1>inv. ~WorkerLost /\ SerialInv /\ Inv /\ k \in Procs
    BY DEF GitInv, SerialInv, Procs
<1>begun. ~Ended(k)
    BY DEF Ended
<1>types. DOMAIN status = Procs
    BY <1>inv DEF Inv, Locals
<1>1. Step(k)
    <2>1. ~UNCHANGED vars
        BY DEF vars
    <2>2. ~(Quiet /\ Start)
        BY <1>begun, <1>inv DEF Quiet
    <2>3. ~People
        BY <1>types, <1>inv
        DEF People, PeopleMerge, PeopleClose, PeopleDeleteBranch, Webhook, Resume, procVars
    <2>4. PICK p \in Procs : Step(p)
        BY <2>1, <2>2, <2>3 DEF SerialNext
    <2>5. p = k
        BY <2>4, <1>begun, <1>inv, OnlyOne
    <2> QED BY <2>4, <2>5
<1> DEFINE t == kind[k]
<1>2. /\ t \in {"CLUSTER_PROVISION", "CLUSTER_UPGRADE", "WORKER_SCALE"} /\ t \in Gitters
      /\ Len(Program[t]) > GateAt(t) /\ pc[k] = Len(Program[t])
      /\ pc[k] \in 1 .. Len(Program[t]) /\ pc[k] \in Nat
    BY <1>1, <1>inv, RunKinds, Completes, SameKind
<1>3. Works(k)
    BY <1>2, <1>begun DEF Works, ByGit
<1>4. Holds(k) /\ Asked(k)
    BY <1>3, <1>inv DEF GitInv, Run
<1>5. pc[k] > GateAt(t) /\ pc[k] > LinkAt(t) /\ pc[k] > RecordAt(t)
    BY <1>2, PlaceOrder
<1>6. Len(changeSets) > 0 /\ Last.run = k /\ Last.url # 0 /\ Carries(pulls[Last.url].tree)
    BY <1>4, <1>5 DEF Holds, Asked
<1>7. Len(changeSets) \in 1 .. Len(changeSets)
    <2>1. Len(changeSets) \in Nat
        BY <1>inv, LenProperties DEF Inv, Tables, IsSeq
    <2> QED BY <2>1, <1>6
<1>8. PassedGate(k)
    <2>1. t \in Gitters \ {"Rollback"}
        BY <1>2
    <2> QED BY <2>1, <1>2, <1>5, GateIsPassed
<1>9. pulls[Last.url].state = "merged"
    BY <1>6, <1>7, <1>8 DEF GitInv, OwnMerged, Last
<1>10. Last.url \in 1 .. Len(pulls)
    <2>1. Last.url \in 0 .. Len(pulls) /\ Len(pulls) \in Nat
        <3>1. Len(pulls) \in Nat
            BY <1>inv, LenProperties DEF Inv, Tables, IsSeq
        <3> QED BY <3>1, <1>7, <1>inv DEF Inv, Numbers, Last
    <2> QED BY <2>1, <1>6
<1> QED BY <1>6, <1>9, <1>10

-----------------------------------------------------------------------------

\* While requests and runs do not overlap, and until a worker dies in a step, a run
\* that passed its approval gate had its own pull request merged, whoever merges,
\* closes or deletes what meanwhile and whichever calls fail (capi_change.go,
\* awaitClusterAPIChangeMerge).
THEOREM GatesMeanMerged == SerialSpec => []GateMeansMerged
<1>1. Init => UntilDeath
    BY GitAtFirst DEF UntilDeath, GitInv
<1>2. UntilDeath => GateMeansMerged
    BY DEF UntilDeath, GitInv, GateMeansMerged
<1> QED BY <1>1, <1>2, GitInductive, PTL DEF SerialSpec

\* While requests and runs do not overlap, and until a worker dies in a step, no
\* change set's status goes back (gitops.go, ChangeSetStatus).
THEOREM StatusesGoForward == SerialSpec => StatusForward
<1>1. Init => UntilDeath
    BY GitAtFirst DEF UntilDeath, GitInv
<1>2. UntilDeath /\ [SerialNext]_vars => [Unharmed' => ForwardMove]_vars
    BY Unhurt, MovesForward DEF UntilDeath
<1>3. SerialSpec => [][Unharmed' => ForwardMove]_vars
    BY <1>1, <1>2, GitInductive, PTL DEF SerialSpec
<1> QED BY <1>3 DEF StatusForward, ForwardMove

\* While requests and runs do not overlap, and until a worker dies in a step, a run
\* of a CLUSTER_API cluster that completes had a pull request merged with every
\* file of the spec that the row holds (ADR-0002, ADR-0004).
THEOREM RunsDeliver == SerialSpec => Delivered
<1>1. Init => UntilDeath
    BY GitAtFirst DEF UntilDeath, GitInv
<1>2. UntilDeath /\ [SerialNext]_vars => [Delivers]_vars
    <2> SUFFICES ASSUME UntilDeath, [SerialNext]_vars, Unharmed'
                 PROVE  Delivers
        BY DEF Delivers
    <2> QED BY Unhurt, CompletesMerged DEF UntilDeath
<1>3. SerialSpec => [][Delivers]_vars
    BY <1>1, <1>2, GitInductive, PTL DEF SerialSpec
<1> QED BY <1>3 DEF Delivered, Delivers

=============================================================================
