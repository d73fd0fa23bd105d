------------------------- MODULE ClusterOperations -------------------------
(***************************************************************************)
(* One cluster, the API requests that operate on it (internal/application/ *)
(* clusterservice) and the workflow runs that carry them out (internal/    *)
(* workflows), sharing the cluster's row, its change sets and its files in *)
(* the GitOps repository.                                                  *)
(*                                                                         *)
(* A request or a run is a process that executes a program: the reads and  *)
(* writes of the handler or of the workflow's steps, in their order. Every *)
(* one of them is a call to the database, to GitHub, to Argo CD or to the  *)
(* cluster, so every one of them is a step of its own here, and what a     *)
(* process read earlier may be stale when it writes.                       *)
(*                                                                         *)
(* Of the engine's faults this module has the step that is skipped: its    *)
(* worker died, or what became of it could not be written (Crash). That a  *)
(* duplicated message makes two steps of one run overlap is the subject of *)
(* WorkflowEngine and left out here.                                       *)
(***************************************************************************)
EXTENDS Manifests, FiniteSets

CONSTANTS
    Callers,     \* API requests in flight, at most one each
    Keys,        \* idempotency keys; a key is also the name of its run
    Specs,       \* the specs a cluster is created with
    Targets,     \* pairs of versions an Upgrade asks for, Unset where it names none
    Sizes,       \* replica counts a ScaleWorkers asks for
    Pools,       \* pool names a ScaleWorkers asks for
    Unset,       \* the empty version
    MaxChanges,  \* bound: change sets, and so pull requests, ever made
    MaxFaults    \* bound: faults of both kinds together

ASSUME ClusterAssumption ==
    /\ Callers \cap Keys = {} /\ "none" \notin Keys
    /\ \A s \in Specs : IsSpec(s)
    /\ MaxChanges \in Nat /\ MaxFaults \in Nat

VARIABLES
    cluster,     \* the row of table clusters: its state and its spec
    changeSets,  \* the rows of gitops_changesets, oldest first
    main,        \* the tree of the repository's default branch
    branches,    \* the other branches: the tree they left main at, and their own
    pulls,       \* the pull requests; a pull request's number is its index
    kind,        \* the program a process executes
    pc,          \* how far it is
    status,      \* idle, active, awaiting (approval), failed or done
    row,         \* the copy of the cluster's row it loaded
    held,        \* the copy of a change set it holds: its id and its pull request
    request,     \* what a caller asks for
    faults       \* calls and requests lost so far, and workers that died in a step

procVars == <<kind, pc, status, row, held, request>>

gitVars == <<main, branches, pulls>>

vars == <<cluster, changeSets, main, branches, pulls, kind, pc, status, row, held, request, faults>>

Procs == Callers \cup Keys

-----------------------------------------------------------------------------
(* The life cycle. *)

validTransitions ==
    [DRAFT         |-> {"PLANNING", "DELETING"},
     PLANNING      |-> {"VALIDATING", "FAILED", "DELETING"},
     VALIDATING    |-> {"PROVISIONING", "FAILED", "DELETING"},
     PROVISIONING  |-> {"BOOTSTRAPPING", "FAILED", "DELETING"},
     BOOTSTRAPPING |-> {"INSTALLING", "FAILED", "DELETING"},
     INSTALLING    |-> {"CONFIGURING", "FAILED", "DELETING"},
     CONFIGURING   |-> {"READY", "FAILED", "DELETING"},
     READY         |-> {"DEGRADED", "UPGRADING", "DELETING"},
     DEGRADED      |-> {"READY", "FAILED", "DELETING"},
     UPGRADING     |-> {"READY", "DEGRADED", "FAILED"},
     FAILED        |-> {"PLANNING", "DELETING"},
     DELETING      |-> {"DELETED", "FAILED"},
     DELETED       |-> {}]

States == DOMAIN validTransitions

CanTransition(s, next) == next \in validTransitions[s]

NoCluster == [state |-> "NONE", spec |-> <<>>]

NewCluster(s) == [state |-> "DRAFT", spec |-> s]

\* Whether the row can be loaded.
scanCluster == cluster # NoCluster

-----------------------------------------------------------------------------
(* The programs. The steps of a workflow begin at the calls in StepHeads.  *)

TriggerSync == <<"load", "syncable", "sync">>

RollbackCalls ==
    <<"load", "revert", "branch", "commit", "record", "openPR", "link", "merge", "markMerged",
      "sync", "markSynced">>

ClusterProvision ==
    <<"versions", "network", "load", "BOOTSTRAPPING",
      "load", "branch", "commit", "record", "load", "openPR", "latest", "link",
      "load", "latest", "gate", "markMerged", "INSTALLING",
      "load", "sync", "recall", "markSynced", "capiReady",
      "load", "CONFIGURING", "talosHealth", "load", "markReady">>

commitClusterAPIChange == <<"load", "branch", "commit", "record", "openPR", "link">>

awaitClusterAPIChangeMerge ==
    <<"load", "latest", "gate", "markMerged", "sync", "markSynced">>

ClusterUpgrade ==
    <<"load", "UPGRADING">> \o commitClusterAPIChange \o awaitClusterAPIChangeMerge
        \o <<"capiReady", "load", "READY">>

WorkerScale ==
    <<"scalable">> \o commitClusterAPIChange \o awaitClusterAPIChangeMerge \o <<"capiReady">>

Program ==
    [Provision    |-> <<"load", "plan", "claim", "enqueue">>,
     Delete       |-> <<"load", "DELETING", "enqueue">>,
     Upgrade      |-> <<"load", "retarget", "enqueue">>,
     ScaleWorkers |-> <<"load", "resize", "enqueue">>,
     TriggerSync  |-> TriggerSync,
     Rollback     |-> RollbackCalls,
     CLUSTER_PROVISION |-> ClusterProvision,
     CLUSTER_UPGRADE   |-> ClusterUpgrade,
     WORKER_SCALE      |-> WorkerScale]

StepHeads == {"load", "versions", "network", "scalable", "capiReady"}

\* What Enqueue starts. No process registers a definition of CLUSTER_DELETE.
Definition == [Provision |-> "CLUSTER_PROVISION", Upgrade |-> "CLUSTER_UPGRADE",
               ScaleWorkers |-> "WORKER_SCALE"]

Op(p) == Program[kind[p]][pc[p]]

At(p, op) == status[p] = "active" /\ Op(p) = op

Ended(p) == status[p] \in {"idle", "failed", "done"}

\* The step p is in begins at the last head it reached: a step that waits for
\* approval is put back to PENDING, and a resumed run starts it again.
StepStart(p) ==
    CHOOSE i \in 1 .. pc[p] :
        /\ Program[kind[p]][i] \in StepHeads
        /\ \A j \in i + 1 .. pc[p] : Program[kind[p]][j] \notin StepHeads

\* Where the step after the one p is in begins, if there is one.
NextStep(p) ==
    {i \in pc[p] + 1 .. Len(Program[kind[p]]) :
        /\ Program[kind[p]][i] \in StepHeads
        /\ \A j \in pc[p] + 1 .. i - 1 : Program[kind[p]][j] \notin StepHeads}

\* Mutant: the end of the program is missed.
AdvancePastEnd(p) == pc' = [pc EXCEPT ![p] = @ + 1] /\ status' = status

Advance(p) ==
    IF pc[p] = Len(Program[kind[p]])
    THEN status' = [status EXCEPT ![p] = "done"] /\ pc' = pc
    ELSE pc' = [pc EXCEPT ![p] = @ + 1] /\ status' = status

Fail(p) == status' = [status EXCEPT ![p] = "failed"] /\ pc' = pc

\* p goes on if its condition holds and fails if it does not.
Demand(p, condition) == IF condition THEN Advance(p) ELSE Fail(p)

-----------------------------------------------------------------------------
(* Initially nothing exists but the repository. *)

Init ==
    /\ cluster = NoCluster
    /\ changeSets = <<>> /\ pulls = <<>>
    /\ main = [p \in {} |-> <<>>] /\ branches = [b \in {} |-> <<>>]
    /\ kind = [p \in Procs |-> "none"]
    /\ pc = [p \in Procs |-> 1]
    /\ status = [p \in Procs |-> "idle"]
    /\ row = [p \in Procs |-> NoCluster]
    /\ held = [p \in Procs |-> [id |-> 0, url |-> 0]]
    /\ request = [p \in Callers |-> [op |-> "none"]]
    /\ faults = [calls |-> 0, deaths |-> 0]

\* Mutant: a second creation overwrites the row.
CreateAgain ==
    /\ \E s \in Specs : cluster' = NewCluster(s)
    /\ UNCHANGED <<changeSets, gitVars, procVars, faults>>

Create ==
    /\ cluster = NoCluster
    /\ \E s \in Specs : cluster' = NewCluster(s)
    /\ UNCHANGED <<changeSets, gitVars, procVars, faults>>

\* The layout goes straight to the default branch.
ScaffoldRepository ==
    /\ main' = Overlay(RenderRepositoryScaffold, main)
    /\ main' # main
    /\ UNCHANGED <<cluster, changeSets, branches, pulls, procVars, faults>>

\* What a caller may ask for.
Requests ==
    [op : {"Provision", "Delete"}, key : Keys]
        \cup [op : {"TriggerSync"}]
        \cup [op : {"Upgrade"}, key : Keys, target : Targets]
        \cup [op : {"ScaleWorkers"}, key : Keys, pool : Pools, size : Sizes]
        \cup [op : {"Rollback"}, target : 1 .. Len(changeSets)]

Call(c) ==
    /\ Ended(c) /\ Len(changeSets) < MaxChanges
    /\ \E q \in Requests :
        /\ request' = [request EXCEPT ![c] = q]
        /\ kind' = [kind EXCEPT ![c] = q.op]
    /\ pc' = [pc EXCEPT ![c] = 1]
    /\ status' = [status EXCEPT ![c] = "active"]
    /\ UNCHANGED <<cluster, changeSets, gitVars, row, held, faults>>

-----------------------------------------------------------------------------
(* The cluster's row. A write saves the whole copy. *)

Load(p) ==
    /\ At(p, "load")
    /\ row' = [row EXCEPT ![p] = cluster]
    /\ Demand(p, scanCluster)
    /\ UNCHANGED <<cluster, changeSets, gitVars, kind, held, request, faults>>

\* Steps and checks that only read the row.
Checks ==
    [plan     |-> cluster.spec.k8s # Unset /\ cluster.spec.talos # Unset,
     versions |-> cluster.spec.k8s # Unset /\ cluster.spec.talos # Unset,
     network  |-> cluster.spec.placed,
     scalable |-> cluster.state \in {"READY", "DEGRADED"},
     syncable |-> cluster.spec.argo]

Check(p) ==
    /\ status[p] = "active" /\ Op(p) \in {"plan", "versions", "network", "scalable", "syncable"}
    /\ Demand(p, Checks[Op(p)])
    /\ UNCHANGED <<cluster, changeSets, gitVars, kind, row, held, request, faults>>

\* p saves its copy with the change made to it.
Save(p, changed) ==
    /\ cluster' = changed
    /\ row' = [row EXCEPT ![p] = changed]
    /\ Advance(p)

Refuse(p) == Fail(p) /\ UNCHANGED <<cluster, row>>

\* Mutant: the copy is saved without asking the life cycle.
SaveUnasked(p) ==
    /\ status[p] = "active"
    /\ Op(p) \in {"BOOTSTRAPPING", "INSTALLING", "CONFIGURING", "UPGRADING", "READY"}
    /\ Save(p, [row[p] EXCEPT !.state = Op(p)])
    /\ UNCHANGED <<changeSets, gitVars, kind, held, request, faults>>

transitionAndSave(p) ==
    /\ status[p] = "active"
    /\ Op(p) \in {"BOOTSTRAPPING", "INSTALLING", "CONFIGURING", "UPGRADING", "READY"}
    /\ \/ row[p].state = Op(p) /\ Advance(p) /\ UNCHANGED <<cluster, row>>
       \/ CanTransition(row[p].state, Op(p)) /\ Save(p, [row[p] EXCEPT !.state = Op(p)])
       \/ row[p].state # Op(p) /\ ~CanTransition(row[p].state, Op(p)) /\ Refuse(p)
    /\ UNCHANGED <<changeSets, gitVars, kind, held, request, faults>>

\* A transition to the state the copy is in is refused like any other that is
\* not in the table.
Transition(p, next) ==
    /\ IF CanTransition(row[p].state, next)
       THEN Save(p, [row[p] EXCEPT !.state = next])
       ELSE Refuse(p)
    /\ UNCHANGED <<changeSets, gitVars, kind, held, request, faults>>

Delete(p) == At(p, "DELETING") /\ Transition(p, "DELETING")

markReady(p) == At(p, "markReady") /\ Transition(p, "READY")

\* Mutant: Provision does not ask the life cycle.
ClaimUnasked(p) ==
    /\ At(p, "claim")
    /\ Save(p, [row[p] EXCEPT !.state = "PROVISIONING"])
    /\ UNCHANGED <<changeSets, gitVars, kind, held, request, faults>>

\* Provision walks PLANNING, VALIDATING and PROVISIONING in memory.
Claim(p) ==
    /\ At(p, "claim")
    /\ IF /\ CanTransition(row[p].state, "PLANNING")
          /\ CanTransition("PLANNING", "VALIDATING")
          /\ CanTransition("VALIDATING", "PROVISIONING")
       THEN Save(p, [row[p] EXCEPT !.state = "PROVISIONING"])
       ELSE Refuse(p)
    /\ UNCHANGED <<changeSets, gitVars, kind, held, request, faults>>

Retarget(p) ==
    LET t == request[p].target
        Chosen(new, old) == IF new = Unset THEN old ELSE new
    IN
    /\ At(p, "retarget")
    /\ IF t = <<Unset, Unset>>
       THEN Refuse(p)
       ELSE Save(p, [row[p] EXCEPT !.spec.k8s = Chosen(t[1], @),
                                   !.spec.talos = Chosen(t[2], @)])
    /\ UNCHANGED <<changeSets, gitVars, kind, held, request, faults>>

\* The first pool of the name is resized.
Resize(p) ==
    LET pools == row[p].spec.pools
        named == {i \in 1 .. Len(pools) : pools[i].name = request[p].pool}
    IN
    /\ At(p, "resize")
    /\ \/ /\ named = {} /\ Refuse(p)
       \/ \E i \in named :
            /\ \A j \in named : i <= j
            /\ Save(p, [row[p] EXCEPT !.spec.pools[i].replicas = request[p].size])
    /\ UNCHANGED <<changeSets, gitVars, kind, held, request, faults>>

\* A key that has a run answers with it, whatever the run is and however it
\* went; otherwise the run of the request's definition starts.
Enqueue(p) ==
    LET k == request[p].key
        q == request[p].op
    IN
    /\ At(p, "enqueue")
    /\ \/ /\ kind[k] # "none"
          /\ Advance(p)
          /\ UNCHANGED kind
       \/ /\ kind[k] = "none" /\ q \notin DOMAIN Definition
          /\ Fail(p)
          /\ UNCHANGED kind
       \/ /\ kind[k] = "none" /\ q \in DOMAIN Definition
          /\ kind' = [kind EXCEPT ![k] = Definition[q]]
          /\ status' = [status EXCEPT ![p] = "done", ![k] = "active"]
          /\ UNCHANGED pc
    /\ UNCHANGED <<cluster, changeSets, gitVars, row, held, request, faults>>

-----------------------------------------------------------------------------
(* Git, through the GitHub client, and the change sets. *)

BranchOf(p) ==
    CASE kind[p] = "CLUSTER_PROVISION" -> <<"provision">>
      [] kind[p] = "CLUSTER_UPGRADE" -> <<"upgrade">>
      [] kind[p] = "WORKER_SCALE" -> <<"scale">>
      [] OTHER -> <<"rollback", request[p].target>>

GetChangeSet(i) == changeSets[i]

\* The contents the files of a change set had before its commit.
Prior(cs) == [f \in cs.files |-> cs.before[f]]

\* Mutant: the Cluster API files are not committed.
CoreFilesOf(p) ==
    IF kind[p] = "Rollback"
    THEN Prior(GetChangeSet(request[p].target))
    ELSE RenderClusterManifests(row[p].spec)

FilesOf(p) ==
    IF kind[p] = "Rollback"
    THEN Prior(GetChangeSet(request[p].target))
    ELSE renderManifestSet(row[p].spec)

filePaths(files) == DOMAIN files

\* DIRECT_TALOS upgrades and scalings skip Git and Cluster API, whose step reads
\* the row itself; without Argo CD nothing syncs.
Skips(p) ==
    \/ Op(p) \in {"sync", "recall", "markSynced"} /\ ~row[p].spec.argo
    \/ Op(p) = "capiReady" /\ cluster.spec.mode # "CLUSTER_API"
    \/ /\ kind[p] \in {"CLUSTER_UPGRADE", "WORKER_SCALE"}
       /\ Op(p) \in {"branch", "commit", "record", "openPR", "link", "latest", "gate",
                     "markMerged", "sync", "markSynced"}
       /\ row[p].spec.mode # "CLUSTER_API"

Doing(p, op) == At(p, op) /\ ~Skips(p)

Skip(p) ==
    /\ status[p] = "active"
    /\ Op(p) \in {"branch", "commit", "record", "openPR", "link", "latest", "gate",
                  "markMerged", "sync", "recall", "markSynced", "capiReady"}
    /\ Skips(p)
    /\ Advance(p)
    /\ UNCHANGED <<cluster, changeSets, gitVars, kind, row, held, request, faults>>

\* GitHub answers 404 for a file the parent commit does not have, which
\* GetFile does not turn into ErrNotFound: Rollback gives up.
Revert(p) ==
    /\ At(p, "revert")
    /\ LET cs == GetChangeSet(request[p].target)
       IN  Demand(p, cs.files \subseteq DOMAIN cs.before)
    /\ UNCHANGED <<cluster, changeSets, gitVars, kind, row, held, request, faults>>

CreateBranch(p) ==
    /\ Doing(p, "branch")
    /\ Demand(p, BranchOf(p) \notin DOMAIN branches)
    /\ branches' = [b \in DOMAIN branches \cup {BranchOf(p)} |->
                        IF b \in DOMAIN branches THEN branches[b] ELSE [base |-> main, tip |-> main]]
    /\ UNCHANGED <<cluster, changeSets, main, pulls, kind, row, held, request, faults>>

Commit(p) ==
    /\ Doing(p, "commit")
    /\ Demand(p, BranchOf(p) \in DOMAIN branches)
    /\ branches' = IF BranchOf(p) \in DOMAIN branches
                   THEN [branches EXCEPT ![BranchOf(p)].tip = Overlay(FilesOf(p), @)]
                   ELSE branches
    /\ UNCHANGED <<cluster, changeSets, main, pulls, kind, row, held, request, faults>>

\* The change set remembers its commit: the files in it, and the commit's parent.
NewChangeSet(p) ==
    [run |-> IF p \in Keys THEN p ELSE "none", files |-> filePaths(FilesOf(p)),
     before |-> branches[BranchOf(p)].base, url |-> 0, status |-> "COMMITTED"]

CreateChangeSet(p) ==
    /\ Doing(p, "record")
    /\ changeSets' = Append(changeSets, NewChangeSet(p))
    /\ held' = [held EXCEPT ![p] = [id |-> Len(changeSets) + 1, url |-> 0]]
    /\ Advance(p)
    /\ UNCHANGED <<cluster, gitVars, kind, row, request, faults>>

NewPullRequest(b) ==
    [head |-> b, base |-> branches[b].base, tree |-> branches[b].tip, state |-> "open"]

\* GitHub refuses a head that is gone or already has an open pull request.
CreatePullRequest(p) ==
    LET b == BranchOf(p)
        refused == \/ b \notin DOMAIN branches
                   \/ \E n \in 1 .. Len(pulls) : pulls[n].head = b /\ pulls[n].state = "open"
    IN
    /\ Doing(p, "openPR")
    /\ Demand(p, ~refused)
    /\ IF refused
       THEN UNCHANGED <<pulls, held>>
       ELSE /\ pulls' = Append(pulls, NewPullRequest(b))
            /\ held' = [held EXCEPT ![p].url = Len(pulls) + 1]
    /\ UNCHANGED <<cluster, changeSets, main, branches, kind, row, request, faults>>

\* The first page of one change set, newest first.
ListChangeSetsForCluster == {i \in 1 .. Len(changeSets) : i = Len(changeSets)}

\* The newest change set of the cluster, whoever recorded it. The step that
\* opened a pull request goes on to write that one's URL into it.
latestChangeSet(p) ==
    /\ Doing(p, "latest") \/ Doing(p, "recall")
    /\ \/ ListChangeSetsForCluster = {} /\ Fail(p) /\ UNCHANGED held
       \/ \E last \in ListChangeSetsForCluster :
            /\ Advance(p)
            /\ held' = [held EXCEPT ![p] =
                    [id |-> last,
                     url |-> IF Program[kind[p]][pc[p] + 1] = "link" THEN @.url
                             ELSE changeSets[last].url]]
    /\ UNCHANGED <<cluster, changeSets, gitVars, kind, row, request, faults>>

\* Mutant: the last two statuses are swapped.
UpdateSwapped(p) ==
    LET to == [link |-> "PR_CREATED", markMerged |-> "SYNCED", markSynced |-> "MERGED"] IN
    /\ status[p] = "active" /\ Op(p) \in DOMAIN to /\ ~Skips(p)
    /\ changeSets' = [changeSets EXCEPT ![held[p].id].url = held[p].url,
                                        ![held[p].id].status = to[Op(p)]]
    /\ Advance(p)
    /\ UNCHANGED <<cluster, gitVars, kind, row, held, request, faults>>

\* The copy p holds is saved with its pull request and the status.
UpdateChangeSet(p) ==
    LET to == [link |-> "PR_CREATED", markMerged |-> "MERGED", markSynced |-> "SYNCED"] IN
    /\ status[p] = "active" /\ Op(p) \in DOMAIN to /\ ~Skips(p)
    /\ changeSets' = [changeSets EXCEPT ![held[p].id].url = held[p].url,
                                        ![held[p].id].status = to[Op(p)]]
    /\ Advance(p)
    /\ UNCHANGED <<cluster, gitVars, kind, row, held, request, faults>>

\* Mutant: a pull request that is no longer open counts as merged.
GateClosed(p) ==
    /\ Doing(p, "gate")
    /\ \/ held[p].url = 0 /\ Fail(p)
       \/ held[p].url # 0 /\ pulls[held[p].url].state # "open" /\ Advance(p)
       \/ /\ held[p].url # 0 /\ pulls[held[p].url].state = "open"
          /\ pc' = [pc EXCEPT ![p] = StepStart(p)]
          /\ status' = [status EXCEPT ![p] = "awaiting"]
    /\ UNCHANGED <<cluster, changeSets, gitVars, kind, row, held, request, faults>>

\* The number of the pull request a URL names, if it names one.
prNumberFromURL(url) == {url} \ {0}

\* A pull request is open, closed or merged.
GetPullRequest(n) == pulls[n].state

\* No URL, no number: the step fails. Not merged: the run waits, and starts
\* the step again when it is resumed.
Gate(p) ==
    /\ Doing(p, "gate")
    /\ \/ prNumberFromURL(held[p].url) = {} /\ Fail(p)
       \/ \E n \in prNumberFromURL(held[p].url) : GetPullRequest(n) = "merged" /\ Advance(p)
       \/ /\ \E n \in prNumberFromURL(held[p].url) : GetPullRequest(n) # "merged"
          /\ pc' = [pc EXCEPT ![p] = StepStart(p)]
          /\ status' = [status EXCEPT ![p] = "awaiting"]
    /\ UNCHANGED <<cluster, changeSets, gitVars, kind, row, held, request, faults>>

Resume(k) ==
    /\ status[k] = "awaiting"
    /\ status' = [status EXCEPT ![k] = "active"]
    /\ UNCHANGED <<cluster, changeSets, gitVars, kind, pc, row, held, request, faults>>

\* The newest change set that names the pull request, if there is one.
GetChangeSetByPullRequestURL(n) ==
    {i \in 1 .. Len(changeSets) :
        changeSets[i].url = n /\ \A j \in i + 1 .. Len(changeSets) : changeSets[j].url # n}

\* A merge's webhook resumes the run of the newest change set that names the
\* pull request, if that run is awaiting approval.
Webhook(n) ==
    /\ pulls[n].state = "merged"
    /\ \E i \in GetChangeSetByPullRequestURL(n) :
        changeSets[i].run \in Keys /\ Resume(changeSets[i].run)

\* Two trees agree on a path: both lack it or both have it with one content.
Agree(t, u, f) == (f \in DOMAIN t) = (f \in DOMAIN u) /\ (f \in DOMAIN t => t[f] = u[f])

\* GitHub's three-way merge, file by file.
Conflicts(pr) ==
    {f \in DOMAIN main \cup DOMAIN pr.tree \cup DOMAIN pr.base :
        ~Agree(main, pr.base, f) /\ ~Agree(pr.tree, pr.base, f) /\ ~Agree(main, pr.tree, f)}

Mergeable(pr) == pr.state = "open" /\ Conflicts(pr) = {}

MergeTree(pr) ==
    [f \in {g \in DOMAIN main : ~Agree(main, pr.base, g) \/ g \in DOMAIN pr.tree}
              \cup {g \in DOMAIN pr.tree : ~Agree(pr.tree, pr.base, g)}
        |-> IF f \in DOMAIN pr.tree /\ ~Agree(pr.tree, pr.base, f) THEN pr.tree[f] ELSE main[f]]

Merge(n) ==
    /\ main' = MergeTree(pulls[n])
    /\ pulls' = [pulls EXCEPT ![n].state = "merged"]

\* Rollback merges its own pull request.
MergePullRequest(p) ==
    LET n == held[p].url IN
    /\ At(p, "merge")
    /\ Demand(p, Mergeable(pulls[n]))
    /\ IF Mergeable(pulls[n]) THEN Merge(n) ELSE UNCHANGED <<main, pulls>>
    /\ UNCHANGED <<cluster, changeSets, branches, kind, row, held, request, faults>>

\* People merge and close pull requests, and delete the branches of ended ones
\* while nothing is working on the cluster.
PeopleMerge(n) ==
    /\ Mergeable(pulls[n])
    /\ Merge(n)
    /\ UNCHANGED <<cluster, changeSets, branches, procVars, faults>>

PeopleClose(n) ==
    /\ pulls[n].state = "open"
    /\ pulls' = [pulls EXCEPT ![n].state = "closed"]
    /\ UNCHANGED <<cluster, changeSets, main, branches, procVars, faults>>

PeopleDeleteBranch(n) ==
    /\ pulls[n].state # "open" /\ pulls[n].head \in DOMAIN branches
    /\ \A p \in Procs : status[p] # "active"
    /\ branches' = [b \in DOMAIN branches \ {pulls[n].head} |-> branches[b]]
    /\ UNCHANGED <<cluster, changeSets, main, pulls, procVars, faults>>

\* Argo CD is asked to sync; the call returns before anything is applied.
Sync(p) ==
    /\ Doing(p, "sync")
    /\ Advance(p)
    /\ UNCHANGED <<cluster, changeSets, gitVars, kind, row, held, request, faults>>

\* The readiness of the Cluster resource and of those labelled for it.
GetClusterStatus == SUBSET BOOLEAN \ {{}}

waitForClusterAPIReady(p) ==
    /\ Doing(p, "capiReady")
    /\ \E ready \in GetClusterStatus : Demand(p, FALSE \notin ready)
    /\ UNCHANGED <<cluster, changeSets, gitVars, kind, row, held, request, faults>>

\* The health of the cluster's machines, of which there may be none.
checkTalosHealth(p) ==
    /\ At(p, "talosHealth")
    /\ \E healthy \in SUBSET BOOLEAN : Demand(p, FALSE \notin healthy)
    /\ UNCHANGED <<cluster, changeSets, gitVars, kind, row, held, request, faults>>

-----------------------------------------------------------------------------
(* Faults. *)

CallLost ==
    /\ faults.calls + faults.deaths < MaxFaults
    /\ faults' = [faults EXCEPT !.calls = @ + 1]

WorkerLost ==
    /\ faults.calls + faults.deaths < MaxFaults
    /\ faults' = [faults EXCEPT !.deaths = @ + 1]

\* A call to the database or to a service returns an error. Once Argo CD was
\* asked, a provisioning run does not mind that its change set is not marked.
CallFails(p) ==
    /\ CallLost
    /\ status[p] = "active"
    /\ IF kind[p] = "CLUSTER_PROVISION" /\ Op(p) \in {"recall", "markSynced"}
       THEN pc' = [pc EXCEPT ![p] = @ + (IF Op(p) = "recall" THEN 2 ELSE 1)] /\ UNCHANGED status
       ELSE Fail(p)
    /\ UNCHANGED <<cluster, changeSets, gitVars, kind, row, held, request>>

\* The claim of a step is committed before it runs, so the message that is delivered
\* again claims the next PENDING step, or finds none and the run has SUCCEEDED. The
\* step that was interrupted stays RUNNING and is never run again.
SkipStep(p) ==
    \/ /\ \E i \in NextStep(p) : pc' = [pc EXCEPT ![p] = i]
       /\ UNCHANGED status
    \/ /\ NextStep(p) = {}
       /\ status' = [status EXCEPT ![p] = "done"]
       /\ UNCHANGED pc

\* The process that executes p dies, and a request is lost. Of a run, also: the engine
\* cannot write that the step goes back to PENDING, or that it failed. (What the engine
\* cannot write of a step that succeeded, or before it runs one, changes nothing here.)
Crash(p) ==
    /\ status[p] = "active"
    /\ \/ p \in Callers /\ CallLost /\ Fail(p)
       \/ p \in Keys /\ WorkerLost /\ SkipStep(p)
    /\ UNCHANGED <<cluster, changeSets, gitVars, kind, row, held, request>>

-----------------------------------------------------------------------------

Step(p) ==
    \/ Load(p) \/ Check(p) \/ transitionAndSave(p) \/ Delete(p) \/ markReady(p)
    \/ Claim(p) \/ Retarget(p) \/ Resize(p) \/ Enqueue(p) \/ Skip(p)
    \/ Revert(p) \/ CreateBranch(p) \/ Commit(p) \/ CreateChangeSet(p)
    \/ CreatePullRequest(p) \/ latestChangeSet(p) \/ UpdateChangeSet(p)
    \/ Gate(p) \/ MergePullRequest(p) \/ Sync(p)
    \/ waitForClusterAPIReady(p) \/ checkTalosHealth(p)
    \/ CallFails(p) \/ Crash(p)

People ==
    \/ \E n \in 1 .. Len(pulls) :
        PeopleMerge(n) \/ PeopleClose(n) \/ PeopleDeleteBranch(n) \/ Webhook(n)
    \/ \E k \in Keys : Resume(k)

Start == Create \/ ScaffoldRepository \/ \E c \in Callers : Call(c)

Next == Start \/ People \/ \E p \in Procs : Step(p)

Spec == Init /\ [][Next]_vars

\* A cluster is operated on by one request or run at a time.
Quiet == \A p \in Procs : Ended(p)

SerialNext == (Quiet /\ Start) \/ People \/ \E p \in Procs : Step(p)

SerialSpec == Init /\ [][SerialNext]_vars

-----------------------------------------------------------------------------
(* Properties. *)

\* Every variable holds a value of its kind; pcs stay inside their programs and
\* the change sets' pull requests exist.
TypeOK ==
    /\ cluster = NoCluster \/ cluster.state \in States
    /\ \A p \in Procs :
        /\ kind[p] \in DOMAIN Program \cup {"none"}
        /\ kind[p] # "none" => pc[p] \in 1 .. Len(Program[kind[p]])
        /\ status[p] \in {"idle", "active", "awaiting", "failed", "done"}
        /\ row[p] = NoCluster \/ row[p].state \in States
        /\ held[p].id \in 0 .. Len(changeSets)
        /\ held[p].url \in 0 .. Len(pulls)
    /\ \A i \in 1 .. Len(changeSets) :
        /\ changeSets[i].url \in 0 .. Len(pulls)
        /\ changeSets[i].status \in {"COMMITTED", "PR_CREATED", "MERGED", "SYNCED"}
    /\ faults \in [calls : 0 .. MaxFaults, deaths : 0 .. MaxFaults]

MergedSomewhere == \E n \in 1 .. Len(pulls) : pulls[n].state = "merged"

\* A cluster is not installed, and nothing about it is upgraded, before a pull
\* request of it was merged (cluster_provision.go, await-pull-request-merge).
InstalledWasMerged ==
    cluster.state \in {"INSTALLING", "CONFIGURING", "READY", "UPGRADING"} => MergedSomewhere

PassedGate(k) ==
    /\ kind[k] # "none"
    /\ \E i \in 1 .. pc[k] - 1 : Program[kind[k]][i] = "gate"

\* No worker died in a step so far, and none was skipped.
Unharmed == faults.deaths = 0

\* A run that passed its gate had its own pull request merged. A run with no
\* change set skipped Git.
OwnMerged ==
    \A k \in Keys : PassedGate(k) =>
        \A i \in 1 .. Len(changeSets) : changeSets[i].run = k =>
            changeSets[i].url # 0 /\ pulls[changeSets[i].url].state = "merged"

\* Until a worker dies in a step, a run that passed its approval gate had its own
\* pull request merged (capi_change.go, awaitClusterAPIChangeMerge: it checks
\* whether the PR that opened has been merged yet).
GateMeansMerged == Unharmed => OwnMerged

\* The row's state moves along the life cycle only (cluster.go, "reject illegal
\* jumps"); Provision saves three moves at once.
LegalMoves ==
    [][\/ cluster.state = cluster'.state
       \/ cluster = NoCluster
       \/ CanTransition(cluster.state, cluster'.state)
       \/ CanTransition(cluster.state, "PLANNING") /\ cluster'.state = "PROVISIONING"]_vars

\* The spec in the row changes only when an Upgrade or a ScaleWorkers writes
\* what it was asked for: no step of a run puts an older one back
\* (cluster_repo.go, Update writes the whole row).
SpecKept ==
    [][\/ cluster.spec = cluster'.spec
       \/ cluster = NoCluster
       \/ \E c \in Callers : At(c, "retarget") \/ At(c, "resize")]_vars

Rank(s) == CASE s = "COMMITTED" -> 1 [] s = "PR_CREATED" -> 2 [] s = "MERGED" -> 3 [] OTHER -> 4

\* Until a worker dies in a step, a change set's status never goes back
\* (gitops.go, ChangeSetStatus).
StatusForward ==
    [][Unharmed' => \A i \in 1 .. Len(changeSets) :
        Rank(changeSets'[i].status) >= Rank(changeSets[i].status)]_vars

\* Until a worker dies in a step, a CLUSTER_API run that completes had a pull request merged that carries every
\* file of the spec the row then holds, so Git and the row agree on what was
\* asked for (ADR-0002, ADR-0004).
Delivered ==
    [][\A k \in Keys :
        /\ status[k] = "active" /\ status'[k] = "done" /\ Unharmed'
        /\ cluster.spec.mode = "CLUSTER_API"
        => \E n \in 1 .. Len(pulls) :
            /\ pulls[n].state = "merged"
            /\ LET want == renderManifestSet(cluster.spec)
               IN \A f \in DOMAIN want : Agree(pulls[n].tree, want, f)]_vars

\* A cluster that no run works on is not left UPGRADING (cluster_upgrade.go,
\* "through UPGRADING back to READY (or DEGRADED on failure)").
UpgradeReturns ==
    (Quiet /\ \E k \in Keys : kind[k] = "CLUSTER_UPGRADE") => cluster.state # "UPGRADING"

=============================================================================
