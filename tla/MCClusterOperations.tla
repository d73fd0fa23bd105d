------------------------ MODULE MCClusterOperations ------------------------
(* Small instances of ClusterOperations for TLC. *)
EXTENDS ClusterOperations, TLC

Pool(n, r) == [name |-> n, replicas |-> r]

ManagedSpec ==
    [mode |-> "CLUSTER_API", argo |-> TRUE, placed |-> TRUE, k8s |-> "v1", talos |-> "t1",
     pools |-> <<Pool("a", 1)>>]

\* A cluster Cluster API manages, one driven directly, one that is not
\* complete enough to be provisioned, and one without a site or a network.
SomeSpecs ==
    {ManagedSpec,
     [ManagedSpec EXCEPT !.mode = "DIRECT_TALOS", !.argo = FALSE],
     [ManagedSpec EXCEPT !.k8s = "unset"],
     [ManagedSpec EXCEPT !.placed = FALSE]}

ManagedOnly == {ManagedSpec}

SomeTargets == {<<"v2", "unset">>, <<"unset", "unset">>}

OneTarget == {<<"v2", "unset">>}

\* Where a first provisioning that met no trouble leaves a cluster: the run
\* under key k, its merged pull request and its synced change set.
Provisioned(k) ==
    LET files == renderManifestSet(ManagedSpec)
        none == [f \in {} |-> <<>>]
        ready == [state |-> "READY", spec |-> ManagedSpec]
    IN
    /\ cluster = ready
    /\ changeSets = <<[run |-> k, files |-> DOMAIN files, before |-> none, url |-> 1,
                       status |-> "SYNCED"]>>
    /\ pulls = <<[head |-> <<"provision">>, base |-> none, tree |-> files, state |-> "merged"]>>
    /\ main = files
    /\ branches = (<<"provision">> :> [base |-> none, tip |-> files])
    /\ kind = [p \in Procs |-> IF p = k THEN "CLUSTER_PROVISION" ELSE "none"]
    /\ pc = [p \in Procs |-> IF p = k THEN Len(Program.CLUSTER_PROVISION) ELSE 1]
    /\ status = [p \in Procs |-> IF p = k THEN "done" ELSE "idle"]
    /\ row = [p \in Procs |-> IF p = k THEN ready ELSE NoCluster]
    /\ held = [p \in Procs |-> IF p = k THEN [id |-> 1, url |-> 1] ELSE [id |-> 0, url |-> 0]]
    /\ request = [p \in Callers |-> [op |-> "none"]]
    /\ faults = [calls |-> 0, deaths |-> 0]

ProvisionedInit == \E k \in Keys : Provisioned(k)

ProvisionedSpec == ProvisionedInit /\ [][Next]_vars

ProvisionedSerialSpec == ProvisionedInit /\ [][SerialNext]_vars

Copies(p) == <<row[p], held[p]>>

\* What TLC tells states apart by: everything but what no call reads any more, which
\* is what a request that ended leaves in its variables, the copies of a run that
\* ended, and the copies of a request that is still to load the row (its first call).
LiveState ==
    <<cluster, changeSets, gitVars, faults,
      [k \in Keys |-> <<kind[k], pc[k], status[k], IF Ended(k) THEN <<>> ELSE Copies(k)>>],
      [c \in Callers |->
        IF Ended(c) THEN <<>>
        ELSE <<kind[c], pc[c], request[c], IF pc[c] = 1 THEN <<>> ELSE Copies(c)>>]>>

NameSymmetry == Permutations(Keys) \cup Permutations(Callers)

=============================================================================
