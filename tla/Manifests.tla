----------------------------- MODULE Manifests -----------------------------
(***************************************************************************)
(* What the platform writes into the GitOps repository for one cluster, as *)
(* functions from paths to contents. A file is what the cluster's spec puts*)
(* into it: names, API versions and layout are left out. The core files are*)
(* rendered by internal/application/gitopsrender, the Cluster API files by *)
(* internal/integrations/clusterapi, and a commit carries both.            *)
(*                                                                         *)
(* A spec is a record [mode, argo, placed, k8s, talos, pools]: the provider*)
(* mode, whether Argo CD is enabled, whether a site and the network CIDRs  *)
(* are given, the two versions, and the worker pools in the order of the   *)
(* request, each [name, replicas]. The other fields (CNI, storage, sizes of*)
(* the control plane) are read by no operation and changed by none.        *)
(***************************************************************************)
EXTENDS Naturals, Sequences

CONSTANTS
    Proxmox    \* whether the Cluster API client has a Proxmox configuration

ASSUME ManifestsAssumption == Proxmox \in BOOLEAN

IsSpec(spec) ==
    /\ spec = [mode |-> spec.mode, argo |-> spec.argo, placed |-> spec.placed,
               k8s |-> spec.k8s, talos |-> spec.talos, pools |-> spec.pools]
    /\ spec.mode \in {"DIRECT_TALOS", "CLUSTER_API"}
    /\ spec.argo \in BOOLEAN /\ spec.placed \in BOOLEAN

PoolNames(spec) == {spec.pools[i].name : i \in 1 .. Len(spec.pools)}

\* Two pools of one name share their paths: a tree keeps the later entry.
PoolReplicas(spec, n) ==
    LET last == CHOOSE i \in 1 .. Len(spec.pools) :
                    /\ spec.pools[i].name = n
                    /\ \A j \in i + 1 .. Len(spec.pools) : spec.pools[j].name # n
    IN  spec.pools[last].replicas

CorePaths(spec) ==
    {<<"cluster">>, <<"infrastructure">>, <<"control-plane">>, <<"workers">>}
        \cup (IF spec.argo THEN {<<"argocd-application">>} ELSE {})

RenderClusterManifests(spec) ==
    [p \in CorePaths(spec) |->
        CASE p = <<"cluster">> -> <<spec.mode, spec.k8s, spec.talos>>
          [] p = <<"workers">> -> spec.pools
          [] OTHER -> <<>>]

CapiPaths(spec) ==
    {<<"capi-cluster">>, <<"capi-control-plane">>}
        \cup ({"capi-machinedeployment", "capi-talosconfigtemplate"} \X PoolNames(spec))
        \cup (IF Proxmox
              THEN {<<"capi-proxmox-cluster">>}
                      \cup ({"capi-proxmox-machinetemplate"}
                               \X (PoolNames(spec) \cup {"control-plane"}))
              ELSE {})

RenderManifests(spec) ==
    [p \in CapiPaths(spec) |->
        CASE p = <<"capi-control-plane">> -> <<spec.k8s>>
          [] p[1] = "capi-machinedeployment" -> <<spec.k8s, PoolReplicas(spec, p[2])>>
          [] p[1] = "capi-talosconfigtemplate" -> <<spec.talos>>
          [] OTHER -> <<>>]

\* A tree in which the files of over replace those of under.
Overlay(over, under) ==
    [p \in DOMAIN over \cup DOMAIN under |-> IF p \in DOMAIN over THEN over[p] ELSE under[p]]

renderManifestSet(spec) ==
    IF spec.mode = "CLUSTER_API"
    THEN Overlay(RenderManifests(spec), RenderClusterManifests(spec))
    ELSE RenderClusterManifests(spec)

RenderRepositoryScaffold ==
    [p \in {<<"README">>, <<"app-of-apps">>, <<"infrastructure-README">>, <<"applications-README">>}
        |-> <<>>]

=============================================================================
