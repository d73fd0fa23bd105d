------------------------------- MODULE Alerts -------------------------------
(***************************************************************************)
(* The scheduler's reconciliation pass (cmd/platform-scheduler): it reads  *)
(* every cluster's row and its Argo CD application, caches the application *)
(* and raises or resolves the cluster's alerts. Module LeaderElection says *)
(* which scheduler runs a pass; a leader that was stalled may still be in  *)
(* its pass when the next leader starts one, so passes overlap here. Every *)
(* call to the database or to Argo CD is a step.                           *)
(***************************************************************************)
EXTENDS Naturals, FiniteSets

CONSTANTS
    Schedulers,
    Clusters,     \* how many clusters there are; cluster 1 is the newest
    Limit,        \* the page a pass lists, newest first
    Argo,         \* the clusters with Argo CD enabled
    States,       \* the states a cluster is seen in
    Apps,         \* pairs of a sync status and a health Argo CD reports
    MaxMoves,     \* bound: changes of clusters and applications
    MaxFaults     \* bound: failed calls and crashes

NoApp == <<"none", "none">>

ASSUME AlertsAssumption ==
    /\ Clusters \in Nat \ {0} /\ Limit \in Nat \ {0}
    /\ Argo \subseteq 1 .. Clusters
    /\ NoApp \notin Apps
    /\ MaxMoves \in Nat /\ MaxFaults \in Nat

VARIABLES
    state,    \* the state in each cluster's row
    app,      \* each cluster's application in Argo CD, or none
    cache,    \* table argo_applications
    alerts,   \* table alerts, by cluster and title
    pc,       \* where each scheduler's pass is
    at,       \* the cluster it is at
    listed,   \* the states it listed
    firing,   \* the titles it saw firing
    got,      \* the application it got
    moves,    \* changes so far, which is also the time
    faults    \* faults so far

vars == <<state, app, cache, alerts, pc, at, listed, firing, got, moves, faults>>

world == <<state, app, moves>>

tables == <<cache, alerts>>

Times == 1 .. MaxMoves + 1

Titles == {"state", "drift", "health"}

NoAlert == [status |-> "none", firedAt |-> 0, resolvedAt |-> 0]

Page == 1 .. (IF Clusters < Limit THEN Clusters ELSE Limit)

Init ==
    /\ state \in [1 .. Clusters -> States]
    /\ app \in [1 .. Clusters -> Apps \cup {NoApp}]
    /\ \A c \in (1 .. Clusters) \ Argo : app[c] = NoApp
    /\ cache = [c \in 1 .. Clusters |-> NoApp]
    /\ alerts = [c \in 1 .. Clusters |-> [t \in Titles |-> NoAlert]]
    /\ pc = [s \in Schedulers |-> "idle"]
    /\ at = [s \in Schedulers |-> 1]
    /\ listed = [s \in Schedulers |-> [c \in {} |-> "none"]]
    /\ firing = [s \in Schedulers |-> {}]
    /\ got = [s \in Schedulers |-> NoApp]
    /\ moves = 0 /\ faults = 0

-----------------------------------------------------------------------------
(* What a pass does. *)

Goto(s, l) == pc' = [pc EXCEPT ![s] = l] /\ UNCHANGED <<at, listed, firing, got>>

\* The pass forgets what it read about the cluster and goes to the next one.
NextCluster(s) ==
    /\ firing' = [firing EXCEPT ![s] = {}]
    /\ got' = [got EXCEPT ![s] = NoApp]
    /\ IF at[s] + 1 \in Page
       THEN /\ pc' = [pc EXCEPT ![s] = "firing"]
            /\ at' = [at EXCEPT ![s] = @ + 1]
            /\ UNCHANGED listed
       ELSE /\ pc' = [pc EXCEPT ![s] = "idle"]
            /\ at' = [at EXCEPT ![s] = 1]
            /\ listed' = [listed EXCEPT ![s] = [c \in {} |-> "none"]]

\* Mutant: the stamp of a resolution outlives it.
UpsertAlertStale(old, status, now) ==
    [status |-> status,
     firedAt |-> IF old.status = "none" \/ (status = "FIRING" /\ old.status # "FIRING")
                 THEN now ELSE old.firedAt,
     resolvedAt |-> IF status = "RESOLVED" THEN now ELSE old.resolvedAt]

\* Mutant: every observation restarts the alert.
UpsertAlertRestart(old, status, now) ==
    [status |-> status, firedAt |-> now,
     resolvedAt |-> IF status = "RESOLVED" THEN now ELSE 0]

\* The row after an upsert: fired_at is when the alert last began to fire.
UpsertAlert(old, status, now) ==
    [status |-> status,
     firedAt |-> IF old.status = "none" \/ (status = "FIRING" /\ old.status # "FIRING")
                 THEN now ELSE old.firedAt,
     resolvedAt |-> IF status = "RESOLVED" THEN now ELSE 0]

Write(c, t, status) ==
    alerts' = [alerts EXCEPT ![c][t] = UpsertAlert(@, status, moves + 1)]

\* Mutant: whether the alert was firing is not looked at.
upsertAlertAlways(s, t, bad) ==
    Write(at[s], t, IF bad THEN "FIRING" ELSE "RESOLVED")

\* An alert fires while its condition is bad, and is resolved if it was firing
\* when the pass came to the cluster.
upsertAlert(s, t, bad) ==
    \/ bad /\ Write(at[s], t, "FIRING")
    \/ ~bad /\ t \in firing[s] /\ Write(at[s], t, "RESOLVED")
    \/ ~bad /\ t \notin firing[s] /\ UNCHANGED alerts

BadState(v) == v \in {"DEGRADED", "FAILED"}

Drifted(a) == a[1] = "OutOfSync"

\* Mutant: an application whose resources are missing counts as healthy.
UnhealthyDegraded(a) == a[2] = "Degraded"

Unhealthy(a) == a[2] \in {"Degraded", "Missing"}

-----------------------------------------------------------------------------
(* The steps. *)

\* A scheduler that is leader lists the clusters.
run(s) ==
    /\ pc[s] = "idle"
    /\ pc' = [pc EXCEPT ![s] = "firing"]
    /\ listed' = [listed EXCEPT ![s] = [c \in Page |-> state[c]]]
    /\ UNCHANGED <<world, tables, at, firing, got, faults>>

ListAlerts(c, status) == {t \in Titles : alerts[c][t].status = status}

firingAlertTitles(s) ==
    /\ pc[s] = "firing"
    /\ firing' = [firing EXCEPT ![s] = ListAlerts(at[s], "FIRING")]
    /\ pc' = [pc EXCEPT ![s] = "state"]
    /\ UNCHANGED <<world, tables, at, listed, got, faults>>

reconcileCluster(s) ==
    /\ pc[s] = "state"
    /\ upsertAlert(s, "state", BadState(listed[s][at[s]]))
    /\ IF at[s] \in Argo THEN Goto(s, "app") ELSE NextCluster(s)
    /\ UNCHANGED <<world, cache, faults>>

\* Argo CD answers 404 or with the application's two statuses.
ArgoApplication(c) == {app[c]} \ {NoApp}

\* An application that does not exist yet leaves the alerts as they are.
GetApplication(s) ==
    /\ pc[s] = "app"
    /\ \/ ArgoApplication(at[s]) = {} /\ NextCluster(s)
       \/ /\ \E a \in ArgoApplication(at[s]) : got' = [got EXCEPT ![s] = a]
          /\ pc' = [pc EXCEPT ![s] = "cache"]
          /\ UNCHANGED <<at, listed, firing>>
    /\ UNCHANGED <<world, tables, faults>>

\* Mutant: an application that is cached is not cached again.
UpsertArgoApplicationOnce(s) ==
    /\ pc[s] = "cache"
    /\ cache' = IF cache[at[s]] = NoApp THEN [cache EXCEPT ![at[s]] = got[s]] ELSE cache
    /\ Goto(s, "drift")
    /\ UNCHANGED <<world, alerts, faults>>

StoreApplication(c, a) == cache' = [cache EXCEPT ![c] = a]

UpsertArgoApplication(s) ==
    /\ pc[s] = "cache"
    /\ StoreApplication(at[s], got[s])
    /\ Goto(s, "drift")
    /\ UNCHANGED <<world, alerts, faults>>

reconcileDrift(s) ==
    /\ pc[s] = "drift"
    /\ upsertAlert(s, "drift", Drifted(got[s]))
    /\ Goto(s, "health")
    /\ UNCHANGED <<world, cache, faults>>

reconcileHealth(s) ==
    /\ pc[s] = "health"
    /\ upsertAlert(s, "health", Unhealthy(got[s]))
    /\ NextCluster(s)
    /\ UNCHANGED <<world, cache, faults>>

\* A call returns an error, which is only logged: the pass goes on without it.
CallFails(s) ==
    /\ faults < MaxFaults /\ faults' = faults + 1
    /\ \/ pc[s] = "firing" /\ Goto(s, "state")
       \/ pc[s] = "state" /\ IF at[s] \in Argo THEN Goto(s, "app") ELSE NextCluster(s)
       \/ pc[s] = "cache" /\ Goto(s, "drift")
       \/ pc[s] = "drift" /\ Goto(s, "health")
       \/ pc[s] \in {"app", "health"} /\ NextCluster(s)
    /\ UNCHANGED <<world, tables>>

\* The scheduler dies in its pass.
Crash(s) ==
    /\ faults < MaxFaults /\ faults' = faults + 1
    /\ pc[s] # "idle"
    /\ pc' = [pc EXCEPT ![s] = "idle"]
    /\ at' = [at EXCEPT ![s] = 1]
    /\ listed' = [listed EXCEPT ![s] = [c \in {} |-> "none"]]
    /\ firing' = [firing EXCEPT ![s] = {}]
    /\ got' = [got EXCEPT ![s] = NoApp]
    /\ UNCHANGED <<world, tables>>

\* Workflows move a cluster, and Argo CD and its users its application.
ClusterMoves(c) ==
    /\ moves < MaxMoves /\ moves' = moves + 1
    /\ \E v \in States \ {state[c]} : state' = [state EXCEPT ![c] = v]
    /\ UNCHANGED <<app, tables, pc, at, listed, firing, got, faults>>

ApplicationMoves(c) ==
    /\ moves < MaxMoves /\ moves' = moves + 1
    /\ \E a \in (Apps \cup {NoApp}) \ {app[c]} : app' = [app EXCEPT ![c] = a]
    /\ UNCHANGED <<state, tables, pc, at, listed, firing, got, faults>>

-----------------------------------------------------------------------------

Pass(s) ==
    \/ firingAlertTitles(s) \/ reconcileCluster(s) \/ GetApplication(s)
    \/ UpsertArgoApplication(s) \/ reconcileDrift(s) \/ reconcileHealth(s)

Next ==
    \/ \E s \in Schedulers : run(s) \/ Pass(s) \/ CallFails(s) \/ Crash(s)
    \/ \E c \in 1 .. Clusters : ClusterMoves(c)
    \/ \E c \in Argo : ApplicationMoves(c)

\* A pass that has begun goes on, and the ticker of a leader begins another.
Fairness ==
    /\ WF_vars(\E s \in Schedulers : run(s))
    /\ \A s \in Schedulers : WF_vars(Pass(s))

Spec == Init /\ [][Next]_vars /\ Fairness

-----------------------------------------------------------------------------
(* Properties. *)

\* Every variable holds a value of its kind, and an alert has its times: a
\* resolution's while it is RESOLVED and not otherwise (audit_repo.go,
\* UpsertAlert, "a re-fired alert doesn't keep a stale timestamp").
TypeOK ==
    /\ state \in [1 .. Clusters -> States]
    /\ app \in [1 .. Clusters -> Apps \cup {NoApp}]
    /\ cache \in [1 .. Clusters -> Apps \cup {NoApp}]
    /\ alerts \in [1 .. Clusters -> [Titles ->
            {NoAlert} \cup [status : {"FIRING"}, firedAt : Times, resolvedAt : {0}]
                      \cup [status : {"RESOLVED"}, firedAt : Times, resolvedAt : Times]]]
    /\ pc \in [Schedulers -> {"idle", "firing", "state", "app", "cache", "drift", "health"}]
    /\ at \in [Schedulers -> Page]
    /\ firing \in [Schedulers -> SUBSET Titles]
    /\ got \in [Schedulers -> Apps \cup {NoApp}]

\* A condition that never fired is never written RESOLVED, whatever calls fail
\* and passes overlap (platform-scheduler, firingAlertTitles: "only write a
\* RESOLVED transition for conditions that were actually firing").
NeverResolvedUnfired ==
    [][\A c \in 1 .. Clusters, t \in Titles :
        alerts[c][t] = NoAlert => alerts'[c][t].status # "RESOLVED"]_vars

\* While an alert fires, passes that see its condition again leave when it
\* began (audit_repo.go, UpsertAlert: "it marks when the condition first
\* started, not the last time it was observed").
FiredAtKept ==
    [][\A c \in 1 .. Clusters, t \in Titles :
        alerts[c][t].status = "FIRING" /\ alerts'[c][t].status = "FIRING" =>
            alerts'[c][t].firedAt = alerts[c][t].firedAt]_vars

\* Whether a condition can be seen, and whether it is bad.
Seen(c, t) == t = "state" \/ (c \in Argo /\ app[c] # NoApp)

Bad(c, t) ==
    CASE t = "state" -> state[c] \in {"DEGRADED", "FAILED"}
      [] t = "drift" -> app[c] # NoApp /\ app[c][1] = "OutOfSync"
      [] OTHER -> app[c] # NoApp /\ app[c][2] \in {"Degraded", "Missing"}

Fires(c, t) == alerts[c][t].status = "FIRING"

\* A condition that stays bad ends up firing for good, and one that stays good
\* and can be seen ends up not firing, stale passes of an earlier leader and lost
\* calls notwithstanding, for every cluster on the page (platform-scheduler, run:
\* "keeps ... drift/health alerts fresh").
AlertsTrack ==
    \A c \in Page, t \in Titles :
        /\ (<>[](Seen(c, t) /\ Bad(c, t))) => <>[]Fires(c, t)
        /\ (<>[](Seen(c, t) /\ ~Bad(c, t))) => <>[]~Fires(c, t)

\* The cached application a cluster's page shows catches up with Argo CD's once
\* that stays (gitops_repo.go, UpsertArgoApplication).
CacheTracks ==
    \A c \in Page \cap Argo, a \in Apps : (<>[](app[c] = a)) => <>[](cache[c] = a)

=============================================================================
