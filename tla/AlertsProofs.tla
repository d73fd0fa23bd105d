---------------------------- MODULE AlertsProofs ----------------------------
(***************************************************************************)
(* The alert rows are sound for any number of schedulers whose passes      *)
(* overlap, clusters, applications, changes and faults. The argument: what *)
(* a pass holds as firing for its cluster is an alert the table has had    *)
(* since, because no step takes an alert out of the table.                 *)
(***************************************************************************)
EXTENDS Alerts, TLAPS

Rows ==
    {NoAlert} \cup [status : {"FIRING"}, firedAt : Times, resolvedAt : {0}]
              \cup [status : {"RESOLVED"}, firedAt : Times, resolvedAt : Times]

\* A title a pass holds as firing has a row.
Remembered == \A s \in Schedulers : \A t \in firing[s] : alerts[at[s]][t] # NoAlert

\* The inductive invariant.
Inv == TypeOK /\ moves \in 0 .. MaxMoves /\ Remembered

\* What a step may do to one alert: leave it, raise it, or resolve it if it has
\* a row.
Moved(old, new) ==
    \/ new = old
    \/ \E now \in Times :
        \/ new = UpsertAlert(old, "FIRING", now)
        \/ old # NoAlert /\ new = UpsertAlert(old, "RESOLVED", now)

AlertsMove == \A c \in 1 .. Clusters, t \in Titles : Moved(alerts[c][t], alerts'[c][t])

-----------------------------------------------------------------------------
(* Lemmas about the operators. *)

\* The first cluster is on the page, and every cluster on it exists.
LEMMA PageFacts == 1 \in Page /\ Page \subseteq 1 .. Clusters /\ Page \subseteq Nat
BY AlertsAssumption DEF Page

\* An alert that moves stays a row, and keeps when it began while it fires.
LEMMA MovedFacts ==
    ASSUME NEW old \in Rows, NEW new, Moved(old, new)
    PROVE  /\ new \in Rows
           /\ old # NoAlert => new # NoAlert
           /\ old = NoAlert => new.status # "RESOLVED"
           /\ old.status = "FIRING" /\ new.status = "FIRING" => new.firedAt = old.firedAt
BY DEF Moved, Rows, UpsertAlert, NoAlert

\* Writing one alert of the cluster a pass is at moves that alert and no other.
LEMMA upsertAlertFacts ==
    ASSUME Inv, NEW s \in Schedulers, NEW t \in Titles, NEW bad, upsertAlert(s, t, bad)
    PROVE  /\ AlertsMove
           /\ alerts' \in [1 .. Clusters -> [Titles -> Rows]]
<1>at. at[s] \in 1 .. Clusters
    BY PageFacts DEF Inv, TypeOK
<1>now. moves + 1 \in Times
    BY AlertsAssumption DEF Inv, Times
<1>here. at[s] \in 1 .. Clusters /\ moves + 1 \in Times
    BY <1>at, <1>now
<1>rows. alerts \in [1 .. Clusters -> [Titles -> Rows]]
    BY DEF Inv, TypeOK, Rows
<1>writes. ASSUME NEW status \in {"FIRING", "RESOLVED"}, Write(at[s], t, status),
                  status = "RESOLVED" => t \in firing[s]
           PROVE  AlertsMove /\ alerts' \in [1 .. Clusters -> [Titles -> Rows]]
    <2> DEFINE new == UpsertAlert(alerts[at[s]][t], status, moves + 1)
    <2>1. alerts' = [alerts EXCEPT ![at[s]][t] = new]
        BY <1>writes DEF Write
    <2>2. Moved(alerts[at[s]][t], new)
        BY <1>writes, <1>here DEF Moved, Inv, Remembered
    <2>3. new \in Rows
        BY <2>2, <1>rows, <1>here, MovedFacts
    <2> HIDE DEF new
    <2>4. alerts' \in [1 .. Clusters -> [Titles -> Rows]]
        BY <2>1, <2>3, <1>rows, <1>here
    <2>5. AlertsMove
        <3> SUFFICES ASSUME NEW c \in 1 .. Clusters, NEW u \in Titles
                     PROVE  Moved(alerts[c][u], alerts'[c][u])
            BY DEF AlertsMove
        <3>1. CASE c = at[s] /\ u = t
            BY <3>1, <2>1, <2>2, <1>rows
        <3>2. CASE c # at[s] \/ u # t
            <4>1. alerts'[c][u] = alerts[c][u]
                BY <3>2, <2>1, <1>rows
            <4> QED
                BY <4>1 DEF Moved
        <3> QED
            BY <3>1, <3>2
    <2> QED
        BY <2>4, <2>5
<1>same. ASSUME UNCHANGED alerts
         PROVE  AlertsMove /\ alerts' \in [1 .. Clusters -> [Titles -> Rows]]
    BY <1>same, <1>rows DEF AlertsMove, Moved
<1> QED
    BY <1>writes, <1>same DEF upsertAlert

\* A pass goes to the next cluster, or ends, holding nothing as firing.
LEMMA NextClusterFacts ==
    ASSUME Inv, NEW s \in Schedulers, NextCluster(s)
    PROVE  /\ pc' \in [Schedulers ->
                {"idle", "firing", "state", "app", "cache", "drift", "health"}]
           /\ at' \in [Schedulers -> Page]
           /\ firing' = [firing EXCEPT ![s] = {}]
           /\ \A q \in Schedulers \ {s} : at'[q] = at[q]
           /\ got' \in [Schedulers -> Apps \cup {NoApp}]
BY PageFacts DEF NextCluster, Inv, TypeOK

\* A pass that moves on at its cluster keeps what it read.
LEMMA GotoFacts ==
    ASSUME Inv, NEW s \in Schedulers,
           NEW l \in {"idle", "firing", "state", "app", "cache", "drift", "health"}, Goto(s, l)
    PROVE  /\ pc' \in [Schedulers ->
                {"idle", "firing", "state", "app", "cache", "drift", "health"}]
           /\ UNCHANGED <<at, firing, got>>
BY DEF Goto, Inv, TypeOK

\* A pass looks at another cluster only when it holds nothing as firing, and holds
\* only what fires.
Looks(s) ==
    /\ at' \in [Schedulers -> Page]
    /\ firing' \in [Schedulers -> SUBSET Titles]
    /\ got' \in [Schedulers -> Apps \cup {NoApp}]
    /\ pc' \in [Schedulers -> {"idle", "firing", "state", "app", "cache", "drift", "health"}]
    /\ \A q \in Schedulers :
        \/ firing'[q] = {}
        \/ at'[q] = at[q] /\ firing'[q] = firing[q]
        \/ at'[q] = at[q] /\ \A t \in firing'[q] : alerts[at[q]][t] # NoAlert

\* Steps that move alerts only as they may, and look only as they may, keep the
\* invariant.
LEMMA StepInv ==
    ASSUME Inv, AlertsMove, NEW s \in Schedulers, Looks(s),
           alerts' \in [1 .. Clusters -> [Titles -> Rows]],
           cache' \in [1 .. Clusters -> Apps \cup {NoApp}], UNCHANGED world
    PROVE  Inv'
<1>type. TypeOK'
    BY DEF Inv, TypeOK, Looks, Rows, world
<1>remembered. Remembered'
    <2> SUFFICES ASSUME NEW q \in Schedulers, NEW t \in firing'[q]
                 PROVE  alerts'[at'[q]][t] # NoAlert
        BY DEF Remembered
    <2>1. t \in Titles /\ at[q] \in 1 .. Clusters /\ at'[q] = at[q]
        BY PageFacts DEF Looks, Inv, TypeOK
    <2>2. alerts[at[q]][t] # NoAlert
        BY DEF Looks, Inv, Remembered
    <2>3. alerts[at[q]][t] \in Rows /\ Moved(alerts[at[q]][t], alerts'[at[q]][t])
        BY <2>1 DEF Inv, TypeOK, Rows, AlertsMove
    <2> QED
        BY <2>1, <2>2, <2>3, MovedFacts
<1> QED
    BY <1>type, <1>remembered DEF Inv, world

\* A table that does not change has only the rows it had.
LEMMA SameAlerts ==
    ASSUME Inv, UNCHANGED alerts
    PROVE  AlertsMove /\ alerts' \in [1 .. Clusters -> [Titles -> Rows]]
BY DEF Inv, TypeOK, Rows, AlertsMove, Moved

-----------------------------------------------------------------------------
(* One fact per step. *)

\* The invariant holds of a table without alerts and schedulers that are idle.
LEMMA InitInv == Init => Inv
BY PageFacts, AlertsAssumption DEF Init, Inv, TypeOK, Remembered

\* Every step of a scheduler keeps the invariant and moves alerts as it may.
LEMMA SchedulerInv ==
    ASSUME Inv, NEW s \in Schedulers, run(s) \/ Pass(s) \/ CallFails(s) \/ Crash(s)
    PROVE  Inv' /\ AlertsMove
<1>run. CASE run(s)
    <2>1. Looks(s) /\ UNCHANGED <<world, cache, alerts>>
        BY <1>run DEF run, Looks, Inv, TypeOK, tables
    <2> QED
        BY <2>1, SameAlerts, StepInv DEF Inv, TypeOK
<1>titles. CASE firingAlertTitles(s)
    <2>here. at[s] \in 1 .. Clusters
        BY PageFacts DEF Inv, TypeOK
    <2>held. firing' = [firing EXCEPT ![s] = ListAlerts(at[s], "FIRING")] /\ at' = at
        BY <1>titles DEF firingAlertTitles
    <2>firing. /\ ListAlerts(at[s], "FIRING") \subseteq Titles
               /\ \A t \in ListAlerts(at[s], "FIRING") : alerts[at[s]][t] # NoAlert
        BY <2>here DEF ListAlerts, NoAlert
    <2>1. \A q \in Schedulers :
            \/ firing'[q] = firing[q]
            \/ \A t \in firing'[q] : alerts[at[q]][t] # NoAlert
        BY <2>held, <2>firing DEF Inv, TypeOK
    <2>2. firing' \in [Schedulers -> SUBSET Titles]
        BY <2>held, <2>firing DEF Inv, TypeOK
    <2>3. Looks(s) /\ UNCHANGED <<world, cache, alerts>>
        BY <1>titles, <2>held, <2>1, <2>2 DEF firingAlertTitles, Looks, Inv, TypeOK, tables
    <2> QED
        BY <2>3, SameAlerts, StepInv DEF Inv, TypeOK
<1>state. CASE reconcileCluster(s)
    <2>1. AlertsMove /\ alerts' \in [1 .. Clusters -> [Titles -> Rows]]
        BY <1>state, upsertAlertFacts DEF reconcileCluster, Titles
    <2>2. Looks(s)
        BY <1>state, GotoFacts, NextClusterFacts DEF reconcileCluster, Looks, Inv, TypeOK
    <2> QED
        BY <1>state, <2>1, <2>2, StepInv DEF reconcileCluster, Inv, TypeOK
<1>app. CASE GetApplication(s)
    <2>here. app[at[s]] \in Apps \cup {NoApp}
        BY PageFacts DEF Inv, TypeOK
    <2>1. Looks(s)
        <3>1. CASE NextCluster(s)
            BY <3>1, NextClusterFacts DEF Looks, Inv, TypeOK
        <3>2. CASE /\ \E a \in ArgoApplication(at[s]) : got' = [got EXCEPT ![s] = a]
                   /\ pc' = [pc EXCEPT ![s] = "cache"]
                   /\ UNCHANGED <<at, listed, firing>>
            BY <3>2, <2>here DEF ArgoApplication, Looks, Inv, TypeOK
        <3> QED
            BY <1>app, <3>1, <3>2 DEF GetApplication
    <2>2. UNCHANGED <<world, cache, alerts>>
        BY <1>app DEF GetApplication, tables
    <2> QED
        BY <2>1, <2>2, SameAlerts, StepInv DEF Inv, TypeOK
<1>cache. CASE UpsertArgoApplication(s)
    <2>1. Looks(s) /\ UNCHANGED <<world, alerts>>
        BY <1>cache, GotoFacts DEF UpsertArgoApplication, Looks, Inv, TypeOK
    <2>2. cache' \in [1 .. Clusters -> Apps \cup {NoApp}]
        BY <1>cache, PageFacts DEF UpsertArgoApplication, StoreApplication, Inv, TypeOK
    <2> QED
        BY <2>1, <2>2, SameAlerts, StepInv
<1>drift. CASE reconcileDrift(s)
    <2>1. AlertsMove /\ alerts' \in [1 .. Clusters -> [Titles -> Rows]]
        BY <1>drift, upsertAlertFacts DEF reconcileDrift, Titles
    <2>2. Looks(s)
        BY <1>drift, GotoFacts DEF reconcileDrift, Looks, Inv, TypeOK
    <2> QED
        BY <1>drift, <2>1, <2>2, StepInv DEF reconcileDrift, Inv, TypeOK
<1>health. CASE reconcileHealth(s)
    <2>1. AlertsMove /\ alerts' \in [1 .. Clusters -> [Titles -> Rows]]
        BY <1>health, upsertAlertFacts DEF reconcileHealth, Titles
    <2>2. Looks(s)
        BY <1>health, NextClusterFacts DEF reconcileHealth, Looks, Inv, TypeOK
    <2> QED
        BY <1>health, <2>1, <2>2, StepInv DEF reconcileHealth, Inv, TypeOK
<1>fails. CASE CallFails(s)
    <2>1. Looks(s)
        BY <1>fails, GotoFacts, NextClusterFacts DEF CallFails, Looks, Inv, TypeOK
    <2>2. UNCHANGED <<world, cache, alerts>>
        BY <1>fails DEF CallFails, tables
    <2> QED
        BY <2>1, <2>2, SameAlerts, StepInv DEF Inv, TypeOK
<1>crash. CASE Crash(s)
    <2>1. Looks(s) /\ UNCHANGED <<world, cache, alerts>>
        BY <1>crash, PageFacts DEF Crash, Looks, Inv, TypeOK, tables
    <2> QED
        BY <2>1, SameAlerts, StepInv DEF Inv, TypeOK
<1> QED
    BY <1>run, <1>titles, <1>state, <1>app, <1>cache, <1>drift, <1>health, <1>fails, <1>crash
    DEF Pass

\* Clusters and applications that change, and steps of nobody, leave the tables.
LEMMA WorldInv ==
    ASSUME Inv,
           \/ \E c \in 1 .. Clusters : ClusterMoves(c)
           \/ \E c \in Argo : ApplicationMoves(c)
           \/ UNCHANGED vars
    PROVE  Inv' /\ AlertsMove
<1>1. UNCHANGED <<tables, pc, at, listed, firing, got>>
    BY DEF ClusterMoves, ApplicationMoves, vars, tables
<1>states. state' \in [1 .. Clusters -> States]
    BY DEF ClusterMoves, ApplicationMoves, vars, Inv, TypeOK
<1>apps. app' \in [1 .. Clusters -> Apps \cup {NoApp}]
    <2>1. CASE \E c \in Argo : ApplicationMoves(c)
        <3>1. PICK c \in Argo, a \in Apps \cup {NoApp} : app' = [app EXCEPT ![c] = a]
            BY <2>1 DEF ApplicationMoves
        <3> QED
            BY <3>1 DEF Inv, TypeOK
    <2>2. CASE UNCHANGED app
        BY <2>2 DEF Inv, TypeOK
    <2> QED
        BY <2>1, <2>2 DEF ClusterMoves, vars
<1>3. moves' = moves \/ (moves < MaxMoves /\ moves' = moves + 1)
    BY DEF ClusterMoves, ApplicationMoves, vars
<1>4. moves' \in 0 .. MaxMoves
    BY <1>3, AlertsAssumption DEF Inv
<1> QED
    BY <1>1, <1>states, <1>apps, <1>4, SameAlerts DEF Inv, TypeOK, Remembered, tables

\* Every step of the specification keeps the invariant and moves alerts as it may.
LEMMA NextInv == Inv /\ [Next]_vars => Inv' /\ AlertsMove
BY SchedulerInv, WorldInv DEF Next

-----------------------------------------------------------------------------

\* The invariant holds in every reachable state.
THEOREM Invariance == Spec => []Inv
BY InitInv, NextInv, PTL DEF Spec

\* Whatever passes overlap and calls fail, the tables hold rows of their kind, and
\* an alert has the times its status calls for.
THEOREM TypeCorrect == Spec => []TypeOK
<1>1. Inv => TypeOK
    BY DEF Inv
<1> QED
    BY <1>1, Invariance, PTL

\* No pass, however stale, resolves a condition that never fired.
THEOREM ResolvedWasFired == Spec => NeverResolvedUnfired
<1> DEFINE A == \A c \in 1 .. Clusters, t \in Titles :
                    alerts[c][t] = NoAlert => alerts'[c][t].status # "RESOLVED"
<1>1. Inv /\ [Next]_vars => [A]_vars
    BY NextInv, MovedFacts DEF Inv, TypeOK, Rows, AlertsMove
<1> QED
    BY <1>1, Invariance, PTL DEF Spec, NeverResolvedUnfired

\* No pass, however stale, moves the time at which a firing alert began.
THEOREM BeganKept == Spec => FiredAtKept
<1> DEFINE A == \A c \in 1 .. Clusters, t \in Titles :
                    alerts[c][t].status = "FIRING" /\ alerts'[c][t].status = "FIRING" =>
                        alerts'[c][t].firedAt = alerts[c][t].firedAt
<1>1. Inv /\ [Next]_vars => [A]_vars
    BY NextInv, MovedFacts DEF Inv, TypeOK, Rows, AlertsMove
<1> QED
    BY <1>1, Invariance, PTL DEF Spec, FiredAtKept

=============================================================================
