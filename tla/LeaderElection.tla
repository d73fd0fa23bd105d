--------------------------- MODULE LeaderElection ---------------------------
(***************************************************************************)
(* Leader election of platform-scheduler: the ticker loop of               *)
(* cmd/platform-scheduler/main.go, the Elector of                          *)
(* internal/infrastructure/leaderelection and the Redis lock of            *)
(* internal/infrastructure/redis/client.go.                                *)
(*                                                                         *)
(* Time is counted in units; every timer is the number of units left, so   *)
(* that executions of any length have finitely many states. The token of a *)
(* lock is a fresh UUID per acquisition: it is represented by the replica  *)
(* that acquired it, and handle says whether that replica still has it     *)
(* (Elector.lock is not nil). A replica acquires only when it has no       *)
(* handle, so a handle and an entry of the same replica have equal tokens. *)
(***************************************************************************)
EXTENDS Naturals

CONSTANTS
    Replicas,  \* replicas of platform-scheduler
    NoOne,     \* the holder of a key that is absent
    TTL,       \* leaderLeaseTTL, 45s
    Interval,  \* period of the ticker, 30s
    PassMax,   \* longest reconciliation pass, counted from the grant of the lease
    MaxFaults  \* bound: crashes, shutdowns and failed Redis calls

ASSUME LeaseAssumption ==
    /\ NoOne \notin Replicas
    /\ TTL \in Nat \ {0}
    /\ Interval \in Nat \ {0}
    /\ PassMax \in Nat
    /\ MaxFaults \in Nat

VARIABLES
    holder,  \* who acquired the key's current value, NoOne when it is absent
    ttl,     \* units until the key expires
    handle,  \* whether each replica's Elector.lock is set
    pc,      \* where each replica is in its loop
    left,    \* units a replica's pass may still take
    due,     \* units until a replica's ticker fires
    ready,   \* whether a tick waits in the ticker's channel
    faults   \* faults so far

vars == <<holder, ttl, handle, pc, left, due, ready, faults>>

TypeOK ==
    /\ holder \in Replicas \cup {NoOne}
    /\ ttl \in 0 .. TTL
    /\ handle \in [Replicas -> BOOLEAN]
    /\ pc \in [Replicas -> {"idle", "acquire", "pass", "down"}]
    /\ left \in [Replicas -> 0 .. PassMax]
    /\ due \in [Replicas -> 1 .. Interval]
    /\ ready \in [Replicas -> BOOLEAN]
    /\ faults \in Nat

\* Every process calls runIfLeader once before its ticker loop.
Init ==
    /\ holder = NoOne
    /\ ttl = 0
    /\ handle = [p \in Replicas |-> FALSE]
    /\ pc = [p \in Replicas |-> "idle"]
    /\ left = [p \in Replicas |-> 0]
    /\ due = [p \in Replicas |-> Interval]
    /\ ready = [p \in Replicas |-> TRUE]
    /\ faults = 0

-----------------------------------------------------------------------------
(* The Redis lock                                                          *)

\* The compare of the Renew and Unlock scripts: the key still has my token.
Owns(p) == handle[p] /\ holder = p

\* Mutation of Lease: the TTL is added to what is left of the old one.
LeaseAdds(p) == holder' = p /\ ttl' = ttl + TTL

\* SET NX PX and PEXPIRE, as the server executes them.
Lease(p) == holder' = p /\ ttl' = TTL

\* Mutation of Unlock: DEL without the compare.
UnlockAny(p) ==
    \/ handle[p] /\ holder' = NoOne /\ ttl' = 0
    \/ ~handle[p] /\ UNCHANGED <<holder, ttl>>

\* The compare-and-delete script; Resign returns early without a handle.
Unlock(p) ==
    \/ Owns(p) /\ holder' = NoOne /\ ttl' = 0
    \/ ~Owns(p) /\ UNCHANGED <<holder, ttl>>

-----------------------------------------------------------------------------
(* Elector.IsLeader, called once per tick                                  *)

\* The loop takes the tick and calls IsLeader.
Called(p) ==
    /\ pc[p] = "idle" /\ ready[p]
    /\ ready' = [ready EXCEPT ![p] = FALSE]

\* IsLeader returned true: the reconciliation pass starts.
Lead(p) ==
    /\ pc' = [pc EXCEPT ![p] = "pass"]
    /\ left' = [left EXCEPT ![p] = PassMax]

Fail ==
    /\ faults < MaxFaults
    /\ faults' = faults + 1

\* Mutation of Renewed: the TTL is not extended.
RenewedShort(p) ==
    /\ Called(p)
    /\ Owns(p)
    /\ Lead(p)
    /\ UNCHANGED <<holder, ttl, handle, due, faults>>

\* Renew found the token and extended the TTL.
Renewed(p) ==
    /\ Called(p)
    /\ Owns(p)
    /\ Lease(p)
    /\ Lead(p)
    /\ UNCHANGED <<handle, due, faults>>

\* Mutation of Lost: the handle of the lost lease is kept.
LostKept(p) ==
    /\ Called(p)
    /\ handle[p] /\ ~Owns(p)
    /\ UNCHANGED <<holder, ttl, handle, pc, left, due, faults>>

\* Renew did not find the token: the lease was lost, go on to acquire.
Lost(p) ==
    /\ Called(p)
    /\ handle[p] /\ ~Owns(p)
    /\ handle' = [handle EXCEPT ![p] = FALSE]
    /\ pc' = [pc EXCEPT ![p] = "acquire"]
    /\ UNCHANGED <<holder, ttl, left, due, faults>>

\* Renew returned an error, before or after the server executed it. The handle
\* is dropped; whatever lease the server keeps can no longer be renewed.
RenewFails(p) ==
    /\ Called(p)
    /\ handle[p]
    /\ Fail
    /\ handle' = [handle EXCEPT ![p] = FALSE]
    /\ \/ Owns(p) /\ Lease(p)
       \/ UNCHANGED <<holder, ttl>>
    /\ UNCHANGED <<pc, left, due>>

\* AcquireLock, in a call that has no handle or has just lost it.
Acquiring(p) ==
    \/ Called(p) /\ ~handle[p]
    \/ pc[p] = "acquire" /\ UNCHANGED ready

\* SET NX found no key.
Acquired(p) ==
    /\ Acquiring(p)
    /\ holder = NoOne
    /\ Lease(p)
    /\ handle' = [handle EXCEPT ![p] = TRUE]
    /\ Lead(p)
    /\ UNCHANGED <<due, faults>>

\* Mutation of Refused: the result of SET NX is ignored.
RefusedLeads(p) ==
    /\ Acquiring(p)
    /\ holder # NoOne
    /\ Lead(p)
    /\ UNCHANGED <<holder, ttl, handle, due, faults>>

\* SET NX found a key.
Refused(p) ==
    /\ Acquiring(p)
    /\ holder # NoOne
    /\ pc' = [pc EXCEPT ![p] = "idle"]
    /\ UNCHANGED <<holder, ttl, handle, left, due, faults>>

\* AcquireLock returned an error, or "not acquired" on a retry of the client,
\* before or after SET NX took effect: then nobody knows the token.
AcquireFails(p) ==
    /\ Acquiring(p)
    /\ Fail
    /\ \/ holder = NoOne /\ Lease(p)
       \/ UNCHANGED <<holder, ttl>>
    /\ pc' = [pc EXCEPT ![p] = "idle"]
    /\ UNCHANGED <<handle, left, due>>

-----------------------------------------------------------------------------
(* The rest of the process                                                 *)

\* The reconciliation pass returns. Nothing renews the lease meanwhile.
EndPass(p) ==
    /\ pc[p] = "pass"
    /\ pc' = [pc EXCEPT ![p] = "idle"]
    /\ left' = [left EXCEPT ![p] = 0]
    /\ UNCHANGED <<holder, ttl, handle, due, ready, faults>>

\* Graceful shutdown: the deferred Resign, whose Unlock may fail.
Shutdown(p) ==
    /\ pc[p] = "idle"
    /\ Fail
    /\ Unlock(p) \/ UNCHANGED <<holder, ttl>>
    /\ handle' = [handle EXCEPT ![p] = FALSE]
    /\ pc' = [pc EXCEPT ![p] = "down"]
    /\ UNCHANGED <<left, due, ready>>

Crash(p) ==
    /\ pc[p] \notin {"down"}
    /\ Fail
    /\ handle' = [handle EXCEPT ![p] = FALSE]
    /\ pc' = [pc EXCEPT ![p] = "down"]
    /\ left' = [left EXCEPT ![p] = 0]
    /\ UNCHANGED <<holder, ttl, due, ready>>

Restart(p) ==
    /\ pc[p] = "down"
    /\ pc' = [pc EXCEPT ![p] = "idle"]
    /\ due' = [due EXCEPT ![p] = Interval]
    /\ ready' = [ready EXCEPT ![p] = TRUE]
    /\ UNCHANGED <<holder, ttl, handle, left, faults>>

\* One unit passes: the key may expire, tickers fire into a channel that holds
\* one tick. An idle loop takes a waiting tick within the unit, and a pass ends
\* within PassMax.
Tick ==
    /\ \A p \in Replicas : /\ pc[p] = "idle" => ~ready[p]
                           /\ pc[p] = "pass" => left[p] > 0
    /\ ttl' = IF ttl > 0 THEN ttl - 1 ELSE 0
    /\ holder' = IF ttl > 1 THEN holder ELSE NoOne
    /\ left' = [p \in Replicas |-> IF left[p] > 0 THEN left[p] - 1 ELSE 0]
    /\ due' = [p \in Replicas |-> IF due[p] > 1 THEN due[p] - 1 ELSE Interval]
    /\ ready' = [p \in Replicas |-> ready[p] \/ due[p] = 1]
    /\ UNCHANGED <<handle, pc, faults>>

IsLeader(p) ==
    Renewed(p) \/ Lost(p) \/ RenewFails(p) \/ Acquired(p) \/ Refused(p) \/ AcquireFails(p)

Next ==
    \/ \E p \in Replicas :
         IsLeader(p) \/ EndPass(p) \/ Shutdown(p) \/ Crash(p) \/ Restart(p)
    \/ Tick

Spec == Init /\ [][Next]_vars

\* Time passes, loops run, passes end, and the orchestrator restarts what died.
Fairness ==
    /\ WF_vars(Tick)
    /\ \A p \in Replicas : WF_vars(IsLeader(p)) /\ WF_vars(EndPass(p)) /\ WF_vars(Restart(p))

FairSpec == Spec /\ Fairness

-----------------------------------------------------------------------------
(* Properties                                                              *)

\* "Only one replica does this work at a time" (cmd/platform-scheduler/main.go):
\* two replicas are never inside a reconciliation pass together.
OnePass ==
    \A p, q \in Replicas : pc[p] = "pass" /\ pc[q] = "pass" => p = q

\* What makes OnePass inductive: the replica in a pass owns a lease that outlives
\* the pass.
PassCovered ==
    \A p \in Replicas : pc[p] = "pass" => Owns(p) /\ left[p] < ttl

\* The TTL exceeds the period of the ticker and the pass, so that a leader that
\* meets no fault renews in time: a handle is never stale, leadership does not
\* change hands spuriously (leaderelection.go: New).
HandleFresh == \A p \in Replicas : handle[p] => holder = p

\* Between its grant and its expiry a lease ends only by the Unlock of the replica
\* that holds its token: a replica that stalled past its TTL cannot delete, renew
\* or take over the lease of its successor (redis/client.go: Unlock, Renew).
LeaseIsKept ==
    [][\A p \in Replicas :
         holder = p /\ holder' # p => ttl <= 1 \/ (Owns(p) /\ ~handle'[p])]_vars

\* Whatever crashes and errors there were, some replica gets to run a pass again.
WorkGoesOn == []<>(\E p \in Replicas : pc[p] = "pass")

=============================================================================
