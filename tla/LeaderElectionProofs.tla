------------------------ MODULE LeaderElectionProofs ------------------------
(***************************************************************************)
(* Proofs about LeaderElection, for any number of replicas and faults.     *)
(***************************************************************************)
EXTENDS LeaderElection, TLAPS

LEMMA TypeInit == Init => TypeOK
  BY LeaseAssumption DEF Init, TypeOK

\* Entering AcquireLock takes a tick or leaves the tickers alone.
LEMMA ReadyType ==
  ASSUME TypeOK, NEW p \in Replicas, Acquiring(p)
  PROVE  ready' \in [Replicas -> BOOLEAN]
  <1>1. CASE Called(p)
    BY <1>1 DEF Called, TypeOK
  <1>2. CASE UNCHANGED ready
    BY <1>2 DEF TypeOK
  <1>3. QED BY <1>1, <1>2 DEF Acquiring

LEMMA TypeNext == TypeOK /\ [Next]_vars => TypeOK'
  <1> SUFFICES ASSUME TypeOK, [Next]_vars PROVE TypeOK'
    OBVIOUS
  <1> USE LeaseAssumption DEF TypeOK
  <1>1. ASSUME NEW p \in Replicas, Renewed(p) PROVE TypeOK'
    BY <1>1 DEF Renewed, Called, Lease, Lead
  <1>2. ASSUME NEW p \in Replicas, Lost(p) PROVE TypeOK'
    BY <1>2 DEF Lost, Called
  <1>3. ASSUME NEW p \in Replicas, RenewFails(p) PROVE TypeOK'
    BY <1>3 DEF RenewFails, Called, Lease, Fail
  <1>4. ASSUME NEW p \in Replicas, Acquired(p) PROVE TypeOK'
    <2>1. ready' \in [Replicas -> BOOLEAN]
      BY <1>4, ReadyType DEF Acquired
    <2>2. holder' \in Replicas \cup {NoOne} /\ ttl' \in 0 .. TTL
      BY <1>4 DEF Acquired, Lease
    <2>3. handle' \in [Replicas -> BOOLEAN]
      BY <1>4 DEF Acquired
    <2>4. /\ pc' \in [Replicas -> {"idle", "acquire", "pass", "down"}]
          /\ left' \in [Replicas -> 0 .. PassMax]
      BY <1>4 DEF Acquired, Lead
    <2>5. QED BY <1>4, <2>1, <2>2, <2>3, <2>4 DEF Acquired
  <1>5. ASSUME NEW p \in Replicas, Refused(p) PROVE TypeOK'
    BY <1>5 DEF Refused, Acquiring, Called
  <1>6. ASSUME NEW p \in Replicas, AcquireFails(p) PROVE TypeOK'
    <2>1. ready' \in [Replicas -> BOOLEAN]
      BY <1>6, ReadyType DEF AcquireFails
    <2>2. holder' \in Replicas \cup {NoOne} /\ ttl' \in 0 .. TTL
      BY <1>6 DEF AcquireFails, Lease
    <2>3. pc' \in [Replicas -> {"idle", "acquire", "pass", "down"}] /\ faults' \in Nat
      BY <1>6 DEF AcquireFails, Fail
    <2>4. QED BY <1>6, <2>1, <2>2, <2>3 DEF AcquireFails
  <1>7. ASSUME NEW p \in Replicas, EndPass(p) PROVE TypeOK'
    BY <1>7 DEF EndPass
  <1>8. ASSUME NEW p \in Replicas, Shutdown(p) PROVE TypeOK'
    BY <1>8 DEF Shutdown, Unlock, Fail
  <1>9. ASSUME NEW p \in Replicas, Crash(p) PROVE TypeOK'
    BY <1>9 DEF Crash, Fail
  <1>10. ASSUME NEW p \in Replicas, Restart(p) PROVE TypeOK'
    BY <1>10 DEF Restart
  <1>tick. CASE Tick
    <2>1. ttl' \in 0 .. TTL /\ holder' \in Replicas \cup {NoOne}
      BY <1>tick DEF Tick
    <2>2. left' \in [Replicas -> 0 .. PassMax]
      BY <1>tick DEF Tick
    <2>3. due' \in [Replicas -> 1 .. Interval]
      BY <1>tick DEF Tick
    <2>4. ready' \in [Replicas -> BOOLEAN]
      BY <1>tick DEF Tick
    <2>5. QED BY <1>tick, <2>1, <2>2, <2>3, <2>4 DEF Tick
  <1>stay. CASE UNCHANGED vars
    BY <1>stay DEF vars
  <1> QED
    BY <1>1, <1>2, <1>3, <1>4, <1>5, <1>6, <1>7, <1>8, <1>9, <1>10, <1>tick, <1>stay
       DEF Next, IsLeader

\* Every variable of the election keeps its type in every execution.
THEOREM TypeCorrect == Spec => []TypeOK
  BY TypeInit, TypeNext, PTL DEF Spec

-----------------------------------------------------------------------------

\* A replica in its pass is not disturbed by a step that leaves its own loop and
\* the lease alone.
LEMMA CoveredFrame ==
  ASSUME PassCovered, NEW p \in Replicas,
         pc'[p] # "pass",
         \A q \in Replicas \ {p} : /\ pc'[q] = pc[q]
                                   /\ left'[q] = left[q]
                                   /\ handle'[q] = handle[q],
         UNCHANGED <<holder, ttl>> \/ \A q \in Replicas \ {p} : ~Owns(q)
  PROVE  PassCovered'
  BY DEF PassCovered, Owns

\* The lease is granted to p: nobody else was in a pass, and p's pass is shorter
\* than the lease.
LEMMA CoveredGrant ==
  ASSUME TypeOK, PassCovered, PassMax < TTL, NEW p \in Replicas,
         Lease(p), Lead(p), handle'[p],
         \A q \in Replicas \ {p} : ~Owns(q)
  PROVE  PassCovered'
  <1>1. \A q \in Replicas \ {p} : pc'[q] # "pass"
    BY DEF PassCovered, Lead, TypeOK
  <1>2. Owns(p)'
    BY DEF Owns, Lease
  <1>3. left'[p] < ttl'
    BY LeaseAssumption DEF Lead, Lease, TypeOK
  <1>4. QED BY <1>1, <1>2, <1>3 DEF PassCovered

LEMMA CoveredNext ==
  ASSUME TypeOK, TypeOK', PassCovered, [Next]_vars, PassMax < TTL
  PROVE  PassCovered'
  <1>own. \A p, q \in Replicas : Owns(p) /\ Owns(q) => p = q
    BY DEF Owns
  <1>1. ASSUME NEW p \in Replicas, Renewed(p) PROVE PassCovered'
    <2>1. handle'[p] /\ \A q \in Replicas \ {p} : ~Owns(q)
      BY <1>1, <1>own DEF Renewed, Owns
    <2>2. QED BY <1>1, <2>1, CoveredGrant DEF Renewed
  <1>2. ASSUME NEW p \in Replicas, Acquired(p) PROVE PassCovered'
    <2>1. handle'[p] /\ \A q \in Replicas \ {p} : ~Owns(q)
      BY <1>2, LeaseAssumption DEF Acquired, Owns, TypeOK
    <2>2. QED BY <1>2, <2>1, CoveredGrant DEF Acquired
  <1>3. ASSUME NEW p \in Replicas, Lost(p) PROVE PassCovered'
    BY <1>3, CoveredFrame DEF Lost, TypeOK
  <1>4. ASSUME NEW p \in Replicas, RenewFails(p) PROVE PassCovered'
    <2>1. /\ pc'[p] # "pass"
          /\ \A q \in Replicas \ {p} : /\ pc'[q] = pc[q]
                                       /\ left'[q] = left[q]
                                       /\ handle'[q] = handle[q]
      BY <1>4 DEF RenewFails, Called, TypeOK
    <2>2. UNCHANGED <<holder, ttl>> \/ Owns(p)
      BY <1>4 DEF RenewFails
    <2>3. QED BY <1>own, <2>1, <2>2, CoveredFrame
  <1>5. ASSUME NEW p \in Replicas, Refused(p) PROVE PassCovered'
    BY <1>5, CoveredFrame DEF Refused, TypeOK
  <1>6. ASSUME NEW p \in Replicas, AcquireFails(p) PROVE PassCovered'
    <2>1. /\ pc'[p] # "pass"
          /\ \A q \in Replicas \ {p} : /\ pc'[q] = pc[q]
                                       /\ left'[q] = left[q]
                                       /\ handle'[q] = handle[q]
      BY <1>6 DEF AcquireFails, TypeOK
    <2>2. UNCHANGED <<holder, ttl>> \/ \A q \in Replicas : ~Owns(q)
      BY <1>6, LeaseAssumption DEF AcquireFails, Owns
    <2>3. QED BY <2>1, <2>2, CoveredFrame
  <1>7. ASSUME NEW p \in Replicas, EndPass(p) PROVE PassCovered'
    BY <1>7, CoveredFrame DEF EndPass, TypeOK
  <1>8. ASSUME NEW p \in Replicas, Shutdown(p) PROVE PassCovered'
    <2>1. /\ pc'[p] # "pass"
          /\ \A q \in Replicas \ {p} : /\ pc'[q] = pc[q]
                                       /\ left'[q] = left[q]
                                       /\ handle'[q] = handle[q]
      BY <1>8 DEF Shutdown, TypeOK
    <2>2. UNCHANGED <<holder, ttl>> \/ Owns(p)
      BY <1>8 DEF Shutdown, Unlock
    <2>3. QED BY <1>own, <2>1, <2>2, CoveredFrame
  <1>9. ASSUME NEW p \in Replicas, Crash(p) PROVE PassCovered'
    BY <1>9, CoveredFrame DEF Crash, TypeOK
  <1>10. ASSUME NEW p \in Replicas, Restart(p) PROVE PassCovered'
    BY <1>10, CoveredFrame DEF Restart, TypeOK
  <1>tick. CASE Tick
    <2> SUFFICES ASSUME NEW p \in Replicas, pc'[p] = "pass"
                 PROVE  Owns(p)' /\ left'[p] < ttl'
      BY DEF PassCovered
    <2>1. pc[p] = "pass" /\ Owns(p) /\ left[p] < ttl /\ left[p] > 0
      BY <1>tick DEF Tick, PassCovered
    <2>2. left[p] \in Nat /\ ttl \in Nat
      BY LeaseAssumption DEF TypeOK
    <2>3. ttl > 1
      BY <2>1, <2>2
    <2>4. holder' = holder /\ ttl' = ttl - 1 /\ left'[p] = left[p] - 1 /\ UNCHANGED handle
      BY <1>tick, <2>1, <2>2, <2>3 DEF Tick
    <2>5. QED BY <2>1, <2>2, <2>4 DEF Owns
  <1>stay. CASE UNCHANGED vars
    BY <1>stay DEF vars, PassCovered, Owns
  <1> QED
    BY <1>1, <1>2, <1>3, <1>4, <1>5, <1>6, <1>7, <1>8, <1>9, <1>10, <1>tick, <1>stay
       DEF Next, IsLeader

\* When no pass outlives the TTL, two replicas are never in a pass together,
\* whatever crashes, shutdowns and failed or half-executed Redis calls happen.
THEOREM PassesAreExclusive ==
  ASSUME PassMax < TTL
  PROVE  Spec => []OnePass
  <1>1. Init => TypeOK /\ PassCovered
    BY TypeInit DEF Init, PassCovered
  <1>2. TypeOK /\ PassCovered /\ [Next]_vars => (TypeOK /\ PassCovered)'
    BY TypeNext, CoveredNext
  <1>3. PassCovered => OnePass
    BY DEF PassCovered, OnePass, Owns
  <1>4. QED BY <1>1, <1>2, <1>3, PTL DEF Spec

\* A lease before its expiry ends only by the Unlock of the replica that holds
\* its token, however late passes and renewals are.
THEOREM LeasesAreKept == Spec => LeaseIsKept
  <1>1. TypeOK /\ [Next]_vars =>
          [\A p \in Replicas :
             holder = p /\ holder' # p => ttl <= 1 \/ (Owns(p) /\ ~handle'[p])]_vars
    <2> SUFFICES ASSUME TypeOK, [Next]_vars, NEW p \in Replicas, holder = p, holder' # p
                 PROVE  ttl <= 1 \/ (Owns(p) /\ ~handle'[p])
      OBVIOUS
    <2>1. ASSUME NEW q \in Replicas, IsLeader(q) PROVE FALSE
      BY <2>1, LeaseAssumption
         DEF IsLeader, Renewed, Lost, RenewFails, Acquired, Refused, AcquireFails, Lease, Owns
    <2>2. ASSUME NEW q \in Replicas, EndPass(q) \/ Crash(q) \/ Restart(q) PROVE FALSE
      BY <2>2 DEF EndPass, Crash, Restart
    <2>3. ASSUME NEW q \in Replicas, Shutdown(q) PROVE Owns(p) /\ ~handle'[p]
      BY <2>3 DEF Shutdown, Unlock, Owns, TypeOK
    <2>tick. CASE Tick
      BY <2>tick, LeaseAssumption DEF Tick, TypeOK
    <2>stay. CASE UNCHANGED vars
      BY <2>stay DEF vars
    <2> QED
      BY <2>1, <2>2, <2>3, <2>tick, <2>stay DEF Next
  <1>2. QED BY <1>1, TypeCorrect, PTL DEF Spec, LeaseIsKept

-----------------------------------------------------------------------------

\* A replica with a handle owns a key that outlives both its pass and the time
\* until its next tick, so it is back to renew before the key expires.
RenewsInTime(p) ==
    handle[p] =>
        /\ holder = p /\ pc[p] \in {"idle", "pass"}
        /\ left[p] < ttl
        /\ ready[p] \/ due[p] < ttl

InTime == \A p \in Replicas : RenewsInTime(p)

\* Who is granted the lease renews in time, and nobody else has a handle.
LEMMA InTimeGrant ==
  ASSUME TypeOK, TypeOK', InTime, PassMax < TTL, Interval < TTL, NEW p \in Replicas,
         Lease(p), Lead(p), UNCHANGED due,
         holder \in {p, NoOne},
         \A q \in Replicas \ {p} : handle'[q] = handle[q]
  PROVE  InTime'
  <1>others. \A q \in Replicas \ {p} : ~handle'[q]
    BY LeaseAssumption DEF InTime, RenewsInTime
  <1>mine. RenewsInTime(p)'
    <2>1. holder' = p /\ ttl' = TTL /\ pc'[p] = "pass" /\ left'[p] = PassMax
      BY DEF Lease, Lead, TypeOK
    <2>2. due'[p] < ttl'
      BY <2>1, LeaseAssumption DEF TypeOK
    <2> QED BY <2>1, <2>2 DEF RenewsInTime
  <1> QED BY <1>others, <1>mine DEF InTime, RenewsInTime

\* A step of p after which p has no handle, and which touches no lease but its
\* own or one nobody has, disturbs nobody.
LEMMA InTimeDrop ==
  ASSUME TypeOK, InTime, NEW p \in Replicas, ~handle'[p],
         UNCHANGED <<holder, ttl>> \/ holder \in {p, NoOne},
         \A q \in Replicas \ {p} : /\ handle'[q] = handle[q] /\ pc'[q] = pc[q]
                                   /\ left'[q] = left[q] /\ due'[q] = due[q]
                                   /\ ready'[q] = ready[q]
  PROVE  InTime'
  <1> SUFFICES ASSUME NEW q \in Replicas PROVE RenewsInTime(q)'
    BY DEF InTime
  <1>1. CASE q = p
    BY <1>1 DEF RenewsInTime
  <1>2. CASE q # p /\ UNCHANGED <<holder, ttl>>
    BY <1>2 DEF InTime, RenewsInTime
  <1>3. CASE q # p /\ holder \in {p, NoOne}
    BY <1>3, LeaseAssumption DEF InTime, RenewsInTime
  <1> QED BY <1>1, <1>2, <1>3

\* Time brings the expiry nearer, and with it the tick and the end of the pass.
LEMMA InTimeTick ==
  ASSUME TypeOK, InTime, Tick
  PROVE  InTime'
  <1> SUFFICES ASSUME NEW p \in Replicas, handle[p]
               PROVE  RenewsInTime(p)'
    BY DEF InTime, RenewsInTime, Tick
  <1>now. /\ holder = p /\ pc[p] \in {"idle", "pass"} /\ left[p] < ttl
          /\ ready[p] \/ due[p] < ttl
    BY DEF InTime, RenewsInTime
  <1>types. left[p] \in Nat /\ ttl \in Nat /\ due[p] \in Nat \ {0}
    BY LeaseAssumption DEF TypeOK
  <1>long. ttl > 1
    <2>1. CASE ready[p]
      <3>1. left[p] > 0
        BY <2>1, <1>now DEF Tick
      <3> QED BY <3>1, <1>now, <1>types
    <2>2. CASE ~ready[p]
      BY <2>2, <1>now, <1>types
    <2> QED BY <2>1, <2>2
  <1>next. /\ holder' = p /\ ttl' = ttl - 1 /\ pc'[p] = pc[p]
           /\ left'[p] = IF left[p] > 0 THEN left[p] - 1 ELSE 0
           /\ due'[p] = IF due[p] > 1 THEN due[p] - 1 ELSE Interval
           /\ ready'[p] = (ready[p] \/ due[p] = 1)
    BY <1>now, <1>types, <1>long DEF Tick
  <1>pass. left'[p] < ttl'
    BY <1>now, <1>types, <1>long, <1>next
  <1>tick. ready'[p] \/ due'[p] < ttl'
    <2>1. CASE ready[p] \/ due[p] = 1
      BY <2>1, <1>next
    <2>2. CASE ~ready[p] /\ due[p] # 1
      <3>1. due[p] < ttl /\ due[p] > 1
        BY <2>2, <1>now, <1>types
      <3> QED BY <3>1, <1>types, <1>next
    <2> QED BY <2>1, <2>2
  <1> QED BY <1>now, <1>next, <1>pass, <1>tick DEF RenewsInTime

\* Every replica renews in time after every step.
LEMMA InTimeNext ==
  ASSUME TypeOK, TypeOK', InTime, [Next]_vars, PassMax < TTL, Interval < TTL
  PROVE  InTime'
  <1>renewed. ASSUME NEW p \in Replicas, Renewed(p) PROVE InTime'
    BY <1>renewed, InTimeGrant DEF Renewed, Owns
  <1>acquired. ASSUME NEW p \in Replicas, Acquired(p) PROVE InTime'
    <2>1. \A q \in Replicas \ {p} : handle'[q] = handle[q]
      BY <1>acquired DEF Acquired, TypeOK
    <2> QED BY <1>acquired, <2>1, InTimeGrant DEF Acquired
  <1>lost. ASSUME NEW p \in Replicas, Lost(p) PROVE InTime'
    <2>1. /\ ~handle'[p] /\ UNCHANGED <<holder, ttl>>
          /\ \A q \in Replicas \ {p} : /\ handle'[q] = handle[q] /\ pc'[q] = pc[q]
                                       /\ left'[q] = left[q] /\ due'[q] = due[q]
                                       /\ ready'[q] = ready[q]
      BY <1>lost DEF Lost, Called, TypeOK
    <2> QED BY <2>1, InTimeDrop
  <1>renewFails. ASSUME NEW p \in Replicas, RenewFails(p) PROVE InTime'
    <2>1. /\ ~handle'[p]
          /\ \A q \in Replicas \ {p} : /\ handle'[q] = handle[q] /\ pc'[q] = pc[q]
                                       /\ left'[q] = left[q] /\ due'[q] = due[q]
                                       /\ ready'[q] = ready[q]
      BY <1>renewFails DEF RenewFails, Called, TypeOK
    <2>2. UNCHANGED <<holder, ttl>> \/ holder \in {p, NoOne}
      BY <1>renewFails DEF RenewFails, Owns
    <2> QED BY <2>1, <2>2, InTimeDrop
  <1>unsuccessful. ASSUME NEW p \in Replicas, Refused(p) \/ AcquireFails(p) PROVE InTime'
    <2>1. ~handle[p] /\ UNCHANGED handle
      BY <1>unsuccessful DEF Refused, AcquireFails, Acquiring, InTime, RenewsInTime
    <2>2. UNCHANGED <<holder, ttl>> \/ holder \in {p, NoOne}
      BY <1>unsuccessful DEF Refused, AcquireFails
    <2>3. \A q \in Replicas \ {p} : ready'[q] = ready[q]
      BY <1>unsuccessful DEF Refused, AcquireFails, Acquiring, Called, TypeOK
    <2>4. \A q \in Replicas \ {p} : /\ handle'[q] = handle[q] /\ pc'[q] = pc[q]
                                    /\ left'[q] = left[q] /\ due'[q] = due[q]
                                    /\ ready'[q] = ready[q]
      BY <1>unsuccessful, <2>3 DEF Refused, AcquireFails, TypeOK
    <2> QED BY <2>1, <2>2, <2>4, InTimeDrop
  <1>endPass. ASSUME NEW p \in Replicas, EndPass(p) PROVE InTime'
    <2>1. pc' = [pc EXCEPT ![p] = "idle"] /\ left' = [left EXCEPT ![p] = 0]
      BY <1>endPass DEF EndPass
    <2> SUFFICES ASSUME NEW q \in Replicas, handle[q] PROVE RenewsInTime(q)'
      BY <1>endPass DEF EndPass, InTime, RenewsInTime
    <2>2. left'[q] <= left[q] /\ left[q] \in Nat /\ ttl \in Nat /\ left'[q] \in Nat
      BY <2>1, LeaseAssumption DEF TypeOK
    <2>3. pc'[q] \in {"idle", pc[q]}
      BY <2>1 DEF TypeOK
    <2> QED BY <1>endPass, <2>2, <2>3 DEF EndPass, InTime, RenewsInTime
  <1>ends. ASSUME NEW p \in Replicas, Shutdown(p) \/ Crash(p) PROVE InTime'
    <2>1. /\ ~handle'[p]
          /\ \A q \in Replicas \ {p} : /\ handle'[q] = handle[q] /\ pc'[q] = pc[q]
                                       /\ left'[q] = left[q] /\ due'[q] = due[q]
                                       /\ ready'[q] = ready[q]
      BY <1>ends DEF Shutdown, Crash, TypeOK
    <2>2. UNCHANGED <<holder, ttl>> \/ holder \in {p, NoOne}
      BY <1>ends DEF Shutdown, Crash, Unlock, Owns
    <2> QED BY <2>1, <2>2, InTimeDrop
  <1>restart. ASSUME NEW p \in Replicas, Restart(p) PROVE InTime'
    <2>1. ~handle[p] /\ UNCHANGED <<holder, ttl, handle>>
      BY <1>restart DEF Restart, InTime, RenewsInTime
    <2>2. \A q \in Replicas \ {p} : /\ handle'[q] = handle[q] /\ pc'[q] = pc[q]
                                    /\ left'[q] = left[q] /\ due'[q] = due[q]
                                    /\ ready'[q] = ready[q]
      BY <1>restart DEF Restart, TypeOK
    <2> QED BY <2>1, <2>2, InTimeDrop
  <1>stay. CASE UNCHANGED vars
    BY <1>stay DEF vars, InTime, RenewsInTime
  <1>leads. ASSUME NEW p \in Replicas, IsLeader(p) PROVE InTime'
    BY <1>leads, <1>renewed, <1>acquired, <1>lost, <1>renewFails, <1>unsuccessful DEF IsLeader
  <1> QED
    BY <1>leads, <1>endPass, <1>ends, <1>restart, <1>stay, InTimeTick DEF Next

\* While the TTL exceeds the period of the ticker and the longest pass, a handle
\* is never stale: no replica believes to hold a lease that another one has.
THEOREM HandlesAreFresh ==
  ASSUME PassMax < TTL, Interval < TTL
  PROVE  Spec => []HandleFresh
  <1>1. Init => TypeOK /\ InTime
    BY TypeInit DEF Init, InTime, RenewsInTime
  <1>2. TypeOK /\ InTime /\ [Next]_vars => (TypeOK /\ InTime)'
    BY TypeNext, InTimeNext
  <1>3. InTime => HandleFresh
    BY DEF InTime, RenewsInTime, HandleFresh
  <1> QED BY <1>1, <1>2, <1>3, PTL DEF Spec

=============================================================================
