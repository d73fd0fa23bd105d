----------------------- MODULE MachineOperationsProofs -----------------------
(***************************************************************************)
(* The safety of machine operations, for every set of requests, users,     *)
(* machines and clusters and any number of faults: who owns the record of  *)
(* a key, what the record and the audit log may say, who was allowed, and  *)
(* which credentials were used.                                            *)
(***************************************************************************)
EXTENDS MachineOperations, FiniteSetTheorems, TLAPS

Working == {"prepare", "act", "finish"}

Granted(r) == Authorize(seen[r], scope[r], Route[req[r].op].role)

\* The variables TypeOK says nothing of are functions on the requests.
Shape ==
    /\ TypeOK
    /\ scope = [r \in Requests |-> scope[r]]
    /\ seen = [r \in Requests |-> seen[r]]

\* A request knows its user's bindings and the platform's or its cluster's scope.
Informed(r) ==
    /\ \A b \in seen[r] : b.user = req[r].user
    /\ \/ scope[r] = Scope("PLATFORM", "all")
       \/ /\ ClusterOf[req[r].machine] # "none"
          /\ req[r].machine \in Machines
          /\ scope[r] = Scope("CLUSTER", ClusterOf[req[r].machine])

\* Where a request can be, and what it was granted to be there.
Placed(r) ==
    /\ pc[r] \in {"scope", "authorize", "find", "record", "finish"} => req[r].op # "health"
    /\ pc[r] = "act" => req[r].machine \in Machines
    /\ pc[r] \in {"find", "record"} => Granted(r)

\* A request that works on an operation owns the record of its key, and the
\* operation is carried out no earlier than its request says.
Owning(r) ==
    pc[r] \in Working /\ req[r].op # "health" =>
        /\ req[r].key \in DOMAIN operations
        /\ operations[req[r].key] = [by |-> r, status |-> "RUNNING"]
        /\ pc[r] # "finish" => acts[req[r].key] = 0
        /\ pc[r] = "finish" /\ ~failed[r] => acts[req[r].key] = 1

\* The request that recorded an operation, and how far both are.
Kept(k) ==
    LET r == operations[k].by
        s == operations[k].status
    IN
    /\ req[r].key = k /\ req[r].op # "health" /\ req[r].machine \in Machines
    /\ pc[r] \in Working \cup {"audit", "ended"}
    /\ Granted(r)
    /\ s = "RUNNING" => r \in hit \/ pc[r] \in Working
    /\ s = "SUCCEEDED" => acts[k] = 1
    /\ acts[k] <= 1
    /\ pc[r] = "audit" /\ r \notin hit => (failed[r] <=> s = "FAILED")
    /\ pc[r] = "ended" /\ r \notin hit =>
            <<r, IF s = "SUCCEEDED" THEN "SUCCESS" ELSE "FAILURE">> \in audit

Recordings == \A k \in Keys : IF k \in DOMAIN operations THEN Kept(k) ELSE acts[k] = 0

\* What is registered for an endpoint is its cluster's, and is there in time.
Credentials ==
    /\ \A m \in Machines : byEndpoint[Endpoint[m]] \in {"none", ClusterOf[m]}
    /\ \A r \in Requests :
        pc[r] = "act" /\ Via(r) = "talos" /\ ClusterOf[req[r].machine] \in OwnConfig =>
            byEndpoint[Endpoint[req[r].machine]] # "none"

\* The inductive invariant.
Inv ==
    /\ Shape
    /\ \A r \in Requests : Informed(r) /\ Placed(r) /\ Owning(r)
    /\ Recordings
    /\ Credentials
    /\ OwnCredentials

-----------------------------------------------------------------------------
(* Lemmas about the operators. *)

\* What a request asks for is among the keys and the users.
LEMMA AskedFacts ==
    ASSUME TypeOK, NEW r \in Requests
    PROVE  req[r].key \in Keys /\ req[r].user \in Users
BY MachineAssumption DEF TypeOK, Keys

\* A call that reports success was carried out; reading a machine's health
\* carries out nothing.
LEMMA AttemptFacts ==
    ASSUME NEW r \in Requests, NEW result \in Attempt(r)
    PROVE  \/ result = [done |-> FALSE, ok |-> FALSE]
           \/ req[r].op = "health" /\ result = [done |-> FALSE, ok |-> TRUE]
           \/ req[r].op # "health" /\ result = [done |-> TRUE, ok |-> TRUE]
           \/ req[r].op # "health" /\ result = [done |-> TRUE, ok |-> FALSE]
<1>health. req[r].op = "health" => Attempt(r) = GetHealth(req[r].machine)
    BY DEF Attempt
<1>power. \A m : Power(m) \subseteq Called
    BY Zenon DEF Power, BareMetal, Hypervisor, controllerFor, Redfish, Ipmi, Called
<1>other. req[r].op # "health" => Attempt(r) \subseteq Called
    <2> DEFINE m == req[r].machine
    <2>1. CASE req[r].op = "reboot"
        BY <2>1 DEF Attempt, Reboot, Called
    <2>2. CASE req[r].op = "upgrade"
        BY <2>2 DEF Attempt, Upgrade, Called
    <2>3. CASE req[r].op \notin {"reboot", "upgrade", "health"}
        <3> Attempt(r) = Power(m)
            BY <2>3 DEF Attempt
        <3> QED
            BY <1>power
    <2> QED
        BY <2>1, <2>2, <2>3
<1>read. req[r].op = "health" =>
            result = [done |-> FALSE, ok |-> FALSE] \/ result = [done |-> FALSE, ok |-> TRUE]
    BY <1>health DEF GetHealth, Refused
<1>called. req[r].op # "health" =>
            \/ result = [done |-> FALSE, ok |-> FALSE]
            \/ result = [done |-> TRUE, ok |-> TRUE]
            \/ result = [done |-> TRUE, ok |-> FALSE]
    BY <1>other DEF Called, Refused
<1> QED
    BY <1>read, <1>called

\* What the Talos client dials with.
LEMMA ConfigFacts ==
    ASSUME TypeOK, NEW m \in Machines, byEndpoint[Endpoint[m]] \in {"none", ClusterOf[m]},
           ClusterOf[m] \in OwnConfig => byEndpoint[Endpoint[m]] # "none"
    PROVE  /\ configFor(Endpoint[m]) \in OwnConfig \cup {"none", "default"}
           /\ configFor(Endpoint[m]) # "none" =>
                configFor(Endpoint[m]) = IF ClusterOf[m] \in OwnConfig THEN ClusterOf[m]
                                         ELSE "default"
BY MachineAssumption DEF TypeOK, configFor

-----------------------------------------------------------------------------

\* The invariant holds of a fresh process and the tables it starts with.
LEMMA InitInv == Init => Inv
<1> SUFFICES ASSUME Init PROVE Inv
    OBVIOUS
<1>type. TypeOK
    BY MachineAssumption DEF Init, TypeOK, Stages
<1>shape. Shape
    BY <1>type DEF Init, Shape
<1>req. \A r \in Requests : Informed(r) /\ Placed(r) /\ Owning(r)
    BY DEF Init, Informed, Placed, Owning, Working
<1>rest. Recordings /\ Credentials /\ OwnCredentials
    BY DEF Init, Recordings, Credentials, OwnCredentials
<1> QED
    BY <1>shape, <1>req, <1>rest DEF Inv

-----------------------------------------------------------------------------
(* One lemma per action: the invariant is kept. *)

Early == {"idle", "user", "newUser", "scope", "authorize", "find", "record"}

\* Only request r changes, in pc and in what it knows.
OnlyMoves(r, l) ==
    /\ pc' = [pc EXCEPT ![r] = l]
    /\ req' = req
    /\ \A q \in Requests \ {r} : seen'[q] = seen[q] /\ scope'[q] = scope[q] /\ failed'[q] = failed[q]

\* A request that has not recorded an operation moves on without recording one.
LEMMA EarlyInv ==
    ASSUME Inv, NEW r \in Requests, NEW l, Shape', Informed(r)', Placed(r)',
           pc[r] \in Early, OnlyMoves(r, l), l \in Early \cup {"prepare", "audit", "ended"},
           l = "prepare" => req[r].op = "health",
           UNCHANGED <<operations, audit, byEndpoint, acts, used>>, hit \subseteq hit'
    PROVE  Inv'
<1> USE DEF OnlyMoves, Early
<1>informed. \A q \in Requests : Informed(q)'
    BY DEF Inv, Informed
<1>placed. \A q \in Requests : Placed(q)'
    BY DEF Inv, Shape, TypeOK, Placed, Granted
<1>owning. \A q \in Requests : Owning(q)'
    BY DEF Inv, Shape, TypeOK, Owning, Working
<1>recordings. Recordings'
    <2> SUFFICES ASSUME NEW k \in Keys, k \in DOMAIN operations PROVE Kept(k)'
        BY DEF Inv, Recordings
    <2> DEFINE o == operations[k].by
    <2>1. Kept(k) /\ o \in Requests
        BY DEF Inv, Recordings, Shape, TypeOK
    <2>2. o # r
        BY <2>1 DEF Kept, Working
    <2> QED
        BY <2>1, <2>2 DEF Inv, Shape, TypeOK, Kept, Granted, Working
<1>rest. (Credentials /\ OwnCredentials)'
    BY DEF Inv, Shape, TypeOK, Credentials, OwnCredentials, Via
<1> QED
    BY <1>informed, <1>placed, <1>owning, <1>recordings, <1>rest DEF Inv

\* A token check lets a request in or ends it.
LEMMA ArriveInv ==
    ASSUME Inv, NEW r \in Requests, Arrive(r)
    PROVE  Inv'
<1> USE DEF Arrive, Goto, stores
<1>1. Shape' /\ Informed(r)' /\ Placed(r)'
    BY DEF Inv, Shape, TypeOK, Stages, Informed, Placed
<1> QED
    BY <1>1, EarlyInv DEF Early, OnlyMoves, Inv, Shape, TypeOK

\* Looking a user up changes nothing but where the request is.
LEMMA GetBySubjectInv ==
    ASSUME Inv, NEW r \in Requests, GetBySubject(r)
    PROVE  Inv'
<1> USE DEF GetBySubject, Authenticated, Goto, stores
<1>1. Shape' /\ Informed(r)' /\ Placed(r)'
    BY DEF Inv, Shape, TypeOK, Stages, Informed, Placed
<1> QED
    BY <1>1, EarlyInv DEF Early, OnlyMoves, Inv, Shape, TypeOK

\* A first login adds a row for the request's user.
LEMMA CreateUserInv ==
    ASSUME Inv, NEW r \in Requests, CreateUser(r)
    PROVE  Inv'
<1> USE DEF CreateUser, NewUser, Authenticated, Goto
<1>1. Shape' /\ Informed(r)' /\ Placed(r)'
    BY AskedFacts DEF Inv, Shape, TypeOK, Stages, Informed, Placed
<1> QED
    BY <1>1, EarlyInv DEF Early, OnlyMoves, Inv, Shape, TypeOK

\* The scope a request is checked against is its machine's cluster or the platform.
LEMMA machineClusterScopeInv ==
    ASSUME Inv, NEW r \in Requests, machineClusterScope(r)
    PROVE  Inv'
<1> USE DEF machineClusterScope, GetMachine, Goto, stores
<1>1. Shape' /\ Informed(r)' /\ Placed(r)'
    BY DEF Inv, Shape, TypeOK, Stages, Informed, Placed
<1> QED
    BY <1>1, EarlyInv DEF Early, OnlyMoves, Inv, Shape, TypeOK

\* Only a request that is granted the route's role goes on to its operation.
LEMMA requireRoleInv ==
    ASSUME Inv, NEW r \in Requests, requireRole(r)
    PROVE  Inv'
<1> USE DEF requireRole, ListRoleBindingsForUser, Goto, stores
<1>failed. failed' \in [Requests -> BOOLEAN]
    BY Zenon DEF Inv, Shape, TypeOK
<1>1. Shape' /\ Informed(r)'
    BY <1>failed DEF Inv, Shape, TypeOK, Stages, Informed
<1>2. Placed(r)'
    BY DEF Inv, Shape, TypeOK, Placed, Granted
<1> QED
    BY <1>1, <1>2, EarlyInv DEF Early, OnlyMoves, Inv, Shape, TypeOK

\* A key on record sends its request to the audit log, past the machine.
LEMMA GetByIdempotencyKeyInv ==
    ASSUME Inv, NEW r \in Requests, GetByIdempotencyKey(r)
    PROVE  Inv'
<1> USE DEF GetByIdempotencyKey, Goto, stores
<1>1. Shape' /\ Informed(r)' /\ Placed(r)'
    BY DEF Inv, Shape, TypeOK, Stages, Informed, Placed, Granted
<1> QED
    BY <1>1, EarlyInv DEF Early, OnlyMoves, Inv, Shape, TypeOK

\* A new record belongs to the request that made it, before anything is done.
LEMMA beginOperationInv ==
    ASSUME Inv, NEW r \in Requests, beginOperation(r)
    PROVE  Inv'
<1> DEFINE key == req[r].key
<1> USE DEF beginOperation, GetMachine, Recorded, NewOperation, Goto
<1>key. key \in Keys
    BY AskedFacts DEF Inv, Shape
<1>ops. /\ DOMAIN operations' \subseteq Keys
        /\ operations' \in [DOMAIN operations' ->
                [by : Requests, status : {"RUNNING", "SUCCEEDED", "FAILED"}]]
    BY <1>key DEF Inv, Shape, TypeOK
<1>shape. Shape' /\ Informed(r)' /\ Placed(r)'
    BY <1>ops, ZenonT(60) DEF Inv, Shape, TypeOK, Stages, Informed, Placed
<1>refused. CASE ~(req[r].machine \in Machines /\ key \notin DOMAIN operations)
    BY <1>refused, <1>shape, EarlyInv DEF Early, OnlyMoves, Inv, Shape, TypeOK
<1>begun. CASE req[r].machine \in Machines /\ key \notin DOMAIN operations
    <2>new. /\ operations'[key] = [by |-> r, status |-> "RUNNING"]
            /\ DOMAIN operations' = DOMAIN operations \cup {key}
            /\ \A k \in DOMAIN operations : operations'[k] = operations[k]
            /\ pc' = [pc EXCEPT ![r] = "prepare"] /\ failed' = failed
        BY <1>begun
    <2>facts. acts[key] = 0 /\ Granted(r) /\ req[r].op # "health"
        BY <1>begun, <1>key DEF Inv, Recordings, Placed
    <2>informed. \A q \in Requests : Informed(q)'
        BY DEF Inv, Informed
    <2>placed. \A q \in Requests : Placed(q)'
        BY <2>new, <1>shape DEF Inv, Shape, TypeOK, Placed, Granted
    <2>owning. \A q \in Requests : Owning(q)'
        BY <2>new, <2>facts DEF Inv, Shape, TypeOK, Owning, Working
    <2>recordings. Recordings'
        <3> SUFFICES ASSUME NEW k \in Keys
                     PROVE  (IF k \in DOMAIN operations THEN Kept(k) ELSE acts[k] = 0)'
            BY DEF Recordings
        <3>1. CASE k = key
            BY <3>1, <2>new, <2>facts, <1>begun DEF Inv, Shape, TypeOK, Kept, Granted, Working
        <3>2. CASE k # key /\ k \in DOMAIN operations
            <4>1. Kept(k) /\ operations[k].by \in Requests
                BY <3>2 DEF Inv, Recordings, Shape, TypeOK
            <4>2. operations[k].by # r
                BY <4>1 DEF Kept, Working
            <4> QED
                BY <4>1, <4>2, <3>2, <2>new DEF Inv, Shape, TypeOK, Kept, Granted, Working
        <3>3. CASE k # key /\ k \notin DOMAIN operations
            BY <3>3, <2>new DEF Inv, Recordings
        <3> QED
            BY <3>1, <3>2, <3>3
    <2>rest. (Credentials /\ OwnCredentials)'
        BY <2>new DEF Inv, Shape, TypeOK, Credentials, OwnCredentials, Via
    <2> QED
        BY <1>shape, <2>informed, <2>placed, <2>owning, <2>recordings, <2>rest DEF Inv
<1> QED
    BY <1>refused, <1>begun

\* A request that works on its machine moves on and leaves the records alone: to
\* its machine, with the credentials in place, or to the end with an error.
LEMMA PrepareInv ==
    ASSUME Inv, NEW r \in Requests, NEW l, Shape', pc[r] = "prepare", OnlyMoves(r, l),
           UNCHANGED <<operations, audit, acts, scope, seen, used>>, hit \subseteq hit',
           l = "act" => req[r].machine \in Machines,
           l = "finish" => req[r].op # "health" /\ failed'[r],
           l \in {"act", "finish"} \/ (l = "ended" /\ req[r].op = "health"),
           Credentials'
    PROVE  Inv'
<1> USE DEF OnlyMoves
<1>informed. \A q \in Requests : Informed(q)'
    BY DEF Inv, Informed
<1>placed. \A q \in Requests : Placed(q)'
    BY DEF Inv, Shape, TypeOK, Placed, Granted
<1>owning. \A q \in Requests : Owning(q)'
    BY DEF Inv, Shape, TypeOK, Owning, Working
<1>recordings. Recordings'
    BY DEF Inv, Shape, TypeOK, Recordings, Kept, Granted, Working
<1>rest. OwnCredentials'
    BY DEF Inv, OwnCredentials
<1> QED
    BY <1>informed, <1>placed, <1>owning, <1>recordings, <1>rest DEF Inv

\* Registering a cluster's talosconfig keeps endpoints and clusters in step.
LEMMA ensureTalosCredentialsInv ==
    ASSUME Inv, NEW r \in Requests, ensureTalosCredentials(r)
    PROVE  Inv'
<1> DEFINE m == req[r].machine
           own == m \in Machines /\ ClusterOf[m] \in OwnConfig
<1> USE DEF ensureTalosCredentials, GetMachine, GiveUp, Goto
<1>here. /\ pc[r] = "prepare"
         /\ UNCHANGED <<users, bindings, operations, audit, acts, req, scope, seen, used,
                         hit, faults, edits>>
    OBVIOUS
<1>gives. CASE m \notin Machines \/ (own /\ ~GetSecret(ClusterOf[m]))
    <2>1. /\ pc' = [pc EXCEPT ![r] = IF req[r].op = "health" THEN "ended" ELSE "finish"]
          /\ failed' = [failed EXCEPT ![r] = TRUE] /\ byEndpoint' = byEndpoint
        BY <1>gives
    <2>2. Shape' /\ Credentials'
        BY <2>1, <1>here DEF Inv, Shape, TypeOK, Stages, Credentials, Via
    <2> HIDE DEF ensureTalosCredentials
    <2> QED
        BY <2>1, <2>2, <1>here, PrepareInv, ZenonT(60) DEF OnlyMoves, Inv, Shape, TypeOK
<1>default. CASE m \in Machines /\ ~own
    <2>1. pc' = [pc EXCEPT ![r] = "act"] /\ failed' = failed /\ byEndpoint' = byEndpoint
        BY <1>default
    <2>2. Shape' /\ Credentials'
        BY <2>1, <1>default, <1>here DEF Inv, Shape, TypeOK, Stages, Credentials, Via
    <2> HIDE DEF ensureTalosCredentials
    <2> QED
        BY <2>1, <2>2, <1>default, <1>here, PrepareInv DEF OnlyMoves, Inv, Shape, TypeOK
<1>registers. CASE own /\ GetSecret(ClusterOf[m])
    <2>1. /\ pc' = [pc EXCEPT ![r] = "act"] /\ failed' = failed
          /\ byEndpoint' = [byEndpoint EXCEPT ![Endpoint[m]] = ClusterOf[m]]
        BY <1>registers DEF EnsureCredentials
    <2>2. Shape'
        BY <2>1, <1>registers, <1>here DEF Inv, Shape, TypeOK, Stages
    <2>3. Credentials'
        BY <2>1, <1>registers, <1>here, MachineAssumption
        DEF Inv, Shape, TypeOK, Credentials, EndpointsApart, Via
    <2> HIDE DEF ensureTalosCredentials
    <2> QED
        BY <2>1, <2>2, <2>3, <1>registers, <1>here, PrepareInv DEF OnlyMoves, Inv, Shape, TypeOK
<1> QED
    BY <1>gives, <1>default, <1>registers

\* Choosing a provider leaves the record RUNNING, with or without an error.
LEMMA ForInv ==
    ASSUME Inv, NEW r \in Requests, For(r)
    PROVE  Inv'
<1> USE DEF For, GiveUp, Goto, stores
<1>shape. Shape'
    BY ZenonT(60) DEF Inv, Shape, TypeOK, Stages
<1>1. Credentials'
    BY DEF Inv, Shape, TypeOK, Credentials, Via
<1>2. req[r].op # "health"
    BY DEF Via, Route
<1>3. req[r].key \in DOMAIN operations /\ operations[req[r].key].by = r
    <2>1. Owning(r) /\ pc[r] = "prepare"
        BY DEF Inv
    <2> QED
        BY <2>1, <1>2 DEF Owning, Working
<1>4. Kept(req[r].key)
    BY <1>3, AskedFacts DEF Inv, Shape, Recordings
<1>5. req[r].machine \in Machines
    BY <1>3, <1>4 DEF Kept
<1> QED
    BY <1>shape, <1>1, <1>2, <1>5, PrepareInv DEF OnlyMoves, Inv, Shape, TypeOK

\* The machine is called at most once, by the owner of the record.
LEMMA runOperationInv ==
    ASSUME Inv, NEW r \in Requests, runOperation(r)
    PROVE  Inv'
<1> DEFINE key == req[r].key
           m == req[r].machine
<1>facts. key \in Keys /\ m \in Machines /\ pc[r] = "act" /\ Owning(r)
    BY AskedFacts DEF Inv, Shape, Placed, runOperation
<1>result. PICK result \in Attempt(r) :
            /\ failed' = [failed EXCEPT ![r] = ~result.ok]
            /\ acts' = [acts EXCEPT ![key] = IF result.done THEN @ + 1 ELSE @]
    BY DEF runOperation
<1>changes.
    /\ pc' = [pc EXCEPT ![r] = IF req[r].op = "health" THEN "ended" ELSE "finish"]
    /\ used' = IF Via(r) = "talos" THEN [used EXCEPT ![r] = configFor(Endpoint[m])] ELSE used
    /\ UNCHANGED <<users, bindings, operations, audit, byEndpoint, req, scope, seen, hit>>
    BY DEF runOperation, Goto
<1>acts. \/ acts' = acts /\ req[r].op = "health"
         \/ acts' = acts /\ failed' = [failed EXCEPT ![r] = TRUE]
         \/ acts' = [acts EXCEPT ![key] = @ + 1] /\ req[r].op # "health"
    <2>1. CASE result = [done |-> FALSE, ok |-> FALSE]
        BY <2>1, <1>result, <1>facts DEF Inv, Shape, TypeOK
    <2>2. CASE req[r].op = "health" /\ result = [done |-> FALSE, ok |-> TRUE]
        BY <2>2, <1>result, <1>facts DEF Inv, Shape, TypeOK
    <2>3. CASE req[r].op # "health" /\ result = [done |-> TRUE, ok |-> TRUE]
        BY <2>3, <1>result, <1>facts DEF Inv, Shape, TypeOK
    <2>4. CASE req[r].op # "health" /\ result = [done |-> TRUE, ok |-> FALSE]
        BY <2>4, <1>result, <1>facts DEF Inv, Shape, TypeOK
    <2> QED
        BY <2>1, <2>2, <2>3, <2>4, <1>result, AttemptFacts
<1>failed. failed' \in [Requests -> BOOLEAN] /\ \A q \in Requests \ {r} : failed'[q] = failed[q]
    BY <1>result, AttemptFacts DEF Inv, Shape, TypeOK
<1>config. Via(r) = "talos" =>
        /\ configFor(Endpoint[m]) \in OwnConfig \cup {"none", "default"}
        /\ configFor(Endpoint[m]) # "none" =>
             configFor(Endpoint[m]) = IF ClusterOf[m] \in OwnConfig THEN ClusterOf[m] ELSE "default"
    BY <1>facts, ConfigFacts DEF Inv, Shape, Credentials
<1>shape. Shape'
    BY <1>acts, <1>failed, <1>changes, <1>config, <1>facts DEF Inv, Shape, TypeOK, Stages
<1>informed. \A q \in Requests : Informed(q)'
    BY <1>changes DEF Inv, Informed
<1>placed. \A q \in Requests : Placed(q)'
    BY <1>changes DEF Inv, Shape, TypeOK, Placed, Granted
<1>mine. req[r].op # "health" =>
            /\ key \in DOMAIN operations /\ operations[key] = [by |-> r, status |-> "RUNNING"]
            /\ acts[key] = 0
    BY <1>facts DEF Owning, Working
<1>owning. \A q \in Requests : Owning(q)'
    <2> SUFFICES ASSUME NEW q \in Requests PROVE Owning(q)'
        OBVIOUS
    <2>1. Owning(q) /\ req[q].key \in Keys
        BY AskedFacts DEF Inv, Shape
    <2>2. CASE q = r
        BY <2>2, <1>mine, <1>acts, <1>changes, <1>failed, <1>facts
        DEF Inv, Shape, TypeOK, Owning, Working
    <2>3. CASE q # r
        BY <2>1, <2>3, <1>mine, <1>acts, <1>changes, <1>failed, <1>facts
        DEF Inv, Shape, TypeOK, Owning, Working
    <2> QED
        BY <2>2, <2>3
<1>recordings. Recordings'
    <2> SUFFICES ASSUME NEW k \in Keys
                 PROVE  (IF k \in DOMAIN operations THEN Kept(k) ELSE acts[k] = 0)'
        BY DEF Recordings
    <2>1. IF k \in DOMAIN operations THEN Kept(k) ELSE acts[k] = 0
        BY DEF Inv, Recordings
    <2>2. k \notin DOMAIN operations => acts'[k] = 0
        BY <2>1, <1>acts, <1>mine, <1>facts DEF Inv, Shape, TypeOK
    <2>3. CASE k \in DOMAIN operations /\ operations[k].by = r
        <3>1. k = key /\ req[r].op # "health"
            BY <2>1, <2>3 DEF Kept
        <3> QED
            BY <2>1, <2>3, <3>1, <1>mine, <1>acts, <1>changes, <1>facts
            DEF Inv, Shape, TypeOK, Kept, Granted, Working
    <2>4. CASE k \in DOMAIN operations /\ operations[k].by # r
        <3>1. acts'[k] = acts[k] /\ operations[k].by \in Requests
            BY <2>4, <1>acts, <1>mine, <1>facts DEF Inv, Shape, TypeOK
        <3> QED
            BY <2>1, <2>4, <3>1, <1>changes, <1>failed DEF Inv, Shape, TypeOK, Kept, Granted, Working
    <2> QED
        BY <2>2, <2>3, <2>4, <1>changes
<1>creds. Credentials'
    BY <1>changes DEF Inv, Shape, TypeOK, Credentials, Via
<1>own. OwnCredentials'
    BY <1>changes, <1>config DEF Inv, Shape, TypeOK, OwnCredentials
<1> QED
    BY <1>shape, <1>informed, <1>placed, <1>owning, <1>recordings, <1>creds, <1>own DEF Inv

\* The owner settles its own record with what its call came to.
LEMMA finishOperationInv ==
    ASSUME Inv, NEW r \in Requests, finishOperation(r)
    PROVE  Inv'
<1> DEFINE key == req[r].key
<1>facts. /\ key \in Keys /\ pc[r] = "finish" /\ req[r].op # "health"
          /\ key \in DOMAIN operations /\ operations[key] = [by |-> r, status |-> "RUNNING"]
          /\ ~failed[r] => acts[key] = 1
    <2>1. Owning(r) /\ Placed(r) /\ key \in Keys /\ pc[r] = "finish"
        BY AskedFacts DEF Inv, Shape, finishOperation
    <2> QED
        BY <2>1 DEF Owning, Placed, Working
<1>changes.
    /\ operations' = [operations EXCEPT ![key].status = Outcome(r)]
    /\ pc' = [pc EXCEPT ![r] = "audit"]
    /\ UNCHANGED <<users, bindings, audit, byEndpoint, acts, req, scope, seen, failed, used, hit>>
    BY DEF finishOperation, UpdateOperation, Goto
<1>outcome. Outcome(r) = IF failed[r] THEN "FAILED" ELSE "SUCCEEDED"
    BY DEF Outcome
<1>ops. /\ DOMAIN operations' = DOMAIN operations
        /\ operations'[key] = [by |-> r, status |-> Outcome(r)]
        /\ \A k \in DOMAIN operations \ {key} : operations'[k] = operations[k]
    BY <1>facts, <1>changes DEF Inv, Shape, TypeOK
<1>shape. Shape'
    BY <1>facts, <1>changes, <1>outcome DEF Inv, Shape, TypeOK, Stages
<1>informed. \A q \in Requests : Informed(q)'
    BY <1>changes DEF Inv, Informed
<1>placed. \A q \in Requests : Placed(q)'
    BY <1>changes DEF Inv, Shape, TypeOK, Placed, Granted
<1>owning. \A q \in Requests : Owning(q)'
    <2> SUFFICES ASSUME NEW q \in Requests, q # r PROVE Owning(q)'
        BY <1>changes DEF Inv, Shape, TypeOK, Owning, Working
    <2>1. Owning(q)
        BY DEF Inv
    <2> QED
        BY <2>1, <1>ops, <1>changes, <1>facts DEF Inv, Shape, TypeOK, Owning, Working
<1>recordings. Recordings'
    <2> SUFFICES ASSUME NEW k \in Keys, k \in DOMAIN operations PROVE Kept(k)'
        BY <1>ops, <1>changes DEF Inv, Recordings
    <2>1. Kept(k) /\ operations[k].by \in Requests
        BY DEF Inv, Recordings, Shape, TypeOK
    <2>2. CASE k = key
        BY <2>1, <2>2, <1>ops, <1>changes, <1>outcome, <1>facts
        DEF Inv, Shape, TypeOK, Kept, Granted, Working
    <2>3. CASE k # key
        <3>1. operations[k].by # r
            BY <2>1, <2>3 DEF Kept
        <3> QED
            BY <2>1, <2>3, <3>1, <1>ops, <1>changes DEF Inv, Shape, TypeOK, Kept, Granted, Working
    <2> QED
        BY <2>2, <2>3
<1>rest. (Credentials /\ OwnCredentials)'
    BY <1>changes DEF Inv, Shape, TypeOK, Credentials, OwnCredentials, Via
<1> QED
    BY <1>shape, <1>informed, <1>placed, <1>owning, <1>recordings, <1>rest DEF Inv

\* The audit entry says what the record says.
LEMMA recordAuditInv ==
    ASSUME Inv, NEW r \in Requests, recordAudit(r)
    PROVE  Inv'
<1>changes.
    /\ pc[r] = "audit" /\ pc' = [pc EXCEPT ![r] = "ended"]
    /\ UNCHANGED <<users, bindings, operations, byEndpoint, acts, req, scope, seen, failed, used, hit>>
    BY DEF recordAudit, Goto
<1>audit. /\ audit' \subseteq Requests \X {"SUCCESS", "FAILURE", "DENIED"}
          /\ audit \subseteq audit'
    BY DEF recordAudit, RecordLog, Inv, Shape, TypeOK
<1>shape. Shape'
    BY <1>changes, <1>audit DEF Inv, Shape, TypeOK, Stages
<1>informed. \A q \in Requests : Informed(q)'
    BY <1>changes DEF Inv, Informed
<1>placed. \A q \in Requests : Placed(q)'
    BY <1>changes DEF Inv, Shape, TypeOK, Placed, Granted
<1>owning. \A q \in Requests : Owning(q)'
    BY <1>changes DEF Inv, Shape, TypeOK, Owning, Working
<1>recordings. Recordings'
    <2> SUFFICES ASSUME NEW k \in Keys, k \in DOMAIN operations PROVE Kept(k)'
        BY <1>changes DEF Inv, Recordings
    <2>1. Kept(k) /\ operations[k].by \in Requests
        BY DEF Inv, Recordings, Shape, TypeOK
    <2>2. CASE operations[k].by = r
        <3>1. Granted(r)
            BY <2>1, <2>2 DEF Kept
        <3>2. <<r, IF failed[r] THEN "FAILURE" ELSE "SUCCESS">> \in audit'
            BY <3>1 DEF recordAudit, RecordLog, Granted
        <3>3. r \notin hit => operations[k].status \in {"SUCCEEDED", "FAILED"}
            BY <2>1, <2>2, <1>changes DEF Kept, Working, Inv, Shape, TypeOK
        <3> QED
            BY <2>1, <2>2, <3>2, <3>3, <1>changes DEF Inv, Shape, TypeOK, Kept, Granted, Working
    <2>3. CASE operations[k].by # r
        BY <2>1, <2>3, <1>audit, <1>changes DEF Inv, Shape, TypeOK, Kept, Granted, Working
    <2> QED
        BY <2>2, <2>3
<1>rest. (Credentials /\ OwnCredentials)'
    BY <1>changes DEF Inv, Shape, TypeOK, Credentials, OwnCredentials, Via
<1> QED
    BY <1>shape, <1>informed, <1>placed, <1>owning, <1>recordings, <1>rest DEF Inv

\* A call that returns an error leaves nothing behind that is untrue.
LEMMA CallFailsInv ==
    ASSUME Inv, NEW r \in Requests, CallFails(r)
    PROVE  Inv'
<1> USE DEF CallFails, Fault, GiveUp, Goto, stores
<1>hit. hit' = hit \cup {r}
    OBVIOUS
<1>shape. Shape'
    BY ZenonT(60) DEF Inv, Shape, TypeOK, Stages
<1>early. CASE pc[r] \in Early
    <2>1. Informed(r)' /\ Placed(r)'
        BY <1>early DEF Inv, Shape, TypeOK, Informed, Placed, Early
    <2> QED
        BY <1>early, <1>shape, <2>1, EarlyInv DEF Early, OnlyMoves, Inv, Shape, TypeOK
<1>prepare. CASE pc[r] = "prepare"
    <2>1. Credentials'
        BY <1>prepare DEF Inv, Shape, TypeOK, Credentials, Via
    <2> QED
        BY <1>prepare, <1>shape, <2>1, PrepareInv DEF OnlyMoves, Inv, Shape, TypeOK
<1>late. CASE pc[r] \in {"finish", "audit"}
    <2>changes.
        /\ \E l \in {"audit", "ended"} : pc' = [pc EXCEPT ![r] = l]
        /\ \A q \in Requests \ {r} : failed'[q] = failed[q]
        /\ UNCHANGED <<operations, audit, acts, byEndpoint, req, scope, seen, used>>
        BY <1>late DEF Inv, Shape, TypeOK
    <2>informed. \A q \in Requests : Informed(q)'
        BY <2>changes DEF Inv, Informed
    <2>placed. \A q \in Requests : Placed(q)'
        BY <2>changes DEF Inv, Shape, TypeOK, Placed, Granted
    <2>owning. \A q \in Requests : Owning(q)'
        BY <2>changes DEF Inv, Shape, TypeOK, Owning, Working
    <2>recordings. Recordings'
        BY <2>changes, <1>hit DEF Inv, Shape, TypeOK, Recordings, Kept, Granted, Working
    <2>rest. (Credentials /\ OwnCredentials)'
        BY <2>changes DEF Inv, Shape, TypeOK, Credentials, OwnCredentials, Via
    <2> QED
        BY <1>shape, <2>informed, <2>placed, <2>owning, <2>recordings, <2>rest DEF Inv
<1> QED
    BY <1>early, <1>prepare, <1>late DEF Early

\* Requests that end with a fault, in flight or while calling their machine,
\* where the call may have had its effect.
LEMMA LostInv ==
    ASSUME Inv, NEW R \in SUBSET Requests, Lost(R), hit' = hit \cup R, R \subseteq InFlight,
           pc' = [r \in Requests |-> IF r \in R THEN "ended" ELSE pc[r]],
           UNCHANGED <<users, operations, audit, req, scope, seen, failed, used>>,
           byEndpoint' \in [DOMAIN byEndpoint -> OwnConfig \cup {"none"}], Credentials'
    PROVE  Inv'
<1>late. PICK late \in SUBSET {r \in R : pc[r] = "act" /\ req[r].op # "health"} :
            acts' = [k \in Keys |-> acts[k] + Cardinality({r \in late : req[r].key = k})]
    BY DEF Lost
<1>owner. ASSUME NEW r \in late
          PROVE  /\ r \in R /\ r \in Requests /\ req[r].key \in Keys /\ req[r].op # "health"
                 /\ req[r].key \in DOMAIN operations /\ operations[req[r].key].by = r
                 /\ acts[req[r].key] = 0
    <2>1. Owning(r) /\ pc[r] = "act" /\ req[r].op # "health" /\ r \in R /\ req[r].key \in Keys
        BY <1>late, AskedFacts DEF Inv, Shape
    <2> QED
        BY <2>1 DEF Owning, Working
<1>acts. ASSUME NEW k \in Keys
         PROVE  \/ acts'[k] = acts[k]
                \/ /\ k \in DOMAIN operations /\ operations[k].by \in R
                   /\ acts[k] = 0 /\ acts'[k] = 1
    <2> DEFINE mine == {r \in late : req[r].key = k}
    <2>1. acts'[k] = acts[k] + Cardinality(mine) /\ acts[k] \in Nat
        BY <1>late DEF Inv, Shape, TypeOK
    <2>2. CASE mine = {}
        <3>1. Cardinality(mine) = 0
            BY <2>2, FS_EmptySet
        <3> HIDE DEF mine
        <3> QED
            BY <2>1, <3>1
    <2>3. CASE mine # {}
        <3>1. PICK r \in late : req[r].key = k
            BY <2>3
        <3>2. mine = {r}
            BY <3>1, <1>owner
        <3>3. Cardinality(mine) = 1
            BY <3>2, FS_Singleton
        <3> QED
            BY <2>1, <3>1, <3>3, <1>owner
    <2> QED
        BY <2>2, <2>3
<1>nat. acts' \in [Keys -> Nat]
    BY <1>acts, <1>late DEF Inv, Shape, TypeOK
<1>shape. Shape'
    BY <1>nat DEF Inv, Shape, TypeOK, Stages
<1>informed. \A q \in Requests : Informed(q)'
    BY DEF Inv, Informed
<1>placed. \A q \in Requests : Placed(q)'
    BY DEF Inv, Shape, TypeOK, Placed, Granted
<1>owning. \A q \in Requests : Owning(q)'
    <2> SUFFICES ASSUME NEW q \in Requests, q \notin R PROVE Owning(q)'
        BY DEF Owning, Working
    <2>1. Owning(q) /\ req[q].key \in Keys
        BY AskedFacts DEF Inv, Shape
    <2> QED
        BY <2>1, <1>acts DEF Inv, Shape, TypeOK, Owning, Working
<1>recordings. Recordings'
    <2> SUFFICES ASSUME NEW k \in Keys
                 PROVE  (IF k \in DOMAIN operations THEN Kept(k) ELSE acts[k] = 0)'
        BY DEF Recordings
    <2>1. IF k \in DOMAIN operations THEN Kept(k) /\ operations[k].by \in Requests ELSE acts[k] = 0
        BY DEF Inv, Recordings, Shape, TypeOK
    <2> QED
        BY <2>1, <1>acts DEF Inv, Shape, TypeOK, Kept, Granted, Working
<1> QED
    BY <1>shape, <1>informed, <1>placed, <1>owning, <1>recordings DEF Inv, OwnCredentials

\* A client that hangs up ends one request.
LEMMA HangUpInv ==
    ASSUME Inv, NEW r \in Requests, HangUp(r)
    PROVE  Inv'
<1> USE DEF HangUp, Fault, Goto
<1>1. Credentials' /\ byEndpoint' \in [DOMAIN byEndpoint -> OwnConfig \cup {"none"}]
    BY DEF Inv, Shape, TypeOK, Credentials, Via
<1>2. pc' = [q \in Requests |-> IF q \in {r} THEN "ended" ELSE pc[q]]
    BY DEF Inv, Shape, TypeOK
<1> QED
    BY <1>1, <1>2, LostInv

\* A crash ends every request in flight and forgets the registered credentials.
LEMMA CrashInv ==
    ASSUME Inv, Crash
    PROVE  Inv'
<1> USE DEF Crash, Fault
<1>1. byEndpoint' \in [DOMAIN byEndpoint -> OwnConfig \cup {"none"}]
    BY DEF Inv, Shape, TypeOK
<1>2. Credentials'
    BY DEF Inv, Shape, TypeOK, Credentials, InFlight, Via
<1> QED
    BY <1>1, <1>2, LostInv DEF InFlight

\* Changes of users and bindings, and steps of nobody, leave every request alone.
LEMMA EditsInv ==
    ASSUME Inv, Edits \/ UNCHANGED vars
    PROVE  Inv'
<1>1. /\ UNCHANGED <<operations, audit, byEndpoint, acts, req, pc, scope, seen, failed, used, hit>>
      /\ users' \in [Users -> {"absent", "active", "disabled"}]
    BY DEF Edits, CreateRoleBinding, DeleteRoleBinding, UpdateUser, requestVars, vars,
           Inv, Shape, TypeOK
<1>2. Shape' /\ (\A q \in Requests : Informed(q) /\ Placed(q) /\ Owning(q))'
    BY <1>1 DEF Inv, Shape, TypeOK, Informed, Placed, Owning, Working, Granted
<1>3. (Recordings /\ Credentials /\ OwnCredentials)'
    BY <1>1 DEF Inv, Recordings, Kept, Granted, Working, Credentials, OwnCredentials, Via
<1> QED
    BY <1>2, <1>3 DEF Inv

-----------------------------------------------------------------------------
(* The theorems. *)

\* Every step of the specification keeps the invariant.
LEMMA NextInv == Inv /\ [Next]_vars => Inv'
<1> SUFFICES ASSUME Inv, [Next]_vars PROVE Inv'
    OBVIOUS
<1>request. ASSUME NEW r \in Requests, Arrive(r) \/ Handle(r) \/ CallFails(r) \/ HangUp(r)
            PROVE  Inv'
    BY <1>request, ArriveInv, GetBySubjectInv, CreateUserInv, machineClusterScopeInv,
       requireRoleInv, GetByIdempotencyKeyInv, beginOperationInv, ensureTalosCredentialsInv,
       ForInv, runOperationInv, finishOperationInv, recordAuditInv, CallFailsInv, HangUpInv
    DEF Handle
<1>others. ASSUME Crash \/ Edits \/ UNCHANGED vars
           PROVE  Inv'
    BY <1>others, CrashInv, EditsInv
<1> QED
    BY <1>request, <1>others DEF Next

\* The invariant holds in every reachable state.
THEOREM Invariance == Spec => []Inv
BY InitInv, NextInv, PTL DEF Spec

\* No step, failed call or crash gives a variable a value of another kind.
THEOREM TypeCorrect == Spec => []TypeOK
<1>1. Inv => TypeOK
    BY DEF Inv, Shape
<1> QED
    BY <1>1, Invariance, PTL

\* However many requests share an idempotency key, race, fail, hang up or die with
\* the process, the operation of the key is carried out at most once.
THEOREM OnceOnly == Spec => []AtMostOnce
<1>1. ASSUME Inv PROVE AtMostOnce
    <2> SUFFICES ASSUME NEW k \in Keys PROVE acts[k] <= 1
        BY DEF AtMostOnce
    <2>1. IF k \in DOMAIN operations THEN Kept(k) ELSE acts[k] = 0
        BY <1>1 DEF Inv, Recordings
    <2>2. k \in DOMAIN operations => acts[k] <= 1
        BY <2>1 DEF Kept
    <2> QED
        BY <2>1, <2>2
<1> QED
    BY <1>1, Invariance, PTL

\* Nothing is carried out without a record, and SUCCEEDED is never a false report.
THEOREM TrueRecords == Spec => []RecordIsTrue
<1>1. ASSUME Inv PROVE RecordIsTrue
    <2> SUFFICES ASSUME NEW k \in Keys
                 PROVE  /\ acts[k] > 0 => k \in DOMAIN operations
                        /\ k \in DOMAIN operations /\ operations[k].status = "SUCCEEDED" =>
                                acts[k] = 1
        BY DEF RecordIsTrue
    <2>1. IF k \in DOMAIN operations THEN Kept(k) ELSE acts[k] = 0
        BY <1>1 DEF Inv, Recordings
    <2>2. k \in DOMAIN operations /\ operations[k].status = "SUCCEEDED" => acts[k] = 1
        BY <2>1 DEF Kept
    <2> QED
        BY <2>1, <2>2
<1> QED
    BY <1>1, Invariance, PTL

\* The scopes above a cluster are reached by its parents: a binding that the check
\* accepts is the platform's or one for a resource the cluster belongs to.
LEMMA ChainAbove ==
    ASSUME NEW c \in Resources, NEW s \in scopeChain(Scope("CLUSTER", c))
    PROVE  s = Scope("PLATFORM", "all") \/ s.id \in Above(c)
<1> DEFINE p1 == Parent[c]
           p2 == Parent[p1]
           p3 == Parent[p2]
<1>parents. p1 \in Resources /\ p2 \in Resources /\ p3 \in Resources
    BY AccessAssumption
<1>above. {c, p1, p2, p3} \subseteq Above(c)
    BY <1>parents DEF Above
<1>chain. \/ s = Scope("PLATFORM", "all") \/ s = Scope("CLUSTER", c)
          \/ s = Scope("ENVIRONMENT", p1) \/ s = Scope("PROJECT", p2)
          \/ s = Scope("ORGANIZATION", p3)
    BY DEF scopeChain, Scope
<1> QED
    BY <1>above, <1>chain DEF Scope

\* What the check grants a request is what Permitted asks of its bindings.
LEMMA GrantedMeans ==
    ASSUME Inv, NEW r \in Requests, Granted(r)
    PROVE  \E b \in seen[r] :
                /\ b.user = req[r].user
                /\ weight[b.role] >= weight[Route[req[r].op].role]
                /\ \/ b.kind = "PLATFORM"
                   \/ /\ ClusterOf[req[r].machine] # "none"
                      /\ b.id \in Above(ClusterOf[req[r].machine])
<1> DEFINE c == ClusterOf[req[r].machine]
<1>1. PICK s \in scopeChain(scope[r]), b \in seen[r] :
            /\ b.kind = s.kind
            /\ s.kind = "PLATFORM" \/ b.id = s.id
            /\ weight[b.role] >= weight[Route[req[r].op].role]
    BY DEF Granted, Authorize, Satisfies
<1>2. Informed(r)
    BY DEF Inv
<1>platform. CASE scope[r] = Scope("PLATFORM", "all")
    <2>1. s = Scope("PLATFORM", "all")
        BY <1>platform DEF scopeChain, Scope
    <2>2. s.kind = "PLATFORM"
        BY <2>1 DEF Scope
    <2> QED
        BY <1>1, <1>2, <2>2 DEF Informed
<1>cluster. CASE c # "none" /\ req[r].machine \in Machines /\ scope[r] = Scope("CLUSTER", c)
    <2>1. c \in Resources
        BY <1>cluster, MachineAssumption
    <2>2. s.kind = "PLATFORM" \/ s.id \in Above(c)
        BY <1>cluster, <2>1, ChainAbove DEF Scope
    <2> QED
        BY <1>1, <1>2, <1>cluster, <2>2 DEF Informed
<1> QED
    BY <1>2, <1>platform, <1>cluster DEF Informed

\* Nobody gets an operation carried out without the route's role on the machine's
\* cluster, what it belongs to, or the platform.
THEOREM OnlyPermitted == Spec => []Permitted
<1>1. ASSUME Inv PROVE Permitted
    <2> SUFFICES ASSUME NEW k \in Keys, acts[k] > 0
                 PROVE  LET r == operations[k].by
                            c == ClusterOf[req[r].machine]
                        IN  \E b \in seen[r] :
                                /\ b.user = req[r].user
                                /\ weight[b.role] >= weight[Route[req[r].op].role]
                                /\ b.kind = "PLATFORM" \/ (c # "none" /\ b.id \in Above(c))
        BY DEF Permitted
    <2>1. k \in DOMAIN operations /\ Kept(k)
        BY <1>1 DEF Inv, Recordings
    <2>2. operations[k].by \in Requests /\ Granted(operations[k].by)
        BY <1>1, <2>1 DEF Inv, Shape, TypeOK, Kept
    <2> QED
        BY <1>1, <2>2, GrantedMeans
<1> QED
    BY <1>1, Invariance, PTL

\* No interleaving of requests, and no restart between registering and dialling,
\* makes a Talos call use another cluster's credentials.
THEOREM RightCredentials == Spec => []OwnCredentials
<1>1. Inv => OwnCredentials
    BY DEF Inv
<1> QED
    BY <1>1, Invariance, PTL

\* A record stays RUNNING only while its request works on it, or after a fault.
THEOREM FaultsStrand == Spec => []OnlyFaultsStrand
<1>1. Inv => OnlyFaultsStrand
    BY DEF Inv, Shape, TypeOK, Recordings, Kept, Working, OnlyFaultsStrand
<1> QED
    BY <1>1, Invariance, PTL

\* A request that ended without a fault left an audit entry that agrees with the
\* record of its operation.
THEOREM AuditAgrees == Spec => []Audited
<1>1. Inv => Audited
    BY DEF Inv, Shape, TypeOK, Recordings, Kept, Audited
<1> QED
    BY <1>1, Invariance, PTL

\* No step reopens or rewrites an operation that is SUCCEEDED or FAILED.
THEOREM RecordsStay == Spec => SettledOperationsStay
<1> DEFINE Stays ==
        \A k \in DOMAIN operations :
            operations[k].status # "RUNNING" =>
                k \in DOMAIN operations' /\ operations'[k] = operations[k]
<1>step. ASSUME Inv, [Next]_vars PROVE Stays
    <2>finish. ASSUME NEW r \in Requests, finishOperation(r) PROVE Stays
        <3>1. Owning(r) /\ Placed(r)
            BY <1>step DEF Inv
        <3>2. operations[req[r].key] = [by |-> r, status |-> "RUNNING"]
            BY <2>finish, <3>1 DEF finishOperation, Owning, Placed, Working
        <3> QED
            BY <2>finish, <3>2, <1>step DEF finishOperation, UpdateOperation, Inv, Shape, TypeOK
    <2>begin. ASSUME NEW r \in Requests, beginOperation(r) PROVE Stays
        BY <2>begin DEF beginOperation, Recorded, NewOperation
    <2>others. ASSUME NEW r \in Requests,
                      \/ Arrive(r) \/ GetBySubject(r) \/ CreateUser(r) \/ machineClusterScope(r)
                      \/ requireRole(r) \/ GetByIdempotencyKey(r) \/ ensureTalosCredentials(r)
                      \/ For(r) \/ runOperation(r) \/ recordAudit(r) \/ CallFails(r) \/ HangUp(r)
               PROVE  operations' = operations
        BY <2>others DEF Arrive, GetBySubject, CreateUser, machineClusterScope, requireRole,
            GetByIdempotencyKey, ensureTalosCredentials, For, runOperation, recordAudit,
            CallFails, HangUp, stores
    <2>rest. ASSUME Crash \/ Edits \/ UNCHANGED vars PROVE operations' = operations
        BY <2>rest DEF Crash, Edits, CreateRoleBinding, DeleteRoleBinding, UpdateUser, vars
    <2> QED
        BY <1>step, <2>finish, <2>begin, <2>others, <2>rest DEF Next, Handle
<1>box. Inv /\ [Next]_vars => [Stays]_vars
    BY <1>step
<1> QED
    BY <1>box, Invariance, PTL DEF Spec, SettledOperationsStay

=============================================================================
