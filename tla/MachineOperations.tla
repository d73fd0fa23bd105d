------------------------- MODULE MachineOperations -------------------------
(***************************************************************************)
(* The path of an API request that operates on a machine: authentication   *)
(* (middleware and authservice), authorization (module Access), the        *)
(* idempotent Operation record (internal/application/machineservice), the  *)
(* Talos client's credentials or the infrastructure provider, the machine  *)
(* itself, and the audit log.                                              *)
(*                                                                         *)
(* Requests run concurrently in one API process. Every call to the database*)
(* or to a machine is a step; a call may fail, a client may hang up (which *)
(* cancels the context of every call that follows) and the process may     *)
(* crash, losing its requests and the credentials it registered.           *)
(***************************************************************************)
EXTENDS Access, FiniteSets

CONSTANTS
    Requests,     \* one per HTTP request ever made
    Asked,        \* what a request may ask: records [user, machine, op, key, body]
    Users,        \* the subjects the identity provider knows
    KnownUsers,   \* the ones with a row at the start
    Bindings,     \* the role bindings there may be
    FirstBindings,\* the ones there are at the start
    Machines,     \* the rows of table machines
    ClusterOf,    \* the cluster of a machine, "none" if it is not assigned
    Endpoint,     \* its management IP
    ProviderOf,   \* its infrastructure provider's type
    Protocol,     \* its BMC's protocol, "none" if the inventory lacks it
    OwnConfig,    \* the clusters with a TalosConfigRef
    Stored,       \* the clusters whose talosconfig, and the machines whose BMC
                  \* credentials, the secret store has
    HasDefault,   \* whether the Talos client has a default talosconfig
    Configured,   \* the provider types and BMC protocols the process is built with
    MaxFaults,    \* bound: failed calls, hang-ups and crashes
    MaxEdits      \* bound: changes of users and bindings

\* Machines of different clusters have different management addresses.
EndpointsApart ==
    \A m, n \in Machines : Endpoint[m] = Endpoint[n] => ClusterOf[m] = ClusterOf[n]

ASSUME MachineAssumption ==
    /\ EndpointsApart
    /\ "default" \notin Resources /\ "none" \notin Resources
    /\ \A m \in Machines : ClusterOf[m] \in Resources \cup {"none"}
    /\ OwnConfig \subseteq Resources /\ HasDefault \in BOOLEAN
    /\ IsFiniteSet(Requests) /\ KnownUsers \subseteq Users
    /\ \A q \in Asked : q.user \in Users
    /\ MaxFaults \in Nat /\ MaxEdits \in Nat

VARIABLES
    users,       \* table users: absent, active or disabled
    bindings,    \* table role_bindings
    operations,  \* table operations, by idempotency key
    audit,       \* table audit_logs: pairs of a request and its result
    byEndpoint,  \* the Talos client's registered credentials
    acts,        \* how often each key's operation was carried out on its machine
    req,         \* what each request asks for
    pc,          \* where it is
    scope,       \* the scope it is checked against
    seen,        \* the bindings it read
    failed,      \* whether its operation returned an error
    used,        \* the Talos credentials it dialled with
    hit,         \* the requests that met a fault
    faults,      \* faults so far
    edits        \* changes of users and bindings so far

requestVars == <<req, pc, scope, seen, failed, used>>

stores == <<users, bindings, operations, audit, byEndpoint, acts>>

vars == <<users, bindings, operations, audit, byEndpoint, acts,
          req, pc, scope, seen, failed, used, hit, faults, edits>>

Keys == {q.key : q \in Asked}

-----------------------------------------------------------------------------
(* The operations: the role a route asks for and where its call goes.      *)
(* Health reads a machine; it needs no role and records nothing.           *)

Route ==
    [reboot     |-> [role |-> "OPERATOR", via |-> "talos"],
     upgrade    |-> [role |-> "CLUSTER_ADMIN", via |-> "talos"],
     powerOn    |-> [role |-> "OPERATOR", via |-> "provider"],
     powerOff   |-> [role |-> "CLUSTER_ADMIN", via |-> "provider"],
     powerCycle |-> [role |-> "CLUSTER_ADMIN", via |-> "provider"],
     health     |-> [role |-> "none", via |-> "talos"]]

Via(r) == Route[req[r].op].via

-----------------------------------------------------------------------------
(* The repositories, the registries and the secret store. *)

GetMachine(m) == m \in Machines

GetSecret(ref) == ref \in Stored

ProviderFor(type) == type \in Configured

ListRoleBindingsForUser(u) == {b \in bindings : b.user = u}

NewUser(u) == users' = [users EXCEPT ![u] = "active"]

Recorded(k) == k \in DOMAIN operations

UpdateOperation(k, status) == operations' = [operations EXCEPT ![k].status = status]

RecordLog(r, result) == audit' = audit \cup {<<r, result>>}

EnsureCredentials(e, c) == byEndpoint' = [byEndpoint EXCEPT ![e] = c]

\* A token is valid or it is not.
Verify == BOOLEAN

-----------------------------------------------------------------------------
(* The calls to a machine. *)

\* What a call to a machine may come to: it took effect or not, and the caller
\* is told so or gets an error. An error may follow a call that took effect.
Refused == [done |-> FALSE, ok |-> FALSE]

Called == {Refused, [done |-> TRUE, ok |-> TRUE], [done |-> TRUE, ok |-> FALSE]}

configFor(e) ==
    CASE byEndpoint[e] # "none" -> byEndpoint[e]
      [] byEndpoint[e] = "none" /\ HasDefault -> "default"
      [] OTHER -> "none"

dial(m) == configFor(Endpoint[m]) # "none"

Reboot(m) == IF dial(m) THEN Called ELSE {Refused}

Upgrade(m) == IF dial(m) THEN Called ELSE {Refused}

\* The health of a machine is read, or it is not.
GetHealth(m) == {Refused} \cup (IF dial(m) THEN {[done |-> FALSE, ok |-> TRUE]} ELSE {})

resolveCredentials(m) == GetSecret(m)

Redfish(m) == IF resolveCredentials(m) THEN Called ELSE {Refused}

Ipmi(m) == IF resolveCredentials(m) THEN Called ELSE {Refused}

\* A protocol the process is built without is refused.
controllerFor(m) ==
    CASE ~ProviderFor(Protocol[m]) -> {Refused}
      [] Protocol[m] = "REDFISH" -> Redfish(m)
      [] OTHER -> Ipmi(m)

\* Bare metal asks the BMC of the machine's inventory entry.
BareMetal(m) == IF Protocol[m] = "none" THEN {Refused} ELSE controllerFor(m)

\* Proxmox answers, or the answer is lost, or it refuses.
Hypervisor == Called

Power(m) == IF ProviderOf[m] = "BARE_METAL" THEN BareMetal(m) ELSE Hypervisor

\* What the call of a request may come to.
Attempt(r) ==
    LET m == req[r].machine IN
    CASE req[r].op = "reboot" -> Reboot(m)
      [] req[r].op = "upgrade" -> Upgrade(m)
      [] req[r].op = "health" -> GetHealth(m)
      [] OTHER -> Power(m)

-----------------------------------------------------------------------------

Init ==
    /\ users = [u \in Users |-> IF u \in KnownUsers THEN "active" ELSE "absent"]
    /\ bindings = FirstBindings
    /\ operations = [k \in {} |-> <<>>]
    /\ audit = {}
    /\ byEndpoint = [e \in {Endpoint[m] : m \in Machines} |-> "none"]
    /\ acts = [k \in Keys |-> 0]
    /\ req \in [Requests -> Asked]
    /\ pc = [r \in Requests |-> "idle"]
    /\ scope = [r \in Requests |-> Scope("PLATFORM", "all")]
    /\ seen = [r \in Requests |-> {}]
    /\ failed = [r \in Requests |-> FALSE]
    /\ used = [r \in Requests |-> "none"]
    /\ hit = {} /\ faults = 0 /\ edits = 0

Goto(r, l) == pc' = [pc EXCEPT ![r] = l]

\* A request without a valid token is turned away.
Arrive(r) ==
    /\ pc[r] = "idle"
    /\ \E verified \in Verify : Goto(r, IF verified THEN "user" ELSE "ended")
    /\ UNCHANGED <<stores, req, scope, seen, failed, used, hit, faults, edits>>

-----------------------------------------------------------------------------
(* Authentication and authorization. *)

\* An authenticated request to a route without a role goes to its machine.
Authenticated(r) == Goto(r, IF req[r].op = "health" THEN "prepare" ELSE "scope")

GetBySubject(r) ==
    /\ pc[r] = "user"
    /\ \/ users[req[r].user] = "active" /\ Authenticated(r)
       \/ users[req[r].user] = "disabled" /\ Goto(r, "ended")
       \/ users[req[r].user] = "absent" /\ Goto(r, "newUser")
    /\ UNCHANGED <<stores, req, scope, seen, failed, used, hit, faults, edits>>

\* A first login creates the user; of two at once, one meets the unique subject.
CreateUser(r) ==
    /\ pc[r] = "newUser"
    /\ IF users[req[r].user] = "absent"
       THEN Authenticated(r) /\ NewUser(req[r].user)
       ELSE Goto(r, "ended") /\ UNCHANGED users
    /\ UNCHANGED <<bindings, operations, audit, byEndpoint, acts,
                   req, scope, seen, failed, used, hit, faults, edits>>

\* Unknown and unassigned machines are the platform's.
machineClusterScope(r) ==
    LET m == req[r].machine IN
    /\ pc[r] = "scope"
    /\ scope' = [scope EXCEPT ![r] =
            IF GetMachine(m) /\ ClusterOf[m] # "none" THEN Scope("CLUSTER", ClusterOf[m])
            ELSE Scope("PLATFORM", "all")]
    /\ Goto(r, "authorize")
    /\ UNCHANGED <<stores, req, seen, failed, used, hit, faults, edits>>

\* A refusal is audited; an upgrade whose body does not decode is not.
requireRole(r) ==
    LET mine == ListRoleBindingsForUser(req[r].user)
        granted == Authorize(mine, scope[r], Route[req[r].op].role)
    IN
    /\ pc[r] = "authorize"
    /\ seen' = [seen EXCEPT ![r] = mine]
    /\ failed' = [failed EXCEPT ![r] = ~granted]
    /\ \/ ~granted /\ Goto(r, "audit")
       \/ granted /\ req[r].body = "bad" /\ Goto(r, "ended")
       \/ granted /\ req[r].body # "bad" /\ Goto(r, "find")
    /\ UNCHANGED <<stores, req, scope, used, hit, faults, edits>>

-----------------------------------------------------------------------------
(* The operation. *)

\* Mutant: an operation that failed is taken over by the next request.
GetByIdempotencyKeyRetry(r) ==
    LET k == req[r].key
        retry == k \in DOMAIN operations /\ operations[k].status = "FAILED"
    IN
    /\ pc[r] = "find"
    /\ operations' = IF retry THEN [operations EXCEPT ![k] = [by |-> r, status |-> "RUNNING"]]
                     ELSE operations
    /\ Goto(r, IF retry THEN "prepare" ELSE IF k \in DOMAIN operations THEN "audit" ELSE "record")
    /\ UNCHANGED <<users, bindings, audit, byEndpoint, acts, req, scope, seen, failed, used,
                   hit, faults, edits>>

\* A key that has an operation answers with it, whatever it is about and
\* however it stands.
GetByIdempotencyKey(r) ==
    /\ pc[r] = "find"
    /\ Goto(r, IF Recorded(req[r].key) THEN "audit" ELSE "record")
    /\ UNCHANGED <<stores, req, scope, seen, failed, used, hit, faults, edits>>

NewOperation(r) ==
    [k \in DOMAIN operations \cup {req[r].key} |->
        IF k = req[r].key THEN [by |-> r, status |-> "RUNNING"] ELSE operations[k]]

\* Mutant: a key that was taken in the meantime is no error.
beginOperationTwice(r) ==
    /\ pc[r] = "record" /\ req[r].machine \in Machines
    /\ operations' = IF req[r].key \in DOMAIN operations THEN operations ELSE NewOperation(r)
    /\ Goto(r, "prepare") /\ UNCHANGED failed
    /\ UNCHANGED <<users, bindings, audit, byEndpoint, acts, req, scope, seen, used,
                   hit, faults, edits>>

\* The operation is recorded RUNNING before it is tried. The machine must
\* exist and the key must still be free.
beginOperation(r) ==
    /\ pc[r] = "record"
    /\ IF GetMachine(req[r].machine) /\ ~Recorded(req[r].key)
       THEN operations' = NewOperation(r) /\ Goto(r, "prepare") /\ UNCHANGED failed
       ELSE /\ failed' = [failed EXCEPT ![r] = TRUE]
            /\ Goto(r, "audit") /\ UNCHANGED operations
    /\ UNCHANGED <<users, bindings, audit, byEndpoint, acts, req, scope, seen, used,
                   hit, faults, edits>>

\* An error before the machine is called: the operation is finished with it.
GiveUp(r) ==
    /\ failed' = [failed EXCEPT ![r] = TRUE]
    /\ Goto(r, IF req[r].op = "health" THEN "ended" ELSE "finish")

\* Mutant: the cluster's talosconfig is not registered.
ensureTalosCredentialsOnce(r) ==
    /\ pc[r] = "prepare" /\ Via(r) = "talos"
    /\ Goto(r, "act")
    /\ UNCHANGED <<stores, req, scope, seen, failed, used, hit, faults, edits>>

\* The cluster's own talosconfig is registered for the machine's endpoint.
ensureTalosCredentials(r) ==
    LET m == req[r].machine
        own == GetMachine(m) /\ ClusterOf[m] \in OwnConfig
    IN
    /\ pc[r] = "prepare" /\ Via(r) = "talos"
    /\ \/ /\ ~GetMachine(m) \/ (own /\ ~GetSecret(ClusterOf[m]))
          /\ GiveUp(r) /\ UNCHANGED byEndpoint
       \/ /\ GetMachine(m) /\ ~own
          /\ Goto(r, "act") /\ UNCHANGED <<byEndpoint, failed>>
       \/ /\ own /\ GetSecret(ClusterOf[m])
          /\ EnsureCredentials(Endpoint[m], ClusterOf[m])
          /\ Goto(r, "act") /\ UNCHANGED failed
    /\ UNCHANGED <<users, bindings, operations, audit, acts, req, scope, seen, used,
                   hit, faults, edits>>

\* Mutant: a provider that is not configured is waited for.
ForConfigured(r) ==
    /\ pc[r] = "prepare" /\ Via(r) = "provider"
    /\ ProviderOf[req[r].machine] \in Configured
    /\ Goto(r, "act")
    /\ UNCHANGED <<stores, req, scope, seen, failed, used, hit, faults, edits>>

\* The provider of the machine's type.
For(r) ==
    /\ pc[r] = "prepare" /\ Via(r) = "provider"
    /\ IF ProviderFor(ProviderOf[req[r].machine])
       THEN Goto(r, "act") /\ UNCHANGED failed
       ELSE GiveUp(r)
    /\ UNCHANGED <<stores, req, scope, seen, used, hit, faults, edits>>

\* The machine is called.
runOperation(r) ==
    /\ pc[r] = "act"
    /\ \E result \in Attempt(r) :
        /\ failed' = [failed EXCEPT ![r] = ~result.ok]
        /\ acts' = [acts EXCEPT ![req[r].key] = IF result.done THEN @ + 1 ELSE @]
    /\ used' = IF Via(r) = "talos"
               THEN [used EXCEPT ![r] = configFor(Endpoint[req[r].machine])]
               ELSE used
    /\ Goto(r, IF req[r].op = "health" THEN "ended" ELSE "finish")
    /\ UNCHANGED <<users, bindings, operations, audit, byEndpoint, req, scope, seen,
                   hit, faults, edits>>

\* Mutant: a success keeps the status of a request.
OutcomeRequested(r) == IF failed[r] THEN "FAILED" ELSE "REQUESTED"

Outcome(r) == IF failed[r] THEN "FAILED" ELSE "SUCCEEDED"

\* Mutant: the error of the call is dropped.
finishOperationBlind(r) ==
    /\ pc[r] = "finish"
    /\ operations' = [operations EXCEPT ![req[r].key].status = "SUCCEEDED"]
    /\ Goto(r, "audit")
    /\ UNCHANGED <<users, bindings, audit, byEndpoint, acts, req, scope, seen, failed, used,
                   hit, faults, edits>>

\* Mutant: the result is not saved.
finishOperationUnsaved(r) ==
    /\ pc[r] = "finish"
    /\ Goto(r, "audit")
    /\ UNCHANGED <<stores, req, scope, seen, failed, used, hit, faults, edits>>

finishOperation(r) ==
    /\ pc[r] = "finish"
    /\ UpdateOperation(req[r].key, Outcome(r))
    /\ Goto(r, "audit")
    /\ UNCHANGED <<users, bindings, audit, byEndpoint, acts, req, scope, seen, failed, used,
                   hit, faults, edits>>

\* Mutant: successes are not written down.
recordAuditFailures(r) ==
    /\ pc[r] = "audit"
    /\ audit' = IF failed[r] THEN audit \cup {<<r, "FAILURE">>} ELSE audit
    /\ Goto(r, "ended")
    /\ UNCHANGED <<users, bindings, operations, byEndpoint, acts, req, scope, seen, failed, used,
                   hit, faults, edits>>

\* A refusal is DENIED, and otherwise the result of the service's call.
recordAudit(r) ==
    LET denied == ~Authorize(seen[r], scope[r], Route[req[r].op].role) IN
    /\ pc[r] = "audit"
    /\ RecordLog(r, IF denied THEN "DENIED" ELSE IF failed[r] THEN "FAILURE" ELSE "SUCCESS")
    /\ Goto(r, "ended")
    /\ UNCHANGED <<users, bindings, operations, byEndpoint, acts, req, scope, seen, failed, used,
                   hit, faults, edits>>

-----------------------------------------------------------------------------
(* Faults. *)

InFlight == {r \in Requests : pc[r] \notin {"idle", "ended"}}

Fault(R) == faults < MaxFaults /\ faults' = faults + 1 /\ hit' = hit \cup R

\* A call returns an error. Without the machine's row its scope is the
\* platform; an audit entry that cannot be written is dropped.
CallFails(r) ==
    /\ Fault({r})
    /\ \/ pc[r] \in {"user", "newUser", "authorize", "audit"} /\ Goto(r, "ended") /\ UNCHANGED failed
       \/ pc[r] = "scope" /\ Goto(r, "authorize") /\ UNCHANGED failed
       \/ /\ pc[r] \in {"find", "record", "finish"} /\ Goto(r, "audit")
          /\ failed' = [failed EXCEPT ![r] = TRUE]
       \/ pc[r] = "prepare" /\ GiveUp(r)
    /\ UNCHANGED <<stores, req, scope, seen, used, edits>>

\* Requests that were calling their machine may have had their effect.
Lost(R) ==
    \E late \in SUBSET {r \in R : pc[r] = "act" /\ req[r].op # "health"} :
        acts' = [k \in Keys |-> acts[k] + Cardinality({r \in late : req[r].key = k})]

\* The client hangs up: no later call of the request succeeds.
HangUp(r) ==
    /\ r \in InFlight
    /\ Fault({r})
    /\ Lost({r})
    /\ Goto(r, "ended")
    /\ UNCHANGED <<users, bindings, operations, audit, byEndpoint, req, scope, seen, failed, used,
                   edits>>

\* The process dies with every request in it, and starts again.
Crash ==
    /\ InFlight # {}
    /\ Fault(InFlight)
    /\ Lost(InFlight)
    /\ byEndpoint' = [e \in DOMAIN byEndpoint |-> "none"]
    /\ pc' = [r \in Requests |-> IF r \in InFlight THEN "ended" ELSE pc[r]]
    /\ UNCHANGED <<users, bindings, operations, audit, req, scope, seen, failed, used, edits>>

-----------------------------------------------------------------------------
(* Users and bindings change underneath. *)

Edit == edits < MaxEdits /\ edits' = edits + 1

CreateRoleBinding(b) ==
    /\ Edit
    /\ b \notin bindings /\ users[b.user] # "absent"
    /\ bindings' = bindings \cup {b}
    /\ UNCHANGED <<users, operations, audit, byEndpoint, acts, requestVars, hit, faults>>

DeleteRoleBinding(b) ==
    /\ Edit
    /\ bindings' = bindings \ {b}
    /\ UNCHANGED <<users, operations, audit, byEndpoint, acts, requestVars, hit, faults>>

\* A user is disabled, or enabled again.
UpdateUser(u) ==
    /\ Edit
    /\ users[u] # "absent"
    /\ users' = [users EXCEPT ![u] = IF @ = "active" THEN "disabled" ELSE "active"]
    /\ UNCHANGED <<bindings, operations, audit, byEndpoint, acts, requestVars, hit, faults>>

-----------------------------------------------------------------------------

Handle(r) ==
    \/ GetBySubject(r) \/ CreateUser(r) \/ machineClusterScope(r) \/ requireRole(r)
    \/ GetByIdempotencyKey(r) \/ beginOperation(r) \/ ensureTalosCredentials(r) \/ For(r)
    \/ runOperation(r) \/ finishOperation(r) \/ recordAudit(r)

Edits ==
    \/ \E b \in Bindings : CreateRoleBinding(b)
    \/ \E b \in bindings : DeleteRoleBinding(b)
    \/ \E u \in Users : UpdateUser(u)

Next ==
    \/ \E r \in Requests : Arrive(r) \/ Handle(r) \/ CallFails(r) \/ HangUp(r)
    \/ Crash
    \/ Edits

\* A handler that has begun goes on: its calls return.
Spec == Init /\ [][Next]_vars /\ \A r \in Requests : WF_vars(Handle(r))

-----------------------------------------------------------------------------
(* Properties. *)

Stages == {"idle", "user", "newUser", "scope", "authorize", "find", "record", "prepare",
           "act", "finish", "audit", "ended"}

\* Every variable holds a value of its kind.
TypeOK ==
    /\ users \in [Users -> {"absent", "active", "disabled"}]
    /\ DOMAIN operations \subseteq Keys
    /\ operations \in [DOMAIN operations ->
            [by : Requests, status : {"RUNNING", "SUCCEEDED", "FAILED"}]]
    /\ audit \subseteq Requests \X {"SUCCESS", "FAILURE", "DENIED"}
    /\ byEndpoint \in [{Endpoint[m] : m \in Machines} -> OwnConfig \cup {"none"}]
    /\ acts \in [Keys -> Nat]
    /\ req \in [Requests -> Asked]
    /\ pc \in [Requests -> Stages]
    /\ failed \in [Requests -> BOOLEAN]
    /\ used \in [Requests -> OwnConfig \cup {"none", "default"}]
    /\ hit \subseteq Requests

\* An operation is carried out at most once per idempotency key, whatever
\* requests race, repeat, fail or are lost (machineservice, beginOperation:
\* "callers must not run fn again").
AtMostOnce == \A k \in Keys : acts[k] <= 1

\* What was carried out is on record, and what is recorded as SUCCEEDED was
\* carried out (machineservice, finishOperation).
RecordIsTrue ==
    \A k \in Keys :
        /\ acts[k] > 0 => k \in DOMAIN operations
        /\ k \in DOMAIN operations /\ operations[k].status = "SUCCEEDED" => acts[k] = 1

\* The resources a cluster belongs to, by closure under Parent.
Above(c) ==
    {x \in Resources :
        \A S \in SUBSET Resources : (c \in S /\ \A y \in S : Parent[y] \in S) => x \in S}

\* Whoever an operation was carried out for held, when it was checked, a role at
\* least the route's on the machine's cluster, on what the cluster belongs to or
\* on the platform (rbac.go, Authorize; machine_handlers.go).
Permitted ==
    \A k \in Keys : acts[k] > 0 =>
        LET r == operations[k].by
            c == ClusterOf[req[r].machine]
        IN  \E b \in seen[r] :
                /\ b.user = req[r].user
                /\ weight[b.role] >= weight[Route[req[r].op].role]
                /\ b.kind = "PLATFORM" \/ (c # "none" /\ b.id \in Above(c))

\* A Talos call uses the credentials of the machine's own cluster where the
\* cluster has some, and the default otherwise: concurrent requests for other
\* clusters do not replace them (talos/client.go, EnsureCredentials).
OwnCredentials ==
    \A r \in Requests : used[r] # "none" =>
        LET c == ClusterOf[req[r].machine]
        IN  used[r] = IF c \in OwnConfig THEN c ELSE "default"

\* An operation is left RUNNING by nothing but a fault of its request: a failed
\* update, a hang-up or a crash (machineservice, runOperation).
OnlyFaultsStrand ==
    \A k \in DOMAIN operations :
        operations[k].status = "RUNNING" =>
            \/ operations[k].by \in hit
            \/ pc[operations[k].by] \in {"prepare", "act", "finish"}

\* A request that ended after carrying out its operation left an audit entry
\* that agrees with the record, unless it met a fault (audit_write.go, "Every
\* destructive/mutating handler calls this after the action completes").
Audited ==
    \A k \in DOMAIN operations :
        LET r == operations[k].by IN
        acts[k] > 0 /\ pc[r] = "ended" /\ r \notin hit =>
            <<r, IF operations[k].status = "SUCCEEDED" THEN "SUCCESS" ELSE "FAILURE">> \in audit

\* A settled operation is never reopened or changed (operation.go, Status).
SettledOperationsStay ==
    [][\A k \in DOMAIN operations :
        operations[k].status # "RUNNING" =>
            k \in DOMAIN operations' /\ operations'[k] = operations[k]]_vars

Running(k) == k \in DOMAIN operations /\ operations[k].status = "RUNNING"

\* An operation that is RUNNING settles, unless its request meets a fault.
OperationsSettle ==
    \A k \in Keys :
        Running(k) ~> (~Running(k) \/ operations[k].by \in hit)

=============================================================================
