------------------------------- MODULE Access -------------------------------
(***************************************************************************)
(* Who may do what: roles, the tenancy tree and the authorization check of *)
(* internal/auth/rbac.go, as operators over a set of role bindings. A      *)
(* binding is a record [user, role, kind, id]: a role on one resource of a *)
(* kind, or on the whole platform.                                         *)
(***************************************************************************)
EXTENDS Naturals

CONSTANTS
    Resources,   \* clusters, environments, projects and organizations
    Parent       \* the resource each one belongs to; an organization is its own

ASSUME AccessAssumption == Parent \in [Resources -> Resources]

weight ==
    [VIEWER |-> 1, OPERATOR |-> 2, CLUSTER_ADMIN |-> 3, PROJECT_ADMIN |-> 4,
     ORGANIZATION_ADMIN |-> 5, PLATFORM_ADMIN |-> 6]

Satisfies(role, required) == weight[role] >= weight[required]

Scope(kind, id) == [kind |-> kind, id |-> id]

\* The scopes a check looks at: the resource, what it belongs to, the platform.
scopeChain(scope) ==
    LET up(id) == Parent[id]
        organization(id) == {Scope("ORGANIZATION", up(id))}
        project(id) == {Scope("PROJECT", up(id))} \cup organization(up(id))
        environment(id) == {Scope("ENVIRONMENT", up(id))} \cup project(up(id))
    IN  {scope, Scope("PLATFORM", "all")} \cup
        CASE scope.kind = "CLUSTER" -> environment(scope.id)
          [] scope.kind = "ENVIRONMENT" -> project(scope.id)
          [] scope.kind = "PROJECT" -> organization(scope.id)
          [] OTHER -> {}

\* Mutant: the identity of the resource a binding is for is not compared.
AuthorizeAnyId(bindings, scope, required) ==
    \E s \in scopeChain(scope), b \in bindings :
        b.kind = s.kind /\ Satisfies(b.role, required)

\* Whether one of a user's bindings grants the role on the scope or above it.
Authorize(bindings, scope, required) ==
    \E s \in scopeChain(scope), b \in bindings :
        /\ b.kind = s.kind
        /\ s.kind = "PLATFORM" \/ b.id = s.id
        /\ Satisfies(b.role, required)

=============================================================================
