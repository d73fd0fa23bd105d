------------------------ MODULE MCMachineOperations ------------------------
(* A small instance of MachineOperations for TLC: two clusters of different *)
(* projects, one with its own Talos credentials, a machine in each, one     *)
(* assigned to none and one without a row.                                  *)
EXTENDS MachineOperations, TLC

SomeResources == {"c1", "c2", "e1", "e2", "p1", "p2", "o1"}

SomeParent ==
    [c1 |-> "e1", c2 |-> "e2", e1 |-> "p1", e2 |-> "p2", p1 |-> "o1", p2 |-> "o1", o1 |-> "o1"]

SomeClusterOf == [m1 |-> "c1", m2 |-> "c2", m3 |-> "none"]

SomeEndpoint == [m1 |-> "ip1", m2 |-> "ip2", m3 |-> "ip3"]

SomeProviderOf == [m1 |-> "PROXMOX", m2 |-> "BARE_METAL", m3 |-> "AWS"]

SomeProtocol == [m1 |-> "none", m2 |-> "REDFISH", m3 |-> "none"]

Binding(u, role, kind, id) == [user |-> u, role |-> role, kind |-> kind, id |-> id]

SomeBindings ==
    {Binding("ann", "PROJECT_ADMIN", "PROJECT", "p1"),
     Binding("ann", "VIEWER", "PLATFORM", "all"),
     Binding("bob", "OPERATOR", "PLATFORM", "all"),
     Binding("bob", "CLUSTER_ADMIN", "CLUSTER", "c2"),
     Binding("cat", "OPERATOR", "ORGANIZATION", "o1")}

AtFirst == {b \in SomeBindings : b.user # "cat"}

Ask(u, m, o, k, b) == [user |-> u, machine |-> m, op |-> o, key |-> k, body |-> b]

\* Keys are the client's ("k") or the route's default, one per route and machine.
SomeAsked ==
    {Ask("ann", "m1", "reboot", "k", "ok"), Ask("bob", "m1", "reboot", "k", "ok"),
     Ask("bob", "m2", "powerOff", "k", "ok"), Ask("ann", "m2", "powerCycle", "k", "ok"),
     Ask("bob", "m3", "powerOn", "on-m3", "ok"), Ask("cat", "m2", "reboot", "reboot-m2", "ok"),
     Ask("ann", "m1", "upgrade", "k", "bad"), Ask("ann", "m1", "health", "none", "ok"),
     Ask("bob", "gone", "reboot", "k", "ok")}

=============================================================================
