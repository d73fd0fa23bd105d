SPECIFICATION Spec
CONSTANTS
    Requests = {r1, r2}
    Asked <- SomeAsked
    Users = {"ann", "bob", "cat"}
    KnownUsers = {"ann", "bob"}
    Bindings <- SomeBindings
    FirstBindings <- AtFirst
    Machines = {"m1", "m2", "m3"}
    ClusterOf <- SomeClusterOf
    Endpoint <- SomeEndpoint
    ProviderOf <- SomeProviderOf
    Protocol <- SomeProtocol
    OwnConfig = {"c1"}
    Stored = {"c1", "m2"}
    HasDefault = TRUE
    Configured = {"PROXMOX", "BARE_METAL", "REDFISH"}
    Resources <- SomeResources
    Parent <- SomeParent
    MaxFaults = 1
    MaxEdits = 1
CHECK_DEADLOCK FALSE
INVARIANTS
    TypeOK
    AtMostOnce
    RecordIsTrue
    Permitted
    OwnCredentials
    OnlyFaultsStrand
    Audited
PROPERTIES
    SettledOperationsStay
    OperationsSettle
