SPECIFICATION Spec
CONSTANTS
    alice = alice
    bob = bob
    Principals <- MCPrincipals
    Clients <- MCClients
    Owner <- MCOwner
    NumNotes = 2
    Retention = 2
    MaxSeq = 4
    MaxTime = 4
INVARIANTS RemovalIsTrue NothingMissed
PROPERTIES SyncedIsExact
