SPECIFICATION Spec
CONSTANTS
    c1 = c1
    read = read
    write = write
    Clients <- OneClient
    Dynamic <- OneClient
    MaxDynamic = 1
    Scopes <- TwoScopes
    MaxFamilies = 1
    MaxGen = 3
    MaxRev = 2
INVARIANTS OneRefreshToken RevokedStaysRevoked ReplayIsKnown GrantsFitCeilings
