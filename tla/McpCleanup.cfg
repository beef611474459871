SPECIFICATION FairSpec
CONSTANTS
    c1 = c1
    read = read
    write = write
    Clients <- OneClient
    Dynamic <- OneClient
    MaxDynamic = 1
    Scopes <- OneScope
    MaxFamilies = 2
    MaxGen = 2
    MaxRev = 0
INVARIANTS GrantIsAuthorized
PROPERTIES RowsAreForgotten
