SPECIFICATION Spec
CONSTANTS
    c1 = c1
    read = read
    write = write
    Clients <- OneClient
    Dynamic <- NoClient
    MaxDynamic = 1
    Scopes <- OneScope
    MaxFamilies = 1
    MaxGen = 1
    MaxRev = 1
INVARIANTS CeilingCanBeLifted
