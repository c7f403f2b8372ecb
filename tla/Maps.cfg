CONSTANTS
    t1 = t1
    t2 = t2
    a = a
    b = b
    c = c
    none = none
    Tenants = {t1, t2}
    Namespaces = {a, b, c}
    ControlNs = none
    Scopes <- MCScopes
    Homes = {a, c}
    FirstMaps <- MCFirstMaps
    Denials <- MCDenials
    Absent = {none}
    MaxEdits = 1
    MaxFaults = 1
SPECIFICATION FairSpec
INVARIANT TypeOK
INVARIANT NoOverlap
PROPERTY ClaimsAreAtomic
PROPERTY EventuallyMapped
