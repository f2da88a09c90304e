SPECIFICATION FairSpec
CONSTANTS
    r1 = r1
    r2 = r2
    e1 = e1
    c1 = c1
    p1 = p1
    p2 = p2
    Engrams = {e1}
    Collections = {c1}
    Projects = {p1, p2}
    Requests = {r1, r2}
    PoolSize = 2
INVARIANTS ItemsLocal SourceListsBounded
PROPERTIES DeletedEngramFrozen RequestsEnd
