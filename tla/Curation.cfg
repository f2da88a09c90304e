SPECIFICATION Spec
CONSTANTS
    a1 = a1
    a2 = a2
    d1 = d1
    l1 = l1
    r1 = r1
    r2 = r2
    i1 = i1
    i2 = i2
    NoRequest = NoRequest
    Detected <- Pairs
    Position <- Positions
    Kind <- Kinds
    Contents <- ProjectContents
    Links = {l1}
    MaxAutoArchive = 1
    KeysLoad = 1
    MaxMissed = 2
    Requests = {r1, r2}
    PageSize = 1
    Ids = {i1, i2}
    MaxOpenings <- OpeningsBound
SYMMETRY CurationSymmetry
INVARIANTS QuietRefreshIsExact LinkSuggestionsBounded AppliedOncePerOpening RevivalsBounded HygieneRunsBounded
