SPECIFICATION Spec
CONSTANTS
    c1 = c1
    c2 = c2
    k1 = k1
    k2 = k2
    u1 = u1
    u2 = u2
    x1 = x1
    x2 = x2
    i1 = i1
    i2 = i2
    v1 = v1
    v2 = v2
    r1 = r1
    r2 = r2
    Clients = {k1, k2}
    Users = {u1, u2}
    Uris = {r1}
    Codes = {c1, c2}
    Tokens = {i1, i2}
    Verifiers = {v1, v2}
    Exchanges = {x1, x2}
    CodeTTL = 1
    MaxTime = 2
SYMMETRY OAuthSymmetry
INVARIANTS OneTokenPerCode TokenMatchesGrant GrantInv
PROPERTIES ImplementsSingleUseGrant
CHECK_DEADLOCK FALSE
