SPECIFICATION Spec
CONSTANTS
    Users = {u1}
    Identities <- MCOneIdentity
    SessionIds = {s1}
    Requests = {r1, r2}
    None = None
    AccessLife = 1
    RefreshLife = 2
    Tolerance = 1
    MaxTime = 2
SYMMETRY Symmetry
INVARIANTS
    RefreshTokenSingleUse
