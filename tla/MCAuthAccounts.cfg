SPECIFICATION Spec
CONSTANTS
    Users = {u1, u2}
    Identities <- MCIdentities
    SessionIds = {s1, s2, s3}
    Requests = {r1, r2}
    None = None
    AccessLife = 1
    RefreshLife = 1
    Tolerance = 0
    MaxTime = 0
SYMMETRY Symmetry
INVARIANTS
    TypeOK
    OwnersExist
    OneAccountPerIdentity
    UserTokensAreOfRegisteredUsers
    LoginFailsOnlyByWithdrawal
    SuccessionIsLinear
PROPERTIES
    SessionsNeverReturn
