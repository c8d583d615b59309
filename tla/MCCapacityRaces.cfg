SPECIFICATION Spec
CONSTANTS
    MogakIds = {m1, m2}
    JogakIds = {j1, j2}
    Capacity = 1
    LastDay = 1
    Requests = {r1, r2}
    None = None
SYMMETRY Symmetry
INVARIANTS
    MogaksWithinLimit
    TypeOK
    ExcessIsRevived
