SPECIFICATION Spec
CONSTANTS
    MogakIds = {g1, g2}
    JogakIds = {j1, j2}
    Statuses = {"SUCCESS", "FAIL"}
    FirstDay = 6
    LastDay = 7
    Inputs <- MCInputs
    Views <- MCViews
    MaxExecutions = 1
    Readers = {r1}
    Writers = {w1}
    None = None
SYMMETRY Symmetry
INVARIANTS
    TypeOK
    DoneWithinPlanned
    AnswersFitTogether
    ExecutionsWereScheduled
    SchedulesReadAlike
