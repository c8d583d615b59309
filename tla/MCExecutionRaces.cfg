SPECIFICATION FairSpec
CONSTANTS
    Jogaks = {j1}
    Dates = {d1}
    Requests = {r1, r2}
    Schedules <- MCSchedules
INVARIANTS
    TypeOK
    ConflictNeedsThreeWrites
PROPERTIES
    RequestsAreAnswered
    ImplementsRegister
    FinishedStaysFinished
