SPECIFICATION Spec
CONSTANTS
    Txs = {t1, t2}
    Rows <- LoginRows
    InitiallyLive <- LoginLive
    Operations <- LoginCalls
    Table <- MCTable
    Id <- MCId
    Refs <- MCRefs
    Occurrence <- MCOccurrence
    Expired <- MCExpired
    Gate <- gate
INVARIANTS
    NoDeadlock
