SPECIFICATION Spec
CONSTANTS
    Txs = {t1, t2, t3}
    Rows <- SocialRows
    InitiallyLive <- SocialLive
    Operations <- SocialCalls
    Table <- MCTable
    Id <- MCId
    Refs <- MCRefs
    Occurrence <- MCOccurrence
    Expired <- MCExpired
    Gate <- gate
SYMMETRY Symmetry
INVARIANTS
    OnlySweepsDeadlock
    ReferencesHold
    DescentNeverWaits
