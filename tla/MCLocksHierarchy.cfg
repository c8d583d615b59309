SPECIFICATION FairSpec
CONSTANTS
    Txs = {t1, t2}
    Rows <- HierarchyRows
    InitiallyLive <- HierarchyLive
    Operations <- HierarchyCalls
    Table <- MCTable
    Id <- MCId
    Refs <- MCRefs
    Occurrence <- MCOccurrence
    Expired <- MCExpired
    Gate <- gate
INVARIANTS
    TypeOK
    ReferencesHold
PROPERTIES
    PostsStartOnLiveOccurrences
    CallsKeepEnding
