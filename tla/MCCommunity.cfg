SPECIFICATION Spec
CONSTANTS
    u1 = u1
    u2 = u2
    u3 = u3
    n1 = n1
    n2 = n2
    Users = {u1, u2, u3}
    Nicknames = {n1, n2, n3}
    Items = {1, 2, 3}
    Required = {1}
    Active = {1, 2, 3}
    Marketing = {2, 3}
    Selections <- MCSelections
    InitialNickname <- MCInitialNickname
    InitialPosts <- MCInitialPosts
    InitialLikes <- MCInitialLikes
    PostIds = {1, 2, 3}
    CommentIds = {4}
    PageSize = 1
    Writers = {w1, w2}
    Readers = {r1}
    MaxWrites = 3
    None = None
    Gone = Gone
SYMMETRY Symmetry
INVARIANTS
    TypeOK
    ConsentsAreWhole
    RequiredConsentsStand
    AnswersAddUp
    PagesMissOnlyWhatMoved
