SPECIFICATION FairSpec
CONSTANTS
    Slots = {s1, s2}
    Ids = {1, 2}
    Enrollments = {"a", "b"}
    Days = {1, 2}
    Files <- MCFiles
    Polls <- MCPolls
    Content <- MCContent
CHECK_DEADLOCK FALSE
INVARIANTS
    TypeOK
    PostedOnce
    RowsBacked
    DoneAccounts
PROPERTIES
    CallsEnd
