SPECIFICATION FairSpec
CONSTANTS
    Slots = {slot1, slot2}
    Requests = {req1}
    Amounts = {1}
    MaxDecisions = 4
    MaxByHand = 2
INVARIANTS
    TypeOK
    TwoApprovals
    CommittedOnce
    SpendWhole
    MemoDrift
PROPERTIES
    PostedOnce
    CallsEnd
