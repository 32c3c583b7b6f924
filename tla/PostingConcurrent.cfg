SPECIFICATION FairSpec
CONSTANTS
    Slots = {slot1, slot2}
    Periods = {Jan}
    Students = {Ali}
    Accounts = {"1020", "2050", "4010"}
    Wallet = "2050"
    Refs = {TopUpRef, SessionRef}
    NoRef = NoRef
    NoStudent = NoStudent
    Drafts <- AllDrafts
    MaxEntries = 3
    MaxLog = 2
    TopUpRef = TopUpRef
    SessionRef = SessionRef
    Jan = Jan
    Ali = Ali
INVARIANTS
    TypeOK
    WalletMirrorsControl
    ReversalsPaired
    InFlight
    OverdraftBounded
PROPERTIES
    ImplementsLedger
    SealedUntilReopened
    RequestsEnd
CHECK_DEADLOCK FALSE
