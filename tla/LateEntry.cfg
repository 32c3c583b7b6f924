SPECIFICATION Spec
CONSTANTS
    Slots = {slot1, slot2}
    Periods = {Jan}
    Students = {Ali}
    Accounts = {"1020", "2050", "4010"}
    Wallet = "2050"
    Refs = {TopUpRef, SessionRef}
    NoRef = NoRef
    NoStudent = NoStudent
    Drafts <- WalletDrafts
    MaxEntries = 2
    MaxLog = 1
    TopUpRef = TopUpRef
    SessionRef = SessionRef
    Jan = Jan
    Ali = Ali
PROPERTIES
    NothingEntersClosed
CHECK_DEADLOCK FALSE
