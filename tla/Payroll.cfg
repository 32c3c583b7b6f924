SPECIFICATION Spec
CONSTANTS
    Slots = {slot1, slot2}
    Tutors = {Sara}
    Stranger = Stranger
    Months = {Jan, Feb}
    Sheets <- MCSheets
    Sessions <- MCSessions
    Scheduled = {30, 45, 60, 90}
    Minutes <- MCMinutes
    HourRates = {1, 33, 2500}
    NoRef = NoRef
    NoOriginal = NoOriginal
    Rates <- MCRates
    ByHand <- MCByHand
    MaxEntries = 5
    MaxCorrections = 3
    Sara = Sara
    Jan = Jan
    Feb = Feb
INVARIANTS
    TypeOK
    PaymentsRecorded
    RowsAccounted
    
    PositionExplained
CHECK_DEADLOCK FALSE
SYMMETRY Connections
