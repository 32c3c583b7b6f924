SPECIFICATION Spec
CONSTANTS
    Slots = {slot1, slot2}
    Months = {Jan, Feb}
    Missing = {}
    Dates = {Feb}
    Assets = {Laptop}
    Prepaids = {Licence}
    Intangibles = {}
    CostAccounts = {LaptopCost}
    Tutors = {}
    Classes = {"LAPTOP"}
    ClassOf <- MCClassOf
    Cost <- MCCost
    Life <- MCLife
    Rates = {100}
    Others = {}
    Opening <- AssetOpening
    NoKey = NoKey
    Leaving = {}
    NoOriginal = NoOriginal
    MaxEntries = 5
    Jan = Jan
    Feb = Feb
    Mar = Mar
    Laptop = Laptop
    LaptopCost = LaptopCost
    Licence = Licence
    Software = Software
    Sara = Sara
    Omar = Omar
INVARIANTS
    TypeOK
    ChargedOnce
    OverchargeBounded
    InClosingMeansCharged
CHECK_DEADLOCK FALSE
SYMMETRY Connections
