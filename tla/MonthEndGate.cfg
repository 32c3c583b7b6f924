SPECIFICATION Spec
CONSTANTS
    Slots = {slot1, slot2}
    Months = {Feb}
    Missing = {}
    Dates = {Feb}
    Assets = {Laptop}
    Prepaids = {Licence}
    Intangibles = {Software}
    CostAccounts = {LaptopCost}
    Tutors = {Sara}
    Classes = {"LAPTOP"}
    ClassOf <- MCClassOf
    Cost <- MCCost
    Life <- MCLife
    Rates = {100}
    Others <- ByHand
    Opening <- AssetOpening
    NoKey = NoKey
    Leaving = {}
    NoOriginal = NoOriginal
    MaxEntries = 4
    Jan = Jan
    Feb = Feb
    Mar = Mar
    Laptop = Laptop
    LaptopCost = LaptopCost
    Licence = Licence
    Software = Software
    Sara = Sara
    Omar = Omar
INVARIANTS
    GateTells
PROPERTIES
    OverdebitBlocks
CHECK_DEADLOCK FALSE
