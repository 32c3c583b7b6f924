SPECIFICATION FairSpec
CONSTANTS
    Slots = {slot1, slot2}
    Months = {Feb}
    Missing = {}
    Dates = {Feb}
    Assets = {}
    Prepaids = {}
    Intangibles = {Software}
    CostAccounts = {}
    Tutors = {Sara, Omar}
    Classes = {}
    ClassOf <- MCClassOf
    Cost <- MCCost
    Life <- MCLife
    Rates = {100}
    Others = {}
    Opening <- MCOpening
    NoKey = NoKey
    Leaving = {Sara}
    NoOriginal = NoOriginal
    MaxEntries = 5
    Jan = Jan
    Feb = Feb
    Mar = Mar
    Laptop = Laptop
    LaptopCost = LaptopCost
    Licence = Licence
    Software = Software
    Sara = Sara
    Omar = Omar
PROPERTIES
    RequestsEnd
CHECK_DEADLOCK FALSE
