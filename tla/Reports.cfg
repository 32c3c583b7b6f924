SPECIFICATION Spec
CONSTANTS
    Chart <- MCChart
    Months = {1, 2}
    Enrollments = {Algebra}
    NoEnrollment = NoEnrollment
    Journals <- MCJournals
    Budgeted = {"6510"}
    Budgets = {3}
    MaxEntries = 3
    Algebra = Algebra
INVARIANTS
    StatementsAgree
    CashFlowExplained
CHECK_DEADLOCK FALSE
