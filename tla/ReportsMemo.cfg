SPECIFICATION Spec
CONSTANTS
    Chart <- MCChart
    Months = {1, 2}
    Enrollments = {Algebra}
    NoEnrollment = NoEnrollment
    Journals <- Commitments
    Budgeted = {"6510"}
    Budgets = {3}
    MaxEntries = 3
    Algebra = Algebra
PROPERTIES CommitmentsOffStatements
CHECK_DEADLOCK FALSE
