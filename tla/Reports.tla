------------------------------ MODULE Reports ------------------------------
(***************************************************************************)
(* What the reports make of the journal (agents/reporting.py,              *)
(* agents/profitability.py, api/routes/reports.py), on the chart of        *)
(* accounts (ledger/coa.py), and the budgets they compare it with          *)
(* (api/routes/budget.py).                                                 *)
(*                                                                         *)
(* The book is that of Ledger: entries are added, and a reversal marks its *)
(* original in the same step.  Which entries a report counts differs:      *)
(* profit and loss, balance sheet and margins take those with status       *)
(* POSTED, trial balance, cash flow and budgets take all of them.          *)
(***************************************************************************)
EXTENDS Integers, FiniteSets, FiniteSetsExt

CONSTANTS
    Chart,         \* account code -> what chart_of_accounts.yaml says of it
    Months,        \* 1 .. n
    Enrollments,
    NoEnrollment,  \* a line without the dimension
    Journals,      \* the sets of lines that are posted
    Budgeted,      \* bound: the accounts that budgets are entered for
    Budgets,       \* amounts of a budget entry
    MaxEntries     \* bound: journal entries

VARIABLES
    book,          \* ledger.journal_entries with their lines
    budget         \* master.budget_entries

vars == <<book, budget>>

-----------------------------------------------------------------------------
(* The chart.                                                              *)

Types == {"asset", "liability", "equity", "revenue", "expense", "contra", "memo"}
Statements == {"BS", "IS", "MEMO"}
NoParent == "none"
Account == [range : 1 .. 9, type : Types, statement : Statements, memo : BOOLEAN,
            postable : BOOLEAN, parent : STRING]

Accounts == DOMAIN Chart

(* _check_range_type: the first digit of the code and the type.            *)
TypesOf(range) ==
    CASE range = 1        -> {"asset", "contra"}
      [] range = 2        -> {"liability", "contra"}
      [] range = 3        -> {"equity"}
      [] range = 4        -> {"revenue"}
      [] range \in {5, 6} -> {"expense", "contra"}
      [] range = 7        -> {"revenue", "expense", "contra"}
      [] range = 9        -> {"memo"}
      [] OTHER            -> {}

(* validate_structure, at the load of the YAML.                            *)
ValidChart ==
    \A a \in Accounts :
        LET c == Chart[a]
        IN  /\ c.type \in TypesOf(c.range)
            /\ c.memo => c.range = 9 /\ c.statement = "MEMO" /\ c.type = "memo"
            /\ c.parent # NoParent => c.parent \in Accounts /\ ~ Chart[c.parent].postable

Line == [account : Accounts, of : Enrollments \cup {NoEnrollment}, dr : Nat, cr : Nat]
Entry == [id : Nat \ {0}, month : Months, lines : SUBSET Line,
          status : {"POSTED", "REVERSED"}]

LineSum(L, Side(_)) == MapThenSumSet(LAMBDA l : Side(l), L)

(* A journal is balanced and on postable accounts.                         *)
Accepted(lines) ==
    /\ LineSum(lines, LAMBDA l : l.dr) = LineSum(lines, LAMBDA l : l.cr)
    /\ \A l \in lines : Chart[l.account].postable

(* The seeded chart has the statement of an account follow from its range. *)
ASSUME ReportsAssumption ==
    /\ Chart \in [Accounts -> Account] /\ ValidChart
    /\ \A a \in Accounts : /\ Chart[a].range \in 1 .. 3 <=> Chart[a].statement = "BS"
                           /\ Chart[a].memo <=> Chart[a].statement = "MEMO"
                           /\ Chart[a].memo <=> Chart[a].range = 9
                           /\ Chart[a].range = 2 => Chart[a].type = "liability"
    /\ Months \subseteq Nat /\ MaxEntries \in Nat /\ IsFiniteSet(Enrollments)
    /\ Budgets \subseteq Nat /\ Budgeted \subseteq Accounts
    /\ Journals \subseteq SUBSET Line /\ \A j \in Journals : IsFiniteSet(j) /\ Accepted(j)

-----------------------------------------------------------------------------
(* Sums over the journal.                                                  *)

Of(E, p) == {e \in E : e.month = p}
Posted(E) == {e \in E : e.status = "POSTED"}

(* Mutant: the balance sheet takes every entry, as the trial balance does. *)
AnyUpTo(E, p) == {e \in E : e.month <= p}

(* What the balance sheet counts.                                          *)
PostedUpTo(E, p) == {e \in Posted(E) : e.month <= p}

(* Debits less credits of the lines that a query selects.                  *)
NetOf(E, Selected(_)) ==
    MapThenSumSet(LAMBDA e :
        LineSum({l \in e.lines : Selected(l)}, LAMBDA l : l.dr - l.cr), E)

Net(E, A) == NetOf(E, LAMBDA l : l.account \in A)

Ranged(ranges) == {a \in Accounts : Chart[a].range \in ranges}
Typed(type) == {a \in Accounts : Chart[a].type = type}
On(statement) == {a \in Accounts : Chart[a].statement = statement /\ ~ Chart[a].memo}

-----------------------------------------------------------------------------
(* The statements.                                                         *)

(* profit_and_loss.  Interest income, 7030, is revenue by its type and is  *)
(* in the first section.                                                   *)
ProfitLoss(E) ==
    LET income    == On("IS") \cap Typed("revenue")
        charges   == On("IS") \ Typed("revenue")
        revenue   == - Net(E, income)
        gross     == revenue - Net(E, charges \cap Ranged({5}))
        operating == gross - Net(E, charges \cap Ranged({6}))
    IN  [revenue |-> revenue, gross |-> gross, operating |-> operating,
         net |-> operating - Net(E, charges \cap Ranged({7}))]

(* Accounts of what is written off, which the cash flow adds back.         *)
Depreciation == {"6510", "6520", "6530"}
Amortization == {"6540"}
WrittenOff == Depreciation \cup Amortization

(* balance_sheet: contra accounts of the 1xxx range are taken off assets.  *)
BalanceSheet(E) ==
    [assets |-> Net(E, On("BS") \cap (Typed("asset") \cup (Typed("contra") \cap Ranged({1})))),
     liabilities |-> - Net(E, On("BS") \cap Typed("liability")),
     equity |-> - Net(E, On("BS") \cap Typed("equity"))]

(* per_enrollment.                                                         *)
RevenueCodes == {"4010", "4020"}
DirectCodes == {"5010", "5020", "5030", "5040"}
Margin(E, n) ==
    - NetOf(E, LAMBDA l : l.of = n /\ l.account \in RevenueCodes \cup DirectCodes)

(* GET /reports/trial-balance.                                             *)
TrialBalance(E) ==
    [a \in Accounts |->
        [debit  |-> MapThenSumSet(LAMBDA e :
             LineSum({l \in e.lines : l.account = a}, LAMBDA l : l.dr), E),
         credit |-> MapThenSumSet(LAMBDA e :
             LineSum({l \in e.lines : l.account = a}, LAMBDA l : l.cr), E)]]

(* The sections of the cash flow.  Liabilities and additions are debits    *)
(* less credits, as they stand in the journal.                             *)
SectionsOf(E) ==
    [income |-> - Net(E, Ranged({4, 5, 6})), depreciation |-> Net(E, Depreciation),
     amortization |-> Net(E, Amortization), wallets |-> Net(E, {"2050"}),
     payables |-> Net(E, {"2020", "2030"}), fx |-> Net(E, {"7020"}),
     investing |-> Net(E, {"1111", "1121"}), financing |-> - Net(E, Ranged({3}))]

(* Mutant: only POSTED entries, as in profit and loss.                     *)
CashFlowPosted(B, p) == SectionsOf(Posted(Of(B, p)))

(* GET /reports/cash-flow, of all the entries of a month.                  *)
CashFlow(B, p) == SectionsOf(Of(B, p))

(* GET /reports/budget-vs-actual: budgets and actuals, fully joined.       *)
Compared(p) ==
    {b.account : b \in Of(budget, p)}
      \cup UNION {{l.account : l \in e.lines} : e \in Of(book, p)}
Planned(p, A) ==
    MapThenSumSet(LAMBDA b : b.amount, {b \in Of(budget, p) : b.account \in A})
Variance(p, a) == Net(Of(book, p), {a}) - Planned(p, {a})

(* The first digit of a code is its range, also of those named here; 7030  *)
(* is the only income the seeded chart has there.                          *)
ASSUME SeededCodes ==
    /\ {"1010", "1020", "1111", "1121"} \cap Accounts \subseteq Ranged({1})
    /\ {"2020", "2030", "2050"} \cap Accounts \subseteq Ranged({2})
    /\ RevenueCodes \cap Accounts \subseteq Ranged({4})
    /\ DirectCodes \cap Accounts \subseteq Ranged({5})
    /\ WrittenOff \cap Accounts \subseteq Ranged({6})
    /\ {"7020"} \cap Accounts \subseteq Ranged({7})
    /\ {"7030"} \cap Accounts = Typed("revenue") \cap Ranged({7})

-----------------------------------------------------------------------------
(* The book and the budgets.                                               *)

Add(E, lines, month) ==
    E \cup {[id |-> Cardinality(book) + 1, month |-> month, lines |-> lines,
             status |-> "POSTED"]}

Swapped(lines) == {[account |-> l.account, of |-> l.of, dr |-> l.cr, cr |-> l.dr] : l \in lines}

Init ==
    /\ book = {}
    /\ budget = {}

Post(lines, month) ==
    /\ Cardinality(book) < MaxEntries
    /\ book' = Add(book, lines, month)
    /\ UNCHANGED budget

Reverse(e, month) ==
    /\ Cardinality(book) < MaxEntries
    /\ e.status = "POSTED"
    /\ book' = Add((book \ {e}) \cup {[e EXCEPT !.status = "REVERSED"]},
                   Swapped(e.lines), month)
    /\ UNCHANGED budget

(* POST /budget: inserted or overwritten, at any time.                     *)
SetBudget(p, a, amount) ==
    /\ budget' = {b \in budget : ~ (b.month = p /\ b.account = a)}
                   \cup {[month |-> p, account |-> a, amount |-> amount]}
    /\ UNCHANGED book

Next ==
    \/ \E j \in Journals, p \in Months : Post(j, p)
    \/ \E e \in book, p \in Months : Reverse(e, p)
    \/ \E p \in Months, a \in Budgeted, amount \in Budgets : SetBudget(p, a, amount)

Spec == Init /\ [][Next]_vars

-----------------------------------------------------------------------------
(* Properties.                                                             *)

Memo == {a \in Accounts : Chart[a].memo}
UpTo(p) == {q \in Months : q <= p}

(* At every month end the balance sheet is out by the profits to date,     *)
(* which nothing closes to equity, and by the counter account of the       *)
(* sanctions, and by nothing else: no line of the journal is in two        *)
(* sections or in none, and the two statements count the same entries,     *)
(* wherever a reversal is dated.  Margins, and what is sold or bought      *)
(* beside them, make up the gross profit as long as no interest is earned. *)
StatementsAgree ==
    \A p \in Months :
        LET E == PostedUpTo(book, p)
            b == BalanceSheet(E)
            margins == MapThenSumSet(LAMBDA n : Margin(E, n), Enrollments \cup {NoEnrollment})
            others == Ranged({4, 5}) \ (RevenueCodes \cup DirectCodes)
            ToDate(part(_)) ==
                MapThenSumSet(LAMBDA q : part(ProfitLoss(Posted(Of(book, q)))), UpTo(p))
        IN  /\ b.assets - b.liabilities - b.equity + Net(E, Memo)
                  = ToDate(LAMBDA r : r.net)
            /\ Net(E, {"7030"}) = 0 => margins - Net(E, others) = ToDate(LAMBDA r : r.gross)

(* The cash flow and the profit and loss of a month differ by the result   *)
(* of the 7xxx range, which the cash flow leaves out, and by the entries   *)
(* that were reversed, which it counts.  Cash moves by the sections of the *)
(* cash flow with the signs of wallets, payables, revaluation and          *)
(* additions turned, and by the accounts that are in no section: income    *)
(* gets back what was written off, which is therefore set against the      *)
(* accounts it was written off from.  The trial balance and the variances  *)
(* from the budget count the same entries and lose no account.             *)
CashFlowExplained ==
    \A p \in Months :
        LET E    == Of(book, p)
            f    == CashFlow(book, p)
            t    == TrialBalance(E)
            shown == (Ranged({3, 4, 5, 6}) \ WrittenOff)
                       \cup {"2050", "2020", "2030", "7020", "1111", "1121"}
            cash == {"1010", "1020"}
        IN  /\ f.income - ProfitLoss(Posted(E)).net
                  = Net(Posted(E), Ranged({7})) - Net(E \ Posted(E), Ranged({4, 5, 6}))
            /\ Net(E, cash)
                  = f.income + f.depreciation + f.amortization - f.wallets - f.payables
                    - f.fx - f.investing + f.financing - Net(E, Accounts \ (shown \cup cash))
            /\ Net(E, cash) = MapThenSumSet(LAMBDA a : t[a].debit - t[a].credit, cash \cap Accounts)
            /\ MapThenSumSet(LAMBDA a : Variance(p, a), Compared(p))
                  = - Planned(p, Accounts)

(* A commitment of the sanction memo changes neither side of the balance   *)
(* sheet.                                                                  *)
CommitmentsOffStatements ==
    [][(\A e \in book' \ book : \A l \in e.lines : l.account \in {"2060", "9010"}) =>
           \A p \in Months :
               BalanceSheet(PostedUpTo(book', p)) = BalanceSheet(PostedUpTo(book, p))]_vars
=============================================================================
