# Verification of the Tuitional finance ledger

TLA+ models, TLC runs and TLAPS proofs for the accounting system in this
repository: a FastAPI service and a worker that keep a double-entry ledger in
PostgreSQL, with six sub-ledgers, month-end close, ingestion from an LMS and a
bank, payroll, sanctions, FX, reports and a chat assistant. Source paths below
are relative to the repository; the Python package is `src/`.

## 1. Inventory

| part | state | operations | interacts with |
|---|---|---|---|
| Ledger engine `ledger/posting.py`, `ledger/subledger.py` | `journal_entries`, `journal_lines`, `audit_log` | `post_journal`, `post_journal_idempotent`, `reverse_journal` | every writer calls it; calls the sub-ledgers; reads `periods`, `students` |
| Period service `ledger/period.py` | `periods`, `period_close_log` | `ensure_period`, `begin_closing`, `close`, `reopen` | reads the journal and reconciles every sub-ledger |
| Sub-ledgers `subledgers/*.py` | `student_wallet_entries`, `tutor_payable_entries`, `sanction_memo_entries`, asset entry tables | `apply_line`, `row_exists`, `balance`, `reconcile_to_gl` | called by the engine in its transaction |
| Closing agents `agents/depreciation.py`, `amortization.py`, `period_close.py` | asset schedules | run once per month, idempotent by `source_ref` | post through the engine inside the pre-close transaction |
| Sanctions `agents/sanctions.py`, `routes/sanctions.py` | `sanction_requests` | request, FA decision, CFO decision, spend | mail before commit, memo postings |
| FX `agents/fx.py`, `ingestion/fx.py`, `routes/fx.py` | `fx_rates` | fetch, manual override, revalue | reads `original_amount` of payable lines |
| Ingestion `routes/ingestion.py`, `ingestion/*`, `agents/revenue.py`, `validation/*` | `staging.manual_uploads`, `staging.lms_sync_log`, `master.sessions`, enrollments, `staging.data_quality_quarantine` | file uploads, LMS sync, recognise a session, quarantine a row | posts REV and COST per session, TOPUP per bank line |
| Payroll `agents/payroll.py`, `routes/payroll.py` | none of its own | compute, disburse | 2020/2030 through the engine |
| Manual entries `routes/manual_je.py` | none of its own | post, reverse | engine |
| Reporting `agents/reporting.py`, `agents/profitability.py`, `routes/reports.py` | none (reads) | trial balance, P&L, balance sheet, KPIs | journal |
| Master data, budgets, quarantine desk | `students`, `tutors`, rates, `budgets` | CRUD, rate versioning, resolve | the key check reads `students.active` |
| Chat `chat/*` | conversations and messages | bounded tool loop, two stores | read-only tools |
| Auth, uploads, backup, shell | session tokens, files, in-process flag | two-step sign-in, write a file once, start a backup | `db_session`: one transaction per request |

What is hard here. The service runs as two API processes
(`infra/systemd/tuitional-api.service`, `--workers 2`) with a thread pool each
and a worker process, on READ COMMITTED transactions: every guard is a read
that may be stale at the commit, except the unique index on `source_ref` and
the checks inside one row. A request may fail or die between any two
statements. A month moves OPEN, IN_CLOSING, CLOSED, REOPENED while others
post in it. A posting must leave entry, lines, mirror rows, mark of the
reversed original and audit row together or not at all. Retries of uploads,
syncs, payrolls and month-end agents rely on source references.

What makes each part correct:

- engine: the journal is append-only; ids and references are unique; an entry
  is reversed at most once and by its exact inverse; no entry enters a closed
  month; a rejected attempt is on record;
- periods: transitions follow the life cycle, every exit from CLOSED is a
  logged reopen, what a close recorded stays true while the month is closed;
- sub-ledgers: each equals its control account whenever a close compares them;
  a wallet is never negative;
- closing agents: each asset is charged once per month and label, and stops when its
  cost is charged (overlapping pre-closes overshoot, section 3);
- sanctions: two approvals in order, a commitment and a spend whole and once, a
  sub-ledger that follows account 2060 (a spend parts them, section 3);
- FX: a revaluation run twice, or after a payment, revalues the right balance
  (neither does, section 3);
- ingestion: a row is posted once or quarantined, a crash loses nothing;
- payroll: a payment and its record go together, the position of a tutor is explained
  by them; the rounding rules hold;
- reports: the same entries on both sides of every statement;
- chat: the loop ends and the stored conversation is the one held.

## 2. Modules

- `Ledger` is the abstract specification: one variable, the committed book, and
  two steps, `Record` and `Reverse`. It says nothing of checks, periods or
  transactions; it is what a reader of the journal may rely on.
- `Posting` is the detailed specification of the engine, the period service and
  the student wallet, as transactions that interleave.
- `Sanctions` is the approval workflow with its memo sub-ledger, `Ingestion` the
  uploads and polls of tutoring sessions, each over a posting that is abstracted
  to what `Posting` shows of it: it may be refused, a source reference is used
  once, and it is undone with its transaction.
- `TutorPayable` has no variables: the lines and mirror rows of the tutor-payable
  sub-ledger, what a session earns, what a revaluation posts. `MonthEnd` and
  `Payroll` extend it.
- `MonthEnd` is pre-close with its three agents, its dry run, close and reopen,
  on the four sub-ledgers those agents feed and the close compares. `Payroll` is
  the accrual of sessions and the payout sheets. A journal is one step of a
  transaction there: what happens between the checks of one journal is the
  matter of `Posting`, and what the checks refuse is kept as `Accepted`.
- `Reports` is every statement as a function of the journal, over the book of
  `Ledger` with accounts on its lines, and the budgets.
- `MCPosting`, `MCSanctions`, `MCIngestion`, `MCMonthEnd`, `MCPayroll`, `MCReports`
  give them small instances; `PostingProofs`, `OverdraftProofs`, `SanctionsProofs`, `IngestionProofs`,
  `MonthEndProofs`, `PayrollProofs`, `ReportsProofs` have the theorems. `Sums` has no
  state: it proves what sums over finite sets come to, for all of them.

### Posting

| TLA+ | code |
|---|---|
| `entries`, `wallet`, `period`, `closeLog`, `audit`, `active` | committed rows of the tables named in the module |
| `Slots`, `pc`, `job` | database connections: where a transaction is, what it has read and not committed |
| `nextId` | the `je_id` sequence: not rolled back |
| `StartPost`, `StartReverse` | entry of `post_journal`, and of `reverse_journal` up to its call of it |
| `CheckPeriod`, `CheckKeys`, `CheckWallet` | the validations in the order of `post_journal`, each a read of committed data |
| `Fail` | the `except` branch: audit row, raise, rollback in `db_session` |
| `Insert` | the INSERT of the entry against the partial unique index, which waits for uncommitted duplicates |
| `Trigger`, `Commit` | the deferred constraint trigger at COMMIT, and the commit; between them another commit may land |
| `StartPeriodOp`, `CheckStatus` | `begin_closing`, `close`, `reopen` up to their guard |
| `ReadControl`, `ReadSubLedger`, `Snapshot` | the close gate in its separate reads |
| `ApplyStatus` | the unconditional UPDATE of `periods`, close log and audit rows |
| `SetActive`, `EnsurePeriod` | `PUT /students/{id}`; the seed script |
| `Crash` | the process dies or the connection drops before its commit |

Abstractions. Money is a natural number. A date is its month. Currency fields,
narration, dimensions and the entry type of a wallet row carry no control and
are left out. Accounts are those loaded, so the chart check cannot fail. The
attachment rules reduce an entry to four cases. Writes of one transaction are
invisible to others until its commit, so statements that only write are one
action with the commit; statements that read are actions of their own. The two
reads of `reverse_journal` are one, for lines never change and a status only
changes to one that the unique index turns into a failure at `Insert`. A short reopen reason changes nothing and is not a
request here. The wallet is the only sub-ledger, the one a posting must respect;
the close gate compares that one.

### Sanctions

| TLA+ | code |
|---|---|
| `status`, `amount` | the `sanction_requests` rows |
| `decisions` | `audit_log` rows of a request |
| `posted`, `memo` | what is posted per `SANCTION-<id>-<kind>` reference; `sanction_memo_entries` summed per side |
| `byhand`, `reversed` | the lines on 2060 and 9010 of manual journals and reversals, summed per account and side; the memo entries that were reversed |
| `Submit` | `submit`: one INSERT |
| `StartDecision`, `Update` | `fa_decide`, `cfo_decide` up to their UPDATE, which waits for the row and reads its latest version; only `cfo_decide` has a condition on the status |
| `Notify` | `_notify_sanction`, inside the transaction |
| `PostMemo`, `CommitDecision` | `post_journal` of the memo entry; the commit with the memo rows |
| `StartSpend`, `ReverseMemo`, `PostExpense`, `CommitSpend` | `post_spend` and its two journals |
| `ApplyLine`, `ApplyLines` | `apply_line` with `_classify`, of one line and of a memo entry |
| `PostManual`, `ReverseEntry` | `POST /journal-entries` with a line on 2060 or 9010; `POST /journal-entries/{id}/reverse` of a commitment or of the memo entry of a spend |
| `Crash` | the process dies before the commit |

Abstractions. A posting may be refused for any reason of its own (closed
period, unknown account), and uses its source reference once: the rest of
`post_journal` is the matter of `Posting`. A decision on an id without a row
touches nothing and is not enumerated. Amounts are positive. A manual journal has one
line on the two accounts and its counterpart anywhere else; one with a line on each is two
of these. The expense entry of a spend has no line on them, so that its
reversal is left out; a reversal of a reversal has the lines of a manual journal. A
reversal leaves the request, its status and its references as they are, as the code does.
`ControlBalance` and `SubLedgerSum` are the two sides of the reconciliation
that a close makes of account 2060.

### Ingestion

| TLA+ | code |
|---|---|
| `batches` | `staging.manual_uploads`, `staging.lms_sync_log` |
| `book`, `sessions`, `quarantine` | journal entries per session, `master.sessions`, `staging.data_quality_quarantine` |
| `enrolled`, `rates` | `master.enrollments`; which of the student and tutor rates in force for an enrollment on a day are positive |
| `Start` | `_insert_upload_record`, or the INSERT of `lms_sync_now` |
| `Fetch` | `adapter.fetch_sessions` and its failure branch |
| `ReadRow` | `parse_session_row`, then `_session_already_posted`, which looks at the revenue entry alone |
| `Lookup` | `_post_session` up to its first posting: the enrollment of the row, the rates of that enrollment on the row's day, the drafts |
| `Post`, `Commit` | `post_journal` of revenue, then cost; INSERT into `master.sessions` and the commit |
| `Quarantine` | `_quarantine_row` and its commit |
| `Finalise` | `_finalise_upload`, or the last UPDATE of `lms_sync_now` |
| `Enroll`, `SetRate` | an enrollment upload (`ON CONFLICT DO NOTHING`); a rate row that is entered in the database, by which a rate comes into force on a day or is replaced, zero being a rate too |
| `Crash` | the process dies, or an exception that nothing catches |

Abstractions. A slot is a connection serving one upload or poll, a sequence of
many transactions. `Content` is fixed, since a file's batch id is the hash of
what it holds; a file that comes again violates the unique id, raises and
changes nothing. A row is its session id, the enrollment and the day it names, and the three facts that the
code branches on; two rows of one session need not agree on anything but the id, so
that two batches may draft different entries for it. The INSERT into quarantine may raise: the payload is a Python dict
whose quotes are replaced before a cast to `jsonb`, and nothing catches that. The
`since` argument of a poll only selects rows, and the rows of a poll are any.
Where revenue is drafted, its posting may be
refused by the wallet check or, at the commit, by the wallet trigger.

### MonthEnd

| TLA+ | code |
|---|---|
| `status` | `master.periods`; ABSENT when a period has no row |
| `book`, `rows` | journal entries with their lines on 2020, 1111 and its like, 1112 and its like, 1051, 1052, 112x; the rows of the four sub-ledger tables |
| `CostAccounts` | what lines on 1111, 1113 and 1115 are about: read by the gate, mirrored by nothing |
| `active` | `tutors.active` |
| `pc`, `job` | where a request is, the agent it has reached, what that agent still posts and what the transaction has posted |
| `FixedAssetTakes`, `PrepaidTakes`, `IntangibleTakes`, `Mirrored` | `apply_line` of each sub-ledger: which lines leave a row |
| `FixedAssetReconciles`, ... | `reconcile_to_gl` of each, in one state |
| `seen`, `NextRead`, `ReadAt`, `Gate` | the same as `close` calls them: one SELECT after the other, each on what has committed by then, and the comparison after the last one of a sub-ledger |
| `Depreciation`, `Amortization`, `Revaluation` | `post_monthly_depreciation`, `post_prepaid_amortization`, `revalue_unrealized`: what they read and the drafts they make |
| `StartPreClose` ... `StartReopen` | the routes of `routes/period.py` |
| `CheckStatus`, `Lock` | the status guard; the UPDATE of the period's row, which waits for a pre-close that has it |
| `Plan`, `Write`, `Refuse` | an agent reads its sub-ledger; one `post_journal`, accepted or not |
| `Victim` | PostgreSQL cancels one of two transactions that wait for each other |
| `Commit` | the commit of `db_session`; for a dry run, after its ROLLBACK TO SAVEPOINT |
| `StartPost`, `StartReverse` | journals of the rest of the system, manual ones among them (`Others`), and reversals |
| `SetTutorActive` | `PUT /tutors/{id}` |

Abstractions. A date is its month, so that a posting date and a period label
may differ as they may in the code. An entry has its lines on the control accounts only;
the other side balances it and nothing here reads it. The tables of assets and prepaids
are constants: nothing in the service writes them, so that the read of such a table is
merged with that of the rows, and the reads of an intangible's two accounts are
one. The student wallet and the sanction memo are reconciled by the same gate, and are the
matter of `Posting` and `Sanctions`. Since the reads are separate statements, a close may be
refused although the book reconciles before and after; what a close may not do is pass
on a book that cannot reconcile (`OverdebitBlocks`). A pre-close never has its two intangible
agents run (the route passes no arguments for them); capitalisation reaches the
sub-ledger as a draft in `Others`. Deadlocks of three and more transactions are left out.
FX rates are inputs of the request, in hundredths.

### Payroll

| TLA+ | code |
|---|---|
| `disbursed` | `subledger.tutor_disbursements` |
| `job` | the sheet, its current row, the receipts and refusals so far |
| `ReadRow` | the checks of a row up to its draft; an amount that is not a number raises `InvalidOperation`, which no clause catches |
| `Post`, `Refuse` | `post_journal` of the row, or its refusal and rollback |
| `Record`, `Commit` | the INSERT into `tutor_disbursements`; the commit of the row |
| `Answer` | the response |
| `Accrue` | `build_accrual_draft` and its posting, with `compute_payment` (`Payment`) |
| `Revalue` | `revalue_unrealized`, of one tutor |
| `PostManual`, `ReverseEntry` | `POST /journal-entries` with a line on 2020; `POST /journal-entries/{id}/reverse` of any entry, a payment included |
| `SetTutorActive`, `CloseOrReopen` | what other routes change under way |

Abstractions. A row is its tutor, amount and month, or the way it fails. Bank
reference and currency are carried along. Money is an integer number of the
smallest unit, rates are integers, and rounding is that of `aed`, half away from
zero. A revaluation of one tutor is one step here: how the journals of one revaluation, and
two revaluations, interleave is in `MonthEnd`. Its reference has the day of posting, and a month has
more days than a run has entries, so that it is not used up. The record of a payment that is
reversed stays in `tutor_disbursements`, as in the code, and the reversal is an entry
of its own. Account 2030, of tutors paid in AED, is used by manual journals alone and is left
out, as are other rows that such a journal may have.

### Reports

| TLA+ | code |
|---|---|
| `Chart`, `ValidChart` | `chart_of_accounts.yaml` as loaded; `validate_structure` |
| `ProfitLoss`, `BalanceSheet` | `agents/reporting.py`: POSTED entries of a period, or up to a date |
| `Margin` | `per_enrollment` |
| `TrialBalance`, `CashFlow` (`SectionsOf`) | `routes/reports.py`: every entry, whatever its status |
| `Compared`, `Variance`, `SetBudget` | `routes/budget.py` |
| `Post`, `Reverse` | the journal, as `Ledger` has it |

Abstractions. A statement is its totals; names, order and file formats are left
out. The chart of the run has an account of every range, type and section of the
real one, under its real codes. That a BS account is of the ranges 1 to 3 and no
2xxx account is contra is an assumption: `validate_structure` does not ask
for it, the seeded chart has it, and a contra account of the 2xxx range would be in
no section of the balance sheet. So is that every 9xxx account is memo, and that
7030 is the only income of the 7xxx range (`SeededCodes`, with the ranges of
the codes that the reports name, which are their first digits).

Some definitions are followed or preceded by variants marked "Mutant"
(`ApplyCredits`, `UpdateAny`, `PostAfterLookup`, ...): plausible bugs of the
definition next to them, to see that a property notices. No specification
uses them.

## 3. Runs

| run | instance | shows |
|---|---|---|
| `posting_concurrent` | 2 connections, 1 month, 7 drafts, 3 entries, 2 log rows, fair | `TypeOK`, `WalletMirrorsControl`, `ReversalsPaired`, `InFlight`, `OverdraftBounded`, refinement of `Ledger`, `SealedUntilReopened`, `RequestsEnd` |
| `late_entry`, `wallet_race` | 2 connections | two guarantees that overlapping requests break |
| `sanctions_concurrent` | 2 connections, 1 request, 4 decisions, 2 by hand, fair | `TypeOK`, `TwoApprovals`, `CommittedOnce`, `SpendWhole`, `MemoDrift`, `PostedOnce`, `CallsEnd` |
| `ingestion_concurrent` | 2 connections, 1 file, 1 poll, 2 sessions, 2 enrollments, 2 days, fair | `TypeOK`, `PostedOnce`, `RowsBacked`, `DoneAccounts`, `CallsEnd` |
| `month_end_assets` | 2 connections, 2 periods, 1 asset, 1 prepaid, 5 entries | `TypeOK`, `ChargedOnce`, `OverchargeBounded`, `InClosingMeansCharged` |
| `month_end_gate` | 2 connections, 1 period, 4 manual journals, 4 entries | `GateTells`, `OverdebitBlocks` |
| `month_end_fx` | 2 connections, 1 period, 2 tutors, 1 intangible, 5 entries, fair | `RequestsEnd` |
| `month_end_pkr` | the same, not fair | what a revaluation does to a PKR position |
| `payroll` | 2 connections, 3 sheets, 3 sessions, 2 months, 5 entries, 3 corrections | `TypeOK`, `PaymentsRecorded`, `RowsAccounted`, `PaymentSound`, `PositionExplained` |
| `reports` | 24 accounts, 4 journals, 2 months, 3 entries | `StatementsAgree`, `CashFlowExplained` |
| `reports_memo` | the same, 1 journal | a sanction on the balance sheet |

Deadlock is checked where calls never run out: in the runs of `Sanctions`, of
which a request may be spent from again and again. The others stop when
`MaxEntries` and `MaxLog` are used up, `Ingestion` when each batch has been
started: their configurations say `CHECK_DEADLOCK FALSE`.

Bounds. Two connections are enough for every check-then-commit race, since each
involves one reader and one writer. In `Posting`, three entries allow a top-up,
the session that consumes it and a reversal of either, with rejected and crashed
attempts taking ids; two log rows allow a close and a reopen. Four of its drafts are refused, each by another check.
One student and one reference per kind of draft make every pair of drafts
collide; a draft without a reference (`Refund`) can be posted any number of
times. In `Sanctions`, the requests share nothing, so one of them has every race; four
decisions allow two rounds of FA and CFO, and manual lines and reversals come to 2 at most, enough to
reverse an approval or, without it, a spend. In `Ingestion`, a file and a poll have one session in common, under another
enrollment and day, so that either may draft the revenue, the cost, both or neither of it;
the second session has a malformed row and one of an absent student with
minutes, the only row that drafts a revenue without a cost. In `MonthEnd`, an asset
of which two thirds are charged already and a prepaid of which nothing is have their
last charge, a capped one, within two pre-closes; five entries let two pre-closes of
two months run whole, or one and reversals of its charges, and `Room` keeps a request
from starting that the bound would stop in its middle. In `month_end_gate` four entries are
the purchase and three more: a pre-close and a manual journal or a reversal, or three of
those. Two tutors with an open position are the
least that lets two revaluations insert the same two references in opposite orders. In
`Payroll`, five entries are two sheets' payments with accruals between, or an accrual, its payment and
three corrections, so that a payment may be reversed, revalued before and after, and its reversal reversed; the
grid of `PaymentSound` has the minutes around 0, 30, 45, 52, 60 and 90 and three
rates. In `Reports`, three entries are two journals and a reversal of one, in the
same month or the other; the properties are linear in the entries.

Fairness. A thread that serves a request is not stopped: weak fairness of
`Step(s)` for each connection in `Posting` and `Ingestion`. That suffices there,
for a reference once committed stays in the book and the one who waits for it
goes on for good; two entries of one session are inserted in one order, so
that no two transactions wait for each other. In `Sanctions` the row of a request is
locked again and again by later calls, so a waiting UPDATE or INSERT is
enabled time and again without staying so; PostgreSQL grants locks in the order of a queue,
which is strong fairness of `Update` and `ReverseMemo`; so it is with the row of
a period in `MonthEnd`, where `Lock` has strong fairness. Two requests that wait for
each other's references go on because PostgreSQL cancels one (`Victim`). Nothing is
assumed of new requests or of crashes.

What the violation runs say:

- `late_entry`: `_validate_period_status` reads the status without a lock;
  a close can commit, with its snapshot, before the entry does. What is left of the
  rule is `SealedUntilReopened`: nothing enters a closed month but what had checked it
  before.
- `wallet_race`: at READ COMMITTED the deferred trigger sums what its own
  transaction sees; two of them consume one balance. What is left is `OverdraftBounded`.
- `month_end_pkr`: the line that moves the AED amount of a position carries the whole
  PKR position as its original amount, and the mirror adds it up: the debt in PKR
  doubles with each revaluation. No code reverses a revaluation on the first day of the next month,
  as `docs/rules/period_close_rules.md:22` has it.
- `reports_memo`: 2060 is a liability of the chart, and only 9010 is a memo
  account: the commitment of an approved sanction is debited to the liabilities.

Other disagreements of the repository with itself, seen while modelling. The models have the code's
side of each, and no property asserts the other.

- Engine and periods: `begin_closing` writes IN_CLOSING over a CLOSED that was committed
  after it read the status (`ApplyStatus`), without a reopen and without a row in the close log, where
  `docs/rules/period_close_rules.md:68` has the CFO alone reopen a period;
  the `success=false` audit row of a refused posting is rolled
  back with it; a reason of 30 characters passes the close gate that the rules call
  a hard block; a reversal dated in an open month marks an entry of a
  closed month REVERSED, so that the POSTED balances of the closed month move.
- Sanctions: both lines of a spend are `SPEND_REVERSE` rows of opposite sign, so that the
  sub-ledger does not follow account 2060, and the close gate fails from the first spend on, where
  `subledgers/sanction_memo.py:118` has the two agree; `MemoDrift` says by how much they do not, with the
  CFO's own journals and reversals. `fa_decide` updates a rejected or an approved request as it
  does any other; the mail goes out before the memo is
  posted and committed; a spend is not compared with what was sanctioned; an approval that is
  reversed leaves the request APPROVED, and it cannot be approved again.
- Ingestion: the duplicate check looks at the revenue entry alone. A session that was
  accepted with its cost alone, or with no entry, is no duplicate: coming again, it is posted as
  far as the index lets it, or refused and quarantined, where `api/routes/ingestion.py:12` and `:346` have it
  skipped. A batch whose call dies stays in `processing`, and as its id is taken the
  file cannot be uploaded again, while `docs/rules/ingestion_rules.md:9` speaks of
  an atomic batch.
- Month end: two pre-closes of different months that overlap charge the last month
  of an asset twice, beyond its cost, where `docs/qa/test_plan.md:41` has a fully-depreciated stop
  (`OverchargeBounded` says how far this goes). Pre-close takes an OPEN period only, so that nobody runs the
  agents again after a reopen, as `docs/rules/period_close_rules.md:139` tells the CFO to. A period can be closed from
  OPEN, and the close runs no agent, where `docs/accounting_rules.md:298` has it run them first.
  A comment in `fixed_asset.py:58` leaves reversals to `reverse_journal`, which has
  no code for them: a reversed charge of a prepaid blocks every later close, one of an asset does
  so until a manual journal credits a cost account by as much; the two gates on quarantine and
  bank that the rules name are not in the code.
- Payroll: a payment's line names no original amount, and its AED amount is taken off the
  PKR: a tutor who is paid in full is still owed PKR, which `agents/fx.py:46` reads as the open balance.
  `compute_payment` compares the smaller of conducted and scheduled minutes, so
  that a session scheduled for less than 52 is never paid in full, where `agents/payroll.py:5` and
  `docs/context.md:56` look at the conducted ones. From 52 minutes on the pay is the tutor's rate, whatever the
  length of the session; `docs/accounting_rules.md:64` has it in proportion to the scheduled hours, which
  `docs/context.md` has not. The same sheet uploaded twice pays twice; the AP aging counts accruals and other
  credits only, so no payment lowers it; the productivity report counts a session as penalised by its conducted
  minutes, the payroll by the smaller of conducted and scheduled ones; the accrual takes the
  latest rate by date alone (`routes/ingestion.py:219`), so that of a pulled and a manual rate of one day
  either may come first, where `ingestion/fx.py:7` gives precedence to the manual one.
- Reports: `profit_and_loss` looks at the type of an account before its range, and
  never gets to the branch that would put interest income into the non-operating items, so that it is in the
  gross profit and the EBITDA, which `docs/context.md:149` defines before interest. The cash flow has the changes of
  liabilities as debits less credits: a top-up shows as money that went out; payables, revaluation and additions
  have their signs turned as well (`CashFlowExplained` names them all). A reversal in the month of its original
  leaves minus the original in profit and loss, balance sheet and margins, and nothing in trial balance, cash flow
  and budgets; the cash flow leaves out 7010, 7030 and 2060.

## 4. Proofs

Every theorem holds for every value of the constants under the named
assumptions of its module.

| module | theorem | statement |
|---|---|---|
| `PostingProofs` | `Inductive` | `Spec => []IInv` |
| | `Typed` | `Spec => []TypeOK` |
| | `Mirrored` | `Spec => []WalletMirrorsControl` |
| | `ReversedOnce` | `Spec => []ReversalsPaired` |
| | `InFlightFits` | `Spec => []InFlight` |
| | `Refinement` | `Spec => ImplementsLedger`, that is `Ledger!Spec` of `entries` |
| | `SealedStays` | `Spec => SealedUntilReopened` |
| `OverdraftProofs` | `Overdrawn` | `Spec => []OverdraftBounded`, if `Finite` |
| `SanctionsProofs` | `Inductive` | `Spec => []IInv` |
| | `Typed` | `Spec => []TypeOK` |
| | `ApprovedTwice` | `Spec => []TwoApprovals` |
| | `Committed` | `Spec => []CommittedOnce` |
| | `BothOrNone` | `Spec => []SpendWhole` |
| | `NeverTwice` | `Spec => PostedOnce` |
| | `Drift` | `Spec => []MemoDrift` |
| `IngestionProofs` | `Inductive` | `Spec => []IInv` |
| | `Typed` | `Spec => []TypeOK` |
| | `Once` | `Spec => []PostedOnce` |
| | `Backed` | `Spec => []RowsBacked` |
| | `Accounting` | `Spec => []DoneAccounts` |
| `MonthEndProofs` | `Inductive` | `Spec => []IInv` |
| | `NeverTwice` | `Spec => []ChargedOnce` |
| | `Typed` | `Spec => []TypeOK` |
| | `Told` | `Spec => []GateTells` |
| | `Blocked` | `Spec => OverdebitBlocks` |
| | `Closed` | `Spec => []InClosingMeansCharged`, if `MonthsCount` |
| | `Overcharged` | `Spec => []OverchargeBounded`, if `StartsWithin` |
| `PayrollProofs` | `Inductive` | `Spec => []IInv` |
| | `Typed` | `Spec => []TypeOK` |
| | `PaySound` | `Spec => []PaymentSound` |
| | `PaymentsMatch` | `Spec => []PaymentsRecorded` |
| | `EachRowOnce` | `Spec => []RowsAccounted` |
| | `Position` | `Spec => []PositionExplained` |
| `ReportsProofs` | `Agreed` | `Spec => []StatementsAgree` |
| | `Explained` | `Spec => []CashFlowExplained` |

`Sums` is what the proofs about amounts share. `MapThenSumSet` and
`SumFunctionOnSet` of the community modules fold a recursive function over the
subsets of a set, taking the elements in an order that `CHOOSE` decides. That the fold is
defined, and that its value is additive whatever the order, is by induction
on finite sets. An induction principle with a predicate for a parameter cannot be instantiated here,
so it is stated for a set: a set of subsets that has the empty one and,
with each, those of one element more has every finite one (`GrowingSets`), from
the least element of a set of naturals (`SmallestIn`). `SumAdd`,
`SumUnion`, `SumPlus`, `SumByKey`, `SumSwap`, `SumRenamed`, `SumAtMost` are the laws that are cited. A
sum of the models with a `LAMBDA` gets a bridge to them, as `AmountSum` is.

`PostingProofs` assumes `PostingAssumption` and `DraftsAssumption` (callers'
references are not bare decimal ids, and only `reverse_journal` sets
`reverses_je_id`). `ReversalsPaired` is not inductive: that a commit finds its
original still POSTED, although it read so long ago, follows only from the
references. An entry that had reversed it would carry the same `source_ref`
(`BookUnique`), and the committing transaction holds that reference against
the book and against every other open transaction (`InFlight`). `IInv` is
the conjunction of these with the types and the mirror. Steps other than
`Commit` leave the book alone, and the lemmas `BookKept` and `InFlightKept`
reduce them to what the moving slot does; `CommitFinds` and `CommitLeaves`
describe the commit once for `CommitBook`, `CommitInFlight` and the refinement
(`CommitIsLedgerStep`).

`SealedStays` needs the types and `InFlight` alone. A month that is CLOSED and that no transaction has
passed its check of (`Sealed`) stays so: whoever checks it now is refused, and only a reopen is let
through. An entry committed into it would be one that has passed the check.

`Overdrawn` needs `Finite`: there is a connection; connections, students and drafts are finitely many. Its invariant
`OverInv` is about what each connection past the trigger has promised to take (`Promise`): the balance less all
promises stays above the bound. Whoever passes the trigger has enough for itself, and the others hold
one promise each (`TriggerBounded`); a commit takes what was promised (`CommitBounded`); a reversal takes
as much as its original (`ReversalMoves`), so that `MostTaken` bounds every draft in flight.

`SanctionsProofs` assumes that amounts are positive and requests, the rows of a
table, finitely many. `TwoApprovals` needs
what holds while a transaction is open: that a CFO's decision still finds its request
PENDING_CFO at the commit, as no other transaction has the row (`Fits`,
`Apart`), and that a pending request has the FA's approval as its last decision
(`Backed`). `PostedOnce` follows, since an entry about to be posted is not in the book.
`Drift` has a second invariant (`MemoFollows`): request by request and side by side, what the
memo rows come to is given by the commitment, the spend and the lines by hand. The two sides of
the reconciliation then differ, term by term, as `MemoDrift` says.

`IngestionProofs` assumes that there are batches, that files and polls have
different ids, and that contents are sequences of rows. `PostedOnce` needs that
what a transaction has inserted is neither in the book nor in another (`Fits`,
`Apart`); the read that precedes it is of no help. `DoneAccounts` needs
`Progress`: how far a batch is, that its counters say so, and that no other
slot works on it. A skipped row is accounted for by `RowsBacked`, as only committed
entries make a duplicate. The lemmas `QuietKept`, `AdvanceKept`, `EndKept` and
`RefuseKept` treat the kinds of step, `FetchKept` to `CrashKept` the actions.

`MonthEndProofs` assumes `MonthEndAssumption` (an asset is not a prepaid, the keys of
one sub-ledger are not those of another, items and connections are finitely many, months are not
numbers), `DraftsAssumption` and `OpeningAssumption`: only the agents write DEP and
AMORT references, and the book starts with references of its own. That no
item is charged twice is not inductive, since what an open transaction has posted may
yet be committed. `IInv` says that a reference is used once in the book and in all that is posted
and not committed (`RefsApart`), and that a charge is named after the period and
the class or prepaid it charges (`WellNamed`, `Makes`); two charges of an item under
one label have one reference, hence are one entry. None of this depends on amounts.

What depends on them has its own invariants on top of `IInv`. `TypeInv`:
the types, a finite book, and the mirror is that of the book. `Told` follows from it alone: a control account and
the rows that mirror it differ by the lines of the side the mirror does not take, summed line by line.
`SeenInv`: what a close has read so far is a whole number, and nothing before the first read of a sub-ledger.
`Blocked`: no step lowers what the prepaid accounts have been debited (`PrepaidsGrow`), so from a state in which that
exceeds the table the difference a close has between its two reads of the prepaids is negative, whatever is
committed between them (`Kept0`), and its comparison fails. `ClosingInv`: a pre-close that has gone past an agent has,
for every item, a charge in the book or in hand, or read that nothing was left (`Orderly`, `Handled`); the charges
of others in between only lower what is left. It needs `MonthsCount`: where the cost of an item,
spread over its life, rounds to nothing, the agent posts nothing and the item is left uncharged for ever. `OverInv`: choose for
each connection one charge of an item that it has in hand, or none; all of them and what is charged stay
within the cost and a month for each connection but one. The choice is quantified
over functions from `Slots`, as several charges in one transaction are of several items; ids are not
used twice (`IdsApart`). It needs `StartsWithin`: there is a connection, and what the book starts with is within the costs.
What others charge an item only lowers what the agents have left to charge, and is not counted (`ByAgents`).

`PayrollProofs` assumes `PayrollAssumption`: rates and minutes are natural, a session
has a length. `HalfUpBounds` and `HalfUpMonotone` say what rounding half up does to a
quotient; `CutBounds`, `PaymentBounds` and `PaymentMonotone` follow for the pay of a session, so that
`PaymentSound`, which TLC evaluates on a grid in the initial state, holds for every rate, length and
number of minutes. `RowsAccounted` and `PaymentsRecorded` are the rest of `IInv` with the types, the
ids below `nextId`, and `Fits`: what a transaction has posted has an id that neither
the book nor another transaction has, and its record is of that payment.
`Position` rests on `PositionInv`: the tables are finite, each mirror row is of an entry in the book (an
id that is not used again), and for each tutor the mirror and the records of payments come to what the book
has by its payouts and by everything else, in AED. `Enters` is what accruals, revaluations, manual journals and
reversals have in common: one entry outside every sheet, with its row.

`ReportsProofs` assumes `ReportsAssumption` and `SeededCodes`, both facts of the chart or
of what is posted on it; the chart, the journals and the number of entries are arbitrary. Its invariant is that every entry is
balanced and on the chart (`Kept`). A figure of a statement is then a total of some lines of some entries (`Total`),
which is additive in both (`TotalLines`, `TotalEntries`, `TotalByMonth`, `TotalByKey`). `SheetSections` and
`ProfitSections` say which ranges a statement covers, and `NetCut` cuts one set of accounts into the sections of
either statement; over all accounts the total is nothing (`NetNothing`).

TLC checked every conjunct of the five `IInv`, and the conclusions of the other invariants named above, on the instances above.
Every invariant and every action property of the passing runs is proved. Only model-checked are
the liveness properties, `RequestsEnd` and `CallsEnd` of
`Posting`, `MonthEnd`, `Sanctions` and `Ingestion`: liveness is out of the prover's reach, as is
ENABLED. No module with a theorem reaches a RECURSIVE operator.

## 5. Where the project stands

Every part that writes to the ledger has its module. What could be added, in this order: the
two agents for intangibles and `post_payment`, when a route calls them;
the rows of the enrollment upload; the versions of tutor and student rates, when
their routes agree with the migrations; the chat's stores.

## 6. Not modelled

- The front end: a client without state that the ledger depends on.
- Chat: it reads the ledger through tools and writes none of it. Its loop is bounded by
  a constant, and its conversation is one user's. The PostgreSQL store names columns that
  the migrations do not create.
- Authentication, uploads, backup: who may call, files written once, a script
  started in the background. No property here depends on them.
- Routes whose SQL does not fit the migrations, so that every call fails and
  changes nothing: adding and listing tutor rates, creating and listing enrollments,
  the quarantine desk.
- `fx_rates`: a CFO's override is the only write, since the daily puller has no caller. A
  pre-close takes its rate from the request; the accrual of a session reads the latest rate up to
  its day, or takes 1 if there is none, which is the input `fx` of a session in `Payroll`.
- Code without a caller in the service: `post_journal_idempotent`, `post_payment`,
  `post_topup`, the intangible agents, the rule sets of `validation`.
- Configuration, logging, metrics, mail transport, seed data, deployment. The
  chart is loaded at start and constant afterwards.
