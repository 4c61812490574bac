# Caritas: a verification project

Caritas is the backend of a savings and credit society: Go services over one
PostgreSQL database, with M-Pesa (Safaricom Daraja) as the payment provider.
This directory holds TLA+ models of its core, the TLC configurations that check
them on small instances, and TLAPS proofs, for instances of any size, of every safety
property that the passing runs check. Paths below are relative to the repository.

## 1. The system

| Part | State | Operations | Meets |
|---|---|---|---|
| Share ledger, `internal/share` | `share_accounts`, append-only `share_transactions` with a running `balance_after`, `share_adjustments` | open an account, purchase, withdraw, dividend, adjust and approve, reverse | receipts, dividends and credits post into it in their own transactions |
| Share pledges, `internal/share/loan_security.go` | `share_pledges`, one row per account and loan | propose, activate, verify, release | called by the loan workflow under the account's lock |
| Loan workflow, `internal/loan` | `loans`, `loan_guarantors` | apply, add / approve / remove guarantor, approve, reject, disburse | Members (standing), Shares (security) |
| Loan money, `internal/loan` | `loan_transactions`, `loan_monthly_interest`, `repayment_schedules`, `credit_balances` | assess interest, record repayment, quote | receipts post repayments; settlement releases pledges |
| M-Pesa collections, `internal/contribution/daraja*.go` | `contribution_payment_requests`, `daraja_callbacks` | initiate STK, callbacks, callback worker, query worker, staff recovery | the provider; creates receipts |
| Receipts, `internal/contribution` | `contribution_receipts`, `contribution_allocations` | create, process, recover | posts to Shares, Loans, fees and charges |
| Fees and charges, `internal/contribution` | `contribution_monthly_fees`, `contribution_charges` | assess, quote, charge; collected by receipts | receipts; the status history of Members |
| Cash custody, `internal/contribution/cash.go` | `cashier_sessions`, `cash_deposits` | open, receive, close, hand over, deposit, verify | receipts, staff roles |
| Credits, `internal/loan/credit_handlers.go` | `credit_balances`, `credit_operations` | transfer to shares, apply to a loan, request / approve / reject / record a refund | Shares, Loans, staff roles |
| Dividends, `internal/contribution/dividends.go` | `dividend_declarations`, `dividend_allocations` | preview, approve, choose, settle | Shares, Members |
| CEEP reports, `internal/contribution/ceep.go` | `ceep_reports`, `ceep_snapshots` | draft, finalize | reads every domain |
| Members, `internal/member` | `members`, `member_profiles`, `member_branch_counters`, `member_status_history` | register, change status, close, update profile, lock active members | everybody asks whether a member is active |
| Staff and roles, `internal/auth` | `staff_users`, the role table | hire, deactivate, admit a call | in front of every RPC |
| Lists | page tokens | every `List...` handler | reads while others write |
| Dashboard, server | none; workers | reads; start and stop | - |

What is hard: every write is a PostgreSQL transaction at READ COMMITTED, so
correctness rests on row locks, on what is read *before* a lock, on unique
indexes and `ON CONFLICT`, and on `NOW()` being the time a transaction began.
Clients, receipt workers and the payment provider retry. The provider loses,
repeats and reorders its messages, and the server may stop between a provider
call and the row that records it. `PROJECT.json` lists these hazards line by
line, with the properties that would catch each going wrong.

## 2. Modules

| Module | Models | Used by |
|---|---|---|
| `Money` | what becomes of an amount finer than a column: cut off where Go compares it, rounded where PostgreSQL keeps it | `ShareLedger`, `LoanRepayments`, `CashCustody` |
| `ShareAccounts` | the status check of a posting, with the exemption of dividends | `ShareLedger`, `Dividends` |
| `SharePledges` | the `share_pledges` rows of one account and the queries on them | all share and loan modules |
| `SharePositions` | **abstract**: what Shares promises. One balance per account, never moved below its active pledges; shares reserved once | refined by the next two |
| `ShareLedger` | the ledger with overlapping transactions | `MCShareLedger`, `ShareLedgerProofs` |
| `ShareLedgerProofs` | theorems about `ShareLedger`, refinement included | |
| `LoanSecurity` | loan workflow, member standing and pledges together | `MCLoanSecurity`, `LoanSecurityProofs` |
| `LoanRepayments` | the money of one loan, and the quotes | `MCLoanRepayments`, `RepaymentProofs` |
| `ReceiptPosting` | receipts posted by several servers, lock by lock | `MCReceiptPosting`, `ReceiptProofs` |
| `DarajaPayments` | M-Pesa collections with crashes and lost messages | `MCDarajaPayments`, `DarajaProofs` |
| `MemberStatus` | the status machine of a member | `Members`, `MonthlyFees` |
| `MonthlyFees` | which months a member is charged for | `MCBackOffice` |
| `Members` | registration, status machine, closure, eligibility locks | `MCBackOffice` |
| `Staff` | staff accounts, roles, the interceptor's check | `CashCustody`, `Credits` |
| `CashCustody` | tills, handovers, deposits, with calls that overlap | `MCBackOffice` |
| `Credits` | what is done with overpayments | `MCBackOffice` |
| `ReviewedApproval` | **abstract**: officers review drafts, the first approval freezes exactly what its officer reviewed | refined by the next two |
| `Dividends` | the dividend of one branch and year | `MCBackOffice`, `ApprovalProofs` |
| `CeepReports` | the CEEP report of one branch and month | `MCBackOffice`, `ApprovalProofs` |
| `Listings` | page tokens while rows come and go | `MCBackOffice` |
| `MCBackOffice` | the seven back-office modules in one specification | `BackOfficeProofs` |
| `SumLemmas` | what sums over finite sets of rows do when a row is added or changed | the proofs of all modules that sum rows |
| `LoanSecurityProofs`, `RepaymentProofs`, `ReceiptProofs`, `DarajaProofs`, `ApprovalProofs`, `BackOfficeProofs` | theorems about the modules they extend | |

### ShareLedger

A transaction is an element of `open` from BEGIN to COMMIT or ROLLBACK. `Begin` fixes
`created_at`, because the column's default is `NOW()`. The stretch from `SELECT ... FOR
UPDATE` on the account to COMMIT is one step: every writer of the account's rows holds
that lock to the end. `ReverseShareTransaction` reads the original and its reversals
*before* it locks, so it takes two steps (`ReadOriginal`, then `ReverseShareTransaction`
or `ReverseReusedReference`). `Rollback` may end any open transaction and stands for
refusals, constraint violations, timeouts and crashes alike. `reply` is what the last
step returned, so that properties can speak about what a caller was told. Rows are
counted in quanta of KES 0.0001, the scale of their NUMERIC(19,4) columns; a sum of
pledges is the cardinality of a set of quanta, which keeps sums within the prover's
reach. Requests are counted in tenths of a quantum: no handler refuses more than four
decimals, the service computes and compares at nine, and `amount` and `balance_after`
are rounded one by one (`InsertShareTransaction`). Three things follow, and the
properties say them. A success stores the amount to the nearest quantum
(`SuccessMeansPosted`). A withdrawal that ends in exactly half a quantum is rounded up
twice, so its row says one quantum more than the balance lost (`Gap` in
`BalanceMovesByPosting`), and a reversal of it gives back what the row says, one quantum
more than was taken. And the identical retry of a finer amount is refused as a duplicate
reference (`RetryIsRecognisedIffWhole`): the gap of finding 4, in shares. An account is
opened by `OpenShareAccount`; its member is locked and active, which is `Members`.
`SetAccountStatus` is external: no code changes an account's status after it is opened.

### LoanSecurity

One step per operation of `internal/loan/service.go`: each is one
`ExecCollateralTx` that locks the loan, the members and the share accounts before
it reads them. Settlement (`CloseLoan`) is the end of the last repayment, whose
arithmetic is `LoanRepayments`. `MoveShares` stands for any ledger posting and is
exactly what `SharePositions` allows. A new loan row, a guarantor and a pledge
exist when their status is not `"none"`. Amounts are whole quanta here, unlike in
`ShareLedger`: `ApplyForLoan` compares principal and security cut off at a quantum,
and a finer application may be stored one quantum above what was compared.

### LoanRepayments

One loan after disbursement. `RecordRepayment` is the whole of
`RecordRepaymentForPeriodInTx`: retry check, period gates, interest catch-up,
penalty, allocation, row, schedule, settlement. `QuoteContributionLoans` and
`total_outstanding` are the two SQL queries that predict it. Amounts clients send
are in tenths of a quantum (`Money`), so that truncation in Go, rounding in the column
and the nine-decimal comparison of a retry are told apart. Init also allows a loan
older than monthly interest, which has no assessment yet.

### ReceiptPosting

`ProcessReceipt` is one transaction over five domains. Here it is a sequence of
steps in `worker[w]`, one for each row it locks (receipt, fees, charge, the
member's loans, the accounts that secure a settled loan one by one, the share
account), with the decision taken under that lock. What it would write stays in
`draft` and `closing` until `Commit`; `failReceipt` is ROLLBACK TO SAVEPOINT and
the failure status; every other error ends the transaction and leaves the receipt
pending (`AfterError`). A worker whose row is taken waits (`Wait`), and a released
row goes to a waiter. `LockTimeout` and `Crash` may hit anywhere; transactions that
wait for each other are broken by PostgreSQL or by `lock_timeout`
(`BreakDeadlock`). `CreateCashReceipt` and `QuoteSTK` are one step each, taken when
the rows they lock are free: they write only the new row. An STK receipt is created
later, exactly as it was quoted (`CreateSTKReceipt`; how it gets there is
`DarajaPayments`). A posted amount counts towards fees, charges and loans through
`posted`, the set of completed allocations; a charge takes money only once
`CreateCharge` has made it. Every month of the instance is charged, and
`MonthlyFees` decides which ones are. COM and LGOM are one fee, a member has
one charge, and the arithmetic of a repayment is `LoanRepayments`; Loans may refuse
any repayment (`RefuseRepayment`). Amounts are whole quanta. The five-second age a receipt
needs before it is listed only delays it.

### DarajaPayments

One step per database transaction or provider call. A call of
`InitiateDarajaSTKPayment` moves through its phases in `call`; `RecoverDaraja`
and `QueryPendingDaraja` in `worker` and `querier`. `prompt` is external: which
request each prompt on a phone belongs to, and every outcome the provider may
report for it, in any order, once, repeatedly or never. Any of the three may die
between two steps. Retry delays are left open: whatever is due may run at any
later time. An allocation below one quantum passes the checks before the prompt and is
refused by its column when the receipt is created; requests here have none.

### Members

`UpdateMemberStatus` and `CloseMember` read the member without a lock, decide, and
update the row whatever it holds by then: `ReadStatus` or `ReadToClose`, then
`Apply`. The update asks only `is_deleted = FALSE`, waits for shared locks
(`MayUpdate`) and writes the history row in the same transaction. The number of a
registration is taken under the counter's row lock and given back with the
transaction when `ON CONFLICT DO NOTHING` returns no row. `LoanSecurity` has its own,
coarser view of a member: a status that may change between two operations.

### MonthlyFees

`AssessMonthlyFees` charges a month when the member was active at its start or was
activated during it, which it reads from `member_status_history` in the order of
`created_at`, the begin time of the transaction that changed the status. So BEGIN, the
unlocked read and the update are three steps here (`BeginStatusTx`, `DecideStatus`,
`WriteStatus`), and a month is a midnight on the same clock (`starts`); no two events
have the same time. `QuoteMonthlyFees` is the mirror the cashier sees. Registration is
compared with midnight in the session's time zone, three hours off; no fee depends on
it, because a member registers as pending.

### CashCustody, Credits and Staff

A call is admitted by `Staff` and then holds its rows (`HoldRows`, `BeginCredit`)
until it commits or aborts in a later step. `late` holds people who were deactivated
while a call of theirs was on its way: the interceptor has already let it in.
`OpenCashierSession` is one statement, and `VerifyCashDeposit` reads and updates
without a transaction. Cash is counted as in `Money`. `RecordCashDeposit` compares the
slip cut off at a quantum and stores it rounded, so a slip of half a quantum more than
the count is accepted and banked as one quantum more (`SlipMatches`,
`DepositsAccountForCash`). A count is treated the same way at closing, but there the
table's own check sees the rounded count: without a reason the difference is refused
after the service let it through (`VarianceExplained`). A reason is modelled by whether
there is one. Credits come from `LoanRepayments`; the posting of a transfer
or an application is one row in `ledgerRows`, the inside of which is `ShareLedger`
and `LoanRepayments`. `OwnerCloses` is `CloseMember` seen from here.

### Dividends and CeepReports

Both compute a document, show it to an officer, and at approval compute it again and
compare hashes; both save with `ON CONFLICT DO NOTHING` in a transaction without
locks, so that computing and saving are two steps. The hash is modelled by the
content. What the documents are computed from is `sources` and `ceepSources`, which
any other component may change at any time. For dividends a source is what the query
reads of a member (status, accounts, balance, qualifying months), and eligibility,
rounding and totals are computed from it; the figures of a CEEP report are one opaque
value. Choice and settlement hold the allocation's row and are one step. Reinvestment is
a posting by `postTransactionInTx` (`PostDividendInTx`): an existing posting of the
allocation is found again, and a new one needs an account that accepts it. The account's
status changes independently of the member's, by an operator; accounts are opened and
duplicated, never deleted.

### Listings

One walk through one list: `ListPage` is the query with `LIMIT n + 1`, the look-ahead
row and the next token; rows come and go in between. The order and the cursor of every
paged query are here; those that sort by `(created_at, id)` differ only in the page
size. A row is its position in the order.

## 3. Runs

| Run | Expect | Shows |
|---|---|---|
| `ShareLedger` | pass | active pledges stay within the balance; at most one posting per reference and one exact reversal per row, approvals and postings together (`Books`); truthful replies; the balance moves only by what is posted, up to the rounding of half a quantum; `SharePositions` is implemented |
| `ShareLedgerOverlap` | violation | two overlapping transactions: the balance read is not the sum of the ledger (finding 1) |
| `ShareLedgerReuse` | violation | success without a reversal (finding 2) |
| `LoanSecurity` | pass | approved and disbursed loans stay secured, security leaves only with the loan, Loans and Shares agree, two loans never reserve the same shares (`SharePositions` is implemented) |
| `LoanSecurityClosure` | violation | a member with obligations is closed (finding 3) |
| `LoanRepaymentsBooks` | pass | interest on opening balances, exact allocation, schedule, settlement; quotes and the settlement figure are what the next payment does |
| `LoanRepaymentsFine` | violation | the retry of a finer amount conflicts with itself (finding 4) |
| `DarajaPayments` | pass | one prompt per request; receipts only for money; completion, receipt and processed callback together; failure only on the provider's word; evidence is never erased; an accepted payment becomes a receipt |
| `ReceiptPosting` | pass | a receipt posts everything or nothing; fees, charges and loans are paid once whatever was quoted; every pending receipt is decided in the end |
| `BackOffice` | pass | members: records agree, eligibility is held. Fees: whether a past month is charged does not depend on when it is asked. Dividends: approval freezes what was reviewed, everything adds up, settlement stays open. CEEP: one report. Cash and credits: every quantum is accounted for, up to the rounding of a deposit slip; two persons are needed, in their roles. Lists: every row once. Decisions are final everywhere |
| `MemberReopened` | violation | a closed member is suspended and reopened (finding 5) |
| `MemberListing` | violation | a walk through the members misses most of them (finding 6) |

`BackOffice` checks seven modules in one run. They share no rows in these models, so a
behaviour works on one of them (`focus`, chosen in Init) while the others stay as they
began: the state space is the sum of the seven, not the product. A property that joins
several parts, such as `DecisionsAreFinal`, has one mutant for each of them.

Bounds, and why they are enough to be interesting:

* `ShareLedger`: `MaxOpen = 2` and `MaxBegins = 3` give two overlapping transactions and
  one more, enough for a posting, a stale reversal and its rival, and for a third
  posting that builds on the wrong row. Amounts of 1 and 1.5 quanta, -1, and a
  correction of -1.5 reach zero, exact and insufficient balances and every kind of
  rounding: up, and apart in `amount` and `balance_after`. `WorkBound` stops the search
  where transactions begun and corrections asked for come to more than 4: a behaviour
  has three transactions and one correction, or fewer transactions and more corrections.
* `LoanSecurity`: two loans of 2 and three members with one share each: every loan
  needs two pledges and the two compete for the third. `MaxGuarantors = 2` is reached
  with rejected rows; `MaxUnavailable = 1` suspensions or closures. `WorkBound` stops the
  search where loans applied for, loans ended and members unavailable come to more than
  3: both loans with one of them ended or one member missing, or one loan with all of it.
* `LoanRepayments`: a principal of 5 at a quarter a month rounds both ways; 2
  installments leave a remainder; amounts 1, 2, 5, 7 and 8 underpay, hit and overpay
  what is due in months 0 to 3 with at most one penalty.
* `DarajaPayments`: one request, two calls and two checkout IDs: a second prompt for
  one request is possible in the model. `MaxAttempts = 2` stands for 8, and
  `MaxDeaths = 1` for the crashes of one behaviour, so that one attempt in two is lost and
  one survives; requests share no state apart from
  the unique checkout ID.
* `ReceiptPosting`: two workers and two receipts, every conflict between two
  transactions. The requests are chosen so that each pair competes for something else:
  the same month's fee; a charge of 2 paid with 1 and with 2; the two halves of one
  loan; and loans secured by accounts {1,3}, {1,2} and {2,3}, which two receipts lock
  in opposite orders. `MaxFaults = 1` server stop, timeout, staff retry or account
  status change, anywhere; deadlocks are not counted.
* `BackOffice`: two callers everywhere. Two people register, each with at most
  `MaxChanges = 2` status changes. `MaxMonths = 2` and `MaxBegun = 3`: a month with
  changes before, during and after it. Two shareholders who are active, suspended or
  deleted, have no account, one or two, at amounts that round, in accounts that are
  frozen and released. Two sessions, one idempotency key for both, receipts of 1
  quantum, counts of 0, 1 and 1.5, slips of half a quantum to 2, two bank references, an
  administrator, a manager and one to be hired, of whom `MaxLeavers = 1` leaves;
  `CashBound` follows two sessions while nobody has left and amounts are whole, one
  session once somebody has left or an amount is finer, and gives a reason only where
  the count differs. Two credits of 2, two operations, two payout references. Four rows,
  pages of 1, 2 (the default, 50 in the code) and 3 (the maximum, 100 or 1000).

`WorkBound` and `CashBound` are CONSTRAINTs of the search and keep each run within two
minutes. They change no specification: the theorems of section 5 know no such bound.

Deadlock is not checked: a system in which nobody asks for anything is idle, and
the bounds end every behaviour. Symmetry is used for references, loans, members,
gateway ids, callers and the like in runs that check safety only.

Fairness is assumed in two runs. In `DarajaPayments`, `FairSpec` has weak fairness of
the callback worker's steps: `cmd/server/main.go` starts `RecoverDaraja` with the
server, and it loops on a ticker until the server stops. Nothing is assumed of clients,
of the provider, of staff or of the query worker. `AcceptedPaymentCompletes` promises
the receipt when the worker can no longer die in every attempt the callback has left (in
the run one death is spread over two attempts); eight deaths would leave it to staff, as
in the code. A callback that arrives over the unsigned route before its checkout ID is
known may use up its attempts, so the promise is made once the request knows the
checkout.

In `ReceiptPosting`, `FairSpec` has weak fairness of each server's worker, which
`cmd/server/main.go` starts the same way. Deadlocks may recur without bound; server
stops and timeouts without a deadlock happen at most `MaxFaults` times. That
assumption is needed: two servers whose transactions take longer than the
two-second `lock_timeout`, round after round, could starve each other for ever.

## 4. Findings

1. **Balances can lose a posting.** `GetLatestBalance` takes the row with the
   greatest `created_at`, which is the begin time of its transaction. Two postings
   to one account that overlap can be committed in the other order; the next one
   starts from the wrong row. `BalanceMovesByPosting` still holds, and so does
   `PledgesCovered`: decisions stay consistent with the balance they read, which is
   no longer the sum of the ledger.
2. **A reversal can report another's success.** With the reference of an earlier
   reversal, `ReverseShareTransaction` returns that one and reverses nothing.
3. **Closing a member asks nobody.** The members specification requires
   authoritative checks; `CloseMember` and `UpdateMemberStatus` make none.
4. **A retry may conflict with itself.** An amount with more than four decimals is
   stored rounded and compared at nine decimals.
5. **A closed member can be reopened.** A status change decided before a closure is
   written after it, unless the closure came through `CloseMember`, which also sets
   `is_deleted` (`DeactivationIsFinal`).
6. **The second page of members starts over.** `ListMembersByBranchCursor` sorts
   upwards and continues downwards.

`PROJECT.json` quotes the documents.

## 5. Proofs

All proofs are checked by TLAPS for every value of the constants, under the named
assumptions of the modules: amounts, bounds and rates are numbers, sets of rows that are
summed are finite, "nobody" is not a person, and "no voucher" is not a voucher (the code
requires the field). `RepaymentConstants` also says that a
loan has at least one quantum (KES 0.0001) of principal per installment. The
inductive invariants below also hold on the instances of the runs, where TLC checked
them. 38 of the 40 properties of the passing runs are theorems; the other two are
liveness, at the end of this section.

Each finding has a theorem on the other side of it: what the code does guarantee, under
the one condition that the violating run shows to be missing.

| Finding | Holds | Provided that | Theorem |
|---|---|---|---|
| 1 | `BalanceIsSumOfPostings` | postings to an account commit in the order they began, and no amount ends in half a quantum | `OrderlyBalanceIsSum` |
| 2 | `SuccessMeansReversed` | no reference is used for the reversals of two rows | `SuccessIsReversed` |
| 3 | `ClosedMembersAreClear` | a member who is closed has no active pledge and no active loan at that moment | `CheckedClosuresStayClear` |
| 4 | `RetriesAreRecognised` | amounts are whole quanta | `WholeRetriesAreRecognised` |
| 5 | `ClosedIsTerminal` | no two status changes of one member overlap | `OrderlyClosuresAreFinal` |
| 6 | `WalkListsEveryRowOnce` | the cursor continues in the direction of the order | `WalksAreComplete` |

**Sums (SumLemmas).** The community modules define a sum by a recursive function, so
facts about sums need induction over sets. They are proved here by a minimal
counterexample: the strict subsets of a finite set are well-founded, so a set of
subsets that violate a fact has a smallest member, and one element less contradicts
it. From this come the laws the proofs use: one more row (`SumAdd`), one row changed
(`SumUpdate`), two disjoint parts (`SumSplit`), equal columns (`SumSame`).

**ShareLedgerProofs.** `IInv == TypeOK /\ Stamps /\ Position` is inductive.
`PledgesCovered` alone is not: the balance is the `balance_after` of a row
*chosen* by its time stamp, so one must know that stamps are distinct, lie in the
past, and that an open transaction has no row yet (`Stamps`), and that every
non-empty set of rows has a latest one and pledged quanta are finite (`Position`).
The key lemma is that inserting a row either makes it the latest, and the balance
moves by its effect and the `Gap` of its rounding, or leaves the balance alone, because
some row is younger; either way it stays at or above the pledges, which are whole
quanta, so that rounding an unrounded balance above them keeps it there. On top of it
`BInv == IInv /\ Requests /\ Books /\ SuccessMeansPosted` carries what open
transactions know about the rows they were begun for (`Requests`), which is what
makes a stale reversal harmless, and the bookkeeping properties themselves.

`LedgerImplementsPositions` proves the refinement `Spec => ImplementsPositions`
that the run `ShareLedger` checks. A balance is mapped to `GetLatestBalance`, a
pledge to its row. Under `IInv`, inserting a row is an abstract `Move` or, when a
younger row hides it, a stutter; the pledge operations are `Propose`, `Reserve`,
`Activate` and `Release`; every other step leaves balances and pledges alone.
`SameCount` relates the quanta counted on both sides.

`OrderlyBalanceIsSum` complements finding 1. As long as postings to an account commit in
the order in which they began (`PostsInOrder`) and no amount ends in half a quantum
(`NoHalves`), the balance read is the sum of all rows; overlapping transactions do no
harm by themselves. No other theorem of this module assumes anything of amounts.
`SuccessIsReversed` does the same for finding 2: the answer of `ON CONFLICT DO NOTHING`
is the row that has the reference, and as long as a reversal under way meets its own
reference only on reversals of the same row (`ReversalsOwnTheirReference`), success
means that this row is reversed. A retry meets that condition, so retries are not the
problem. The proof goes by what each step may answer (`Replies`).

**LoanSecurityProofs.** `LoanInv` says of each loan by itself what its status allows:
its guarantor rows, the pledge row behind each, and, once approved, active pledges that
cover the principal. Stated loan by loan it is inductive, because an operation touches
one loan and the pledges of that loan only. `SecurityHeld` is the action property, and
`WorkflowImplementsPositions` the refinement: an operation that gives security is one
`Propose`, `Reserve` or `Activate`, one that ends a loan is one `Release` of all its
pledges, and every other operation leaves balances and pledges alone.
`CheckedClosuresStayClear` answers what finding 3 would take to repair: with the check at
the closure nothing else is needed, because no operation activates a pledge of, or pays
out a loan to, a member who is not active (`OnlyActiveIncur`). Pending pledges and
proposals of a closed member may stay; they are never activated.

**RepaymentProofs.** `RepaymentInv` has the types, the interest of every month on its
opening balance, the totals against what was charged, and the schedule. The period gate
(`PeriodAccepted`) is what keeps opening balances: a payment belongs to the last month
assessed, and no month up to it opens later (`RepaymentKeepsInterest`). The schedule
adds up to the principal because all installments but the last are equal, by a least
counterexample (`EqualInstallments`); a walk of `updateScheduleStatuses` that does not
reach an installment leaves a status that is still true, because principal repaid never
shrinks (`WalkIsTrue`). The quotes are exact because the months a quote calls unposted
are those the payment assesses (`AssessmentGrows`). All of this holds for any amounts.
`MoneyIsAccountedFor` and the settlement figure in `QuotesStand` assume `WholeQuanta`,
that clients send no fractions of a quantum, because the code cuts off what the column
rounds; `RowsStandForWhatWasSent` says what holds without it: the parts of a payment add
up to what was sent, cut off, and the column shows it rounded. Finding 4 comes from the
same gap, and `WholeRetriesAreRecognised` closes it for whole quanta.

**ReceiptProofs.** `ReceiptInv` ties what each worker has drafted to the rows it holds:
a worker that is past a lock holds it (`WorkerOK`), no two workers hold one row
(`Exclusive`), and what it drafted for a debt was computed from what is posted now,
since nobody else can post to that debt meanwhile. With that, COMMIT keeps
`AllOrNothing` and `DebtsPaidOnce` whatever crashes, timeouts and deadlocks came before.

**DarajaProofs.** `DarajaInv` says what everyone in flight knows: a call that is past
its first transaction is the only one of its request (`CallsAlone`), and what calls,
rows, stored callbacks, the worker and the query worker believe about a prompt was really
said by the provider (`CallsTruthful`, `RowsTruthful`, `CallbacksTrue`,
`WorkerTruthful`, `QuerierTruthful`). The properties alone are not inductive: the
program acts on what it read before it called the provider.

**ApprovalProofs.** `CeepSpec` and `DividendsSpec` implement `ReviewedApproval`. In
both, the fact that makes the abstract `Freeze` possible is that what an open approval
has computed is still the draft in its officer's hand (`CeepInv`, `DividendInv`): the
comparison happens in an earlier transaction step than the save. `PaymentInv` adds that
only allocations with a choice are settled, which makes a settled one immutable;
`RegisterBooks` adds the total against the sum of the allocations, for `DividendsAddUp`.
`DividendsNeverStick` is that a payable dividend can always be chosen or settled,
whatever happened to the member and the account since approval. `SettlementStaysOpen`
states it with the guards of the actions (`Choosable`, `VoucherIsNew`,
`PostDividendInTx`), so no ENABLED is needed; `OpenInv` adds that only an approval makes
allocations eligible and that a voucher in use is that of a settled payment, and
`AccountInv` that an eligible member has an account. That suffices only because
`AccountAccepts` asks nothing more for a dividend; and no posting is met that would not
be the allocation's own, since a posting exists exactly for what was settled in shares.
It assumes that vouchers do not run out before shareholders do (`VouchersSuffice`), as
they are free text in the code; the run has two for two.

**BackOfficeProofs.** One invariant per part.

* `MembersInv`: `Decisions` is what the read without a lock leaves behind. An open
  status change holds a transition of the table, and a member without a row has no
  history and was never deleted, so a registration cannot overwrite either. With status
  changes of a member one at a time, what an open one has read is still so when it writes
  (`ReadsStand`), and `OrderlyClosuresAreFinal` follows from the table of transitions.
* `CashInv`, `CreditsInv`: what an open call was told when it took its rows is still
  true, as it holds them (`CallFits`, `CreditCallFits`), and no two calls hold one row.
  `VerifyCashDeposit` holds none; its update repeats the condition it read. Amounts are
  any: `CashIsAccountedFor` allows a deposit the quantum that rounding adds, and
  `WholeSlipsBankTheCount` shows that nothing else does: when no slip names half a quantum,
  a deposit is what was counted (`Slack`).
* `RolesInv`: a call waits with the role it was admitted with, and roles are given once;
  so the people named on sessions and deposits are in their roles (`CustodyStaysInRole`).
* `WalkInv`: rows beyond the token have not been returned, rows that stayed and are not
  beyond it have. It needs that the cursor continues in the direction of the order,
  which `WalksAreComplete` assumes of the lists considered (`CursorFollowsOrder`): every
  list of the program except `ListMembers`, which is finding 6.
* `FeesInv`: an open status change has begun in the past, and months begin in order.
* `OfficeTyped`, `DutiesStaySeparate` and `DecisionsStay` combine the parts into the
  properties of the run `BackOffice`, for `MCSpec` and any constants.

**Only model-checked.** Liveness (`AcceptedPaymentCompletes`, `PendingReceiptsSettle`),
since fairness is out of the prover's reach. The properties of the runs that expect a
violation are false without the conditions of the table above.

## 6. Not modelled

Left out:

* The dashboard and the read handlers that do not page: queries only. The SQL of CEEP
  figures and of qualifying months: the models take their results as inputs. Exemptions
  from fees have columns and no code.
* Tokens and the identity provider; configuration, wiring, scripts and clients.
* Generated code. 31 thousand of the 42 thousand lines of Go are generated: protobuf
  messages, gRPC stubs and gateways (21,600), and sqlc's database access (9,300), in
  which only the SQL statements carry logic. Those statements are modelled, and the map
  points at them in the generated Go that the program runs. Of the rest, large parts
  convert protobuf messages, check formats and map errors to codes. The map therefore
  covers a small share of all lines, but most of the services and workers.
* Audit rows, reasons, names and phone numbers carry no control and are abstracted away
  everywhere.

Hazards that no document promises anything about, and that the models reach: a cashier
deactivated with an open session leaves it open for ever; an approved refund of a member
who is closed meanwhile cannot be settled; the last administrator can be deactivated; a
request failed, paid late and with its success callback lost is left to staff.

`PastFeesStand` holds for status changes that are recorded in the order in which they
began. `MonthlyFees` also reaches the others: when an activation and a rejection of one
pending member overlap and the activation is written last, the history ends with the
rejection, and the active member is not charged until the status changes again. The
causes are those of findings 1 and 5.
