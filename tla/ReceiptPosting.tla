--------------------------- MODULE ReceiptPosting ---------------------------
(***************************************************************************)
(* Contribution receipts (internal/contribution): money that was received  *)
(* once is applied to monthly fees, charges, loans and shares, in the      *)
(* ledgers of their owners, by recovery workers that run in every server.  *)
(*                                                                         *)
(* ProcessReceipt is one PostgreSQL transaction.  Here it is a sequence of *)
(* steps, one for each row it locks, together with what it decides while   *)
(* it holds the rows locked so far.  What it writes is a draft that nobody *)
(* else sees before COMMIT.  Between two steps other workers run, a lock   *)
(* may time out, or the server may stop.                                   *)
(***************************************************************************)
EXTENDS Integers, Sequences, FiniteSetsExt

CONSTANTS
    Workers,      \* RecoverPendingReceipts, one per server
    Accounts,     \* share_accounts.id; ids are numbers, locked in order
    Loans,        \* loans.id, numbers too
    AccountOf,    \* member -> the member's share account
    OwnerOf,      \* loan -> the member who owes it
    Pledgors,     \* loan -> the share accounts that secure it
    Debt,         \* loan -> what is owed
    Fee,          \* the monthly fee (COM and LGOM)
    Charge,       \* member -> the amount of the member's one charge, 0 if there will be none
    Requests,     \* what members and cashiers ask for (see Request)
    MaxReceipts,  \* bound on the receipts of one behaviour
    MaxFaults     \* bound on server stops, timeouts, staff retries and status changes

Members == DOMAIN AccountOf

\* Amounts by target; a zero amount is no allocation.  The amount received is
\* their sum, the fees included.
Request == [channel : {"cash", "daraja_stk"}, member : Members, period : Nat,
            charge : Nat, share : Nat, loan : [Loans -> Nat]]

ASSUME ReceiptConstants ==
    /\ Accounts \subseteq Nat /\ Loans \subseteq Nat
    /\ AccountOf \in [Members -> Accounts]
    /\ OwnerOf \in [Loans -> Members]
    /\ Pledgors \in [Loans -> SUBSET Accounts]
    /\ Debt \in [Loans -> Nat \ {0}]
    /\ Charge \in [Members -> Nat]
    /\ {Fee, MaxReceipts, MaxFaults} \subseteq Nat
    /\ Requests \subseteq Request
    /\ \A q \in Requests, l \in Loans : q.loan[l] > 0 => OwnerOf[l] = q.member

VARIABLES
    receipts,  \* contribution_receipts, or the request an STK receipt will come from
    charged,   \* contribution_charges: the members who have been charged
    posted,    \* completed allocations: <<receipt, target, loan>>, with their ledger rows
    loanOpen,  \* loan -> it is not closed
    active,    \* the share accounts whose status is active
    worker,    \* worker -> the state of its ProcessReceipt
    faults     \* server stops, timeouts, staff retries and status changes so far

vars == <<receipts, charged, posted, loanOpen, active, worker, faults>>

Ids == 1 .. Len(receipts)

Steps == {"next", "receipt", "fees", "charges", "loans", "repay", "release", "share", "commit"}

Targets == {<<"fee", 0>>, <<"charge", 0>>, <<"share", 0>>} \cup ({"loan"} \X Loans)

\* Rows that are locked: <<table, id, period>>.
Lock == {"receipt", "fees", "charge", "loan", "share"} \X Nat \X Nat

Idle == [step |-> "next", r |-> 0, queue |-> {}, held |-> {}, draft |-> {}, closing |-> {},
         blocked |-> FALSE]

TypeOK ==
    /\ \A r \in Ids :
          /\ receipts[r].status \in {"quoted", "pending", "completed", "failed", "manual_review"}
          /\ receipts[r].fee \in 0 .. Fee
          /\ receipts[r].request \in Request
    /\ charged \subseteq Members
    /\ posted \subseteq {<<r, t[1], t[2]>> : r \in Ids, t \in Targets}
    /\ loanOpen \in [Loans -> BOOLEAN]
    /\ active \subseteq Accounts
    /\ faults \in 0 .. MaxFaults
    /\ \A w \in Workers :
          /\ worker[w].step \in Steps
          /\ worker[w].queue \subseteq Ids
          /\ worker[w].held \subseteq Lock
          /\ worker[w].closing \subseteq worker[w].draft /\ worker[w].draft \subseteq Loans
          /\ worker[w].step = "next" => worker[w].held = {} /\ ~worker[w].blocked

Init ==
    /\ receipts = <<>>
    /\ charged = {}
    /\ posted = {}
    /\ loanOpen = [l \in Loans |-> TRUE]
    /\ active = Accounts
    /\ worker = [w \in Workers |-> Idle]
    /\ faults = 0

-----------------------------------------------------------------------------
(* What has been paid.                                                     *)

AmountOf(r, target, l) ==
    CASE target = "fee"    -> receipts[r].fee
      [] target = "charge" -> receipts[r].request.charge
      [] target = "share"  -> receipts[r].request.share
      [] target = "loan"   -> receipts[r].request.loan[l]

\* SUM(amount) of the completed allocations of the receipts S to a target.
PaidBy(S, target, l) ==
    SumFunctionOnSet([r \in Ids |-> AmountOf(r, target, l)], {r \in S : <<r, target, l>> \in posted})

\* The other receipts of a member.
OthersOf(m, except) == {r \in Ids : receipts[r].request.member = m /\ r # except}

feesPaid(m, period, except) ==
    PaidBy({r \in OthersOf(m, except) : receipts[r].request.period = period}, "fee", 0)

\* What is left of the fee, not counting what the receipt `except' paid.
monthlyFees(m, period, except) == Max({0, Fee - feesPaid(m, period, except)})

chargePaid(m, except) == PaidBy(OthersOf(m, except), "charge", 0)

\* A mutant: the number of rows found is not compared.
OwedAnyway(m, except) == Charge[m] - chargePaid(m, except)

\* A charge that does not exist takes nothing.
outstanding(m, except) == (IF m \in charged THEN Charge[m] ELSE 0) - chargePaid(m, except)

loanPaid(l) == PaidBy(Ids, "loan", l)

\* The allocation rows of a receipt.
AllocationsOf(r) == {t \in Targets : AmountOf(r, t[1], t[2]) > 0}

-----------------------------------------------------------------------------
(* Charges are recorded apart from the money that pays them.               *)

\* A repeated key returns the row that exists and changes nothing.
CreateCharge(m) ==
    /\ Charge[m] > 0
    /\ m \notin charged
    /\ charged' = charged \cup {m}
    /\ UNCHANGED <<receipts, posted, loanOpen, active, worker, faults>>

-----------------------------------------------------------------------------
(* Receipts are created.                                                   *)

NoLocks(q) == {}  \* a mutant

\* LockMonthlyFees, LockContributionCharges, LockMemberContributionLoans and
\* LockLoanByID, LockAndReadAccount and LockLoanShareAccounts.
FeeLocks(q)    == {<<"fees", AccountOf[q.member], q.period>>}
ChargeLocks(q) == IF q.charge > 0 THEN {<<"charge", AccountOf[q.member], 0>>} ELSE {}
LoanLocks(S)   == {<<"loan", l, 0>> : l \in S}
ShareLocks(S)  == {<<"share", a, 0>> : a \in S}

\* LockMemberContributionLoans locks every payable loan of the member.
LoansOf(m) == {l \in Loans : loanOpen[l] /\ OwnerOf[l] = m}

PaidLoans(q) == {l \in Loans : q.loan[l] > 0}

Received(q, status, fee) ==
    /\ Len(receipts) < MaxReceipts
    /\ receipts' = Append(receipts, [status |-> status, fee |-> fee, request |-> q])
    /\ UNCHANGED <<charged, posted, loanOpen, active, worker, faults>>

\* The transaction that accepts a request holds these rows when it commits.
Unlocked(L) == \A w \in Workers : worker[w].held \cap L = {}

\* CreateCashReceipt of a new idempotency key: fees are added, charges, loans
\* and shares are checked under their locks.  Refusals change nothing; the
\* minimum installment only refuses.  Cashier sessions and the member's
\* standing are left to their owners.
CreateCashReceipt(q) ==
    /\ q.channel = "cash"
    /\ Unlocked(FeeLocks(q) \cup ChargeLocks(q) \cup LoanLocks(LoansOf(q.member))
                \cup (IF q.share > 0 THEN ShareLocks({AccountOf[q.member]}) ELSE {}))
    /\ q.charge <= outstanding(q.member, 0)
    /\ \A l \in PaidLoans(q) : loanOpen[l]
    /\ q.share > 0 => AccountOf[q.member] \in active
    /\ Received(q, "pending", monthlyFees(q.member, q.period, 0))

\* createContributionPaymentRequest quotes the same fees and checks the same
\* charges before the prompt is sent, and reserves nothing.
QuoteSTK(q) ==
    /\ q.channel = "daraja_stk"
    /\ Unlocked(FeeLocks(q) \cup ChargeLocks(q) \cup LoanLocks(LoansOf(q.member)))
    /\ q.charge <= outstanding(q.member, 0)
    /\ Received(q, "quoted", monthlyFees(q.member, q.period, 0))

SetStatus(r, status) == [receipts EXCEPT ![r].status = status]

\* The member pays later, and the receipt is created as it was quoted.
CreateSTKReceipt(r) ==
    /\ receipts[r].status = "quoted"
    /\ receipts' = SetStatus(r, "pending")
    /\ UNCHANGED <<charged, posted, loanOpen, active, worker, faults>>

MayRetry(r) ==
    receipts[r].request.channel = "daraja_stk" /\ receipts[r].status \in {"failed", "manual_review"}

\* retry_posting by staff.
RetryDarajaReceipt(r) ==
    /\ faults < MaxFaults
    /\ MayRetry(r)
    /\ \A w \in Workers : <<"receipt", r, 0>> \notin worker[w].held
    /\ receipts' = SetStatus(r, "pending")
    /\ faults' = faults + 1
    /\ UNCHANGED <<charged, posted, loanOpen, active, worker>>

-----------------------------------------------------------------------------
(* ProcessReceipt.                                                         *)

ReceiptOf(w) == worker[w].r
RequestOf(w) == receipts[worker[w].r].request

\* The loans of this receipt that are still to be posted, in order.
Unposted(w) == PaidLoans(RequestOf(w)) \ worker[w].draft

\* The loan just posted is the last one of the draft.
Settled(w) == Max(worker[w].draft)

\* The accounts ReleaseLoanSecurity has still to lock.
Unreleased(w) == {a \in Pledgors[Settled(w)] : <<"share", a, 0>> \notin worker[w].held}

\* The row whose lock a worker's next step needs.
Wanted(w) ==
    CASE worker[w].step = "receipt" -> {<<"receipt", ReceiptOf(w), 0>>}
      [] worker[w].step = "fees"    -> FeeLocks(RequestOf(w))
      [] worker[w].step = "charges" -> ChargeLocks(RequestOf(w))
      [] worker[w].step = "loans"   -> LoanLocks(LoansOf(RequestOf(w).member))
      [] worker[w].step = "repay"   -> LoanLocks({Min(Unposted(w))})
      [] worker[w].step = "release" ->
            IF Unreleased(w) = {} THEN {} ELSE ShareLocks({Min(Unreleased(w))})
      [] worker[w].step = "share"   -> ShareLocks({AccountOf[RequestOf(w).member]})
      [] OTHER -> {}

HeldByOthers(w) == UNION {worker[v].held : v \in Workers \ {w}}

\* A row is granted to the worker that already waits for it.
Granted(w) ==
    /\ Wanted(w) \cap HeldByOthers(w) = {}
    /\ \A v \in Workers \ {w} :
          worker[v].blocked /\ ~worker[w].blocked => Wanted(v) \cap Wanted(w) = {}

At(w, step) == worker[w].step = step /\ Granted(w)

\* The step is done and the lock is held until the transaction ends.
Goto(w, step) ==
    worker' = [worker EXCEPT ![w].step = step, ![w].held = @ \cup Wanted(w), ![w].blocked = FALSE]

\* The transaction has ended; the worker goes on with its list.
Done(w) == [Idle EXCEPT !.queue = worker[w].queue \ {ReceiptOf(w)}]

\* A mutant: the worker hangs with the receipt locked.
StopsWorker(w) == [Idle EXCEPT !.step = "receipt", !.r = ReceiptOf(w), !.blocked = TRUE,
                               !.held = {<<"receipt", ReceiptOf(w), 0>>}]

\* A mutant: the worker goes on and leaves its transaction open.
LeavesOpen(w) == [Idle EXCEPT !.held = worker[w].held]

\* An error that is not a refusal rolls everything back and is logged.
AfterError(w) == Done(w)

ListPendingReceipts(w) ==
    /\ worker[w].step = "next" /\ worker[w].queue = {}
    /\ \E r \in Ids : receipts[r].status = "pending"
    /\ worker' = [worker EXCEPT ![w].queue = {r \in Ids : receipts[r].status = "pending"}]
    /\ UNCHANGED <<receipts, charged, posted, loanOpen, active, faults>>

Begin(w) ==
    /\ worker[w].step = "next"
    /\ \E r \in worker[w].queue :
          worker' = [worker EXCEPT ![w].r = r, ![w].step = "receipt"]
    /\ UNCHANGED <<receipts, charged, posted, loanOpen, active, faults>>

\* A mutant: the earlier postings stay when a later one is refused.
KeepsPostings(w) == {<<ReceiptOf(w), "loan", l>> : l \in worker[w].draft}

\* ROLLBACK TO SAVEPOINT: what a refused receipt leaves behind.
KeptAfterFailure(w) == {}

\* Accepted cash stays visible to the till.
receiptFailureStatus(r) == IF receipts[r].request.channel = "cash" THEN "manual_review" ELSE "failed"

failReceipt(w) ==
    /\ receipts' = SetStatus(ReceiptOf(w), receiptFailureStatus(ReceiptOf(w)))
    /\ posted' = posted \cup KeptAfterFailure(w)
    /\ worker' = [worker EXCEPT ![w] = Done(w)]
    /\ UNCHANGED <<charged, loanOpen, active, faults>>

Continue(w, step) ==
    /\ Goto(w, step)
    /\ UNCHANGED <<receipts, charged, posted, loanOpen, active, faults>>

\* Another worker may have finished the receipt since it was listed.
LockReceipt(w) ==
    /\ At(w, "receipt")
    /\ IF receipts[ReceiptOf(w)].status = "pending"
       THEN Goto(w, "fees")
       ELSE worker' = [worker EXCEPT ![w] = Done(w)]
    /\ UNCHANGED <<receipts, charged, posted, loanOpen, active, faults>>

\* The other allocations are compared with themselves: only the fees can differ,
\* and they must be exactly what is still due.
verifyAllocationsMatch(w) ==
    receipts[ReceiptOf(w)].fee = monthlyFees(RequestOf(w).member, RequestOf(w).period, ReceiptOf(w))

CheckFees(w) ==
    /\ At(w, "fees")
    /\ IF verifyAllocationsMatch(w)
       THEN Continue(w, IF RequestOf(w).charge > 0 THEN "charges" ELSE "loans")
       ELSE failReceipt(w)

validateChargeAllocations(w) ==
    /\ At(w, "charges")
    /\ IF RequestOf(w).charge <= outstanding(RequestOf(w).member, ReceiptOf(w))
       THEN Continue(w, "loans")
       ELSE failReceipt(w)

\* Allocations are sorted by type and target: loans in their order, then shares.
NextPosting(w, draft) ==
    CASE PaidLoans(RequestOf(w)) \ draft # {} -> "repay"
      [] OTHER -> IF RequestOf(w).share > 0 THEN "share" ELSE "commit"

LockMemberContributionLoans(w) == At(w, "loans") /\ Continue(w, NextPosting(w, {}))

\* RecordRepaymentForPeriodInTx of the next loan.
RecordRepayment(w) ==
    /\ At(w, "repay")
    /\ LET l == Min(Unposted(w))
           settles == loanPaid(l) + RequestOf(w).loan[l] >= Debt[l]
       IN  /\ loanOpen[l]
           /\ worker' = [worker EXCEPT
                 ![w].step = IF settles THEN "release" ELSE NextPosting(w, worker[w].draft \cup {l}),
                 ![w].held = @ \cup Wanted(w),
                 ![w].blocked = FALSE,
                 ![w].draft = @ \cup {l},
                 ![w].closing = IF settles THEN @ \cup {l} ELSE @]
    /\ UNCHANGED <<receipts, charged, posted, loanOpen, active, faults>>

\* A closed loan takes no payment, and Loans may refuse for reasons of its own
\* (the period, the schedule; see LoanRepayments).
RefuseRepayment(w) == At(w, "repay") /\ failReceipt(w)

\* A settled loan locks its pledgors' accounts in order, then gives the
\* pledges back.
ReleaseLoanSecurity(w) ==
    /\ At(w, "release")
    /\ Continue(w, IF Cardinality(Unreleased(w)) > 1 THEN "release"
                   ELSE NextPosting(w, worker[w].draft))

PurchaseShares(w) ==
    /\ At(w, "share")
    /\ IF AccountOf[RequestOf(w).member] \notin active
       THEN failReceipt(w)
       ELSE Continue(w, "commit")

Commit(w) ==
    /\ At(w, "commit")
    /\ receipts' = SetStatus(ReceiptOf(w), "completed")
    /\ posted' = posted \cup {<<ReceiptOf(w), t[1], t[2]>> : t \in AllocationsOf(ReceiptOf(w))}
    /\ loanOpen' = [l \in Loans |-> loanOpen[l] /\ l \notin worker[w].closing]
    /\ worker' = [worker EXCEPT ![w] = Done(w)]
    /\ UNCHANGED <<charged, active, faults>>

\* The next row is locked by somebody else ...
Wait(w) ==
    /\ worker[w].step # "next" /\ ~worker[w].blocked /\ ~Granted(w)
    /\ worker' = [worker EXCEPT ![w].blocked = TRUE]
    /\ UNCHANGED <<receipts, charged, posted, loanOpen, active, faults>>

\* ... for more than lock_timeout, because the other one is slow.
LockTimeout(w) ==
    /\ faults < MaxFaults
    /\ worker[w].blocked /\ Wanted(w) \cap HeldByOthers(w) # {}
    /\ worker' = [worker EXCEPT ![w] = AfterError(w)]
    /\ faults' = faults + 1
    /\ UNCHANGED <<receipts, charged, posted, loanOpen, active>>

WaitsFor(w, v) == worker[w].blocked /\ Wanted(w) \cap worker[v].held # {}

\* ... for ever: PostgreSQL, or lock_timeout, ends one of the transactions that
\* wait for each other.
BreakDeadlock(w) ==
    /\ \E S \in SUBSET Workers : w \in S /\ \A v \in S : \E u \in S \ {v} : WaitsFor(v, u)
    /\ worker' = [worker EXCEPT ![w] = AfterError(w)]
    /\ UNCHANGED <<receipts, charged, posted, loanOpen, active, faults>>

\* The server stops; it starts again with an empty list.
Crash(w) ==
    /\ faults < MaxFaults
    /\ worker[w] # Idle
    /\ worker' = [worker EXCEPT ![w] = Idle]
    /\ faults' = faults + 1
    /\ UNCHANGED <<receipts, charged, posted, loanOpen, active>>

\* External: an operator freezes an account or makes it active again.
SetAccountStatus(a) ==
    /\ faults < MaxFaults
    /\ Unlocked(ShareLocks({a}))
    /\ active' = IF a \in active THEN active \ {a} ELSE active \cup {a}
    /\ faults' = faults + 1
    /\ UNCHANGED <<receipts, charged, posted, loanOpen, worker>>

WorkerStep(w) ==
    \/ ListPendingReceipts(w) \/ Begin(w) \/ LockReceipt(w) \/ CheckFees(w)
    \/ validateChargeAllocations(w) \/ LockMemberContributionLoans(w)
    \/ RecordRepayment(w) \/ RefuseRepayment(w)
    \/ ReleaseLoanSecurity(w) \/ PurchaseShares(w) \/ Commit(w)
    \/ Wait(w) \/ BreakDeadlock(w)

Next ==
    \/ \E q \in Requests : CreateCashReceipt(q) \/ QuoteSTK(q)
    \/ \E r \in Ids : CreateSTKReceipt(r) \/ RetryDarajaReceipt(r)
    \/ \E w \in Workers : WorkerStep(w) \/ LockTimeout(w) \/ Crash(w)
    \/ \E m \in Members : CreateCharge(m) \/ SetAccountStatus(AccountOf[m])

Spec == Init /\ [][Next]_vars

\* Every server runs its worker for as long as it is up.  A timeout that no
\* deadlock explains, and a server stop, happen finitely often.
FairSpec == Spec /\ \A w \in Workers : WF_vars(WorkerStep(w))

-----------------------------------------------------------------------------
(* Correctness.                                                            *)

\* "A receipt is completed only after every required authoritative allocation
\* has succeeded", and a receipt that is not completed has posted nothing,
\* however its transaction was refused, timed out, retried or cut off.
AllOrNothing ==
    \A r \in Ids :
        {t \in Targets : <<r, t[1], t[2]>> \in posted}
            = IF receipts[r].status = "completed" THEN AllocationsOf(r) ELSE {}

\* "Multiple receipts aggregate without duplicate monthly fees", although each
\* of them may have been quoted the whole fee.
FeesCollectedOnce ==
    \A r \in Ids : feesPaid(receipts[r].request.member, receipts[r].request.period, 0) <= Fee

\* Concurrent receipts never pay a charge more than once, or one that was never made.
ChargesNeverOverpaid == \A m \in Members : chargePaid(m, 0) <= (IF m \in charged THEN Charge[m] ELSE 0)

\* A loan is closed exactly when the receipts that were posted settle it,
\* whoever paid the last part.
ClosedIffSettled == \A l \in Loans : loanOpen[l] <=> loanPaid(l) < Debt[l]

\* However many servers post at once, fees, charges and loans are paid once.
DebtsPaidOnce == FeesCollectedOnce /\ ChargesNeverOverpaid /\ ClosedIffSettled

\* Every receipt that is pending is completed or refused in the end: a deadlock
\* between two workers, a lock timeout or a restart only delays it.
PendingReceiptsSettle ==
    \A r \in 1 .. MaxReceipts :
        (r \in Ids /\ receipts[r].status = "pending")
            ~> (r \in Ids /\ receipts[r].status # "pending")
=============================================================================
