--------------------------- MODULE LoanRepayments ---------------------------
(***************************************************************************)
(* The money of one disbursed loan (internal/loan/service.go): monthly     *)
(* interest on the opening balance, repayments allocated to penalties,     *)
(* interest, principal and credit, the repayment schedule, settlement, and *)
(* the two quotes staff and members are shown before they pay.             *)
(*                                                                         *)
(* Every repayment holds the loan's row lock from its first read to        *)
(* COMMIT, so it is one step.  Months are numbers; the loan is disbursed   *)
(* in month 0.                                                             *)
(*                                                                         *)
(* Balances are counted in ledger quanta of KES 0.0001.  Clients may send  *)
(* finer amounts, which are counted in tenths of a quantum: the code cuts  *)
(* them off where the database rounds them.                                *)
(***************************************************************************)
EXTENDS Money, FiniteSetsExt

CONSTANTS
    Principal,      \* loans.principal
    RateNum, RateDen, \* loans.interest_rate, a fraction
    Installments,   \* loans.repayment_period_months
    Gateways,       \* payment_gateway_transaction_id values
    Amounts,        \* amounts clients send, in tenths of a quantum
    LastMonth,      \* bound on the months of one behaviour
    MaxPenalty      \* bound on the penalties charged

ASSUME RepaymentConstants ==
    /\ {Principal, RateDen, Installments} \subseteq Nat \ {0}
    /\ Installments <= Principal
    /\ {RateNum, LastMonth, MaxPenalty} \subseteq Nat
    /\ Amounts \subseteq Int

VARIABLES
    status,     \* loans.status
    interest,   \* the assessed months -> loan_monthly_interest.amount
    payments,   \* the gateway ids used -> loan_transactions row
    schedule,   \* installment -> repayment_schedules.status
    penalties,  \* sum of the penalty transactions
    now,        \* the current month
    reply       \* what the step just taken returned to its caller

vars == <<status, interest, payments, schedule, penalties, now, reply>>

Months == 0 .. LastMonth

\* A repayment row: the amount as the column stores it, and its breakdown.
\* sent is the amount the client sent, which no column keeps.
Payment == [amount : Nat, period : Months, penalty : Nat, interest : Nat,
            principal : Nat, credit : Nat, sent : Amounts]

NoReply == [result |-> "none"]
Reply   == {NoReply} \cup
           [result : {"recorded", "original", "conflict"}, gateway : Gateways, amount : Amounts]

TypeOK ==
    /\ status \in {"active", "closed"}
    /\ \E A \in SUBSET Months : interest \in [A -> Nat]
    /\ \E G \in SUBSET Gateways : payments \in [G -> Payment]
    /\ schedule \in [1 .. Installments -> {"upcoming", "partial", "paid"}]
    /\ penalties \in 0 .. MaxPenalty
    /\ now \in Months
    /\ reply \in Reply

-----------------------------------------------------------------------------
(* Conversions.                                                            *)

AtLeastZero(n) == IF n < 0 THEN 0 ELSE n
Least(m, n)    == IF m < n THEN m ELSE n

\* ROUND(balance * interest_rate, 4).
MonthlyInterest(balance) == (2 * balance * RateNum + RateDen) \div (2 * RateDen)

-----------------------------------------------------------------------------
(* Queries.                                                                *)

Principals == [g \in DOMAIN payments |-> payments[g].principal]

PrincipalPaid == SumFunction(Principals)
InterestPaid  == SumFunction([g \in DOMAIN payments |-> payments[g].interest])
PenaltyPaid   == SumFunction([g \in DOMAIN payments |-> payments[g].penalty])

PrincipalPaidBefore(month) ==
    SumFunctionOnSet(Principals, {g \in DOMAIN payments : payments[g].period < month})

\* GetLoanPenaltyDue, and the principal still owed.
PenaltyDue   == AtLeastZero(penalties - PenaltyPaid)
PrincipalDue == AtLeastZero(Principal - PrincipalPaid)

Assessed(rows) == SumFunction(rows)

\* The interest of a month is charged on what was owed when it began.
OpeningInterest(month) == MonthlyInterest(AtLeastZero(Principal - PrincipalPaidBefore(month)))

-----------------------------------------------------------------------------
(* Disbursement.                                                           *)

\* The last installment takes the remainder.
DueOf(i) == (Principal \div Installments)
            + (IF i = Installments THEN Principal % Installments ELSE 0)

\* What is due up to and including installment i.
DueUpTo(i) == SumFunction([j \in 1 .. i |-> DueOf(j)])

\* DisburseLoan leaves a schedule and the first month's interest; a loan that
\* is older than monthly interest has a schedule only.
Init ==
    /\ status = "active"
    /\ interest \in {[month \in {0} |-> MonthlyInterest(Principal)], <<>>}
    /\ payments = <<>>
    /\ schedule = [i \in 1 .. Installments |-> "upcoming"]
    /\ penalties = 0
    /\ now = 0
    /\ reply = NoReply

-----------------------------------------------------------------------------
(* RecordRepaymentForPeriodInTx.                                           *)

Respond(result, g, tenths) == reply' = [result |-> result, gateway |-> g, amount |-> tenths]

\* Compared at nine decimals, after the column has rounded the first one.
SameAmount(g, tenths) == 10 * payments[g].amount = tenths

\* A retry is recognised by its gateway id, and must repeat the amount.
RecordAgain(g, tenths) ==
    /\ tenths > 0
    /\ g \in DOMAIN payments
    /\ Respond(IF SameAmount(g, tenths) THEN "original" ELSE "conflict", g, tenths)
    /\ UNCHANGED <<status, interest, payments, schedule, penalties, now>>

\* A month that has begun, and "Backdating would change an opening balance already used for interest."
PeriodAccepted(month) ==
    /\ month <= now
    /\ \A m \in DOMAIN interest : m <= month
    /\ \A g \in DOMAIN payments : payments[g].period <= month

OnlyThisMonth(month) == month  \* a mutant

\* AssessLoanInterestPeriods: the months that are missing up to this one, or
\* only this one when none was ever assessed.
CatchUpFrom(month) == IF DOMAIN interest = {} THEN month ELSE Max(DOMAIN interest) + 1

AssessLoanInterestPeriods(month) ==
    [m \in DOMAIN interest \cup (CatchUpFrom(month) .. month) |->
        IF m \in DOMAIN interest THEN interest[m] ELSE OpeningInterest(m)]

\* A mutant: all the interest due, whatever the payment leaves for it.
InterestInFull(amount, penaltyDue, interestDue, principalDue) ==
    LET penalty == Least(amount, penaltyDue)
        toPrincipal == Least(amount - penalty - interestDue, principalDue)
    IN  [penalty |-> penalty, interest |-> interestDue, principal |-> toPrincipal,
         credit |-> amount - penalty - interestDue - toPrincipal]

\* A mutant: an overpayment hidden by clamping.
HidesOverpayment(amount, penaltyDue, interestDue, principalDue) ==
    LET penalty == Least(amount, penaltyDue)
        toInt   == Least(amount - penalty, interestDue)
    IN  [penalty |-> penalty, interest |-> toInt,
         principal |-> Least(amount - penalty - toInt, principalDue), credit |-> 0]

\* allocateRepayment, after the penalty: interest, principal, then credit.
allocateRepayment(amount, penaltyDue, interestDue, principalDue) ==
    LET penalty   == Least(amount, penaltyDue)
        toInt     == Least(amount - penalty, interestDue)
        toPrincipal == Least(amount - penalty - toInt, principalDue)
    IN  [penalty |-> penalty, interest |-> toInt, principal |-> toPrincipal,
         credit |-> amount - penalty - toInt - toPrincipal]

\* A mutant: only an overpayment settles the loan.
NeedsOverpayment(split, penaltyDue, interestDue) ==
    PrincipalPaid + split.principal > Principal

loanClosed(split, penaltyDue, interestDue) ==
    /\ PrincipalPaid + split.principal >= Principal
    /\ split.interest >= interestDue
    /\ split.penalty >= penaltyDue

\* updateScheduleStatuses walks the installments with the principal applied so
\* far; an installment it does not reach keeps its status.
LastPaymentOnly(split) == split.principal  \* a mutant
totalApplied(split) == PrincipalPaid + split.principal

updateScheduleStatuses(applied) ==
    schedule' = [i \in 1 .. Installments |->
        LET remaining == applied - DueUpTo(i - 1)
        IN  CASE remaining >= DueOf(i) -> "paid"
              [] remaining > 0 /\ remaining < DueOf(i) -> "partial"
              [] OTHER -> schedule[i]]

RecordRepayment(g, tenths, month) ==
    LET interestDue == AtLeastZero(Assessed(AssessLoanInterestPeriods(month)) - InterestPaid)
        split == allocateRepayment(numericToScale(tenths), PenaltyDue, interestDue, PrincipalDue)
    IN  /\ tenths > 0
        /\ g \notin DOMAIN payments
        /\ status = "active"
        /\ PeriodAccepted(month)
        /\ Stored(tenths) > 0  \* CHECK (amount > 0)
        /\ interest' = AssessLoanInterestPeriods(month)
        /\ payments' = [x \in DOMAIN payments \cup {g} |->
              IF x \in DOMAIN payments THEN payments[x]
              ELSE [amount |-> Stored(tenths), period |-> month, penalty |-> split.penalty,
                    interest |-> split.interest, principal |-> split.principal,
                    credit |-> split.credit, sent |-> tenths]]
        /\ updateScheduleStatuses(totalApplied(split))
        /\ status' = IF loanClosed(split, PenaltyDue, interestDue) THEN "closed" ELSE status
        /\ Respond("recorded", g, tenths)
        /\ UNCHANGED <<penalties, now>>

-----------------------------------------------------------------------------
(* Meanwhile.                                                              *)

\* Penalty rows are written by staff; no code under internal/ inserts one.
ChargePenalty ==
    /\ status = "active"
    /\ penalties < MaxPenalty
    /\ penalties' = penalties + 1
    /\ reply' = NoReply
    /\ UNCHANGED <<status, interest, payments, schedule, now>>

NextMonth ==
    /\ now < LastMonth
    /\ now' = now + 1
    /\ reply' = NoReply
    /\ UNCHANGED <<status, interest, payments, schedule, penalties>>

Next ==
    \/ \E g \in Gateways, tenths \in Amounts :
          \/ RecordAgain(g, tenths)
          \/ \E month \in Months : RecordRepayment(g, tenths, month)
    \/ ChargePenalty
    \/ NextMonth

Spec == Init /\ [][Next]_vars

-----------------------------------------------------------------------------
(* Quotes: separate SQL over the same tables.                              *)

\* The interest months a payment for this month would add to the books.
Unposted(month) ==
    SumFunction([m \in (IF DOMAIN interest = {} THEN month ELSE Max(DOMAIN interest) + 1) .. month |->
                    OpeningInterest(m)])

\* ListContributionLoanPositions: what a contribution for this month is quoted.
LatestAssessment(month) == IF DOMAIN interest = {} THEN month - 1 ELSE Max(DOMAIN interest)

QuoteWithoutCatchUp(month) ==  \* a mutant
    [interest_due  |-> AtLeastZero(Assessed(interest) - InterestPaid),
     principal_due |-> PrincipalDue, penalty_due |-> PenaltyDue, payable |-> TRUE]

QuoteContributionLoans(month) ==
    [interest_due  |-> AtLeastZero(Assessed(interest) + Unposted(month) - InterestPaid),
     principal_due |-> PrincipalDue,
     penalty_due   |-> PenaltyDue,
     payable       |-> /\ LatestAssessment(month) <= month
                       /\ \A g \in DOMAIN payments : payments[g].period <= month]

\* GetLoanFinancialSummary: what settles the loan this month.
AssessedOnly ==  \* a mutant
    PrincipalDue + AtLeastZero(Assessed(interest) - InterestPaid) + PenaltyDue

total_outstanding ==
    PrincipalDue + AtLeastZero(Assessed(interest) - InterestPaid) + Unposted(now) + PenaltyDue

-----------------------------------------------------------------------------
(* Correctness.                                                            *)

\* Interest is charged once for every month from the first assessed to the
\* last, and always on the balance that month opened with: no later payment
\* changes an opening balance that was already used.
InterestOnOpeningBalance ==
    \A month \in DOMAIN interest :
        /\ interest[month] = OpeningInterest(month)
        /\ \A m \in Months : (\E first \in DOMAIN interest : first <= m) /\ m <= month
                                => m \in DOMAIN interest

\* "A loan closes only when principal, accrued interest and penalties are fully
\* settled", and it does close then.
ClosedIffSettled ==
    status = "closed" <=>
        /\ PrincipalPaid = Principal
        /\ InterestPaid = Assessed(interest)
        /\ PenaltyPaid = penalties

\* Every quantum received is penalty, interest, principal or credit, principal
\* is never repaid twice, credit arises only when nothing else is owed, and the
\* loan closes exactly then.
MoneyAccountedFor ==
    /\ \A g \in DOMAIN payments :
          payments[g].penalty + payments[g].interest + payments[g].principal
              + payments[g].credit = payments[g].amount
    /\ PrincipalPaid <= Principal /\ InterestPaid <= Assessed(interest)
    /\ PenaltyPaid <= penalties
    /\ \A g \in DOMAIN payments : payments[g].credit > 0 => status = "closed"
    /\ ClosedIffSettled

\* The schedule tells the truth about the principal repaid so far, whichever
\* payments brought it, and adds up to the principal.
ScheduleFollowsRepayments ==
    /\ DueUpTo(Installments) = Principal
    /\ \A i \in 1 .. Installments :
          /\ schedule[i] = "paid" <=> DueUpTo(i) <= PrincipalPaid
          /\ schedule[i] = "partial" <=> DueUpTo(i - 1) < PrincipalPaid /\ PrincipalPaid < DueUpTo(i)

\* The quote "previews the same catch-up interest and period gates as
\* RecordRepaymentForPeriodInTx": a payment that is recorded was quoted as
\* payable, and is split by the amounts quoted just before it.
RecordedAsQuoted ==
    [][\A g \in DOMAIN payments' \ DOMAIN payments :
          LET p == payments'[g]
              quote == QuoteContributionLoans(p.period)
          IN  /\ quote.payable
              /\ p.penalty <= quote.penalty_due
              /\ p.interest <= quote.interest_due
              /\ p.principal <= quote.principal_due
              /\ p.principal > 0 => p.interest = quote.interest_due /\ p.penalty = quote.penalty_due
      ]_vars

\* The settlement figure is exact: a payment for the current month closes the
\* loan if and only if it reaches the total shown, and only what exceeds it
\* becomes credit.
SettlementFigureIsExact ==
    [][\A g \in DOMAIN payments' \ DOMAIN payments :
          LET p == payments'[g]
          IN  p.period = now =>
                  /\ status' = "closed" <=> p.amount >= total_outstanding
                  /\ p.credit = AtLeastZero(p.amount - total_outstanding)]_vars

\* Whatever a member is shown before paying is what the payment then does.
QuotesAreExact == RecordedAsQuoted /\ SettlementFigureIsExact

\* "duplicate attempts must return the original result": a client that repeats
\* its own request is never told that it conflicts.
RetriesAreRecognised ==
    reply.result = "conflict" => payments[reply.gateway].sent # reply.amount
=============================================================================
