----------------------------- MODULE Dividends -----------------------------
(***************************************************************************)
(* The annual dividend of one branch and year                              *)
(* (internal/contribution/dividends.go, internal/ceepdb/dividends.sql):    *)
(* preview, approval bound to the reviewed preview, the member's choice,   *)
(* and settlement in cash or in shares, which posts to the share ledger.   *)
(*                                                                         *)
(* Approval is one READ COMMITTED transaction that takes no locks: the     *)
(* preview is computed again in one statement and saved in a later one, so *)
(* members, balances and other approvals may change in between.  Choice    *)
(* and settlement hold the allocation row FOR UPDATE and are one step.     *)
(*                                                                         *)
(* The SHA-256 of a preview is modelled by the preview's content: the rate *)
(* and what the query read about every member.  Money is in cents.         *)
(***************************************************************************)
EXTENDS ShareAccounts, Integers, FiniteSetsExt

CONSTANTS
    Shareholders,  \* members of the branch
    Facts,         \* what a preview may read about a member
    Managers,      \* staff with cash.approve
    Rates,         \* dividend rates in percent
    Vouchers,      \* references of signed cash vouchers
    NoPreview

\* Vouchers are a required field: an empty reference is refused.
ASSUME DividendConstants ==
    /\ IsFiniteSet(Shareholders) /\ "none" \notin Vouchers
    /\ Rates \subseteq Nat
    /\ Facts \subseteq [status : {"active", "suspended", "deleted"}, account_count : Nat,
                        balance : Int, qualifying_months : Nat]

VARIABLES
    sources,    \* member, account, ledger and receipt rows the preview reads
    accountStatus, \* share_accounts.status, which the preview does not read
    previews,   \* the preview each manager has reviewed
    approving,  \* the preview each open approval has computed
    register,   \* dividend_declarations: the frozen preview, its total
    allocations,\* dividend_allocations
    postings    \* share_transactions of type dividend: member and amount

sourceVars == <<sources, accountStatus>>
approvalVars == <<previews, approving, register>>
dividendVars == <<sources, accountStatus, previews, approving, register, allocations, postings>>

\* BuildDividendPreview skips deleted members; the rest is evidence, hashed.
Preview(rate) ==
    [rate |-> rate,
     facts |-> [m \in {x \in Shareholders : sources[x].status # "deleted"} |-> sources[m]]]

Previews ==
    [rate : Rates, facts : UNION {[S -> Facts] : S \in SUBSET Shareholders}]

eligible(f) ==
    f.status = "active" /\ f.account_count = 1 /\ f.balance >= 0 /\ f.qualifying_months = 6

\* round(balance * rate / 100, 2): half a cent goes up.
DividendAmount(f, rate) == IF eligible(f) THEN (f.balance * rate + 50) \div 100 ELSE 0

\* Errors that a manager must resolve before approving.
hasErrors(p) == \E m \in DOMAIN p.facts : p.facts[m].balance < 0 \/ p.facts[m].account_count > 1

\* A mutant: the total is rounded instead of its parts.
RoundedOnce(p) ==
    (SumFunctionOnSet([m \in DOMAIN p.facts |-> p.facts[m].balance * p.rate],
                      {x \in DOMAIN p.facts : eligible(p.facts[x])}) + 50) \div 100

\* The sum of the rounded amounts, which the deferred trigger checks again.
approvedTotal(p) ==
    SumFunction([m \in DOMAIN p.facts |-> DividendAmount(p.facts[m], p.rate)])

NoAllocation ==
    [eligible |-> FALSE, amount |-> 0, choice |-> "none", settled |-> FALSE, voucher |-> "none"]

NoRegister == [preview |-> NoPreview, total |-> 0]

Approved == register # NoRegister

DividendsTypeOK ==
    /\ sources \in [Shareholders -> Facts]
    /\ accountStatus \in [Shareholders -> AccountStatuses]
    /\ previews \in [Managers -> Previews \cup {NoPreview}]
    /\ approving \in [Managers -> Previews \cup {NoPreview}]
    /\ register \in [preview : Previews \cup {NoPreview}, total : Nat]
    /\ allocations \in [Shareholders ->
           [eligible : BOOLEAN, amount : Nat, choice : {"none", "cash", "shares"},
            settled : BOOLEAN, voucher : Vouchers \cup {"none"}]]
    /\ postings \subseteq Shareholders \X Nat

DividendsInit ==
    /\ sources \in [Shareholders -> Facts]
    /\ accountStatus = [m \in Shareholders |->
           IF sources[m].account_count = 0 THEN "none" ELSE "active"]
    /\ previews = [s \in Managers |-> NoPreview]
    /\ approving = [s \in Managers |-> NoPreview]
    /\ register = NoRegister
    /\ allocations = [m \in Shareholders |-> NoAllocation]
    /\ postings = {}

-----------------------------------------------------------------------------
(* Preview and approval.                                                   *)

\* Purchases, corrections, suspensions, closures, OpenShareAccount, a second
\* account opened in a race: other components write.  No statement deletes an
\* account, and a new one is active.
SourcesChange(m, f) ==
    /\ sources[m] # f
    /\ f.account_count >= sources[m].account_count
    /\ sources' = [sources EXCEPT ![m] = f]
    /\ accountStatus' = [accountStatus EXCEPT ![m] =
           IF sources[m].account_count = 0 /\ f.account_count > 0 THEN "active" ELSE @]
    /\ UNCHANGED <<approvalVars, allocations, postings>>

\* No code changes an account's status after it is opened; an operator does.
SetAccountStatus(m, st) ==
    /\ accountStatus[m] \notin {"none", st}
    /\ accountStatus' = [accountStatus EXCEPT ![m] = st]
    /\ UNCHANGED <<sources, approvalVars, allocations, postings>>

\* GetDividendRegister: a draft while nothing is approved.
GetDividendRegister(s, rate) ==
    /\ ~Approved
    /\ approving[s] = NoPreview
    /\ previews' = [previews EXCEPT ![s] = Preview(rate)]
    /\ UNCHANGED <<sourceVars, approving, register, allocations, postings>>

\* A mutant: only the rate is compared.
SameRate(p, reviewed) == p.rate = reviewed.rate

\* hash != previewHash: "sources changed; load and review a new preview".
SameAsReviewed(p, reviewed) == p = reviewed

\* ApproveDividends finds no register, computes the preview again and compares.
ApproveDividends(s) ==
    /\ ~Approved
    /\ previews[s] # NoPreview /\ approving[s] = NoPreview
    /\ LET p == Preview(previews[s].rate)
       IN  /\ SameAsReviewed(p, previews[s])
           /\ ~hasErrors(p)
           /\ approving' = [approving EXCEPT ![s] = p]
    /\ UNCHANGED <<sourceVars, previews, register, allocations, postings>>

\* ON CONFLICT (branch_id, financial_year) DO NOTHING.
DeclarationIsNew == ~Approved

\* Declaration and allocations commit together; the loser of a race gets the
\* register of the winner and changes nothing.
SaveDividendDeclaration(s) ==
    /\ approving[s] # NoPreview
    /\ LET p == approving[s]
       IN  IF DeclarationIsNew
             THEN /\ register' = [preview |-> p, total |-> approvedTotal(p)]
                  /\ allocations' = [m \in Shareholders |->
                         IF m \notin DOMAIN p.facts THEN NoAllocation
                         ELSE [NoAllocation EXCEPT !.eligible = eligible(p.facts[m]),
                                                   !.amount = DividendAmount(p.facts[m], p.rate)]]
             ELSE UNCHANGED <<register, allocations>>
    /\ approving' = [approving EXCEPT ![s] = NoPreview]
    /\ UNCHANGED <<sourceVars, previews, postings>>

\* The transaction fails or the server stops before it commits.
ApprovalFails(s) ==
    /\ approving[s] # NoPreview
    /\ approving' = [approving EXCEPT ![s] = NoPreview]
    /\ UNCHANGED <<sourceVars, previews, register, allocations, postings>>

-----------------------------------------------------------------------------
(* Choice and settlement, under the lock of the allocation.                *)

Payable(a) == a.eligible /\ a.amount > 0

\* A mutant: the choice stays open until settlement.
UntilSettled(a) == ~a.settled

\* Repeating the recorded choice succeeds and changes nothing.
MayChoose(a) == a.choice = "none"

Choosable(m) == Approved /\ Payable(allocations[m]) /\ MayChoose(allocations[m])

RecordDividendChoice(m, choice) ==
    /\ Choosable(m)
    /\ allocations' = [allocations EXCEPT ![m].choice = choice]
    /\ UNCHANGED <<sourceVars, approvalVars, postings>>

\* A mutant: one voucher pays two members.
AnyVoucher(v) == TRUE

\* dividend_cash_voucher_branch_key.
VoucherIsNew(v) == \A m \in Shareholders : allocations[m].voucher # v

\* The settlement of the recorded choice, asked once.
Settleable(m, choice) == allocations[m].choice = choice /\ ~allocations[m].settled

SettleCash(m, v) ==
    /\ Settleable(m, "cash")
    /\ VoucherIsNew(v)
    /\ allocations' = [allocations EXCEPT ![m].settled = TRUE, ![m].voucher = v]
    /\ UNCHANGED <<sourceVars, approvalVars, postings>>

\* The posting with the allocation's ID as its reference, if there is one.
PostedBefore(m) == {p \in postings : p[1] = m}

\* postTransactionInTx locks the account and looks the reference up: a posting
\* of the same amount is returned, another amount is refused, and a new posting
\* needs an account that accepts it.
PostDividendInTx(m) ==
    /\ \A p \in PostedBefore(m) : p[2] = allocations[m].amount
    /\ PostedBefore(m) = {} => AccountAccepts(accountStatus[m], "dividend")

\* The posting and the settlement of the row commit together.
SettleShares(m) ==
    /\ Settleable(m, "shares")
    /\ PostDividendInTx(m)
    /\ postings' = postings \cup {<<m, allocations[m].amount>>}
    /\ allocations' = [allocations EXCEPT ![m].settled = TRUE]
    /\ UNCHANGED <<sourceVars, approvalVars>>

DividendsNext ==
    \/ \E m \in Shareholders, f \in Facts : SourcesChange(m, f)
    \/ \E m \in Shareholders, st \in {"active", "frozen"} : SetAccountStatus(m, st)
    \/ \E s \in Managers, rate \in Rates : GetDividendRegister(s, rate)
    \/ \E s \in Managers : ApproveDividends(s)
    \/ \E s \in Managers : SaveDividendDeclaration(s)
    \/ \E s \in Managers : ApprovalFails(s)
    \/ \E m \in Shareholders, choice \in {"cash", "shares"} : RecordDividendChoice(m, choice)
    \/ \E m \in Shareholders, v \in Vouchers : SettleCash(m, v)
    \/ \E m \in Shareholders : SettleShares(m)

DividendsSpec == DividendsInit /\ [][DividendsNext]_dividendVars

-----------------------------------------------------------------------------
(* Correctness.                                                            *)

\* ApproveDividends "binds approval to reviewed inputs": the first approval
\* freezes exactly the preview that its manager reviewed, and no later
\* approval, retry or change of the sources replaces it.
Approval == INSTANCE ReviewedApproval WITH
    Officers <- Managers, Documents <- Previews, NoDocument <- NoPreview,
    reviewed <- previews, frozen <- register.preview

DividendsImplementApproval == Approval!Spec

\* A signed voucher is the evidence of one payment.
VouchersPayOnce ==
    \A m, n \in Shareholders :
        allocations[m].voucher # "none" /\ allocations[m].voucher = allocations[n].voucher => m = n

\* What dividendRegister reports at any moment adds up: the approved total is
\* what was paid in cash, reinvested and is still outstanding, and the share
\* ledger holds the reinvested part, no more, and each cash payment has a voucher
\* of its own.
DividendsAddUp ==
    LET Sum(S) == SumFunctionOnSet([m \in Shareholders |-> allocations[m].amount], S)
        Settled(choice) == {m \in Shareholders : allocations[m].settled /\ allocations[m].choice = choice}
    IN  /\ register.total = Sum(Settled("cash")) + Sum(Settled("shares"))
                            + Sum({m \in Shareholders : ~allocations[m].settled})
        /\ postings = {<<m, allocations[m].amount>> : m \in Settled("shares")}
        /\ VouchersPayOnce

\* An approved allocation is never recomputed, a recorded choice never changes
\* and a settlement is never undone, whatever happens to member and account.
AllocationsFrozen ==
    [][Approved => \A m \in Shareholders :
          LET a == allocations[m]
              b == allocations'[m]
          IN  /\ b.eligible = a.eligible /\ b.amount = a.amount
              /\ a.choice # "none" => b.choice = a.choice
              /\ a.settled => b = a]_dividendVars

\* "A later member status change must not prevent either settlement option":
\* after the approval members are suspended and deleted, accounts are frozen and
\* duplicated and other dividends are settled, and still no approved dividend
\* gets stuck.  The choice stays open until it is made; an unused voucher is left
\* for one who may still be paid in cash; and the ledger would still accept the
\* posting of one who may still be paid in shares.
SettlementStaysOpen ==
    \A m \in Shareholders :
        Payable(allocations[m]) /\ ~allocations[m].settled =>
            /\ allocations[m].choice = "none" => Choosable(m)
            /\ allocations[m].choice # "shares" => \E v \in Vouchers : VoucherIsNew(v)
            /\ allocations[m].choice # "cash" => PostDividendInTx(m)
=============================================================================
