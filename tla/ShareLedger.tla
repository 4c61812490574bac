----------------------------- MODULE ShareLedger -----------------------------
(***************************************************************************)
(* The share ledger (internal/share): share accounts, the append-only      *)
(* share_transactions table, manual adjustments, reversals, and the        *)
(* pledges that reserve shares as loan security.                           *)
(*                                                                         *)
(* Every write is one PostgreSQL transaction at READ COMMITTED.  Its       *)
(* visible steps are BEGIN, which fixes NOW() and therefore the created_at *)
(* of the row it will insert; for a reversal, the reads it makes before it *)
(* holds the account lock; and the stretch from SELECT ... FOR UPDATE on   *)
(* the account row to COMMIT, which is one step because every writer of    *)
(* that account's rows holds the same lock until it commits.               *)
(*                                                                         *)
(* Rows hold whole quanta.  What clients ask for, and what the code passes *)
(* to an INSERT, is counted in tenths of a quantum (see Money): the code   *)
(* computes and compares at nine decimals, and each column rounds alone.   *)
(***************************************************************************)
EXTENDS Money, ShareAccounts, SharePledges, Functions

CONSTANTS
    Accounts,       \* share_accounts.id
    Refs,           \* reference_id values clients choose
    Amounts,        \* amounts clients send, valid or not, in tenths of a quantum
    AdjustAmounts,  \* signed amounts of manual corrections, in tenths
    MaxOpen,        \* transactions open at once (the connection pool)
    MaxBegins       \* bound on the transactions of one behaviour

ASSUME ShareConstants ==
    /\ Amounts \subseteq Int
    /\ AdjustAmounts \subseteq Int
    /\ MaxOpen \in Nat
    /\ MaxBegins \in Nat

VARIABLES
    status,       \* account -> share_accounts.status, "none" before it is opened
    ledger,       \* the set of committed share_transactions rows
    adjustments,  \* account -> reference -> share_adjustments row
    pledges,      \* account -> loan -> share_pledges row
    open,         \* transactions begun and neither committed nor rolled back
    clock,        \* NOW() of the last BEGIN
    reply         \* what the step just taken returned to its caller

vars == <<status, ledger, adjustments, pledges, open, clock, reply>>

PostingTypes == {"purchase", "withdrawal", "dividend"}
TransactionTypes == PostingTypes \cup {"adjustment", "reversal"}

(***************************************************************************)
(* A ledger row.  A transaction inserts at most one row per account and    *)
(* begin times differ, so created_at also serves as the row's identity.    *)
(* reversal_of = 0 stands for NULL.                                        *)
(***************************************************************************)
Row == [account : Accounts, type : TransactionTypes, amount : Int,
        balance_after : Int, reference_id : Refs, reversal_of : Nat,
        created_at : Nat]

\* An open transaction: what it was asked to do, its amount in tenths of a
\* quantum, and how far it has come.
OpenTx == [type : TransactionTypes, account : Accounts, amount : Int,
           reference_id : Refs, target : Nat, created_at : Nat,
           phase : {"begun", "read"}]

Adjustment   == [amount : Int, status : {"none", "pending", "approved"}]
NoAdjustment == [amount |-> 0, status |-> "none"]

NoReply == [ok |-> FALSE]
Reply   == {NoReply} \cup [ok : {TRUE}, tx : OpenTx, row : Nat]

TypeOK ==
    /\ status \in [Accounts -> AccountStatuses]
    /\ ledger \subseteq Row
    /\ adjustments \in [Accounts -> [Refs -> Adjustment]]
    /\ pledges \in [Accounts -> [Loans -> Pledge]]
    /\ open \subseteq OpenTx
    /\ clock \in Nat
    /\ reply \in Reply

Init ==
    /\ status = [a \in Accounts |-> "none"]
    /\ ledger = {}
    /\ adjustments = [a \in Accounts |-> [f \in Refs |-> NoAdjustment]]
    /\ pledges = [a \in Accounts |-> NoPledges]
    /\ open = {}
    /\ clock = 0
    /\ reply = NoReply

-----------------------------------------------------------------------------
(* Queries.                                                                *)

RowsOf(a) == {r \in ledger : r.account = a}

\* ORDER BY created_at DESC LIMIT 1, and a zero balance without history.
LatestOf(R)  == CHOOSE r \in R : \A q \in R : q.created_at <= r.created_at
BalanceOf(R) == IF R = {} THEN 0 ELSE LatestOf(R).balance_after

GetLatestBalance(a) == BalanceOf(RowsOf(a))

ActivePledged(a) == GetActivePledgedAmount(pledges[a])

GetTransactionByReference(a, ref, type) ==
    {r \in RowsOf(a) : r.reference_id = ref /\ r.type = type}

GetReversalTransactions(id) == {r \in ledger : r.reversal_of = id}

-----------------------------------------------------------------------------
(* Accounts.                                                               *)

\* One account per member; its member is locked and active, see Members.
OpenShareAccount(a) ==
    /\ status[a] = "none"
    /\ status' = [status EXCEPT ![a] = "active"]
    /\ reply' = NoReply
    /\ UNCHANGED <<ledger, adjustments, pledges, open, clock>>

-----------------------------------------------------------------------------
(* BEGIN.                                                                  *)

Begin(type, a, amount, ref, target) ==
    /\ clock < MaxBegins
    /\ Cardinality(open) < MaxOpen
    /\ clock' = clock + 1
    /\ open' = open \cup {[type |-> type, account |-> a, amount |-> amount,
                           reference_id |-> ref, target |-> target,
                           created_at |-> clock + 1, phase |-> "begun"]}
    /\ reply' = NoReply
    /\ UNCHANGED <<status, ledger, adjustments, pledges>>

\* PurchaseShares, WithdrawShares, and a receipt, credit transfer or dividend
\* settlement that will post into this account later in its own transaction.
BeginPosting(type, a, amount, ref) == Begin(type, a, amount, ref, 0)

BeginApproval(a, ref) ==
    /\ adjustments[a][ref].status # "none"
    /\ Begin("adjustment", a, 10 * adjustments[a][ref].amount, ref, 0)

BeginReversal(original, ref) ==
    Begin("reversal", original.account, 10 * original.amount, ref, original.created_at)

\* Any open transaction may end without effect: a refusal by one of the checks
\* below, a constraint violation, a lost connection, a cancelled context or a
\* crash of the server all roll it back.
Rollback(t) ==
    /\ open' = open \ {t}
    /\ reply' = NoReply
    /\ UNCHANGED <<status, ledger, adjustments, pledges, clock>>

-----------------------------------------------------------------------------
(* From the account lock to COMMIT.                                        *)

\* The transaction t commits and its caller receives the row with this id.
Answer(t, row) ==
    /\ open' = open \ {t}
    /\ reply' = [ok |-> TRUE, tx |-> t, row |-> row]

NewRow(t, amount, balanceAfter) ==
    [account |-> t.account, type |-> t.type, amount |-> amount,
     balance_after |-> balanceAfter, reference_id |-> t.reference_id,
     reversal_of |-> t.target, created_at |-> t.created_at]

\* INSERT INTO share_transactions of an amount and a balance in tenths: each
\* column rounds its value by itself, and the table's CHECK constraints see what
\* the columns hold.
InsertShareTransaction(t, amount, balanceAfter) ==
    /\ Stored(amount) > 0 \/ t.type \in {"reversal", "adjustment"}
    /\ Stored(balanceAfter) >= 0
    /\ ledger' = ledger \cup {NewRow(t, Stored(amount), Stored(balanceAfter))}

\* A mutant: a withdrawal that adds.
AlwaysAdds(t) == 10 * GetLatestBalance(t.account) + t.amount

\* The balance a posting leaves, in tenths and not yet rounded; only a withdrawal
\* is held to the pledges.
PostedBalance(t) ==
    IF t.type = "withdrawal" THEN 10 * GetLatestBalance(t.account) - t.amount
                             ELSE 10 * GetLatestBalance(t.account) + t.amount

\* A mutant: a withdrawal checked against the balance alone.
IgnoresPledges(t) == t.type = "withdrawal" => PostedBalance(t) >= 0

PositionAllows(t) ==
    t.type = "withdrawal" => PostedBalance(t) >= 10 * ActivePledged(t.account)

\* UNIQUE (share_account_id, reference_id, type), looked up under the lock.
ReferenceUnchecked(t) == TRUE  \* a mutant
ReferenceIsNew(t) == GetTransactionByReference(t.account, t.reference_id, t.type) = {}

\* A retry must repeat the amount; otherwise it is ErrDuplicateReference.  The
\* request is compared as it came with the row as it was rounded.
AnyAmountIsARetry(r, t) == TRUE  \* a mutant
SameRequest(r, t) == 10 * r.amount = t.amount

\* A retry of a reference that is already posted returns the original row.
PostAgain(t) ==
    /\ t.type \in PostingTypes
    /\ \E r \in GetTransactionByReference(t.account, t.reference_id, t.type) :
          /\ SameRequest(r, t)
          /\ Answer(t, r.created_at)
    /\ UNCHANGED <<status, ledger, adjustments, pledges, clock>>

\* postTransactionInTx on a new reference.
Post(t) ==
    /\ t.type \in PostingTypes
    /\ ReferenceIsNew(t)
    /\ AccountAccepts(status[t.account], t.type)
    /\ PositionAllows(t)
    /\ InsertShareTransaction(t, t.amount, PostedBalance(t))
    /\ Answer(t, t.created_at)
    /\ UNCHANGED <<status, adjustments, pledges, clock>>

\* CreateAdjustment: a pending request, its amount rounded by the column; a
\* repeated reference changes nothing.  The status is read by a statement of its
\* own, just before the insert; it decides nothing that approval does not check
\* again.
CreateAdjustment(a, ref, tenths) ==
    /\ status[a] = "active"
    /\ tenths # 0
    /\ adjustments[a][ref].status = "none"
    /\ adjustments' = [adjustments EXCEPT
          ![a] = [adjustments[a] EXCEPT ![ref] = [amount |-> Stored(tenths), status |-> "pending"]]]
    /\ reply' = NoReply
    /\ UNCHANGED <<status, ledger, pledges, open, clock>>

\* A mutant: the posting without the update of its request.
ForgetsApproval(t) == UNCHANGED adjustments

UpdateAdjustmentApproved(t) ==
    adjustments' = [adjustments EXCEPT
        ![t.account] = [adjustments[t.account] EXCEPT
            ![t.reference_id] = [amount |-> adjustments[t.account][t.reference_id].amount,
                                 status |-> "approved"]]]

\* ApproveShareAdjustment of a pending request, under the request's lock and
\* the account's.
ApproveShareAdjustment(t) ==
    LET adjustment == adjustments[t.account][t.reference_id]
        newBalance == GetLatestBalance(t.account) + adjustment.amount
    IN  /\ t.type = "adjustment"
        /\ adjustment.status = "pending"
        /\ status[t.account] = "active"
        /\ newBalance >= ActivePledged(t.account)
        /\ InsertShareTransaction(t, 10 * adjustment.amount, 10 * newBalance)
        /\ UpdateAdjustmentApproved(t)
        /\ Answer(t, t.created_at)
        /\ UNCHANGED <<status, pledges, clock>>

\* Approving again returns the approved request and the row it posted.
ApproveAgain(t) ==
    /\ t.type = "adjustment"
    /\ adjustments[t.account][t.reference_id].status = "approved"
    /\ \E r \in GetTransactionByReference(t.account, t.reference_id, "adjustment") :
          Answer(t, r.created_at)
    /\ UNCHANGED <<status, ledger, adjustments, pledges, clock>>

(***************************************************************************)
(* ReverseShareTransaction.  The original and its reversals are read       *)
(* before the account is locked, so both may be stale when the reversal is *)
(* inserted; UNIQUE (reversal_of) is what is left to stop a second one.    *)
(***************************************************************************)
AfterRead(t) ==
    [type |-> t.type, account |-> t.account, amount |-> t.amount,
     reference_id |-> t.reference_id, target |-> t.target,
     created_at |-> t.created_at, phase |-> "read"]

ReadOriginal(t) ==
    /\ t.type = "reversal" /\ t.phase = "begun"
    /\ \A r \in ledger : r.created_at = t.target => r.type # "reversal"
    /\ \/ /\ GetReversalTransactions(t.target) = {}
          /\ open' = (open \ {t}) \cup {AfterRead(t)}
          /\ reply' = NoReply
       \/ \E r \in GetReversalTransactions(t.target) : Answer(t, r.created_at)
    /\ UNCHANGED <<status, ledger, adjustments, pledges, clock>>

\* A mutant: the amount negated, whatever the original did with it.
AlwaysNegates(original) == -original.amount

\* The opposite of the original's effect on the balance.
ReversalAmount(original) ==
    IF original.type = "withdrawal" THEN original.amount ELSE -original.amount

NotYetReversed(t) == GetReversalTransactions(t.target) = {}

ReverseShareTransaction(t) ==
    /\ t.type = "reversal" /\ t.phase = "read"
    /\ status[t.account] = "active"
    /\ \E original \in ledger :
          LET newBalance == GetLatestBalance(t.account) + ReversalAmount(original)
          IN  /\ original.created_at = t.target
              /\ newBalance >= ActivePledged(t.account)
              /\ ReferenceIsNew(t)
              /\ NotYetReversed(t)
              /\ InsertShareTransaction(t, 10 * ReversalAmount(original), 10 * newBalance)
    /\ Answer(t, t.created_at)
    /\ UNCHANGED <<status, adjustments, pledges, clock>>

\* ON CONFLICT (share_account_id, reference_id, type) DO NOTHING: the reference
\* already belongs to a reversal, and that row is returned whatever it reverses.
ReverseReusedReference(t) ==
    /\ t.type = "reversal" /\ t.phase = "read"
    /\ status[t.account] = "active"
    /\ \E original \in ledger :
          /\ original.created_at = t.target
          /\ GetLatestBalance(t.account) + ReversalAmount(original) >= ActivePledged(t.account)
    /\ \E r \in GetTransactionByReference(t.account, t.reference_id, "reversal") :
          Answer(t, r.created_at)
    /\ UNCHANGED <<status, ledger, adjustments, pledges, clock>>

-----------------------------------------------------------------------------
(* Loan security.  The loan workflow calls these inside its transactions;  *)
(* each one locks the account before it reads the balance.                 *)

SetPledges(a, f) ==
    /\ pledges' = [pledges EXCEPT ![a] = f]
    /\ reply' = NoReply
    /\ UNCHANGED <<status, ledger, adjustments, open, clock>>

\* The applicant's pledge is only proposed: it reserves nothing yet.  The shares
\* are compared with the amount as it came; pledged_amount rounds it.
ProposeApplicantSecurity(a, l, tenths) ==
    /\ status[a] = "active"
    /\ 10 * (GetLatestBalance(a) - ActivePledged(a)) >= tenths
    /\ CanCreateSharePledge(pledges[a], l, Stored(tenths))
    /\ SetPledges(a, CreateSharePledge(pledges[a], l, "applicant_security", Stored(tenths)))

\* Loan approval activates it, after checking the shares again.
VerifyApplicantSecurity(a, l) ==
    /\ status[a] = "active"
    /\ ActivePledged(a) <= GetLatestBalance(a)
    /\ pledges[a][l].type = "applicant_security" /\ pledges[a][l].status = "pending"
    /\ GetLatestBalance(a) - ActivePledged(a) >= pledges[a][l].amount
    /\ SetPledges(a, ActivateSharePledge(pledges[a], l))

\* A guarantor's pledge is created and activated in one transaction, for the
\* amount loan_guarantors holds.
ApproveGuarantorSecurity(a, l, amount) ==
    /\ status[a] = "active"
    /\ amount <= guaranteeAvailable(GetLatestBalance(a), ActivePledged(a))
    /\ CanCreateSharePledge(pledges[a], l, amount)
    /\ SetPledges(a, ActivateSharePledge(
          CreateSharePledge(pledges[a], l, "guarantor_security", amount), l))

\* One guarantor is removed, or every pledge of a loan is given back.
ReleaseLoanSecurity(l, S) ==
    /\ \E a \in S : pledges[a][l].status \in {"pending", "active"}
    /\ pledges' = [a \in Accounts |->
          IF a \in S THEN ReleaseLoanSharePledge(pledges[a], l) ELSE pledges[a]]
    /\ reply' = NoReply
    /\ UNCHANGED <<status, ledger, adjustments, open, clock>>

\* No code changes an account's status after it is opened; an operator does.
SetAccountStatus(a, st) ==
    /\ status[a] # "none"
    /\ status' = [status EXCEPT ![a] = st]
    /\ reply' = NoReply
    /\ UNCHANGED <<ledger, adjustments, pledges, open, clock>>

-----------------------------------------------------------------------------

Next ==
    \/ \E a \in Accounts, ref \in Refs :
          \/ \E type \in PostingTypes, tenths \in Amounts : BeginPosting(type, a, tenths, ref)
          \/ \E tenths \in AdjustAmounts : CreateAdjustment(a, ref, tenths)
          \/ BeginApproval(a, ref)
    \/ \E original \in ledger, ref \in Refs : BeginReversal(original, ref)
    \/ \E t \in open :
          \/ Rollback(t)
          \/ PostAgain(t)
          \/ Post(t)
          \/ ApproveShareAdjustment(t)
          \/ ApproveAgain(t)
          \/ ReadOriginal(t)
          \/ ReverseShareTransaction(t)
          \/ ReverseReusedReference(t)
    \/ \E a \in Accounts, l \in Loans :
          \/ \E tenths \in Amounts : ProposeApplicantSecurity(a, l, tenths)
          \/ VerifyApplicantSecurity(a, l)
          \/ \E tenths \in Amounts : ApproveGuarantorSecurity(a, l, Stored(tenths))
          \/ ReleaseLoanSecurity(l, {a})
    \/ \E l \in Loans : ReleaseLoanSecurity(l, Accounts)
    \/ \E a \in Accounts : OpenShareAccount(a)
    \/ \E a \in Accounts, st \in {"active", "frozen"} : SetAccountStatus(a, st)

Spec == Init /\ [][Next]_vars

-----------------------------------------------------------------------------
(* Correctness.                                                            *)

\* What a row did to the balance.
Effect(r) == IF r.type = "withdrawal" THEN -r.amount ELSE r.amount

\* "A member cannot withdraw or pledge more than available_shares": whatever
\* postings, corrections, pledges and releases interleave, the active pledges
\* of an account never exceed the balance every later decision will read.
PledgesCovered == \A a \in Accounts : ActivePledged(a) <= GetLatestBalance(a)

\* "One transaction may be reversed at most once", although two reversals can
\* both find none when they look, before either holds the account lock.
ReversedAtMostOnce ==
    \A r, q \in ledger : r.reversal_of # 0 /\ r.reversal_of = q.reversal_of => r = q

\* A reversal undoes exactly one committed row of its own account: the original
\* is not itself a reversal, and the two effects cancel.
ReversalsCancelTheirOriginal ==
    \A r \in ledger : r.type = "reversal" =>
        \E original \in ledger :
            /\ original.created_at = r.reversal_of
            /\ original.account = r.account
            /\ original.type # "reversal"
            /\ Effect(r) + Effect(original) = 0

\* postTransactionInTx's idempotency: however often a reference is retried, and
\* however the retries overlap, it is posted at most once per account and type.
ReferencePostedOnce ==
    \A r, q \in ledger :
        r.account = q.account /\ r.reference_id = q.reference_id /\ r.type = q.type => r = q

\* Approval and the balance change commit together: an adjustment is approved
\* exactly when its one row, with its amount, is in the ledger.
AdjustmentPostedIffApproved ==
    \A a \in Accounts, ref \in Refs :
        /\ adjustments[a][ref].status = "approved" <=>
              GetTransactionByReference(a, ref, "adjustment") # {}
        /\ \A r \in GetTransactionByReference(a, ref, "adjustment") :
              r.amount = adjustments[a][ref].amount

\* The ledger's books: exact reversals, one row per reference, and approvals
\* that match postings, through retries, races and rollbacks.
Books ==
    /\ \A r \in ledger : r.type # "reversal" => r.reversal_of = 0
    /\ ReversedAtMostOnce
    /\ ReversalsCancelTheirOriginal
    /\ ReferencePostedOnce
    /\ AdjustmentPostedIffApproved

\* A caller told that its posting or approval succeeded finds that very posting
\* in the ledger: same account, type and reference, and its amount to the nearest
\* quantum.  A finer amount is not kept, so the row may differ from what was asked
\* by up to half a quantum.
SuccessMeansPosted ==
    reply.ok /\ reply.tx.type # "reversal" =>
        \E r \in ledger :
            /\ r.created_at = reply.row
            /\ r.account = reply.tx.account
            /\ r.type = reply.tx.type
            /\ r.reference_id = reply.tx.reference_id
            /\ r.amount = Stored(reply.tx.amount)

\* A caller told that its reversal succeeded finds a reversal of the
\* transaction it named.
SuccessMeansReversed ==
    reply.ok /\ reply.tx.type = "reversal" =>
        \E r \in ledger : r.created_at = reply.row /\ r.reversal_of = reply.tx.target

\* amount and balance_after are rounded apart, so a withdrawal that ends in exactly
\* half a quantum rounds up in both: its row says a quantum more than was taken.
Half(tenths) == tenths % 10 = 5
Gap(t) == IF t.type = "withdrawal" /\ Half(t.amount) THEN 1 ELSE 0

\* The balance that decisions read moves only when a row is inserted, and then by
\* that row's effect, exactly: the only exception is a withdrawal that ends in
\* half a quantum, which leaves one quantum more than its row says.
BalanceMovesByPosting ==
    [][\A a \in Accounts :
          GetLatestBalance(a)' # GetLatestBalance(a) =>
              \E r \in ledger' \ ledger :
                  /\ r.account = a
                  /\ GetLatestBalance(a)' = GetLatestBalance(a) + Effect(r) + Gap(reply'.tx)]_vars

\* "new_balance = previous_balance + purchase_amount", row after row: the
\* balance that decisions read is the sum of everything posted to the account.
\* It is, as long as postings to an account commit in the order they began and no
\* amount ends in half a quantum.
BalanceIsSumOfPostings ==
    \A a \in Accounts : GetLatestBalance(a) = SumFunction([r \in RowsOf(a) |-> Effect(r)])

\* The ledger keeps the Shares domain's promise: seen through the balance that
\* decisions read, every transaction is one allowed move, pledge or release.
Positions == INSTANCE SharePositions WITH balance <- [a \in Accounts |-> GetLatestBalance(a)]

ImplementsPositions == Positions!Spec

-----------------------------------------------------------------------------
(* The inductive invariants of the proofs.                                 *)

\* Begin times are distinct and past, and an open transaction has no row yet.
Stamps ==
    /\ \A r \in ledger : r.created_at \in 1 .. clock
    /\ \A t \in open : t.created_at \in 1 .. clock
    /\ \A r, q \in ledger : r.created_at = q.created_at => r = q
    /\ \A t, u \in open : t.created_at = u.created_at => t = u
    /\ \A t \in open, r \in ledger : t.created_at # r.created_at

HasLatest(R) == R # {} => \E m \in R : \A q \in R : q.created_at <= m.created_at

\* Some row is the latest of its account, so that the balance is defined, and
\* the active pledges of an account are finitely many quanta within it.
Position ==
    \A a \in Accounts :
        /\ HasLatest(RowsOf(a))
        /\ IsFiniteSet(ActiveQuanta(pledges[a]))
        /\ ActivePledged(a) <= GetLatestBalance(a)

\* What an open transaction knows about the rows it was begun for.
Requests ==
    \A t \in open :
        /\ t.type # "reversal" => t.target = 0
        /\ t.type = "adjustment" =>
              /\ adjustments[t.account][t.reference_id].status # "none"
              /\ t.amount = 10 * adjustments[t.account][t.reference_id].amount
        /\ t.type = "reversal" =>
              \E original \in ledger :
                  /\ original.created_at = t.target
                  /\ original.account = t.account
                  /\ t.phase = "read" => original.type # "reversal"

=============================================================================
