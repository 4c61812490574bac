------------------------------ MODULE Credits ------------------------------
(***************************************************************************)
(* Spending the credit that an overpaid loan leaves                        *)
(* (internal/loan/credit_handlers.go): transfers to shares, applications   *)
(* to another loan, and refunds that a second officer reviews and settles. *)
(*                                                                         *)
(* ManageCredit is one transaction that holds the credit row FOR UPDATE:   *)
(* it locks and reads in one step and commits in a later one.  A posting   *)
(* that the owning service refuses rolls everything back.  Credits are     *)
(* created by LoanRepayments; their status stays "available", because no   *)
(* code calls UpdateCreditBalanceStatus.  CashCustody has staff changes.   *)
(***************************************************************************)
EXTENDS Staff, Integers, FiniteSetsExt

CONSTANTS
    CreditIds,      \* credit_balances rows
    CreditAmount,   \* the amount of every credit
    OperationIds,   \* operation UUIDs that clients choose
    OperationAmounts,
    PayoutRefs,     \* references of refunds paid out
    CreditCalls     \* transactions that may be open at once

VARIABLES
    closedOwners,   \* credits whose member is deleted
    operations,     \* credit_operations
    ledgerRows,     \* share purchases and repayments posted for operations
    creditCalls     \* the open transactions

creditVars == <<staff, closedOwners, operations, ledgerRows, creditCalls>>

SpendActions  == {"transfer_shares", "apply_loan", "request_refund"}
ReviewActions == {"approve_refund", "reject_refund", "record_refund"}

NoStaff == "nobody"

\* Tables are finite; amounts and payout references are required fields.
ASSUME CreditConstants ==
    /\ IsFiniteSet(OperationIds)
    /\ CreditAmount \in Nat /\ OperationAmounts \subseteq Nat
    /\ NoStaff \notin StaffIds /\ "none" \notin PayoutRefs

NoOperation == [credit |-> {}, action |-> "none", amount |-> 0, status |-> "none",
                requested_by |-> NoStaff, reviewed_by |-> NoStaff,
                completed_by |-> NoStaff, payout_reference |-> "none"]

NoCreditCall == [credit |-> {}, action |-> "idle", by |-> NoStaff, operation |-> "none",
                 amount |-> 0, reference |-> "none"]

CreditsTypeOK ==
    LET People == StaffIds \cup {NoStaff}
    IN  /\ StaffTypeOK
        /\ closedOwners \subseteq CreditIds
        /\ operations \in [OperationIds ->
               [credit : SUBSET CreditIds, action : SpendActions \cup {"none"}, amount : Nat,
                status : {"none", "pending", "approved", "completed", "rejected"},
                requested_by : People, reviewed_by : People, completed_by : People,
                payout_reference : PayoutRefs \cup {"none"}]]
        /\ ledgerRows \subseteq OperationIds \X SpendActions \X Nat
        /\ creditCalls \in [CreditCalls ->
               [credit : SUBSET CreditIds, action : SpendActions \cup ReviewActions \cup {"idle"},
                by : People, operation : OperationIds \cup {"none"}, amount : Nat,
                reference : PayoutRefs \cup {"none"}]]

CreditsInit ==
    /\ StaffInit
    /\ closedOwners = {}
    /\ operations = [o \in OperationIds |-> NoOperation]
    /\ ledgerRows = {}
    /\ creditCalls = [c \in CreditCalls |-> NoCreditCall]

-----------------------------------------------------------------------------
(* What every call asks first.                                             *)

\* CreditApprovalAllowed for reviews, cash.record for the rest.
HandlerAllows(by, action) ==
    roleHasPermission(staff[by].role,
        IF action \in ReviewActions THEN "credit.withdraw" ELSE "cash.record")

\* A mutant: the credit is read without FOR UPDATE.
CreditUnlocked(k) == TRUE

\* LockCreditBalanceByID waits for the open transaction that holds the row.
CreditIsFree(k) == \A c \in CreditCalls : k \notin creditCalls[c].credit

\* GetCreditMemberBranch finds no deleted member: the credit is "not found".
BeginCredit(c, k, call) ==
    /\ creditCalls[c] = NoCreditCall
    /\ Admitted(call.by, "ManageCredit")
    /\ HandlerAllows(call.by, call.action)
    /\ CreditIsFree(k)
    /\ k \notin closedOwners
    /\ creditCalls' = [creditCalls EXCEPT ![c] = call]
    /\ UNCHANGED <<staff, closedOwners, operations, ledgerRows>>

CommitCredit(c) ==
    /\ creditCalls' = [creditCalls EXCEPT ![c] = NoCreditCall]
    /\ UNCHANGED <<staff, closedOwners>>

\* A posting that fails, a later refusal, a cancelled request or a crash.
AbortCredit(c) ==
    /\ creditCalls[c] # NoCreditCall
    /\ CommitCredit(c)
    /\ UNCHANGED <<operations, ledgerRows>>

\* CloseMember, in another component.
OwnerCloses(k) ==
    /\ k \notin closedOwners
    /\ closedOwners' = closedOwners \cup {k}
    /\ UNCHANGED <<staff, operations, ledgerRows, creditCalls>>

-----------------------------------------------------------------------------
(* Transfers, applications and refund requests.                            *)

AmountIn(k, statuses) ==
    SumFunctionOnSet([o \in OperationIds |-> operations[o].amount],
                     {o \in OperationIds : k \in operations[o].credit /\ operations[o].status \in statuses})

Reserved(k) == AmountIn(k, {"pending", "approved"})
Used(k)     == AmountIn(k, {"completed"})

\* GetCreditFunds: amount - reserved - used.
GetCreditFunds(k) == CreditAmount - Reserved(k) - Used(k)

\* An operation that exists is returned, or refused if its details differ.
BeginSpend(c, by, k, o, action, amount) ==
    /\ operations[o] = NoOperation
    /\ GetCreditFunds(k) >= amount
    /\ BeginCredit(c, k, [credit |-> {k}, action |-> action, by |-> by, operation |-> o,
                          amount |-> amount, reference |-> "none"])

\* A mutant: an application to a loan is completed without its repayment.
ForgetsLoans(call) ==
    IF call.action = "transfer_shares" THEN {<<call.operation, call.action, call.amount>>} ELSE {}

\* PurchaseSharesInTx or RecordRepaymentForPeriodInTx, with the operation's ID.
Posting(call) ==
    IF call.action = "request_refund" THEN {} ELSE {<<call.operation, call.action, call.amount>>}

\* The posting and the completion of the row are in the same transaction; a
\* refund stays pending.  ON CONFLICT DO NOTHING: an operation ID that was used
\* meanwhile for another credit fails the call.
InsertCreditOperation(c) ==
    LET call   == creditCalls[c]
        refund == call.action = "request_refund"
    IN  /\ call.action \in SpendActions
        /\ operations[call.operation] = NoOperation
        /\ operations' = [operations EXCEPT ![call.operation] =
               [NoOperation EXCEPT !.credit = call.credit, !.action = call.action,
                                   !.amount = call.amount, !.requested_by = call.by,
                                   !.status = IF refund THEN "pending" ELSE "completed",
                                   !.completed_by = IF refund THEN NoStaff ELSE call.by]]
        /\ ledgerRows' = ledgerRows \cup Posting(call)
        /\ CommitCredit(c)

-----------------------------------------------------------------------------
(* Review and settlement of a refund.                                      *)

\* A mutant: the officer who asked may go on alone.
AnyOfficer(operation, by) == TRUE

\* operation.RequestedBy == actor.ID is refused.
AnotherOfficer(operation, by) == operation.requested_by # by

\* A mutant: a settled refund is recorded again.
StillPayableOut(status) == status \in {"approved", "completed"}

\* What record_refund changes; a settled refund is returned or refused.
MayRecord(status) == status = "approved"

BeginReview(c, by, k, o, action, reference) ==
    /\ operations[o].credit = {k}
    /\ operations[o].action = "request_refund"
    /\ AnotherOfficer(operations[o], by)
    /\ IF action = "record_refund" THEN MayRecord(operations[o].status)
       ELSE operations[o].status = "pending" /\ reference = "none"
    /\ BeginCredit(c, k, [credit |-> {k}, action |-> action, by |-> by, operation |-> o,
                          amount |-> 0, reference |-> reference])

ReviewCreditOperation(c) ==
    LET call == creditCalls[c]
    IN  /\ call.action \in {"approve_refund", "reject_refund"}
        /\ operations' = [operations EXCEPT
               ![call.operation].status = IF call.action = "approve_refund" THEN "approved" ELSE "rejected",
               ![call.operation].reviewed_by = call.by]
        /\ CommitCredit(c)
        /\ UNCHANGED ledgerRows

\* UNIQUE payout_reference.
ReferenceIsUnused(r) == \A o \in OperationIds : operations[o].payout_reference # r

CompleteCreditOperation(c) ==
    LET call == creditCalls[c]
    IN  /\ call.action = "record_refund"
        /\ ReferenceIsUnused(call.reference)
        /\ operations' = [operations EXCEPT
               ![call.operation].status = "completed",
               ![call.operation].completed_by = call.by,
               ![call.operation].payout_reference = call.reference]
        /\ CommitCredit(c)
        /\ UNCHANGED ledgerRows

CreditsNext ==
    \/ \E k \in CreditIds : OwnerCloses(k)
    \/ \E c \in CreditCalls, by \in StaffIds, k \in CreditIds, o \in OperationIds :
           \/ \E action \in SpendActions, amount \in OperationAmounts :
                  BeginSpend(c, by, k, o, action, amount)
           \/ \E action \in {"approve_refund", "reject_refund"} :
                  BeginReview(c, by, k, o, action, "none")
           \/ \E reference \in PayoutRefs : BeginReview(c, by, k, o, "record_refund", reference)
    \/ \E c \in CreditCalls :
           \/ InsertCreditOperation(c)
           \/ ReviewCreditOperation(c)
           \/ CompleteCreditOperation(c)
           \/ AbortCredit(c)

CreditsSpec == CreditsInit /\ [][CreditsNext]_creditVars

-----------------------------------------------------------------------------
(* Correctness.                                                            *)

\* ManageCredit: without the row lock "a refund and share transfer can spend
\* the same money".  What operations hold or have spent never exceeds the credit.
CreditNeverOverspent == \A k \in CreditIds : Reserved(k) + Used(k) <= CreditAmount

\* The credit and the ledgers agree: a transfer or an application is completed
\* exactly when its amount was posted, once, and a refund posts nothing.
SpentMeansPosted ==
    ledgerRows = {<<o, operations[o].action, operations[o].amount>> :
                     o \in {x \in OperationIds : operations[x].action # "request_refund"
                                                /\ operations[x].status # "none"}}

\* Every quantum of a credit is available, reserved, or spent where a ledger
\* shows it.
CreditAccountedFor == CreditNeverOverspent /\ SpentMeansPosted

\* "another officer must review and settle this refund": money leaves on a
\* refund only after somebody else than the requester approved it and somebody
\* else recorded the payment, and one payment settles one refund.
RefundsSettledByOthers ==
    \A o \in OperationIds :
        operations[o].action = "request_refund" /\ operations[o].status = "completed" =>
            /\ operations[o].reviewed_by \notin {NoStaff, operations[o].requested_by}
            /\ operations[o].completed_by \notin {NoStaff, operations[o].requested_by}
            /\ \A p \in OperationIds \ {o} :
                   operations[p].payout_reference # operations[o].payout_reference

\* A completed or rejected operation never changes again, and no call changes
\* whose money an operation moves, how much, or who asked for it.
OperationsFinal ==
    [][\A o \in OperationIds :
          LET a == operations[o]
              b == operations'[o]
          IN  /\ a.status \in {"completed", "rejected"} => b = a
              /\ a.status # "none" =>
                     /\ b.credit = a.credit /\ b.action = a.action
                     /\ b.amount = a.amount /\ b.requested_by = a.requested_by]_creditVars
=============================================================================
