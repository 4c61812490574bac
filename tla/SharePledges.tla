---------------------------- MODULE SharePledges ----------------------------
(***************************************************************************)
(* The rows of share_pledges that belong to ONE share account, as a        *)
(* function from loans to pledges: UNIQUE (share_account_id, loan_id)      *)
(* makes it a function.  The share ledger and the loan workflow both build *)
(* their actions from these operators (internal/share/loan_security.go and *)
(* pledges.sql).                                                           *)
(*                                                                         *)
(* Money is counted in ledger quanta of KES 0.0001, the scale of every     *)
(* NUMERIC(19,4) column.                                                   *)
(***************************************************************************)
EXTENDS Integers, FiniteSets

CONSTANT Loans

PledgeTypes    == {"applicant_security", "guarantor_security"}
PledgeStatuses == {"none", "pending", "active", "released", "cancelled"}

\* A pledge row; status "none" stands for a row that does not exist.
Pledge   == [type : PledgeTypes, amount : Nat, status : PledgeStatuses]
NoPledge == [type |-> "applicant_security", amount |-> 0, status |-> "none"]

NoPledges == [l \in Loans |-> NoPledge]

(***************************************************************************)
(* SUM(pledged_amount) over the active rows.  The sum is the number of     *)
(* pledged quanta: quantum k of the pledge for loan l is the pair <<l, k>>.*)
(***************************************************************************)
ActiveQuanta(f) ==
    UNION {{l} \X (1 .. f[l].amount) : l \in {x \in Loans : f[x].status = "active"}}

GetActivePledgedAmount(f) == Cardinality(ActiveQuanta(f))

\* A mutant: capacity that forgets what is already pledged.
WholeBalance(balance, pledged) == balance

\* Unpledged shares, clamped at zero.  Balances and pledges are whole quanta,
\* so the code's truncation to four decimals has nothing to cut off.
guaranteeAvailable(balance, pledged) ==
    IF balance < pledged THEN 0 ELSE balance - pledged

\* A mutant: share_pledges without CHECK (pledged_amount > 0).
AcceptsAnyAmount(f, l, amount) == f[l].status = "none"

\* A mutant: ON CONFLICT DO UPDATE.
ReplacesPledge(f, l, amount) == amount > 0

\* INSERT ... ON CONFLICT (share_account_id, loan_id) DO NOTHING RETURNING: a
\* second row for the loan, whatever its status, is an error for the caller.
CanCreateSharePledge(f, l, amount) == f[l].status = "none" /\ amount > 0

CreateSharePledge(f, l, type, amount) ==
    [f EXCEPT ![l] = [type |-> type, amount |-> amount, status |-> "pending"]]

ActivateSharePledge(f, l) ==
    [f EXCEPT ![l] = [type |-> f[l].type, amount |-> f[l].amount, status |-> "active"]]

\* ReleaseLoanSharePledges: pending rows are cancelled, active ones released.
ReleaseLoanSharePledge(f, l) ==
    [f EXCEPT ![l] = [type |-> f[l].type, amount |-> f[l].amount,
                      status |-> CASE f[l].status = "pending" -> "cancelled"
                                   [] f[l].status = "active"  -> "released"
                                   [] OTHER                   -> f[l].status]]
=============================================================================
