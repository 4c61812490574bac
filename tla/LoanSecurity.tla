---------------------------- MODULE LoanSecurity ----------------------------
(***************************************************************************)
(* The loan workflow (internal/loan/service.go) from application to        *)
(* settlement, with the members whose standing it checks                   *)
(* (internal/member) and the share pledges that secure it                  *)
(* (internal/share/loan_security.go).                                      *)
(*                                                                         *)
(* Every operation is one ExecCollateralTx.  It locks the loan row, then   *)
(* the members it relies on (FOR SHARE), then the share accounts it reads, *)
(* and holds all of them to COMMIT, so an operation is one step; what      *)
(* interleaves is the operations of several staff members, of members who  *)
(* move shares, and of the clerks who suspend and close members.  An       *)
(* operation that is refused or rolled back changes nothing.               *)
(*                                                                         *)
(* A member has one share account, named by the member.                    *)
(***************************************************************************)
EXTENDS SharePledges

CONSTANTS
    Members,
    NoOne,          \* the applicant of a loan that does not exist yet
    Principals,     \* requested principals, in quanta
    Guarantees,     \* amounts guarantors are asked for
    OwnPledges,     \* share pledges applicants offer
    MaxGuarantors,  \* guarantors of one loan (20 in the code)
    MaxShares,      \* bound on one member's balance
    MaxUnavailable  \* bound on the members suspended, closed or frozen at one time

ASSUME LoanConstants ==
    /\ NoOne \notin Members
    /\ IsFiniteSet(Members)
    /\ Principals \subseteq Int /\ Guarantees \subseteq Int /\ OwnPledges \subseteq Int
    /\ MaxGuarantors \in Nat
    /\ {MaxShares, MaxUnavailable} \subseteq Nat

VARIABLES
    member,      \* member -> members.status
    frozen,      \* the members whose share account is not active
    balance,     \* member -> the latest share balance
    pledges,     \* member -> loan -> share_pledges row
    loans,       \* loan -> loans row
    guarantors   \* loan -> member -> loan_guarantors row

vars == <<member, frozen, balance, pledges, loans, guarantors>>

MemberStatuses    == {"active", "suspended", "closed"}
LoanStatuses      == {"none", "pending", "approved", "active", "rejected", "closed"}
GuarantorStatuses == {"none", "pending", "approved", "rejected"}

\* Status "none" stands for a row that does not exist.
Loan         == [applicant : Members \cup {NoOne}, principal : Nat, status : LoanStatuses]
NoLoan       == [applicant |-> NoOne, principal |-> 0, status |-> "none"]
Guarantor    == [amount : Nat, status : GuarantorStatuses]
NoGuarantor  == [amount |-> 0, status |-> "none"]

AttachedTo(l) == {g \in Members : guarantors[l][g].status # "none"}

TypeOK ==
    /\ member \in [Members -> MemberStatuses]
    /\ frozen \subseteq Members
    /\ balance \in [Members -> Nat]
    /\ pledges \in [Members -> [Loans -> Pledge]]
    /\ loans \in [Loans -> Loan]
    /\ guarantors \in [Loans -> [Members -> Guarantor]]
    /\ \A l \in Loans :
          /\ Cardinality(AttachedTo(l)) <= MaxGuarantors
          /\ loans[l].applicant \notin AttachedTo(l)

Init ==
    /\ member = [m \in Members |-> "active"]
    /\ frozen = {}
    /\ balance = [m \in Members |-> 0]
    /\ pledges = [m \in Members |-> NoPledges]
    /\ loans = [l \in Loans |-> NoLoan]
    /\ guarantors = [l \in Loans |-> [g \in Members |-> NoGuarantor]]

-----------------------------------------------------------------------------
(* Reads.                                                                  *)

\* The sum of a function's values, as a number of quanta.
Quanta(f) == UNION {{x} \X (1 .. f[x]) : x \in DOMAIN f}
Total(f)  == Cardinality(Quanta(f))

Pledged(m) == GetActivePledgedAmount(pledges[m])

ActiveMember(m)  == member[m] = "active"
ActiveAccount(m) == m \notin frozen

ApprovedGuarantors(l) == {g \in Members : guarantors[l][g].status = "approved"}

\* CheckGuarantorSecurity: a proposal must fit the unpledged shares.
CheckGuarantorSecurity(g, amount) ==
    /\ ActiveAccount(g)
    /\ amount > 0
    /\ amount <= guaranteeAvailable(balance[g], Pledged(g))

\* The applicant's shares carry a third of the principal.
WithinShareCeiling(m, principal) == 3 * balance[m] >= principal

SetPledge(m, f)     == pledges' = [pledges EXCEPT ![m] = f]
SetStatus(l, st)    ==
    loans' = [loans EXCEPT ![l] = [applicant |-> loans[l].applicant,
                                   principal |-> loans[l].principal, status |-> st]]
SetGuarantor(l, g, amount, st) ==
    guarantors' = [guarantors EXCEPT ![l] = [guarantors[l] EXCEPT
                      ![g] = [amount |-> amount, status |-> st]]]

-----------------------------------------------------------------------------
(* Application.                                                            *)

\* uq_loans_one_open_application_per_member.
HasOpenApplication(m) ==
    \E l \in Loans : loans[l].applicant = m /\ loans[l].status \in {"pending", "approved"}

\* Proposals g: a function from the proposed guarantors to their amounts.
ValidApplication(m, principal, pledge, g) ==
    /\ principal > 0
    /\ Cardinality(DOMAIN g) <= MaxGuarantors
    /\ m \notin DOMAIN g
    /\ \A x \in DOMAIN g : g[x] > 0
    /\ pledge >= 0
    /\ Total(g) + pledge >= principal

\* ProposeApplicantSecurity's checks, over the locked accounts of everybody.
SecurityProposable(m, principal, pledge, g) ==
    /\ ActiveAccount(m)
    /\ \A x \in DOMAIN g : CheckGuarantorSecurity(x, g[x])
    /\ WithinShareCeiling(m, principal)
    /\ balance[m] - Pledged(m) >= pledge

ApplyForLoan(l, m, principal, pledge, g) ==
    /\ ValidApplication(m, principal, pledge, g)
    /\ ActiveMember(m) /\ \A x \in DOMAIN g : ActiveMember(x)
    /\ loans[l].status = "none"
    /\ ~HasOpenApplication(m)
    /\ SecurityProposable(m, principal, pledge, g)
    /\ loans' = [loans EXCEPT ![l] =
          [applicant |-> m, principal |-> principal, status |-> "pending"]]
    /\ \/ pledge = 0 /\ UNCHANGED pledges
       \/ /\ CanCreateSharePledge(pledges[m], l, pledge)
          /\ SetPledge(m, CreateSharePledge(pledges[m], l, "applicant_security", pledge))
    /\ guarantors' = [guarantors EXCEPT ![l] = [x \in Members |->
          IF x \in DOMAIN g THEN [amount |-> g[x], status |-> "pending"] ELSE NoGuarantor]]
    /\ UNCHANGED <<member, frozen, balance>>

-----------------------------------------------------------------------------
(* Guarantors, while the loan is pending.                                  *)

AnyMember(l, g) == TRUE  \* a mutant
NotTheApplicant(l, g) == loans[l].applicant # g

RoomForGuarantor(l) == Cardinality(AttachedTo(l)) < MaxGuarantors

\* A guarantor who is attached already, with whatever status, adds nothing.
AddGuarantor(l, g, amount) ==
    /\ loans[l].status = "pending"
    /\ NotTheApplicant(l, g)
    /\ guarantors[l][g].status = "none"
    /\ RoomForGuarantor(l)
    /\ ActiveMember(g)
    /\ CheckGuarantorSecurity(g, amount)
    /\ SetGuarantor(l, g, amount, "pending")
    /\ UNCHANGED <<member, frozen, balance, pledges, loans>>

\* The guarantor's shares are checked again and reserved with the decision.
ApproveGuarantor(l, g) ==
    LET amount == guarantors[l][g].amount
    IN  /\ loans[l].status = "pending"
        /\ guarantors[l][g].status = "pending"
        /\ ActiveMember(g)
        /\ CheckGuarantorSecurity(g, amount)
        /\ CanCreateSharePledge(pledges[g], l, amount)
        /\ SetPledge(g, ActivateSharePledge(
              CreateSharePledge(pledges[g], l, "guarantor_security", amount), l))
        /\ SetGuarantor(l, g, amount, "approved")
        /\ UNCHANGED <<member, frozen, balance, loans>>

\* ReleaseLoanSecurity: one guarantor's pledge, or all the loan's pledges.
KeepsPledges(l, S) == UNCHANGED pledges  \* a mutant

\* A mutant: the rows are deleted, and with them the record of the security.
DeletesPledges(l, S) ==
    pledges' = [m \in Members |->
        IF m \in S THEN [pledges[m] EXCEPT ![l] = NoPledges[l]] ELSE pledges[m]]

ReleaseLoanSecurity(l, S) ==
    pledges' = [m \in Members |->
        IF m \in S THEN ReleaseLoanSharePledge(pledges[m], l) ELSE pledges[m]]

\* A mutant: the row without the pledge.
ForgetsPledge(l, g) == UNCHANGED pledges
ReleaseGuarantor(l, g) == ReleaseLoanSecurity(l, {g})

RemoveGuarantor(l, g) ==
    /\ loans[l].status = "pending"
    /\ guarantors[l][g].status # "none"
    /\ ReleaseGuarantor(l, g)
    /\ SetGuarantor(l, g, guarantors[l][g].amount, "rejected")
    /\ UNCHANGED <<member, frozen, balance, loans>>

-----------------------------------------------------------------------------
(* Decisions.                                                              *)

\* GetApplicantSharePledge: the amount is 0 when there is no pledge.
ApplicantPledge(l) == pledges[loans[l].applicant][l]

CanHonour(m, amount) == balance[m] - Pledged(m) >= amount

\* VerifyApplicantSecurity.  Only approval activates a pending pledge.
VerifyApplicantSecurity(l, approving) ==
    LET m == loans[l].applicant
    IN  /\ ActiveAccount(m)
        /\ WithinShareCeiling(m, loans[l].principal)
        /\ Pledged(m) <= balance[m]
        /\ \/ ApplicantPledge(l).status \in {"none", "active"} /\ UNCHANGED pledges
           \/ /\ ApplicantPledge(l).status = "pending"
              /\ approving
              /\ CanHonour(m, ApplicantPledge(l).amount)
              /\ SetPledge(m, ActivateSharePledge(pledges[m], l))

\* VerifyGuarantorSecurities: the reservation itself, not the guarantor's row.
VerifyGuarantorSecurities(l) ==
    \A g \in ApprovedGuarantors(l) :
        /\ ActiveMember(g)
        /\ ActiveAccount(g)
        /\ pledges[g][l].type = "guarantor_security"
        /\ pledges[g][l].status = "active"
        /\ pledges[g][l].amount >= guarantors[l][g].amount
        /\ Pledged(g) <= balance[g]

\* A mutant: guarantees that were only proposed count as well.
AllProposals(l) == Total([g \in AttachedTo(l) |-> guarantors[l][g].amount])
ApprovedTotal(l) == Total([g \in ApprovedGuarantors(l) |-> guarantors[l][g].amount])

verifyCollateral(l, approving) ==
    /\ ActiveMember(loans[l].applicant)
    /\ VerifyApplicantSecurity(l, approving)
    /\ VerifyGuarantorSecurities(l)
    /\ ApplicantPledge(l).amount + ApprovedTotal(l) >= loans[l].principal

ApproveLoan(l) ==
    /\ loans[l].status = "pending"
    /\ verifyCollateral(l, TRUE)
    /\ SetStatus(l, "approved")
    /\ UNCHANGED <<member, frozen, balance, guarantors>>

\* A mutant: an active loan may be rejected too.
RejectsAnything(l) == loans[l].status \in {"pending", "approved", "active"}
Rejectable(l) == loans[l].status \in {"pending", "approved"}

RejectLoan(l) ==
    /\ Rejectable(l)
    /\ SetStatus(l, "rejected")
    /\ ReleaseLoanSecurity(l, Members)
    /\ UNCHANGED <<member, frozen, balance, guarantors>>

\* The disbursement, the status and the schedule commit together; asking again
\* returns the first disbursement.
DisburseLoan(l) ==
    /\ loans[l].status = "approved"
    /\ verifyCollateral(l, FALSE)
    /\ SetStatus(l, "active")
    /\ UNCHANGED <<member, frozen, balance, guarantors>>

\* The repayment that settles the loan (RecordRepaymentForPeriodInTx; the money
\* itself is the subject of LoanRepayments).
CloseLoan(l) ==
    /\ loans[l].status = "active"
    /\ SetStatus(l, "closed")
    /\ ReleaseLoanSecurity(l, Members)
    /\ UNCHANGED <<member, frozen, balance, guarantors>>

-----------------------------------------------------------------------------
(* Meanwhile.                                                              *)

Unavailable(status, accounts) == accounts \cup {m \in Members : status[m] # "active"}

statusTransitions == [active |-> {"suspended", "closed"}, suspended |-> {"active"}, closed |-> {}]

\* UpdateMemberStatus and CloseMember: no other domain is asked.
UpdateMemberStatus(m, st) ==
    /\ st \in statusTransitions[member[m]]
    /\ member' = [member EXCEPT ![m] = st]
    /\ Cardinality(Unavailable(member', frozen)) <= MaxUnavailable
    /\ UNCHANGED <<frozen, balance, pledges, loans, guarantors>>

\* An operator freezes or releases a share account; no code does.
SetAccountStatus(S) ==
    /\ frozen' = S
    /\ Cardinality(Unavailable(member, S)) <= MaxUnavailable
    /\ UNCHANGED <<member, balance, pledges, loans, guarantors>>

\* Any posting of the share ledger; SharePositions!Move is what it promises.
MoveShares(m, b) ==
    /\ b >= Pledged(m)
    /\ balance' = [balance EXCEPT ![m] = b]
    /\ UNCHANGED <<member, frozen, pledges, loans, guarantors>>

Next ==
    \/ \E l \in Loans :
          \/ \E m \in Members, principal \in Principals, pledge \in OwnPledges,
                S \in SUBSET Members :
                \E g \in [S -> Guarantees] : ApplyForLoan(l, m, principal, pledge, g)
          \/ \E g \in Members :
                \/ \E amount \in Guarantees : AddGuarantor(l, g, amount)
                \/ ApproveGuarantor(l, g)
                \/ RemoveGuarantor(l, g)
          \/ ApproveLoan(l)
          \/ RejectLoan(l)
          \/ DisburseLoan(l)
          \/ CloseLoan(l)
    \/ \E m \in Members :
          \/ \E st \in MemberStatuses : UpdateMemberStatus(m, st)
          \/ \E b \in 0 .. MaxShares : MoveShares(m, b)
          \/ SetAccountStatus(frozen \cup {m})
          \/ SetAccountStatus(frozen \ {m})

Spec == Init /\ [][Next]_vars

-----------------------------------------------------------------------------
(* Correctness.                                                            *)

\* The quanta of the active pledges that secure a loan.
SecurityOf(l) ==
    [m \in {x \in Members : pledges[x][l].status = "active"} |-> pledges[m][l].amount]

\* "Only approved guarantees backed by sufficient active pledges count": from
\* approval until it is settled a loan is covered by active pledges, whatever
\* members, guarantors and other loans do in between.
LoansSecured ==
    \A l \in Loans :
        loans[l].status \in {"approved", "active"} => Total(SecurityOf(l)) >= loans[l].principal

\* "rejection and full repayment release all security for the loan": no member
\* keeps shares reserved for a loan that is over, or that never was.
EndedLoansHoldNothing ==
    \A l \in Loans, m \in Members :
        loans[l].status \in {"none", "rejected", "closed"} =>
            pledges[m][l].status \notin {"pending", "active"}

\* The two domains agree about every open loan: a guarantor is approved exactly
\* when an active guarantor pledge of that amount exists, and only the applicant
\* has applicant security.
GuaranteesMatchPledges ==
    \A l \in Loans, m \in Members :
        loans[l].status \in {"pending", "approved", "active"} =>
            /\ guarantors[l][m].status = "approved" <=>
                  /\ pledges[m][l].type = "guarantor_security"
                  /\ pledges[m][l].status = "active"
            /\ guarantors[l][m].status = "approved" =>
                  pledges[m][l].amount = guarantors[l][m].amount
            /\ pledges[m][l].type = "applicant_security" /\ pledges[m][l].status # "none" =>
                  loans[l].applicant = m

\* Loans and Shares agree: about the security of open loans, and that ended
\* loans have none.
DomainsAgree == GuaranteesMatchPledges /\ EndedLoansHoldNothing

\* "Guarantors may be added, approved or removed only while the loan is
\* Pending": security of an approved or disbursed loan is given back only by
\* the step that ends the loan, and then all of it.
SecurityHeldUntilLoanEnds ==
    [][\A l \in Loans, m \in Members :
          /\ loans[l].status \in {"approved", "active"}
          /\ pledges[m][l].status = "active"
          /\ pledges'[m][l].status # "active"
          => /\ loans[l].status = "approved" => loans'[l].status = "rejected"
             /\ loans[l].status = "active" => loans'[l].status = "closed"]_vars

\* "Same collateral is pledged more than once" cannot happen: the workflow uses
\* shares only in the ways the Shares domain allows.
Positions == INSTANCE SharePositions WITH Accounts <- Members

ImplementsPositions == Positions!Spec

\* "Before a member can close, authoritative checks must confirm: no outstanding
\* loan obligations ... no active guarantor obligations ... no active share
\* pledges".
ClosedMembersAreClear ==
    \A m \in Members, l \in Loans :
        member[m] = "closed" =>
            /\ pledges[m][l].status # "active"
            /\ ~(loans[l].applicant = m /\ loans[l].status = "active")
=============================================================================
