------------------------- MODULE LoanSecurityProofs -------------------------
(***************************************************************************)
(* The loan workflow and its security, for any number of members, loans,   *)
(* guarantors, principals and pledges.                                     *)
(***************************************************************************)
EXTENDS LoanSecurity, FiniteSetTheorems, TLAPS

-----------------------------------------------------------------------------
(* The inductive invariant: what is true of every loan by itself.          *)

Types ==
    /\ member \in [Members -> MemberStatuses]
    /\ frozen \subseteq Members
    /\ balance \in [Members -> Nat]
    /\ pledges \in [Members -> [Loans -> Pledge]]
    /\ loans \in [Loans -> Loan]
    /\ guarantors \in [Loans -> [Members -> Guarantor]]

GuarantorsFit(l) ==
    /\ Cardinality(AttachedTo(l)) <= MaxGuarantors
    /\ loans[l].applicant \notin AttachedTo(l)

Secured(l) ==
    loans[l].status \in {"approved", "active"} => Total(SecurityOf(l)) >= loans[l].principal

Matched(l) ==
    \A m \in Members :
        /\ loans[l].status \in {"none", "rejected", "closed"} =>
               pledges[m][l].status \notin {"pending", "active"}
        /\ loans[l].status \in {"pending", "approved", "active"} =>
               /\ guarantors[l][m].status = "approved" <=>
                     /\ pledges[m][l].type = "guarantor_security"
                     /\ pledges[m][l].status = "active"
               /\ guarantors[l][m].status = "approved" =>
                     pledges[m][l].amount = guarantors[l][m].amount
               /\ pledges[m][l].type = "applicant_security" /\ pledges[m][l].status # "none" =>
                     loans[l].applicant = m

\* A loan that exists has an applicant, one that does not was never secured, and
\* a proposal is always the applicant's own: a guarantor's shares are reserved
\* with the decision.
Known(l) ==
    /\ loans[l].status # "none" => loans[l].applicant \in Members
    /\ \A m \in Members :
          /\ loans[l].status = "none" => pledges[m][l].status = "none"
          /\ pledges[m][l].status = "none" => pledges[m][l].amount = 0
          /\ pledges[m][l].status = "pending" => pledges[m][l].type = "applicant_security"

LoanOK(l) == GuarantorsFit(l) /\ Secured(l) /\ Matched(l) /\ Known(l)

LoanInv == Types /\ \A l \in Loans : LoanOK(l)

\* The invariant is, and implies, what the runs check.
LEMMA LoanInvImplies == LoanInv => TypeOK /\ DomainsAgree /\ LoansSecured
<1> SUFFICES ASSUME LoanInv PROVE TypeOK /\ DomainsAgree /\ LoansSecured
  OBVIOUS
<1>1. TypeOK
  BY DEF LoanInv, Types, TypeOK, LoanOK, GuarantorsFit
<1>2. DomainsAgree
  BY DEF LoanInv, LoanOK, Matched, DomainsAgree, GuaranteesMatchPledges, EndedLoansHoldNothing
<1>3. LoansSecured
  BY DEF LoanInv, LoanOK, Secured, LoansSecured
<1>4. QED
  BY <1>1, <1>2, <1>3

-----------------------------------------------------------------------------
(* Sums of quanta.                                                         *)

LEMMA QuantaFinite ==
    ASSUME NEW S, IsFiniteSet(S), NEW f \in [S -> Nat]
    PROVE  IsFiniteSet(Quanta(f)) /\ Total(f) \in Nat
<1> DEFINE T == {{x} \X (1 .. f[x]) : x \in S}
           h == [x \in S |-> {x} \X (1 .. f[x])]
<1>1. h \in Surjection(S, T)
  BY DEF Surjection
<1>2. IsFiniteSet(T)
  <2> HIDE DEF T, h
  <2>1. QED
    BY <1>1, FS_Surjection
<1>3. ASSUME NEW x \in S PROVE IsFiniteSet({x} \X (1 .. f[x]))
  <2>1. IsFiniteSet({x})
    BY FS_Singleton
  <2>2. IsFiniteSet(1 .. f[x])
    <3>1. f[x] \in Int /\ 1 \in Int
      OBVIOUS
    <3>2. QED
      BY <3>1, FS_Interval
  <2>3. QED
    BY <2>1, <2>2, FS_Product
<1>4. \A t \in T : IsFiniteSet(t)
  BY <1>3
<1>5. Quanta(f) = UNION T
  BY DEF Quanta
<1>6. IsFiniteSet(Quanta(f))
  <2> HIDE DEF T
  <2>1. IsFiniteSet(UNION T)
    BY <1>2, <1>4, FS_UNION
  <2>2. QED
    BY <1>5, <2>1
<1>7. QED
  BY <1>6, FS_CardinalityType DEF Total

\* A part of a function adds up to no more than the whole ...
LEMMA PartOfTotal ==
    ASSUME NEW S, IsFiniteSet(S), NEW f \in [S -> Nat], NEW R \in SUBSET S,
           NEW g \in [R -> Nat], \A x \in R : f[x] = g[x]
    PROVE  Total(f) >= Total(g)
<1>1. IsFiniteSet(Quanta(f)) /\ Total(f) \in Nat
  BY QuantaFinite
<1>2. Quanta(g) \in SUBSET Quanta(f)
  BY DEF Quanta
<1>3. Cardinality(Quanta(g)) <= Cardinality(Quanta(f))
  BY <1>1, <1>2, FS_Subset
<1>4. QED
  BY <1>3 DEF Total

\* ... and so does a part with one more of its entries.
LEMMA PartsOfTotal ==
    ASSUME NEW S, IsFiniteSet(S), NEW f \in [S -> Nat], NEW R \in SUBSET S,
           NEW g \in [R -> Nat], \A x \in R : f[x] = g[x], NEW y \in S \ R
    PROVE  Total(f) >= Total(g) + f[y]
<1> DEFINE n == f[y]
           Q == {y} \X (1 .. n)
<1>1. n \in Nat
  OBVIOUS
<1>2. IsFiniteSet(Quanta(f)) /\ Total(f) \in Nat
  BY QuantaFinite
<1>3. IsFiniteSet(R)
  BY FS_Subset
<1>4. IsFiniteSet(Quanta(g)) /\ Total(g) \in Nat
  BY <1>3, QuantaFinite
<1>5. Quanta(g) \cup Q \in SUBSET Quanta(f)
  BY DEF Quanta
<1>6. Quanta(g) \cap Q = {}
  BY DEF Quanta
<1>7. IsFiniteSet(Q) /\ Cardinality(Q) = n
  <2>1. IsFiniteSet({y}) /\ Cardinality({y}) = 1
    BY FS_Singleton
  <2>2. IsFiniteSet(1 .. n) /\ Cardinality(1 .. n) = n
    BY <1>1, FS_Interval
  <2> HIDE DEF n
  <2>3. IsFiniteSet(Q) /\ Cardinality(Q) = Cardinality({y}) * Cardinality(1 .. n)
    BY <2>1, <2>2, FS_Product
  <2> HIDE DEF Q
  <2>4. QED
    BY <1>1, <2>1, <2>2, <2>3
<1> HIDE DEF Q
<1>8. Cardinality(Quanta(g) \cup Q) = Cardinality(Quanta(g)) + Cardinality(Q)
                                          - Cardinality(Quanta(g) \cap Q)
  BY <1>4, <1>7, FS_Union
<1>9. Cardinality(Quanta(g) \cap Q) = 0
  BY <1>6, FS_EmptySet
<1>10. Cardinality(Quanta(g) \cup Q) <= Cardinality(Quanta(f))
  BY <1>2, <1>5, FS_Subset
<1> HIDE DEF n
<1>11. Total(f) >= Total(g) + n
  BY <1>1, <1>2, <1>4, <1>7, <1>8, <1>9, <1>10 DEF Total
<1>12. QED
  BY <1>11 DEF n

-----------------------------------------------------------------------------
(* Steps of one loan.                                                      *)

\* The steps on loan l leave the rows of every other loan alone.
OnlyLoan(l) ==
    \A x \in Loans \ {l} :
        /\ loans'[x] = loans[x] /\ guarantors'[x] = guarantors[x]
        /\ \A m \in Members : pledges'[m][x] = pledges[m][x]

LEMMA SameSecurity ==
    ASSUME NEW l \in Loans, \A m \in Members : pledges'[m][l] = pledges[m][l]
    PROVE  SecurityOf(l)' = SecurityOf(l)
<1>1. {x \in Members : pledges'[x][l].status = "active"}
          = {x \in Members : pledges[x][l].status = "active"}
  OBVIOUS
<1>2. QED
  BY <1>1 DEF SecurityOf

LEMMA OtherLoansStay ==
    ASSUME LoanInv, NEW l \in Loans, Types', OnlyLoan(l), LoanOK(l)'
    PROVE  LoanInv'
<1>1. ASSUME NEW x \in Loans, x # l PROVE LoanOK(x)'
  <2>1. /\ loans'[x] = loans[x] /\ guarantors'[x] = guarantors[x]
        /\ \A m \in Members : pledges'[m][x] = pledges[m][x]
    BY <1>1 DEF OnlyLoan
  <2>2. LoanOK(x)
    BY DEF LoanInv
  <2>3. AttachedTo(x)' = AttachedTo(x)
    BY <2>1 DEF AttachedTo
  <2>4. GuarantorsFit(x)'
    BY <2>1, <2>2, <2>3 DEF GuarantorsFit, LoanOK
  <2>5. Total(SecurityOf(x))' = Total(SecurityOf(x))
    BY <2>1, SameSecurity DEF Total, Quanta
  <2>6. Secured(x)'
    BY <2>1, <2>2, <2>5 DEF Secured, LoanOK
  <2>7. Matched(x)' /\ Known(x)'
    BY <2>1, <2>2 DEF Matched, Known, LoanOK
  <2>8. QED
    BY <2>4, <2>6, <2>7 DEF LoanOK
<1>2. QED
  BY <1>1 DEF LoanInv

\* One row of share_pledges is written.
LEMMA PledgeWritten ==
    ASSUME LoanInv, NEW l \in Loans, NEW m \in Members, NEW p \in Pledge,
           pledges' = [pledges EXCEPT ![m] = [pledges[m] EXCEPT ![l] = p]]
    PROVE  /\ pledges' \in [Members -> [Loans -> Pledge]]
           /\ \A x \in Loans \ {l}, y \in Members : pledges'[y][x] = pledges[y][x]
           /\ \A y \in Members : pledges'[y][l] = IF y = m THEN p ELSE pledges[y][l]
<1>1. pledges \in [Members -> [Loans -> Pledge]]
  BY DEF LoanInv, Types
<1>2. QED
  BY <1>1

LEMMA InitLoanInv == Init => LoanInv
<1> SUFFICES ASSUME Init PROVE LoanInv
  OBVIOUS
<1>1. Types
  BY DEF Init, Types, MemberStatuses, NoPledges, NoPledge, Pledge, PledgeTypes, PledgeStatuses,
         NoLoan, Loan, LoanStatuses, NoGuarantor, Guarantor, GuarantorStatuses
<1>2. ASSUME NEW l \in Loans PROVE LoanOK(l)
  <2>1. /\ loans[l] = NoLoan /\ \A m \in Members : pledges[m][l] = NoPledge
        /\ \A g \in Members : guarantors[l][g] = NoGuarantor
    BY DEF Init, NoPledges
  <2>2. AttachedTo(l) = {}
    BY <2>1 DEF AttachedTo, NoGuarantor
  <2>3. GuarantorsFit(l)
    BY <2>2, FS_EmptySet, LoanConstants DEF GuarantorsFit
  <2>4. Secured(l) /\ Matched(l) /\ Known(l)
    BY <2>1 DEF Secured, Matched, Known, NoLoan, NoPledge
  <2>5. QED
    BY <2>3, <2>4 DEF LoanOK
<1>3. QED
  BY <1>1, <1>2 DEF LoanInv

LEMMA ApplyKeeps ==
    ASSUME LoanInv, NEW l \in Loans, NEW m \in Members, NEW principal \in Principals,
           NEW pledge \in OwnPledges, NEW S \in SUBSET Members, NEW g \in [S -> Guarantees],
           ApplyForLoan(l, m, principal, pledge, g)
    PROVE  LoanInv'
<1> DEFINE p == [type |-> "applicant_security", amount |-> pledge, status |-> "pending"]
           row == [applicant |-> m, principal |-> principal, status |-> "pending"]
           G == [x \in Members |->
                    IF x \in DOMAIN g THEN [amount |-> g[x], status |-> "pending"]
                    ELSE NoGuarantor]
<1>1. /\ DOMAIN g = S /\ m \notin S /\ Cardinality(S) <= MaxGuarantors
      /\ principal \in Nat /\ pledge \in Nat /\ \A x \in S : g[x] \in Nat
  <2>1. ValidApplication(m, principal, pledge, g) /\ DOMAIN g = S
    BY DEF ApplyForLoan
  <2>2. \A x \in S : g[x] \in Int /\ g[x] > 0
    BY <2>1, LoanConstants DEF ValidApplication
  <2>3. principal \in Int /\ principal > 0 /\ pledge \in Int /\ pledge >= 0
    BY <2>1, LoanConstants DEF ValidApplication
  <2>4. m \notin S /\ Cardinality(S) <= MaxGuarantors
    BY <2>1 DEF ValidApplication
  <2>5. QED
    BY <2>1, <2>2, <2>3, <2>4
<1>2. /\ loans[l].status = "none" /\ loans' = [loans EXCEPT ![l] = row]
      /\ guarantors' = [guarantors EXCEPT ![l] = G]
      /\ UNCHANGED <<member, frozen, balance>>
      /\ \/ pledges' = pledges
         \/ /\ pledge > 0
            /\ pledges' = [pledges EXCEPT ![m] = [pledges[m] EXCEPT ![l] = p]]
  BY DEF ApplyForLoan, SetPledge, CreateSharePledge, CanCreateSharePledge
<1>3. p \in Pledge /\ row \in Loan /\ G \in [Members -> Guarantor]
  BY <1>1 DEF Pledge, PledgeTypes, PledgeStatuses, Loan, LoanStatuses, Guarantor,
              GuarantorStatuses, NoGuarantor
<1>4. /\ pledges' \in [Members -> [Loans -> Pledge]]
      /\ \A x \in Loans \ {l}, y \in Members : pledges'[y][x] = pledges[y][x]
      /\ \A x \in Members : \/ pledges'[x][l] = pledges[x][l]
                            \/ x = m /\ pledge > 0 /\ pledges'[x][l] = p
  <2> HIDE DEF p
  <2>1. CASE pledges' = pledges
    BY <2>1 DEF LoanInv, Types
  <2>2. CASE pledge > 0 /\ pledges' = [pledges EXCEPT ![m] = [pledges[m] EXCEPT ![l] = p]]
    BY <1>3, <2>2, PledgeWritten
  <2>3. QED
    BY <1>2, <2>1, <2>2
<1>5. loans'[l] = row /\ guarantors'[l] = G
  BY <1>2 DEF LoanInv, Types
<1>6. Types'
  <2> HIDE DEF row, G
  <2>1. QED
    BY <1>2, <1>3, <1>4 DEF LoanInv, Types
<1>7. OnlyLoan(l)
  <2> HIDE DEF row, G
  <2>1. QED
    BY <1>2, <1>4 DEF OnlyLoan, LoanInv, Types
<1>8. \A x \in Members : pledges[x][l].status = "none"
  BY <1>2 DEF LoanInv, LoanOK, Known
<1>9. GuarantorsFit(l)'
  <2>1. AttachedTo(l)' = S
    BY <1>1, <1>5 DEF AttachedTo, NoGuarantor
  <2>2. QED
    BY <1>1, <1>5, <2>1 DEF GuarantorsFit
<1>10. Secured(l)'
  BY <1>5 DEF Secured
<1>11. Known(l)'
  BY <1>1, <1>4, <1>5, <1>8 DEF Known, LoanInv, LoanOK
<1>12. Matched(l)'
  BY <1>4, <1>5, <1>8 DEF Matched, NoGuarantor
<1>13. QED
  BY <1>6, <1>7, <1>9, <1>10, <1>11, <1>12, OtherLoansStay DEF LoanOK

\* One row of loan_guarantors is written while the loan is pending.
LEMMA GuarantorWritten ==
    ASSUME LoanInv, NEW l \in Loans, NEW g \in Members, NEW amount \in Nat,
           NEW st \in GuarantorStatuses, SetGuarantor(l, g, amount, st)
    PROVE  /\ guarantors' \in [Loans -> [Members -> Guarantor]]
           /\ \A x \in Loans \ {l} : guarantors'[x] = guarantors[x]
           /\ \A x \in Members :
                  guarantors'[l][x] = IF x = g THEN [amount |-> amount, status |-> st]
                                      ELSE guarantors[l][x]
<1> DEFINE row == [amount |-> amount, status |-> st]
<1>1. row \in Guarantor
  BY DEF Guarantor
<1>2. guarantors' = [guarantors EXCEPT ![l] = [guarantors[l] EXCEPT ![g] = row]]
  BY DEF SetGuarantor
<1> HIDE DEF row
<1>3. /\ guarantors' \in [Loans -> [Members -> Guarantor]]
      /\ \A x \in Loans \ {l} : guarantors'[x] = guarantors[x]
      /\ \A x \in Members : guarantors'[l][x] = IF x = g THEN row ELSE guarantors[l][x]
  BY <1>1, <1>2 DEF LoanInv, Types
<1>4. QED
  BY <1>3 DEF row

LEMMA AddGuarantorKeeps ==
    ASSUME LoanInv, NEW l \in Loans, NEW g \in Members, NEW amount \in Guarantees,
           AddGuarantor(l, g, amount)
    PROVE  LoanInv'
<1>1. /\ loans[l].status = "pending" /\ loans[l].applicant # g
      /\ guarantors[l][g].status = "none"
      /\ Cardinality(AttachedTo(l)) < MaxGuarantors /\ amount \in Nat
      /\ SetGuarantor(l, g, amount, "pending")
      /\ UNCHANGED <<member, frozen, balance, pledges, loans>>
  BY LoanConstants DEF AddGuarantor, NotTheApplicant, RoomForGuarantor, CheckGuarantorSecurity
<1>2. /\ guarantors' \in [Loans -> [Members -> Guarantor]]
      /\ \A x \in Loans \ {l} : guarantors'[x] = guarantors[x]
      /\ \A x \in Members :
             guarantors'[l][x] = IF x = g THEN [amount |-> amount, status |-> "pending"]
                                 ELSE guarantors[l][x]
  <2>1. "pending" \in GuarantorStatuses
    BY DEF GuarantorStatuses
  <2>2. QED
    BY <1>1, <2>1, GuarantorWritten
<1>3. LoanOK(l)
  BY DEF LoanInv
<1>4. GuarantorsFit(l)'
  <2>1. AttachedTo(l)' = AttachedTo(l) \cup {g} /\ g \notin AttachedTo(l)
    BY <1>1, <1>2 DEF AttachedTo
  <2>2. IsFiniteSet(AttachedTo(l))
    BY LoanConstants, FS_Subset DEF AttachedTo
  <2>3. /\ Cardinality(AttachedTo(l) \cup {g}) = Cardinality(AttachedTo(l)) + 1
        /\ Cardinality(AttachedTo(l)) \in Nat
    BY <2>1, <2>2, FS_AddElement, FS_CardinalityType
  <2>4. Cardinality(AttachedTo(l) \cup {g}) <= MaxGuarantors
    BY <1>1, <2>3, LoanConstants
  <2>5. loans[l].applicant \notin AttachedTo(l) \cup {g}
    BY <1>1, <1>3 DEF LoanOK, GuarantorsFit
  <2>6. QED
    BY <1>1, <2>1, <2>4, <2>5 DEF GuarantorsFit
<1>5. Secured(l)'
  BY <1>1 DEF Secured
<1>6. Matched(l)'
  BY <1>1, <1>2, <1>3 DEF Matched, LoanOK
<1>7. Known(l)'
  BY <1>1, <1>3 DEF Known, LoanOK
<1>8. Types' /\ OnlyLoan(l)
  BY <1>1, <1>2 DEF LoanInv, Types, OnlyLoan
<1>9. QED
  BY <1>4, <1>5, <1>6, <1>7, <1>8, OtherLoansStay DEF LoanOK

LEMMA ApproveGuarantorKeeps ==
    ASSUME LoanInv, NEW l \in Loans, NEW g \in Members, ApproveGuarantor(l, g)
    PROVE  LoanInv'
<1> DEFINE amount == guarantors[l][g].amount
           p == [type |-> "guarantor_security", amount |-> amount, status |-> "active"]
<1>1. /\ loans[l].status = "pending" /\ guarantors[l][g].status = "pending"
      /\ pledges[g][l].status = "none"
      /\ SetGuarantor(l, g, amount, "approved")
      /\ UNCHANGED <<member, frozen, balance, loans>>
  BY DEF ApproveGuarantor, CanCreateSharePledge
<1>2. amount \in Nat /\ p \in Pledge /\ "approved" \in GuarantorStatuses
  BY DEF LoanInv, Types, Guarantor, Pledge, PledgeTypes, PledgeStatuses, GuarantorStatuses
<1>3. pledges' = [pledges EXCEPT ![g] = [pledges[g] EXCEPT ![l] = p]]
  <2> DEFINE q == [type |-> "guarantor_security", amount |-> amount, status |-> "pending"]
             f == [pledges[g] EXCEPT ![l] = q]
  <2>1. CreateSharePledge(pledges[g], l, "guarantor_security", amount) = f
    BY DEF CreateSharePledge
  <2>2. pledges[g] \in [Loans -> Pledge] /\ f[l] = q
    BY DEF LoanInv, Types
  <2>3. ActivateSharePledge(f, l) = [f EXCEPT ![l] = p]
    BY <2>2 DEF ActivateSharePledge
  <2>4. [f EXCEPT ![l] = p] = [pledges[g] EXCEPT ![l] = p]
    <3> HIDE DEF p, q
    <3>1. QED
      BY <2>2
  <2>5. pledges' = [pledges EXCEPT ![g] = ActivateSharePledge(f, l)]
    BY <2>1 DEF ApproveGuarantor, SetPledge
  <2>6. QED
    BY <2>3, <2>4, <2>5
<1>4. /\ guarantors' \in [Loans -> [Members -> Guarantor]]
      /\ \A x \in Loans \ {l} : guarantors'[x] = guarantors[x]
      /\ \A x \in Members :
             guarantors'[l][x] = IF x = g THEN [amount |-> amount, status |-> "approved"]
                                 ELSE guarantors[l][x]
  <2> HIDE DEF amount
  <2>1. QED
    BY <1>1, <1>2, GuarantorWritten
<1>5. /\ pledges' \in [Members -> [Loans -> Pledge]]
      /\ \A x \in Loans \ {l}, y \in Members : pledges'[y][x] = pledges[y][x]
      /\ \A y \in Members : pledges'[y][l] = IF y = g THEN p ELSE pledges[y][l]
  <2> HIDE DEF p
  <2>1. QED
    BY <1>2, <1>3, PledgeWritten
<1> HIDE DEF amount
<1>6. LoanOK(l)
  BY DEF LoanInv
<1>7. GuarantorsFit(l)'
  <2>1. AttachedTo(l)' = AttachedTo(l)
    BY <1>1, <1>4 DEF AttachedTo
  <2>2. QED
    BY <1>1, <1>6, <2>1 DEF GuarantorsFit, LoanOK
<1>8. Secured(l)'
  BY <1>1 DEF Secured
<1>9. Matched(l)'
  BY <1>1, <1>4, <1>5, <1>6 DEF Matched, LoanOK
<1>10. Known(l)'
  BY <1>1, <1>5, <1>6 DEF Known, LoanOK
<1>11. Types' /\ OnlyLoan(l)
  BY <1>1, <1>4, <1>5 DEF LoanInv, Types, OnlyLoan
<1>12. QED
  BY <1>7, <1>8, <1>9, <1>10, <1>11, OtherLoansStay DEF LoanOK

\* What ReleaseLoanSecurity leaves behind.
LEMMA Released ==
    ASSUME LoanInv, NEW l \in Loans, NEW S \in SUBSET Members, ReleaseLoanSecurity(l, S)
    PROVE  /\ pledges' \in [Members -> [Loans -> Pledge]]
           /\ \A x \in Loans \ {l}, m \in Members : pledges'[m][x] = pledges[m][x]
           /\ \A m \in Members \ S : pledges'[m][l] = pledges[m][l]
           /\ \A m \in S : /\ pledges'[m][l].type = pledges[m][l].type
                           /\ pledges'[m][l].amount = pledges[m][l].amount
                           /\ pledges'[m][l].status \notin {"pending", "active"}
                           /\ pledges'[m][l].status = "none" <=> pledges[m][l].status = "none"
<1>1. pledges \in [Members -> [Loans -> Pledge]]
  BY DEF LoanInv, Types
<1>2. \A m \in Members :
          pledges'[m] = IF m \in S THEN ReleaseLoanSharePledge(pledges[m], l) ELSE pledges[m]
  BY DEF ReleaseLoanSecurity
<1>3. ASSUME NEW m \in Members
      PROVE  /\ ReleaseLoanSharePledge(pledges[m], l) \in [Loans -> Pledge]
             /\ \A x \in Loans \ {l} : ReleaseLoanSharePledge(pledges[m], l)[x] = pledges[m][x]
             /\ LET q == ReleaseLoanSharePledge(pledges[m], l)[l]
                IN  /\ q.type = pledges[m][l].type /\ q.amount = pledges[m][l].amount
                    /\ q.status \notin {"pending", "active"}
                    /\ q.status = "none" <=> pledges[m][l].status = "none"
  <2> DEFINE st == CASE pledges[m][l].status = "pending" -> "cancelled"
                     [] pledges[m][l].status = "active"  -> "released"
                     [] OTHER                            -> pledges[m][l].status
             q == [type |-> pledges[m][l].type, amount |-> pledges[m][l].amount, status |-> st]
  <2>1. pledges[m] \in [Loans -> Pledge] /\ pledges[m][l] \in Pledge
    BY <1>1
  <2>2. /\ st \in PledgeStatuses /\ st \notin {"pending", "active"}
        /\ st = "none" <=> pledges[m][l].status = "none"
    BY <2>1 DEF Pledge, PledgeStatuses
  <2>3. ReleaseLoanSharePledge(pledges[m], l) = [pledges[m] EXCEPT ![l] = q]
    BY DEF ReleaseLoanSharePledge
  <2> HIDE DEF st
  <2>4. q \in Pledge
    BY <2>1, <2>2 DEF Pledge
  <2>5. /\ q.type = pledges[m][l].type /\ q.amount = pledges[m][l].amount /\ q.status = st
    OBVIOUS
  <2> HIDE DEF q
  <2>6. QED
    BY <2>1, <2>2, <2>3, <2>4, <2>5
<1>4. pledges' \in [Members -> [Loans -> Pledge]]
  BY <1>1, <1>3 DEF ReleaseLoanSecurity
<1>5. QED
  BY <1>2, <1>3, <1>4

LEMMA RemoveGuarantorKeeps ==
    ASSUME LoanInv, NEW l \in Loans, NEW g \in Members, RemoveGuarantor(l, g)
    PROVE  LoanInv'
<1> DEFINE amount == guarantors[l][g].amount
<1>1. /\ loans[l].status = "pending" /\ guarantors[l][g].status # "none"
      /\ ReleaseLoanSecurity(l, {g}) /\ {g} \in SUBSET Members
      /\ SetGuarantor(l, g, amount, "rejected")
      /\ UNCHANGED <<member, frozen, balance, loans>>
  BY DEF RemoveGuarantor, ReleaseGuarantor
<1>2. amount \in Nat /\ "rejected" \in GuarantorStatuses
  BY DEF LoanInv, Types, Guarantor, GuarantorStatuses
<1> HIDE DEF amount
<1>3. /\ guarantors' \in [Loans -> [Members -> Guarantor]]
      /\ \A x \in Loans \ {l} : guarantors'[x] = guarantors[x]
      /\ \A x \in Members :
             guarantors'[l][x] = IF x = g THEN [amount |-> amount, status |-> "rejected"]
                                 ELSE guarantors[l][x]
  BY <1>1, <1>2, GuarantorWritten
<1>4. /\ pledges' \in [Members -> [Loans -> Pledge]]
      /\ \A x \in Loans \ {l}, m \in Members : pledges'[m][x] = pledges[m][x]
      /\ \A m \in Members \ {g} : pledges'[m][l] = pledges[m][l]
      /\ pledges'[g][l].type = pledges[g][l].type
      /\ pledges'[g][l].amount = pledges[g][l].amount
      /\ pledges'[g][l].status \notin {"pending", "active"}
      /\ pledges'[g][l].status = "none" <=> pledges[g][l].status = "none"
  BY <1>1, Released
<1>5. LoanOK(l)
  BY DEF LoanInv
<1>6. GuarantorsFit(l)'
  <2>1. AttachedTo(l)' = AttachedTo(l)
    BY <1>1, <1>3 DEF AttachedTo
  <2>2. QED
    BY <1>1, <1>5, <2>1 DEF GuarantorsFit, LoanOK
<1>7. Secured(l)'
  BY <1>1 DEF Secured
<1>8. Matched(l)'
  BY <1>1, <1>3, <1>4, <1>5 DEF Matched, LoanOK
<1>9. Known(l)'
  BY <1>1, <1>4, <1>5 DEF Known, LoanOK
<1>10. Types' /\ OnlyLoan(l)
  BY <1>1, <1>3, <1>4 DEF LoanInv, Types, OnlyLoan
<1>11. QED
  BY <1>6, <1>7, <1>8, <1>9, <1>10, OtherLoansStay DEF LoanOK

-----------------------------------------------------------------------------
(* Decisions.                                                              *)

LEMMA StatusWritten ==
    ASSUME LoanInv, NEW l \in Loans, NEW st \in LoanStatuses, SetStatus(l, st)
    PROVE  /\ loans' \in [Loans -> Loan]
           /\ \A x \in Loans \ {l} : loans'[x] = loans[x]
           /\ loans'[l].applicant = loans[l].applicant
           /\ loans'[l].principal = loans[l].principal
           /\ loans'[l].status = st
<1> DEFINE row == [applicant |-> loans[l].applicant, principal |-> loans[l].principal,
                   status |-> st]
<1>1. row \in Loan
  BY DEF Loan, LoanInv, Types
<1>2. loans' = [loans EXCEPT ![l] = row]
  BY DEF SetStatus
<1>3. /\ row.applicant = loans[l].applicant /\ row.principal = loans[l].principal
      /\ row.status = st
  OBVIOUS
<1> HIDE DEF row
<1>4. QED
  BY <1>1, <1>2, <1>3 DEF LoanInv, Types

\* Approval: what verifyCollateral added up is covered by active pledges, the
\* applicant's own and those of the approved guarantors.
LEMMA CollateralCovers ==
    ASSUME LoanInv, NEW l \in Loans, loans[l].status = "pending", verifyCollateral(l, TRUE),
           pledges' \in [Members -> [Loans -> Pledge]],
           \A m \in Members \ {loans[l].applicant} : pledges'[m][l] = pledges[m][l],
           LET a == loans[l].applicant
           IN  /\ pledges'[a][l].amount = pledges[a][l].amount
               /\ \/ pledges'[a][l].status = "active"
                  \/ pledges[a][l].status = "none" /\ pledges'[a][l] = pledges[a][l]
    PROVE  Total(SecurityOf(l)') >= loans[l].principal
<1> DEFINE a == loans[l].applicant
           R == ApprovedGuarantors(l)
           h == [g \in R |-> guarantors[l][g].amount]
           S == {x \in Members : pledges'[x][l].status = "active"}
           f == [m \in S |-> pledges'[m][l].amount]
<1>1. LoanOK(l) /\ a \in Members /\ a \notin R /\ loans[l].principal \in Nat
  BY DEF LoanInv, LoanOK, Known, GuarantorsFit, AttachedTo, ApprovedGuarantors, Types, Loan
<1>2. /\ pledges'[a][l].amount = pledges[a][l].amount /\ pledges[a][l].amount \in Nat
      /\ pledges'[a][l].status \in {"active", "none"}
  BY <1>1 DEF LoanInv, Types, Pledge
<1>3. /\ IsFiniteSet(S) /\ S \in SUBSET Members
  BY LoanConstants, FS_Subset
<1>4. R \in SUBSET S /\ \A g \in R : pledges'[g][l].amount = guarantors[l][g].amount
  BY <1>1 DEF LoanOK, Matched, ApprovedGuarantors
<1>5. f \in [S -> Nat]
  BY DEF Pledge
<1>6. h \in [R -> Nat] /\ \A g \in R : f[g] = h[g]
  BY <1>4 DEF ApprovedGuarantors, LoanInv, Types, Guarantor
<1>7. pledges[a][l].amount + Total(h) >= loans[l].principal
  BY DEF verifyCollateral, ApplicantPledge, ApprovedTotal
<1>8. IsFiniteSet(R)
  BY <1>3, <1>4, FS_Subset
<1>9. Total(f) \in Nat /\ Total(h) \in Nat
  <2> HIDE DEF f, h, S, R
  <2>1. QED
    BY <1>3, <1>5, <1>6, <1>8, QuantaFinite
<1>10. CASE pledges'[a][l].status = "active"
  <2>1. a \in S \ R /\ f[a] = pledges[a][l].amount
    BY <1>1, <1>2, <1>10
  <2> HIDE DEF f, h, S, R, a
  <2>2. Total(f) >= Total(h) + f[a]
    BY <1>3, <1>4, <1>5, <1>6, <2>1, PartsOfTotal
  <2>3. Total(f) >= loans[l].principal
    BY <1>1, <1>2, <1>7, <1>9, <2>1, <2>2
  <2>4. QED
    BY <2>3 DEF SecurityOf, f, S
<1>11. CASE pledges'[a][l].status = "none"
  <2>1. pledges[a][l].amount = 0
    BY <1>1, <1>11 DEF LoanOK, Known
  <2> HIDE DEF f, h, S, R, a
  <2>2. Total(f) >= Total(h)
    BY <1>3, <1>4, <1>5, <1>6, PartOfTotal
  <2>3. Total(f) >= loans[l].principal
    BY <1>1, <1>7, <1>9, <2>1, <2>2
  <2>4. QED
    BY <2>3 DEF SecurityOf, f, S
<1>12. QED
  BY <1>2, <1>10, <1>11

LEMMA ApproveLoanKeeps ==
    ASSUME LoanInv, NEW l \in Loans, ApproveLoan(l)
    PROVE  LoanInv'
<1> DEFINE a == loans[l].applicant
           p == [type |-> pledges[a][l].type, amount |-> pledges[a][l].amount,
                 status |-> "active"]
<1>1. /\ loans[l].status = "pending" /\ verifyCollateral(l, TRUE) /\ SetStatus(l, "approved")
      /\ UNCHANGED <<member, frozen, balance, guarantors>>
  BY DEF ApproveLoan
<1>2. LoanOK(l) /\ a \in Members
  BY <1>1 DEF LoanInv, LoanOK, Known
<1>3. /\ loans' \in [Loans -> Loan] /\ \A x \in Loans \ {l} : loans'[x] = loans[x]
      /\ loans'[l].applicant = a /\ loans'[l].principal = loans[l].principal
      /\ loans'[l].status = "approved"
  <2>1. "approved" \in LoanStatuses
    BY DEF LoanStatuses
  <2>2. QED
    BY <1>1, <2>1, StatusWritten
<1>4. /\ pledges' \in [Members -> [Loans -> Pledge]]
      /\ \A x \in Loans \ {l}, y \in Members : pledges'[y][x] = pledges[y][x]
      /\ \A y \in Members \ {a} : pledges'[y][l] = pledges[y][l]
      /\ \/ pledges'[a][l] = pledges[a][l] /\ pledges[a][l].status \in {"none", "active"}
         \/ pledges'[a][l] = p /\ pledges[a][l].status = "pending"
  <2>1. CASE pledges[a][l].status \in {"none", "active"} /\ UNCHANGED pledges
    BY <1>2, <2>1 DEF LoanInv, Types
  <2>2. CASE pledges[a][l].status = "pending" /\ SetPledge(a, ActivateSharePledge(pledges[a], l))
    <3>1. pledges' = [pledges EXCEPT ![a] = [pledges[a] EXCEPT ![l] = p]]
      BY <2>2 DEF SetPledge, ActivateSharePledge
    <3>2. p \in Pledge
      BY <1>2 DEF Pledge, PledgeStatuses, LoanInv, Types
    <3> HIDE DEF p
    <3>3. QED
      BY <1>2, <2>2, <3>1, <3>2, PledgeWritten
  <2>3. QED
    BY <1>1, <2>1, <2>2 DEF verifyCollateral, VerifyApplicantSecurity, ApplicantPledge
<1>5. /\ pledges'[a][l].amount = pledges[a][l].amount
      /\ pledges'[a][l].type = pledges[a][l].type
      /\ \/ pledges'[a][l].status = "active"
         \/ pledges[a][l].status = "none" /\ pledges'[a][l] = pledges[a][l]
  BY <1>4
<1> HIDE DEF p
<1>6. Secured(l)'
  <2>1. Total(SecurityOf(l)') >= loans[l].principal
    BY <1>1, <1>4, <1>5, CollateralCovers
  <2>2. Total(SecurityOf(l))' = Total(SecurityOf(l)')
    BY DEF Total, Quanta
  <2>3. QED
    BY <1>3, <2>1, <2>2 DEF Secured
<1>7. GuarantorsFit(l)'
  BY <1>1, <1>2, <1>3 DEF GuarantorsFit, LoanOK, AttachedTo
<1>8. a \notin ApprovedGuarantors(l)
  BY <1>2 DEF LoanOK, GuarantorsFit, AttachedTo, ApprovedGuarantors
<1>9. Matched(l)'
  <2>1. ASSUME NEW m \in Members, m # a
        PROVE  /\ guarantors'[l][m].status = "approved" <=>
                     /\ pledges'[m][l].type = "guarantor_security"
                     /\ pledges'[m][l].status = "active"
               /\ guarantors'[l][m].status = "approved" =>
                     pledges'[m][l].amount = guarantors'[l][m].amount
               /\ pledges'[m][l].type = "applicant_security" /\ pledges'[m][l].status # "none" =>
                     loans'[l].applicant = m
    BY <1>1, <1>2, <1>3, <1>4, <2>1 DEF Matched, LoanOK
  <2>2. guarantors'[l][a].status # "approved"
    BY <1>1, <1>2, <1>8 DEF ApprovedGuarantors
  <2>3. ~(pledges'[a][l].type = "guarantor_security" /\ pledges'[a][l].status = "active")
    <3>1. pledges[a][l].status = "pending" => pledges[a][l].type = "applicant_security"
      BY <1>2 DEF LoanOK, Known
    <3>2. pledges[a][l].status = "active" => pledges[a][l].type # "guarantor_security"
      BY <1>1, <1>2, <2>2 DEF LoanOK, Matched
    <3>3. QED
      BY <1>4, <1>5, <3>1, <3>2
  <2>4. QED
    BY <1>3, <2>1, <2>2, <2>3 DEF Matched
<1>10. Known(l)'
  <2>1. \A m \in Members \ {a} : pledges'[m][l] = pledges[m][l]
    BY <1>4
  <2>2. QED
    BY <1>2, <1>3, <1>5, <2>1 DEF Known, LoanOK
<1>11. Types' /\ OnlyLoan(l)
  BY <1>1, <1>3, <1>4 DEF LoanInv, Types, OnlyLoan
<1>12. QED
  BY <1>6, <1>7, <1>9, <1>10, <1>11, OtherLoansStay DEF LoanOK

LEMMA DisburseLoanKeeps ==
    ASSUME LoanInv, NEW l \in Loans, DisburseLoan(l)
    PROVE  LoanInv'
<1>1. /\ loans[l].status = "approved" /\ SetStatus(l, "active")
      /\ UNCHANGED <<member, frozen, balance, pledges, guarantors>>
  BY DEF DisburseLoan, verifyCollateral, VerifyApplicantSecurity
<1>2. /\ loans' \in [Loans -> Loan] /\ \A x \in Loans \ {l} : loans'[x] = loans[x]
      /\ loans'[l].applicant = loans[l].applicant /\ loans'[l].principal = loans[l].principal
      /\ loans'[l].status = "active"
  <2>1. "active" \in LoanStatuses
    BY DEF LoanStatuses
  <2>2. QED
    BY <1>1, <2>1, StatusWritten
<1>3. LoanOK(l)
  BY DEF LoanInv
<1>4. Total(SecurityOf(l))' = Total(SecurityOf(l))
  BY <1>1, SameSecurity DEF Total, Quanta
<1>5. Secured(l)'
  BY <1>1, <1>2, <1>3, <1>4 DEF Secured, LoanOK
<1>6. GuarantorsFit(l)'
  BY <1>1, <1>2, <1>3 DEF GuarantorsFit, LoanOK, AttachedTo
<1>7. Matched(l)' /\ Known(l)'
  BY <1>1, <1>2, <1>3 DEF Matched, Known, LoanOK
<1>8. Types' /\ OnlyLoan(l)
  BY <1>1, <1>2 DEF LoanInv, Types, OnlyLoan
<1>9. QED
  BY <1>5, <1>6, <1>7, <1>8, OtherLoansStay DEF LoanOK

\* Rejection and settlement: the loan is over, and all its security goes back.
LEMMA LoanEndsKeeps ==
    ASSUME LoanInv, NEW l \in Loans, NEW st \in {"rejected", "closed"},
           loans[l].status # "none", SetStatus(l, st), ReleaseLoanSecurity(l, Members),
           UNCHANGED <<member, frozen, balance, guarantors>>
    PROVE  LoanInv'
<1>1. /\ loans' \in [Loans -> Loan] /\ \A x \in Loans \ {l} : loans'[x] = loans[x]
      /\ loans'[l].applicant = loans[l].applicant
      /\ loans'[l].status = st
  <2>1. st \in LoanStatuses
    BY DEF LoanStatuses
  <2>2. QED
    BY <2>1, StatusWritten
<1>2. /\ pledges' \in [Members -> [Loans -> Pledge]]
      /\ \A x \in Loans \ {l}, m \in Members : pledges'[m][x] = pledges[m][x]
      /\ \A m \in Members : /\ pledges'[m][l].type = pledges[m][l].type
                            /\ pledges'[m][l].amount = pledges[m][l].amount
                            /\ pledges'[m][l].status \notin {"pending", "active"}
                            /\ pledges'[m][l].status = "none" <=> pledges[m][l].status = "none"
  <2>1. Members \in SUBSET Members
    OBVIOUS
  <2>2. QED
    BY <2>1, Released
<1>3. LoanOK(l)
  BY DEF LoanInv
<1>4. Secured(l)' /\ Matched(l)'
  BY <1>1, <1>2 DEF Secured, Matched
<1>5. GuarantorsFit(l)'
  BY <1>1, <1>3 DEF GuarantorsFit, LoanOK, AttachedTo
<1>6. Known(l)'
  BY <1>1, <1>2, <1>3 DEF Known, LoanOK
<1>7. Types' /\ OnlyLoan(l)
  BY <1>1, <1>2 DEF LoanInv, Types, OnlyLoan
<1>8. QED
  BY <1>4, <1>5, <1>6, <1>7, OtherLoansStay DEF LoanOK

\* Members, accounts and shares move; no loan does.
LEMMA QuietLoansKeep ==
    ASSUME LoanInv, Types', UNCHANGED <<pledges, loans, guarantors>>
    PROVE  LoanInv'
<1>1. ASSUME NEW l \in Loans PROVE LoanOK(l)'
  <2>1. LoanOK(l)
    BY DEF LoanInv
  <2>2. Total(SecurityOf(l))' = Total(SecurityOf(l))
    BY SameSecurity DEF Total, Quanta
  <2>3. QED
    BY <2>1, <2>2 DEF LoanOK, GuarantorsFit, AttachedTo, Secured, Matched, Known
<1>2. QED
  BY <1>1 DEF LoanInv

\* The steps of Next, by what they are about.
LoanSteps(l) ==
    \/ \E m \in Members, principal \in Principals, pledge \in OwnPledges, S \in SUBSET Members :
          \E g \in [S -> Guarantees] : ApplyForLoan(l, m, principal, pledge, g)
    \/ \E g \in Members :
          \/ \E amount \in Guarantees : AddGuarantor(l, g, amount)
          \/ ApproveGuarantor(l, g)
          \/ RemoveGuarantor(l, g)
    \/ ApproveLoan(l) \/ RejectLoan(l) \/ DisburseLoan(l) \/ CloseLoan(l)

MemberSteps(m) ==
    \/ \E st \in MemberStatuses : UpdateMemberStatus(m, st)
    \/ \E b \in 0 .. MaxShares : MoveShares(m, b)
    \/ SetAccountStatus(frozen \cup {m})
    \/ SetAccountStatus(frozen \ {m})

LEMMA NextCases ==
    Next => (\E l \in Loans : LoanSteps(l)) \/ (\E m \in Members : MemberSteps(m))
<1> SUFFICES ASSUME Next
             PROVE  (\E l \in Loans : LoanSteps(l)) \/ (\E m \in Members : MemberSteps(m))
  OBVIOUS
<1>1. CASE \E m \in Members :
               \/ \E st \in MemberStatuses : UpdateMemberStatus(m, st)
               \/ \E b \in 0 .. MaxShares : MoveShares(m, b)
               \/ SetAccountStatus(frozen \cup {m})
               \/ SetAccountStatus(frozen \ {m})
  BY <1>1 DEF MemberSteps
<1>2. ASSUME NEW l \in Loans, NEW m \in Members, NEW principal \in Principals,
             NEW pledge \in OwnPledges, NEW S \in SUBSET Members, NEW g \in [S -> Guarantees],
             ApplyForLoan(l, m, principal, pledge, g)
      PROVE  LoanSteps(l)
  BY <1>2, Zenon DEF LoanSteps
<1>3. ASSUME NEW l \in Loans,
             \/ \E g \in Members :
                   \/ \E amount \in Guarantees : AddGuarantor(l, g, amount)
                   \/ ApproveGuarantor(l, g)
                   \/ RemoveGuarantor(l, g)
             \/ ApproveLoan(l) \/ RejectLoan(l) \/ DisburseLoan(l) \/ CloseLoan(l)
      PROVE  LoanSteps(l)
  BY <1>3 DEF LoanSteps
<1>4. QED
  BY <1>1, <1>2, <1>3, Zenon DEF Next

LEMMA NextLoanInv == LoanInv /\ [Next]_vars => LoanInv'
<1> SUFFICES ASSUME LoanInv, [Next]_vars PROVE LoanInv'
  OBVIOUS
<1>1. ASSUME NEW l \in Loans, LoanSteps(l) PROVE LoanInv'
  <2>1. CASE RejectLoan(l)
    BY <2>1, LoanEndsKeeps DEF RejectLoan, Rejectable
  <2>2. CASE CloseLoan(l)
    BY <2>2, LoanEndsKeeps DEF CloseLoan
  <2>3. QED
    BY <1>1, <2>1, <2>2, ApplyKeeps, AddGuarantorKeeps, ApproveGuarantorKeeps,
       RemoveGuarantorKeeps, ApproveLoanKeeps, DisburseLoanKeeps DEF LoanSteps
<1>2. ASSUME NEW m \in Members, MemberSteps(m) PROVE LoanInv'
  <2>1. UNCHANGED <<pledges, loans, guarantors>>
    BY <1>2 DEF MemberSteps, UpdateMemberStatus, MoveShares, SetAccountStatus
  <2>2. Types'
    <3>1. ASSUME NEW st \in MemberStatuses, UpdateMemberStatus(m, st) PROVE Types'
      BY <2>1, <3>1 DEF UpdateMemberStatus, LoanInv, Types
    <3>2. ASSUME NEW b \in 0 .. MaxShares, MoveShares(m, b) PROVE Types'
      <4>1. b \in Nat
        BY <3>2, LoanConstants
      <4>2. QED
        BY <2>1, <3>2, <4>1 DEF MoveShares, LoanInv, Types
    <3>3. CASE SetAccountStatus(frozen \cup {m}) \/ SetAccountStatus(frozen \ {m})
      BY <2>1, <3>3 DEF SetAccountStatus, LoanInv, Types
    <3>4. QED
      BY <1>2, <3>1, <3>2, <3>3 DEF MemberSteps
  <2>3. QED
    BY <2>1, <2>2, QuietLoansKeep
<1>3. CASE UNCHANGED vars
  <2>1. Types' /\ UNCHANGED <<pledges, loans, guarantors>>
    BY <1>3 DEF vars, LoanInv, Types
  <2>2. QED
    BY <2>1, QuietLoansKeep
<1>4. QED
  BY <1>1, <1>2, <1>3, NextCases

LEMMA LoanInvariant == Spec => []LoanInv
BY InitLoanInv, NextLoanInv, PTL DEF Spec

-----------------------------------------------------------------------------
(* The theorems.                                                           *)

\* Every row keeps its type, no loan ever has more guarantors than the code
\* allows, and no applicant guarantees the own loan.
THEOREM LoanTyped == Spec => []TypeOK
BY LoanInvariant, LoanInvImplies, PTL

\* From approval until it is settled a loan is covered by active pledges,
\* whatever members, guarantors and other loans do in between.
THEOREM LoansStaySecured == Spec => []LoansSecured
BY LoanInvariant, LoanInvImplies, PTL

\* The guarantors of every open loan and the pledges of the Shares domain agree,
\* and a loan that is over, or that never was, holds nobody's shares.
THEOREM LoansAndSharesAgree == Spec => []DomainsAgree
BY LoanInvariant, LoanInvImplies, PTL

\* The security of an approved or disbursed loan is given back only by the step
\* that ends the loan: RejectLoan before, CloseLoan after the disbursement.
THEOREM SecurityHeld == Spec => SecurityHeldUntilLoanEnds
<1> DEFINE Held == \A l \in Loans, m \in Members :
              /\ loans[l].status \in {"approved", "active"}
              /\ pledges[m][l].status = "active"
              /\ pledges'[m][l].status # "active"
              => /\ loans[l].status = "approved" => loans'[l].status = "rejected"
                 /\ loans[l].status = "active" => loans'[l].status = "closed"
<1>1. ASSUME LoanInv, [Next]_vars PROVE Held
  <2> SUFFICES ASSUME NEW l \in Loans, NEW m \in Members,
                      loans[l].status \in {"approved", "active"},
                      pledges[m][l].status = "active", pledges'[m][l].status # "active"
               PROVE  /\ loans[l].status = "approved" => loans'[l].status = "rejected"
                      /\ loans[l].status = "active" => loans'[l].status = "closed"
    OBVIOUS
  <2>1. pledges \in [Members -> [Loans -> Pledge]]
    BY <1>1 DEF LoanInv, Types
  <2>2. pledges' # pledges
    OBVIOUS
  <2>3. PICK x \in Loans : LoanSteps(x)
    BY <1>1, <2>2, NextCases
       DEF vars, MemberSteps, UpdateMemberStatus, MoveShares, SetAccountStatus
  <2>4. CASE RejectLoan(x) \/ CloseLoan(x)
    <3>1. /\ ReleaseLoanSecurity(x, Members)
          /\ \/ loans[x].status \in {"pending", "approved"} /\ SetStatus(x, "rejected")
             \/ loans[x].status = "active" /\ SetStatus(x, "closed")
      BY <2>4 DEF RejectLoan, CloseLoan, Rejectable
    <3>2. x = l
      <4>1. Members \in SUBSET Members
        OBVIOUS
      <4>2. \A y \in Loans \ {x}, n \in Members : pledges'[n][y] = pledges[n][y]
        BY <1>1, <3>1, <4>1, Released
      <4>3. QED
        BY <4>2
    <3>3. "rejected" \in LoanStatuses /\ "closed" \in LoanStatuses
      BY DEF LoanStatuses
    <3>4. \/ loans[l].status \in {"pending", "approved"} /\ loans'[l].status = "rejected"
          \/ loans[l].status = "active" /\ loans'[l].status = "closed"
      BY <1>1, <3>1, <3>2, <3>3, StatusWritten
    <3>5. QED
      BY <3>4
  <2>5. CASE \E g \in Members : RemoveGuarantor(x, g)
    <3>1. PICK g \in Members : RemoveGuarantor(x, g)
      BY <2>5
    <3>2. loans[x].status = "pending" /\ ReleaseLoanSecurity(x, {g})
      BY <3>1 DEF RemoveGuarantor, ReleaseGuarantor
    <3>3. \A y \in Loans \ {x}, n \in Members : pledges'[n][y] = pledges[n][y]
      BY <1>1, <3>2, Released
    <3>4. QED
      BY <3>2, <3>3
  <2>6. ASSUME NEW a \in Members, NEW f, pledges' = [pledges EXCEPT ![a] = f],
               \A y \in Loans : f[y] = pledges[a][y] \/ f[y].status = "active"
                                  \/ pledges[a][y].status = "none"
        PROVE  FALSE
    BY <2>1, <2>6
  <2>7. CASE \E g \in Members : ApproveGuarantor(x, g)
    <3>1. PICK g \in Members : ApproveGuarantor(x, g)
      BY <2>7
    <3> DEFINE f == ActivateSharePledge(CreateSharePledge(pledges[g], x, "guarantor_security",
                                                          guarantors[x][g].amount), x)
    <3>2. pledges' = [pledges EXCEPT ![g] = f] /\ pledges[g][x].status = "none"
      BY <3>1 DEF ApproveGuarantor, SetPledge, CanCreateSharePledge
    <3>3. \A y \in Loans \ {x} : f[y] = pledges[g][y]
      BY <2>1 DEF ActivateSharePledge, CreateSharePledge
    <3> HIDE DEF f
    <3>4. QED
      BY <2>6, <3>2, <3>3
  <2>8. CASE ApproveLoan(x)
    <3>1. loans[x].applicant \in Members
      BY <1>1, <2>8 DEF ApproveLoan, LoanInv, LoanOK, Known
    <3> DEFINE a == loans[x].applicant
               f == ActivateSharePledge(pledges[a], x)
    <3>2. pledges' = [pledges EXCEPT ![a] = f]
      BY <2>2, <2>8 DEF ApproveLoan, verifyCollateral, VerifyApplicantSecurity, SetPledge
    <3>3. \A y \in Loans : f[y] = pledges[a][y] \/ f[y].status = "active"
      BY <2>1, <3>1 DEF ActivateSharePledge
    <3> HIDE DEF f
    <3>4. QED
      BY <2>6, <3>1, <3>2, <3>3
  <2>9. ASSUME NEW a \in Members, NEW principal \in Principals, NEW pledge \in OwnPledges,
               NEW S \in SUBSET Members, NEW g \in [S -> Guarantees],
               ApplyForLoan(x, a, principal, pledge, g)
        PROVE  FALSE
    <3> DEFINE f == CreateSharePledge(pledges[a], x, "applicant_security", pledge)
    <3>1. pledges' = [pledges EXCEPT ![a] = f] /\ pledges[a][x].status = "none"
      BY <2>2, <2>9 DEF ApplyForLoan, SetPledge, CanCreateSharePledge
    <3>2. \A y \in Loans \ {x} : f[y] = pledges[a][y]
      BY <2>1 DEF CreateSharePledge
    <3> HIDE DEF f
    <3>3. QED
      BY <2>6, <3>1, <3>2
  <2>10. CASE DisburseLoan(x) \/ \E g \in Members, amount \in Guarantees : AddGuarantor(x, g, amount)
    BY <2>2, <2>10 DEF DisburseLoan, verifyCollateral, VerifyApplicantSecurity, AddGuarantor
  <2>11. QED
    BY <2>3, <2>4, <2>5, <2>7, <2>8, <2>9, <2>10 DEF LoanSteps
<1>2. LoanInv /\ [Next]_vars => [Held]_vars
  BY <1>1
<1>3. QED
  BY <1>2, LoanInvariant, PTL DEF Spec, SecurityHeldUntilLoanEnds

-----------------------------------------------------------------------------
(* The closure of a member: the missing check is the only one missing.     *)

\* The member owes nothing and secures nothing.
Clear(m) ==
    \A l \in Loans :
        /\ pledges[m][l].status # "active"
        /\ ~(loans[l].applicant = m /\ loans[l].status = "active")

\* What CloseMember would have to check: UpdateMemberStatus asks no other domain.
ClosesOnlyClear ==
    \A m \in Members : member[m] # "closed" /\ member'[m] = "closed" => Clear(m)

\* One step of the workflow reserves nothing for a member who is not active and
\* pays nothing out to one.
LEMMA OnlyActiveIncur ==
    ASSUME LoanInv, NEW x \in Loans, LoanSteps(x), NEW m \in Members, ~ActiveMember(m), Clear(m)
    PROVE  Clear(m)'
<1> DEFINE SamePledges == \A l \in Loans : pledges'[m][l].status = "active" =>
                              pledges[m][l].status = "active"
           SameLoans == \A l \in Loans :
                            loans'[l].applicant = m /\ loans'[l].status = "active" =>
                            loans[l].applicant = m /\ loans[l].status = "active"
<1>1. pledges \in [Members -> [Loans -> Pledge]] /\ loans \in [Loans -> Loan]
  BY DEF LoanInv, Types
<1>2. SUFFICES SamePledges /\ SameLoans
  BY DEF Clear
<1>3. \A a \in Members : \A f : a # m /\ pledges' = [pledges EXCEPT ![a] = f] => SamePledges
  BY <1>1
<1>4. UNCHANGED pledges => SamePledges
  OBVIOUS
<1>5. UNCHANGED loans => SameLoans
  OBVIOUS
<1>6. \A S \in SUBSET Members : ReleaseLoanSecurity(x, S) => SamePledges
  <2>1. ASSUME NEW S \in SUBSET Members, ReleaseLoanSecurity(x, S), NEW l \in Loans,
               pledges'[m][l].status = "active"
        PROVE  pledges[m][l].status = "active"
    <3>1. \A y \in Loans \ {x} : pledges'[m][y] = pledges[m][y]
      BY <2>1, Released
    <3>2. m \in S => pledges'[m][x].status # "active"
      BY <2>1, Released
    <3>3. m \notin S => pledges'[m][x] = pledges[m][x]
      BY <2>1, Released
    <3>4. QED
      BY <2>1, <3>1, <3>2, <3>3
  <2>2. QED
    BY <2>1
<1>7. \A st \in LoanStatuses :
          SetStatus(x, st) /\ (st # "active" \/ loans[x].applicant # m) => SameLoans
  <2>1. ASSUME NEW st \in LoanStatuses, SetStatus(x, st),
               st # "active" \/ loans[x].applicant # m
        PROVE  SameLoans
    <3>1. \A y \in Loans \ {x} : loans'[y] = loans[y]
      BY <2>1, StatusWritten
    <3>2. loans'[x].applicant = loans[x].applicant /\ loans'[x].status = st
      BY <2>1, StatusWritten
    <3>3. QED
      BY <2>1, <3>1, <3>2
  <2>2. QED
    BY <2>1
<1> HIDE DEF SamePledges, SameLoans
<1>8. {"approved", "active", "rejected", "closed"} \subseteq LoanStatuses
  BY DEF LoanStatuses
<1>9. ASSUME NEW a \in Members, NEW principal \in Principals, NEW pledge \in OwnPledges,
             NEW S \in SUBSET Members, NEW g \in [S -> Guarantees],
             ApplyForLoan(x, a, principal, pledge, g)
      PROVE  SamePledges /\ SameLoans
  <2>1. a # m
    BY <1>9 DEF ApplyForLoan
  <2>2. SamePledges
    BY <1>3, <1>4, <1>9, <2>1 DEF ApplyForLoan, SetPledge
  <2>3. SameLoans
    BY <1>1, <1>9 DEF ApplyForLoan, SameLoans
  <2>4. QED
    BY <2>2, <2>3
<1>10. ASSUME NEW g \in Members, NEW amount \in Guarantees, AddGuarantor(x, g, amount)
       PROVE  SamePledges /\ SameLoans
  BY <1>4, <1>5, <1>10 DEF AddGuarantor
<1>11. ASSUME NEW g \in Members, ApproveGuarantor(x, g)
       PROVE  SamePledges /\ SameLoans
  <2>1. g # m
    BY <1>11 DEF ApproveGuarantor
  <2>2. QED
    BY <1>3, <1>5, <1>11, <2>1 DEF ApproveGuarantor, SetPledge
<1>12. ASSUME NEW g \in Members, RemoveGuarantor(x, g)
       PROVE  SamePledges /\ SameLoans
  <2>1. ReleaseLoanSecurity(x, {g}) /\ UNCHANGED loans
    BY <1>12 DEF RemoveGuarantor, ReleaseGuarantor
  <2>2. QED
    BY <1>5, <1>6, <2>1
<1>13. CASE ApproveLoan(x)
  <2>1. SetStatus(x, "approved") /\ loans[x].applicant # m
    BY <1>13 DEF ApproveLoan, verifyCollateral
  <2>2. loans[x].applicant \in Members
    BY <1>13 DEF ApproveLoan, LoanInv, LoanOK, Known
  <2>3. SamePledges
    BY <1>3, <1>4, <1>13, <2>1, <2>2
       DEF ApproveLoan, verifyCollateral, VerifyApplicantSecurity, SetPledge
  <2>4. QED
    BY <1>7, <1>8, <2>1, <2>3
<1>14. CASE RejectLoan(x) \/ CloseLoan(x)
  <2>1. ReleaseLoanSecurity(x, Members) /\ (SetStatus(x, "rejected") \/ SetStatus(x, "closed"))
    BY <1>14 DEF RejectLoan, CloseLoan
  <2>2. Members \in SUBSET Members
    OBVIOUS
  <2>3. QED
    BY <1>6, <1>7, <1>8, <2>1, <2>2
<1>15. CASE DisburseLoan(x)
  <2>1. SetStatus(x, "active") /\ loans[x].applicant # m /\ UNCHANGED pledges
    BY <1>15 DEF DisburseLoan, verifyCollateral, VerifyApplicantSecurity
  <2>2. QED
    BY <1>4, <1>7, <1>8, <2>1
<1>16. QED
  BY <1>2, <1>9, <1>10, <1>11, <1>12, <1>13, <1>14, <1>15 DEF LoanSteps

LEMMA ClosureCases ==
    ASSUME LoanInv, ClosedMembersAreClear, [Next]_vars, [ClosesOnlyClear]_vars
    PROVE  ClosedMembersAreClear'
<1>1. ClosedMembersAreClear <=> \A m \in Members : member[m] = "closed" => Clear(m)
  BY DEF ClosedMembersAreClear, Clear
<1>2. ClosedMembersAreClear' <=> \A m \in Members : member'[m] = "closed" => Clear(m)'
  BY DEF ClosedMembersAreClear, Clear
<1>3. SUFFICES ASSUME NEW m \in Members, member'[m] = "closed" PROVE Clear(m)'
  BY <1>2
<1>4. ASSUME NEW x \in Loans, LoanSteps(x) PROVE Clear(m)'
  <2>1. member' = member
    BY <1>4 DEF LoanSteps, ApplyForLoan, AddGuarantor, ApproveGuarantor, RemoveGuarantor,
                ApproveLoan, RejectLoan, DisburseLoan, CloseLoan
  <2>2. ~ActiveMember(m) /\ Clear(m)
    BY <1>1, <1>3, <2>1 DEF ActiveMember
  <2>3. QED
    BY <1>4, <2>2, OnlyActiveIncur
<1>5. ASSUME NEW x \in Members, MemberSteps(x) PROVE Clear(m)'
  <2>1. UNCHANGED <<pledges, loans>>
    BY <1>5 DEF MemberSteps, UpdateMemberStatus, MoveShares, SetAccountStatus
  <2>2. Clear(m)
    BY <1>1, <1>3 DEF ClosesOnlyClear, vars
  <2>3. QED
    BY <2>1, <2>2 DEF Clear
<1>6. CASE UNCHANGED vars
  BY <1>1, <1>3, <1>6 DEF vars, Clear
<1>7. QED
  BY <1>4, <1>5, <1>6, NextCases

\* If CloseMember refused a member who still has an active pledge or owes an
\* active loan, as the member rules ask, no closed member would ever have one:
\* the standing that applications, guarantors' consents, approvals and
\* disbursements check keeps them out afterwards.  The run LoanSecurityClosure
\* shows that the code does not refuse.
THEOREM CheckedClosuresStayClear ==
    Spec /\ [][ClosesOnlyClear]_vars => []ClosedMembersAreClear
<1>1. Init => ClosedMembersAreClear
  BY DEF Init, ClosedMembersAreClear
<1>2. LoanInv /\ ClosedMembersAreClear /\ [Next]_vars /\ [ClosesOnlyClear]_vars
          => ClosedMembersAreClear'
  BY ClosureCases
<1>3. QED
  BY <1>1, <1>2, LoanInvariant, PTL DEF Spec

-----------------------------------------------------------------------------
(* Refinement: the workflow uses shares only as SharePositions allows.     *)

LEMMA SameCount ==
    ASSUME NEW m \in Members
    PROVE  Positions!Pledged(m) = Pledged(m)
<1>1. Positions!ActiveQuanta(pledges[m]) = ActiveQuanta(pledges[m])
  BY DEF Positions!ActiveQuanta, ActiveQuanta
<1>2. QED
  BY <1>1, Zenon DEF Positions!Pledged, Positions!GetActivePledgedAmount, Positions!Cardinality,
                     Pledged, GetActivePledgedAmount, Cardinality

LEMMA InitRefines == Init => Positions!Init
BY DEF Init, Positions!Init, NoPledges, NoPledge, Positions!NoPledges, Positions!NoPledge

LEMMA ApplyRefines ==
    ASSUME LoanInv, NEW l \in Loans, NEW m \in Members, NEW principal \in Principals,
           NEW pledge \in OwnPledges, NEW S \in SUBSET Members, NEW g \in [S -> Guarantees],
           ApplyForLoan(l, m, principal, pledge, g)
    PROVE  Positions!Propose(m, l) \/ UNCHANGED <<balance, pledges>>
<1> DEFINE p == [type |-> "applicant_security", amount |-> pledge, status |-> "pending"]
<1>1. balance' = balance
  BY DEF ApplyForLoan
<1>2. CASE pledges' = pledges
  BY <1>1, <1>2
<1>3. CASE pledges' # pledges
  <2>1. /\ pledges[m][l].status = "none" /\ pledge > 0
        /\ pledges' = [pledges EXCEPT ![m] = [pledges[m] EXCEPT ![l] = p]]
    BY <1>3 DEF ApplyForLoan, SetPledge, CreateSharePledge, CanCreateSharePledge
  <2>2. pledge \in Nat \ {0} /\ p.amount = pledge /\ p.status = "pending"
    BY <2>1, LoanConstants
  <2> HIDE DEF p
  <2>3. pledges'[m][l] = p
    BY <2>1 DEF LoanInv, Types
  <2>4. QED
    BY <1>1, <2>1, <2>2, <2>3 DEF Positions!Propose, Positions!NewPledge
<1>4. QED
  BY <1>2, <1>3

LEMMA ApproveGuarantorRefines ==
    ASSUME LoanInv, NEW l \in Loans, NEW g \in Members, ApproveGuarantor(l, g)
    PROVE  Positions!Reserve(g, l)
<1> DEFINE amount == guarantors[l][g].amount
           q == [type |-> "guarantor_security", amount |-> amount, status |-> "pending"]
           p == [type |-> "guarantor_security", amount |-> amount, status |-> "active"]
           f == [pledges[g] EXCEPT ![l] = q]
<1>1. /\ pledges[g][l].status = "none" /\ balance' = balance
      /\ amount > 0 /\ amount <= guaranteeAvailable(balance[g], Pledged(g))
      /\ pledges' = [pledges EXCEPT ![g] = ActivateSharePledge(f, l)]
  BY DEF ApproveGuarantor, CanCreateSharePledge, CheckGuarantorSecurity, SetPledge,
         CreateSharePledge
<1>2. amount \in Nat \ {0} /\ p.amount = amount /\ p.status = "active"
  BY <1>1 DEF LoanInv, Types, Guarantor
<1>3. pledges[g] \in [Loans -> Pledge] /\ f[l] = q
  BY DEF LoanInv, Types
<1>4. ActivateSharePledge(f, l) = [f EXCEPT ![l] = p]
  BY <1>3 DEF ActivateSharePledge
<1>5. amount <= balance[g] - Pledged(g)
  BY <1>1, <1>2 DEF guaranteeAvailable
<1> HIDE DEF p, q
<1>6. [f EXCEPT ![l] = p] = [pledges[g] EXCEPT ![l] = p]
  BY <1>3
<1>7. pledges' = [pledges EXCEPT ![g] = [pledges[g] EXCEPT ![l] = p]]
  BY <1>1, <1>4, <1>6
<1>8. pledges'[g][l] = p
  BY <1>7 DEF LoanInv, Types
<1> HIDE DEF amount
<1>9. QED
  BY <1>1, <1>2, <1>5, <1>7, <1>8, SameCount DEF Positions!Reserve, Positions!NewPledge

LEMMA ApproveLoanRefines ==
    ASSUME LoanInv, NEW l \in Loans, ApproveLoan(l)
    PROVE  \/ loans[l].applicant \in Members /\ Positions!Activate(loans[l].applicant, l)
           \/ UNCHANGED <<balance, pledges>>
<1> DEFINE a == loans[l].applicant
<1>1. a \in Members /\ balance' = balance
  BY DEF ApproveLoan, LoanInv, LoanOK, Known
<1>2. CASE pledges' = pledges
  BY <1>1, <1>2
<1>3. CASE pledges' # pledges
  <2>1. /\ pledges[a][l].status = "pending"
        /\ balance[a] - Pledged(a) >= pledges[a][l].amount
        /\ pledges' = [pledges EXCEPT ![a] = ActivateSharePledge(pledges[a], l)]
    BY <1>3 DEF ApproveLoan, verifyCollateral, VerifyApplicantSecurity, ApplicantPledge,
                CanHonour, SetPledge
  <2>2. ActivateSharePledge(pledges[a], l) = Positions!ActivateSharePledge(pledges[a], l)
    BY DEF ActivateSharePledge, Positions!ActivateSharePledge
  <2> HIDE DEF a
  <2>3. Positions!Activate(a, l)
    BY <1>1, <2>1, <2>2, SameCount DEF Positions!Activate
  <2>4. QED
    BY <1>1, <2>3 DEF a
<1>4. QED
  BY <1>2, <1>3

LEMMA ReleaseRefines ==
    ASSUME NEW l \in Loans, NEW S \in SUBSET Members, ReleaseLoanSecurity(l, S),
           balance' = balance
    PROVE  Positions!Release(l)
<1>1. pledges' = [m \in Members |->
          IF m \in S THEN ReleaseLoanSharePledge(pledges[m], l) ELSE pledges[m]]
  BY DEF ReleaseLoanSecurity
<1>2. \A f : ReleaseLoanSharePledge(f, l) = Positions!ReleaseLoanSharePledge(f, l)
  BY DEF ReleaseLoanSharePledge, Positions!ReleaseLoanSharePledge
<1>3. pledges' = [m \in Members |->
          IF pledges'[m] = pledges[m] THEN pledges[m]
                                      ELSE Positions!ReleaseLoanSharePledge(pledges[m], l)]
  BY <1>1, <1>2
<1>4. QED
  BY <1>3 DEF Positions!Release

\* Every step of the workflow is a step of the abstract specification, or none.
LEMMA NextRefines == LoanInv /\ [Next]_vars => [Positions!Next]_(Positions!positionVars)
<1> SUFFICES ASSUME LoanInv, [Next]_vars PROVE [Positions!Next]_(Positions!positionVars)
  OBVIOUS
<1>1. CASE UNCHANGED <<balance, pledges>>
  BY <1>1 DEF Positions!positionVars
<1>2. ASSUME NEW m \in Members, MemberSteps(m) PROVE [Positions!Next]_(Positions!positionVars)
  <2>1. ASSUME NEW b \in 0 .. MaxShares, MoveShares(m, b)
        PROVE  Positions!Next
    <3>1. /\ b >= Pledged(m) /\ balance' = [balance EXCEPT ![m] = b] /\ b \in Nat
          /\ pledges' = pledges
      BY <2>1, LoanConstants DEF MoveShares
    <3>2. balance'[m] = b
      BY <3>1 DEF LoanInv, Types
    <3>3. Positions!Move(m)
      BY <3>1, <3>2, SameCount DEF Positions!Move
    <3>4. QED
      BY <3>3 DEF Positions!Next
  <2>2. QED
    BY <1>1, <1>2, <2>1 DEF MemberSteps, UpdateMemberStatus, SetAccountStatus
<1>3. ASSUME NEW l \in Loans, LoanSteps(l) PROVE [Positions!Next]_(Positions!positionVars)
  <2>1. ASSUME NEW m \in Members, NEW principal \in Principals, NEW pledge \in OwnPledges,
               NEW S \in SUBSET Members, NEW g \in [S -> Guarantees],
               ApplyForLoan(l, m, principal, pledge, g)
        PROVE  [Positions!Next]_(Positions!positionVars)
    <3>1. Positions!Propose(m, l) \/ UNCHANGED <<balance, pledges>>
      BY <2>1, ApplyRefines
    <3>2. QED
      BY <1>1, <3>1 DEF Positions!Next
  <2>2. ASSUME NEW g \in Members, ApproveGuarantor(l, g)
        PROVE  [Positions!Next]_(Positions!positionVars)
    <3>1. Positions!Reserve(g, l)
      BY <2>2, ApproveGuarantorRefines
    <3>2. QED
      BY <3>1 DEF Positions!Next
  <2>3. ASSUME NEW g \in Members, RemoveGuarantor(l, g)
        PROVE  [Positions!Next]_(Positions!positionVars)
    <3>1. Positions!Release(l)
      BY <2>3, ReleaseRefines DEF RemoveGuarantor, ReleaseGuarantor
    <3>2. QED
      BY <3>1 DEF Positions!Next
  <2>4. CASE RejectLoan(l) \/ CloseLoan(l)
    <3>1. Members \in SUBSET Members
      OBVIOUS
    <3>2. Positions!Release(l)
      BY <2>4, <3>1, ReleaseRefines DEF RejectLoan, CloseLoan
    <3>3. QED
      BY <3>2 DEF Positions!Next
  <2>5. CASE ApproveLoan(l)
    <3>1. \/ \E m \in Members : Positions!Activate(m, l)
          \/ UNCHANGED <<balance, pledges>>
      BY <2>5, ApproveLoanRefines
    <3>2. QED
      BY <1>1, <3>1 DEF Positions!Next
  <2>6. CASE DisburseLoan(l) \/ \E g \in Members, amount \in Guarantees : AddGuarantor(l, g, amount)
    BY <1>1, <2>6 DEF DisburseLoan, verifyCollateral, VerifyApplicantSecurity, AddGuarantor
  <2>7. QED
    BY <1>3, <2>1, <2>2, <2>3, <2>4, <2>5, <2>6 DEF LoanSteps
<1>4. CASE UNCHANGED vars
  BY <1>1, <1>4 DEF vars
<1>5. QED
  BY <1>2, <1>3, <1>4, NextCases

\* Applications, guarantors, decisions and settlements of all loans together
\* are seen by the Shares domain as one proposal, reservation or release at a
\* time: no share is pledged twice, and none that is pledged is withdrawn.
THEOREM WorkflowImplementsPositions == Spec => ImplementsPositions
BY InitRefines, NextRefines, LoanInvariant, PTL DEF Spec, ImplementsPositions, Positions!Spec
=============================================================================
