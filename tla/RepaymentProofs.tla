-------------------------- MODULE RepaymentProofs --------------------------
(***************************************************************************)
(* The money of one loan, for any principal, rate, number of installments, *)
(* months, penalties and payments.                                         *)
(*                                                                         *)
(* One invariant carries everything: the types, the interest of each month *)
(* on its opening balance, the totals against what was charged, and the    *)
(* schedule against the principal repaid.  It needs no assumption on the   *)
(* amounts clients send; that a payment's parts add up to the amount in    *)
(* its row does, because the code cuts off what the column rounds.         *)
(***************************************************************************)
EXTENDS LoanRepayments, SumLemmas

-----------------------------------------------------------------------------
(* The inductive invariant.                                                *)

Shape == TypeOK /\ IsFiniteSet(DOMAIN payments)

\* MoneyAccountedFor without the parts of the single rows.
TotalsInStep ==
    /\ PrincipalPaid <= Principal /\ InterestPaid <= Assessed(interest)
    /\ PenaltyPaid <= penalties
    /\ \A g \in DOMAIN payments : payments[g].credit > 0 => status = "closed"
    /\ ClosedIffSettled

RepaymentInv ==
    /\ Shape
    /\ InterestOnOpeningBalance
    /\ TotalsInStep
    /\ ScheduleFollowsRepayments

\* Clients send whole quanta.
WholeQuanta == \A tenths \in Amounts : tenths % 10 = 0

-----------------------------------------------------------------------------
(* Types and arithmetic.                                                   *)

LEMMA Constants ==
    /\ Principal \in Nat /\ Principal > 0 /\ RateDen \in Nat /\ RateDen > 0
    /\ Installments \in Nat /\ Installments > 0 /\ Installments <= Principal
    /\ RateNum \in Nat /\ LastMonth \in Nat /\ MaxPenalty \in Nat
    /\ Amounts \subseteq Int
BY RepaymentConstants

LEMMA Tables ==
    ASSUME Shape
    PROVE  /\ interest \in [DOMAIN interest -> Nat] /\ DOMAIN interest \subseteq Months
           /\ payments \in [DOMAIN payments -> Payment] /\ DOMAIN payments \subseteq Gateways
           /\ IsFiniteSet(DOMAIN payments) /\ IsFiniteSet(DOMAIN interest)
           /\ schedule \in [1 .. Installments -> {"upcoming", "partial", "paid"}]
           /\ penalties \in Nat /\ now \in Months
<1>1. PICK A \in SUBSET Months : interest \in [A -> Nat]
  BY DEF Shape, TypeOK
<1>2. PICK G \in SUBSET Gateways : payments \in [G -> Payment]
  BY DEF Shape, TypeOK
<1>3. IsFiniteSet(Months)
  BY Constants, FS_Interval DEF Months
<1>4. DOMAIN interest = A /\ DOMAIN payments = G
  BY <1>1, <1>2
<1>5. IsFiniteSet(A)
  BY <1>3, FS_Subset
<1> QED BY <1>1, <1>2, <1>4, <1>5, Constants DEF Shape, TypeOK

\* Division of a whole amount by a positive one.
LEMMA Division ==
    ASSUME NEW x \in Nat, NEW y \in Nat, y > 0
    PROVE  /\ x \div y \in Nat /\ x % y \in Nat
           /\ x = y * (x \div y) + (x % y)
BY Z3

LEMMA InterestIsWhole == ASSUME NEW b \in Nat PROVE MonthlyInterest(b) \in Nat
<1>1. 2 * b * RateNum + RateDen \in Nat /\ 2 * RateDen \in Nat /\ 2 * RateDen > 0
  BY Constants
<1> QED BY <1>1, Division DEF MonthlyInterest

LEMMA Clamped ==
    ASSUME NEW n \in Int
    PROVE  /\ AtLeastZero(n) \in Nat
           /\ n >= 0 => AtLeastZero(n) = n
           /\ n <= 0 => AtLeastZero(n) = 0
BY DEF AtLeastZero

\* The four parts of a payment: none is negative, none exceeds what is due, they
\* add up, and each is filled before the next one gets anything.
FairSplit(s, a, penaltyDue, interestDue, principalDue) ==
    /\ s.penalty \in Nat /\ s.interest \in Nat /\ s.principal \in Nat /\ s.credit \in Nat
    /\ s.penalty <= penaltyDue /\ s.interest <= interestDue /\ s.principal <= principalDue
    /\ s.penalty + s.interest + s.principal + s.credit = a
    /\ s.principal > 0 => s.interest = interestDue /\ s.penalty = penaltyDue
    /\ s.credit > 0 => /\ s.principal = principalDue /\ s.interest = interestDue
                       /\ s.penalty = penaltyDue
    /\ s.credit = AtLeastZero(a - (penaltyDue + interestDue + principalDue))
    /\ a >= penaltyDue + interestDue + principalDue <=>
           /\ s.principal = principalDue /\ s.interest = interestDue
           /\ s.penalty = penaltyDue

LEMMA Allocation ==
    ASSUME NEW a \in Nat, NEW penaltyDue \in Nat, NEW interestDue \in Nat, NEW principalDue \in Nat
    PROVE  FairSplit(allocateRepayment(a, penaltyDue, interestDue, principalDue),
                     a, penaltyDue, interestDue, principalDue)
<1>0. PICK s : s = allocateRepayment(a, penaltyDue, interestDue, principalDue)
  OBVIOUS
<1> DEFINE pen == Least(a, penaltyDue)
           int == Least(a - pen, interestDue)
           pri == Least(a - pen - int, principalDue)
<1>1. pen \in Nat /\ pen <= penaltyDue /\ pen <= a /\ (pen < penaltyDue => pen = a)
  BY DEF Least
<1>2. int \in Nat /\ int <= interestDue /\ int <= a - pen /\ (int < interestDue => int = a - pen)
  <2> HIDE DEF pen
  <2> QED BY <1>1 DEF Least
<1>3. /\ pri \in Nat /\ pri <= principalDue /\ pri <= a - pen - int
      /\ (pri < principalDue => pri = a - pen - int)
  <2> HIDE DEF pen, int
  <2> QED BY <1>1, <1>2 DEF Least
<1>4. s = [penalty |-> pen, interest |-> int, principal |-> pri, credit |-> a - pen - int - pri]
  BY <1>0 DEF allocateRepayment
<1> HIDE DEF pen, int, pri
<1>5. FairSplit(s, a, penaltyDue, interestDue, principalDue)
  BY <1>1, <1>2, <1>3, <1>4 DEF AtLeastZero, FairSplit
<1> QED BY <1>0, <1>5, Zenon

-----------------------------------------------------------------------------
(* Sums over the payments.                                                 *)

\* A column of the payments sums to a whole amount.
LEMMA ColumnSum ==
    ASSUME NEW D, IsFiniteSet(D), NEW f \in [D -> Nat]
    PROVE  SumFunction(f) = SumFunctionOnSet(f, D) /\ SumFunction(f) \in Nat
<1>1. DOMAIN f = D /\ \A x \in D : f[x] \in Nat
  OBVIOUS
<1>2. SumFunctionOnSet(f, D) \in Nat
  BY <1>1, SumNat
<1> QED BY <1>1, <1>2 DEF SumFunction

\* One more row.
LEMMA ColumnGrows ==
    ASSUME NEW D, IsFiniteSet(D), NEW g, g \notin D, NEW f \in [D -> Nat],
           NEW h \in [D \cup {g} -> Nat], \A x \in D : h[x] = f[x]
    PROVE  SumFunction(h) = SumFunction(f) + h[g]
<1>1. IsFiniteSet(D \cup {g})
  BY FS_AddElement
<1>2. /\ SumFunction(f) = SumFunctionOnSet(f, D) /\ SumFunctionOnSet(f, D) \in Nat
      /\ SumFunction(h) = SumFunctionOnSet(h, D \cup {g})
  <2>1. SumFunction(f) = SumFunctionOnSet(f, D) /\ SumFunction(f) \in Nat
    BY ColumnSum
  <2>2. SumFunction(h) = SumFunctionOnSet(h, D \cup {g})
    BY <1>1, ColumnSum
  <2> QED BY <2>1, <2>2
<1>3. \A x \in D : f[x] \in Int /\ f[x] = h[x]
  OBVIOUS
<1>4. \A x \in D \cup {g} : h[x] \in Int
  OBVIOUS
<1>5. SumFunctionOnSet(h, D \cup {g}) = h[g] + SumFunctionOnSet(h, D)
  BY <1>4, SumAdd
<1>6. SumFunctionOnSet(f, D) = SumFunctionOnSet(h, D)
  BY <1>3, SumSame
<1>7. h[g] \in Nat
  OBVIOUS
<1> QED BY <1>2, <1>5, <1>6, <1>7

LEMMA PaidIsWhole ==
    ASSUME payments \in [DOMAIN payments -> Payment], IsFiniteSet(DOMAIN payments)
    PROVE  /\ PrincipalPaid \in Nat /\ InterestPaid \in Nat /\ PenaltyPaid \in Nat
           /\ \A month : PrincipalPaidBefore(month) \in Nat
<1>1. /\ Principals \in [DOMAIN payments -> Nat]
      /\ [g \in DOMAIN payments |-> payments[g].interest] \in [DOMAIN payments -> Nat]
      /\ [g \in DOMAIN payments |-> payments[g].penalty] \in [DOMAIN payments -> Nat]
  BY DEF Principals, Payment
<1>2. PrincipalPaid \in Nat /\ InterestPaid \in Nat /\ PenaltyPaid \in Nat
  BY <1>1, ColumnSum DEF PrincipalPaid, InterestPaid, PenaltyPaid
<1>3. ASSUME NEW month PROVE PrincipalPaidBefore(month) \in Nat
  <2> DEFINE S == {g \in DOMAIN payments : payments[g].period < month}
  <2>1. IsFiniteSet(S) /\ \A x \in S : Principals[x] \in Nat
    BY <1>1, FS_Subset
  <2> HIDE DEF S
  <2>2. SumFunctionOnSet(Principals, S) \in Nat
    BY <2>1, SumNat
  <2> QED BY <2>2 DEF PrincipalPaidBefore, S
<1> QED BY <1>2, <1>3

LEMMA OpeningIsWhole == ASSUME Shape PROVE \A month : OpeningInterest(month) \in Nat
<1> SUFFICES ASSUME NEW month PROVE OpeningInterest(month) \in Nat
  OBVIOUS
<1>1. PrincipalPaidBefore(month) \in Nat
  BY Tables, PaidIsWhole
<1>2. AtLeastZero(Principal - PrincipalPaidBefore(month)) \in Nat
  BY <1>1, Constants, Clamped
<1> QED BY <1>2, InterestIsWhole DEF OpeningInterest

LEMMA AssessedIsWhole == ASSUME Shape PROVE Assessed(interest) \in Nat
BY Tables, ColumnSum DEF Assessed

-----------------------------------------------------------------------------
(* The schedule.                                                           *)

LEMMA InstallmentsDue ==
    /\ Principal \div Installments \in Nat /\ Principal % Installments \in Nat
    /\ Principal = Installments * (Principal \div Installments) + (Principal % Installments)
    /\ Principal \div Installments > 0
<1>1. /\ Principal \div Installments \in Nat /\ Principal % Installments \in Nat
      /\ Principal = Installments * (Principal \div Installments) + (Principal % Installments)
  BY Constants, Division
<1>2. Principal % Installments < Installments
  BY Constants, Z3
<1>3. Principal \div Installments # 0
  BY <1>1, <1>2, Constants, Z3
<1> QED BY <1>1, <1>3

LEMMA DueIsPositive == \A i : DueOf(i) \in Nat /\ DueOf(i) > 0
BY InstallmentsDue DEF DueOf

\* What is due grows installment by installment.
LEMMA DueStep ==
    ASSUME NEW i \in Nat
    PROVE  /\ DueUpTo(i) \in Nat
           /\ i > 0 => DueUpTo(i) = DueUpTo(i - 1) + DueOf(i)
<1>1. IsFiniteSet(1 .. i) /\ [j \in 1 .. i |-> DueOf(j)] \in [1 .. i -> Nat]
  BY FS_Interval, DueIsPositive
<1>2. DueUpTo(i) \in Nat
  BY <1>1, ColumnSum DEF DueUpTo
<1>3. CASE i > 0
  <2> DEFINE f == [j \in 1 .. i - 1 |-> DueOf(j)]
             h == [j \in 1 .. i |-> DueOf(j)]
             D == 1 .. i - 1
  <2>1. IsFiniteSet(D) /\ i \notin D /\ D \cup {i} = 1 .. i
    BY <1>3, FS_Interval
  <2>2. f \in [D -> Nat] /\ h \in [D \cup {i} -> Nat] /\ \A x \in D : h[x] = f[x]
    BY <2>1, DueIsPositive
  <2>3. h[i] = DueOf(i)
    BY <1>3
  <2> HIDE DEF f, h, D
  <2>4. SumFunction(h) = SumFunction(f) + h[i]
    BY <2>1, <2>2, ColumnGrows
  <2> QED BY <1>2, <2>3, <2>4 DEF DueUpTo, f, h
<1> QED BY <1>2, <1>3

LEMMA NothingDueAtStart == DueUpTo(0) = 0
<1>1. 1 .. 0 = {}
  OBVIOUS
<1>2. DOMAIN [j \in 1 .. 0 |-> DueOf(j)] = {}
  BY <1>1
<1> QED BY <1>2, SumEmpty DEF DueUpTo, SumFunction

\* All installments but the last are the same: by a least counterexample.
LEMMA EqualInstallments ==
    \A i \in 0 .. Installments - 1 : DueUpTo(i) = i * (Principal \div Installments)
<1> DEFINE q == Principal \div Installments
           Bad == {i \in 0 .. Installments - 1 : DueUpTo(i) # i * q}
<1>1. q \in Nat
  BY InstallmentsDue
<1>2. CASE Bad # {}
  <2>1. Bad \in SUBSET Nat
    OBVIOUS
  <2>2. PICK i \in Bad : \A j \in Bad : i <= j
    <3> HIDE DEF Bad
    <3> QED BY <1>2, <2>1, HasLeast
  <2>3. i \in Nat /\ i <= Installments - 1 /\ DueUpTo(i) # i * q
    BY Constants
  <2>4. CASE i = 0
    BY <1>1, <2>3, <2>4, NothingDueAtStart
  <2>5. CASE i > 0
    <3>1. i - 1 \in 0 .. Installments - 1 /\ ~(i <= i - 1)
      BY <2>3, <2>5, Constants
    <3>2. DueUpTo(i - 1) = (i - 1) * q
      BY <2>2, <3>1
    <3>3. DueUpTo(i) = DueUpTo(i - 1) + DueOf(i)
      BY <2>3, <2>5, DueStep
    <3>4. DueOf(i) = q
      BY <1>1, <2>3, Constants DEF DueOf
    <3>5. (i - 1) * q + q = i * q
      <4> HIDE DEF q
      <4> QED BY <1>1, <2>3
    <3> QED BY <2>3, <3>2, <3>3, <3>4, <3>5
  <2> QED BY <2>3, <2>4, <2>5
<1> QED BY <1>2

LEMMA ScheduleAddsUp == DueUpTo(Installments) = Principal
<1> DEFINE q == Principal \div Installments
           r == Principal % Installments
<1>1. /\ q \in Nat /\ r \in Nat /\ Principal = Installments * q + r
      /\ Installments \in Nat /\ Installments > 0
  BY InstallmentsDue, Constants
<1>2. DueUpTo(Installments) = DueUpTo(Installments - 1) + DueOf(Installments)
  BY <1>1, DueStep
<1>3. DueUpTo(Installments - 1) = (Installments - 1) * q
  BY <1>1, EqualInstallments
<1>4. DueOf(Installments) = q + r
  BY DEF DueOf
<1> HIDE DEF q, r
<1> QED BY <1>1, <1>2, <1>3, <1>4

\* The walk of updateScheduleStatuses over a schedule that was true.
LEMMA WalkIsTrue ==
    ASSUME Shape, ScheduleFollowsRepayments, NEW applied \in Nat, PrincipalPaid <= applied,
           updateScheduleStatuses(applied)
    PROVE  /\ schedule' \in [1 .. Installments -> {"upcoming", "partial", "paid"}]
           /\ \A i \in 1 .. Installments :
                 /\ schedule'[i] = "paid" <=> DueUpTo(i) <= applied
                 /\ schedule'[i] = "partial" <=> DueUpTo(i - 1) < applied /\ applied < DueUpTo(i)
<1>1. schedule \in [1 .. Installments -> {"upcoming", "partial", "paid"}] /\ PrincipalPaid \in Nat
  BY Tables, PaidIsWhole
<1>2. ASSUME NEW i \in 1 .. Installments
      PROVE  /\ schedule'[i] \in {"upcoming", "partial", "paid"}
             /\ schedule'[i] = "paid" <=> DueUpTo(i) <= applied
             /\ schedule'[i] = "partial" <=> DueUpTo(i - 1) < applied /\ applied < DueUpTo(i)
  <2> DEFINE rem == applied - DueUpTo(i - 1)
  <2>1. /\ DueUpTo(i) \in Nat /\ DueUpTo(i - 1) \in Nat /\ DueUpTo(i) = DueUpTo(i - 1) + DueOf(i)
        /\ DueOf(i) \in Nat /\ DueOf(i) > 0
    <3>1. i \in Nat /\ i - 1 \in Nat /\ i > 0
      BY Constants
    <3> QED BY <3>1, DueStep, DueIsPositive
  <2>2. schedule'[i] = CASE rem >= DueOf(i) -> "paid"
                         [] rem > 0 /\ rem < DueOf(i) -> "partial"
                         [] OTHER -> schedule[i]
    BY DEF updateScheduleStatuses
  <2>3. /\ schedule[i] \in {"upcoming", "partial", "paid"}
        /\ schedule[i] = "paid" <=> DueUpTo(i) <= PrincipalPaid
        /\ schedule[i] = "partial" <=> DueUpTo(i - 1) < PrincipalPaid /\ PrincipalPaid < DueUpTo(i)
    BY <1>1 DEF ScheduleFollowsRepayments
  <2>4. CASE rem >= DueOf(i)
    <3>1. schedule'[i] = "paid"
      BY <2>1, <2>2, <2>4
    <3> QED BY <2>1, <2>4, <3>1
  <2>5. CASE rem > 0 /\ rem < DueOf(i)
    <3>1. schedule'[i] = "partial"
      BY <2>1, <2>2, <2>5
    <3> QED BY <2>1, <2>5, <3>1
  <2>6. CASE rem <= 0
    <3>1. schedule'[i] = schedule[i]
      BY <2>1, <2>2, <2>6
    <3> QED BY <1>1, <2>1, <2>3, <2>6, <3>1
  <2> QED BY <2>1, <2>4, <2>5, <2>6
<1>3. schedule' = [i \in 1 .. Installments |-> schedule'[i]]
  BY DEF updateScheduleStatuses
<1> QED BY <1>2, <1>3

-----------------------------------------------------------------------------
(* Interest.                                                               *)

\* The months that a payment for this month adds to the books are new, and the
\* books then have all months up to it.
LEMMA CatchUpMonths ==
    ASSUME Shape, NEW month \in Months, PeriodAccepted(month)
    PROVE  LET from == CatchUpFrom(month)
           IN  /\ from \in Nat /\ from .. month \subseteq Months /\ IsFiniteSet(from .. month)
               /\ DOMAIN interest \cap (from .. month) = {}
               /\ DOMAIN interest # {} => from - 1 \in DOMAIN interest
               /\ \A m \in DOMAIN interest : m < from
               /\ LatestAssessment(month) <= month
<1>1. /\ DOMAIN interest \subseteq Months /\ IsFiniteSet(DOMAIN interest)
      /\ month \in Nat /\ \A m \in Months : m \in Nat
  BY Tables, Constants DEF Months
<1>2. \A m \in DOMAIN interest : m <= month
  BY DEF PeriodAccepted
<1>3. CASE DOMAIN interest = {}
  <2>1. CatchUpFrom(month) = month /\ LatestAssessment(month) = month - 1
    BY <1>3 DEF CatchUpFrom, LatestAssessment
  <2>2. month .. month = {month} /\ IsFiniteSet(month .. month)
    <3>0. month \in Int
      BY <1>1
    <3>1. IsFiniteSet(month .. month)
      BY <3>0, FS_Interval
    <3>2. \A x : x \in month .. month <=> x = month
      BY <1>1
    <3> QED BY <3>1, <3>2
  <2> QED BY <1>1, <1>3, <2>1, <2>2
<1>4. CASE DOMAIN interest # {}
  <2>1. \E x \in DOMAIN interest : \A y \in DOMAIN interest : x >= y
    BY <1>1, <1>4, HasGreatest
  <2>2. PICK top : top = Max(DOMAIN interest)
    OBVIOUS
  <2>3. top \in DOMAIN interest /\ \A y \in DOMAIN interest : top >= y
    BY <2>1, <2>2 DEF Max
  <2>4. CatchUpFrom(month) = top + 1 /\ LatestAssessment(month) = top
    BY <1>4, <2>2 DEF CatchUpFrom, LatestAssessment
  <2>5. top \in Nat /\ top <= month
    BY <1>1, <1>2, <2>3
  <2>6. top + 1 .. month \subseteq Months /\ IsFiniteSet(top + 1 .. month)
    BY <1>1, <2>5, FS_Interval, Constants DEF Months
  <2>7. ASSUME NEW m \in DOMAIN interest PROVE m < top + 1
    <3>1. m \in Nat /\ top >= m
      BY <1>1, <2>3
    <3> QED BY <2>5, <3>1
  <2>8. DOMAIN interest \cap (top + 1 .. month) = {}
    BY <1>1, <2>5, <2>7
  <2> QED BY <2>3, <2>4, <2>5, <2>6, <2>7, <2>8
<1> QED BY <1>3, <1>4

\* The assessment adds what the quote calls unposted.
LEMMA AssessmentGrows ==
    ASSUME Shape, NEW month \in Months, PeriodAccepted(month)
    PROVE  LET after == AssessLoanInterestPeriods(month)
               from  == CatchUpFrom(month)
           IN  /\ DOMAIN after = DOMAIN interest \cup (from .. month)
               /\ after \in [DOMAIN after -> Nat]
               /\ \A m \in DOMAIN interest : after[m] = interest[m]
               /\ \A m \in from .. month : after[m] = OpeningInterest(m)
               /\ Unposted(month) \in Nat
               /\ Assessed(after) = Assessed(interest) + Unposted(month)
<1> DEFINE from == CatchUpFrom(month)
           D == DOMAIN interest
           N == from .. month
           f == [m \in N |-> OpeningInterest(m)]
<1>1. PICK after : after = AssessLoanInterestPeriods(month)
  OBVIOUS
<1>2. interest \in [D -> Nat] /\ IsFiniteSet(D)
  BY Tables
<1>3. D \cap N = {} /\ IsFiniteSet(N)
  BY CatchUpMonths
<1>4. Unposted(month) = SumFunction(f)
  BY DEF Unposted, CatchUpFrom
<1>5. /\ DOMAIN after = D \cup N
      /\ \A m \in D \cup N : after[m] = IF m \in D THEN interest[m] ELSE OpeningInterest(m)
  BY <1>1 DEF AssessLoanInterestPeriods
<1>6. \A m : OpeningInterest(m) \in Nat
  BY OpeningIsWhole
<1>7. f \in [N -> Nat] /\ \A m \in N : f[m] = OpeningInterest(m)
  BY <1>6
<1>8. after = [m \in D \cup N |-> after[m]]
  BY <1>1 DEF AssessLoanInterestPeriods
<1> HIDE DEF from, D, N, f
<1>9. /\ \A m \in D : after[m] = interest[m] /\ after[m] \in Nat
      /\ \A m \in N : after[m] = OpeningInterest(m) /\ after[m] = f[m] /\ after[m] \in Nat
  BY <1>2, <1>3, <1>5, <1>6, <1>7
<1>10. after \in [D \cup N -> Nat]
  BY <1>8, <1>9
<1>11. IsFiniteSet(D \cup N)
  BY <1>2, <1>3, FS_Union
<1>12. /\ SumFunction(after) = SumFunctionOnSet(after, D \cup N)
       /\ SumFunction(interest) = SumFunctionOnSet(interest, D)
       /\ SumFunction(f) = SumFunctionOnSet(f, N) /\ SumFunction(f) \in Nat
  <2>1. SumFunction(after) = SumFunctionOnSet(after, D \cup N)
    BY <1>10, <1>11, ColumnSum
  <2>2. SumFunction(interest) = SumFunctionOnSet(interest, D)
    BY <1>2, ColumnSum
  <2>3. SumFunction(f) = SumFunctionOnSet(f, N) /\ SumFunction(f) \in Nat
    BY <1>3, <1>7, ColumnSum
  <2> QED BY <2>1, <2>2, <2>3
<1>13. SumFunctionOnSet(after, D \cup N) = SumFunctionOnSet(after, D) + SumFunctionOnSet(after, N)
  <2>1. \A x \in D \cup N : after[x] \in Int
    BY <1>9
  <2> QED BY <1>2, <1>3, <2>1, SumSplit
<1>14. SumFunctionOnSet(interest, D) = SumFunctionOnSet(after, D)
  <2>1. \A x \in D : interest[x] \in Int /\ interest[x] = after[x]
    BY <1>2, <1>9
  <2> QED BY <1>2, <2>1, SumSame
<1>15. SumFunctionOnSet(f, N) = SumFunctionOnSet(after, N)
  <2>1. \A x \in N : f[x] \in Int /\ f[x] = after[x]
    BY <1>7, <1>9
  <2> QED BY <1>3, <2>1, SumSame
<1>16. Assessed(after) = Assessed(interest) + Unposted(month) /\ Unposted(month) \in Nat
  BY <1>4, <1>12, <1>13, <1>14, <1>15 DEF Assessed
<1> QED BY <1>1, <1>5, <1>9, <1>10, <1>16 DEF from, D, N

-----------------------------------------------------------------------------
(* A repayment.                                                            *)

\* What the payment finds due, and how it is split.
DueInterest(month) == AtLeastZero(Assessed(AssessLoanInterestPeriods(month)) - InterestPaid)
SplitOf(tenths, month) ==
    allocateRepayment(numericToScale(tenths), PenaltyDue, DueInterest(month), PrincipalDue)

LEMMA Conversion ==
    ASSUME NEW tenths \in Int, tenths > 0
    PROVE  /\ numericToScale(tenths) \in Nat /\ Stored(tenths) \in Nat
           /\ tenths % 10 = 0 => Stored(tenths) = numericToScale(tenths)
BY DEF numericToScale, Stored

\* The dues are exact while the totals are in step.
LEMMA DuesAreWhole ==
    ASSUME Shape, TotalsInStep, NEW month \in Months, PeriodAccepted(month)
    PROVE  /\ PenaltyDue \in Nat /\ PrincipalDue \in Nat /\ DueInterest(month) \in Nat
           /\ PenaltyDue = penalties - PenaltyPaid /\ PrincipalDue = Principal - PrincipalPaid
           /\ DueInterest(month) = Assessed(interest) + Unposted(month) - InterestPaid
           /\ Assessed(interest) \in Nat /\ Unposted(month) \in Nat
           /\ PrincipalPaid \in Nat /\ InterestPaid \in Nat /\ PenaltyPaid \in Nat
<1>1. PrincipalPaid \in Nat /\ InterestPaid \in Nat /\ PenaltyPaid \in Nat /\ penalties \in Nat
  BY Tables, PaidIsWhole
<1>2. /\ Assessed(interest) \in Nat /\ Unposted(month) \in Nat
      /\ Assessed(AssessLoanInterestPeriods(month)) = Assessed(interest) + Unposted(month)
  BY AssessedIsWhole, AssessmentGrows
<1>3. /\ penalties - PenaltyPaid \in Int /\ penalties - PenaltyPaid >= 0
      /\ Principal - PrincipalPaid \in Int /\ Principal - PrincipalPaid >= 0
      /\ Assessed(interest) + Unposted(month) - InterestPaid \in Int
      /\ Assessed(interest) + Unposted(month) - InterestPaid >= 0
  BY <1>1, <1>2, Constants DEF TotalsInStep
<1>4. /\ PenaltyDue = penalties - PenaltyPaid /\ PrincipalDue = Principal - PrincipalPaid
      /\ DueInterest(month) = Assessed(interest) + Unposted(month) - InterestPaid
  <2>1. PenaltyDue = penalties - PenaltyPaid
    BY <1>3, Clamped DEF PenaltyDue
  <2>2. PrincipalDue = Principal - PrincipalPaid
    BY <1>3, Clamped DEF PrincipalDue
  <2>3. DueInterest(month) = Assessed(interest) + Unposted(month) - InterestPaid
    <3>1. PICK due : due = Assessed(interest) + Unposted(month) - InterestPaid
      OBVIOUS
    <3>2. DueInterest(month) = AtLeastZero(due)
      <4>1. DueInterest(month) = AtLeastZero(Assessed(AssessLoanInterestPeriods(month)) - InterestPaid)
        BY Zenon DEF DueInterest
      <4>2. Assessed(AssessLoanInterestPeriods(month)) = Assessed(interest) + Unposted(month)
        BY <1>2
      <4>3. Assessed(AssessLoanInterestPeriods(month)) - InterestPaid = due
        BY <1>1, <1>2, <3>1, <4>2
      <4> QED BY <4>1, <4>3, Zenon
    <3>3. AtLeastZero(due) = due
      BY <1>3, <3>1, Clamped
    <3> QED BY <3>1, <3>2, <3>3
  <2> QED BY <2>1, <2>2, <2>3
<1> QED BY <1>1, <1>2, <1>3, <1>4

\* What a repayment writes, and what it does to the totals.
LEMMA RepaymentEffect ==
    ASSUME Shape, TotalsInStep, NEW g \in Gateways, NEW tenths \in Amounts, NEW month \in Months,
           RecordRepayment(g, tenths, month)
    PROVE  LET s == SplitOf(tenths, month)
           IN  /\ g \notin DOMAIN payments /\ DOMAIN payments' = DOMAIN payments \cup {g}
               /\ IsFiniteSet(DOMAIN payments') /\ payments' \in [DOMAIN payments' -> Payment]
               /\ \A x \in DOMAIN payments : payments'[x] = payments[x]
               /\ payments'[g].amount = Stored(tenths) /\ payments'[g].period = month
               /\ payments'[g].sent = tenths
               /\ payments'[g].penalty = s.penalty /\ payments'[g].interest = s.interest
               /\ payments'[g].principal = s.principal /\ payments'[g].credit = s.credit
               /\ PrincipalPaid' = PrincipalPaid + s.principal
               /\ InterestPaid' = InterestPaid + s.interest
               /\ PenaltyPaid' = PenaltyPaid + s.penalty
               /\ \A m \in Nat : m <= month => PrincipalPaidBefore(m)' = PrincipalPaidBefore(m)
<1>1. PICK s : s = SplitOf(tenths, month)
  OBVIOUS
<1>2. /\ g \notin DOMAIN payments /\ tenths > 0 /\ PeriodAccepted(month)
      /\ payments' = [x \in DOMAIN payments \cup {g} |->
              IF x \in DOMAIN payments THEN payments[x]
              ELSE [amount |-> Stored(tenths), period |-> month, penalty |-> s.penalty,
                    interest |-> s.interest, principal |-> s.principal,
                    credit |-> s.credit, sent |-> tenths]]
  BY <1>1 DEF RecordRepayment, SplitOf, DueInterest
<1>3. tenths \in Int
  BY Constants
<1>4. /\ s.penalty \in Nat /\ s.interest \in Nat /\ s.principal \in Nat /\ s.credit \in Nat
      /\ Stored(tenths) \in Nat
  <2>1. numericToScale(tenths) \in Nat /\ Stored(tenths) \in Nat
    BY <1>2, <1>3, Conversion
  <2>2. PenaltyDue \in Nat /\ PrincipalDue \in Nat /\ DueInterest(month) \in Nat
    BY <1>2, DuesAreWhole
  <2>3. FairSplit(s, numericToScale(tenths), PenaltyDue, DueInterest(month), PrincipalDue)
    BY <1>1, <2>1, <2>2, Allocation, Zenon DEF SplitOf
  <2> QED BY <2>1, <2>3 DEF FairSplit
<1>5. PICK row : row = [amount |-> Stored(tenths), period |-> month, penalty |-> s.penalty,
                    interest |-> s.interest, principal |-> s.principal,
                    credit |-> s.credit, sent |-> tenths]
  OBVIOUS
<1>6. /\ row \in Payment /\ row.amount = Stored(tenths) /\ row.period = month
      /\ row.sent = tenths /\ row.penalty = s.penalty /\ row.interest = s.interest /\ row.principal = s.principal
      /\ row.credit = s.credit
  BY <1>4, <1>5 DEF Payment
<1>7. payments \in [DOMAIN payments -> Payment] /\ IsFiniteSet(DOMAIN payments)
  BY Tables
<1>8. /\ DOMAIN payments' = DOMAIN payments \cup {g} /\ payments'[g] = row
      /\ \A x \in DOMAIN payments : payments'[x] = payments[x]
  BY <1>2, <1>5
<1>9. payments' \in [DOMAIN payments' -> Payment]
  BY <1>2, <1>5, <1>6, <1>7, <1>8
<1>10. IsFiniteSet(DOMAIN payments')
  BY <1>7, <1>8, FS_AddElement
<1> DEFINE D == DOMAIN payments
<1>11. PrincipalPaid' = PrincipalPaid + s.principal
  <2> DEFINE f == [x \in D |-> payments[x].principal]
             h == [x \in D \cup {g} |-> payments'[x].principal]
  <2>1. f \in [D -> Nat] /\ h \in [D \cup {g} -> Nat] /\ (\A x \in D : h[x] = f[x])
        /\ h[g] = s.principal
    BY <1>6, <1>7, <1>8, <1>9 DEF Payment
  <2>2. PrincipalPaid' = SumFunction(h) /\ PrincipalPaid = SumFunction(f)
    BY <1>8 DEF PrincipalPaid, Principals
  <2>0. g \notin D /\ IsFiniteSet(D)
    BY <1>2, <1>7
  <2> HIDE DEF f, h, D
  <2>3. SumFunction(h) = SumFunction(f) + h[g]
    BY <2>0, <2>1, ColumnGrows
  <2> QED BY <2>1, <2>2, <2>3
<1>12. InterestPaid' = InterestPaid + s.interest
  <2> DEFINE f == [x \in D |-> payments[x].interest]
             h == [x \in D \cup {g} |-> payments'[x].interest]
  <2>1. f \in [D -> Nat] /\ h \in [D \cup {g} -> Nat] /\ (\A x \in D : h[x] = f[x])
        /\ h[g] = s.interest
    BY <1>6, <1>7, <1>8, <1>9 DEF Payment
  <2>2. InterestPaid' = SumFunction(h) /\ InterestPaid = SumFunction(f)
    BY <1>8 DEF InterestPaid
  <2>0. g \notin D /\ IsFiniteSet(D)
    BY <1>2, <1>7
  <2> HIDE DEF f, h, D
  <2>3. SumFunction(h) = SumFunction(f) + h[g]
    BY <2>0, <2>1, ColumnGrows
  <2> QED BY <2>1, <2>2, <2>3
<1>13. PenaltyPaid' = PenaltyPaid + s.penalty
  <2> DEFINE f == [x \in D |-> payments[x].penalty]
             h == [x \in D \cup {g} |-> payments'[x].penalty]
  <2>1. f \in [D -> Nat] /\ h \in [D \cup {g} -> Nat] /\ (\A x \in D : h[x] = f[x])
        /\ h[g] = s.penalty
    BY <1>6, <1>7, <1>8, <1>9 DEF Payment
  <2>2. PenaltyPaid' = SumFunction(h) /\ PenaltyPaid = SumFunction(f)
    BY <1>8 DEF PenaltyPaid
  <2>0. g \notin D /\ IsFiniteSet(D)
    BY <1>2, <1>7
  <2> HIDE DEF f, h, D
  <2>3. SumFunction(h) = SumFunction(f) + h[g]
    BY <2>0, <2>1, ColumnGrows
  <2> QED BY <2>1, <2>2, <2>3
<1>14. ASSUME NEW m \in Nat, m <= month PROVE PrincipalPaidBefore(m)' = PrincipalPaidBefore(m)
  <2> DEFINE f == Principals
             h == [x \in D \cup {g} |-> payments'[x].principal]
             S == {x \in D : payments[x].period < m}
  <2>1. ~(month < m)
    BY <1>14, Constants DEF Months
  <2>2. {x \in DOMAIN payments' : payments'[x].period < m} = S
    BY <1>6, <1>8, <2>1
  <2>3. Principals' = h
    BY <1>8 DEF Principals
  <2>4. IsFiniteSet(S) /\ \A x \in S : f[x] \in Int /\ f[x] = h[x]
    BY <1>7, <1>8, FS_Subset DEF Principals, Payment
  <2>5. PrincipalPaidBefore(m)' = SumFunctionOnSet(h, S) /\ PrincipalPaidBefore(m) = SumFunctionOnSet(f, S)
    BY <2>2, <2>3 DEF PrincipalPaidBefore
  <2> HIDE DEF f, h, S
  <2>6. SumFunctionOnSet(f, S) = SumFunctionOnSet(h, S)
    BY <2>4, SumSame
  <2> QED BY <2>5, <2>6
<1> QED BY <1>1, <1>2, <1>6, <1>8, <1>9, <1>10, <1>11, <1>12, <1>13, <1>14

\* The interest of every month assessed is still that of its opening balance: the
\* payment is for the last of these months, and no month opens before it ends.
LEMMA RepaymentKeepsInterest ==
    ASSUME RepaymentInv, NEW g \in Gateways, NEW tenths \in Amounts, NEW month \in Months,
           RecordRepayment(g, tenths, month)
    PROVE  InterestOnOpeningBalance'
<1>1. Shape /\ TotalsInStep /\ PeriodAccepted(month) /\ interest' = AssessLoanInterestPeriods(month)
  BY DEF RepaymentInv, RecordRepayment
<1>2. PICK from : from = CatchUpFrom(month)
  OBVIOUS
<1>3. /\ from \in Nat /\ from .. month \subseteq Months
      /\ DOMAIN interest # {} => from - 1 \in DOMAIN interest
      /\ \A m \in DOMAIN interest : m < from
  BY <1>1, <1>2, CatchUpMonths
<1>4. /\ DOMAIN interest' = DOMAIN interest \cup (from .. month)
      /\ \A m \in DOMAIN interest : interest'[m] = interest[m]
      /\ \A m \in from .. month : interest'[m] = OpeningInterest(m)
  BY <1>1, <1>2, AssessmentGrows
<1>5. /\ DOMAIN interest \subseteq Months /\ month \in Nat /\ \A m \in Months : m \in Nat
      /\ \A m \in DOMAIN interest : m <= month
  BY <1>1, Tables, Constants DEF Months, PeriodAccepted
<1>0. ASSUME NEW m \in DOMAIN interest' PROVE m \in Nat /\ m <= month
  <2>1. CASE m \in DOMAIN interest
    BY <1>5, <2>1
  <2>2. CASE m \in from .. month
    <3>1. m \in Nat
      BY <1>3, <1>5, <2>2
    <3> QED BY <1>3, <1>5, <2>2, <3>1
  <2> QED BY <1>4, <2>1, <2>2
<1>6. ASSUME NEW m \in DOMAIN interest' PROVE interest'[m] = OpeningInterest(m)'
  <2>1. m \in Nat /\ m <= month
    BY <1>0
  <2>2. PrincipalPaidBefore(m)' = PrincipalPaidBefore(m)
    BY <1>1, <2>1, RepaymentEffect
  <2>3. OpeningInterest(m)' = OpeningInterest(m)
    BY <2>2 DEF OpeningInterest
  <2>4. interest'[m] = OpeningInterest(m)
    BY <1>4 DEF RepaymentInv, InterestOnOpeningBalance
  <2> QED BY <2>3, <2>4
<1>7. ASSUME NEW top \in DOMAIN interest', NEW m \in Months, NEW first \in DOMAIN interest',
             first <= m, m <= top
      PROVE  m \in DOMAIN interest'
  <2>0. m \in Nat /\ top \in Nat /\ top <= month /\ first \in Nat /\ month \in Nat
    BY <1>0, <1>5
  <2>1. /\ m \in Nat /\ top \in Nat /\ top <= month /\ m <= month /\ first \in Nat
    BY <1>7, <2>0
  <2>2. CASE m >= from
    BY <1>3, <1>4, <1>5, <2>1, <2>2
  <2>3. CASE m < from
    <3>1. first \in DOMAIN interest
      BY <1>3, <1>4, <1>5, <1>7, <2>1, <2>3
    <3>2. from - 1 \in DOMAIN interest /\ m <= from - 1
      BY <1>3, <2>1, <2>3, <3>1
    <3>3. m \in DOMAIN interest
      BY <1>7, <3>1, <3>2 DEF RepaymentInv, InterestOnOpeningBalance
    <3> QED BY <1>4, <3>3
  <2> QED BY <1>3, <2>1, <2>2, <2>3
<1> QED BY <1>6, <1>7 DEF InterestOnOpeningBalance

\* What a repayment decides, in numbers.
LEMMA RepaymentNumbers ==
    ASSUME Shape, TotalsInStep, NEW g \in Gateways, NEW tenths \in Amounts, NEW month \in Months,
           RecordRepayment(g, tenths, month)
    PROVE  LET s == SplitOf(tenths, month)
               a == numericToScale(tenths)
           IN  /\ status = "active" /\ penalties' = penalties /\ a \in Nat
               /\ Assessed(interest)' = Assessed(interest) + Unposted(month)
               /\ s.penalty \in Nat /\ s.interest \in Nat /\ s.principal \in Nat /\ s.credit \in Nat
               /\ s.penalty <= PenaltyDue /\ s.interest <= DueInterest(month)
               /\ s.principal <= PrincipalDue
               /\ s.penalty + s.interest + s.principal + s.credit = a
               /\ s.principal > 0 => s.interest = DueInterest(month) /\ s.penalty = PenaltyDue
               /\ s.credit > 0 => /\ s.principal = PrincipalDue /\ s.interest = DueInterest(month)
                                  /\ s.penalty = PenaltyDue
               /\ s.credit = AtLeastZero(a - (PenaltyDue + DueInterest(month) + PrincipalDue))
               /\ a >= PenaltyDue + DueInterest(month) + PrincipalDue <=>
                      /\ s.principal = PrincipalDue /\ s.interest = DueInterest(month)
                      /\ s.penalty = PenaltyDue
               /\ status' = IF /\ s.principal = PrincipalDue /\ s.interest = DueInterest(month)
                               /\ s.penalty = PenaltyDue
                            THEN "closed" ELSE "active"
<1>1. PICK s : s = SplitOf(tenths, month)
  OBVIOUS
<1>2. /\ status = "active" /\ penalties' = penalties /\ tenths > 0 /\ PeriodAccepted(month)
      /\ interest' = AssessLoanInterestPeriods(month)
      /\ status' = IF loanClosed(s, PenaltyDue, DueInterest(month)) THEN "closed" ELSE status
  BY <1>1 DEF RecordRepayment, SplitOf, DueInterest
<1>3. numericToScale(tenths) \in Nat
  BY <1>2, Constants, Conversion
<1>4. /\ PenaltyDue \in Nat /\ PrincipalDue \in Nat /\ DueInterest(month) \in Nat
      /\ PrincipalDue = Principal - PrincipalPaid /\ PrincipalPaid \in Nat
  BY <1>2, DuesAreWhole
<1>5. Assessed(interest)' = Assessed(interest) + Unposted(month)
  <2>1. Assessed(interest)' = Assessed(AssessLoanInterestPeriods(month))
    BY <1>2 DEF Assessed
  <2> QED BY <1>2, <2>1, AssessmentGrows
<1>6. /\ s.penalty \in Nat /\ s.interest \in Nat /\ s.principal \in Nat /\ s.credit \in Nat
      /\ s.penalty <= PenaltyDue /\ s.interest <= DueInterest(month)
      /\ s.principal <= PrincipalDue
      /\ s.penalty + s.interest + s.principal + s.credit = numericToScale(tenths)
      /\ s.principal > 0 => s.interest = DueInterest(month) /\ s.penalty = PenaltyDue
      /\ s.credit > 0 => /\ s.principal = PrincipalDue /\ s.interest = DueInterest(month)
                         /\ s.penalty = PenaltyDue
      /\ s.credit = AtLeastZero(numericToScale(tenths) - (PenaltyDue + DueInterest(month) + PrincipalDue))
      /\ numericToScale(tenths) >= PenaltyDue + DueInterest(month) + PrincipalDue <=>
             /\ s.principal = PrincipalDue /\ s.interest = DueInterest(month)
             /\ s.penalty = PenaltyDue
  <2>1. FairSplit(s, numericToScale(tenths), PenaltyDue, DueInterest(month), PrincipalDue)
    BY <1>1, <1>3, <1>4, Allocation, Zenon DEF SplitOf
  <2> QED BY <2>1 DEF FairSplit
<1>7. loanClosed(s, PenaltyDue, DueInterest(month)) <=>
          /\ s.principal = PrincipalDue /\ s.interest = DueInterest(month) /\ s.penalty = PenaltyDue
  <2>1. loanClosed(s, PenaltyDue, DueInterest(month)) <=>
            /\ PrincipalPaid + s.principal >= Principal
            /\ s.interest >= DueInterest(month) /\ s.penalty >= PenaltyDue
    BY DEF loanClosed
  <2> QED BY <1>4, <1>6, <2>1, Constants
<1> QED BY <1>1, <1>2, <1>3, <1>5, <1>6, <1>7

LEMMA RepaymentKeepsTotals ==
    ASSUME RepaymentInv, NEW g \in Gateways, NEW tenths \in Amounts, NEW month \in Months,
           RecordRepayment(g, tenths, month)
    PROVE  TotalsInStep'
<1>0. Shape /\ TotalsInStep /\ PeriodAccepted(month)
  BY DEF RepaymentInv, RecordRepayment
<1>1. PICK s : s = SplitOf(tenths, month)
  OBVIOUS
<1>2. PICK due : due = DueInterest(month)
  OBVIOUS
<1>3. /\ status = "active" /\ penalties' = penalties
      /\ Assessed(interest)' = Assessed(interest) + Unposted(month)
      /\ s.penalty \in Nat /\ s.interest \in Nat /\ s.principal \in Nat /\ s.credit \in Nat
      /\ s.penalty <= PenaltyDue /\ s.interest <= due /\ s.principal <= PrincipalDue
      /\ s.credit > 0 => /\ s.principal = PrincipalDue /\ s.interest = due /\ s.penalty = PenaltyDue
      /\ status' = IF /\ s.principal = PrincipalDue /\ s.interest = due /\ s.penalty = PenaltyDue
                   THEN "closed" ELSE "active"
  BY <1>0, <1>1, <1>2, RepaymentNumbers
<1>4. /\ PenaltyDue = penalties - PenaltyPaid /\ PrincipalDue = Principal - PrincipalPaid
      /\ due = Assessed(interest) + Unposted(month) - InterestPaid
      /\ Assessed(interest) \in Nat /\ Unposted(month) \in Nat
      /\ PrincipalPaid \in Nat /\ InterestPaid \in Nat /\ PenaltyPaid \in Nat
  BY <1>0, <1>2, DuesAreWhole
<1>5. /\ PrincipalPaid' = PrincipalPaid + s.principal /\ InterestPaid' = InterestPaid + s.interest
      /\ PenaltyPaid' = PenaltyPaid + s.penalty
      /\ DOMAIN payments' = DOMAIN payments \cup {g}
      /\ \A x \in DOMAIN payments : payments'[x] = payments[x]
      /\ payments'[g].credit = s.credit
  BY <1>0, <1>1, RepaymentEffect
<1>6. penalties \in Nat /\ Principal \in Nat
  BY <1>0, Tables, Constants
<1>7. /\ PrincipalPaid' <= Principal /\ InterestPaid' <= Assessed(interest)'
      /\ PenaltyPaid' <= penalties'
  BY <1>3, <1>4, <1>5, <1>6
<1>8. \A x \in DOMAIN payments' : payments'[x].credit > 0 => status' = "closed"
  <2>1. \A x \in DOMAIN payments : ~(payments[x].credit > 0)
    BY <1>0, <1>3 DEF TotalsInStep
  <2> QED BY <1>3, <1>5, <2>1
<1>9. ClosedIffSettled'
  <2>1. /\ s.principal = PrincipalDue <=> PrincipalPaid' = Principal
        /\ s.interest = due <=> InterestPaid' = Assessed(interest)'
        /\ s.penalty = PenaltyDue <=> PenaltyPaid' = penalties'
    BY <1>3, <1>4, <1>5, <1>6
  <2>2. status' = "closed" <=> /\ s.principal = PrincipalDue /\ s.interest = due
                               /\ s.penalty = PenaltyDue
    BY <1>3
  <2> QED BY <2>1, <2>2 DEF ClosedIffSettled
<1> QED BY <1>7, <1>8, <1>9 DEF TotalsInStep

LEMMA RepaymentKeepsRest ==
    ASSUME RepaymentInv, NEW g \in Gateways, NEW tenths \in Amounts, NEW month \in Months,
           RecordRepayment(g, tenths, month)
    PROVE  Shape' /\ ScheduleFollowsRepayments'
<1>0. Shape /\ TotalsInStep /\ ScheduleFollowsRepayments /\ PeriodAccepted(month)
  BY DEF RepaymentInv, RecordRepayment
<1>1. PICK s : s = SplitOf(tenths, month)
  OBVIOUS
<1>2. /\ interest' = AssessLoanInterestPeriods(month) /\ UNCHANGED <<penalties, now>>
      /\ updateScheduleStatuses(totalApplied(s))
      /\ reply' = [result |-> "recorded", gateway |-> g, amount |-> tenths]
  BY <1>1 DEF RecordRepayment, SplitOf, DueInterest, Respond
<1>3. PrincipalPaid \in Nat /\ s.principal \in Nat
  <2>1. PrincipalPaid \in Nat
    BY <1>0, Tables, PaidIsWhole
  <2>2. s.principal \in Nat
    BY <1>0, <1>1, RepaymentNumbers
  <2> QED BY <2>1, <2>2
<1>4. PICK applied \in Nat : applied = totalApplied(s) /\ PrincipalPaid <= applied
                             /\ applied = PrincipalPaid + s.principal
  BY <1>3 DEF totalApplied
<1>5. /\ schedule' \in [1 .. Installments -> {"upcoming", "partial", "paid"}]
      /\ \A i \in 1 .. Installments :
            /\ schedule'[i] = "paid" <=> DueUpTo(i) <= applied
            /\ schedule'[i] = "partial" <=> DueUpTo(i - 1) < applied /\ applied < DueUpTo(i)
  BY <1>0, <1>2, <1>4, WalkIsTrue
<1>6. /\ DOMAIN payments' = DOMAIN payments \cup {g} /\ IsFiniteSet(DOMAIN payments')
      /\ payments' \in [DOMAIN payments' -> Payment] /\ PrincipalPaid' = PrincipalPaid + s.principal
  BY <1>0, <1>1, RepaymentEffect
<1>7. ScheduleFollowsRepayments'
  <2>1. \A i : DueUpTo(i)' = DueUpTo(i)
    BY DEF DueUpTo, DueOf
  <2> QED BY <1>4, <1>5, <1>6, <2>1, ScheduleAddsUp DEF ScheduleFollowsRepayments
<1>8. DOMAIN interest' \subseteq Months /\ interest' \in [DOMAIN interest' -> Nat]
  <2>1. /\ DOMAIN interest' = DOMAIN interest \cup (CatchUpFrom(month) .. month)
        /\ interest' \in [DOMAIN interest' -> Nat]
    BY <1>0, <1>2, AssessmentGrows
  <2>2. DOMAIN interest \subseteq Months /\ CatchUpFrom(month) .. month \subseteq Months
    BY <1>0, Tables, CatchUpMonths
  <2> QED BY <2>1, <2>2
<1>9. DOMAIN payments' \in SUBSET Gateways
  BY <1>0, <1>6, Tables
<1>10. status' \in {"active", "closed"}
  BY <1>0, <1>1, RepaymentNumbers
<1>11. reply' \in Reply
  BY <1>2 DEF Reply
<1>12. TypeOK'
  BY <1>0, <1>2, <1>5, <1>6, <1>8, <1>9, <1>10, <1>11 DEF TypeOK, Shape
<1> QED BY <1>6, <1>7, <1>12 DEF Shape

-----------------------------------------------------------------------------
(* The invariant holds.                                                    *)

\* A step that leaves the payments and the books alone.
LEMMA BooksStay ==
    ASSUME UNCHANGED <<interest, payments, schedule>>
    PROVE  /\ PrincipalPaid' = PrincipalPaid /\ InterestPaid' = InterestPaid
           /\ PenaltyPaid' = PenaltyPaid /\ Assessed(interest)' = Assessed(interest)
           /\ InterestOnOpeningBalance => InterestOnOpeningBalance'
           /\ ScheduleFollowsRepayments => ScheduleFollowsRepayments'
<1>1. Principals' = Principals
  BY DEF Principals
<1>2. /\ PrincipalPaid' = PrincipalPaid /\ InterestPaid' = InterestPaid
      /\ PenaltyPaid' = PenaltyPaid /\ Assessed(interest)' = Assessed(interest)
  BY <1>1 DEF PrincipalPaid, InterestPaid, PenaltyPaid, Assessed
<1>3. \A m : OpeningInterest(m)' = OpeningInterest(m)
  BY <1>1 DEF OpeningInterest, PrincipalPaidBefore
<1>4. \A i : DueUpTo(i)' = DueUpTo(i)
  BY DEF DueUpTo, DueOf
<1>5. InterestOnOpeningBalance => InterestOnOpeningBalance'
  BY <1>3 DEF InterestOnOpeningBalance
<1>6. ScheduleFollowsRepayments => ScheduleFollowsRepayments'
  BY <1>2, <1>4 DEF ScheduleFollowsRepayments
<1> QED BY <1>2, <1>5, <1>6

LEMMA NextRepaymentInv == RepaymentInv /\ [Next]_vars => RepaymentInv'
<1> SUFFICES ASSUME RepaymentInv, [Next]_vars PROVE RepaymentInv'
  OBVIOUS
<1>1. ASSUME NEW g \in Gateways, NEW tenths \in Amounts, NEW month \in Months,
             RecordRepayment(g, tenths, month)
      PROVE  RepaymentInv'
  BY <1>1, RepaymentKeepsInterest, RepaymentKeepsTotals, RepaymentKeepsRest DEF RepaymentInv
<1>2. ASSUME UNCHANGED <<status, interest, payments, schedule, penalties>>,
             now' \in Months, reply' \in Reply
      PROVE  RepaymentInv'
  <2>1. Shape'
    BY <1>2 DEF RepaymentInv, Shape, TypeOK
  <2>2. TotalsInStep'
    BY <1>2, BooksStay DEF RepaymentInv, TotalsInStep, ClosedIffSettled
  <2> QED BY <1>2, <2>1, <2>2, BooksStay DEF RepaymentInv
<1>3. Shape /\ now \in Months /\ reply \in Reply /\ NoReply \in Reply
  BY DEF RepaymentInv, Shape, TypeOK, Reply
<1>4. ASSUME NEW g \in Gateways, NEW tenths \in Amounts, RecordAgain(g, tenths) PROVE RepaymentInv'
  <2>1. reply' \in Reply
    BY <1>4 DEF RecordAgain, Respond, Reply
  <2> QED BY <1>2, <1>3, <1>4, <2>1 DEF RecordAgain
<1>5. CASE NextMonth
  <2>1. now' \in Months
    BY <1>3, <1>5, Constants DEF NextMonth, Months
  <2> QED BY <1>2, <1>3, <1>5, <2>1 DEF NextMonth
<1>6. CASE ChargePenalty
  <2>1. /\ status = "active" /\ penalties < MaxPenalty /\ penalties' = penalties + 1
        /\ reply' = NoReply /\ UNCHANGED <<status, interest, payments, schedule, now>>
    BY <1>6 DEF ChargePenalty
  <2>2. penalties' \in 0 .. MaxPenalty /\ penalties \in Nat
    BY <1>3, <2>1, Constants, Tables
  <2>3. Shape'
    BY <1>3, <2>1, <2>2 DEF Shape, TypeOK
  <2>4. TotalsInStep'
    <3>1. PenaltyPaid \in Nat /\ PenaltyPaid <= penalties
      BY <1>3, Tables, PaidIsWhole DEF RepaymentInv, TotalsInStep
    <3>2. PenaltyPaid' # penalties' /\ PenaltyPaid' <= penalties'
      BY <2>1, <2>2, <3>1, BooksStay
    <3>3. ClosedIffSettled'
      BY <2>1, <3>2 DEF ClosedIffSettled
    <3> QED BY <2>1, <3>2, <3>3, BooksStay DEF RepaymentInv, TotalsInStep
  <2> QED BY <2>1, <2>3, <2>4, BooksStay DEF RepaymentInv
<1>7. CASE UNCHANGED vars
  BY <1>2, <1>3, <1>7 DEF vars
<1> QED BY <1>1, <1>4, <1>5, <1>6, <1>7 DEF Next

LEMMA InitRepaymentInv == Init => RepaymentInv
<1> SUFFICES ASSUME Init PROVE RepaymentInv
  OBVIOUS
<1>1. /\ status = "active" /\ payments = <<>> /\ penalties = 0 /\ now = 0 /\ reply = NoReply
      /\ schedule = [i \in 1 .. Installments |-> "upcoming"]
      /\ interest \in {[month \in {0} |-> MonthlyInterest(Principal)], <<>>}
  BY DEF Init
<1>2. DOMAIN payments = {} /\ IsFiniteSet(DOMAIN payments) /\ payments \in [{} -> Payment]
  BY <1>1, FS_EmptySet
<1>3. DOMAIN interest \in SUBSET {0} /\ interest \in [DOMAIN interest -> Nat]
      /\ \A m \in DOMAIN interest : interest[m] = MonthlyInterest(Principal)
  <2>1. CASE interest = <<>>
    BY <2>1
  <2>2. CASE interest = [month \in {0} |-> MonthlyInterest(Principal)]
    <3>1. MonthlyInterest(Principal) \in Nat
      BY Constants, InterestIsWhole
    <3> QED BY <2>2, <3>1
  <2> QED BY <1>1, <2>1, <2>2
<1>4. 0 \in Months /\ penalties \in 0 .. MaxPenalty
  BY <1>1, Constants DEF Months
<1>5. Shape
  <2>1. \E A \in SUBSET Months : interest \in [A -> Nat]
    BY <1>3, <1>4
  <2>2. \E G \in SUBSET Gateways : payments \in [G -> Payment]
    BY <1>2
  <2> QED BY <1>1, <1>2, <1>4, <2>1, <2>2 DEF Shape, TypeOK, Reply
<1>6. PrincipalPaid = 0 /\ InterestPaid = 0 /\ PenaltyPaid = 0
      /\ \A month : PrincipalPaidBefore(month) = 0
  <2>1. /\ DOMAIN Principals = {} /\ DOMAIN [g \in DOMAIN payments |-> payments[g].interest] = {}
        /\ DOMAIN [g \in DOMAIN payments |-> payments[g].penalty] = {}
    BY <1>2 DEF Principals
  <2>2. \A month : {g \in DOMAIN payments : payments[g].period < month} = {}
    BY <1>2
  <2>3. PrincipalPaid = 0 /\ InterestPaid = 0 /\ PenaltyPaid = 0
    BY <2>1, SumEmpty DEF PrincipalPaid, InterestPaid, PenaltyPaid, SumFunction
  <2>4. \A month : PrincipalPaidBefore(month) = 0
    BY <2>2, SumEmpty DEF PrincipalPaidBefore
  <2> QED BY <2>3, <2>4
<1>7. InterestOnOpeningBalance
  <2>1. \A month : OpeningInterest(month) = MonthlyInterest(Principal)
    <3>1. Principal - 0 = Principal /\ AtLeastZero(Principal) = Principal
      BY Constants, Clamped
    <3> QED BY <1>6, <3>1 DEF OpeningInterest
  <2>2. ASSUME NEW month \in DOMAIN interest, NEW m \in Months, NEW first \in DOMAIN interest,
               first <= m, m <= month
        PROVE  m \in DOMAIN interest
    <3>1. month = 0 /\ first = 0 /\ m \in Nat
      BY <1>3, Constants DEF Months
    <3>2. m = 0
      BY <2>2, <3>1
    <3> QED BY <3>1, <3>2
  <2> QED BY <1>3, <2>1, <2>2 DEF InterestOnOpeningBalance
<1>8. TotalsInStep
  <2>1. Assessed(interest) \in Nat
    BY <1>5, AssessedIsWhole
  <2>2. status # "closed" /\ PrincipalPaid # Principal
    BY <1>1, <1>6, Constants
  <2> QED BY <1>1, <1>2, <1>6, <2>1, <2>2, Constants DEF TotalsInStep, ClosedIffSettled
<1>9. ScheduleFollowsRepayments
  <2>1. ASSUME NEW i \in 1 .. Installments
        PROVE  DueUpTo(i) > 0 /\ DueUpTo(i) \in Nat /\ DueUpTo(i - 1) \in Nat
    <3>1. i \in Nat /\ i - 1 \in Nat /\ i > 0
      BY Constants
    <3>2. /\ DueUpTo(i) \in Nat /\ DueUpTo(i - 1) \in Nat /\ DueUpTo(i) = DueUpTo(i - 1) + DueOf(i)
          /\ DueOf(i) \in Nat /\ DueOf(i) > 0
      BY <3>1, DueStep, DueIsPositive
    <3> QED BY <3>2
  <2>2. ASSUME NEW i \in 1 .. Installments
        PROVE  /\ schedule[i] = "paid" <=> DueUpTo(i) <= PrincipalPaid
               /\ schedule[i] = "partial" <=> DueUpTo(i - 1) < PrincipalPaid /\ PrincipalPaid < DueUpTo(i)
    <3>1. schedule[i] = "upcoming"
      BY <1>1
    <3> QED BY <1>6, <2>1, <3>1
  <2> QED BY <2>2, ScheduleAddsUp DEF ScheduleFollowsRepayments
<1> QED BY <1>5, <1>7, <1>8, <1>9 DEF RepaymentInv

LEMMA RepaymentInvHolds == Spec => []RepaymentInv
<1> QED BY InitRepaymentInv, NextRepaymentInv, PTL DEF Spec

-----------------------------------------------------------------------------
(* Results.                                                                *)

\* Every table and every reply has its type: no amount on the books of a loan is
\* ever negative.
THEOREM RepaymentsTyped == Spec => []TypeOK
<1>1. RepaymentInv => TypeOK
  BY DEF RepaymentInv, Shape
<1> QED BY <1>1, RepaymentInvHolds, PTL

\* Interest is charged for every month from the first assessed to the last, each
\* on the balance it opened with, whatever AssessLoanInterestPeriods catches up
\* with and whenever payments arrive.
THEOREM InterestIsOnOpeningBalance == Spec => []InterestOnOpeningBalance
<1>1. RepaymentInv => InterestOnOpeningBalance
  BY DEF RepaymentInv
<1> QED BY <1>1, RepaymentInvHolds, PTL

\* The statuses updateScheduleStatuses leaves are those of the principal repaid so
\* far, and the installments add up to the principal.
THEOREM ScheduleIsTrue == Spec => []ScheduleFollowsRepayments
<1>1. RepaymentInv => ScheduleFollowsRepayments
  BY DEF RepaymentInv
<1> QED BY <1>1, RepaymentInvHolds, PTL

\* The loan is closed exactly when principal, interest and penalties are settled.
THEOREM ClosesWhenSettled == Spec => []ClosedIffSettled
<1>1. RepaymentInv => ClosedIffSettled
  BY DEF RepaymentInv, TotalsInStep
<1> QED BY <1>1, RepaymentInvHolds, PTL

\* What a row's parts add up to is the amount sent, cut off; what its column shows
\* is the amount sent, rounded.
RowsFollowSent ==
    \A g \in DOMAIN payments :
        /\ payments[g].penalty + payments[g].interest + payments[g].principal + payments[g].credit
               = numericToScale(payments[g].sent)
        /\ payments[g].amount = Stored(payments[g].sent) /\ payments[g].sent > 0

LEMMA NextRowsFollowSent == RepaymentInv /\ RowsFollowSent /\ [Next]_vars => RowsFollowSent'
<1> SUFFICES ASSUME RepaymentInv, RowsFollowSent, [Next]_vars PROVE RowsFollowSent'
  OBVIOUS
<1>1. ASSUME NEW g \in Gateways, NEW tenths \in Amounts, NEW month \in Months,
             RecordRepayment(g, tenths, month)
      PROVE  RowsFollowSent'
  <2>1. Shape /\ TotalsInStep /\ tenths > 0
    BY <1>1 DEF RepaymentInv, RecordRepayment
  <2>2. PICK s : s = SplitOf(tenths, month)
    OBVIOUS
  <2>3. /\ DOMAIN payments' = DOMAIN payments \cup {g}
        /\ \A x \in DOMAIN payments : payments'[x] = payments[x]
        /\ payments'[g].amount = Stored(tenths) /\ payments'[g].sent = tenths
        /\ payments'[g].penalty = s.penalty /\ payments'[g].interest = s.interest
        /\ payments'[g].principal = s.principal /\ payments'[g].credit = s.credit
    BY <1>1, <2>1, <2>2, RepaymentEffect
  <2>4. s.penalty + s.interest + s.principal + s.credit = numericToScale(tenths)
    BY <1>1, <2>1, <2>2, RepaymentNumbers
  <2>5. ASSUME NEW x \in DOMAIN payments'
        PROVE  /\ payments'[x].penalty + payments'[x].interest + payments'[x].principal
                      + payments'[x].credit = numericToScale(payments'[x].sent)
               /\ payments'[x].amount = Stored(payments'[x].sent) /\ payments'[x].sent > 0
    <3>1. CASE x = g
      BY <2>1, <2>3, <2>4, <3>1
    <3>2. CASE x \in DOMAIN payments
      BY <2>3, <3>2 DEF RowsFollowSent
    <3> QED BY <2>3, <3>1, <3>2
  <2> QED BY <2>5 DEF RowsFollowSent, numericToScale, Stored
<1>2. CASE UNCHANGED payments
  BY <1>2 DEF RowsFollowSent, numericToScale, Stored
<1> QED BY <1>1, <1>2 DEF Next, RecordAgain, ChargePenalty, NextMonth, vars

\* What is recorded is the amount sent: its parts add up to it cut off at a
\* quantum, its column shows it rounded to one, for any amounts.
THEOREM RowsStandForWhatWasSent == Spec => []RowsFollowSent
<1>1. Init => RowsFollowSent
  BY DEF Init, RowsFollowSent
<1> QED BY <1>1, NextRowsFollowSent, RepaymentInvHolds, PTL DEF Spec

\* When clients send whole quanta, every quantum received is penalty, interest,
\* principal or credit; nothing is repaid twice, credit arises only when nothing
\* else is owed, and the loan closes exactly then.
THEOREM MoneyIsAccountedFor == ASSUME WholeQuanta PROVE Spec => []MoneyAccountedFor
<1>1. RepaymentInv /\ RowsFollowSent => MoneyAccountedFor
  <2> SUFFICES ASSUME RepaymentInv, RowsFollowSent PROVE MoneyAccountedFor
    OBVIOUS
  <2>1. ASSUME NEW g \in DOMAIN payments
        PROVE  payments[g].penalty + payments[g].interest + payments[g].principal
                   + payments[g].credit = payments[g].amount
    <3>1. Shape
      BY DEF RepaymentInv
    <3>2. payments[g].sent \in Amounts
      BY <3>1, Tables DEF Payment
    <3>3. payments[g].sent \in Int /\ payments[g].sent % 10 = 0 /\ payments[g].sent > 0
      BY <3>2, Constants DEF WholeQuanta, RowsFollowSent
    <3>4. Stored(payments[g].sent) = numericToScale(payments[g].sent)
      BY <3>3, Conversion
    <3> QED BY <3>4 DEF RowsFollowSent
  <2> QED BY <2>1 DEF RepaymentInv, TotalsInStep, MoneyAccountedFor
<1> QED BY <1>1, RepaymentInvHolds, RowsStandForWhatWasSent, PTL

\* The rows a step adds, against the quotes of the state before it.
QuotedStep ==
    \A g \in DOMAIN payments' \ DOMAIN payments :
          LET p == payments'[g]
              quote == QuoteContributionLoans(p.period)
          IN  /\ quote.payable
              /\ p.penalty <= quote.penalty_due
              /\ p.interest <= quote.interest_due
              /\ p.principal <= quote.principal_due
              /\ p.principal > 0 => p.interest = quote.interest_due /\ p.penalty = quote.penalty_due

SettlingStep ==
    \A g \in DOMAIN payments' \ DOMAIN payments :
          LET p == payments'[g]
          IN  p.period = now =>
                  /\ status' = "closed" <=> p.amount >= total_outstanding
                  /\ p.credit = AtLeastZero(p.amount - total_outstanding)

\* The quote for a month that is accepted is what the payment will find due.
LEMMA QuoteIsWhatIsDue ==
    ASSUME Shape, TotalsInStep, NEW month \in Months, PeriodAccepted(month)
    PROVE  /\ QuoteContributionLoans(month).payable
           /\ QuoteContributionLoans(month).interest_due = DueInterest(month)
           /\ QuoteContributionLoans(month).principal_due = PrincipalDue
           /\ QuoteContributionLoans(month).penalty_due = PenaltyDue
<1>1. LatestAssessment(month) <= month
  BY CatchUpMonths
<1>2. \A g \in DOMAIN payments : payments[g].period <= month
  BY DEF PeriodAccepted
<1>3. /\ DueInterest(month) \in Nat
      /\ DueInterest(month) = Assessed(interest) + Unposted(month) - InterestPaid
  BY DuesAreWhole
<1>4. DueInterest(month) = AtLeastZero(Assessed(interest) + Unposted(month) - InterestPaid)
  <2>1. AtLeastZero(DueInterest(month)) = DueInterest(month)
    BY <1>3, Clamped
  <2> QED BY <1>3, <2>1, Zenon
<1> QED BY <1>1, <1>2, <1>4 DEF QuoteContributionLoans

LEMMA RepaymentIsQuoted ==
    ASSUME RepaymentInv, NEW g \in Gateways, NEW tenths \in Amounts, NEW month \in Months,
           RecordRepayment(g, tenths, month)
    PROVE  QuotedStep
<1>1. Shape /\ TotalsInStep /\ PeriodAccepted(month)
  BY DEF RepaymentInv, RecordRepayment
<1>2. PICK s : s = SplitOf(tenths, month)
  OBVIOUS
<1>3. /\ DOMAIN payments' \ DOMAIN payments = {g} /\ payments'[g].period = month
      /\ payments'[g].penalty = s.penalty /\ payments'[g].interest = s.interest
      /\ payments'[g].principal = s.principal
  BY <1>1, <1>2, RepaymentEffect
<1>4. /\ s.penalty <= PenaltyDue /\ s.interest <= DueInterest(month) /\ s.principal <= PrincipalDue
      /\ s.principal > 0 => s.interest = DueInterest(month) /\ s.penalty = PenaltyDue
  BY <1>1, <1>2, RepaymentNumbers
<1>5. PICK quote : quote = QuoteContributionLoans(month)
  OBVIOUS
<1>6. /\ quote.payable /\ quote.interest_due = DueInterest(month)
      /\ quote.principal_due = PrincipalDue /\ quote.penalty_due = PenaltyDue
  BY <1>1, <1>5, QuoteIsWhatIsDue
<1>7. /\ quote.payable /\ payments'[g].penalty <= quote.penalty_due
      /\ payments'[g].interest <= quote.interest_due /\ payments'[g].principal <= quote.principal_due
      /\ payments'[g].principal > 0 =>
            payments'[g].interest = quote.interest_due /\ payments'[g].penalty = quote.penalty_due
  BY <1>3, <1>4, <1>6
<1>8. quote = QuoteContributionLoans(payments'[g].period)
  BY <1>3, <1>5, Zenon
<1> QED BY <1>3, <1>7, <1>8, Zenon DEF QuotedStep

\* For the current month, what is due is the total shown.
LEMMA RepaymentIsExact ==
    ASSUME WholeQuanta, RepaymentInv, NEW g \in Gateways, NEW tenths \in Amounts, NEW month \in Months,
           RecordRepayment(g, tenths, month)
    PROVE  SettlingStep
<1>1. Shape /\ TotalsInStep /\ PeriodAccepted(month) /\ tenths > 0 /\ tenths \in Int
  BY Constants DEF RepaymentInv, RecordRepayment
<1>2. PICK s : s = SplitOf(tenths, month)
  OBVIOUS
<1>3. /\ DOMAIN payments' \ DOMAIN payments = {g} /\ payments'[g].period = month
      /\ payments'[g].amount = Stored(tenths) /\ payments'[g].credit = s.credit
  BY <1>1, <1>2, RepaymentEffect
<1>4. Stored(tenths) = numericToScale(tenths)
  BY <1>1, Conversion DEF WholeQuanta
<1>5. PICK a : a = numericToScale(tenths)
  OBVIOUS
<1>6. PICK due : due = PenaltyDue + DueInterest(month) + PrincipalDue
  OBVIOUS
<1>7. s.credit = AtLeastZero(a - due) /\ (status' = "closed" <=> a >= due)
  <2>1. /\ s.credit = AtLeastZero(a - due)
        /\ a >= due <=> /\ s.principal = PrincipalDue /\ s.interest = DueInterest(month)
                        /\ s.penalty = PenaltyDue
        /\ status' = IF /\ s.principal = PrincipalDue /\ s.interest = DueInterest(month)
                        /\ s.penalty = PenaltyDue
                     THEN "closed" ELSE "active"
    BY <1>1, <1>2, <1>5, <1>6, RepaymentNumbers
  <2> QED BY <2>1
<1>8. ASSUME month = now PROVE due = total_outstanding
  <2>1. /\ PenaltyDue \in Nat /\ PrincipalDue \in Nat /\ InterestPaid \in Nat
        /\ DueInterest(month) = Assessed(interest) + Unposted(month) - InterestPaid
        /\ Assessed(interest) \in Nat /\ Unposted(month) \in Nat
    BY <1>1, DuesAreWhole
  <2>2. Assessed(interest) - InterestPaid \in Int /\ Assessed(interest) - InterestPaid >= 0
    BY <1>1, <2>1 DEF TotalsInStep
  <2>3. AtLeastZero(Assessed(interest) - InterestPaid) = Assessed(interest) - InterestPaid
    BY <2>2, Clamped
  <2>4. total_outstanding = PrincipalDue + (Assessed(interest) - InterestPaid) + Unposted(month) + PenaltyDue
    BY <1>8, <2>3, Zenon DEF total_outstanding
  <2> QED BY <1>6, <2>1, <2>4
<1>9. payments'[g].amount = a /\ payments'[g].credit = s.credit
  BY <1>3, <1>4, <1>5
<1>10. payments'[g].period = now =>
           /\ status' = "closed" <=> payments'[g].amount >= total_outstanding
           /\ payments'[g].credit = AtLeastZero(payments'[g].amount - total_outstanding)
  BY <1>3, <1>7, <1>8, <1>9
<1> QED BY <1>3, <1>10, Zenon DEF SettlingStep

\* Every step that is no repayment adds no row.
LEMMA OnlyRepaymentsAddRows ==
    ASSUME [Next]_vars
    PROVE  \/ DOMAIN payments' \ DOMAIN payments = {}
           \/ \E g \in Gateways, tenths \in Amounts, month \in Months : RecordRepayment(g, tenths, month)
<1>1. ASSUME UNCHANGED payments PROVE DOMAIN payments' \ DOMAIN payments = {}
  BY <1>1
<1> QED BY <1>1 DEF Next, RecordAgain, ChargePenalty, NextMonth, vars

\* ListContributionLoanPositions quotes what RecordRepaymentForPeriodInTx then
\* does: a payment that is recorded was payable for its month, and is split by the
\* amounts quoted just before it, for any amounts clients send.
THEOREM PaymentsFollowTheQuote == Spec => RecordedAsQuoted
<1>1. RepaymentInv /\ [Next]_vars => QuotedStep
  <2> SUFFICES ASSUME RepaymentInv, [Next]_vars PROVE QuotedStep
    OBVIOUS
  <2>1. CASE DOMAIN payments' \ DOMAIN payments = {}
    BY <2>1, Zenon DEF QuotedStep
  <2> QED BY <2>1, OnlyRepaymentsAddRows, RepaymentIsQuoted
<1> QED BY <1>1, RepaymentInvHolds, PTL DEF Spec, RecordedAsQuoted, QuotedStep

\* When clients send whole quanta, both quotes are exact: the one for a month, and
\* the settlement figure of GetLoanFinancialSummary, which closes the loan to the
\* quantum.
THEOREM QuotesStand == ASSUME WholeQuanta PROVE Spec => QuotesAreExact
<1>1. RepaymentInv /\ [Next]_vars => SettlingStep
  <2> SUFFICES ASSUME RepaymentInv, [Next]_vars PROVE SettlingStep
    OBVIOUS
  <2>1. CASE DOMAIN payments' \ DOMAIN payments = {}
    BY <2>1, Zenon DEF SettlingStep
  <2> QED BY <2>1, OnlyRepaymentsAddRows, RepaymentIsExact
<1>2. Spec => SettlementFigureIsExact
  BY <1>1, RepaymentInvHolds, PTL DEF Spec, SettlementFigureIsExact, SettlingStep
<1> QED BY <1>2, PaymentsFollowTheQuote, PTL DEF QuotesAreExact

\* When clients send whole quanta, the comparison of RecordRepaymentForPeriodInTx
\* recognises every retry: a client that repeats its own request is never told that
\* it conflicts.
THEOREM WholeRetriesAreRecognised == ASSUME WholeQuanta PROVE Spec => []RetriesAreRecognised
<1>1. Init => RetriesAreRecognised
  BY DEF Init, NoReply, RetriesAreRecognised
<1>2. RepaymentInv /\ RowsFollowSent /\ RetriesAreRecognised /\ [Next]_vars => RetriesAreRecognised'
  <2> SUFFICES ASSUME RepaymentInv, RowsFollowSent, RetriesAreRecognised, [Next]_vars
               PROVE  RetriesAreRecognised'
    OBVIOUS
  <2>1. ASSUME NEW g \in Gateways, NEW tenths \in Amounts, RecordAgain(g, tenths)
        PROVE  RetriesAreRecognised'
    <3>1. /\ g \in DOMAIN payments /\ payments' = payments
          /\ reply' = [result |-> IF SameAmount(g, tenths) THEN "original" ELSE "conflict",
                       gateway |-> g, amount |-> tenths]
      BY <2>1 DEF RecordAgain, Respond
    <3>2. payments[g].sent \in Int /\ payments[g].sent % 10 = 0
      <4>1. Shape
        BY DEF RepaymentInv
      <4>2. payments[g].sent \in Amounts
        BY <3>1, <4>1, Tables DEF Payment
      <4> QED BY <4>2, Constants DEF WholeQuanta
    <3>3. 10 * Stored(payments[g].sent) = payments[g].sent
      BY <3>2 DEF Stored
    <3>4. payments[g].sent = tenths => SameAmount(g, tenths)
      BY <3>1, <3>3 DEF RowsFollowSent, SameAmount
    <3> QED BY <3>1, <3>4 DEF RetriesAreRecognised
  <2>2. ASSUME NEW g \in Gateways, NEW tenths \in Amounts, NEW month \in Months,
               RecordRepayment(g, tenths, month)
        PROVE  RetriesAreRecognised'
    BY <2>2 DEF RecordRepayment, Respond, RetriesAreRecognised
  <2>3. CASE ChargePenalty \/ NextMonth
    BY <2>3 DEF ChargePenalty, NextMonth, NoReply, RetriesAreRecognised
  <2>4. CASE UNCHANGED vars
    BY <2>4 DEF vars, RetriesAreRecognised
  <2> QED BY <2>1, <2>2, <2>3, <2>4 DEF Next
<1> QED BY <1>1, <1>2, RepaymentInvHolds, RowsStandForWhatWasSent, PTL DEF Spec
=============================================================================
