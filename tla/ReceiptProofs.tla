---------------------------- MODULE ReceiptProofs ----------------------------
(***************************************************************************)
(* What the posting of receipts guarantees for any number of servers,      *)
(* receipts, loans and charges, and wherever locks time out, deadlocks are *)
(* broken or servers stop.                                                 *)
(***************************************************************************)
EXTENDS ReceiptPosting, SumLemmas

-----------------------------------------------------------------------------
(* The inductive invariant.                                                *)

Statuses == {"quoted", "pending", "completed", "failed", "manual_review"}

Receipt == [status : Statuses, fee : 0 .. Fee, request : Requests]

Transaction == [step : Steps, r : Nat, queue : SUBSET Nat, held : SUBSET Lock,
                draft : SUBSET Loans, closing : SUBSET Loans, blocked : BOOLEAN]

\* A posted row, and whose it is.
PostedRows == {<<r, t[1], t[2]>> : r \in Ids, t \in Targets}

Shape ==
    /\ receipts \in Seq(Receipt)
    /\ charged \subseteq Members
    /\ posted \subseteq PostedRows
    /\ loanOpen \in [Loans -> BOOLEAN]
    /\ active \subseteq Accounts
    /\ faults \in 0 .. MaxFaults
    /\ worker \in [Workers -> Transaction]

\* Where a transaction is, and what it has drafted by then.
Placed(w) ==
    /\ worker[w].queue \subseteq Ids
    /\ worker[w].step # "next" => worker[w].r \in Ids
    /\ worker[w].step = "next" => ~worker[w].blocked
    /\ worker[w].step \in {"next", "receipt"} => worker[w].held = {}
    /\ worker[w].step \in {"next", "receipt", "fees", "charges", "loans"} => worker[w].draft = {}
    /\ worker[w].step = "release" => worker[w].draft # {}
    /\ worker[w].step = "repay" => Unposted(w) # {}
    /\ worker[w].step \in {"share", "commit"} => PaidLoans(RequestOf(w)) \subseteq worker[w].draft
    /\ worker[w].step # "next" => worker[w].draft \subseteq PaidLoans(RequestOf(w))
    /\ worker[w].closing \subseteq worker[w].draft
    /\ IsFiniteSet(worker[w].draft)

\* From the second step on the receipt is this transaction's own, and pending.
OwnsReceipt(w) ==
    worker[w].step \notin {"next", "receipt"} =>
        /\ <<"receipt", worker[w].r, 0>> \in worker[w].held
        /\ receipts[worker[w].r].status = "pending"

\* What was found due is due as long as the locks are held: the fees ...
FeesDue(w) ==
    worker[w].step \notin {"next", "receipt", "fees"} =>
        FeeLocks(RequestOf(w)) \subseteq worker[w].held /\ verifyAllocationsMatch(w)

\* ... the charge ...
ChargeDue(w) ==
    worker[w].step \in {"loans", "repay", "release", "share", "commit"} /\ RequestOf(w).charge > 0 =>
        /\ ChargeLocks(RequestOf(w)) \subseteq worker[w].held
        /\ RequestOf(w).charge <= outstanding(RequestOf(w).member, worker[w].r)

\* ... and the loans of the draft, of which it closes the ones it settles.
LoansDue(w) ==
    \A l \in worker[w].draft :
        /\ <<"loan", l, 0>> \in worker[w].held
        /\ loanOpen[l]
        /\ l \in worker[w].closing <=> loanPaid(l) + RequestOf(w).loan[l] >= Debt[l]

WorkerOK(w) == Placed(w) /\ OwnsReceipt(w) /\ FeesDue(w) /\ ChargeDue(w) /\ LoansDue(w)

\* No row is locked twice.
Exclusive == \A w, v \in Workers : w # v => worker[w].held \cap worker[v].held = {}

ReceiptInv ==
    /\ Shape
    /\ \A w \in Workers : WorkerOK(w)
    /\ Exclusive
    /\ AllOrNothing
    /\ DebtsPaidOnce

-----------------------------------------------------------------------------
(* Smallest and largest elements.                                          *)

LEMMA LeastNat == ASSUME NEW S \in SUBSET Nat, S # {} PROVE Min(S) \in S
BY HasLeast DEF Min

LEMMA GreatestNat ==
    ASSUME NEW S, \A x \in S : x \in Nat, IsFiniteSet(S), S # {}
    PROVE  Max(S) \in S
BY HasGreatest DEF Max

LEMMA MaxWithZero == ASSUME NEW a \in Int PROVE Max({0, a}) = IF a > 0 THEN a ELSE 0
<1>1. CASE a > 0
  BY <1>1 DEF Max
<1>2. CASE ~(a > 0)
  BY <1>2 DEF Max
<1> QED BY <1>1, <1>2

-----------------------------------------------------------------------------
(* Types of what is read.                                                  *)

\* A request is well formed.
LEMMA RequestTyped ==
    ASSUME NEW q \in Requests
    PROVE  /\ q.member \in Members /\ q.period \in Nat /\ q.charge \in Nat /\ q.share \in Nat
           /\ q.loan \in [Loans -> Nat] /\ AccountOf[q.member] \in Nat
           /\ q.channel \in {"cash", "daraja_stk"}
<1>1. q \in Request
  BY ReceiptConstants
<1>2. q.member \in Members
  BY <1>1 DEF Request
<1>3. AccountOf[q.member] \in Nat
  BY <1>2, ReceiptConstants
<1> QED BY <1>1, <1>3 DEF Request

LEMMA ReceiptTyped ==
    ASSUME Shape, NEW r \in Ids
    PROVE  /\ receipts[r] \in Receipt /\ receipts[r].request \in Requests
           /\ receipts[r].fee \in 0 .. Fee /\ receipts[r].fee \in Nat
           /\ receipts[r].status \in Statuses
<1>1. receipts[r] \in Receipt
  BY DEF Shape, Ids
<1>2. Fee \in Nat
  BY ReceiptConstants
<1> QED BY <1>1, <1>2 DEF Receipt

LEMMA WorkerTyped ==
    ASSUME Shape, NEW w \in Workers
    PROVE  /\ worker[w] \in Transaction /\ worker[w].step \in Steps /\ worker[w].r \in Nat
           /\ worker[w].queue \in SUBSET Nat /\ worker[w].held \in SUBSET Lock
           /\ worker[w].draft \in SUBSET Loans /\ worker[w].closing \in SUBSET Loans
           /\ worker[w].blocked \in BOOLEAN
BY DEF Shape, Transaction

LEMMA IdsTyped == ASSUME Shape PROVE IsFiniteSet(Ids) /\ Ids \in SUBSET Nat /\ Len(receipts) \in Nat
<1>1. Len(receipts) \in Nat
  BY DEF Shape
<1> QED BY <1>1, FS_Interval DEF Ids

\* The amounts of a receipt, by target.
LEMMA AmountByTarget ==
    ASSUME NEW r
    PROVE  /\ AmountOf(r, "fee", 0) = receipts[r].fee
           /\ AmountOf(r, "charge", 0) = receipts[r].request.charge
           /\ AmountOf(r, "share", 0) = receipts[r].request.share
           /\ \A l : AmountOf(r, "loan", l) = receipts[r].request.loan[l]
BY DEF AmountOf

LEMMA TargetCases ==
    ASSUME NEW t \in Targets
    PROVE  \/ t = <<"fee", 0>> \/ t = <<"charge", 0>> \/ t = <<"share", 0>>
           \/ \E l \in Loans : t = <<"loan", l>>
BY DEF Targets

LEMMA AmountTyped ==
    ASSUME Shape, NEW r \in Ids, NEW t \in Targets
    PROVE  AmountOf(r, t[1], t[2]) \in Nat
<1>1. receipts[r].request \in Requests /\ receipts[r].fee \in Nat
  BY ReceiptTyped
<1>2. /\ receipts[r].request.charge \in Nat /\ receipts[r].request.share \in Nat
      /\ receipts[r].request.loan \in [Loans -> Nat]
  BY <1>1, RequestTyped
<1> QED BY <1>1, <1>2, TargetCases, AmountByTarget

-----------------------------------------------------------------------------
(* Sums.                                                                   *)

\* The rows that feesPaid, chargePaid and loanPaid add up.
FeeRows(m, period, except) ==
    {r \in Ids : /\ receipts[r].request.member = m /\ r # except
                 /\ receipts[r].request.period = period /\ <<r, "fee", 0>> \in posted}
ChargeRows(m, except) ==
    {r \in Ids : /\ receipts[r].request.member = m /\ r # except /\ <<r, "charge", 0>> \in posted}
LoanRows(l) == {r \in Ids : <<r, "loan", l>> \in posted}

\* What every receipt has for a target.
Amounts(target, l) == [r \in Ids |-> AmountOf(r, target, l)]

LEMMA SumsAre ==
    /\ \A m, p, e : feesPaid(m, p, e) = SumFunctionOnSet(Amounts("fee", 0), FeeRows(m, p, e))
    /\ \A m, e : chargePaid(m, e) = SumFunctionOnSet(Amounts("charge", 0), ChargeRows(m, e))
    /\ \A l : loanPaid(l) = SumFunctionOnSet(Amounts("loan", l), LoanRows(l))
<1>1. ASSUME NEW m, NEW p, NEW e
      PROVE  feesPaid(m, p, e) = SumFunctionOnSet(Amounts("fee", 0), FeeRows(m, p, e))
  <2>1. {r \in {x \in OthersOf(m, e) : receipts[x].request.period = p} : <<r, "fee", 0>> \in posted}
            = FeeRows(m, p, e)
    BY DEF OthersOf, FeeRows
  <2> QED BY <2>1 DEF feesPaid, PaidBy, Amounts
<1>2. ASSUME NEW m, NEW e
      PROVE  chargePaid(m, e) = SumFunctionOnSet(Amounts("charge", 0), ChargeRows(m, e))
  <2>1. {r \in OthersOf(m, e) : <<r, "charge", 0>> \in posted} = ChargeRows(m, e)
    BY DEF OthersOf, ChargeRows
  <2> QED BY <2>1 DEF chargePaid, PaidBy, Amounts
<1>3. ASSUME NEW l
      PROVE  loanPaid(l) = SumFunctionOnSet(Amounts("loan", l), LoanRows(l))
  BY DEF loanPaid, PaidBy, Amounts, LoanRows
<1> QED BY <1>1, <1>2, <1>3

LEMMA SumsArePrimed ==
    /\ \A m, p, e : feesPaid(m, p, e)' = SumFunctionOnSet(Amounts("fee", 0)', FeeRows(m, p, e)')
    /\ \A m, e : chargePaid(m, e)' = SumFunctionOnSet(Amounts("charge", 0)', ChargeRows(m, e)')
    /\ \A l : loanPaid(l)' = SumFunctionOnSet(Amounts("loan", l)', LoanRows(l)')
<1>1. ASSUME NEW m, NEW p, NEW e
      PROVE  feesPaid(m, p, e)' = SumFunctionOnSet(Amounts("fee", 0)', FeeRows(m, p, e)')
  <2>1. {r \in {x \in OthersOf(m, e) : receipts[x].request.period = p} : <<r, "fee", 0>> \in posted}'
            = FeeRows(m, p, e)'
    BY DEF OthersOf, FeeRows
  <2> QED BY <2>1 DEF feesPaid, PaidBy, Amounts
<1>2. ASSUME NEW m, NEW e
      PROVE  chargePaid(m, e)' = SumFunctionOnSet(Amounts("charge", 0)', ChargeRows(m, e)')
  <2>1. {r \in OthersOf(m, e) : <<r, "charge", 0>> \in posted}' = ChargeRows(m, e)'
    BY DEF OthersOf, ChargeRows
  <2> QED BY <2>1 DEF chargePaid, PaidBy, Amounts
<1>3. ASSUME NEW l
      PROVE  loanPaid(l)' = SumFunctionOnSet(Amounts("loan", l)', LoanRows(l)')
  BY DEF loanPaid, PaidBy, Amounts, LoanRows
<1> QED BY <1>1, <1>2, <1>3

LEMMA AmountsTyped ==
    ASSUME Shape
    PROVE  /\ \A r \in Ids : Amounts("fee", 0)[r] \in Nat /\ Amounts("charge", 0)[r] \in Nat
           /\ \A r \in Ids, l \in Loans : Amounts("loan", l)[r] \in Nat
<1>1. <<"fee", 0>> \in Targets /\ <<"charge", 0>> \in Targets /\ \A l \in Loans : <<"loan", l>> \in Targets
  BY DEF Targets
<1> QED BY <1>1, AmountTyped DEF Amounts

LEMMA RowsFinite ==
    ASSUME Shape
    PROVE  /\ \A m, p, e : FeeRows(m, p, e) \in SUBSET Ids /\ IsFiniteSet(FeeRows(m, p, e))
           /\ \A m, e : ChargeRows(m, e) \in SUBSET Ids /\ IsFiniteSet(ChargeRows(m, e))
           /\ \A l : LoanRows(l) \in SUBSET Ids /\ IsFiniteSet(LoanRows(l))
<1>1. IsFiniteSet(Ids)
  BY IdsTyped
<1>2. \A S \in SUBSET Ids : IsFiniteSet(S)
  BY <1>1, FS_Subset
<1> QED BY <1>2 DEF FeeRows, ChargeRows, LoanRows

\* Nothing paid is negative, and no fee exceeds the fee of a month.
LEMMA PaidTyped ==
    ASSUME Shape
    PROVE  /\ \A m, p, e : feesPaid(m, p, e) \in Nat /\ monthlyFees(m, p, e) \in 0 .. Fee
           /\ \A m, e : chargePaid(m, e) \in Nat
           /\ \A l \in Loans : loanPaid(l) \in Nat
<1>1. ASSUME NEW m, NEW p, NEW e PROVE feesPaid(m, p, e) \in Nat /\ monthlyFees(m, p, e) \in 0 .. Fee
  <2>1. FeeRows(m, p, e) \in SUBSET Ids /\ IsFiniteSet(FeeRows(m, p, e))
    BY RowsFinite
  <2>2. \A r \in FeeRows(m, p, e) : Amounts("fee", 0)[r] \in Nat
    BY <2>1, AmountsTyped
  <2>3. SumFunctionOnSet(Amounts("fee", 0), FeeRows(m, p, e)) \in Nat
    BY <2>1, <2>2, SumNat
  <2>4. feesPaid(m, p, e) \in Nat
    BY <2>3, SumsAre
  <2>5. Fee \in Nat /\ Fee - feesPaid(m, p, e) \in Int /\ Fee - feesPaid(m, p, e) <= Fee
    BY <2>4, ReceiptConstants
  <2>6. monthlyFees(m, p, e) = IF Fee - feesPaid(m, p, e) > 0 THEN Fee - feesPaid(m, p, e) ELSE 0
    BY <2>5, MaxWithZero DEF monthlyFees
  <2> QED BY <2>4, <2>5, <2>6
<1>2. ASSUME NEW m, NEW e PROVE chargePaid(m, e) \in Nat
  <2>1. ChargeRows(m, e) \in SUBSET Ids /\ IsFiniteSet(ChargeRows(m, e))
    BY RowsFinite
  <2>2. \A r \in ChargeRows(m, e) : Amounts("charge", 0)[r] \in Nat
    BY <2>1, AmountsTyped
  <2>3. SumFunctionOnSet(Amounts("charge", 0), ChargeRows(m, e)) \in Nat
    BY <2>1, <2>2, SumNat
  <2> QED BY <2>3, SumsAre
<1>3. ASSUME NEW l \in Loans PROVE loanPaid(l) \in Nat
  <2>1. LoanRows(l) \in SUBSET Ids /\ IsFiniteSet(LoanRows(l))
    BY RowsFinite
  <2>2. \A r \in LoanRows(l) : Amounts("loan", l)[r] \in Nat
    BY <2>1, AmountsTyped
  <2>3. SumFunctionOnSet(Amounts("loan", l), LoanRows(l)) \in Nat
    BY <2>1, <2>2, SumNat
  <2> QED BY <2>3, SumsAre
<1> QED BY <1>1, <1>2, <1>3

-----------------------------------------------------------------------------
(* Steps that post nothing.                                                *)

\* What all steps but Commit have in common: receipts are added, or change
\* their status only, and nothing is posted or closed.
Quiet ==
    /\ Shape /\ Shape'
    /\ Len(receipts) <= Len(receipts')
    /\ \A r \in Ids : receipts'[r].fee = receipts[r].fee /\ receipts'[r].request = receipts[r].request
    /\ posted' = posted
    /\ loanOpen' = loanOpen
    /\ charged \subseteq charged'

LEMMA QuietIds == ASSUME Quiet PROVE Ids \subseteq Ids' /\ Ids \subseteq Nat
<1>1. Len(receipts) \in Nat /\ Len(receipts') \in Nat
  BY DEF Quiet, Shape
<1> QED BY <1>1 DEF Quiet, Ids

LEMMA PostedRowsHaveIds ==
    ASSUME Shape, NEW r, NEW t, NEW l, <<r, t, l>> \in posted
    PROVE  r \in Ids
BY DEF Shape, PostedRows

\* Such a step leaves every amount and every sum as it was.
LEMMA QuietSums ==
    ASSUME Quiet
    PROVE  /\ \A r \in Ids : \A t, l : AmountOf(r, t, l)' = AmountOf(r, t, l)
           /\ \A m, p, e : feesPaid(m, p, e)' = feesPaid(m, p, e)
           /\ \A m, e : chargePaid(m, e)' = chargePaid(m, e)
           /\ \A l \in Loans : loanPaid(l)' = loanPaid(l)
<1>1. ASSUME NEW r \in Ids, NEW t, NEW l PROVE AmountOf(r, t, l)' = AmountOf(r, t, l)
  BY DEF Quiet, AmountOf
<1>2. ASSUME NEW t, NEW l, NEW S \in SUBSET Ids, IsFiniteSet(S), \A r \in S : Amounts(t, l)[r] \in Nat
      PROVE  SumFunctionOnSet(Amounts(t, l)', S) = SumFunctionOnSet(Amounts(t, l), S)
  <2>1. \A r \in S : Amounts(t, l)[r] \in Int /\ Amounts(t, l)[r] = Amounts(t, l)'[r]
    <3> TAKE r \in S
    <3>1. r \in Ids /\ r \in Ids'
      BY QuietIds
    <3>2. Amounts(t, l)'[r] = AmountOf(r, t, l)' /\ Amounts(t, l)[r] = AmountOf(r, t, l)
      BY <3>1 DEF Amounts
    <3> QED BY <3>1, <3>2, <1>1, <1>2
  <2> QED BY <2>1, <1>2, SumSame
<1>3. ASSUME NEW m, NEW p, NEW e PROVE feesPaid(m, p, e)' = feesPaid(m, p, e)
  <2>1. FeeRows(m, p, e)' = FeeRows(m, p, e)
    BY QuietIds, PostedRowsHaveIds DEF Quiet, FeeRows
  <2>2. \A r \in FeeRows(m, p, e) : Amounts("fee", 0)[r] \in Nat
    BY AmountsTyped, RowsFinite DEF Quiet
  <2> QED BY <2>1, <2>2, <1>2, RowsFinite, SumsAre, SumsArePrimed DEF Quiet
<1>4. ASSUME NEW m, NEW e PROVE chargePaid(m, e)' = chargePaid(m, e)
  <2>1. ChargeRows(m, e)' = ChargeRows(m, e)
    BY QuietIds, PostedRowsHaveIds DEF Quiet, ChargeRows
  <2>2. \A r \in ChargeRows(m, e) : Amounts("charge", 0)[r] \in Nat
    BY AmountsTyped, RowsFinite DEF Quiet
  <2> QED BY <2>1, <2>2, <1>2, RowsFinite, SumsAre, SumsArePrimed DEF Quiet
<1>5. ASSUME NEW l \in Loans PROVE loanPaid(l)' = loanPaid(l)
  <2>1. LoanRows(l)' = LoanRows(l)
    BY QuietIds, PostedRowsHaveIds DEF Quiet, LoanRows
  <2>2. \A r \in LoanRows(l) : Amounts("loan", l)[r] \in Nat
    BY AmountsTyped, RowsFinite DEF Quiet
  <2> QED BY <2>1, <2>2, <1>2, RowsFinite, SumsAre, SumsArePrimed DEF Quiet
<1> QED BY <1>1, <1>3, <1>4, <1>5

\* The books stay right when no receipt becomes or ceases to be completed.
LEMMA QuietBooks ==
    ASSUME Quiet, AllOrNothing, DebtsPaidOnce,
           \A r \in Ids : receipts'[r].status = "completed" <=> receipts[r].status = "completed",
           \A r \in Ids' \ Ids : receipts'[r].status # "completed"
    PROVE  AllOrNothing' /\ DebtsPaidOnce'
<1>1. AllOrNothing'
  <2> SUFFICES ASSUME NEW r \in Ids'
               PROVE  {t \in Targets : <<r, t[1], t[2]>> \in posted'}
                        = IF receipts'[r].status = "completed" THEN AllocationsOf(r)' ELSE {}
    BY DEF AllOrNothing
  <2>1. CASE r \in Ids
    <3>1. AllocationsOf(r)' = AllocationsOf(r)
      BY <2>1, QuietSums DEF AllocationsOf
    <3> QED BY <2>1, <3>1 DEF AllOrNothing, Quiet
  <2>2. CASE r \notin Ids
    <3>1. \A t \in Targets : <<r, t[1], t[2]>> \notin posted
      BY <2>2, PostedRowsHaveIds DEF Quiet
    <3> QED BY <2>2, <3>1 DEF Quiet
  <2> QED BY <2>1, <2>2
<1>2. FeesCollectedOnce'
  <2> SUFFICES ASSUME NEW r \in Ids'
               PROVE  feesPaid(receipts[r].request.member, receipts[r].request.period, 0)' <= Fee
    BY DEF FeesCollectedOnce
  <2> SUFFICES ASSUME NEW m, NEW p,
                      m = receipts'[r].request.member, p = receipts'[r].request.period
               PROVE  feesPaid(m, p, 0)' <= Fee
    OBVIOUS
  <2>1. feesPaid(m, p, 0)' = feesPaid(m, p, 0)
    BY QuietSums
  <2>2. CASE \E x \in Ids : receipts[x].request.member = m /\ receipts[x].request.period = p
    BY <2>1, <2>2 DEF DebtsPaidOnce, FeesCollectedOnce
  <2>3. CASE ~ \E x \in Ids : receipts[x].request.member = m /\ receipts[x].request.period = p
    <3>1. FeeRows(m, p, 0) = {}
      BY <2>3 DEF FeeRows
    <3>2. feesPaid(m, p, 0) = 0
      BY <3>1, SumsAre, SumEmpty
    <3>3. Fee \in Nat
      BY ReceiptConstants
    <3> QED BY <2>1, <3>2, <3>3
  <2> QED BY <2>2, <2>3
<1>3. ChargesNeverOverpaid'
  <2> SUFFICES ASSUME NEW m \in Members
               PROVE  chargePaid(m, 0)' <= (IF m \in charged' THEN Charge[m] ELSE 0)
    BY DEF ChargesNeverOverpaid
  <2>1. chargePaid(m, 0)' = chargePaid(m, 0) /\ chargePaid(m, 0) \in Nat
    BY QuietSums, PaidTyped DEF Quiet
  <2>2. chargePaid(m, 0) <= (IF m \in charged THEN Charge[m] ELSE 0)
    BY DEF DebtsPaidOnce, ChargesNeverOverpaid
  <2>3. Charge[m] \in Nat
    BY ReceiptConstants
  <2> QED BY <2>1, <2>2, <2>3 DEF Quiet
<1>4. ClosedIffSettled'
  BY QuietSums DEF DebtsPaidOnce, ClosedIffSettled, Quiet
<1> QED BY <1>1, <1>2, <1>3, <1>4 DEF DebtsPaidOnce

\* A transaction that such a step does not touch keeps what it found.
LEMMA QuietWorker ==
    ASSUME Quiet, NEW w \in Workers, WorkerOK(w), worker'[w] = worker[w],
           worker[w].step \notin {"next", "receipt"} =>
               receipts'[worker[w].r].status = receipts[worker[w].r].status
    PROVE  WorkerOK(w)'
<1>1. worker[w].step # "next" =>
          /\ worker[w].r \in Ids /\ RequestOf(w)' = RequestOf(w)
          /\ receipts'[worker[w].r].fee = receipts[worker[w].r].fee
  BY DEF WorkerOK, Placed, Quiet, RequestOf
<1>2. Placed(w)'
  <2>1. worker[w].step # "next" => Unposted(w)' = Unposted(w) /\ PaidLoans(RequestOf(w))' = PaidLoans(RequestOf(w))
    BY <1>1 DEF Unposted, PaidLoans
  <2> QED BY <1>1, <2>1, QuietIds DEF WorkerOK, Placed
<1>3. OwnsReceipt(w)'
  BY DEF WorkerOK, OwnsReceipt
<1>4. FeesDue(w)'
  <2> SUFFICES ASSUME worker[w].step \notin {"next", "receipt", "fees"}
               PROVE  FeeLocks(RequestOf(w))' \subseteq worker[w].held /\ verifyAllocationsMatch(w)'
    BY DEF FeesDue
  <2>1. FeeLocks(RequestOf(w))' = FeeLocks(RequestOf(w))
    BY <1>1 DEF FeeLocks
  <2>2. FeeLocks(RequestOf(w)) \subseteq worker[w].held /\ verifyAllocationsMatch(w)
    BY DEF WorkerOK, FeesDue
  <2>3. monthlyFees(RequestOf(w).member, RequestOf(w).period, ReceiptOf(w))'
            = monthlyFees(RequestOf(w).member, RequestOf(w).period, ReceiptOf(w))
    BY <1>1, QuietSums DEF monthlyFees, ReceiptOf
  <2> QED BY <1>1, <2>1, <2>2, <2>3 DEF verifyAllocationsMatch, ReceiptOf
<1>5. ChargeDue(w)'
  <2> SUFFICES ASSUME worker[w].step \in {"loans", "repay", "release", "share", "commit"},
                      RequestOf(w)'.charge > 0
               PROVE  /\ ChargeLocks(RequestOf(w))' \subseteq worker[w].held
                      /\ RequestOf(w)'.charge <= outstanding(RequestOf(w).member, worker[w].r)'
    BY DEF ChargeDue
  <2> DEFINE q == RequestOf(w)
             paid == chargePaid(q.member, worker[w].r)
  <2>1. q' = q /\ worker[w].r \in Ids
    BY <1>1
  <2>2. ChargeLocks(q) \subseteq worker[w].held /\ q.charge <= outstanding(q.member, worker[w].r)
    BY <2>1 DEF WorkerOK, ChargeDue
  <2>3. q \in Requests
    BY <2>1, ReceiptTyped DEF RequestOf, Quiet
  <2>4. q.charge \in Nat /\ Charge[q.member] \in Nat
    BY <2>3, RequestTyped, ReceiptConstants
  <2>5. paid' = paid /\ paid \in Nat
    BY <2>1, QuietSums, PaidTyped DEF Quiet
  <2>6. outstanding(q.member, worker[w].r) <= outstanding(q.member, worker[w].r)'
    <3>1. outstanding(q.member, worker[w].r) = (IF q.member \in charged THEN Charge[q.member] ELSE 0) - paid
      BY DEF outstanding
    <3>2. outstanding(q.member, worker[w].r)' = (IF q.member \in charged' THEN Charge[q.member] ELSE 0) - paid'
      BY <2>1 DEF outstanding
    <3> HIDE DEF paid, q
    <3> QED BY <3>1, <3>2, <2>4, <2>5 DEF Quiet
  <2>7. outstanding(q.member, worker[w].r) \in Int /\ outstanding(q.member, worker[w].r)' \in Int
    BY <2>1, <2>4, <2>5 DEF outstanding
  <2>8. ChargeLocks(q)' = ChargeLocks(q)
    BY <2>1 DEF ChargeLocks
  <2>9. q.charge <= outstanding(q.member, worker[w].r)'
    BY <2>2, <2>4, <2>6, <2>7
  <2> QED BY <2>1, <2>2, <2>8, <2>9
<1>6. LoansDue(w)'
  <2> SUFFICES ASSUME NEW l \in worker[w].draft
               PROVE  /\ <<"loan", l, 0>> \in worker[w].held
                      /\ loanOpen'[l]
                      /\ l \in worker[w].closing <=> loanPaid(l)' + RequestOf(w)'.loan[l] >= Debt[l]
    BY DEF LoansDue
  <2>1. l \in Loans /\ worker[w].step # "next"
    BY WorkerTyped DEF WorkerOK, Placed, Quiet
  <2>2. loanPaid(l)' = loanPaid(l) /\ RequestOf(w)' = RequestOf(w)
    BY <1>1, <2>1, QuietSums
  <2> QED BY <2>1, <2>2 DEF WorkerOK, LoansDue, Quiet
<1> QED BY <1>2, <1>3, <1>4, <1>5, <1>6 DEF WorkerOK

-----------------------------------------------------------------------------
(* The step that posts.                                                    *)

\* What Commit does to the receipt r and the rows, in any worker.
Posts(r) ==
    /\ Shape /\ Shape' /\ AllOrNothing
    /\ r \in Ids /\ receipts[r].status = "pending"
    /\ receipts' = SetStatus(r, "completed")
    /\ posted' = posted \cup {<<r, t[1], t[2]>> : t \in AllocationsOf(r)}
    /\ charged' = charged

LEMMA PostsReceipts ==
    ASSUME NEW r, Posts(r)
    PROVE  /\ Ids' = Ids
           /\ \A x \in Ids : /\ receipts'[x].fee = receipts[x].fee
                             /\ receipts'[x].request = receipts[x].request
                             /\ receipts'[x].status = IF x = r THEN "completed" ELSE receipts[x].status
           /\ \A x \in Ids : \A t, l : AmountOf(x, t, l)' = AmountOf(x, t, l)
           /\ \A t, l : Amounts(t, l)' = Amounts(t, l)
<1>1. /\ Len(receipts') = Len(receipts)
      /\ \A x \in Ids : receipts'[x] = IF x = r THEN [receipts[x] EXCEPT !.status = "completed"] ELSE receipts[x]
  <2>1. receipts' = [receipts EXCEPT ![r].status = "completed"]
    BY DEF Posts, SetStatus
  <2>2. receipts \in Seq(Receipt) /\ receipts' \in Seq(Receipt)
    BY DEF Posts, Shape
  <2>3. DOMAIN receipts' = DOMAIN receipts
    BY <2>1
  <2>4. Len(receipts') = Len(receipts) /\ DOMAIN receipts = Ids
    BY <2>2, <2>3 DEF Ids
  <2> QED BY <2>1, <2>4
<1>2. Ids' = Ids
  BY <1>1 DEF Ids
<1>3. \A x \in Ids : receipts[x] \in Receipt
  BY ReceiptTyped DEF Posts
<1>4. \A x \in Ids : /\ receipts'[x].fee = receipts[x].fee
                     /\ receipts'[x].request = receipts[x].request
                     /\ receipts'[x].status = IF x = r THEN "completed" ELSE receipts[x].status
  BY <1>1, <1>3 DEF Receipt
<1>5. \A x \in Ids : \A t, l : AmountOf(x, t, l)' = AmountOf(x, t, l)
  BY <1>4 DEF AmountOf
<1>6. \A t, l : Amounts(t, l)' = Amounts(t, l)
  BY <1>2, <1>5 DEF Amounts
<1> QED BY <1>2, <1>4, <1>5, <1>6

\* The rows of the receipt are new, and are the ones with an amount.
LEMMA PostsRows ==
    ASSUME NEW r, Posts(r), NEW target, NEW l, <<target, l>> \in Targets
    PROVE  /\ <<r, target, l>> \notin posted
           /\ \A x : <<x, target, l>> \in posted' <=>
                  <<x, target, l>> \in posted \/ (x = r /\ AmountOf(r, target, l) > 0)
<1>1. <<r, target, l>> \notin posted
  <2>1. {t \in Targets : <<r, t[1], t[2]>> \in posted} = {}
    BY DEF Posts, AllOrNothing
  <2> QED BY <2>1
<1>2. ASSUME NEW x, <<x, target, l>> \in {<<r, t[1], t[2]>> : t \in AllocationsOf(r)}
      PROVE  x = r /\ AmountOf(r, target, l) > 0
  <2>1. PICK t \in AllocationsOf(r) : <<x, target, l>> = <<r, t[1], t[2]>>
    BY <1>2
  <2> QED BY <2>1 DEF AllocationsOf
<1>3. ASSUME AmountOf(r, target, l) > 0
      PROVE  <<r, target, l>> \in {<<r, t[1], t[2]>> : t \in AllocationsOf(r)}
  <2>1. <<target, l>> \in AllocationsOf(r)
    BY <1>3 DEF AllocationsOf
  <2>2. <<r, target, l>> = <<r, <<target, l>>[1], <<target, l>>[2]>>
    OBVIOUS
  <2> QED BY <2>1, <2>2
<1> QED BY <1>1, <1>2, <1>3 DEF Posts

\* One sum: the receipt adds its amount if its row is one of those added up.
LEMMA PostsSum ==
    ASSUME NEW r, Posts(r), NEW t, NEW l, <<t, l>> \in Targets,
           NEW S \in SUBSET Ids, IsFiniteSet(S), r \notin S, NEW S2, NEW mine \in BOOLEAN,
           S2 = IF mine /\ AmountOf(r, t, l) > 0 THEN S \cup {r} ELSE S
    PROVE  /\ SumFunctionOnSet(Amounts(t, l)', S2)
                = SumFunctionOnSet(Amounts(t, l), S) + (IF mine THEN AmountOf(r, t, l) ELSE 0)
           /\ SumFunctionOnSet(Amounts(t, l), S) \in Nat
           /\ AmountOf(r, t, l) \in Nat
<1>1. \A x \in Ids : Amounts(t, l)[x] \in Nat /\ Amounts(t, l)[x] = AmountOf(x, t, l)
  <2>1. \A x \in Ids : AmountOf(x, <<t, l>>[1], <<t, l>>[2]) \in Nat
    BY AmountTyped DEF Posts
  <2> QED BY <2>1 DEF Amounts
<1>2. r \in Ids
  BY DEF Posts
<1>3. SumFunctionOnSet(Amounts(t, l), S) \in Nat
  BY <1>1, SumNat
<1>4. SumFunctionOnSet(Amounts(t, l), S \cup {r}) = AmountOf(r, t, l) + SumFunctionOnSet(Amounts(t, l), S)
  BY <1>1, <1>2, SumAdd
<1>5. Amounts(t, l)' = Amounts(t, l)
  BY PostsReceipts
<1>6. AmountOf(r, t, l) \in Nat
  BY <1>1, <1>2
<1>7. CASE mine /\ AmountOf(r, t, l) > 0
  <2>1. S2 = S \cup {r}
    BY <1>7
  <2> QED BY <1>3, <1>4, <1>5, <1>6, <1>7, <2>1
<1>8. CASE ~(mine /\ AmountOf(r, t, l) > 0)
  <2>1. S2 = S
    BY <1>8
  <2> QED BY <1>3, <1>5, <1>6, <1>8, <2>1
<1> QED BY <1>7, <1>8

\* The sums after the commit.
LEMMA PostsSums ==
    ASSUME NEW r, Posts(r)
    PROVE  /\ \A m, p, e : feesPaid(m, p, e)' = feesPaid(m, p, e)
                  + (IF /\ receipts[r].request.member = m /\ receipts[r].request.period = p /\ r # e
                     THEN receipts[r].fee ELSE 0)
           /\ \A m, e : chargePaid(m, e)' = chargePaid(m, e)
                  + (IF receipts[r].request.member = m /\ r # e THEN receipts[r].request.charge ELSE 0)
           /\ \A l \in Loans : loanPaid(l)' = loanPaid(l) + receipts[r].request.loan[l]
<1>1. /\ <<"fee", 0>> \in Targets /\ <<"charge", 0>> \in Targets
      /\ \A l \in Loans : <<"loan", l>> \in Targets
  BY DEF Targets
<1>2. r \in Ids
  BY DEF Posts
<1>3. ASSUME NEW m, NEW p, NEW e
      PROVE  feesPaid(m, p, e)' = feesPaid(m, p, e)
                  + (IF /\ receipts[r].request.member = m /\ receipts[r].request.period = p /\ r # e
                     THEN receipts[r].fee ELSE 0)
  <2> DEFINE mine == receipts[r].request.member = m /\ receipts[r].request.period = p /\ r # e
  <2>1. r \notin FeeRows(m, p, e)
    BY <1>1, PostsRows DEF FeeRows
  <2>2. FeeRows(m, p, e)' = IF mine /\ AmountOf(r, "fee", 0) > 0 THEN FeeRows(m, p, e) \cup {r}
                            ELSE FeeRows(m, p, e)
    <3>1. \A x : <<x, "fee", 0>> \in posted' <=>
                  <<x, "fee", 0>> \in posted \/ (x = r /\ AmountOf(r, "fee", 0) > 0)
      BY <1>1, PostsRows
    <3>2. /\ Ids' = Ids
          /\ \A x \in Ids : receipts'[x].request = receipts[x].request
      BY PostsReceipts
    <3>3. \A x : x \in FeeRows(m, p, e)' <=> x \in FeeRows(m, p, e) \/ (mine /\ x = r /\ AmountOf(r, "fee", 0) > 0)
      BY <1>2, <3>1, <3>2 DEF FeeRows
    <3> QED BY <3>3
  <2>3. FeeRows(m, p, e) \in SUBSET Ids /\ IsFiniteSet(FeeRows(m, p, e)) /\ mine \in BOOLEAN
    BY RowsFinite DEF Posts
  <2> HIDE DEF mine
  <2>4. SumFunctionOnSet(Amounts("fee", 0)', FeeRows(m, p, e)')
            = SumFunctionOnSet(Amounts("fee", 0), FeeRows(m, p, e)) + (IF mine THEN AmountOf(r, "fee", 0) ELSE 0)
    BY <1>1, <2>1, <2>2, <2>3, PostsSum
  <2>5. feesPaid(m, p, e)' = feesPaid(m, p, e) + (IF mine THEN receipts[r].fee ELSE 0)
    BY <2>4, SumsAre, SumsArePrimed, AmountByTarget
  <2> QED BY <2>5 DEF mine
<1>4. ASSUME NEW m, NEW e
      PROVE  chargePaid(m, e)' = chargePaid(m, e)
                  + (IF receipts[r].request.member = m /\ r # e THEN receipts[r].request.charge ELSE 0)
  <2> DEFINE mine == receipts[r].request.member = m /\ r # e
  <2>1. r \notin ChargeRows(m, e)
    BY <1>1, PostsRows DEF ChargeRows
  <2>2. ChargeRows(m, e)' = IF mine /\ AmountOf(r, "charge", 0) > 0 THEN ChargeRows(m, e) \cup {r}
                            ELSE ChargeRows(m, e)
    <3>1. \A x : <<x, "charge", 0>> \in posted' <=>
                  <<x, "charge", 0>> \in posted \/ (x = r /\ AmountOf(r, "charge", 0) > 0)
      BY <1>1, PostsRows
    <3>2. /\ Ids' = Ids
          /\ \A x \in Ids : receipts'[x].request = receipts[x].request
      BY PostsReceipts
    <3>3. \A x : x \in ChargeRows(m, e)' <=> x \in ChargeRows(m, e) \/ (mine /\ x = r /\ AmountOf(r, "charge", 0) > 0)
      BY <1>2, <3>1, <3>2 DEF ChargeRows
    <3> QED BY <3>3
  <2>3. ChargeRows(m, e) \in SUBSET Ids /\ IsFiniteSet(ChargeRows(m, e)) /\ mine \in BOOLEAN
    BY RowsFinite DEF Posts
  <2> HIDE DEF mine
  <2>4. SumFunctionOnSet(Amounts("charge", 0)', ChargeRows(m, e)')
            = SumFunctionOnSet(Amounts("charge", 0), ChargeRows(m, e)) + (IF mine THEN AmountOf(r, "charge", 0) ELSE 0)
    BY <1>1, <2>1, <2>2, <2>3, PostsSum
  <2>5. chargePaid(m, e)' = chargePaid(m, e) + (IF mine THEN receipts[r].request.charge ELSE 0)
    BY <2>4, SumsAre, SumsArePrimed, AmountByTarget
  <2> QED BY <2>5 DEF mine
<1>5. ASSUME NEW l \in Loans
      PROVE  loanPaid(l)' = loanPaid(l) + receipts[r].request.loan[l]
  <2> DEFINE mine == TRUE
  <2>1. r \notin LoanRows(l)
    BY <1>1, PostsRows DEF LoanRows
  <2>2. LoanRows(l)' = IF mine /\ AmountOf(r, "loan", l) > 0 THEN LoanRows(l) \cup {r} ELSE LoanRows(l)
    <3>1. \A x : <<x, "loan", l>> \in posted' <=>
                  <<x, "loan", l>> \in posted \/ (x = r /\ AmountOf(r, "loan", l) > 0)
      BY <1>1, PostsRows
    <3>2. /\ Ids' = Ids
          /\ \A x \in Ids : receipts'[x].request = receipts[x].request
      BY PostsReceipts
    <3>3. \A x : x \in LoanRows(l)' <=> x \in LoanRows(l) \/ (mine /\ x = r /\ AmountOf(r, "loan", l) > 0)
      BY <1>2, <3>1, <3>2 DEF LoanRows
    <3> QED BY <3>3
  <2>3. LoanRows(l) \in SUBSET Ids /\ IsFiniteSet(LoanRows(l)) /\ mine \in BOOLEAN
    BY RowsFinite DEF Posts
  <2> HIDE DEF mine
  <2>4. SumFunctionOnSet(Amounts("loan", l)', LoanRows(l)')
            = SumFunctionOnSet(Amounts("loan", l), LoanRows(l)) + (IF mine THEN AmountOf(r, "loan", l) ELSE 0)
    <3>1. <<"loan", l>> \in Targets
      BY <1>1
    <3> QED BY <3>1, <2>1, <2>2, <2>3, PostsSum
  <2>5. loanPaid(l)' = loanPaid(l) + (IF mine THEN receipts[r].request.loan[l] ELSE 0)
    BY <2>4, SumsAre, SumsArePrimed, AmountByTarget
  <2> QED BY <2>5 DEF mine
<1> QED BY <1>3, <1>4, <1>5

\* A receipt that has posted nothing is left out of no sum by being excepted.
LEMMA ExceptNothing ==
    ASSUME NEW r, Posts(r)
    PROVE  /\ \A m, p : feesPaid(m, p, r) = feesPaid(m, p, 0)
           /\ \A m : chargePaid(m, r) = chargePaid(m, 0)
<1>1. <<r, "fee", 0>> \notin posted /\ <<r, "charge", 0>> \notin posted
  <2>1. <<"fee", 0>> \in Targets /\ <<"charge", 0>> \in Targets
    BY DEF Targets
  <2> QED BY <2>1, PostsRows
<1>2. 0 \notin Ids
  BY DEF Ids
<1>3. \A m, p : FeeRows(m, p, r) = FeeRows(m, p, 0)
  BY <1>1, <1>2 DEF FeeRows
<1>4. \A m : ChargeRows(m, r) = ChargeRows(m, 0)
  BY <1>1, <1>2 DEF ChargeRows
<1> QED BY <1>3, <1>4, SumsAre

-----------------------------------------------------------------------------
(* Steps of one worker.                                                    *)

LEMMA RequestOfTyped ==
    ASSUME Shape, NEW w \in Workers, Placed(w), worker[w].step # "next"
    PROVE  worker[w].r \in Ids /\ RequestOf(w) \in Requests
BY ReceiptTyped DEF Placed, RequestOf

\* The rows a step locks are rows.
LEMMA WantedTyped ==
    ASSUME Shape, NEW w \in Workers, Placed(w)
    PROVE  Wanted(w) \subseteq Lock
<1>1. \A n \in Nat, p \in Nat : /\ <<"receipt", n, p>> \in Lock /\ <<"fees", n, p>> \in Lock
                                /\ <<"charge", n, p>> \in Lock /\ <<"loan", n, p>> \in Lock
                                /\ <<"share", n, p>> \in Lock
  BY DEF Lock
<1>2. Loans \subseteq Nat /\ Accounts \subseteq Nat /\ Pledgors \in [Loans -> SUBSET Accounts]
  BY ReceiptConstants
<1>3. worker[w].step \in Steps /\ worker[w].draft \in SUBSET Loans /\ worker[w].r \in Nat
  BY WorkerTyped
<1>4. worker[w].step # "next" => /\ RequestOf(w).period \in Nat
                                 /\ AccountOf[RequestOf(w).member] \in Nat
  BY RequestOfTyped, RequestTyped
<1>5. CASE worker[w].step = "receipt"
  BY <1>1, <1>3, <1>5 DEF Wanted, ReceiptOf
<1>6. CASE worker[w].step = "fees"
  BY <1>1, <1>4, <1>6 DEF Wanted, FeeLocks
<1>7. CASE worker[w].step = "charges"
  BY <1>1, <1>4, <1>7 DEF Wanted, ChargeLocks
<1>8. CASE worker[w].step = "loans"
  BY <1>1, <1>2, <1>8 DEF Wanted, LoanLocks, LoansOf
<1>9. CASE worker[w].step = "repay"
  <2>1. Unposted(w) \in SUBSET Nat /\ Unposted(w) # {}
    BY <1>2, <1>9 DEF Unposted, PaidLoans, Placed
  <2>2. Min(Unposted(w)) \in Nat
    BY <2>1, LeastNat
  <2> QED BY <1>1, <1>9, <2>2 DEF Wanted, LoanLocks
<1>10. CASE worker[w].step = "release"
  <2>1. Settled(w) \in worker[w].draft
    <3>1. (\A x \in worker[w].draft : x \in Nat) /\ worker[w].draft # {} /\ IsFiniteSet(worker[w].draft)
      BY <1>2, <1>3, <1>10 DEF Placed
    <3> QED BY <3>1, GreatestNat DEF Settled
  <2>2. Unreleased(w) \in SUBSET Nat
    BY <1>2, <1>3, <2>1 DEF Unreleased
  <2>3. CASE Unreleased(w) = {}
    BY <1>10, <2>3 DEF Wanted
  <2>4. CASE Unreleased(w) # {}
    <3>1. Min(Unreleased(w)) \in Nat
      BY <2>2, <2>4, LeastNat
    <3> QED BY <1>1, <1>10, <2>4, <3>1 DEF Wanted, ShareLocks
  <2> QED BY <2>3, <2>4
<1>11. CASE worker[w].step = "share"
  BY <1>1, <1>4, <1>11 DEF Wanted, ShareLocks
<1>12. CASE worker[w].step \in {"next", "commit"}
  BY <1>12 DEF Wanted
<1> QED BY <1>3, <1>5, <1>6, <1>7, <1>8, <1>9, <1>10, <1>11, <1>12 DEF Steps

\* Worker w moves, the others stay, and w has no row that another one holds.
OnlyMoves(w) ==
    /\ worker' \in [Workers -> Transaction]
    /\ \A v \in Workers : v # w => worker'[v] = worker[v]
    /\ \/ worker'[w].held \subseteq worker[w].held
       \/ Granted(w) /\ worker'[w].held \subseteq worker[w].held \cup Wanted(w)

LEMMA StaysExclusive ==
    ASSUME Exclusive, NEW w \in Workers, OnlyMoves(w)
    PROVE  Exclusive'
<1> SUFFICES ASSUME NEW u \in Workers, NEW v \in Workers, u # v
             PROVE  worker'[u].held \cap worker'[v].held = {}
  BY DEF Exclusive
<1>1. worker[u].held \cap worker[v].held = {}
  BY DEF Exclusive
<1>2. ASSUME NEW x \in Workers, x # w PROVE worker'[w].held \cap worker[x].held = {}
  <2>1. worker[w].held \cap worker[x].held = {}
    BY <1>2 DEF Exclusive
  <2>2. Granted(w) => Wanted(w) \cap worker[x].held = {}
    BY <1>2 DEF Granted, HeldByOthers
  <2> QED BY <2>1, <2>2 DEF OnlyMoves
<1>3. \A x \in Workers : x # w => worker'[x].held = worker[x].held
  BY DEF OnlyMoves
<1> QED BY <1>1, <1>2, <1>3

\* A step of a worker that changes nothing but its transaction.
LEMMA WorkerMoves ==
    ASSUME ReceiptInv, NEW w \in Workers, OnlyMoves(w), faults' \in 0 .. MaxFaults,
           UNCHANGED <<receipts, charged, posted, loanOpen, active>>, WorkerOK(w)'
    PROVE  ReceiptInv'
<1>1. Shape'
  BY DEF ReceiptInv, Shape, PostedRows, Ids, OnlyMoves
<1>2. Quiet
  BY <1>1 DEF ReceiptInv, Quiet, Shape
<1>3. AllOrNothing' /\ DebtsPaidOnce'
  BY <1>2, QuietBooks DEF ReceiptInv, Ids
<1>4. \A v \in Workers : WorkerOK(v)'
  <2> SUFFICES ASSUME NEW v \in Workers, v # w PROVE WorkerOK(v)'
    OBVIOUS
  <2>1. worker'[v] = worker[v] /\ WorkerOK(v)
    BY DEF OnlyMoves, ReceiptInv
  <2> QED BY <1>2, <2>1, QuietWorker
<1>5. Exclusive'
  BY StaysExclusive DEF ReceiptInv
<1> QED BY <1>1, <1>3, <1>4, <1>5 DEF ReceiptInv

LEMMA SameSums ==
    ASSUME ReceiptInv, UNCHANGED <<receipts, charged, posted, loanOpen>>
    PROVE  /\ \A m, p, e : monthlyFees(m, p, e)' = monthlyFees(m, p, e)
           /\ \A m, e : outstanding(m, e)' = outstanding(m, e)
           /\ \A l : loanPaid(l)' = loanPaid(l)
BY DEF monthlyFees, feesPaid, outstanding, chargePaid, loanPaid, PaidBy, OthersOf, AmountOf, Ids

\* A transaction that is not in progress.
LEMMA IdleFields ==
    ASSUME NEW Q \in SUBSET Nat, NEW k, k = [Idle EXCEPT !.queue = Q] \/ k = Idle
    PROVE  /\ k \in Transaction /\ k.step = "next" /\ k.held = {} /\ k.draft = {} /\ k.closing = {}
           /\ k.blocked = FALSE /\ k.queue \in {Q, {}}
<1>1. CASE k = [Idle EXCEPT !.queue = Q]
  <2>1. k \in Transaction
    BY <1>1 DEF Idle, Transaction, Steps
  <2> QED BY <1>1, <2>1 DEF Idle
<1>2. CASE k = Idle
  <2>1. k \in Transaction
    BY <1>2 DEF Idle, Transaction, Steps
  <2> QED BY <1>2, <2>1 DEF Idle
<1> QED BY <1>1, <1>2

\* The transaction has ended, with or without success.
LEMMA EndsWell ==
    ASSUME Shape, NEW w \in Workers, Placed(w), Ids \subseteq Ids',
           \/ worker' = [worker EXCEPT ![w] = Done(w)]
           \/ worker' = [worker EXCEPT ![w] = Idle]
    PROVE  OnlyMoves(w) /\ WorkerOK(w)'
<1>1. worker[w].queue \in SUBSET Nat /\ worker[w].queue \subseteq Ids
  BY WorkerTyped DEF Placed
<1>2. worker \in [Workers -> Transaction]
  BY DEF Shape
<1> DEFINE Q == worker[w].queue \ {ReceiptOf(w)}
<1>3. PICK k : worker' = [worker EXCEPT ![w] = k] /\ (k = [Idle EXCEPT !.queue = Q] \/ k = Idle)
  BY DEF Done
<1>4. /\ k \in Transaction /\ k.step = "next" /\ k.held = {} /\ k.draft = {} /\ k.closing = {}
      /\ k.blocked = FALSE /\ k.queue \in {Q, {}}
  <2>1. Q \in SUBSET Nat
    BY <1>1
  <2> HIDE DEF Q
  <2> QED BY <1>3, <2>1, IdleFields
<1>5. /\ worker' \in [Workers -> Transaction] /\ worker'[w] = k
      /\ \A v \in Workers : v # w => worker'[v] = worker[v]
  BY <1>2, <1>3, <1>4
<1>6. OnlyMoves(w)
  BY <1>4, <1>5 DEF OnlyMoves
<1>7. WorkerOK(w)'
  <2>1. IsFiniteSet({})
    BY FS_EmptySet
  <2>2. Placed(w)'
    BY <1>1, <1>4, <1>5, <2>1 DEF Placed
  <2>3. OwnsReceipt(w)' /\ FeesDue(w)' /\ ChargeDue(w)' /\ LoansDue(w)'
    BY <1>4, <1>5 DEF OwnsReceipt, FeesDue, ChargeDue, LoansDue
  <2> QED BY <2>2, <2>3 DEF WorkerOK
<1> QED BY <1>6, <1>7

\* The transaction goes on to the step s with what it has drafted so far.
LEMMA GotoFields ==
    ASSUME Shape, NEW w \in Workers, Placed(w), Granted(w), NEW s \in Steps, Goto(w, s)
    PROVE  /\ OnlyMoves(w)
           /\ worker'[w].step = s /\ worker'[w].held = worker[w].held \cup Wanted(w)
           /\ worker'[w].blocked = FALSE /\ worker'[w].r = worker[w].r
           /\ worker'[w].queue = worker[w].queue /\ worker'[w].draft = worker[w].draft
           /\ worker'[w].closing = worker[w].closing
<1> DEFINE L == Wanted(w)
<1>1. L \subseteq Lock
  BY WantedTyped
<1>2. worker' = [worker EXCEPT ![w].step = s, ![w].held = @ \cup L, ![w].blocked = FALSE]
  BY DEF Goto
<1>3. worker \in [Workers -> Transaction] /\ worker[w] \in Transaction
  BY DEF Shape
<1> HIDE DEF L
<1>4. worker' = [worker EXCEPT ![w] = [worker[w] EXCEPT !.step = s, !.held = @ \cup L, !.blocked = FALSE]]
  BY <1>2, <1>3
<1>5. ASSUME NEW k, k = [worker[w] EXCEPT !.step = s, !.held = @ \cup L, !.blocked = FALSE]
      PROVE  /\ k \in Transaction /\ k.step = s /\ k.held = worker[w].held \cup L
             /\ k.blocked = FALSE /\ k.r = worker[w].r
             /\ k.queue = worker[w].queue /\ k.draft = worker[w].draft /\ k.closing = worker[w].closing
  BY <1>1, <1>3, <1>5 DEF Transaction
<1>6. PICK k : k = [worker[w] EXCEPT !.step = s, !.held = @ \cup L, !.blocked = FALSE]
  OBVIOUS
<1>7. worker' \in [Workers -> Transaction] /\ worker'[w] = k /\ \A v \in Workers : v # w => worker'[v] = worker[v]
  BY <1>3, <1>4, <1>5, <1>6
<1> QED BY <1>5, <1>6, <1>7 DEF OnlyMoves, L

LateSteps == {"loans", "repay", "release", "share", "commit"}

\* What a transaction must have found and locked to go on to the step s.
Ready(w, s) ==
    LET q == RequestOf(w)
        held == worker[w].held \cup Wanted(w)
    IN  /\ worker[w].step # "next" /\ s \in Steps \ {"next", "receipt"}
        /\ s \in {"fees", "charges", "loans"} => worker[w].draft = {}
        /\ s = "release" => worker[w].draft # {}
        /\ s = "repay" => Unposted(w) # {}
        /\ s \in {"share", "commit"} => PaidLoans(q) \subseteq worker[w].draft
        /\ <<"receipt", worker[w].r, 0>> \in held /\ receipts[worker[w].r].status = "pending"
        /\ s # "fees" => FeeLocks(q) \subseteq held /\ verifyAllocationsMatch(w)
        /\ s \in LateSteps /\ q.charge > 0 =>
               ChargeLocks(q) \subseteq held /\ q.charge <= outstanding(q.member, worker[w].r)

LEMMA Goes ==
    ASSUME ReceiptInv, NEW w \in Workers, NEW s, Ready(w, s), Granted(w), Continue(w, s)
    PROVE  ReceiptInv'
<1>1. Shape /\ Placed(w) /\ LoansDue(w) /\ s \in Steps /\ Goto(w, s)
  BY DEF ReceiptInv, WorkerOK, Ready, Continue
<1>2. /\ OnlyMoves(w)
      /\ worker'[w].step = s /\ worker'[w].held = worker[w].held \cup Wanted(w)
      /\ worker'[w].blocked = FALSE /\ worker'[w].r = worker[w].r
      /\ worker'[w].queue = worker[w].queue /\ worker'[w].draft = worker[w].draft
      /\ worker'[w].closing = worker[w].closing
  BY <1>1, GotoFields
<1>3. UNCHANGED <<receipts, charged, posted, loanOpen, active, faults>>
  BY DEF Continue
<1>4. RequestOf(w)' = RequestOf(w) /\ Ids' = Ids
  BY <1>2, <1>3 DEF RequestOf, Ids
<1>5. Placed(w)'
  <2>1. Unposted(w)' = Unposted(w) /\ PaidLoans(RequestOf(w))' = PaidLoans(RequestOf(w))
    BY <1>2, <1>4 DEF Unposted, PaidLoans
  <2> QED BY <1>1, <1>2, <1>4, <2>1 DEF Placed, Ready
<1>6. OwnsReceipt(w)'
  BY <1>2, <1>3 DEF OwnsReceipt, Ready
<1>7. FeesDue(w)'
  <2>1. FeeLocks(RequestOf(w))' = FeeLocks(RequestOf(w))
    BY <1>4 DEF FeeLocks
  <2>2. verifyAllocationsMatch(w)' <=> verifyAllocationsMatch(w)
    BY <1>2, <1>3, <1>4, SameSums DEF verifyAllocationsMatch, ReceiptOf
  <2> QED BY <1>2, <2>1, <2>2 DEF FeesDue, Ready
<1>8. ChargeDue(w)'
  <2>1. ChargeLocks(RequestOf(w))' = ChargeLocks(RequestOf(w))
    BY <1>4 DEF ChargeLocks
  <2>2. outstanding(RequestOf(w).member, worker[w].r)' = outstanding(RequestOf(w).member, worker[w].r)
    BY <1>2, <1>3, <1>4, SameSums
  <2> QED BY <1>2, <1>4, <2>1, <2>2 DEF ChargeDue, Ready, LateSteps
<1>9. LoansDue(w)'
  BY <1>1, <1>2, <1>3, <1>4, SameSums DEF LoansDue
<1>10. faults' \in 0 .. MaxFaults
  BY <1>1, <1>3 DEF Shape
<1> QED BY <1>2, <1>3, <1>5, <1>6, <1>7, <1>8, <1>9, <1>10, WorkerMoves DEF WorkerOK

\* The next posting is one that is still to be made.
LEMMA NextPostingFits ==
    ASSUME NEW w, NEW draft, NEW s, s = NextPosting(w, draft)
    PROVE  /\ s \in {"repay", "share", "commit"}
           /\ s = "repay" => PaidLoans(RequestOf(w)) \ draft # {}
           /\ s \in {"share", "commit"} => PaidLoans(RequestOf(w)) \subseteq draft
BY DEF NextPosting

\* What has been locked and found before a step is still there after it.
LEMMA StillReady ==
    ASSUME NEW w \in Workers, WorkerOK(w), worker[w].step \in LateSteps
    PROVE  /\ worker[w].step # "next"
           /\ <<"receipt", worker[w].r, 0>> \in worker[w].held /\ receipts[worker[w].r].status = "pending"
           /\ FeeLocks(RequestOf(w)) \subseteq worker[w].held /\ verifyAllocationsMatch(w)
           /\ RequestOf(w).charge > 0 =>
                  /\ ChargeLocks(RequestOf(w)) \subseteq worker[w].held
                  /\ RequestOf(w).charge <= outstanding(RequestOf(w).member, worker[w].r)
BY DEF WorkerOK, OwnsReceipt, FeesDue, ChargeDue, LateSteps

\* Receipts only change their status.
LEMMA StatusSet ==
    ASSUME Shape, NEW r \in Ids, NEW s \in Statuses, receipts' = SetStatus(r, s)
    PROVE  /\ receipts' \in Seq(Receipt) /\ Len(receipts') = Len(receipts) /\ Ids' = Ids
           /\ \A x \in Ids : /\ receipts'[x].fee = receipts[x].fee
                             /\ receipts'[x].request = receipts[x].request
                             /\ receipts'[x].status = IF x = r THEN s ELSE receipts[x].status
<1>1. receipts' = [receipts EXCEPT ![r].status = s]
  BY DEF SetStatus
<1>2. receipts \in Seq(Receipt) /\ receipts \in [Ids -> Receipt] /\ DOMAIN receipts = Ids
  BY DEF Shape, Ids
<1>3. receipts' \in [Ids -> Receipt]
  BY <1>1, <1>2 DEF Receipt
<1>4. Len(receipts) \in Nat
  BY <1>2
<1>5. receipts' \in Seq(Receipt) /\ Len(receipts') = Len(receipts)
  BY <1>3, <1>4 DEF Ids
<1>6. \A x \in Ids : receipts'[x] = IF x = r THEN [receipts[x] EXCEPT !.status = s] ELSE receipts[x]
  BY <1>1, <1>2
<1>7. \A x \in Ids : /\ receipts'[x].fee = receipts[x].fee
                     /\ receipts'[x].request = receipts[x].request
                     /\ receipts'[x].status = IF x = r THEN s ELSE receipts[x].status
  BY <1>2, <1>6 DEF Receipt
<1> QED BY <1>5, <1>7 DEF Ids

\* Two transactions never work on one receipt.
LEMMA OneOwner ==
    ASSUME Exclusive, NEW w \in Workers, NEW v \in Workers, v # w, OwnsReceipt(w), OwnsReceipt(v),
           worker[w].step \notin {"next", "receipt"}, worker[v].step \notin {"next", "receipt"}
    PROVE  worker[v].r # worker[w].r
BY DEF Exclusive, OwnsReceipt

\* A refused receipt posts nothing and gives up its rows.
LEMMA FailsWell ==
    ASSUME ReceiptInv, NEW w \in Workers, worker[w].step \notin {"next", "receipt"}, failReceipt(w)
    PROVE  ReceiptInv'
<1> DEFINE r == worker[w].r
           s == receiptFailureStatus(r)
<1>1. Shape /\ Placed(w) /\ OwnsReceipt(w) /\ r \in Ids /\ receipts[r].status = "pending"
  BY DEF ReceiptInv, WorkerOK, Placed, OwnsReceipt
<1>2. s \in Statuses /\ s \notin {"pending", "completed"}
  BY DEF receiptFailureStatus, Statuses
<1>3. /\ receipts' = SetStatus(r, s) /\ posted' = posted
      /\ worker' = [worker EXCEPT ![w] = Done(w)]
      /\ UNCHANGED <<charged, loanOpen, active, faults>>
  BY DEF failReceipt, KeptAfterFailure, ReceiptOf
<1> HIDE DEF s, r
<1>4. /\ receipts' \in Seq(Receipt) /\ Len(receipts') = Len(receipts) /\ Ids' = Ids
      /\ \A x \in Ids : /\ receipts'[x].fee = receipts[x].fee
                        /\ receipts'[x].request = receipts[x].request
                        /\ receipts'[x].status = IF x = r THEN s ELSE receipts[x].status
  BY <1>1, <1>2, <1>3, StatusSet
<1>5. OnlyMoves(w) /\ WorkerOK(w)'
  BY <1>1, <1>3, <1>4, EndsWell
<1>6. Shape'
  BY <1>1, <1>3, <1>4, <1>5 DEF Shape, PostedRows, OnlyMoves
<1>7. Quiet
  BY <1>1, <1>3, <1>4, <1>6, IdsTyped DEF Quiet
<1>8. AllOrNothing' /\ DebtsPaidOnce'
  BY <1>1, <1>2, <1>4, <1>7, QuietBooks DEF ReceiptInv
<1>9. \A v \in Workers : WorkerOK(v)'
  <2> SUFFICES ASSUME NEW v \in Workers, v # w PROVE WorkerOK(v)'
    BY <1>5
  <2>1. worker'[v] = worker[v] /\ WorkerOK(v)
    BY <1>5 DEF OnlyMoves, ReceiptInv
  <2>2. worker[v].step \notin {"next", "receipt"} => worker[v].r \in Ids /\ worker[v].r # r
    BY <1>1, <2>1, OneOwner DEF ReceiptInv, WorkerOK, Placed, r
  <2> QED BY <1>4, <1>7, <2>1, <2>2, QuietWorker
<1>10. Exclusive'
  BY <1>5, StaysExclusive DEF ReceiptInv
<1> QED BY <1>6, <1>8, <1>9, <1>10 DEF ReceiptInv

-----------------------------------------------------------------------------
(* The actions of a worker.                                                *)

LEMMA ListKeeps ==
    ASSUME ReceiptInv, NEW w \in Workers, ListPendingReceipts(w)
    PROVE  ReceiptInv'
<1> DEFINE Q == {r \in Ids : receipts[r].status = "pending"}
<1>1. /\ worker' = [worker EXCEPT ![w].queue = Q] /\ worker[w].step = "next"
      /\ UNCHANGED <<receipts, charged, posted, loanOpen, active, faults>>
  BY DEF ListPendingReceipts
<1>2. Shape /\ WorkerOK(w) /\ worker \in [Workers -> Transaction]
  BY DEF ReceiptInv, Shape
<1>3. Q \in SUBSET Nat /\ Q \subseteq Ids
  BY <1>2, IdsTyped
<1> HIDE DEF Q
<1>4. /\ worker' \in [Workers -> Transaction] /\ \A v \in Workers : v # w => worker'[v] = worker[v]
      /\ worker'[w].step = "next" /\ worker'[w].held = worker[w].held /\ worker'[w].draft = worker[w].draft
      /\ worker'[w].closing = worker[w].closing /\ worker'[w].blocked = worker[w].blocked
      /\ worker'[w].queue = Q
  BY <1>1, <1>2, <1>3 DEF Transaction
<1>5. OnlyMoves(w)
  BY <1>4 DEF OnlyMoves
<1>6. WorkerOK(w)'
  <2>1. Ids' = Ids
    BY <1>1 DEF Ids
  <2>2. Placed(w)'
    BY <1>1, <1>2, <1>3, <1>4, <2>1 DEF WorkerOK, Placed
  <2>3. OwnsReceipt(w)' /\ FeesDue(w)' /\ ChargeDue(w)'
    BY <1>4 DEF OwnsReceipt, FeesDue, ChargeDue
  <2>4. LoansDue(w)'
    BY <1>1, <1>2, <1>4 DEF WorkerOK, Placed, LoansDue
  <2> QED BY <2>2, <2>3, <2>4 DEF WorkerOK
<1>7. faults' \in 0 .. MaxFaults
  BY <1>1, <1>2 DEF Shape
<1> QED BY <1>1, <1>5, <1>6, <1>7, WorkerMoves

LEMMA BeginKeeps ==
    ASSUME ReceiptInv, NEW w \in Workers, Begin(w)
    PROVE  ReceiptInv'
<1>1. PICK r \in worker[w].queue :
          /\ worker' = [worker EXCEPT ![w].r = r, ![w].step = "receipt"] /\ worker[w].step = "next"
          /\ UNCHANGED <<receipts, charged, posted, loanOpen, active, faults>>
  BY DEF Begin
<1>2. Shape /\ WorkerOK(w) /\ worker \in [Workers -> Transaction]
  BY DEF ReceiptInv, Shape
<1>3. r \in Nat /\ r \in Ids /\ "receipt" \in Steps
  BY <1>1, <1>2, IdsTyped DEF WorkerOK, Placed, Steps
<1>4. /\ worker' \in [Workers -> Transaction] /\ \A v \in Workers : v # w => worker'[v] = worker[v]
      /\ worker'[w].step = "receipt" /\ worker'[w].held = worker[w].held /\ worker'[w].draft = worker[w].draft
      /\ worker'[w].closing = worker[w].closing /\ worker'[w].r = r
      /\ worker'[w].queue = worker[w].queue
  BY <1>1, <1>2, <1>3 DEF Transaction
<1>5. OnlyMoves(w)
  BY <1>4 DEF OnlyMoves
<1>6. WorkerOK(w)'
  <2>1. Ids' = Ids
    BY <1>1 DEF Ids
  <2>2. Placed(w)'
    BY <1>1, <1>2, <1>3, <1>4, <2>1 DEF WorkerOK, Placed
  <2>3. OwnsReceipt(w)' /\ FeesDue(w)' /\ ChargeDue(w)'
    BY <1>4 DEF OwnsReceipt, FeesDue, ChargeDue
  <2>4. LoansDue(w)'
    BY <1>1, <1>2, <1>4 DEF WorkerOK, Placed, LoansDue
  <2> QED BY <2>2, <2>3, <2>4 DEF WorkerOK
<1>7. faults' \in 0 .. MaxFaults
  BY <1>1, <1>2 DEF Shape
<1> QED BY <1>1, <1>5, <1>6, <1>7, WorkerMoves

\* A transaction that ends without having changed anything.
LEMMA EndsQuietly ==
    ASSUME ReceiptInv, NEW w \in Workers, faults' \in 0 .. MaxFaults,
           UNCHANGED <<receipts, charged, posted, loanOpen, active>>,
           \/ worker' = [worker EXCEPT ![w] = Done(w)]
           \/ worker' = [worker EXCEPT ![w] = Idle]
    PROVE  ReceiptInv'
<1>1. Shape /\ Placed(w) /\ Ids' = Ids
  BY DEF ReceiptInv, WorkerOK, Ids
<1>2. OnlyMoves(w) /\ WorkerOK(w)'
  BY <1>1, EndsWell
<1> QED BY <1>2, WorkerMoves

LEMMA LockReceiptKeeps ==
    ASSUME ReceiptInv, NEW w \in Workers, LockReceipt(w)
    PROVE  ReceiptInv'
<1>1. worker[w].step = "receipt" /\ Granted(w) /\ Wanted(w) = {<<"receipt", worker[w].r, 0>>}
  BY DEF LockReceipt, At, Wanted, ReceiptOf
<1>2. CASE receipts[worker[w].r].status = "pending"
  <2>1. Continue(w, "fees")
    BY <1>2 DEF LockReceipt, Continue, ReceiptOf
  <2>2. Ready(w, "fees")
    BY <1>1, <1>2 DEF Ready, Steps, LateSteps, ReceiptInv, WorkerOK, Placed
  <2> QED BY <1>1, <2>1, <2>2, Goes
<1>3. CASE receipts[worker[w].r].status # "pending"
  <2>1. /\ worker' = [worker EXCEPT ![w] = Done(w)]
        /\ UNCHANGED <<receipts, charged, posted, loanOpen, active, faults>>
    BY <1>3 DEF LockReceipt, ReceiptOf
  <2>2. faults' \in 0 .. MaxFaults
    BY <2>1 DEF ReceiptInv, Shape
  <2> QED BY <2>1, <2>2, EndsQuietly
<1> QED BY <1>2, <1>3

LEMMA CheckFeesKeeps ==
    ASSUME ReceiptInv, NEW w \in Workers, CheckFees(w)
    PROVE  ReceiptInv'
<1>1. /\ worker[w].step = "fees" /\ Granted(w) /\ Wanted(w) = FeeLocks(RequestOf(w)) /\ WorkerOK(w)
  BY DEF CheckFees, At, Wanted, ReceiptInv
<1>2. CASE verifyAllocationsMatch(w)
  <2> DEFINE s == IF RequestOf(w).charge > 0 THEN "charges" ELSE "loans"
  <2>1. Continue(w, s)
    BY <1>2 DEF CheckFees
  <2>2. s \in {"charges", "loans"} /\ (s = "loans" => ~(RequestOf(w).charge > 0))
    OBVIOUS
  <2> HIDE DEF s
  <2>3. Ready(w, s)
    BY <1>1, <1>2, <2>2 DEF Ready, Steps, LateSteps, WorkerOK, Placed, OwnsReceipt
  <2> QED BY <1>1, <2>1, <2>3, Goes
<1>3. CASE ~verifyAllocationsMatch(w)
  BY <1>1, <1>3, FailsWell DEF CheckFees
<1> QED BY <1>2, <1>3

LEMMA CheckChargesKeeps ==
    ASSUME ReceiptInv, NEW w \in Workers, validateChargeAllocations(w)
    PROVE  ReceiptInv'
<1>1. /\ worker[w].step = "charges" /\ Granted(w) /\ Wanted(w) = ChargeLocks(RequestOf(w)) /\ WorkerOK(w)
  BY DEF validateChargeAllocations, At, Wanted, ReceiptInv
<1>2. CASE RequestOf(w).charge <= outstanding(RequestOf(w).member, ReceiptOf(w))
  <2>1. Continue(w, "loans")
    BY <1>2 DEF validateChargeAllocations
  <2>2. Ready(w, "loans")
    BY <1>1, <1>2 DEF Ready, Steps, LateSteps, WorkerOK, Placed, OwnsReceipt, FeesDue, ReceiptOf
  <2> QED BY <1>1, <2>1, <2>2, Goes
<1>3. CASE ~(RequestOf(w).charge <= outstanding(RequestOf(w).member, ReceiptOf(w)))
  BY <1>1, <1>3, FailsWell DEF validateChargeAllocations
<1> QED BY <1>2, <1>3

LEMMA LockLoansKeeps ==
    ASSUME ReceiptInv, NEW w \in Workers, LockMemberContributionLoans(w)
    PROVE  ReceiptInv'
<1> DEFINE s == NextPosting(w, {})
<1>1. worker[w].step = "loans" /\ Granted(w) /\ WorkerOK(w) /\ Continue(w, s)
  BY DEF LockMemberContributionLoans, At, ReceiptInv
<1>2. /\ s \in {"repay", "share", "commit"}
      /\ s = "repay" => PaidLoans(RequestOf(w)) \ {} # {}
      /\ s \in {"share", "commit"} => PaidLoans(RequestOf(w)) \subseteq {}
  BY NextPostingFits
<1> HIDE DEF s
<1>3. worker[w].draft = {} /\ worker[w].step \in LateSteps
  BY <1>1 DEF WorkerOK, Placed, LateSteps
<1>4. Ready(w, s)
  BY <1>1, <1>2, <1>3, StillReady DEF Ready, Steps, Unposted
<1> QED BY <1>1, <1>4, Goes

LEMMA ReleaseKeeps ==
    ASSUME ReceiptInv, NEW w \in Workers, ReleaseLoanSecurity(w)
    PROVE  ReceiptInv'
<1>1. PICK s \in {"release", NextPosting(w, worker[w].draft)} :
          worker[w].step = "release" /\ Granted(w) /\ WorkerOK(w) /\ Continue(w, s)
  BY DEF ReleaseLoanSecurity, At, ReceiptInv
<1>2. /\ s \in {"release", "repay", "share", "commit"}
      /\ s = "repay" => PaidLoans(RequestOf(w)) \ worker[w].draft # {}
      /\ s \in {"share", "commit"} => PaidLoans(RequestOf(w)) \subseteq worker[w].draft
  BY <1>1, NextPostingFits
<1>3. worker[w].draft # {} /\ worker[w].step \in LateSteps
  BY <1>1 DEF WorkerOK, Placed, LateSteps
<1>4. Ready(w, s)
  BY <1>1, <1>2, <1>3, StillReady DEF Ready, Steps, Unposted
<1> QED BY <1>1, <1>4, Goes

LEMMA PurchaseKeeps ==
    ASSUME ReceiptInv, NEW w \in Workers, PurchaseShares(w)
    PROVE  ReceiptInv'
<1>1. worker[w].step = "share" /\ Granted(w) /\ WorkerOK(w)
  BY DEF PurchaseShares, At, ReceiptInv
<1>2. CASE Continue(w, "commit")
  <2>1. worker[w].step \in LateSteps /\ PaidLoans(RequestOf(w)) \subseteq worker[w].draft
    BY <1>1 DEF LateSteps, WorkerOK, Placed
  <2>2. Ready(w, "commit")
    BY <1>1, <2>1, StillReady DEF Ready, Steps
  <2> QED BY <1>1, <1>2, <2>2, Goes
<1>3. CASE failReceipt(w)
  BY <1>1, <1>3, FailsWell
<1> QED BY <1>2, <1>3 DEF PurchaseShares

LEMMA WaitKeeps ==
    ASSUME ReceiptInv, NEW w \in Workers, Wait(w)
    PROVE  ReceiptInv'
<1>1. /\ worker' = [worker EXCEPT ![w].blocked = TRUE] /\ worker[w].step # "next"
      /\ UNCHANGED <<receipts, charged, posted, loanOpen, active, faults>>
  BY DEF Wait
<1>2. Shape /\ WorkerOK(w) /\ worker \in [Workers -> Transaction]
  BY DEF ReceiptInv, Shape
<1>3. /\ worker' \in [Workers -> Transaction] /\ \A v \in Workers : v # w => worker'[v] = worker[v]
      /\ worker'[w].step = worker[w].step /\ worker'[w].held = worker[w].held
      /\ worker'[w].draft = worker[w].draft /\ worker'[w].closing = worker[w].closing
      /\ worker'[w].r = worker[w].r /\ worker'[w].queue = worker[w].queue
  BY <1>1, <1>2 DEF Transaction
<1>4. OnlyMoves(w)
  BY <1>3 DEF OnlyMoves
<1>5. RequestOf(w)' = RequestOf(w) /\ Ids' = Ids
  BY <1>1, <1>3 DEF RequestOf, Ids
<1>6. WorkerOK(w)'
  <2>1. Unposted(w)' = Unposted(w) /\ PaidLoans(RequestOf(w))' = PaidLoans(RequestOf(w))
    BY <1>3, <1>5 DEF Unposted, PaidLoans
  <2>2. Placed(w)'
    BY <1>1, <1>2, <1>3, <1>5, <2>1 DEF WorkerOK, Placed
  <2>3. OwnsReceipt(w)'
    BY <1>1, <1>2, <1>3 DEF WorkerOK, OwnsReceipt
  <2>4. verifyAllocationsMatch(w)' <=> verifyAllocationsMatch(w)
    BY <1>1, <1>3, <1>5, SameSums DEF verifyAllocationsMatch, ReceiptOf
  <2>5. FeeLocks(RequestOf(w))' = FeeLocks(RequestOf(w)) /\ ChargeLocks(RequestOf(w))' = ChargeLocks(RequestOf(w))
    BY <1>5 DEF FeeLocks, ChargeLocks
  <2>6. outstanding(RequestOf(w).member, worker[w].r)' = outstanding(RequestOf(w).member, worker[w].r)
    BY <1>1, <1>3, <1>5, SameSums
  <2>7. FeesDue(w)'
    BY <1>2, <1>3, <2>4, <2>5 DEF WorkerOK, FeesDue
  <2>8. ChargeDue(w)'
    BY <1>2, <1>3, <1>5, <2>5, <2>6 DEF WorkerOK, ChargeDue
  <2>9. LoansDue(w)'
    BY <1>1, <1>2, <1>3, <1>5, SameSums DEF WorkerOK, LoansDue
  <2> QED BY <2>2, <2>3, <2>7, <2>8, <2>9 DEF WorkerOK
<1>7. faults' \in 0 .. MaxFaults
  BY <1>1, <1>2 DEF Shape
<1> QED BY <1>1, <1>4, <1>6, <1>7, WorkerMoves

\* A loan joins the draft, locked, open, and closing if this payment settles it.
LEMMA RepayKeeps ==
    ASSUME ReceiptInv, NEW w \in Workers, RecordRepayment(w)
    PROVE  ReceiptInv'
<1> DEFINE l == Min(Unposted(w))
           settles == loanPaid(l) + RequestOf(w).loan[l] >= Debt[l]
           s == IF settles THEN "release" ELSE NextPosting(w, worker[w].draft \cup {l})
           D == worker[w].draft \cup {l}
           C == IF settles THEN worker[w].closing \cup {l} ELSE worker[w].closing
           L == Wanted(w)
<1>1. /\ worker[w].step = "repay" /\ Granted(w) /\ WorkerOK(w) /\ Shape /\ loanOpen[l]
      /\ L = {<<"loan", l, 0>>}
  BY DEF RecordRepayment, At, ReceiptInv, Wanted, LoanLocks
<1>2. l \in Unposted(w) /\ l \in Loans
  <2>1. Loans \subseteq Nat
    BY ReceiptConstants
  <2>2. Unposted(w) \in SUBSET Nat /\ Unposted(w) # {} /\ Unposted(w) \subseteq Loans
    BY <1>1, <2>1 DEF WorkerOK, Placed, Unposted, PaidLoans
  <2>3. Min(Unposted(w)) \in Unposted(w)
    BY <2>2, LeastNat
  <2> QED BY <2>2, <2>3
<1>3. /\ worker' = [worker EXCEPT ![w].step = s, ![w].held = @ \cup L, ![w].blocked = FALSE,
                                  ![w].draft = D, ![w].closing = C]
      /\ UNCHANGED <<receipts, charged, posted, loanOpen, active, faults>>
  <2>1. worker \in [Workers -> Transaction]
    BY <1>1 DEF Shape
  <2> QED BY <2>1 DEF RecordRepayment
<1>4. /\ s \in {"release", "repay", "share", "commit"}
      /\ s = "repay" => PaidLoans(RequestOf(w)) \ D # {}
      /\ s \in {"share", "commit"} => PaidLoans(RequestOf(w)) \subseteq D
  BY NextPostingFits
<1>5. L \subseteq Lock
  BY <1>1, WantedTyped DEF WorkerOK
<1>6. D \in SUBSET Loans /\ C \in SUBSET Loans /\ s \in Steps /\ C \subseteq D
  <2>1. worker[w].draft \in SUBSET Loans /\ worker[w].closing \in SUBSET Loans
    BY <1>1, WorkerTyped
  <2>2. worker[w].closing \subseteq worker[w].draft
    BY <1>1 DEF WorkerOK, Placed
  <2>3. s \in Steps
    BY <1>4 DEF Steps
  <2> QED BY <1>2, <2>1, <2>2, <2>3
<1>7. IsFiniteSet(D)
  <2>1. IsFiniteSet(worker[w].draft)
    BY <1>1 DEF WorkerOK, Placed
  <2> QED BY <2>1, FS_AddElement
<1>8. (l \in C <=> settles) /\ \A x \in worker[w].draft : x \in C <=> x \in worker[w].closing
  <2>1. l \notin worker[w].draft
    BY <1>2 DEF Unposted
  <2>2. worker[w].closing \subseteq worker[w].draft
    BY <1>1 DEF WorkerOK, Placed
  <2> QED BY <2>1, <2>2
<1>9. worker[w].step # "next" /\ D \subseteq PaidLoans(RequestOf(w)) /\ D # {}
  BY <1>1, <1>2 DEF WorkerOK, Placed, Unposted
<1>10. l \in D /\ \A x \in D : x = l \/ x \in worker[w].draft
  OBVIOUS
<1>11. worker \in [Workers -> Transaction] /\ worker[w] \in Transaction
  BY <1>1 DEF Shape
<1>12. settles = (loanPaid(l) + RequestOf(w).loan[l] >= Debt[l])
  OBVIOUS
<1> HIDE DEF s, D, C, L, settles, l
<1>13. /\ worker' \in [Workers -> Transaction] /\ \A v \in Workers : v # w => worker'[v] = worker[v]
       /\ worker'[w].step = s /\ worker'[w].held = worker[w].held \cup L
       /\ worker'[w].draft = D /\ worker'[w].closing = C /\ worker'[w].blocked = FALSE
       /\ worker'[w].r = worker[w].r /\ worker'[w].queue = worker[w].queue
  BY <1>3, <1>5, <1>6, <1>11 DEF Transaction
<1>14. OnlyMoves(w)
  BY <1>1, <1>13 DEF OnlyMoves, L
<1>15. RequestOf(w)' = RequestOf(w) /\ Ids' = Ids
  BY <1>3, <1>13 DEF RequestOf, Ids
<1>16. Placed(w)'
  <2>1. Unposted(w)' = PaidLoans(RequestOf(w)) \ D /\ PaidLoans(RequestOf(w))' = PaidLoans(RequestOf(w))
    BY <1>13, <1>15 DEF Unposted, PaidLoans
  <2>2. worker[w].r \in Ids /\ worker[w].queue \subseteq Ids
    BY <1>1 DEF WorkerOK, Placed
  <2>3. s \notin {"next", "receipt", "fees", "charges", "loans"}
    BY <1>4
  <2> QED BY <1>4, <1>6, <1>7, <1>9, <1>13, <1>15, <2>1, <2>2, <2>3 DEF Placed
<1>17. OwnsReceipt(w)'
  BY <1>1, <1>3, <1>13 DEF WorkerOK, OwnsReceipt
<1>18. FeesDue(w)'
  <2>1. verifyAllocationsMatch(w)' <=> verifyAllocationsMatch(w)
    BY <1>3, <1>13, <1>15, SameSums DEF verifyAllocationsMatch, ReceiptOf
  <2>2. FeeLocks(RequestOf(w))' = FeeLocks(RequestOf(w))
    BY <1>15 DEF FeeLocks
  <2> QED BY <1>1, <1>13, <2>1, <2>2 DEF WorkerOK, FeesDue
<1>19. ChargeDue(w)'
  <2>1. outstanding(RequestOf(w).member, worker[w].r)' = outstanding(RequestOf(w).member, worker[w].r)
    BY <1>3, <1>13, <1>15, SameSums
  <2>2. ChargeLocks(RequestOf(w))' = ChargeLocks(RequestOf(w))
    BY <1>15 DEF ChargeLocks
  <2> QED BY <1>1, <1>13, <1>15, <2>1, <2>2 DEF WorkerOK, ChargeDue
<1>20. LoansDue(w)'
  <2> SUFFICES ASSUME NEW x \in D
               PROVE  /\ <<"loan", x, 0>> \in worker'[w].held
                      /\ loanOpen'[x]
                      /\ x \in worker'[w].closing <=> loanPaid(x)' + RequestOf(w)'.loan[x] >= Debt[x]
    BY <1>13 DEF LoansDue
  <2>1. loanPaid(x)' = loanPaid(x)
    BY <1>3, SameSums
  <2>2. CASE x = l
    BY <1>1, <1>3, <1>8, <1>12, <1>13, <1>15, <2>1, <2>2
  <2>3. CASE x \in worker[w].draft
    BY <1>1, <1>3, <1>8, <1>13, <1>15, <2>1, <2>3 DEF WorkerOK, LoansDue
  <2> QED BY <1>10, <2>2, <2>3
<1>21. faults' \in 0 .. MaxFaults
  BY <1>1, <1>3 DEF Shape
<1> QED BY <1>3, <1>14, <1>16, <1>17, <1>18, <1>19, <1>20, <1>21, WorkerMoves DEF WorkerOK

\* All allocations are posted at once, and the loans they settle are closed.
LEMMA CommitKeeps ==
    ASSUME ReceiptInv, NEW w \in Workers, Commit(w)
    PROVE  ReceiptInv'
<1> DEFINE r == worker[w].r
           q == RequestOf(w)
<1>1. /\ worker[w].step = "commit" /\ WorkerOK(w) /\ Shape /\ AllOrNothing /\ DebtsPaidOnce /\ Exclusive
      /\ r \in Ids /\ receipts[r].status = "pending" /\ q = receipts[r].request
      /\ worker[w].draft = PaidLoans(q) /\ worker[w].closing \subseteq worker[w].draft
  BY DEF Commit, At, ReceiptInv, WorkerOK, Placed, OwnsReceipt, RequestOf
<1>2. /\ receipts' = SetStatus(r, "completed")
      /\ posted' = posted \cup {<<r, t[1], t[2]>> : t \in AllocationsOf(r)}
      /\ loanOpen' = [l \in Loans |-> loanOpen[l] /\ l \notin worker[w].closing]
      /\ worker' = [worker EXCEPT ![w] = Done(w)]
      /\ UNCHANGED <<charged, active, faults>>
  BY DEF Commit, ReceiptOf
<1>3. /\ q \in Requests /\ q.charge \in Nat /\ q.loan \in [Loans -> Nat] /\ receipts[r].fee \in Nat
      /\ Charge \in [Members -> Nat] /\ Debt \in [Loans -> Nat] /\ Fee \in Nat
  BY <1>1, ReceiptTyped, RequestTyped, ReceiptConstants
<1>4. worker[w].step \in LateSteps
  BY <1>1 DEF LateSteps
<1>5. /\ <<"receipt", r, 0>> \in worker[w].held
      /\ FeeLocks(q) \subseteq worker[w].held /\ verifyAllocationsMatch(w)
      /\ q.charge > 0 => ChargeLocks(q) \subseteq worker[w].held /\ q.charge <= outstanding(q.member, r)
  BY <1>1, <1>4, StillReady
<1>6. \A l \in PaidLoans(q) : /\ <<"loan", l, 0>> \in worker[w].held /\ loanOpen[l]
                              /\ l \in worker[w].closing <=> loanPaid(l) + q.loan[l] >= Debt[l]
  BY <1>1 DEF WorkerOK, LoansDue
<1> HIDE DEF q, r
<1>7. /\ receipts' \in Seq(Receipt) /\ Ids' = Ids
      /\ \A x \in Ids : /\ receipts'[x].fee = receipts[x].fee
                        /\ receipts'[x].request = receipts[x].request
                        /\ receipts'[x].status = IF x = r THEN "completed" ELSE receipts[x].status
  <2>1. "completed" \in Statuses
    BY DEF Statuses
  <2> QED BY <1>1, <1>2, <2>1, StatusSet
<1>8. OnlyMoves(w) /\ WorkerOK(w)'
  BY <1>1, <1>2, <1>7, EndsWell DEF WorkerOK
<1>9. Shape'
  <2>1. posted' \subseteq PostedRows'
    <3>1. posted \subseteq PostedRows /\ PostedRows' = PostedRows
      BY <1>1, <1>7 DEF Shape, PostedRows
    <3>2. {<<r, t[1], t[2]>> : t \in AllocationsOf(r)} \subseteq PostedRows
      BY <1>1 DEF PostedRows, AllocationsOf
    <3> QED BY <1>2, <3>1, <3>2
  <2>2. loanOpen' \in [Loans -> BOOLEAN]
    BY <1>2
  <2> QED BY <1>1, <1>2, <1>7, <1>8, <2>1, <2>2 DEF Shape, OnlyMoves
<1>10. Posts(r)
  BY <1>1, <1>2, <1>9 DEF Posts
<1>11. /\ \A m, p, e : feesPaid(m, p, e)' = feesPaid(m, p, e)
              + (IF q.member = m /\ q.period = p /\ r # e THEN receipts[r].fee ELSE 0)
       /\ \A m, e : chargePaid(m, e)' = chargePaid(m, e) + (IF q.member = m /\ r # e THEN q.charge ELSE 0)
       /\ \A l \in Loans : loanPaid(l)' = loanPaid(l) + q.loan[l]
  BY <1>1, <1>10, PostsSums
<1>12. /\ \A m, p, e : feesPaid(m, p, e) \in Nat
       /\ \A m, e : chargePaid(m, e) \in Nat
       /\ \A l \in Loans : loanPaid(l) \in Nat
  BY <1>1, PaidTyped
<1>13. AllOrNothing'
  <2> SUFFICES ASSUME NEW x \in Ids
               PROVE  {t \in Targets : <<x, t[1], t[2]>> \in posted'}
                        = IF receipts'[x].status = "completed" THEN AllocationsOf(x)' ELSE {}
    BY <1>7 DEF AllOrNothing
  <2>1. AllocationsOf(x)' = AllocationsOf(x)
    BY <1>10, PostsReceipts DEF AllocationsOf
  <2>2. ASSUME NEW t \in Targets
        PROVE  <<x, t[1], t[2]>> \in posted' <=>
                   <<x, t[1], t[2]>> \in posted \/ (x = r /\ AmountOf(r, t[1], t[2]) > 0)
    <3>1. <<t[1], t[2]>> \in Targets
      BY TargetCases
    <3>2. ASSUME NEW a, NEW b, <<a, b>> \in Targets
          PROVE  <<x, a, b>> \in posted' <=> <<x, a, b>> \in posted \/ (x = r /\ AmountOf(r, a, b) > 0)
      BY <1>10, <3>2, PostsRows
    <3> QED BY <3>1, <3>2
  <2>3. CASE x = r
    <3>1. \A t \in Targets : <<x, t[1], t[2]>> \notin posted
      BY <1>1, <2>3 DEF AllOrNothing
    <3> QED BY <1>7, <2>1, <2>2, <2>3, <3>1 DEF AllocationsOf
  <2>4. CASE x # r
    BY <1>1, <1>7, <2>1, <2>2, <2>4 DEF AllOrNothing
  <2> QED BY <2>3, <2>4
<1>14. FeesCollectedOnce'
  <2> SUFFICES ASSUME NEW x \in Ids, NEW m, NEW p,
                      m = receipts[x].request.member, p = receipts[x].request.period
               PROVE  feesPaid(m, p, 0)' <= Fee
    BY <1>7 DEF FeesCollectedOnce
  <2>1. feesPaid(m, p, 0) <= Fee
    BY <1>1 DEF DebtsPaidOnce, FeesCollectedOnce
  <2>2. CASE q.member = m /\ q.period = p
    <3>1. receipts[r].fee = monthlyFees(m, p, r)
      BY <1>1, <1>5, <2>2 DEF verifyAllocationsMatch, ReceiptOf, q, r
    <3>2. feesPaid(m, p, r) = feesPaid(m, p, 0)
      BY <1>10, ExceptNothing
    <3>3. Fee - feesPaid(m, p, 0) \in Int /\ Fee - feesPaid(m, p, 0) >= 0
      BY <1>3, <1>12, <2>1
    <3>4. receipts[r].fee = Fee - feesPaid(m, p, 0)
      BY <3>1, <3>2, <3>3, MaxWithZero DEF monthlyFees
    <3>5. feesPaid(m, p, 0)' = feesPaid(m, p, 0) + (IF r # 0 THEN receipts[r].fee ELSE 0)
      BY <1>11, <2>2
    <3> QED BY <1>3, <1>12, <2>1, <3>4, <3>5
  <2>3. CASE ~(q.member = m /\ q.period = p)
    <3>1. feesPaid(m, p, 0)' = feesPaid(m, p, 0) + 0
      BY <1>11, <2>3
    <3> QED BY <1>12, <2>1, <3>1
  <2> QED BY <2>2, <2>3
<1>15. ChargesNeverOverpaid'
  <2> SUFFICES ASSUME NEW m \in Members
               PROVE  chargePaid(m, 0)' <= (IF m \in charged THEN Charge[m] ELSE 0)
    BY <1>2 DEF ChargesNeverOverpaid
  <2> DEFINE b == IF m \in charged THEN Charge[m] ELSE 0
  <2>1. chargePaid(m, 0) <= b /\ b \in Nat /\ chargePaid(m, 0) \in Nat
    BY <1>1, <1>3, <1>12 DEF DebtsPaidOnce, ChargesNeverOverpaid
  <2>2. CASE q.member = m /\ q.charge > 0
    <3>1. q.charge <= b - chargePaid(m, r)
      BY <1>5, <2>2 DEF outstanding
    <3>2. chargePaid(m, r) = chargePaid(m, 0)
      BY <1>10, ExceptNothing
    <3>3. chargePaid(m, 0)' = chargePaid(m, 0) + (IF r # 0 THEN q.charge ELSE 0)
      BY <1>11, <2>2
    <3> HIDE DEF b
    <3>4. chargePaid(m, 0)' <= b
      BY <1>3, <2>1, <3>1, <3>2, <3>3
    <3> QED BY <3>4 DEF b
  <2>3. CASE ~(q.member = m /\ q.charge > 0)
    <3>1. chargePaid(m, 0)' = chargePaid(m, 0) + 0
      BY <1>3, <1>11, <2>3
    <3> HIDE DEF b
    <3>2. chargePaid(m, 0)' <= b
      BY <2>1, <3>1
    <3> QED BY <3>2 DEF b
  <2> QED BY <2>2, <2>3
<1>16. ClosedIffSettled'
  <2> SUFFICES ASSUME NEW l \in Loans PROVE loanOpen'[l] <=> loanPaid(l)' < Debt[l]
    BY DEF ClosedIffSettled
  <2>1. loanPaid(l)' = loanPaid(l) + q.loan[l] /\ loanPaid(l) \in Nat /\ q.loan[l] \in Nat /\ Debt[l] \in Nat
    BY <1>3, <1>11, <1>12
  <2>2. loanOpen[l] <=> loanPaid(l) < Debt[l]
    BY <1>1 DEF DebtsPaidOnce, ClosedIffSettled
  <2>3. loanOpen'[l] <=> loanOpen[l] /\ l \notin worker[w].closing
    BY <1>2
  <2>4. CASE l \in PaidLoans(q)
    <3>1. loanOpen[l] /\ (l \in worker[w].closing <=> loanPaid(l) + q.loan[l] >= Debt[l])
      BY <1>6, <2>4
    <3>2. loanOpen'[l] <=> ~(loanPaid(l)' >= Debt[l])
      BY <2>1, <2>3, <3>1
    <3>3. loanPaid(l)' \in Nat /\ Debt[l] \in Nat
      BY <2>1
    <3> QED BY <3>2, <3>3
  <2>5. CASE l \notin PaidLoans(q)
    <3>1. q.loan[l] = 0 /\ l \notin worker[w].closing
      BY <1>1, <2>1, <2>5 DEF PaidLoans
    <3> QED BY <2>1, <2>2, <2>3, <3>1
  <2> QED BY <2>4, <2>5
<1>17. ASSUME NEW v \in Workers, v # w PROVE WorkerOK(v)'
  <2>1. WorkerOK(v) /\ worker'[v] = worker[v] /\ worker[v].held \cap worker[w].held = {}
    BY <1>1, <1>8, <1>17 DEF ReceiptInv, OnlyMoves, Exclusive
  <2>2. worker[v].step # "next" => /\ worker[v].r \in Ids /\ RequestOf(v)' = RequestOf(v)
                                   /\ RequestOf(v) \in Requests
    BY <1>1, <1>7, <2>1, ReceiptTyped DEF WorkerOK, Placed, RequestOf
  <2>3. worker[v].step \notin {"next", "receipt"} => worker[v].r # r
    BY <1>5, <2>1 DEF WorkerOK, OwnsReceipt
  <2>4. Placed(v)'
    <3>1. worker[v].step # "next" => /\ Unposted(v)' = Unposted(v)
                                     /\ PaidLoans(RequestOf(v))' = PaidLoans(RequestOf(v))
      BY <2>1, <2>2 DEF Unposted, PaidLoans
    <3> QED BY <1>7, <2>1, <2>2, <3>1 DEF WorkerOK, Placed
  <2>5. OwnsReceipt(v)'
    BY <1>7, <2>1, <2>2, <2>3 DEF WorkerOK, OwnsReceipt
  <2>6. FeesDue(v)'
    <3> SUFFICES ASSUME worker[v].step \notin {"next", "receipt", "fees"}
                 PROVE  FeeLocks(RequestOf(v))' \subseteq worker[v].held /\ verifyAllocationsMatch(v)'
      BY <2>1 DEF FeesDue
    <3>1. FeeLocks(RequestOf(v)) \subseteq worker[v].held /\ verifyAllocationsMatch(v)
      BY <2>1 DEF WorkerOK, FeesDue
    <3>2. FeeLocks(RequestOf(v))' = FeeLocks(RequestOf(v))
      BY <2>2 DEF FeeLocks
    <3>3. ~(q.member = RequestOf(v).member /\ q.period = RequestOf(v).period)
      BY <1>5, <2>1, <3>1 DEF FeeLocks
    <3> DEFINE m == RequestOf(v).member
               p == RequestOf(v).period
               e == worker[v].r
    <3>4. m' = m /\ p' = p /\ e' = e
      BY <2>1, <2>2
    <3>5. feesPaid(m, p, e)' = feesPaid(m, p, e) + 0
      BY <1>11, <3>3, <3>4
    <3>6. feesPaid(m, p, e)' = feesPaid(m, p, e)
      <4>1. feesPaid(m, p, e) \in Nat
        BY <1>12
      <4> HIDE DEF m, p, e
      <4> QED BY <3>5, <4>1
    <3>7. monthlyFees(m, p, e)' = monthlyFees(m, p, e)
      BY <3>6 DEF monthlyFees
    <3>8. receipts'[e].fee = receipts[e].fee
      BY <1>7, <2>2
    <3> QED BY <3>1, <3>2, <3>4, <3>7, <3>8 DEF verifyAllocationsMatch, ReceiptOf
  <2>7. ChargeDue(v)'
    <3> SUFFICES ASSUME worker[v].step \in LateSteps, RequestOf(v).charge > 0
                 PROVE  /\ ChargeLocks(RequestOf(v))' \subseteq worker[v].held
                        /\ RequestOf(v)'.charge <= outstanding(RequestOf(v).member, worker[v].r)'
      BY <2>1, <2>2 DEF ChargeDue, LateSteps
    <3>1. /\ ChargeLocks(RequestOf(v)) \subseteq worker[v].held
          /\ RequestOf(v).charge <= outstanding(RequestOf(v).member, worker[v].r)
      BY <2>1 DEF WorkerOK, ChargeDue, LateSteps
    <3>2. RequestOf(v)' = RequestOf(v)
      BY <2>2 DEF LateSteps
    <3>3. ChargeLocks(RequestOf(v))' = ChargeLocks(RequestOf(v))
      BY <3>2 DEF ChargeLocks
    <3>4. ~(q.member = RequestOf(v).member /\ q.charge > 0)
      BY <1>5, <2>1, <3>1 DEF ChargeLocks
    <3> DEFINE m == RequestOf(v).member
               e == worker[v].r
    <3>5. m' = m /\ e' = e
      BY <2>1, <3>2
    <3>6. chargePaid(m, e)' = chargePaid(m, e) + 0
      BY <1>3, <1>11, <3>4, <3>5
    <3>7. chargePaid(m, e)' = chargePaid(m, e)
      <4>1. chargePaid(m, e) \in Nat
        BY <1>12
      <4> HIDE DEF m, e
      <4> QED BY <3>6, <4>1
    <3>8. outstanding(m, e)' = outstanding(m, e)
      BY <1>2, <3>5, <3>7 DEF outstanding
    <3> QED BY <3>1, <3>2, <3>3, <3>8
  <2>8. LoansDue(v)'
    <3> SUFFICES ASSUME NEW l \in worker[v].draft
                 PROVE  /\ <<"loan", l, 0>> \in worker[v].held
                        /\ loanOpen'[l]
                        /\ l \in worker[v].closing <=> loanPaid(l)' + RequestOf(v)'.loan[l] >= Debt[l]
      BY <2>1 DEF LoansDue
    <3>1. l \in Loans /\ worker[v].step # "next"
      BY <1>1, <2>1, WorkerTyped DEF WorkerOK, Placed
    <3>2. /\ <<"loan", l, 0>> \in worker[v].held /\ loanOpen[l]
          /\ l \in worker[v].closing <=> loanPaid(l) + RequestOf(v).loan[l] >= Debt[l]
      BY <2>1 DEF WorkerOK, LoansDue
    <3>3. l \notin PaidLoans(q)
      BY <1>6, <2>1, <3>2
    <3>4. q.loan[l] = 0 /\ l \notin worker[w].closing
      BY <1>1, <1>3, <3>1, <3>3 DEF PaidLoans
    <3>5. loanOpen'[l]
      BY <1>2, <3>1, <3>2, <3>4
    <3>6. loanPaid(l)' = loanPaid(l)
      <4>1. loanPaid(l)' = loanPaid(l) + 0 /\ loanPaid(l) \in Nat
        BY <1>11, <1>12, <3>1, <3>4
      <4> QED BY <4>1
    <3> QED BY <2>2, <3>1, <3>2, <3>5, <3>6
  <2> QED BY <2>4, <2>5, <2>6, <2>7, <2>8 DEF WorkerOK
<1>18. Exclusive'
  BY <1>1, <1>8, StaysExclusive
<1> QED BY <1>8, <1>9, <1>13, <1>14, <1>15, <1>16, <1>17, <1>18 DEF ReceiptInv, DebtsPaidOnce

-----------------------------------------------------------------------------
(* The other actions.                                                      *)

\* A transaction that timed out, lost a deadlock or lost its server.
LEMMA FaultKeeps ==
    ASSUME ReceiptInv, NEW w \in Workers, LockTimeout(w) \/ BreakDeadlock(w) \/ Crash(w)
    PROVE  ReceiptInv'
<1>1. /\ faults \in 0 .. MaxFaults /\ MaxFaults \in Nat
  BY ReceiptConstants DEF ReceiptInv, Shape
<1>2. faults' \in 0 .. MaxFaults
  BY <1>1 DEF LockTimeout, BreakDeadlock, Crash
<1>3. \/ worker' = [worker EXCEPT ![w] = Done(w)]
      \/ worker' = [worker EXCEPT ![w] = Idle]
  BY DEF LockTimeout, BreakDeadlock, Crash, AfterError
<1>4. UNCHANGED <<receipts, charged, posted, loanOpen, active>>
  BY DEF LockTimeout, BreakDeadlock, Crash
<1> QED BY <1>2, <1>3, <1>4, EndsQuietly

LEMMA RefuseKeeps ==
    ASSUME ReceiptInv, NEW w \in Workers, RefuseRepayment(w)
    PROVE  ReceiptInv'
BY FailsWell DEF RefuseRepayment, At

\* Nobody's transaction moves, and no receipt in anybody's hands changes.
LEMMA OthersMove ==
    ASSUME ReceiptInv, Quiet, worker' = worker,
           \A r \in Ids : receipts'[r].status = "completed" <=> receipts[r].status = "completed",
           \A r \in Ids' \ Ids : receipts'[r].status # "completed",
           \A r \in Ids : receipts[r].status = "pending" => receipts'[r].status = "pending"
    PROVE  ReceiptInv'
<1>1. AllOrNothing' /\ DebtsPaidOnce'
  BY QuietBooks DEF ReceiptInv
<1>2. ASSUME NEW w \in Workers PROVE WorkerOK(w)'
  <2>1. WorkerOK(w) /\ worker'[w] = worker[w]
    BY DEF ReceiptInv
  <2>2. worker[w].step \notin {"next", "receipt"} =>
            receipts'[worker[w].r].status = receipts[worker[w].r].status
    BY <2>1 DEF WorkerOK, Placed, OwnsReceipt
  <2> QED BY <2>1, <2>2, QuietWorker
<1>3. Exclusive'
  BY DEF ReceiptInv, Exclusive
<1> QED BY <1>1, <1>2, <1>3 DEF ReceiptInv, Quiet

LEMMA ReceivedKeeps ==
    ASSUME ReceiptInv, NEW q \in Requests, NEW status \in {"pending", "quoted"}, NEW fee \in 0 .. Fee,
           Received(q, status, fee)
    PROVE  ReceiptInv'
<1> DEFINE k == [status |-> status, fee |-> fee, request |-> q]
<1>1. k \in Receipt
  BY DEF Receipt, Statuses
<1>2. k.status \in {"pending", "quoted"}
  OBVIOUS
<1>3. Shape /\ receipts \in Seq(Receipt) /\ receipts' = Append(receipts, k)
      /\ UNCHANGED <<charged, posted, loanOpen, active, worker, faults>>
  BY DEF ReceiptInv, Shape, Received
<1> HIDE DEF k
<1>4. /\ receipts' \in Seq(Receipt) /\ Len(receipts') = Len(receipts) + 1 /\ Len(receipts) \in Nat
      /\ \A r \in 1 .. Len(receipts) : receipts'[r] = receipts[r]
      /\ receipts'[Len(receipts) + 1] = k
  BY <1>1, <1>3
<1>5. Ids' = Ids \cup {Len(receipts) + 1} /\ \A r \in Ids : receipts'[r] = receipts[r]
  BY <1>4 DEF Ids
<1>6. Shape'
  <2>1. posted' \subseteq PostedRows'
    BY <1>3, <1>5 DEF Shape, PostedRows
  <2> QED BY <1>3, <1>4, <2>1 DEF Shape
<1>7. Quiet
  <2>1. Len(receipts) <= Len(receipts')
    BY <1>4
  <2> QED BY <1>3, <1>5, <1>6, <2>1 DEF Quiet
<1>8. \A r \in Ids' \ Ids : receipts'[r].status # "completed"
  BY <1>2, <1>4, <1>5
<1> QED BY <1>3, <1>5, <1>7, <1>8, OthersMove

LEMMA CreateKeeps ==
    ASSUME ReceiptInv, NEW q \in Requests, CreateCashReceipt(q) \/ QuoteSTK(q)
    PROVE  ReceiptInv'
<1>1. monthlyFees(q.member, q.period, 0) \in 0 .. Fee
  BY PaidTyped DEF ReceiptInv
<1> QED BY <1>1, ReceivedKeeps DEF CreateCashReceipt, QuoteSTK

\* A receipt becomes pending that was not, and was not completed either.
LEMMA PendingKeeps ==
    ASSUME ReceiptInv, NEW r \in Ids, CreateSTKReceipt(r) \/ RetryDarajaReceipt(r)
    PROVE  ReceiptInv'
<1>1. Shape /\ receipts[r].status \notin {"pending", "completed"}
  BY DEF ReceiptInv, CreateSTKReceipt, RetryDarajaReceipt, MayRetry
<1>2. /\ receipts' = SetStatus(r, "pending")
      /\ UNCHANGED <<charged, posted, loanOpen, active, worker>>
  BY DEF CreateSTKReceipt, RetryDarajaReceipt
<1>3. faults' \in 0 .. MaxFaults
  <2>1. faults \in 0 .. MaxFaults /\ MaxFaults \in Nat
    BY <1>1, ReceiptConstants DEF Shape
  <2> QED BY <2>1 DEF CreateSTKReceipt, RetryDarajaReceipt
<1>4. "pending" \in Statuses
  BY DEF Statuses
<1>5. /\ receipts' \in Seq(Receipt) /\ Len(receipts') = Len(receipts) /\ Ids' = Ids
      /\ \A x \in Ids : /\ receipts'[x].fee = receipts[x].fee
                        /\ receipts'[x].request = receipts[x].request
                        /\ receipts'[x].status = IF x = r THEN "pending" ELSE receipts[x].status
  BY <1>1, <1>2, <1>4, StatusSet
<1>6. Shape'
  BY <1>1, <1>2, <1>3, <1>5 DEF Shape, PostedRows
<1>7. Quiet
  BY <1>1, <1>2, <1>5, <1>6, IdsTyped DEF Quiet
<1> QED BY <1>1, <1>2, <1>5, <1>7, OthersMove

\* Charges are added, and accounts change their status, under every transaction.
LEMMA ElsewhereKeeps ==
    ASSUME ReceiptInv, NEW m \in Members, CreateCharge(m) \/ SetAccountStatus(AccountOf[m])
    PROVE  ReceiptInv'
<1>1. Shape /\ MaxFaults \in Nat /\ AccountOf[m] \in Accounts
  BY ReceiptConstants DEF ReceiptInv
<1>2. receipts' = receipts /\ posted' = posted /\ loanOpen' = loanOpen /\ worker' = worker
  BY DEF CreateCharge, SetAccountStatus
<1>3. charged \subseteq charged' /\ charged' \subseteq Members /\ active' \subseteq Accounts
  BY <1>1 DEF CreateCharge, SetAccountStatus, Shape
<1>4. faults' \in 0 .. MaxFaults
  BY <1>1 DEF CreateCharge, SetAccountStatus, Shape
<1>5. Shape'
  BY <1>1, <1>2, <1>3, <1>4 DEF Shape, PostedRows, Ids
<1>6. Quiet
  BY <1>1, <1>2, <1>3, <1>5, IdsTyped DEF Quiet
<1> QED BY <1>2, <1>6, OthersMove DEF Ids

-----------------------------------------------------------------------------
(* The theorems.                                                           *)

LEMMA InitReceiptInv == Init => ReceiptInv
<1> SUFFICES ASSUME Init PROVE ReceiptInv
  OBVIOUS
<1>1. Ids = {} /\ receipts \in Seq(Receipt) /\ MaxFaults \in Nat
  BY ReceiptConstants DEF Init, Ids
<1>2. Idle \in Transaction /\ Idle.step = "next" /\ Idle.held = {} /\ Idle.draft = {} /\ Idle.closing = {}
      /\ Idle.blocked = FALSE /\ Idle.queue = {}
  BY IdleFields
<1>3. worker \in [Workers -> Transaction] /\ \A w \in Workers : worker[w] = Idle
  BY <1>2 DEF Init
<1>4. Shape
  BY <1>1, <1>3 DEF Init, Shape
<1>5. ASSUME NEW w \in Workers PROVE WorkerOK(w)
  BY <1>2, <1>3, FS_EmptySet DEF WorkerOK, Placed, OwnsReceipt, FeesDue, ChargeDue, LoansDue
<1>6. Exclusive
  BY <1>2, <1>3 DEF Exclusive
<1>7. AllOrNothing /\ FeesCollectedOnce
  BY <1>1 DEF AllOrNothing, FeesCollectedOnce
<1>8. ChargesNeverOverpaid
  <2> SUFFICES ASSUME NEW m \in Members PROVE chargePaid(m, 0) <= IF m \in charged THEN Charge[m] ELSE 0
    BY DEF ChargesNeverOverpaid
  <2>1. ChargeRows(m, 0) = {}
    BY <1>1 DEF ChargeRows
  <2>2. chargePaid(m, 0) = 0
    BY <2>1, SumsAre, SumEmpty
  <2> QED BY <2>2 DEF Init
<1>9. ClosedIffSettled
  <2> SUFFICES ASSUME NEW l \in Loans PROVE loanOpen[l] <=> loanPaid(l) < Debt[l]
    BY DEF ClosedIffSettled
  <2>1. LoanRows(l) = {}
    BY <1>1 DEF LoanRows
  <2>2. loanPaid(l) = 0
    BY <2>1, SumsAre, SumEmpty
  <2>3. Debt[l] \in Nat \ {0}
    BY ReceiptConstants
  <2> QED BY <2>2, <2>3 DEF Init
<1> QED BY <1>4, <1>5, <1>6, <1>7, <1>8, <1>9 DEF ReceiptInv, DebtsPaidOnce

LEMMA NextReceiptInv == ReceiptInv /\ [Next]_vars => ReceiptInv'
<1> SUFFICES ASSUME ReceiptInv, [Next]_vars PROVE ReceiptInv'
  OBVIOUS
<1>1. ASSUME NEW q \in Requests, CreateCashReceipt(q) \/ QuoteSTK(q) PROVE ReceiptInv'
  BY <1>1, CreateKeeps
<1>2. ASSUME NEW r \in Ids, CreateSTKReceipt(r) \/ RetryDarajaReceipt(r) PROVE ReceiptInv'
  BY <1>2, PendingKeeps
<1>3. ASSUME NEW w \in Workers, WorkerStep(w) \/ LockTimeout(w) \/ Crash(w) PROVE ReceiptInv'
  BY <1>3, ListKeeps, BeginKeeps, LockReceiptKeeps, CheckFeesKeeps, CheckChargesKeeps, LockLoansKeeps,
     RepayKeeps, RefuseKeeps, ReleaseKeeps, PurchaseKeeps, CommitKeeps, WaitKeeps, FaultKeeps
     DEF WorkerStep
<1>4. ASSUME NEW m \in Members, CreateCharge(m) \/ SetAccountStatus(AccountOf[m]) PROVE ReceiptInv'
  BY <1>4, ElsewhereKeeps
<1>5. CASE UNCHANGED vars
  <2>1. /\ receipts' = receipts /\ charged' = charged /\ posted' = posted /\ loanOpen' = loanOpen
        /\ active' = active /\ worker' = worker /\ faults' = faults
    BY <1>5 DEF vars
  <2>2. Shape'
    BY <2>1 DEF ReceiptInv, Shape, PostedRows, Ids
  <2>3. Quiet
    BY <2>1, <2>2, IdsTyped DEF Quiet, ReceiptInv
  <2> QED BY <2>1, <2>3, OthersMove DEF Ids
<1> QED BY <1>1, <1>2, <1>3, <1>4, <1>5 DEF Next

LEMMA ReceiptsInductive == Spec => []ReceiptInv
BY InitReceiptInv, NextReceiptInv, PTL DEF Spec

\* Receipts, rows, locks and drafts keep their types, for any number of
\* servers and receipts: in particular a worker between receipts holds no row,
\* and a loan is closed by a draft only if the draft pays it.
THEOREM PostingTyped == Spec => []TypeOK
<1>1. ReceiptInv => TypeOK
  <2> SUFFICES ASSUME ReceiptInv PROVE TypeOK
    OBVIOUS
  <2>1. Shape
    BY DEF ReceiptInv
  <2>2. \A r \in Ids : /\ receipts[r].status \in Statuses /\ receipts[r].fee \in 0 .. Fee
                       /\ receipts[r].request \in Request
    BY <2>1, ReceiptTyped, ReceiptConstants
  <2>3. ASSUME NEW w \in Workers
        PROVE  /\ worker[w].step \in Steps
               /\ worker[w].queue \subseteq Ids
               /\ worker[w].held \subseteq Lock
               /\ worker[w].closing \subseteq worker[w].draft /\ worker[w].draft \subseteq Loans
               /\ worker[w].step = "next" => worker[w].held = {} /\ ~worker[w].blocked
    BY <2>1, WorkerTyped DEF ReceiptInv, WorkerOK, Placed
  <2> QED BY <2>1, <2>2, <2>3 DEF TypeOK, Shape, Statuses, PostedRows
<1> QED BY <1>1, ReceiptsInductive, PTL

\* A receipt posts all its allocations or none of them, wherever its
\* transaction was refused, timed out, lost a deadlock or was cut off.
THEOREM PostingIsAtomic == Spec => []AllOrNothing
BY ReceiptsInductive, PTL DEF ReceiptInv

\* Any number of servers collect a member's fee of a month, a charge and a loan
\* once: what a transaction found due stays due until it commits, because of
\* the rows it holds locked.
THEOREM DebtsArePaidOnce == Spec => []DebtsPaidOnce
BY ReceiptsInductive, PTL DEF ReceiptInv
=============================================================================
