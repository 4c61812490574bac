-------------------------- MODULE ShareLedgerProofs --------------------------
(***************************************************************************)
(* What the share ledger guarantees for every set of accounts, loans,      *)
(* references and amounts, and however many transactions overlap.          *)
(***************************************************************************)
EXTENDS ShareLedger, SumLemmas

-----------------------------------------------------------------------------
(* Rounding to the quantum.                                                *)

\* A whole number of quanta is stored as it is.
LEMMA WholeIsStored ==
  ASSUME NEW k \in Int
  PROVE  Stored(10 * k) = k
  BY DEF Stored

\* Rounding stays within the integers and never passes a whole quantum.
LEMMA StoredBetween ==
  ASSUME NEW n \in Int, NEW k \in Int
  PROVE  /\ Stored(n) \in Int
         /\ 10 * k <= n => k <= Stored(n)
         /\ n <= 10 * k => Stored(n) <= k
  BY DEF Stored

\* What is added rounds the same by itself and on top of a balance ...
LEMMA StoredSum ==
  ASSUME NEW b \in Nat, NEW n \in Int, Stored(n) > 0
  PROVE  Stored(10 * b + n) = b + Stored(n)
  BY DEF Stored

\* ... what is taken away does too, except that half a quantum rounds up twice.
LEMMA StoredDifference ==
  ASSUME NEW b \in Int, NEW n \in Int, Stored(n) > 0, 10 * b - n >= 0
  PROVE  Stored(10 * b - n) = b - Stored(n) + (IF Half(n) THEN 1 ELSE 0)
  BY DEF Stored, Half

-----------------------------------------------------------------------------
(* Pledged quanta.                                                         *)

\* Activating a pledge that is not active adds exactly its amount to the sum
\* GetActivePledgedAmount computes.
LEMMA ActivateAddsAmount ==
  ASSUME NEW f \in [Loans -> Pledge], NEW l \in Loans, f[l].status # "active",
         NEW g \in [Loans -> Pledge],
         \A x \in Loans \ {l} : g[x] = f[x],
         g[l].status = "active",
         IsFiniteSet(ActiveQuanta(f))
  PROVE  /\ IsFiniteSet(ActiveQuanta(g))
         /\ GetActivePledgedAmount(g) = GetActivePledgedAmount(f) + g[l].amount
<1> DEFINE n == g[l].amount
           Q == {l} \X (1 .. n)
<1>1. n \in Nat
  BY DEF Pledge
<1>2. ActiveQuanta(g) = ActiveQuanta(f) \cup Q
  BY DEF ActiveQuanta
<1>3. ActiveQuanta(f) \cap Q = {}
  BY DEF ActiveQuanta
<1>4. IsFiniteSet(Q) /\ Cardinality(Q) = n
  <2>1. IsFiniteSet({l}) /\ Cardinality({l}) = 1
    BY FS_Singleton
  <2>2. IsFiniteSet(1 .. n) /\ Cardinality(1 .. n) = n
    BY <1>1, FS_Interval
  <2> HIDE DEF n
  <2>3. QED
    BY <1>1, <2>1, <2>2, FS_Product
<1>5. IsFiniteSet(ActiveQuanta(f) \cup Q)
      /\ Cardinality(ActiveQuanta(f) \cup Q)
           = Cardinality(ActiveQuanta(f)) + Cardinality(Q) - Cardinality(ActiveQuanta(f) \cap Q)
  BY <1>4, FS_Union
<1>6. Cardinality(ActiveQuanta(f)) \in Nat /\ Cardinality({}) = 0
  BY FS_CardinalityType, FS_EmptySet
<1>7. GetActivePledgedAmount(g) = GetActivePledgedAmount(f) + n
  <2> HIDE DEF n, Q
  <2>1. Cardinality(ActiveQuanta(g)) = Cardinality(ActiveQuanta(f) \cup Q)
    BY <1>2, Zenon
  <2>2. Cardinality(ActiveQuanta(f) \cap Q) = 0
    BY <1>3, <1>6, Zenon
  <2>3. Cardinality(ActiveQuanta(f) \cup Q) = Cardinality(ActiveQuanta(f)) + n
    BY <1>1, <1>4, <1>5, <1>6, <2>2
  <2>4. QED
    BY <2>1, <2>3 DEF GetActivePledgedAmount
<1>8. QED
  BY <1>2, <1>5, <1>7

\* Changing a pledge to a status that is not active never raises the sum.
LEMMA ReleaseNeverAdds ==
  ASSUME NEW f \in [Loans -> Pledge], NEW l \in Loans,
         NEW g \in [Loans -> Pledge],
         \A x \in Loans \ {l} : g[x] = f[x],
         g[l].status # "active",
         IsFiniteSet(ActiveQuanta(f))
  PROVE  /\ IsFiniteSet(ActiveQuanta(g))
         /\ GetActivePledgedAmount(g) <= GetActivePledgedAmount(f)
<1>1. ActiveQuanta(g) \in SUBSET ActiveQuanta(f)
  BY DEF ActiveQuanta
<1>2. QED
  BY <1>1, FS_Subset DEF GetActivePledgedAmount

\* The sum is a natural number.
LEMMA PledgedIsNat ==
  ASSUME NEW f, IsFiniteSet(ActiveQuanta(f))
  PROVE  GetActivePledgedAmount(f) \in Nat
  BY FS_CardinalityType DEF GetActivePledgedAmount

-----------------------------------------------------------------------------
(* The latest row.                                                         *)

\* The latest row of a set in which no two rows share a created_at.
LEMMA LatestIsUnique ==
  ASSUME NEW R, NEW m \in R,
         \A r \in R : r.created_at \in Nat,
         \A r, q \in R : r.created_at = q.created_at => r = q,
         \A q \in R : q.created_at <= m.created_at
  PROVE  LatestOf(R) = m
<1> DEFINE P(r) == \A q \in R : q.created_at <= r.created_at
<1>1. LatestOf(R) \in R /\ P(LatestOf(R))
  BY DEF LatestOf
<1>2. m.created_at <= LatestOf(R).created_at /\ LatestOf(R).created_at <= m.created_at
  BY <1>1
<1>3. QED
  BY <1>1, <1>2

\* The balance read from typed rows is an integer.
LEMMA BalanceIsInt ==
  ASSUME NEW R \in SUBSET Row, HasLatest(R)
  PROVE  BalanceOf(R) \in Int
<1>1. CASE R = {}
  BY <1>1 DEF BalanceOf
<1>2. CASE R # {}
  <2>1. LatestOf(R) \in R
    BY <1>2 DEF HasLatest, LatestOf
  <2>2. QED
    BY <1>2, <2>1 DEF BalanceOf, Row
<1>3. QED
  BY <1>1, <1>2

\* Inserting a row either makes it the latest, or leaves the balance as it was
\* because some row of a transaction that began later is already there.
LEMMA InsertBalance ==
  ASSUME NEW R \in SUBSET Row, HasLatest(R),
         \A r, q \in R : r.created_at = q.created_at => r = q,
         NEW n \in Row,
         \A r \in R : r.created_at # n.created_at
  PROVE  /\ HasLatest(R \cup {n})
         /\ BalanceOf(R \cup {n}) \in {BalanceOf(R), n.balance_after}
<1> DEFINE S == R \cup {n}
<1>1. \A r \in S : r.created_at \in Nat
  BY DEF Row
<1>2. \A r, q \in S : r.created_at = q.created_at => r = q
  OBVIOUS
<1>3. S # {}
  OBVIOUS
<1>4. CASE \A q \in R : q.created_at <= n.created_at
  <2>1. n \in S /\ \A q \in S : q.created_at <= n.created_at
    BY <1>1, <1>4
  <2>2. LatestOf(S) = n
    <3> HIDE DEF S
    <3> QED BY <1>1, <1>2, <2>1, LatestIsUnique
  <2>3. QED
    BY <1>3, <2>1, <2>2 DEF HasLatest, BalanceOf
<1>5. CASE ~ \A q \in R : q.created_at <= n.created_at
  <2>1. R # {}
    BY <1>5
  <2>2. PICK m \in R : \A q \in R : q.created_at <= m.created_at
    BY <2>1 DEF HasLatest
  <2>3. n.created_at <= m.created_at
    BY <1>1, <1>5, <2>2
  <2>4. m \in S /\ \A q \in S : q.created_at <= m.created_at
    BY <2>2, <2>3
  <2>5. LatestOf(S) = m
    <3> HIDE DEF S
    <3> QED BY <1>1, <1>2, <2>4, LatestIsUnique
  <2>6. LatestOf(R) = m
    BY <1>1, <2>2, LatestIsUnique
  <2>7. QED
    BY <1>3, <2>1, <2>4, <2>5, <2>6 DEF HasLatest, BalanceOf
<1>6. QED
  BY <1>4, <1>5

-----------------------------------------------------------------------------
(* The inductive invariant behind TypeOK and PledgesCovered.               *)

IInv == TypeOK /\ Stamps /\ Position

\* Under the invariant, the numbers the checks compare are integers.
LEMMA PositionIsInt ==
  ASSUME IInv, NEW a \in Accounts
  PROVE  /\ RowsOf(a) \in SUBSET Row
         /\ GetLatestBalance(a) \in Int
         /\ ActivePledged(a) \in Nat
<1>1. RowsOf(a) \in SUBSET Row /\ HasLatest(RowsOf(a))
  BY DEF IInv, TypeOK, Position, RowsOf
<1>2. QED
  BY <1>1, BalanceIsInt, PledgedIsNat DEF IInv, Position, GetLatestBalance, ActivePledged

\* A step that inserts t's row with a balance that covers the pledges.
Inserts(t, amount, bal) ==
    /\ amount \in Int /\ bal \in Int
    /\ bal >= ActivePledged(t.account)
    /\ ledger' = ledger \cup {NewRow(t, amount, bal)}
    /\ open' = open \ {t}
    /\ UNCHANGED <<status, pledges, clock>>

LEMMA InsertRow ==
  ASSUME IInv, NEW t \in open, NEW amount, NEW bal, Inserts(t, amount, bal)
  PROVE  /\ NewRow(t, amount, bal) \in Row
         /\ NewRow(t, amount, bal) \notin ledger
         /\ RowsOf(t.account)' = RowsOf(t.account) \cup {NewRow(t, amount, bal)}
         /\ \A a \in Accounts : a # t.account => RowsOf(a)' = RowsOf(a)
<1>1. t \in OpenTx
  BY DEF IInv, TypeOK
<1>2. NewRow(t, amount, bal) \in Row
  BY <1>1 DEF Inserts, NewRow, Row, OpenTx
<1>3. NewRow(t, amount, bal).created_at = t.created_at /\ NewRow(t, amount, bal).account = t.account
  BY DEF NewRow
<1>4. NewRow(t, amount, bal) \notin ledger
  BY <1>3 DEF IInv, Stamps
<1>5. QED
  BY <1>2, <1>3, <1>4 DEF Inserts, RowsOf

LEMMA InsertKeepsStamps ==
  ASSUME IInv, NEW t \in open, NEW amount, NEW bal, Inserts(t, amount, bal)
  PROVE  Stamps'
<1>1. NewRow(t, amount, bal).created_at = t.created_at
  BY DEF NewRow
<1>2. clock' = clock /\ ledger' = ledger \cup {NewRow(t, amount, bal)} /\ open' = open \ {t}
  BY DEF Inserts
<1>3. QED
  BY <1>1, <1>2 DEF IInv, Stamps

LEMMA InsertKeepsPosition ==
  ASSUME IInv, NEW t \in open, NEW amount, NEW bal, Inserts(t, amount, bal)
  PROVE  /\ Position'
         /\ GetLatestBalance(t.account)' \in {GetLatestBalance(t.account), bal}
         /\ \A a \in Accounts : a # t.account => GetLatestBalance(a)' = GetLatestBalance(a)
<1> DEFINE n == NewRow(t, amount, bal)
           b == t.account
<1>1. b \in Accounts
  BY DEF IInv, TypeOK, OpenTx
<1>2. /\ n \in Row
      /\ RowsOf(b)' = RowsOf(b) \cup {n}
      /\ \A a \in Accounts : a # b => RowsOf(a)' = RowsOf(a)
  BY InsertRow
<1>3. /\ RowsOf(b) \in SUBSET Row
      /\ HasLatest(RowsOf(b))
      /\ \A r, q \in RowsOf(b) : r.created_at = q.created_at => r = q
      /\ \A r \in RowsOf(b) : r.created_at # n.created_at
  BY <1>1, PositionIsInt DEF IInv, Position, Stamps, RowsOf, NewRow
<1>4. n.balance_after = bal
  BY DEF NewRow
<1>5. /\ HasLatest(RowsOf(b) \cup {n})
      /\ BalanceOf(RowsOf(b) \cup {n}) \in {BalanceOf(RowsOf(b)), bal}
  <2> HIDE DEF n, b
  <2> QED BY <1>2, <1>3, <1>4, InsertBalance
<1>6. HasLatest(RowsOf(b))' /\ GetLatestBalance(b)' \in {GetLatestBalance(b), bal}
  <2> HIDE DEF n
  <2> QED BY <1>2, <1>5 DEF GetLatestBalance, HasLatest
<1>7. \A a \in Accounts : a # b => GetLatestBalance(a)' = GetLatestBalance(a) /\ HasLatest(RowsOf(a))'
  BY <1>2 DEF GetLatestBalance, IInv, Position, HasLatest
<1>8. pledges' = pledges
  BY DEF Inserts
<1>9. GetLatestBalance(b) \in Int /\ ActivePledged(b) \in Nat /\ bal \in Int /\ bal >= ActivePledged(b)
  BY <1>1, PositionIsInt DEF Inserts
<1>10. ASSUME NEW a \in Accounts
       PROVE  /\ HasLatest(RowsOf(a))'
              /\ IsFiniteSet(ActiveQuanta(pledges[a]))'
              /\ (ActivePledged(a) <= GetLatestBalance(a))'
  <2>1. ActivePledged(a)' = ActivePledged(a) /\ ActivePledged(a) <= GetLatestBalance(a)
    BY <1>8 DEF ActivePledged, IInv, Position
  <2>2. IsFiniteSet(ActiveQuanta(pledges[a]))'
    BY <1>8 DEF IInv, Position
  <2>3. CASE a = b
    <3> HIDE DEF b
    <3> QED BY <1>6, <1>9, <2>1, <2>2, <2>3
  <2>4. CASE a # b
    <3> HIDE DEF b
    <3> QED BY <1>7, <2>1, <2>2, <2>4
  <2>5. QED
    BY <2>3, <2>4
<1>11. QED
  BY <1>6, <1>7, <1>10 DEF Position

-----------------------------------------------------------------------------
(* The three kinds of insertion.                                           *)

LEMMA PostInserts ==
  ASSUME IInv, NEW t \in open, Post(t)
  PROVE  Inserts(t, Stored(t.amount), Stored(PostedBalance(t)))
<1>1. t \in OpenTx /\ t.account \in Accounts /\ t.amount \in Int
  BY DEF IInv, TypeOK, OpenTx
<1>2. GetLatestBalance(t.account) \in Int /\ ActivePledged(t.account) \in Nat
  BY <1>1, PositionIsInt
<1>3. ActivePledged(t.account) <= GetLatestBalance(t.account)
  BY <1>1 DEF IInv, Position
<1>4. PostedBalance(t) \in Int
  BY <1>1, <1>2 DEF PostedBalance
<1>5. t.amount > 0
  <2>1. Stored(t.amount) > 0
    BY DEF Post, InsertShareTransaction, PostingTypes
  <2>2. t.amount <= 10 * 0 => Stored(t.amount) <= 0 /\ Stored(t.amount) \in Int
    BY <1>1, StoredBetween
  <2>3. QED
    BY <1>1, <2>1, <2>2
<1>6. PostedBalance(t) >= 10 * ActivePledged(t.account)
  BY <1>1, <1>2, <1>3, <1>5 DEF Post, PositionAllows, PostedBalance
<1>7. /\ Stored(t.amount) \in Int /\ Stored(PostedBalance(t)) \in Int
      /\ Stored(PostedBalance(t)) >= ActivePledged(t.account)
  <2>1. Stored(t.amount) \in Int
    BY <1>1, StoredBetween
  <2> HIDE DEF PostedBalance
  <2>2. QED
    BY <1>2, <1>4, <1>6, <2>1, StoredBetween
<1>8. QED
  BY <1>7 DEF Post, InsertShareTransaction, Answer, Inserts

LEMMA ApproveInserts ==
  ASSUME IInv, NEW t \in open, ApproveShareAdjustment(t)
  PROVE  LET amount == adjustments[t.account][t.reference_id].amount
         IN  amount \in Int /\ Inserts(t, amount, GetLatestBalance(t.account) + amount)
<1> DEFINE amount == adjustments[t.account][t.reference_id].amount
           bal == GetLatestBalance(t.account) + amount
<1>1. t.account \in Accounts /\ amount \in Int
  BY DEF IInv, TypeOK, OpenTx, Adjustment
<1>2. GetLatestBalance(t.account) \in Int
  BY <1>1, PositionIsInt
<1>3. bal >= ActivePledged(t.account) /\ InsertShareTransaction(t, 10 * amount, 10 * bal)
      /\ open' = open \ {t} /\ UNCHANGED <<status, pledges, clock>>
  BY DEF ApproveShareAdjustment, Answer
<1>4. amount \in Int /\ bal \in Int
  BY <1>1, <1>2
<1> HIDE DEF amount, bal
<1>5. Stored(10 * amount) = amount /\ Stored(10 * bal) = bal
  BY <1>4, WholeIsStored
<1>6. Inserts(t, amount, bal)
  BY <1>3, <1>4, <1>5 DEF InsertShareTransaction, Inserts
<1>7. QED
  BY <1>4, <1>6 DEF amount, bal

LEMMA ReverseInserts ==
  ASSUME IInv, NEW t \in open, ReverseShareTransaction(t)
  PROVE  \E original \in ledger :
            /\ original.created_at = t.target
            /\ GetReversalTransactions(t.target) = {}
            /\ GetTransactionByReference(t.account, t.reference_id, "reversal") = {}
            /\ Inserts(t, ReversalAmount(original),
                       GetLatestBalance(t.account) + ReversalAmount(original))
<1>1. t \in OpenTx /\ t.account \in Accounts
  BY DEF IInv, TypeOK, OpenTx
<1>2. GetLatestBalance(t.account) \in Int
  BY <1>1, PositionIsInt
<1>3. PICK original \in ledger :
         /\ original.created_at = t.target
         /\ GetLatestBalance(t.account) + ReversalAmount(original) >= ActivePledged(t.account)
         /\ GetTransactionByReference(t.account, t.reference_id, "reversal") = {}
         /\ GetReversalTransactions(t.target) = {}
         /\ InsertShareTransaction(t, 10 * ReversalAmount(original),
                                   10 * (GetLatestBalance(t.account) + ReversalAmount(original)))
  BY DEF ReverseShareTransaction, ReferenceIsNew, NotYetReversed
<1>4. ReversalAmount(original) \in Int
  BY DEF IInv, TypeOK, Row, ReversalAmount
<1> DEFINE amount == ReversalAmount(original)
           bal == GetLatestBalance(t.account) + amount
<1>5. amount \in Int /\ bal \in Int
  BY <1>2, <1>4
<1>6. /\ bal >= ActivePledged(t.account) /\ InsertShareTransaction(t, 10 * amount, 10 * bal)
      /\ open' = open \ {t} /\ UNCHANGED <<status, pledges, clock>>
  BY <1>3 DEF ReverseShareTransaction, Answer
<1> HIDE DEF amount, bal
<1>7. Stored(10 * amount) = amount /\ Stored(10 * bal) = bal
  BY <1>5, WholeIsStored
<1>8. Inserts(t, amount, bal)
  BY <1>5, <1>6, <1>7 DEF InsertShareTransaction, Inserts
<1>9. QED
  BY <1>3, <1>8 DEF amount, bal

-----------------------------------------------------------------------------
(* Steps that leave the ledger alone.                                      *)

LEMMA QuietPosition ==
  ASSUME IInv, ledger' = ledger, pledges' = pledges
  PROVE  Position'
  BY DEF IInv, Position, HasLatest, RowsOf, GetLatestBalance, ActivePledged

\* BEGIN takes a begin time nobody has.
LEMMA BeginKeepsIInv ==
  ASSUME IInv, NEW type \in TransactionTypes, NEW a \in Accounts, NEW amount \in Int,
         NEW ref \in Refs, NEW target \in Nat, Begin(type, a, amount, ref, target)
  PROVE  IInv'
<1> DEFINE t == [type |-> type, account |-> a, amount |-> amount,
                 reference_id |-> ref, target |-> target,
                 created_at |-> clock + 1, phase |-> "begun"]
<1>1. clock \in Nat /\ clock' = clock + 1 /\ ledger' = ledger /\ pledges' = pledges
  BY DEF Begin, IInv, TypeOK
<1>2. open' = open \cup {t}
  BY DEF Begin
<1>3. t \in OpenTx /\ t.created_at = clock + 1
  BY <1>1 DEF OpenTx
<1>4. TypeOK'
  <2> HIDE DEF t
  <2> QED BY <1>1, <1>2, <1>3 DEF Begin, IInv, TypeOK, Reply
<1>5. \A u \in open, r \in ledger : u.created_at \in 1 .. clock /\ r.created_at \in 1 .. clock
  BY DEF IInv, Stamps
<1>6. Stamps'
  <2> HIDE DEF t
  <2>1. \A r \in ledger : r.created_at \in 1 .. (clock + 1)
    BY <1>1 DEF IInv, Stamps
  <2>2. \A u \in open \cup {t} : u.created_at \in 1 .. (clock + 1)
    BY <1>1, <1>3 DEF IInv, Stamps
  <2>3. \A u, v \in open \cup {t} : u.created_at = v.created_at => u = v
    BY <1>1, <1>3 DEF IInv, Stamps
  <2>4. \A u \in open \cup {t}, r \in ledger : u.created_at # r.created_at
    BY <1>1, <1>3 DEF IInv, Stamps
  <2>5. QED
    BY <1>1, <1>2, <2>1, <2>2, <2>3, <2>4 DEF IInv, Stamps
<1>7. Position'
  BY <1>1, QuietPosition
<1>8. QED
  BY <1>4, <1>6, <1>7 DEF IInv

\* A transaction that ends, or moves on to its next read, without a row.
LEMMA EndKeepsIInv ==
  ASSUME IInv, NEW t \in open,
         open' \in {open \ {t}, (open \ {t}) \cup {AfterRead(t)}},
         reply' \in Reply,
         UNCHANGED <<status, ledger, adjustments, pledges, clock>>
  PROVE  IInv'
<1>1. t \in OpenTx
  BY DEF IInv, TypeOK
<1>2. AfterRead(t) \in OpenTx /\ AfterRead(t).created_at = t.created_at
  BY <1>1 DEF OpenTx, AfterRead
<1>3. TypeOK'
  BY <1>2 DEF IInv, TypeOK
<1>4. Stamps'
  BY <1>2 DEF IInv, Stamps
<1>5. Position'
  BY QuietPosition
<1>6. QED
  BY <1>3, <1>4, <1>5 DEF IInv

\* A transaction that ends with a row, its caller told of it.
LEMMA InsertKeepsIInv ==
  ASSUME IInv, NEW t \in open, NEW amount, NEW bal, Inserts(t, amount, bal),
         adjustments' \in [Accounts -> [Refs -> Adjustment]],
         Answer(t, t.created_at)
  PROVE  IInv'
<1>1. t \in OpenTx /\ t.created_at \in Nat
  BY DEF IInv, TypeOK, OpenTx
<1>2. NewRow(t, amount, bal) \in Row
  BY InsertRow
<1>3. ledger' \subseteq Row /\ open' \subseteq OpenTx /\ clock' = clock
      /\ status' = status /\ pledges' = pledges
  BY <1>2 DEF Inserts, IInv, TypeOK
<1>4. reply' \in Reply
  BY <1>1 DEF Answer, Reply
<1>5. TypeOK'
  BY <1>3, <1>4 DEF IInv, TypeOK
<1>6. QED
  BY <1>5, InsertKeepsStamps, InsertKeepsPosition DEF IInv

\* A step that changes the pledges, and no account's beyond its balance.
LEMMA PledgesKeepIInv ==
  ASSUME IInv,
         pledges' \in [Accounts -> [Loans -> Pledge]],
         reply' = NoReply,
         UNCHANGED <<status, ledger, adjustments, open, clock>>,
         \A a \in Accounts :
            /\ IsFiniteSet(ActiveQuanta(pledges'[a]))
            /\ GetActivePledgedAmount(pledges'[a]) <= GetLatestBalance(a)
  PROVE  IInv'
<1>1. TypeOK'
  BY DEF IInv, TypeOK, Reply
<1>2. Stamps'
  BY DEF IInv, Stamps
<1>3. \A a \in Accounts : GetLatestBalance(a)' = GetLatestBalance(a) /\ RowsOf(a)' = RowsOf(a)
  BY DEF GetLatestBalance, RowsOf
<1>4. \A a \in Accounts : HasLatest(RowsOf(a))'
  BY <1>3 DEF IInv, Position, HasLatest
<1>5. Position'
  BY <1>3, <1>4 DEF Position, ActivePledged
<1>6. QED
  BY <1>1, <1>2, <1>5 DEF IInv

\* The same for a step on the pledges of one account.
LEMMA SetPledgesKeepsIInv ==
  ASSUME IInv, NEW b \in Accounts, NEW g \in [Loans -> Pledge], SetPledges(b, g),
         IsFiniteSet(ActiveQuanta(g)),
         GetActivePledgedAmount(g) <= GetLatestBalance(b)
  PROVE  IInv'
<1>1. pledges' = [pledges EXCEPT ![b] = g] /\ pledges \in [Accounts -> [Loans -> Pledge]]
  BY DEF SetPledges, IInv, TypeOK
<1>2. pledges' \in [Accounts -> [Loans -> Pledge]]
  BY <1>1
<1>3. \A a \in Accounts : pledges'[a] = IF a = b THEN g ELSE pledges[a]
  BY <1>1
<1>4. \A a \in Accounts :
         /\ IsFiniteSet(ActiveQuanta(pledges'[a]))
         /\ GetActivePledgedAmount(pledges'[a]) <= GetLatestBalance(a)
  BY <1>3 DEF IInv, Position, ActivePledged
<1>5. QED
  BY <1>2, <1>4, PledgesKeepIInv DEF SetPledges

\* Proposing the applicant's pledge reserves nothing.
LEMMA ProposeKeepsIInv ==
  ASSUME IInv, NEW a \in Accounts, NEW l \in Loans, NEW tenths \in Amounts,
         ProposeApplicantSecurity(a, l, tenths)
  PROVE  IInv'
<1> DEFINE amount == Stored(tenths)
           f == pledges[a]
           g == CreateSharePledge(f, l, "applicant_security", amount)
<1>1. f \in [Loans -> Pledge] /\ IsFiniteSet(ActiveQuanta(f))
  BY DEF IInv, TypeOK, Position
<1>2. amount \in Nat
  BY ShareConstants, StoredBetween DEF ProposeApplicantSecurity, CanCreateSharePledge
<1>3. g \in [Loans -> Pledge] /\ (\A x \in Loans \ {l} : g[x] = f[x]) /\ g[l].status # "active"
  BY <1>1, <1>2 DEF CreateSharePledge, Pledge, PledgeTypes, PledgeStatuses
<1>4. SetPledges(a, g) /\ GetActivePledgedAmount(f) <= GetLatestBalance(a)
  BY DEF ProposeApplicantSecurity, IInv, Position, ActivePledged
<1>5. GetLatestBalance(a) \in Int /\ GetActivePledgedAmount(f) \in Nat
  BY PositionIsInt DEF ActivePledged
<1> HIDE DEF f, g
<1>6. IsFiniteSet(ActiveQuanta(g)) /\ GetActivePledgedAmount(g) <= GetActivePledgedAmount(f)
  BY <1>1, <1>3, ReleaseNeverAdds
<1>7. GetActivePledgedAmount(g) \in Nat
  BY <1>6, PledgedIsNat
<1>8. QED
  BY <1>3, <1>4, <1>5, <1>6, <1>7, SetPledgesKeepsIInv

\* Approval activates it within what is left of the balance.
LEMMA VerifyKeepsIInv ==
  ASSUME IInv, NEW a \in Accounts, NEW l \in Loans, VerifyApplicantSecurity(a, l)
  PROVE  IInv'
<1> DEFINE f == pledges[a]
           g == ActivateSharePledge(f, l)
<1>1. f \in [Loans -> Pledge] /\ IsFiniteSet(ActiveQuanta(f))
  BY DEF IInv, TypeOK, Position
<1>2. /\ g \in [Loans -> Pledge]
      /\ \A x \in Loans \ {l} : g[x] = f[x]
      /\ g[l].status = "active" /\ g[l].amount = f[l].amount /\ g[l].amount \in Nat
  BY <1>1 DEF ActivateSharePledge, Pledge, PledgeTypes, PledgeStatuses
<1>3. /\ SetPledges(a, g)
      /\ f[l].status = "pending"
      /\ GetLatestBalance(a) - GetActivePledgedAmount(f) >= f[l].amount
  BY DEF VerifyApplicantSecurity, ActivePledged
<1>4. GetLatestBalance(a) \in Int /\ GetActivePledgedAmount(f) \in Nat
  BY PositionIsInt DEF ActivePledged
<1> HIDE DEF f, g
<1>5. IsFiniteSet(ActiveQuanta(g)) /\ GetActivePledgedAmount(g) = GetActivePledgedAmount(f) + g[l].amount
  BY <1>1, <1>2, <1>3, ActivateAddsAmount
<1>6. QED
  BY <1>2, <1>3, <1>4, <1>5, SetPledgesKeepsIInv

\* So does a guarantor's approval.
LEMMA GuaranteeKeepsIInv ==
  ASSUME IInv, NEW a \in Accounts, NEW l \in Loans, NEW amount \in Int,
         ApproveGuarantorSecurity(a, l, amount)
  PROVE  IInv'
<1> DEFINE f == pledges[a]
           g == ActivateSharePledge(CreateSharePledge(f, l, "guarantor_security", amount), l)
<1>1. f \in [Loans -> Pledge] /\ IsFiniteSet(ActiveQuanta(f))
  BY DEF IInv, TypeOK, Position
<1>2. amount \in Nat
  BY DEF ApproveGuarantorSecurity, CanCreateSharePledge
<1>3. /\ g \in [Loans -> Pledge]
      /\ \A x \in Loans \ {l} : g[x] = f[x]
      /\ g[l].status = "active" /\ g[l].amount = amount
  BY <1>1, <1>2 DEF CreateSharePledge, ActivateSharePledge, Pledge, PledgeTypes, PledgeStatuses
<1>4. /\ SetPledges(a, g)
      /\ f[l].status # "active"
      /\ amount <= guaranteeAvailable(GetLatestBalance(a), GetActivePledgedAmount(f))
      /\ GetActivePledgedAmount(f) <= GetLatestBalance(a)
  BY DEF ApproveGuarantorSecurity, CanCreateSharePledge, ActivePledged, IInv, Position
<1>5. GetLatestBalance(a) \in Int /\ GetActivePledgedAmount(f) \in Nat
  BY PositionIsInt DEF ActivePledged
<1> HIDE DEF f, g
<1>6. IsFiniteSet(ActiveQuanta(g)) /\ GetActivePledgedAmount(g) = GetActivePledgedAmount(f) + g[l].amount
  BY <1>1, <1>3, <1>4, ActivateAddsAmount
<1>7. GetActivePledgedAmount(f) + amount <= GetLatestBalance(a)
  BY <1>2, <1>4, <1>5 DEF guaranteeAvailable
<1>8. QED
  BY <1>3, <1>4, <1>6, <1>7, SetPledgesKeepsIInv

\* Releasing a loan's pledges, of one account or of all.
LEMMA ReleaseKeepsIInv ==
  ASSUME IInv, NEW l \in Loans, NEW S \in SUBSET Accounts, ReleaseLoanSecurity(l, S)
  PROVE  IInv'
<1>1. pledges \in [Accounts -> [Loans -> Pledge]]
  BY DEF IInv, TypeOK
<1>2. pledges' = [a \in Accounts |->
          IF a \in S THEN ReleaseLoanSharePledge(pledges[a], l) ELSE pledges[a]]
  BY DEF ReleaseLoanSecurity
<1>3. ASSUME NEW f \in [Loans -> Pledge]
      PROVE  /\ ReleaseLoanSharePledge(f, l) \in [Loans -> Pledge]
             /\ \A x \in Loans \ {l} : ReleaseLoanSharePledge(f, l)[x] = f[x]
             /\ ReleaseLoanSharePledge(f, l)[l].status # "active"
  BY DEF ReleaseLoanSharePledge, Pledge, PledgeTypes, PledgeStatuses
<1>4. pledges' \in [Accounts -> [Loans -> Pledge]]
  BY <1>1, <1>2, <1>3
<1>5. ASSUME NEW a \in Accounts
      PROVE  /\ IsFiniteSet(ActiveQuanta(pledges'[a]))
             /\ GetActivePledgedAmount(pledges'[a]) <= GetLatestBalance(a)
  <2> DEFINE f == pledges[a]
             g == ReleaseLoanSharePledge(f, l)
  <2>1. f \in [Loans -> Pledge] /\ IsFiniteSet(ActiveQuanta(f))
        /\ GetActivePledgedAmount(f) <= GetLatestBalance(a)
    BY <1>1 DEF IInv, Position, ActivePledged
  <2>2. g \in [Loans -> Pledge] /\ (\A x \in Loans \ {l} : g[x] = f[x]) /\ g[l].status # "active"
    BY <1>3, <2>1
  <2>3. pledges'[a] = IF a \in S THEN g ELSE f
    BY <1>2
  <2>4. GetLatestBalance(a) \in Int /\ GetActivePledgedAmount(f) \in Nat
    BY PositionIsInt DEF ActivePledged
  <2> HIDE DEF f, g
  <2>5. IsFiniteSet(ActiveQuanta(g)) /\ GetActivePledgedAmount(g) <= GetActivePledgedAmount(f)
    BY <2>1, <2>2, ReleaseNeverAdds
  <2>6. GetActivePledgedAmount(g) \in Nat
    BY <2>5, PledgedIsNat
  <2>7. QED
    BY <2>1, <2>3, <2>4, <2>5, <2>6
<1>6. QED
  BY <1>4, <1>5, PledgesKeepIInv DEF ReleaseLoanSecurity

-----------------------------------------------------------------------------
(* The whole next-state relation.                                          *)

\* An open transaction's own steps.
LEMMA StepKeepsIInv ==
  ASSUME IInv, NEW t \in open,
         \/ Rollback(t) \/ PostAgain(t) \/ Post(t) \/ ApproveShareAdjustment(t)
         \/ ApproveAgain(t) \/ ReadOriginal(t) \/ ReverseShareTransaction(t)
         \/ ReverseReusedReference(t)
  PROVE  IInv'
<1>1. t \in OpenTx /\ t.account \in Accounts /\ t.reference_id \in Refs /\ t.amount \in Int
  BY DEF IInv, TypeOK, OpenTx
<1>2. adjustments \in [Accounts -> [Refs -> Adjustment]]
  BY DEF IInv, TypeOK
<1>3. \A n \in Nat : [ok |-> TRUE, tx |-> t, row |-> n] \in Reply
  BY <1>1 DEF Reply
<1>4. NoReply \in Reply
  BY DEF Reply
<1>5. ASSUME NEW r \in ledger, Answer(t, r.created_at)
      PROVE  open' = open \ {t} /\ reply' \in Reply
  <2>1. r.created_at \in Nat
    BY DEF IInv, TypeOK, Row
  <2>2. QED
    BY <1>3, <1>5, <2>1 DEF Answer
<1>6. CASE Rollback(t)
  BY <1>4, <1>6, EndKeepsIInv DEF Rollback
<1>7. CASE PostAgain(t)
  <2>1. PICK r \in ledger : Answer(t, r.created_at)
    BY <1>7 DEF PostAgain, GetTransactionByReference, RowsOf
  <2>2. QED
    BY <1>5, <1>7, <2>1, EndKeepsIInv DEF PostAgain
<1>8. CASE Post(t)
  BY <1>2, <1>8, PostInserts, InsertKeepsIInv DEF Post
<1>9. CASE ApproveShareAdjustment(t)
  <2>1. [amount |-> adjustments[t.account][t.reference_id].amount,
         status |-> "approved"] \in Adjustment
    BY <1>1, <1>2 DEF Adjustment
  <2>2. adjustments' \in [Accounts -> [Refs -> Adjustment]]
    BY <1>1, <1>2, <1>9, <2>1 DEF ApproveShareAdjustment, UpdateAdjustmentApproved
  <2>3. QED
    BY <1>9, <2>2, ApproveInserts, InsertKeepsIInv DEF ApproveShareAdjustment
<1>10. CASE ApproveAgain(t)
  <2>1. PICK r \in ledger : Answer(t, r.created_at)
    BY <1>10 DEF ApproveAgain, GetTransactionByReference, RowsOf
  <2>2. QED
    BY <1>5, <1>10, <2>1, EndKeepsIInv DEF ApproveAgain
<1>11. CASE ReadOriginal(t)
  <2>1. CASE open' = (open \ {t}) \cup {AfterRead(t)} /\ reply' = NoReply
    BY <1>4, <1>11, <2>1, EndKeepsIInv DEF ReadOriginal
  <2>2. CASE \E r \in ledger : Answer(t, r.created_at)
    BY <1>5, <1>11, <2>2, EndKeepsIInv DEF ReadOriginal
  <2>3. QED
    BY <1>11, <2>1, <2>2 DEF ReadOriginal, GetReversalTransactions
<1>12. CASE ReverseShareTransaction(t)
  <2>1. PICK original \in ledger :
           Inserts(t, ReversalAmount(original),
                   GetLatestBalance(t.account) + ReversalAmount(original))
    BY <1>12, ReverseInserts
  <2>2. Answer(t, t.created_at) /\ adjustments' = adjustments
    BY <1>12 DEF ReverseShareTransaction
  <2>3. QED
    BY <1>2, <2>1, <2>2, InsertKeepsIInv
<1>13. CASE ReverseReusedReference(t)
  <2>1. PICK r \in ledger : Answer(t, r.created_at)
    BY <1>13 DEF ReverseReusedReference, GetTransactionByReference, RowsOf
  <2>2. QED
    BY <1>5, <1>13, <2>1, EndKeepsIInv DEF ReverseReusedReference
<1>14. QED
  BY <1>6, <1>7, <1>8, <1>9, <1>10, <1>11, <1>12, <1>13

\* A step that touches neither the ledger, nor the pledges, nor a transaction.
LEMMA OutsideKeepsIInv ==
  ASSUME IInv, TypeOK', UNCHANGED <<ledger, pledges, open, clock>>
  PROVE  IInv'
<1>1. Stamps'
  BY DEF IInv, Stamps
<1>2. QED
  BY <1>1, QuietPosition DEF IInv

LEMMA InitIInv == Init => IInv
<1> SUFFICES ASSUME Init PROVE IInv
  OBVIOUS
<1>1. TypeOK
  BY DEF Init, TypeOK, NoAdjustment, Adjustment, NoPledges, NoPledge, Pledge,
         PledgeTypes, PledgeStatuses, Reply, AccountStatuses
<1>2. Stamps
  BY DEF Init, Stamps
<1>3. ASSUME NEW a \in Accounts
      PROVE  /\ HasLatest(RowsOf(a))
             /\ IsFiniteSet(ActiveQuanta(pledges[a]))
             /\ ActivePledged(a) <= GetLatestBalance(a)
  <2>1. RowsOf(a) = {}
    BY DEF Init, RowsOf
  <2>2. ActiveQuanta(pledges[a]) = {}
    BY DEF Init, ActiveQuanta, NoPledges, NoPledge
  <2>3. IsFiniteSet({}) /\ Cardinality({}) = 0
    BY FS_EmptySet
  <2>4. ActivePledged(a) = 0
    BY <2>2, <2>3, Zenon DEF ActivePledged, GetActivePledgedAmount
  <2>5. GetLatestBalance(a) = 0 /\ HasLatest(RowsOf(a))
    BY <2>1 DEF GetLatestBalance, BalanceOf, HasLatest
  <2>6. IsFiniteSet(ActiveQuanta(pledges[a]))
    BY <2>2, <2>3, Zenon
  <2>7. QED
    BY <2>4, <2>5, <2>6
<1>4. QED
  BY <1>1, <1>2, <1>3 DEF IInv, Position

LEMMA NextKeepsIInv == IInv /\ [Next]_vars => IInv'
<1> SUFFICES ASSUME IInv, [Next]_vars PROVE IInv'
  OBVIOUS
<1>1. ASSUME NEW a \in Accounts, NEW ref \in Refs, NEW type \in PostingTypes,
             NEW tenths \in Amounts, BeginPosting(type, a, tenths, ref)
      PROVE  IInv'
  BY <1>1, ShareConstants, BeginKeepsIInv DEF BeginPosting, TransactionTypes, PostingTypes
<1>2. ASSUME NEW a \in Accounts, NEW ref \in Refs, NEW tenths \in AdjustAmounts,
             CreateAdjustment(a, ref, tenths)
      PROVE  IInv'
  <2>1. [amount |-> Stored(tenths), status |-> "pending"] \in Adjustment
    BY ShareConstants, StoredBetween DEF Adjustment
  <2>2. adjustments' \in [Accounts -> [Refs -> Adjustment]]
    BY <1>2, <2>1 DEF CreateAdjustment, IInv, TypeOK
  <2>3. TypeOK'
    BY <1>2, <2>2 DEF CreateAdjustment, IInv, TypeOK, Reply
  <2>4. QED
    BY <1>2, <2>3, OutsideKeepsIInv DEF CreateAdjustment
<1>3. ASSUME NEW a \in Accounts, NEW ref \in Refs, BeginApproval(a, ref)
      PROVE  IInv'
  <2>1. 10 * adjustments[a][ref].amount \in Int
    BY DEF IInv, TypeOK, Adjustment
  <2>2. QED
    BY <1>3, <2>1, BeginKeepsIInv DEF BeginApproval, TransactionTypes
<1>4. ASSUME NEW original \in ledger, NEW ref \in Refs, BeginReversal(original, ref)
      PROVE  IInv'
  <2>1. original.account \in Accounts /\ 10 * original.amount \in Int /\ original.created_at \in Nat
    BY DEF IInv, TypeOK, Row
  <2>2. QED
    BY <1>4, <2>1, BeginKeepsIInv DEF BeginReversal, TransactionTypes
<1>5. ASSUME NEW a \in Accounts, NEW st \in {"active", "frozen"}, SetAccountStatus(a, st)
      PROVE  IInv'
  <2>1. TypeOK'
    BY <1>5 DEF SetAccountStatus, IInv, TypeOK, Reply, AccountStatuses
  <2>2. QED
    BY <1>5, <2>1, OutsideKeepsIInv DEF SetAccountStatus
<1>10. ASSUME NEW a \in Accounts, OpenShareAccount(a) PROVE IInv'
  <2>1. TypeOK'
    BY <1>10 DEF OpenShareAccount, IInv, TypeOK, Reply, AccountStatuses
  <2>2. QED
    BY <1>10, <2>1, OutsideKeepsIInv DEF OpenShareAccount
<1>11. ASSUME NEW a \in Accounts, NEW l \in Loans, NEW tenths \in Amounts,
              ApproveGuarantorSecurity(a, l, Stored(tenths))
       PROVE  IInv'
  <2>1. Stored(tenths) \in Int
    BY ShareConstants, StoredBetween
  <2>2. QED
    BY <1>11, <2>1, GuaranteeKeepsIInv
<1>6. ASSUME NEW l \in Loans, NEW a \in Accounts, ReleaseLoanSecurity(l, {a})
      PROVE  IInv'
  BY <1>6, ReleaseKeepsIInv
<1>7. ASSUME NEW l \in Loans, ReleaseLoanSecurity(l, Accounts)
      PROVE  IInv'
  BY <1>7, ReleaseKeepsIInv
<1>8. CASE UNCHANGED vars
  <2>1. TypeOK'
    BY <1>8 DEF vars, IInv, TypeOK
  <2>2. QED
    BY <1>8, <2>1, OutsideKeepsIInv DEF vars
<1>9. QED
  BY <1>1, <1>2, <1>3, <1>4, <1>5, <1>6, <1>7, <1>8, <1>10, <1>11, StepKeepsIInv,
     ProposeKeepsIInv, VerifyKeepsIInv DEF Next

\* Every state the ledger reaches is well typed.
THEOREM TypeCorrect == Spec => []TypeOK
<1>1. IInv => TypeOK
  BY DEF IInv
<1>2. QED
  BY <1>1, InitIInv, NextKeepsIInv, PTL DEF Spec

\* Whatever overlaps, the active pledges of every account stay within the
\* balance that withdrawals, corrections, reversals and new pledges are judged
\* by: postTransactionInTx, ApproveShareAdjustment, ReverseShareTransaction and
\* the loan-security calls never let shares be spent and pledged at once.
THEOREM PledgesAlwaysCovered == Spec => []PledgesCovered
<1>1. IInv => PledgesCovered
  BY DEF IInv, Position, PledgesCovered
<1>2. QED
  BY <1>1, InitIInv, NextKeepsIInv, PTL DEF Spec

-----------------------------------------------------------------------------
(* How the balance moves.                                                  *)

\* Only the three insertions change the ledger.
LEMMA LedgerSteps ==
  ASSUME [Next]_vars
  PROVE  \/ ledger' = ledger
         \/ \E t \in open : Post(t) \/ ApproveShareAdjustment(t) \/ ReverseShareTransaction(t)
  BY DEF Next, vars, BeginPosting, BeginApproval, BeginReversal, Begin, Rollback, PostAgain,
         CreateAdjustment, ApproveAgain, ReadOriginal, ReverseReusedReference,
         ProposeApplicantSecurity, VerifyApplicantSecurity, ApproveGuarantorSecurity,
         SetPledges, ReleaseLoanSecurity, OpenShareAccount, SetAccountStatus

\* The ledger changes by insertions whose balance is the one they read plus
\* their own effect, and the gap that rounding leaves.
LEMMA Postings ==
  ASSUME IInv, [Next]_vars, ledger' # ledger
  PROVE  \E t \in open, amount \in Int, bal \in Int :
            /\ Inserts(t, amount, bal)
            /\ bal = GetLatestBalance(t.account) + Effect(NewRow(t, amount, bal)) + Gap(t)
            /\ reply'.tx = t
<1> SUFFICES ASSUME NEW t \in open,
                    Post(t) \/ ApproveShareAdjustment(t) \/ ReverseShareTransaction(t)
             PROVE  /\ reply'.tx = t
                    /\ \E amount \in Int, bal \in Int :
                          /\ Inserts(t, amount, bal)
                          /\ bal = GetLatestBalance(t.account) + Effect(NewRow(t, amount, bal))
                                   + Gap(t)
  BY LedgerSteps
<1>0. reply'.tx = t
  BY DEF Post, ApproveShareAdjustment, ReverseShareTransaction, Answer
<1>1. t.account \in Accounts /\ t.amount \in Int
  BY DEF IInv, TypeOK, OpenTx
<1>2. GetLatestBalance(t.account) \in Int
  BY <1>1, PositionIsInt
<1>3. CASE Post(t)
  <2> DEFINE b == GetLatestBalance(t.account)
             amount == Stored(t.amount)
             bal == Stored(PostedBalance(t))
  <2>1. Inserts(t, amount, bal) /\ amount \in Int /\ bal \in Int
    BY <1>3, PostInserts DEF Inserts
  <2>2. amount > 0
    BY <1>3 DEF Post, InsertShareTransaction, PostingTypes
  <2>3. b \in Nat /\ ActivePledged(t.account) \in Nat
    BY <1>1, <1>2, PositionIsInt DEF IInv, Position
  <2>4. Effect(NewRow(t, amount, bal)) = IF t.type = "withdrawal" THEN -amount ELSE amount
    BY DEF Effect, NewRow
  <2>5. CASE t.type = "withdrawal"
    <3>1. PostedBalance(t) = 10 * b - t.amount
      BY <2>5 DEF PostedBalance
    <3>2. PostedBalance(t) >= 10 * ActivePledged(t.account)
      BY <1>3, <2>5 DEF Post, PositionAllows
    <3>3. 10 * b - t.amount >= 0
      BY <1>1, <2>3, <3>1, <3>2
    <3>4. bal = b - amount + Gap(t)
      <4>1. Gap(t) = IF Half(t.amount) THEN 1 ELSE 0
        BY <2>5 DEF Gap
      <4> HIDE DEF b
      <4>2. QED
        BY <1>1, <2>2, <2>3, <3>1, <3>3, <4>1, StoredDifference
    <3>5. Gap(t) \in Int
      BY DEF Gap
    <3> HIDE DEF b, amount, bal
    <3>6. bal = b + Effect(NewRow(t, amount, bal)) + Gap(t)
      BY <2>1, <2>3, <2>4, <2>5, <3>4, <3>5
    <3>7. QED
      BY <1>0, <2>1, <3>6 DEF b
  <2>6. CASE t.type # "withdrawal"
    <3>1. PostedBalance(t) = 10 * b + t.amount
      BY <2>6 DEF PostedBalance
    <3>2. Gap(t) = 0
      BY <2>6 DEF Gap
    <3>3. bal = b + amount
      <4> HIDE DEF b
      <4> QED BY <1>1, <2>2, <2>3, <3>1, StoredSum
    <3> HIDE DEF b, amount, bal
    <3>4. bal = b + Effect(NewRow(t, amount, bal)) + Gap(t)
      BY <2>1, <2>3, <2>4, <2>6, <3>2, <3>3
    <3>5. QED
      BY <1>0, <2>1, <3>4 DEF b
  <2>7. QED
    BY <2>5, <2>6
<1>4. CASE ApproveShareAdjustment(t)
  <2> DEFINE amount == adjustments[t.account][t.reference_id].amount
             bal == GetLatestBalance(t.account) + amount
  <2>1. Inserts(t, amount, bal) /\ amount \in Int /\ bal \in Int
    BY <1>4, ApproveInserts DEF Inserts
  <2>2. Effect(NewRow(t, amount, bal)) = amount /\ Gap(t) = 0
    BY <1>4 DEF Effect, NewRow, ApproveShareAdjustment, Gap
  <2> HIDE DEF amount
  <2>3. bal = GetLatestBalance(t.account) + Effect(NewRow(t, amount, bal)) + Gap(t)
    BY <1>2, <2>1, <2>2
  <2>4. QED
    BY <1>0, <2>1, <2>3
<1>5. CASE ReverseShareTransaction(t)
  <2>1. PICK original \in ledger :
           Inserts(t, ReversalAmount(original),
                   GetLatestBalance(t.account) + ReversalAmount(original))
    BY <1>5, ReverseInserts
  <2> DEFINE amount == ReversalAmount(original)
             bal == GetLatestBalance(t.account) + amount
  <2>2. t.type = "reversal"
    BY <1>5 DEF ReverseShareTransaction
  <2>3. Effect(NewRow(t, amount, bal)) = amount /\ Gap(t) = 0
    BY <2>2 DEF Effect, NewRow, Gap
  <2>4. Inserts(t, amount, bal) /\ amount \in Int /\ bal \in Int
    BY <2>1 DEF Inserts
  <2> HIDE DEF amount
  <2>5. bal = GetLatestBalance(t.account) + Effect(NewRow(t, amount, bal)) + Gap(t)
    BY <1>2, <2>3, <2>4
  <2>6. QED
    BY <1>0, <2>4, <2>5
<1>6. QED
  BY <1>3, <1>4, <1>5

LEMMA InsertMoves ==
  ASSUME IInv, NEW t \in open, NEW amount, NEW bal, Inserts(t, amount, bal),
         bal = GetLatestBalance(t.account) + Effect(NewRow(t, amount, bal)) + Gap(t),
         reply'.tx = t,
         NEW a \in Accounts, GetLatestBalance(a)' # GetLatestBalance(a)
  PROVE  \E r \in ledger' \ ledger :
            /\ r.account = a
            /\ GetLatestBalance(a)' = GetLatestBalance(a) + Effect(r) + Gap(reply'.tx)
<1>1. NewRow(t, amount, bal) \in ledger' \ ledger
  BY InsertRow DEF Inserts
<1>2. a = t.account
  BY InsertKeepsPosition
<1>3. GetLatestBalance(a)' = bal
  BY <1>2, InsertKeepsPosition
<1>4. NewRow(t, amount, bal).account = a
  BY <1>2 DEF NewRow
<1>5. QED
  BY <1>1, <1>2, <1>3, <1>4

\* The balance that decisions read never jumps: it moves only with a new row,
\* and by exactly what that row says, up to the quantum that rounding a withdrawal
\* of half a quantum leaves behind.
THEOREM BalanceMoves == Spec => BalanceMovesByPosting
<1> DEFINE Moves == \A a \in Accounts :
              GetLatestBalance(a)' # GetLatestBalance(a) =>
                  \E r \in ledger' \ ledger :
                      /\ r.account = a
                      /\ GetLatestBalance(a)' = GetLatestBalance(a) + Effect(r)
                                                   + Gap(reply'.tx)
<1>1. ASSUME IInv, [Next]_vars PROVE Moves
  <2>1. CASE ledger' = ledger
    BY <2>1 DEF GetLatestBalance, RowsOf
  <2>2. CASE ledger' # ledger
    BY <1>1, <2>2, Postings, InsertMoves
  <2>3. QED
    BY <2>1, <2>2
<1>2. QED
  BY <1>1, InitIInv, NextKeepsIInv, PTL DEF Spec, BalanceMovesByPosting

-----------------------------------------------------------------------------
(* When the balance is the sum of the ledger.  Finding out which row is    *)
(* the latest by its created_at goes wrong only when a transaction that    *)
(* began earlier commits later, and rounding goes wrong only at half a     *)
(* quantum.                                                                *)

\* No client asks for an amount that ends in exactly half a quantum.
NoHalves == \A tenths \in Amounts : ~Half(tenths)

\* A posting carries the amount its client sent.
Asked == \A t \in open : t.type \in PostingTypes => t.amount \in Amounts

LEMMA NextKeepsAsked == Asked /\ [Next]_vars => Asked'
<1> SUFFICES ASSUME Asked, [Next]_vars PROVE Asked'
  OBVIOUS
<1>1. ASSUME NEW type, NEW a, NEW amount, NEW ref, NEW target,
             Begin(type, a, amount, ref, target), type \in PostingTypes => amount \in Amounts
      PROVE  Asked'
  BY <1>1 DEF Begin, Asked
<1>2. ASSUME open' \subseteq open PROVE Asked'
  BY <1>2 DEF Asked
<1>3. ASSUME NEW t \in open, ReadOriginal(t) PROVE Asked'
  <2>1. open' \subseteq open \cup {AfterRead(t)} /\ AfterRead(t).type = "reversal"
    BY <1>3 DEF ReadOriginal, AfterRead, Answer
  <2>2. QED
    BY <2>1 DEF Asked, PostingTypes
<1>4. ASSUME NEW a \in Accounts, NEW ref \in Refs,
             \/ \E type \in PostingTypes, tenths \in Amounts : BeginPosting(type, a, tenths, ref)
             \/ BeginApproval(a, ref)
      PROVE  Asked'
  BY <1>1, <1>4 DEF BeginPosting, BeginApproval, PostingTypes
<1>5. ASSUME NEW original \in ledger, NEW ref \in Refs, BeginReversal(original, ref)
      PROVE  Asked'
  BY <1>1, <1>5 DEF BeginReversal, PostingTypes
<1>6. \/ open' \subseteq open
      \/ \E t \in open : ReadOriginal(t)
      \/ \E a \in Accounts, ref \in Refs :
            \/ \E type \in PostingTypes, tenths \in Amounts : BeginPosting(type, a, tenths, ref)
            \/ BeginApproval(a, ref)
      \/ \E original \in ledger, ref \in Refs : BeginReversal(original, ref)
  BY DEF Next, vars, Rollback, PostAgain, Post, ApproveShareAdjustment, CreateAdjustment,
         ApproveAgain, ReverseShareTransaction, ReverseReusedReference, Answer,
         ProposeApplicantSecurity, VerifyApplicantSecurity, ApproveGuarantorSecurity,
         SetPledges, ReleaseLoanSecurity, OpenShareAccount, SetAccountStatus
<1>7. QED
  BY <1>2, <1>3, <1>4, <1>5, <1>6

\* A step that posts to an account posts after everything the account has.
PostsInOrder ==
    \A n \in ledger' \ ledger : \A q \in RowsOf(n.account) : q.created_at < n.created_at

Effects(a) == [r \in RowsOf(a) |-> Effect(r)]

Summed ==
    \A a \in Accounts :
        IsFiniteSet(RowsOf(a)) /\ GetLatestBalance(a) = SumFunction(Effects(a))

LEMMA EffectIsInt == ASSUME NEW r \in Row PROVE Effect(r) \in Int
  BY DEF Effect, Row

LEMMA InsertInOrder ==
  ASSUME IInv, Summed, PostsInOrder, NEW t \in open, NEW amount \in Int, NEW bal \in Int,
         Inserts(t, amount, bal), Gap(t) = 0,
         bal = GetLatestBalance(t.account) + Effect(NewRow(t, amount, bal)) + Gap(t)
  PROVE  Summed'
<1> DEFINE b == t.account
<1>0. PICK n : n = NewRow(t, amount, bal)
  OBVIOUS
<1>1. /\ n \in Row /\ n \notin ledger /\ n \in ledger'
      /\ RowsOf(b)' = RowsOf(b) \cup {n}
      /\ \A a \in Accounts : a # b => RowsOf(a)' = RowsOf(a)
  BY <1>0, InsertRow DEF Inserts
<1>2. b \in Accounts /\ n.account = b /\ n.balance_after = bal
  BY <1>0 DEF IInv, TypeOK, OpenTx, NewRow
<1>3. RowsOf(b) \in SUBSET Row /\ GetLatestBalance(b) \in Int
  BY <1>2, PositionIsInt
<1>4. \A q \in RowsOf(b) : q.created_at < n.created_at
  BY <1>1, <1>2 DEF PostsInOrder
<1>5. GetLatestBalance(b)' = bal
  <2> DEFINE S == RowsOf(b) \cup {n}
  <2>1. /\ \A r \in S : r.created_at \in Nat
        /\ \A r \in S : r.created_at <= n.created_at
        /\ n \in S
    BY <1>1, <1>3, <1>4 DEF Row
  <2>2. \A r, q \in S : r.created_at = q.created_at => r = q
    <3>1. \A r, q \in RowsOf(b) : r.created_at = q.created_at => r = q
      BY DEF IInv, Stamps, RowsOf
    <3>2. \A r \in RowsOf(b) : r.created_at # n.created_at
      BY <1>1, <1>3, <1>4 DEF Row
    <3>3. QED
      BY <3>1, <3>2
  <2> HIDE DEF S
  <2>3. LatestOf(S) = n
    BY <2>1, <2>2, LatestIsUnique
  <2>4. BalanceOf(S) = bal
    BY <1>2, <2>1, <2>3 DEF BalanceOf
  <2>5. QED
    BY <1>1, <2>4 DEF GetLatestBalance, S
<1>6. SumFunction(Effects(b))' = SumFunction(Effects(b)) + Effect(n) /\ IsFiniteSet(RowsOf(b)')
  <2> DEFINE R == RowsOf(b)
             f == [r \in R |-> Effect(r)]
             h == [r \in R \cup {n} |-> Effect(r)]
  <2>1. IsFiniteSet(R) /\ n \notin R
    BY <1>1, <1>2 DEF Summed, RowsOf
  <2>2. IsFiniteSet(R \cup {n})
    BY <2>1, FS_AddElement
  <2>3. Effects(b) = f /\ Effects(b)' = h
    BY <1>1 DEF Effects
  <2>4. SumFunction(Effects(b)) = SumFunctionOnSet(f, R)
        /\ SumFunction(Effects(b))' = SumFunctionOnSet(h, R \cup {n})
    BY <2>3 DEF SumFunction
  <2>5. /\ \A x \in R \cup {n} : h[x] \in Int
        /\ \A x \in R : f[x] \in Int /\ f[x] = h[x]
        /\ h[n] = Effect(n)
    BY <1>1, <1>3, EffectIsInt
  <2> HIDE DEF R, f, h
  <2>6. SumFunctionOnSet(h, R \cup {n}) = h[n] + SumFunctionOnSet(h, R)
    BY <2>1, <2>5, SumAdd
  <2>7. SumFunctionOnSet(f, R) = SumFunctionOnSet(h, R) /\ SumFunctionOnSet(f, R) \in Int
    BY <2>1, <2>5, SumSame, SumType
  <2>8. h[n] \in Int
    BY <2>5
  <2>9. QED
    BY <1>1, <2>2, <2>4, <2>5, <2>6, <2>7, <2>8 DEF R
<1>7. GetLatestBalance(b)' = SumFunction(Effects(b))'
  <2>1. GetLatestBalance(b) = SumFunction(Effects(b))
    BY <1>2 DEF Summed
  <2>2. bal = GetLatestBalance(b) + Effect(n)
    <3>1. Effect(n) \in Int
      BY <1>1, EffectIsInt
    <3>2. QED
      BY <1>0, <1>3, <3>1
  <2>3. QED
    BY <1>5, <1>6, <2>1, <2>2
<1>8. ASSUME NEW a \in Accounts, a # b
      PROVE  IsFiniteSet(RowsOf(a)') /\ GetLatestBalance(a)' = SumFunction(Effects(a))'
  <2>1. RowsOf(a)' = RowsOf(a)
    BY <1>1, <1>8
  <2>2. GetLatestBalance(a)' = GetLatestBalance(a) /\ Effects(a)' = Effects(a)
    BY <2>1 DEF GetLatestBalance, Effects
  <2>3. QED
    BY <2>1, <2>2 DEF Summed
<1>9. QED
  BY <1>6, <1>7, <1>8 DEF Summed

\* As long as the postings to an account commit in the order in which their
\* transactions began, and no amount ends in half a quantum, the balance that
\* GetLatestBalance reads is the sum of all of them: these two are all that is
\* missing from postTransactionInTx.
THEOREM OrderlyBalanceIsSum ==
  NoHalves => (Spec /\ [][PostsInOrder]_vars => []BalanceIsSumOfPostings)
<1> SUFFICES ASSUME NoHalves
             PROVE  Spec /\ [][PostsInOrder]_vars => []BalanceIsSumOfPostings
  OBVIOUS
<1>0. Init => Asked
  BY DEF Init, Asked
<1>1. Init => Summed
  <2> SUFFICES ASSUME Init, NEW a \in Accounts
               PROVE  IsFiniteSet(RowsOf(a)) /\ GetLatestBalance(a) = SumFunction(Effects(a))
    BY DEF Summed
  <2>1. RowsOf(a) = {}
    BY DEF Init, RowsOf
  <2>2. GetLatestBalance(a) = 0 /\ DOMAIN Effects(a) = {} /\ IsFiniteSet(RowsOf(a))
    BY <2>1, FS_EmptySet DEF GetLatestBalance, BalanceOf, Effects
  <2>3. SumFunction(Effects(a)) = 0
    BY <2>2, SumEmpty DEF SumFunction
  <2>4. QED
    BY <2>2, <2>3
<1>2. IInv /\ Asked /\ Summed /\ [Next]_vars /\ [PostsInOrder]_vars => Summed'
  <2> SUFFICES ASSUME IInv, Asked, Summed, [Next]_vars, [PostsInOrder]_vars PROVE Summed'
    OBVIOUS
  <2>1. CASE ledger' = ledger
    <3>1. \A a \in Accounts : /\ RowsOf(a)' = RowsOf(a) /\ GetLatestBalance(a)' = GetLatestBalance(a)
                              /\ Effects(a)' = Effects(a)
      BY <2>1 DEF RowsOf, GetLatestBalance, Effects
    <3>2. QED
      BY <3>1 DEF Summed
  <2>2. CASE ledger' # ledger
    <3>1. PostsInOrder
      BY <2>2 DEF vars
    <3>2. PICK t \in open, amount \in Int, bal \in Int :
              /\ Inserts(t, amount, bal)
              /\ bal = GetLatestBalance(t.account) + Effect(NewRow(t, amount, bal)) + Gap(t)
      BY <2>2, Postings
    <3>3. Gap(t) = 0
      BY DEF Asked, NoHalves, Gap, PostingTypes
    <3>4. QED
      BY <3>1, <3>2, <3>3, InsertInOrder
  <2>3. QED
    BY <2>1, <2>2
<1>3. Summed => BalanceIsSumOfPostings
  BY DEF Summed, Effects, BalanceIsSumOfPostings
<1>4. QED
  BY <1>0, <1>1, <1>2, <1>3, InitIInv, NextKeepsIInv, NextKeepsAsked, PTL DEF Spec

-----------------------------------------------------------------------------
(* The books: references, reversals and adjustments.                       *)

BInv == IInv /\ Requests /\ Books /\ SuccessMeansPosted

\* A row with a fresh reference, that reverses what nobody reversed, or nothing,
\* keeps the parts of Books that speak of the ledger alone.
LEMMA InsertKeepsLedgerBooks ==
  ASSUME BInv, NEW n, ledger' = ledger \cup {n},
         GetTransactionByReference(n.account, n.reference_id, n.type) = {},
         n.reversal_of # 0 => GetReversalTransactions(n.reversal_of) = {},
         n.type # "reversal" => n.reversal_of = 0,
         n.type = "reversal" =>
            \E original \in ledger :
                /\ original.created_at = n.reversal_of
                /\ original.account = n.account
                /\ original.type # "reversal"
                /\ Effect(n) + Effect(original) = 0
  PROVE  /\ (\A r \in ledger : r.type # "reversal" => r.reversal_of = 0)'
         /\ ReversedAtMostOnce'
         /\ ReversalsCancelTheirOriginal'
         /\ ReferencePostedOnce'
<1>1. (\A r \in ledger : r.type # "reversal" => r.reversal_of = 0)'
  BY DEF BInv, Books
<1>2. ReversedAtMostOnce'
  <2>1. \A r \in ledger : n.reversal_of # 0 => r.reversal_of # n.reversal_of
    BY DEF GetReversalTransactions
  <2>2. QED
    BY <2>1 DEF BInv, Books, ReversedAtMostOnce
<1>3. ReversalsCancelTheirOriginal'
  <2>1. \A r \in ledger : Effect(r)' = Effect(r)
    BY DEF Effect
  <2>2. QED
    BY <2>1 DEF BInv, Books, ReversalsCancelTheirOriginal, Effect
<1>4. ReferencePostedOnce'
  <2>1. \A r \in ledger :
           ~(r.account = n.account /\ r.reference_id = n.reference_id /\ r.type = n.type)
    BY DEF GetTransactionByReference, RowsOf
  <2>2. QED
    BY <2>1 DEF BInv, Books, ReferencePostedOnce
<1>5. QED
  BY <1>1, <1>2, <1>3, <1>4

\* Rows of other types leave the adjustments' rows alone.
LEMMA OtherRowsKeepAdjustments ==
  ASSUME BInv, NEW n, ledger' = ledger \cup {n}, n.type # "adjustment",
         adjustments' = adjustments
  PROVE  AdjustmentPostedIffApproved'
<1>1. \A a, ref : GetTransactionByReference(a, ref, "adjustment")'
                    = GetTransactionByReference(a, ref, "adjustment")
  BY DEF GetTransactionByReference, RowsOf
<1>2. QED
  BY <1>1 DEF BInv, Books, AdjustmentPostedIffApproved

\* Nothing but open transactions, pledges or statuses changes.
LEMMA QuietBooks ==
  ASSUME BInv, ledger' = ledger, adjustments' = adjustments
  PROVE  Books'
<1>1. \A a, ref : GetTransactionByReference(a, ref, "adjustment")'
                    = GetTransactionByReference(a, ref, "adjustment")
  BY DEF GetTransactionByReference, RowsOf
<1>2. AdjustmentPostedIffApproved'
  BY <1>1 DEF BInv, Books, AdjustmentPostedIffApproved
<1>3. ReversalsCancelTheirOriginal'
  BY DEF BInv, Books, ReversalsCancelTheirOriginal, Effect
<1>4. QED
  BY <1>2, <1>3 DEF BInv, Books, ReversedAtMostOnce, ReferencePostedOnce

\* What open transactions know stays true while the ledger only grows and the
\* requests they were begun for keep their amounts.
LEMMA RequestsSurvive ==
  ASSUME BInv, ledger \subseteq ledger', open' \subseteq open,
         \A a \in Accounts, ref \in Refs :
            adjustments[a][ref].status # "none" =>
               /\ adjustments'[a][ref].status # "none"
               /\ adjustments'[a][ref].amount = adjustments[a][ref].amount
  PROVE  Requests'
<1>1. \A t \in open : t.account \in Accounts /\ t.reference_id \in Refs
  BY DEF BInv, IInv, TypeOK, OpenTx
<1>2. QED
  BY <1>1 DEF BInv, Requests

\* BEGIN for a request that exists.
LEMMA BeginKeepsBInv ==
  ASSUME BInv, NEW type \in TransactionTypes, NEW a \in Accounts, NEW amount \in Int,
         NEW ref \in Refs, NEW target \in Nat, Begin(type, a, amount, ref, target),
         type # "reversal" => target = 0,
         type = "adjustment" =>
            adjustments[a][ref].status # "none" /\ amount = 10 * adjustments[a][ref].amount,
         type = "reversal" =>
            \E original \in ledger : original.created_at = target /\ original.account = a
  PROVE  BInv'
<1> DEFINE t == [type |-> type, account |-> a, amount |-> amount,
                 reference_id |-> ref, target |-> target,
                 created_at |-> clock + 1, phase |-> "begun"]
<1>1. IInv'
  BY BeginKeepsIInv DEF BInv
<1>2. ledger' = ledger /\ adjustments' = adjustments /\ open' = open \cup {t} /\ reply' = NoReply
  BY DEF Begin
<1>3. /\ t.type = type /\ t.account = a /\ t.amount = amount /\ t.reference_id = ref
      /\ t.target = target /\ t.phase # "read"
  OBVIOUS
<1> HIDE DEF t
<1>4. Requests'
  BY <1>2, <1>3 DEF BInv, Requests
<1>5. SuccessMeansPosted'
  BY <1>2 DEF SuccessMeansPosted, NoReply
<1>6. QED
  BY <1>1, <1>2, <1>4, <1>5, QuietBooks DEF BInv

LEMMA PostKeepsBInv ==
  ASSUME BInv, NEW t \in open, Post(t)
  PROVE  BInv'
<1> DEFINE n == NewRow(t, Stored(t.amount), Stored(PostedBalance(t)))
<1>1. IInv'
  BY StepKeepsIInv DEF BInv
<1>2. t.type \in PostingTypes /\ t.target = 0
  BY DEF Post, BInv, Requests, PostingTypes
<1>3. /\ n.account = t.account /\ n.reference_id = t.reference_id /\ n.type = t.type
      /\ n.reversal_of = t.target /\ n.created_at = t.created_at /\ n.amount = Stored(t.amount)
  BY DEF NewRow
<1>4. /\ ledger' = ledger \cup {n} /\ open' = open \ {t} /\ adjustments' = adjustments
      /\ reply' = [ok |-> TRUE, tx |-> t, row |-> t.created_at]
      /\ GetTransactionByReference(t.account, t.reference_id, t.type) = {}
  BY DEF Post, ReferenceIsNew, InsertShareTransaction, Answer
<1> HIDE DEF n
<1>5. n.type # "reversal" /\ n.type # "adjustment" /\ n.reversal_of = 0
  BY <1>2, <1>3 DEF PostingTypes
<1>6. Books'
  BY <1>3, <1>4, <1>5, InsertKeepsLedgerBooks, OtherRowsKeepAdjustments DEF Books
<1>7. Requests'
  BY <1>4, RequestsSurvive
<1>8. SuccessMeansPosted'
  BY <1>3, <1>4 DEF SuccessMeansPosted
<1>9. QED
  BY <1>1, <1>6, <1>7, <1>8 DEF BInv

LEMMA ApproveKeepsBInv ==
  ASSUME BInv, NEW t \in open, ApproveShareAdjustment(t)
  PROVE  BInv'
<1> DEFINE amount == adjustments[t.account][t.reference_id].amount
           n == NewRow(t, amount, GetLatestBalance(t.account) + amount)
<1>1. IInv'
  BY StepKeepsIInv DEF BInv
<1>2. /\ t.account \in Accounts /\ t.reference_id \in Refs
      /\ t.type = "adjustment" /\ t.target = 0
      /\ adjustments[t.account][t.reference_id].status = "pending"
      /\ t.amount = 10 * amount /\ amount \in Int
  BY DEF ApproveShareAdjustment, BInv, IInv, TypeOK, OpenTx, Requests, Adjustment
<1>3. /\ n.account = t.account /\ n.reference_id = t.reference_id /\ n.type = "adjustment"
      /\ n.reversal_of = 0 /\ n.created_at = t.created_at /\ n.amount = amount
  BY <1>2 DEF NewRow
<1>4. /\ ledger' = ledger \cup {n} /\ open' = open \ {t}
      /\ reply' = [ok |-> TRUE, tx |-> t, row |-> t.created_at]
  BY ApproveInserts DEF BInv, Inserts, ApproveShareAdjustment, Answer
<1> HIDE DEF n, amount
<1>5. GetTransactionByReference(t.account, t.reference_id, "adjustment") = {}
  BY <1>2 DEF BInv, Books, AdjustmentPostedIffApproved
<1>6. \A a \in Accounts, ref \in Refs :
         adjustments'[a][ref] =
            IF a = t.account /\ ref = t.reference_id
            THEN [amount |-> amount, status |-> "approved"]
            ELSE adjustments[a][ref]
  BY <1>2 DEF ApproveShareAdjustment, UpdateAdjustmentApproved, BInv, IInv, TypeOK, amount
<1>7. \A a \in Accounts, ref \in Refs :
         GetTransactionByReference(a, ref, "adjustment")' =
            GetTransactionByReference(a, ref, "adjustment")
              \cup (IF a = t.account /\ ref = t.reference_id THEN {n} ELSE {})
  BY <1>3, <1>4 DEF GetTransactionByReference, RowsOf
<1>8. AdjustmentPostedIffApproved'
  <2> SUFFICES ASSUME NEW a \in Accounts, NEW ref \in Refs
               PROVE  /\ adjustments'[a][ref].status = "approved" <=>
                            GetTransactionByReference(a, ref, "adjustment")' # {}
                      /\ \A r \in GetTransactionByReference(a, ref, "adjustment")' :
                            r.amount = adjustments'[a][ref].amount
    BY DEF AdjustmentPostedIffApproved
  <2>1. CASE a = t.account /\ ref = t.reference_id
    BY <1>3, <1>5, <1>6, <1>7, <2>1
  <2>2. CASE ~(a = t.account /\ ref = t.reference_id)
    BY <1>6, <1>7, <2>2 DEF BInv, Books, AdjustmentPostedIffApproved
  <2>3. QED
    BY <2>1, <2>2
<1>9. Books'
  BY <1>3, <1>4, <1>5, <1>8, InsertKeepsLedgerBooks DEF Books
<1>10. Requests'
  BY <1>2, <1>4, <1>6, RequestsSurvive DEF amount
<1>11. SuccessMeansPosted'
  <2>1. n.amount = Stored(t.amount)
    BY <1>2, <1>3, WholeIsStored
  <2>2. QED
    BY <1>2, <1>3, <1>4, <2>1 DEF SuccessMeansPosted
<1>12. QED
  BY <1>1, <1>9, <1>10, <1>11 DEF BInv

LEMMA ReverseKeepsBInv ==
  ASSUME BInv, NEW t \in open, ReverseShareTransaction(t)
  PROVE  BInv'
<1>1. IInv'
  BY StepKeepsIInv DEF BInv
<1>2. PICK original \in ledger :
         /\ original.created_at = t.target
         /\ GetReversalTransactions(t.target) = {}
         /\ GetTransactionByReference(t.account, t.reference_id, "reversal") = {}
         /\ Inserts(t, ReversalAmount(original),
                    GetLatestBalance(t.account) + ReversalAmount(original))
  BY ReverseInserts DEF BInv
<1>3. t.type = "reversal" /\ t.phase = "read" /\ adjustments' = adjustments
      /\ reply' = [ok |-> TRUE, tx |-> t, row |-> t.created_at]
  BY DEF ReverseShareTransaction, Answer
\* The row read before the lock is the row the reversal names.
<1>4. original.account = t.account /\ original.type # "reversal"
  BY <1>2, <1>3 DEF BInv, Requests, IInv, Stamps
<1> DEFINE n == NewRow(t, ReversalAmount(original),
                       GetLatestBalance(t.account) + ReversalAmount(original))
<1>5. /\ n.account = t.account /\ n.reference_id = t.reference_id /\ n.type = "reversal"
      /\ n.reversal_of = t.target /\ n.amount = ReversalAmount(original)
  BY <1>3 DEF NewRow
<1>6. ledger' = ledger \cup {n} /\ open' = open \ {t}
  BY <1>2 DEF Inserts
<1> HIDE DEF n
<1>7. Effect(n) + Effect(original) = 0
  <2>1. original.amount \in Int
    BY DEF BInv, IInv, TypeOK, Row
  <2>2. QED
    BY <1>5, <2>1 DEF Effect, ReversalAmount
<1>8. Books'
  BY <1>2, <1>3, <1>4, <1>5, <1>6, <1>7, InsertKeepsLedgerBooks, OtherRowsKeepAdjustments
  DEF Books
<1>9. Requests'
  BY <1>3, <1>6, RequestsSurvive
<1>10. SuccessMeansPosted'
  BY <1>3 DEF SuccessMeansPosted
<1>11. QED
  BY <1>1, <1>8, <1>9, <1>10 DEF BInv

\* Steps of an open transaction that insert nothing.
LEMMA EndKeepsBInv ==
  ASSUME BInv, NEW t \in open,
         \/ Rollback(t) \/ PostAgain(t) \/ ApproveAgain(t) \/ ReadOriginal(t)
         \/ ReverseReusedReference(t)
  PROVE  BInv'
<1>1. IInv'
  BY StepKeepsIInv DEF BInv
<1>2. ledger' = ledger /\ adjustments' = adjustments
  BY DEF Rollback, PostAgain, ApproveAgain, ReadOriginal, ReverseReusedReference
<1>3. ASSUME open' = open \ {t} PROVE Requests'
  BY <1>2, <1>3, RequestsSurvive
<1>4. ASSUME ReadOriginal(t), open' = (open \ {t}) \cup {AfterRead(t)} PROVE Requests'
  <2>1. /\ AfterRead(t).type = "reversal" /\ AfterRead(t).account = t.account
        /\ AfterRead(t).target = t.target
    BY <1>4 DEF ReadOriginal, AfterRead
  <2>2. PICK original \in ledger : original.created_at = t.target /\ original.account = t.account
                                   /\ original.type # "reversal"
    BY <1>4 DEF ReadOriginal, BInv, Requests
  <2>3. QED
    BY <1>2, <1>4, <2>1, <2>2 DEF BInv, Requests
<1>5. Requests'
  <2>1. CASE Rollback(t)
    BY <1>3, <2>1 DEF Rollback
  <2>2. CASE PostAgain(t)
    BY <1>3, <2>2 DEF PostAgain, Answer
  <2>3. CASE ApproveAgain(t)
    BY <1>3, <2>3 DEF ApproveAgain, Answer
  <2>4. CASE ReadOriginal(t)
    <3>1. open' = open \ {t} \/ open' = (open \ {t}) \cup {AfterRead(t)}
      BY <2>4 DEF ReadOriginal, Answer
    <3>2. QED
      BY <1>3, <1>4, <2>4, <3>1
  <2>5. CASE ReverseReusedReference(t)
    BY <1>3, <2>5 DEF ReverseReusedReference, Answer
  <2>6. QED
    BY <2>1, <2>2, <2>3, <2>4, <2>5
<1>6. SuccessMeansPosted'
  <2>1. CASE PostAgain(t)
    <3>1. PICK r \in GetTransactionByReference(t.account, t.reference_id, t.type) :
             10 * r.amount = t.amount /\ Answer(t, r.created_at)
      BY <2>1 DEF PostAgain, SameRequest
    <3>2. r.amount \in Int
      BY <3>1 DEF GetTransactionByReference, RowsOf, BInv, IInv, TypeOK, Row
    <3>3. r.amount = Stored(t.amount)
      BY <3>1, <3>2, WholeIsStored
    <3>4. QED
      BY <1>2, <3>1, <3>3
      DEF GetTransactionByReference, RowsOf, Answer, SuccessMeansPosted
  <2>2. CASE ApproveAgain(t)
    <3>1. PICK r \in GetTransactionByReference(t.account, t.reference_id, "adjustment") :
             Answer(t, r.created_at)
      BY <2>2 DEF ApproveAgain
    <3>2. t.type = "adjustment" /\ t.account \in Accounts /\ t.reference_id \in Refs
      BY <2>2 DEF ApproveAgain, BInv, IInv, TypeOK, OpenTx
    <3>3. r.amount = Stored(t.amount)
      <4>1. t.amount = 10 * r.amount
        BY <3>1, <3>2 DEF BInv, Requests, Books, AdjustmentPostedIffApproved
      <4>2. r.amount \in Int
        BY <3>1 DEF GetTransactionByReference, RowsOf, BInv, IInv, TypeOK, Row
      <4>3. QED
        BY <4>1, <4>2, WholeIsStored
    <3>4. QED
      BY <1>2, <3>1, <3>2, <3>3
      DEF GetTransactionByReference, RowsOf, Answer, SuccessMeansPosted
  <2>3. CASE reply' = NoReply
    BY <2>3 DEF SuccessMeansPosted, NoReply
  <2>4. ASSUME t.type = "reversal", NEW r, Answer(t, r)
        PROVE  SuccessMeansPosted'
    BY <2>4 DEF SuccessMeansPosted, Answer
  <2>5. CASE Rollback(t)
    BY <2>3, <2>5 DEF Rollback
  <2>6. CASE ReadOriginal(t)
    BY <2>3, <2>4, <2>6 DEF ReadOriginal
  <2>7. CASE ReverseReusedReference(t)
    BY <2>4, <2>7 DEF ReverseReusedReference
  <2>8. QED
    BY <2>1, <2>2, <2>5, <2>6, <2>7
<1>7. QED
  BY <1>1, <1>2, <1>5, <1>6, QuietBooks DEF BInv

LEMMA CreateAdjustmentKeepsBInv ==
  ASSUME BInv, IInv', NEW a \in Accounts, NEW ref \in Refs, NEW tenths,
         CreateAdjustment(a, ref, tenths)
  PROVE  BInv'
<1>1. /\ ledger' = ledger /\ open' = open /\ reply' = NoReply
      /\ adjustments[a][ref].status = "none"
  BY DEF CreateAdjustment
<1>2. \A b \in Accounts, f \in Refs :
         adjustments'[b][f] = IF b = a /\ f = ref
                              THEN [amount |-> Stored(tenths), status |-> "pending"]
                              ELSE adjustments[b][f]
  BY DEF CreateAdjustment, BInv, IInv, TypeOK
<1>3. \A b, f : GetTransactionByReference(b, f, "adjustment")'
                  = GetTransactionByReference(b, f, "adjustment")
  BY <1>1 DEF GetTransactionByReference, RowsOf
<1>4. AdjustmentPostedIffApproved'
  <2>1. GetTransactionByReference(a, ref, "adjustment") = {}
    BY <1>1 DEF BInv, Books, AdjustmentPostedIffApproved
  <2>2. QED
    BY <1>2, <1>3, <2>1 DEF BInv, Books, AdjustmentPostedIffApproved
<1>5. ReversalsCancelTheirOriginal'
  BY <1>1 DEF BInv, Books, ReversalsCancelTheirOriginal, Effect
<1>6. Books'
  BY <1>1, <1>4, <1>5 DEF BInv, Books, ReversedAtMostOnce, ReferencePostedOnce
<1>7. Requests'
  BY <1>1, <1>2, RequestsSurvive
<1>8. SuccessMeansPosted'
  BY <1>1 DEF SuccessMeansPosted, NoReply
<1>9. QED
  BY <1>6, <1>7, <1>8 DEF BInv

\* Pledge and status steps.
LEMMA OutsideKeepsBInv ==
  ASSUME BInv, IInv', UNCHANGED <<ledger, adjustments, open>>,
         reply' = NoReply \/ reply' = reply
  PROVE  BInv'
<1>1. Requests'
  BY RequestsSurvive
<1>2. SuccessMeansPosted'
  BY DEF BInv, SuccessMeansPosted, NoReply
<1>3. QED
  BY <1>1, <1>2, QuietBooks DEF BInv

LEMMA InitBInv == Init => BInv
<1> SUFFICES ASSUME Init PROVE BInv
  OBVIOUS
<1>1. Requests /\ SuccessMeansPosted
  BY DEF Init, Requests, SuccessMeansPosted, NoReply
<1>2. \A a \in Accounts, ref \in Refs :
         /\ adjustments[a][ref].status = "none"
         /\ GetTransactionByReference(a, ref, "adjustment") = {}
  BY DEF Init, GetTransactionByReference, RowsOf, NoAdjustment
<1>3. Books
  BY <1>2 DEF Init, Books, ReversedAtMostOnce, ReversalsCancelTheirOriginal,
              ReferencePostedOnce, AdjustmentPostedIffApproved
<1>4. QED
  BY <1>1, <1>3, InitIInv DEF BInv

LEMMA NextKeepsBInv == BInv /\ [Next]_vars => BInv'
<1> SUFFICES ASSUME BInv, [Next]_vars PROVE BInv'
  OBVIOUS
<1>1. IInv'
  BY NextKeepsIInv DEF BInv
<1>2. ASSUME NEW a \in Accounts, NEW ref \in Refs, NEW type \in PostingTypes,
             NEW tenths \in Amounts, BeginPosting(type, a, tenths, ref)
      PROVE  BInv'
  BY <1>2, ShareConstants, BeginKeepsBInv DEF BeginPosting, TransactionTypes, PostingTypes
<1>3. ASSUME NEW a \in Accounts, NEW ref \in Refs, BeginApproval(a, ref)
      PROVE  BInv'
  <2>1. 10 * adjustments[a][ref].amount \in Int
    BY DEF BInv, IInv, TypeOK, Adjustment
  <2>2. QED
    BY <1>3, <2>1, BeginKeepsBInv DEF BeginApproval, TransactionTypes
<1>4. ASSUME NEW original \in ledger, NEW ref \in Refs, BeginReversal(original, ref)
      PROVE  BInv'
  <2>1. original.account \in Accounts /\ 10 * original.amount \in Int /\ original.created_at \in Nat
    BY DEF BInv, IInv, TypeOK, Row
  <2>2. QED
    BY <1>4, <2>1, BeginKeepsBInv DEF BeginReversal, TransactionTypes
<1>5. ASSUME NEW a \in Accounts, NEW ref \in Refs, NEW tenths \in AdjustAmounts,
             CreateAdjustment(a, ref, tenths)
      PROVE  BInv'
  BY <1>1, <1>5, CreateAdjustmentKeepsBInv
<1>6. ASSUME NEW t \in open,
             \/ Rollback(t) \/ PostAgain(t) \/ Post(t) \/ ApproveShareAdjustment(t)
             \/ ApproveAgain(t) \/ ReadOriginal(t) \/ ReverseShareTransaction(t)
             \/ ReverseReusedReference(t)
      PROVE  BInv'
  BY <1>6, EndKeepsBInv, PostKeepsBInv, ApproveKeepsBInv, ReverseKeepsBInv
<1>7. ASSUME NEW a \in Accounts, NEW l \in Loans,
             \/ \E tenths \in Amounts : ProposeApplicantSecurity(a, l, tenths)
             \/ VerifyApplicantSecurity(a, l)
             \/ \E tenths \in Amounts : ApproveGuarantorSecurity(a, l, Stored(tenths))
             \/ ReleaseLoanSecurity(l, {a})
      PROVE  BInv'
  <2>1. UNCHANGED <<ledger, adjustments, open>> /\ reply' = NoReply
    BY <1>7 DEF ProposeApplicantSecurity, VerifyApplicantSecurity, ApproveGuarantorSecurity,
                ReleaseLoanSecurity, SetPledges
  <2>2. QED
    BY <1>1, <2>1, OutsideKeepsBInv
<1>8. ASSUME NEW l \in Loans, ReleaseLoanSecurity(l, Accounts)
      PROVE  BInv'
  BY <1>1, <1>8, OutsideKeepsBInv DEF ReleaseLoanSecurity
<1>9. ASSUME NEW a \in Accounts,
             OpenShareAccount(a) \/ \E st \in {"active", "frozen"} : SetAccountStatus(a, st)
      PROVE  BInv'
  BY <1>1, <1>9, OutsideKeepsBInv DEF OpenShareAccount, SetAccountStatus
<1>10. CASE UNCHANGED vars
  BY <1>1, <1>10, OutsideKeepsBInv DEF vars
<1>11. QED
  BY <1>2, <1>3, <1>4, <1>5, <1>6, <1>7, <1>8, <1>9, <1>10 DEF Next

\* However clients retry and overlap, a reference is posted at most once per
\* account and type; ReverseShareTransaction never reverses a row twice, never
\* reverses a reversal and cancels exactly what the row did; and
\* ApproveShareAdjustment commits the approval and its row together, once.
THEOREM BooksKept == Spec => []Books
<1>1. BInv => Books
  BY DEF BInv
<1>2. QED
  BY <1>1, InitBInv, NextKeepsBInv, PTL DEF Spec

\* The row a successful purchase, withdrawal, dividend or approval returns is
\* the posting its caller asked for, on first calls and on retries, its amount
\* rounded to the quantum.
THEOREM SuccessIsPosted == Spec => []SuccessMeansPosted
<1>1. BInv => SuccessMeansPosted
  BY DEF BInv
<1>2. QED
  BY <1>1, InitBInv, NextKeepsBInv, PTL DEF Spec

\* postTransactionInTx recognises the identical retry of a posting exactly when
\* its amount is a whole number of quanta: the row holds Stored(t.amount) by
\* SuccessIsPosted, and SameRequest compares it with the amount as it came.
THEOREM RetryIsRecognisedIffWhole ==
  ASSUME NEW r \in Row, NEW t \in OpenTx, r.amount = Stored(t.amount)
  PROVE  SameRequest(r, t) <=> t.amount % 10 = 0
<1>1. t.amount \in Int
  BY DEF OpenTx
<1>2. QED
  BY <1>1 DEF SameRequest, Stored

-----------------------------------------------------------------------------
(* What a successful reversal means.  ON CONFLICT DO NOTHING answers with  *)
(* the row that has the reference, so it matters only whether clients use  *)
(* one reference for the reversals of two transactions.                    *)

\* A reversal that is under way shares its reference only with reversals of
\* the same transaction.
ReversalsOwnTheirReference ==
    \A t \in open, r \in ledger :
        (/\ t.type = "reversal" /\ r.type = "reversal"
         /\ r.account = t.account /\ r.reference_id = t.reference_id)
        => r.reversal_of = t.target

LEMMA Replies ==
  ASSUME [Next]_vars
  PROVE  \/ UNCHANGED vars
         \/ reply' = NoReply
         \/ \E t \in open : \/ PostAgain(t) \/ Post(t) \/ ApproveShareAdjustment(t)
                            \/ ApproveAgain(t) \/ ReadOriginal(t) \/ ReverseShareTransaction(t)
                            \/ ReverseReusedReference(t)
  BY DEF Next, BeginPosting, BeginApproval, BeginReversal, Begin, Rollback,
         CreateAdjustment, ProposeApplicantSecurity, VerifyApplicantSecurity,
         ApproveGuarantorSecurity, SetPledges, ReleaseLoanSecurity, OpenShareAccount,
         SetAccountStatus

\* "One transaction may be reversed at most once", and a retry is answered with it:
\* as long as no reference is reused for another transaction, a caller of
\* ReverseShareTransaction that is told of success finds the transaction it named
\* reversed, whatever other reversals, retries and rollbacks overlap.
THEOREM SuccessIsReversed ==
  Spec /\ []ReversalsOwnTheirReference => []SuccessMeansReversed
<1>1. Init => SuccessMeansReversed
  BY DEF Init, NoReply, SuccessMeansReversed
<1>2. ReversalsOwnTheirReference /\ SuccessMeansReversed /\ [Next]_vars => SuccessMeansReversed'
  <2> SUFFICES ASSUME ReversalsOwnTheirReference, SuccessMeansReversed, [Next]_vars
               PROVE  SuccessMeansReversed'
    OBVIOUS
  <2>1. CASE UNCHANGED vars
    BY <2>1 DEF vars, SuccessMeansReversed
  <2>2. CASE reply' = NoReply
    BY <2>2 DEF NoReply, SuccessMeansReversed
  <2>3. ASSUME NEW t, t.type # "reversal", NEW id, Answer(t, id) PROVE SuccessMeansReversed'
    BY <2>3 DEF Answer, SuccessMeansReversed
  <2>4. ASSUME NEW t, NEW r \in ledger', Answer(t, r.created_at), r.reversal_of = t.target
        PROVE  SuccessMeansReversed'
    BY <2>4 DEF Answer, SuccessMeansReversed
  <2>5. ASSUME NEW t \in open, PostAgain(t) \/ Post(t) PROVE SuccessMeansReversed'
    <3>1. t.type # "reversal"
      BY <2>5 DEF PostAgain, Post, PostingTypes
    <3> QED BY <2>3, <2>5, <3>1 DEF PostAgain, Post
  <2>6. ASSUME NEW t \in open, ApproveShareAdjustment(t) \/ ApproveAgain(t)
        PROVE  SuccessMeansReversed'
    BY <2>3, <2>6 DEF ApproveShareAdjustment, ApproveAgain
  <2>7. ASSUME NEW t \in open, ReadOriginal(t) PROVE SuccessMeansReversed'
    BY <2>2, <2>4, <2>7 DEF ReadOriginal, GetReversalTransactions
  <2>8. ASSUME NEW t \in open, ReverseShareTransaction(t) PROVE SuccessMeansReversed'
    <3>1. PICK amount, bal : NewRow(t, amount, bal) \in ledger'
      BY <2>8 DEF ReverseShareTransaction, InsertShareTransaction
    <3>2. /\ NewRow(t, amount, bal).created_at = t.created_at
          /\ NewRow(t, amount, bal).reversal_of = t.target
      BY DEF NewRow
    <3>3. Answer(t, t.created_at)
      BY <2>8 DEF ReverseShareTransaction
    <3> QED BY <2>4, <3>1, <3>2, <3>3
  <2>9. ASSUME NEW t \in open, ReverseReusedReference(t) PROVE SuccessMeansReversed'
    <3>1. PICK r \in GetTransactionByReference(t.account, t.reference_id, "reversal") :
             Answer(t, r.created_at)
      BY <2>9 DEF ReverseReusedReference
    <3>2. t.type = "reversal" /\ ledger' = ledger
      BY <2>9 DEF ReverseReusedReference
    <3>3. r \in ledger /\ r.reversal_of = t.target
      BY <3>1, <3>2 DEF GetTransactionByReference, RowsOf, ReversalsOwnTheirReference
    <3> QED BY <2>4, <3>1, <3>2, <3>3
  <2> QED BY <2>1, <2>2, <2>5, <2>6, <2>7, <2>8, <2>9, Replies
<1> QED
  BY <1>1, <1>2, PTL DEF Spec

-----------------------------------------------------------------------------
(* Refinement: the ledger implements SharePositions.                       *)

Balances == [a \in Accounts |-> GetLatestBalance(a)]

\* The abstract specification counts pledges as the ledger does.
LEMMA SameCount ==
  ASSUME NEW a \in Accounts
  PROVE  Positions!Pledged(a) = ActivePledged(a)
<1>1. Positions!ActiveQuanta(pledges[a]) = ActiveQuanta(pledges[a])
  BY DEF Positions!ActiveQuanta, ActiveQuanta
<1>2. QED
  BY <1>1, Zenon DEF Positions!Pledged, Positions!GetActivePledgedAmount, Positions!Cardinality,
                     ActivePledged, GetActivePledgedAmount, Cardinality

LEMMA InitRefines == Init => Positions!Init
<1> SUFFICES ASSUME Init PROVE Positions!Init
  OBVIOUS
<1>1. \A a \in Accounts : GetLatestBalance(a) = 0
  BY DEF Init, GetLatestBalance, BalanceOf, RowsOf
<1>2. Balances = [a \in Accounts |-> 0]
  BY <1>1 DEF Balances
<1>3. pledges = [a \in Accounts |-> Positions!NoPledges]
  BY DEF Init, NoPledges, NoPledge, Positions!NoPledges, Positions!NoPledge
<1>4. QED
  BY <1>2, <1>3 DEF Positions!Init, Balances

\* A row inserted for an account is a move of that account.
LEMMA InsertRefines ==
  ASSUME IInv, IInv', NEW t \in open, NEW amount, NEW bal, Inserts(t, amount, bal)
  PROVE  Positions!Move(t.account)
<1> DEFINE b == t.account
<1>1. b \in Accounts
  BY DEF IInv, TypeOK, OpenTx
<1>2. \A a \in Accounts : a # b => GetLatestBalance(a)' = GetLatestBalance(a)
  BY InsertKeepsPosition
<1>3. pledges' = pledges
  BY DEF Inserts
<1>4. ActivePledged(b)' = ActivePledged(b)
  BY <1>3 DEF ActivePledged
<1>5. GetLatestBalance(b)' \in Int /\ ActivePledged(b) \in Nat
  BY <1>1, PositionIsInt, InsertKeepsPosition DEF Inserts
<1>6. ActivePledged(b) <= GetLatestBalance(b)'
  BY <1>1, <1>4 DEF IInv, Position
<1>7. Balances'[b] = GetLatestBalance(b)'
  BY <1>1 DEF Balances
<1>8. Balances' = [Balances EXCEPT ![b] = Balances'[b]]
  BY <1>1, <1>2, <1>7 DEF Balances
<1>9. Balances'[b] \in Nat /\ Balances'[b] >= Positions!Pledged(b)
  BY <1>1, <1>5, <1>6, <1>7, SameCount
<1>10. QED
  BY <1>3, <1>8, <1>9 DEF Positions!Move, Balances

\* A step that leaves the ledger alone leaves every balance alone.
LEMMA BalancesKept ==
  ASSUME ledger' = ledger
  PROVE  Balances' = Balances
  BY DEF Balances, GetLatestBalance, RowsOf, BalanceOf, LatestOf

\* A step that gives account a a pledge p for a loan it had none for.
LEMMA NewPledgeRefines ==
  ASSUME IInv, NEW a \in Accounts, NEW l \in Loans, NEW p, p.amount \in Nat \ {0},
         pledges[a][l].status = "none",
         SetPledges(a, [pledges[a] EXCEPT ![l] = p])
  PROVE  Positions!NewPledge(a, l) /\ pledges'[a][l] = p
<1>1. pledges \in [Accounts -> [Loans -> Pledge]]
  BY DEF IInv, TypeOK
<1>2. pledges' = [pledges EXCEPT ![a] = [pledges[a] EXCEPT ![l] = p]]
  BY DEF SetPledges
<1>3. pledges'[a][l] = p
  BY <1>1, <1>2
<1>4. Balances' = Balances
  BY BalancesKept DEF SetPledges
<1>5. QED
  BY <1>2, <1>3, <1>4 DEF Positions!NewPledge, Balances

LEMMA ProposeRefines ==
  ASSUME IInv, NEW a \in Accounts, NEW l \in Loans, NEW tenths \in Amounts,
         ProposeApplicantSecurity(a, l, tenths)
  PROVE  Positions!Propose(a, l)
<1> DEFINE p == [type |-> "applicant_security", amount |-> Stored(tenths), status |-> "pending"]
<1>1. p.amount \in Nat \ {0} /\ p.status = "pending" /\ pledges[a][l].status = "none"
  BY ShareConstants, StoredBetween DEF ProposeApplicantSecurity, CanCreateSharePledge
<1>2. SetPledges(a, [pledges[a] EXCEPT ![l] = p])
  BY DEF ProposeApplicantSecurity, CreateSharePledge
<1> HIDE DEF p
<1>3. QED
  BY <1>1, <1>2, NewPledgeRefines DEF Positions!Propose

LEMMA GuaranteeRefines ==
  ASSUME IInv, NEW a \in Accounts, NEW l \in Loans, NEW amount \in Int,
         ApproveGuarantorSecurity(a, l, amount)
  PROVE  Positions!Reserve(a, l)
<1> DEFINE p == [type |-> "guarantor_security", amount |-> amount, status |-> "active"]
           f == CreateSharePledge(pledges[a], l, "guarantor_security", amount)
<1>1. /\ amount \in Nat \ {0} /\ p.amount = amount /\ p.status = "active"
      /\ pledges[a][l].status = "none"
  BY ShareConstants DEF ApproveGuarantorSecurity, CanCreateSharePledge
<1>2. ActivateSharePledge(f, l) = [pledges[a] EXCEPT ![l] = p]
  BY DEF ActivateSharePledge, CreateSharePledge, IInv, TypeOK
<1>3. SetPledges(a, [pledges[a] EXCEPT ![l] = p])
  BY <1>2 DEF ApproveGuarantorSecurity
<1>4. amount <= GetLatestBalance(a) - ActivePledged(a)
  <2>1. GetLatestBalance(a) \in Int /\ ActivePledged(a) \in Nat
    BY PositionIsInt
  <2>2. amount <= guaranteeAvailable(GetLatestBalance(a), ActivePledged(a))
    BY DEF ApproveGuarantorSecurity
  <2>3. QED
    BY <1>1, <2>1, <2>2 DEF guaranteeAvailable
<1> HIDE DEF p
<1>5. Balances[a] = GetLatestBalance(a)
  BY DEF Balances
<1>6. QED
  BY <1>1, <1>3, <1>4, <1>5, NewPledgeRefines, SameCount DEF Positions!Reserve, Balances

LEMMA VerifyRefines ==
  ASSUME IInv, NEW a \in Accounts, NEW l \in Loans, VerifyApplicantSecurity(a, l)
  PROVE  Positions!Activate(a, l)
<1>1. /\ GetLatestBalance(a) \in Int /\ ActivePledged(a) \in Nat
      /\ pledges[a][l].amount \in Nat
  BY PositionIsInt DEF IInv, TypeOK, Pledge
<1>2. /\ pledges[a][l].status = "pending"
      /\ pledges[a][l].amount <= GetLatestBalance(a) - ActivePledged(a)
      /\ pledges' = [pledges EXCEPT ![a] = ActivateSharePledge(pledges[a], l)]
  BY <1>1 DEF VerifyApplicantSecurity, SetPledges
<1>3. Balances' = Balances /\ Balances[a] = GetLatestBalance(a)
  BY BalancesKept DEF VerifyApplicantSecurity, SetPledges, Balances
<1>4. ActivateSharePledge(pledges[a], l) = Positions!ActivateSharePledge(pledges[a], l)
  BY DEF ActivateSharePledge, Positions!ActivateSharePledge
<1>5. QED
  BY <1>2, <1>3, <1>4, SameCount DEF Positions!Activate, Balances

LEMMA ReleaseRefines ==
  ASSUME NEW l \in Loans, NEW S \in SUBSET Accounts, ReleaseLoanSecurity(l, S)
  PROVE  Positions!Release(l)
<1>1. pledges' = [a \in Accounts |->
          IF a \in S THEN ReleaseLoanSharePledge(pledges[a], l) ELSE pledges[a]]
  BY DEF ReleaseLoanSecurity
<1>2. \A f : ReleaseLoanSharePledge(f, l) = Positions!ReleaseLoanSharePledge(f, l)
  BY DEF ReleaseLoanSharePledge, Positions!ReleaseLoanSharePledge
<1>3. pledges' = [a \in Accounts |->
          IF pledges'[a] = pledges[a] THEN pledges[a]
                                      ELSE Positions!ReleaseLoanSharePledge(pledges[a], l)]
  BY <1>1, <1>2
<1>4. Balances' = Balances
  BY BalancesKept DEF ReleaseLoanSecurity
<1>5. QED
  BY <1>3, <1>4 DEF Positions!Release, Balances

\* Every step of the ledger is a step of the abstract specification, or none.
LEMMA NextRefines == IInv /\ [Next]_vars => [Positions!Next]_(Positions!positionVars)
<1> SUFFICES ASSUME IInv, [Next]_vars PROVE [Positions!Next]_(Positions!positionVars)
  OBVIOUS
<1>1. IInv'
  BY NextKeepsIInv
<1>2. ASSUME NEW t \in open,
             Post(t) \/ ApproveShareAdjustment(t) \/ ReverseShareTransaction(t)
      PROVE  Positions!Next
  <2>1. t.account \in Accounts
    BY DEF IInv, TypeOK, OpenTx
  <2>2. \E amount, bal : Inserts(t, amount, bal)
    BY <1>2, PostInserts, ApproveInserts, ReverseInserts
  <2>3. Positions!Move(t.account)
    BY <1>1, <2>2, InsertRefines
  <2>4. QED
    BY <2>1, <2>3 DEF Positions!Next
<1>3. ASSUME NEW a \in Accounts, NEW l \in Loans,
             \/ \E tenths \in Amounts : ProposeApplicantSecurity(a, l, tenths)
             \/ VerifyApplicantSecurity(a, l)
             \/ \E tenths \in Amounts : ApproveGuarantorSecurity(a, l, Stored(tenths))
      PROVE  Positions!Next
  <2>1. \A tenths \in Amounts : Stored(tenths) \in Int
    BY ShareConstants, StoredBetween
  <2>2. QED
    BY <1>3, <2>1, ProposeRefines, VerifyRefines, GuaranteeRefines DEF Positions!Next
<1>4. ASSUME NEW l \in Loans, NEW S \in SUBSET Accounts, ReleaseLoanSecurity(l, S)
      PROVE  Positions!Next
  BY <1>4, ReleaseRefines DEF Positions!Next
<1>5. ASSUME ledger' = ledger, pledges' = pledges
      PROVE  UNCHANGED Positions!positionVars
  BY <1>5, BalancesKept DEF Positions!positionVars, Balances
<1>6. \/ ledger' = ledger /\ pledges' = pledges
      \/ \E t \in open : Post(t) \/ ApproveShareAdjustment(t) \/ ReverseShareTransaction(t)
      \/ \E a \in Accounts, l \in Loans :
            \/ \E tenths \in Amounts : ProposeApplicantSecurity(a, l, tenths)
            \/ VerifyApplicantSecurity(a, l)
            \/ \E tenths \in Amounts : ApproveGuarantorSecurity(a, l, Stored(tenths))
      \/ \E l \in Loans, S \in SUBSET Accounts : ReleaseLoanSecurity(l, S)
  BY DEF Next, vars, BeginPosting, BeginApproval, BeginReversal, Begin, Rollback, PostAgain,
         CreateAdjustment, ApproveAgain, ReadOriginal, ReverseReusedReference, OpenShareAccount,
         SetAccountStatus
<1>7. QED
  BY <1>2, <1>3, <1>4, <1>5, <1>6

\* Postings, retries, corrections, reversals and the loan-security calls,
\* overlapping in any way, are seen by the rest of the system as one move,
\* pledge or release at a time that never spends a pledged share.
THEOREM LedgerImplementsPositions == Spec => ImplementsPositions
<1>1. QED
  BY InitIInv, NextKeepsIInv, InitRefines, NextRefines, PTL
  DEF Spec, ImplementsPositions, Positions!Spec
=============================================================================
