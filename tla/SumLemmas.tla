------------------------------ MODULE SumLemmas ------------------------------
(***************************************************************************)
(* Facts about SumFunctionOnSet(f, S), the sum of f[x] over a finite set   *)
(* S: the SUM(amount) of the queries.  The fold it is defined by recurses  *)
(* over the subsets of S.  The library's induction theorems take an        *)
(* operator that no prover here can instantiate, so the recursion is       *)
(* justified with a minimal counterexample: a set of subsets of a finite   *)
(* set has a minimal member, which is a first-order fact.                  *)
(***************************************************************************)
EXTENDS Integers, Functions, FiniteSetTheorems, TLAPS

\* A nonempty set of subsets of a finite set has a minimal member.
LEMMA MinimalSubset ==
    ASSUME NEW S, IsFiniteSet(S), NEW T, T \subseteq SUBSET S, T # {}
    PROVE  \E s \in T : \A u \in T : u \subseteq s => u = s
<1>1. IsWellFoundedOn(StrictSubsetOrdering(S), SUBSET S)
    BY FS_StrictSubsetOrderingWellFounded, FS_FiniteSubsetsOfFinite
<1>2. PICK s \in T : \A u \in T : ~(<<u, s>> \in StrictSubsetOrdering(S))
    BY <1>1, WFMin
<1>3. ASSUME NEW u \in T, u \subseteq s, u # s
      PROVE  <<u, s>> \in StrictSubsetOrdering(S)
    BY <1>3 DEF StrictSubsetOrdering
<1>4. \A u \in T : u \subseteq s => u = s
    BY <1>2, <1>3
<1> QED BY <1>4

\* The element the fold takes from a set.
Pick(s) == CHOOSE x \in s : TRUE

LEMMA PickIn == ASSUME NEW s, s # {} PROVE Pick(s) \in s
BY DEF Pick

\* g is the table of partial sums of f over the subsets of S.
Recurs(f, S, g) ==
    \A s \in SUBSET S : g[s] = IF s = {} THEN 0 ELSE f[Pick(s)] + g[s \ {Pick(s)}]

Partial(f, S, g) == g \in [SUBSET S -> Int] /\ Recurs(f, S, g)

\* Two tables agree where both are defined.
LEMMA PartialUnique ==
    ASSUME NEW f, NEW S, IsFiniteSet(S), NEW U \in SUBSET S, NEW g, NEW h,
           Recurs(f, S, g), Recurs(f, U, h)
    PROVE  \A s \in SUBSET U : g[s] = h[s]
<1> DEFINE T == {s \in SUBSET U : g[s] # h[s]}
<1> SUFFICES ASSUME T # {} PROVE FALSE
    OBVIOUS
<1>1. PICK s \in T : \A u \in T : u \subseteq s => u = s
  <2>1. T \subseteq SUBSET S
    OBVIOUS
  <2> HIDE DEF T
  <2> QED BY <2>1, MinimalSubset
<1>2. s # {}
    BY <1>1 DEF Recurs
<1>3. Pick(s) \in s
    BY <1>2, PickIn
<1> DEFINE r == s \ {Pick(s)}
<1>4. r \in SUBSET U /\ r \subseteq s /\ r # s
    BY <1>1, <1>3
<1>5. g[r] = h[r]
    BY <1>1, <1>4
<1>6. g[s] = f[Pick(s)] + g[r] /\ h[s] = f[Pick(s)] + h[r]
    BY <1>1, <1>2 DEF Recurs
<1> QED BY <1>1, <1>5, <1>6

\* Every finite set of indices has its table.
LEMMA PartialExists ==
    ASSUME NEW S, IsFiniteSet(S), NEW f, \A x \in S : f[x] \in Int
    PROVE  \E g : Partial(f, S, g)
<1> DEFINE T == {s \in SUBSET S : ~ \E g : Partial(f, s, g)}
<1> SUFFICES ASSUME T # {} PROVE FALSE
    OBVIOUS
<1>1. PICK s \in T : \A u \in T : u \subseteq s => u = s
  <2>1. T \subseteq SUBSET S
    OBVIOUS
  <2> HIDE DEF T
  <2> QED BY <2>1, MinimalSubset
<1> DEFINE G(u) == CHOOSE g : Partial(f, u, g)
<1>2. \A u \in SUBSET s : u # s => Partial(f, u, G(u))
    BY <1>1
<1> DEFINE below(u) == G(u \ {Pick(u)})[u \ {Pick(u)}]
           table == [u \in SUBSET s |-> IF u = {} THEN 0 ELSE f[Pick(u)] + below(u)]
<1>3. \A u \in SUBSET s : IsFiniteSet(u)
    BY <1>1, FS_Subset
<1>4. ASSUME NEW u \in SUBSET s, u # {}
      PROVE  /\ Pick(u) \in u /\ u \ {Pick(u)} \in SUBSET s /\ u \ {Pick(u)} # s
             /\ f[Pick(u)] \in Int
             /\ Partial(f, u \ {Pick(u)}, G(u \ {Pick(u)}))
  <2>1. Pick(u) \in u
    BY <1>4, PickIn
  <2>2. u \ {Pick(u)} \in SUBSET s /\ u \ {Pick(u)} # s
    BY <2>1
  <2>3. Partial(f, u \ {Pick(u)}, G(u \ {Pick(u)}))
    BY <2>2, <1>2
  <2>4. f[Pick(u)] \in Int
    BY <2>1, <1>1
  <2> QED BY <2>1, <2>2, <2>3, <2>4
<1> HIDE DEF G
<1>5. \A u \in SUBSET s : u # {} => f[Pick(u)] + below(u) \in Int
  <2> SUFFICES ASSUME NEW u \in SUBSET s, u # {} PROVE f[Pick(u)] + below(u) \in Int
    OBVIOUS
  <2>1. f[Pick(u)] \in Int /\ Partial(f, u \ {Pick(u)}, G(u \ {Pick(u)}))
    BY <1>4
  <2>2. below(u) \in Int
    BY <2>1 DEF Partial, Recurs
  <2> QED BY <2>1, <2>2
<1>6. table \in [SUBSET s -> Int]
    BY <1>5
<1>7. ASSUME NEW u \in SUBSET s, u # {}, u # s
      PROVE  G(u)[u] = f[Pick(u)] + below(u)
  <2>1. Partial(f, u, G(u)) /\ Partial(f, u \ {Pick(u)}, G(u \ {Pick(u)}))
    BY <1>2, <1>4, <1>7
  <2>2. G(u)[u] = f[Pick(u)] + G(u)[u \ {Pick(u)}]
    BY <2>1, <1>7 DEF Partial, Recurs
  <2>3. G(u)[u \ {Pick(u)}] = below(u)
    BY <2>1, <1>3, PartialUnique DEF Partial
  <2> QED BY <2>2, <2>3
<1>8. ASSUME NEW u \in SUBSET s, u # {}
      PROVE  below(u) = table[u \ {Pick(u)}]
  <2> DEFINE r == u \ {Pick(u)}
  <2>1. r \in SUBSET s /\ r # s
    BY <1>4, <1>8
  <2>2. CASE r = {}
    <3>1. Partial(f, r, G(r))
      BY <2>1, <1>2
    <3>2. G(r)[r] = 0
      BY <3>1, <2>2 DEF Partial, Recurs
    <3> QED BY <3>2, <2>1, <2>2
  <2>3. CASE r # {}
    BY <2>1, <2>3, <1>7
  <2> QED BY <2>2, <2>3
<1>9. Partial(f, s, table)
  <2>1. ASSUME NEW u \in SUBSET s
        PROVE  table[u] = IF u = {} THEN 0 ELSE f[Pick(u)] + table[u \ {Pick(u)}]
    BY <1>8
  <2> HIDE DEF table
  <2> QED BY <2>1, <1>6 DEF Partial, Recurs
<1> QED BY <1>1, <1>9

\* The sum is read from the table.
LEMMA SumFromTable ==
    ASSUME NEW S, IsFiniteSet(S), NEW f, \A x \in S : f[x] \in Int
    PROVE  \E g : Partial(f, S, g) /\ SumFunctionOnSet(f, S) = g[S]
<1> DEFINE Rec(g) == g = [s \in SUBSET S |->
                          IF s = {} THEN 0
                          ELSE f[CHOOSE x \in s : TRUE] + g[s \ {CHOOSE x \in s : TRUE}]]
           iter == CHOOSE g : Rec(g)
<1>1. SumFunctionOnSet(f, S) = iter[S]
    BY DEF SumFunctionOnSet, FoldFunctionOnSet, MapThenFoldSet
<1>2. PICK g : Partial(f, S, g)
    BY PartialExists
<1>3. Rec(g)
  <2>1. g = [s \in SUBSET S |-> g[s]]
    BY <1>2 DEF Partial
  <2> QED BY <1>2, <2>1 DEF Partial, Recurs, Pick
<1>4. Rec(iter)
    BY <1>3
<1> HIDE DEF iter
<1>5. iter = g
  <2>1. Recurs(f, S, iter) /\ DOMAIN iter = SUBSET S
    BY <1>4 DEF Recurs, Pick
  <2>2. Recurs(f, S, g) /\ DOMAIN g = SUBSET S
    BY <1>2 DEF Partial
  <2>3. \A s \in SUBSET S : iter[s] = g[s]
    BY <2>1, <2>2, PartialUnique
  <2> QED BY <2>1, <2>2, <2>3, <1>3, <1>4
<1> QED BY <1>1, <1>2, <1>5

-----------------------------------------------------------------------------
(* What the proofs about amounts use.                                      *)

\* Nothing adds up to zero.
LEMMA SumEmpty == ASSUME NEW f PROVE SumFunctionOnSet(f, {}) = 0
<1>1. IsFiniteSet({})
    BY FS_EmptySet
<1>2. PICK g : Partial(f, {}, g) /\ SumFunctionOnSet(f, {}) = g[{}]
    BY <1>1, SumFromTable
<1> QED BY <1>2 DEF Partial, Recurs

\* A sum of whole amounts is a whole amount.
LEMMA SumType ==
    ASSUME NEW S, IsFiniteSet(S), NEW f, \A x \in S : f[x] \in Int
    PROVE  SumFunctionOnSet(f, S) \in Int
<1>1. PICK g : Partial(f, S, g) /\ SumFunctionOnSet(f, S) = g[S]
    BY SumFromTable
<1> QED BY <1>1 DEF Partial

\* The sum over a part of S is in the table of S.
LEMMA SumOfPart ==
    ASSUME NEW S, IsFiniteSet(S), NEW f, \A x \in S : f[x] \in Int, NEW U \in SUBSET S,
           NEW g, Partial(f, S, g)
    PROVE  SumFunctionOnSet(f, U) = g[U]
<1>1. IsFiniteSet(U) /\ \A x \in U : f[x] \in Int
    BY FS_Subset
<1>2. PICK h : Partial(f, U, h) /\ SumFunctionOnSet(f, U) = h[U]
    BY <1>1, SumFromTable
<1> QED BY <1>2, PartialUnique DEF Partial

\* Whichever element is taken from S, the rest makes up the sum.
LEMMA SumTake ==
    ASSUME NEW S, IsFiniteSet(S), NEW f, \A x \in S : f[x] \in Int, NEW x \in S
    PROVE  SumFunctionOnSet(f, S) = f[x] + SumFunctionOnSet(f, S \ {x})
<1> DEFINE T == {s \in SUBSET S : \E y \in s :
                    SumFunctionOnSet(f, s) # f[y] + SumFunctionOnSet(f, s \ {y})}
<1> SUFFICES ASSUME T # {} PROVE FALSE
    OBVIOUS
<1>1. PICK s \in T : \A u \in T : u \subseteq s => u = s
  <2>1. T \subseteq SUBSET S
    OBVIOUS
  <2> HIDE DEF T
  <2> QED BY <2>1, MinimalSubset
<1>2. PICK y \in s : SumFunctionOnSet(f, s) # f[y] + SumFunctionOnSet(f, s \ {y})
    BY <1>1
<1> DEFINE p == Pick(s)
<1>3. p \in s
    BY <1>2, PickIn
<1>4. \A u \in SUBSET s : SumFunctionOnSet(f, u) \in Int
  <2> TAKE u \in SUBSET s
  <2>1. u \in SUBSET S /\ IsFiniteSet(u)
    BY <1>1, FS_Subset
  <2> QED BY <2>1, SumType
<1>5. SumFunctionOnSet(f, s) = f[p] + SumFunctionOnSet(f, s \ {p})
  <2>1. PICK g : Partial(f, S, g)
    BY PartialExists
  <2>2. s \in SUBSET S /\ s \ {p} \in SUBSET S
    BY <1>1
  <2>3. SumFunctionOnSet(f, s) = g[s] /\ SumFunctionOnSet(f, s \ {p}) = g[s \ {p}]
    BY <2>1, <2>2, SumOfPart
  <2> QED BY <2>1, <2>2, <2>3, <1>2 DEF Partial, Recurs
<1>6. y # p
    BY <1>2, <1>5
<1>7. SumFunctionOnSet(f, s \ {p}) = f[y] + SumFunctionOnSet(f, (s \ {p}) \ {y})
  <2>1. s \ {p} \notin T
    BY <1>1, <1>3
  <2> QED BY <2>1, <1>1, <1>6
<1>8. SumFunctionOnSet(f, s \ {y}) = f[p] + SumFunctionOnSet(f, (s \ {y}) \ {p})
  <2>1. s \ {y} \notin T
    BY <1>1, <1>2
  <2> QED BY <2>1, <1>1, <1>3, <1>6
<1>9. (s \ {p}) \ {y} = (s \ {y}) \ {p}
    OBVIOUS
<1> DEFINE rest == SumFunctionOnSet(f, (s \ {y}) \ {p})
<1>10. /\ f[p] \in Int /\ f[y] \in Int /\ rest \in Int
       /\ SumFunctionOnSet(f, s \ {y}) \in Int /\ SumFunctionOnSet(f, s \ {p}) \in Int
       /\ SumFunctionOnSet(f, s) \in Int
  <2>1. (s \ {y}) \ {p} \in SUBSET s /\ s \ {y} \in SUBSET s /\ s \ {p} \in SUBSET s
    OBVIOUS
  <2> QED BY <2>1, <1>1, <1>2, <1>3, <1>4
<1>11. SumFunctionOnSet(f, s \ {p}) = f[y] + rest
    BY <1>7, <1>9
<1> HIDE DEF rest, p, T
<1> QED BY <1>2, <1>5, <1>8, <1>10, <1>11 DEF rest

\* A row that is new adds its amount.
LEMMA SumAdd ==
    ASSUME NEW S, IsFiniteSet(S), NEW x, x \notin S, NEW f, \A y \in S \cup {x} : f[y] \in Int
    PROVE  SumFunctionOnSet(f, S \cup {x}) = f[x] + SumFunctionOnSet(f, S)
<1>1. IsFiniteSet(S \cup {x})
    BY FS_AddElement
<1>2. (S \cup {x}) \ {x} = S
    OBVIOUS
<1>3. SumFunctionOnSet(f, S \cup {x}) = f[x] + SumFunctionOnSet(f, (S \cup {x}) \ {x})
    BY <1>1, SumTake
<1> QED BY <1>2, <1>3

\* A sum depends on the amounts alone.
LEMMA SumSame ==
    ASSUME NEW S, IsFiniteSet(S), NEW f, NEW g,
           \A x \in S : f[x] \in Int /\ f[x] = g[x]
    PROVE  SumFunctionOnSet(f, S) = SumFunctionOnSet(g, S)
<1> DEFINE T == {s \in SUBSET S : SumFunctionOnSet(f, s) # SumFunctionOnSet(g, s)}
<1> SUFFICES ASSUME T # {} PROVE FALSE
    OBVIOUS
<1>1. PICK s \in T : \A u \in T : u \subseteq s => u = s
  <2>1. T \subseteq SUBSET S
    OBVIOUS
  <2> HIDE DEF T
  <2> QED BY <2>1, MinimalSubset
<1>2. s # {}
    BY <1>1, SumEmpty
<1>3. PICK x \in s : TRUE
    BY <1>2
<1>4. IsFiniteSet(s) /\ \A y \in s : f[y] \in Int /\ g[y] \in Int
    BY <1>1, FS_Subset
<1>5. SumFunctionOnSet(f, s) = f[x] + SumFunctionOnSet(f, s \ {x})
    BY <1>3, <1>4, SumTake
<1>6. SumFunctionOnSet(g, s) = g[x] + SumFunctionOnSet(g, s \ {x})
    BY <1>3, <1>4, SumTake
<1>7. SumFunctionOnSet(f, s \ {x}) = SumFunctionOnSet(g, s \ {x})
    BY <1>1, <1>3
<1> QED BY <1>1, <1>3, <1>5, <1>6, <1>7

\* Sums over two parts that share nothing.
LEMMA SumSplit ==
    ASSUME NEW S, IsFiniteSet(S), NEW R, IsFiniteSet(R), S \cap R = {},
           NEW f, \A x \in S \cup R : f[x] \in Int
    PROVE  SumFunctionOnSet(f, S \cup R) = SumFunctionOnSet(f, S) + SumFunctionOnSet(f, R)
<1> DEFINE T == {s \in SUBSET S : SumFunctionOnSet(f, s \cup R)
                                    # SumFunctionOnSet(f, s) + SumFunctionOnSet(f, R)}
<1> SUFFICES ASSUME T # {} PROVE FALSE
    OBVIOUS
<1>1. PICK s \in T : \A u \in T : u \subseteq s => u = s
  <2>1. T \subseteq SUBSET S
    OBVIOUS
  <2> HIDE DEF T
  <2> QED BY <2>1, MinimalSubset
<1>2. IsFiniteSet(s) /\ IsFiniteSet(s \cup R)
    BY <1>1, FS_Subset, FS_Union
<1>3. \A y \in s \cup R : f[y] \in Int
    BY <1>1
<1>4. SumFunctionOnSet(f, R) \in Int
    BY SumType
<1>5. s # {}
  <2>1. SUFFICES ASSUME s = {} PROVE FALSE
    OBVIOUS
  <2>2. SumFunctionOnSet(f, s) = 0 /\ s \cup R = R
    BY <2>1, SumEmpty
  <2>3. SumFunctionOnSet(f, s \cup R) = SumFunctionOnSet(f, s) + SumFunctionOnSet(f, R)
    <3>1. \A i \in Int : i = 0 + i
      OBVIOUS
    <3> HIDE DEF T
    <3> QED BY <3>1, <1>4, <2>2
  <2> QED BY <1>1, <2>3
<1>6. PICK x \in s : TRUE
    BY <1>5
<1>7. SumFunctionOnSet(f, s) = f[x] + SumFunctionOnSet(f, s \ {x})
    BY <1>2, <1>3, <1>6, SumTake
<1>8. SumFunctionOnSet(f, s \cup R) = f[x] + SumFunctionOnSet(f, (s \ {x}) \cup R)
  <2>1. x \in s \cup R /\ (s \cup R) \ {x} = (s \ {x}) \cup R
    BY <1>1, <1>6
  <2>2. SumFunctionOnSet(f, s \cup R) = f[x] + SumFunctionOnSet(f, (s \cup R) \ {x})
    BY <1>2, <1>3, <2>1, SumTake
  <2> QED BY <2>1, <2>2
<1>9. SumFunctionOnSet(f, (s \ {x}) \cup R) = SumFunctionOnSet(f, s \ {x}) + SumFunctionOnSet(f, R)
    BY <1>1, <1>6
<1>10. SumFunctionOnSet(f, s \ {x}) \in Int /\ f[x] \in Int
  <2>1. IsFiniteSet(s \ {x}) /\ \A y \in s \ {x} : f[y] \in Int
    BY <1>2, <1>3, FS_Subset
  <2> QED BY <2>1, <1>3, <1>6, SumType
<1> DEFINE a == SumFunctionOnSet(f, s \ {x})
           b == SumFunctionOnSet(f, R)
           c == SumFunctionOnSet(f, s \cup R)
           d == SumFunctionOnSet(f, s)
<1>11. c # d + b /\ d = f[x] + a /\ c = f[x] + (a + b) /\ a \in Int /\ b \in Int /\ f[x] \in Int
    BY <1>1, <1>4, <1>7, <1>8, <1>9, <1>10
<1> HIDE DEF a, b, c, d
<1> QED BY <1>11

\* Amounts that are not negative do not add up to a negative sum.
LEMMA SumNat ==
    ASSUME NEW S, IsFiniteSet(S), NEW f, \A x \in S : f[x] \in Nat
    PROVE  SumFunctionOnSet(f, S) \in Nat
<1> DEFINE T == {s \in SUBSET S : SumFunctionOnSet(f, s) \notin Nat}
<1> SUFFICES ASSUME T # {} PROVE FALSE
    OBVIOUS
<1>1. PICK s \in T : \A u \in T : u \subseteq s => u = s
  <2>1. T \subseteq SUBSET S
    OBVIOUS
  <2> HIDE DEF T
  <2> QED BY <2>1, MinimalSubset
<1>2. s # {}
  <2>1. SumFunctionOnSet(f, {}) \in Nat
    BY SumEmpty
  <2> QED BY <1>1, <2>1
<1>3. PICK x \in s : TRUE
    BY <1>2
<1>4. IsFiniteSet(s) /\ \A y \in s : f[y] \in Int
    BY <1>1, FS_Subset
<1>5. SumFunctionOnSet(f, s) = f[x] + SumFunctionOnSet(f, s \ {x})
    BY <1>3, <1>4, SumTake
<1>6. SumFunctionOnSet(f, s \ {x}) \in Nat
    BY <1>1, <1>3
<1> QED BY <1>1, <1>3, <1>5, <1>6

\* More rows, no smaller sum.
LEMMA SumMonotone ==
    ASSUME NEW S, IsFiniteSet(S), NEW U \in SUBSET S, NEW f, \A x \in S : f[x] \in Nat
    PROVE  SumFunctionOnSet(f, U) <= SumFunctionOnSet(f, S)
<1>1. IsFiniteSet(U) /\ IsFiniteSet(S \ U)
    BY FS_Subset
<1>2. SumFunctionOnSet(f, U) \in Nat /\ SumFunctionOnSet(f, S \ U) \in Nat
  <2>1. (\A x \in U : f[x] \in Nat) /\ (\A x \in S \ U : f[x] \in Nat)
    OBVIOUS
  <2> QED BY <1>1, <2>1, SumNat
<1>3. U \cup (S \ U) = S /\ U \cap (S \ U) = {}
    OBVIOUS
<1>4. SumFunctionOnSet(f, U \cup (S \ U)) = SumFunctionOnSet(f, U) + SumFunctionOnSet(f, S \ U)
  <2>1. \A x \in U \cup (S \ U) : f[x] \in Int
    OBVIOUS
  <2> QED BY <1>1, <1>3, <2>1, SumSplit
<1>5. SumFunctionOnSet(f, S) = SumFunctionOnSet(f, U) + SumFunctionOnSet(f, S \ U)
    BY <1>3, <1>4
<1>6. \A i, j \in Nat : i <= i + j
    OBVIOUS
<1> QED BY <1>2, <1>5, <1>6

\* One amount changes, and the sum by as much.
LEMMA SumUpdate ==
    ASSUME NEW S, IsFiniteSet(S), NEW f, NEW g, NEW x \in S,
           \A y \in S : f[y] \in Int /\ g[y] \in Int,
           \A y \in S \ {x} : g[y] = f[y]
    PROVE  SumFunctionOnSet(g, S) = SumFunctionOnSet(f, S) - f[x] + g[x]
<1>1. IsFiniteSet(S \ {x})
    BY FS_Subset
<1>2. SumFunctionOnSet(f, S \ {x}) = SumFunctionOnSet(g, S \ {x})
    BY <1>1, SumSame
<1>3. SumFunctionOnSet(f, S \ {x}) \in Int
    BY <1>1, SumType
<1>4. SumFunctionOnSet(f, S) = f[x] + SumFunctionOnSet(f, S \ {x})
    BY SumTake
<1>5. SumFunctionOnSet(g, S) = g[x] + SumFunctionOnSet(g, S \ {x})
    BY SumTake
<1> QED BY <1>2, <1>3, <1>4, <1>5

\* Zeros add up to zero.
LEMMA SumZero ==
    ASSUME NEW S, IsFiniteSet(S), NEW f, \A x \in S : f[x] = 0
    PROVE  SumFunctionOnSet(f, S) = 0
<1> DEFINE T == {s \in SUBSET S : SumFunctionOnSet(f, s) # 0}
<1> SUFFICES ASSUME T # {} PROVE FALSE
    OBVIOUS
<1>1. PICK s \in T : \A u \in T : u \subseteq s => u = s
  <2>1. T \subseteq SUBSET S
    OBVIOUS
  <2> HIDE DEF T
  <2> QED BY <2>1, MinimalSubset
<1>2. s # {}
    BY <1>1, SumEmpty
<1>3. PICK x \in s : TRUE
    BY <1>2
<1>4. IsFiniteSet(s) /\ \A y \in s : f[y] \in Int
    BY <1>1, FS_Subset
<1>5. SumFunctionOnSet(f, s) = f[x] + SumFunctionOnSet(f, s \ {x})
    BY <1>3, <1>4, SumTake
<1>6. SumFunctionOnSet(f, s \ {x}) = 0
    BY <1>1, <1>3
<1> QED BY <1>1, <1>3, <1>5, <1>6

-----------------------------------------------------------------------------
(* Smallest and largest numbers.                                           *)

LEMMA HasLeast == ASSUME NEW S \in SUBSET Nat, S # {} PROVE \E x \in S : \A y \in S : x <= y
<1>1. IsWellFoundedOn(OpToRel(<, Nat), Nat)
  BY NatLessThanWellFounded
<1>2. PICK x \in S : \A y \in S : ~(<<y, x>> \in OpToRel(<, Nat))
  BY <1>1, WFMin
<1>3. \A y \in S : x <= y
  <2> TAKE y \in S
  <2>1. ~(y < x)
    BY <1>2 DEF OpToRel
  <2> QED BY <2>1
<1> QED BY <1>3

LEMMA HasGreatest ==
    ASSUME NEW S, \A x \in S : x \in Nat, IsFiniteSet(S), S # {}
    PROVE  \E x \in S : \A y \in S : x >= y
<1> DEFINE HasMax(s) == \E x \in s : \A y \in s : x >= y
           T == {s \in SUBSET S : s # {} /\ ~HasMax(s)}
<1>1. T = {}
  <2> SUFFICES ASSUME T # {} PROVE FALSE
    OBVIOUS
  <2>1. PICK s \in T : \A u \in T : u \subseteq s => u = s
    <3>1. T \subseteq SUBSET S /\ T # {} /\ IsFiniteSet(S)
      OBVIOUS
    <3>2. \A X : X \subseteq SUBSET S /\ X # {} => \E s \in X : \A u \in X : u \subseteq s => u = s
      BY MinimalSubset
    <3> HIDE DEF T
    <3> QED BY <3>1, <3>2
  <2>2. PICK x \in s : TRUE
    BY <2>1
  <2>3. CASE s \ {x} = {}
    BY <2>1, <2>2, <2>3
  <2>4. CASE s \ {x} # {}
    <3>1. HasMax(s \ {x})
      <4>1. s \ {x} \notin T
        <5> HIDE DEF T
        <5> QED BY <2>1, <2>2
      <4>2. s \ {x} \in SUBSET S
        BY <2>1
      <4> HIDE DEF HasMax
      <4> QED BY <4>1, <4>2, <2>4
    <3>2. PICK z \in s \ {x} : \A y \in s \ {x} : z >= y
      BY <3>1
    <3>3. x \in Nat /\ z \in Nat /\ \A y \in s : y \in Nat
      BY <2>1, <2>2, <3>2
    <3>4. HasMax(s)
      BY <2>2, <3>2, <3>3
    <3> QED BY <2>1, <3>4
  <2> QED BY <2>3, <2>4
<1>2. HasMax(S)
  BY <1>1
<1> QED BY <1>2
=============================================================================
