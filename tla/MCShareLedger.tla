--------------------------- MODULE MCShareLedger ---------------------------
(***************************************************************************)
(* The share ledger for TLC.                                               *)
(***************************************************************************)
EXTENDS ShareLedger, TLC

\* In tenths of a quantum.  Clients may send a negative amount, or one that ends in
\* half a quantum; so may the request for a correction.
SomeAmounts     == {-10, 10, 15}
SomeCorrections == {-15}

\* References are interchangeable.
SymRefs == Permutations(Refs)
\* A bound of the search: transactions begun and corrections requested.
WorkBound ==
    clock + Cardinality({<<a, f>> \in Accounts \X Refs : adjustments[a][f] # NoAdjustment}) <= 4
=============================================================================
