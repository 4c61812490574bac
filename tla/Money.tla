------------------------------- MODULE Money -------------------------------
(***************************************************************************)
(* Amounts of money.  The columns of the ledgers and the till are          *)
(* NUMERIC(19,4): what they hold is a whole number of ledger quanta of KES *)
(* 0.0001.  A client may send nine decimals and no handler of a posting    *)
(* refuses the last five of them, so amounts on their way into a column    *)
(* are counted in TENTHS of a quantum: that tells an amount below, at and  *)
(* above half a quantum apart, which is all that rounding and truncation   *)
(* can see.                                                                *)
(***************************************************************************)
EXTENDS Integers

\* What Go compares at four decimals: big.Int.Quo cuts off towards zero.
numericToScale(tenths) ==
    IF tenths >= 0 THEN tenths \div 10 ELSE -((-tenths) \div 10)

\* What PostgreSQL keeps: the nearest quantum, halves away from zero.
Stored(tenths) ==
    IF tenths >= 0 THEN (tenths + 5) \div 10 ELSE -((5 - tenths) \div 10)
=============================================================================
