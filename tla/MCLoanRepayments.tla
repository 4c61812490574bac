-------------------------- MODULE MCLoanRepayments --------------------------
(***************************************************************************)
(* One loan's repayments for TLC.                                          *)
(***************************************************************************)
EXTENDS LoanRepayments, TLC

\* Gateway ids are interchangeable.
Sym == Permutations(Gateways)
=============================================================================
