-------------------------- MODULE MCDarajaPayments --------------------------
(***************************************************************************)
(* M-Pesa collections for TLC.  Checkouts and calls are interchangeable,   *)
(* but a liveness property is checked too, so no symmetry is declared.     *)
(***************************************************************************)
EXTENDS DarajaPayments
=============================================================================
