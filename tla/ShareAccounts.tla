--------------------------- MODULE ShareAccounts ---------------------------
(***************************************************************************)
(* What postTransactionInTx (internal/share/service.go) asks of a share    *)
(* account before it posts: purchases, withdrawals and dividends go        *)
(* through this one check.  "frozen" stands for every status that is not   *)
(* active, "none" for an account that does not exist.                      *)
(***************************************************************************)

AccountStatuses == {"none", "active", "frozen"}

\* A mutant: a dividend is posted like a purchase.
OnlyActive(st, txType) == st = "active"

\* "An approved dividend settles an existing entitlement after inactivity;
\* ordinary purchases and withdrawals retain their account status checks."
AccountAccepts(st, txType) ==
    st # "none" /\ (st = "active" \/ txType = "dividend")
=============================================================================
