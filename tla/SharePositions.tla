--------------------------- MODULE SharePositions ---------------------------
(***************************************************************************)
(* What the Shares domain promises the rest of the system: every account   *)
(* has one balance and a set of pledges, a balance never moves below the   *)
(* shares that are pledged, and shares are pledged only once.  The ledger  *)
(* with its postings, retries, corrections and reversals (ShareLedger) and *)
(* the loan workflow that reserves and releases security (LoanSecurity)    *)
(* are both shown to implement this specification.                         *)
(*                                                                         *)
(* The values a step chooses are read off the primed variables, so that    *)
(* the specification says what a step may do and not how it is computed.   *)
(***************************************************************************)
EXTENDS SharePledges

CONSTANT Accounts

VARIABLES
    balance,  \* account -> the shares it owns
    pledges   \* account -> loan -> pledge

positionVars == <<balance, pledges>>

Pledged(a) == GetActivePledgedAmount(pledges[a])

Init ==
    /\ balance = [a \in Accounts |-> 0]
    /\ pledges = [a \in Accounts |-> NoPledges]

\* Shares are bought, withdrawn, corrected or reversed.
Move(a) ==
    /\ balance'[a] \in Nat
    /\ balance'[a] >= Pledged(a)
    /\ balance' = [balance EXCEPT ![a] = balance'[a]]
    /\ UNCHANGED pledges

\* A pledge appears for a loan that had none, and the account's other pledges
\* stay as they are.
NewPledge(a, l) ==
    /\ pledges[a][l].status = "none"
    /\ pledges'[a][l].amount \in Nat \ {0}
    /\ pledges' = [pledges EXCEPT ![a] = [pledges[a] EXCEPT ![l] = pledges'[a][l]]]
    /\ UNCHANGED balance

\* Security is proposed, which reserves nothing ...
Propose(a, l) == NewPledge(a, l) /\ pledges'[a][l].status = "pending"

\* ... or reserved out of the shares that are still free.
Reserve(a, l) ==
    /\ NewPledge(a, l)
    /\ pledges'[a][l].status = "active"
    /\ pledges'[a][l].amount <= balance[a] - Pledged(a)

\* A proposal is honoured only while enough shares are free.
Activate(a, l) ==
    /\ pledges[a][l].status = "pending"
    /\ pledges[a][l].amount <= balance[a] - Pledged(a)
    /\ pledges' = [pledges EXCEPT ![a] = ActivateSharePledge(pledges[a], l)]
    /\ UNCHANGED balance

\* The security of a loan is given back by some or all of its accounts.
Release(l) ==
    /\ pledges' = [a \in Accounts |->
          IF pledges'[a] = pledges[a] THEN pledges[a]
                                      ELSE ReleaseLoanSharePledge(pledges[a], l)]
    /\ UNCHANGED balance

Next ==
    \/ \E a \in Accounts : Move(a)
    \/ \E a \in Accounts, l \in Loans : Propose(a, l) \/ Reserve(a, l) \/ Activate(a, l)
    \/ \E l \in Loans : Release(l)

Spec == Init /\ [][Next]_positionVars
=============================================================================
