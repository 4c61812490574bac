-------------------------- MODULE MCReceiptPosting --------------------------
(***************************************************************************)
(* Two members.  Member 1 owes on loans 1 and 2, secured by accounts {1,3} *)
(* and {1,2}; member 2 owes on loan 3, secured by accounts {2,3}.          *)
(***************************************************************************)
EXTENDS ReceiptPosting

MCAccountOf == [m \in {1, 2} |-> m]
MCOwnerOf   == [l \in 1 .. 3 |-> IF l = 3 THEN 2 ELSE 1]
MCPledgors  == [l \in 1 .. 3 |-> CASE l = 1 -> {1, 3} [] l = 2 -> {1, 2} [] l = 3 -> {2, 3}]
MCCharge    == [m \in {1, 2} |-> IF m = 2 THEN 2 ELSE 0]
MCDebt      == [l \in 1 .. 3 |-> IF l = 3 THEN 2 ELSE 1]

Ask(channel, m, period, charge, share, loans) ==
    [channel |-> channel, member |-> m, period |-> period, charge |-> charge,
     share |-> share, loan |-> [l \in 1 .. 3 |-> loans[l]]]

MCRequests ==
    {Ask("cash", 1, 1, 0, 1, <<1, 1, 0>>),        \* both loans and a share
     Ask("cash", 2, 1, 1, 1, <<0, 0, 1>>),        \* half of loan 3, of the charge, a share
     Ask("daraja_stk", 2, 2, 0, 0, <<0, 0, 1>>),  \* the other half, another month
     Ask("daraja_stk", 2, 2, 2, 0, <<0, 0, 2>>)}  \* all of loan 3 and of the charge
=============================================================================
