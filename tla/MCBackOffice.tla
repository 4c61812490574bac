---------------------------- MODULE MCBackOffice ----------------------------
(***************************************************************************)
(* Model checking of the back office: members, monthly fees, dividends,    *)
(* CEEP reports, cash custody, credits and lists.  They share no rows in   *)
(* these models, so a behaviour works on one of them, chosen at the start, *)
(* and the others stay as they began: the states are the sum of the seven, *)
(* not the product.  The model values stand for different things in each.  *)
(***************************************************************************)
EXTENDS Members, MonthlyFees, Dividends, CeepReports, CashCustody, Credits, Listings, TLC

CONSTANTS admin, manager, newcomer, things, callers, names, refs

VARIABLE focus

Parts == {"members", "fees", "dividends", "ceep", "cash", "credits", "lists"}

\* An administrator, a manager, and one to be hired: three people who may take
\* any part in the custody of cash, so that two of them can race to verify.
MCRoles == (admin :> "system_admin") @@ (manager :> "manager") @@ (newcomer :> "none")

Fact(st, n, b, q) ==
    [status |-> st, account_count |-> n, balance |-> b, qualifying_months |-> q]

\* One cent each at half a percent rounds up; the ways to be left out, with and
\* without an error that stops the approval, an account not yet opened among them.
MCFacts == {Fact("active", 1, 1, 6), Fact("suspended", 1, 1, 6), Fact("deleted", 1, 1, 6),
            Fact("active", 2, 1, 6), Fact("active", 0, 0, 0)}

MCListings == NewestFirst \cup {"ListShareAccounts"}

Symmetry == Permutations(things) \cup Permutations(callers)
                \cup Permutations(names) \cup Permutations(refs)

-----------------------------------------------------------------------------
officeVars == <<focus, memberVars, feeVars, dividendVars, ceepVars, cashVars, creditVars, listVars>>

MCInit ==
    /\ focus \in Parts
    /\ MembersInit
    /\ FeesInit
    /\ DividendsInit
    /\ focus # "dividends" => \A m \in Shareholders : sources[m] = CHOOSE f \in Facts : TRUE
    /\ CeepInit
    /\ focus # "ceep" => ceepSources = CHOOSE f \in CeepFacts : TRUE
    /\ CashInit
    /\ CreditsInit
    /\ ListsInit
    /\ focus # "lists" => rows = {} /\ listing = "ListShareAccounts"

MCNext ==
    /\ UNCHANGED focus
    /\ focus = "members" => MembersNext
    /\ focus # "members" => UNCHANGED memberVars
    /\ focus = "fees" => FeesNext
    /\ focus # "fees" => UNCHANGED feeVars
    /\ focus = "dividends" => DividendsNext
    /\ focus # "dividends" => UNCHANGED dividendVars
    /\ focus = "ceep" => CeepNext
    /\ focus # "ceep" => UNCHANGED ceepVars
    /\ focus = "lists" => ListsNext
    /\ focus # "lists" => UNCHANGED listVars
    /\ focus = "cash" => CashNext
    /\ focus # "cash" => UNCHANGED <<cashTables, cashCalls, late>>
    /\ focus = "credits" => CreditsNext
    /\ focus # "credits" => UNCHANGED <<closedOwners, operations, ledgerRows, creditCalls>>
    /\ focus \notin {"cash", "credits"} => UNCHANGED staff

MCSpec == MCInit /\ [][MCNext]_officeVars

\* Amounts finer than a quantum are on their way, or have been rounded up.
FineAmounts ==
    \/ \E c \in CashCalls : cashCalls[c].amount % 10 # 0
    \/ \E s \in Sessions : sessions[s].counted > 1
    \/ \E r \in BankRefs : deposits[r].amount # CountedIn(deposits[r].sessions)

\* A bound of the search, not of the specification: two tills are followed while
\* nobody leaves and amounts are whole quanta, one till once somebody has left or
\* an amount is finer; a reason is given where one is needed.
CashBound ==
    focus = "cash" =>
        /\ Cardinality({s \in Sessions : sessions[s] # NoSession})
             + Cardinality({p \in StaffIds : staff[p].role # "none" /\ ~staff[p].is_active})
             + (IF FineAmounts THEN 1 ELSE 0) <= 2
        /\ \A c \in CashCalls :
               cashCalls[c].reason => cashCalls[c].amount # 10 * cashCalls[c].expected

\* What has been decided stays decided, in every part: a closed member, the
\* fees of a past month, an allocation, a count, a handover, a verification, a
\* finished operation.
DecisionsAreFinal ==
    /\ DeactivationIsFinal /\ PastFeesStand /\ AllocationsFrozen
    /\ CustodyMovesForward /\ OperationsFinal

\* No money moves on one person's word (cash, deposits and refunds), and cash is
\* received, taken over and banked only by people whose role allows it.
SeparationOfDuties == TwoPersonCustody /\ CustodyInRole /\ RefundsSettledByOthers

\* The part at work keeps its types.
OfficeTypeOK ==
    /\ focus = "members" => MembersTypeOK
    /\ focus = "fees" => FeesTypeOK
    /\ focus = "dividends" => DividendsTypeOK
    /\ focus = "ceep" => CeepTypeOK
    /\ focus = "cash" => CashTypeOK
    /\ focus = "credits" => CreditsTypeOK
    /\ focus = "lists" => ListsTypeOK
=============================================================================
