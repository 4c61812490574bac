--------------------------- MODULE MCLoanSecurity ---------------------------
(***************************************************************************)
(* The loan workflow for TLC.                                              *)
(***************************************************************************)
EXTENDS LoanSecurity, TLC

\* Members, like loans, are interchangeable.
Sym == Permutations(Members) \cup Permutations(Loans)
\* A bound of the search: loans applied for, loans ended and members who are
\* not available add up to three, so two loans compete until one of them ends
\* or a member leaves, and one loan alone meets both.
WorkBound ==
    LET Count(statuses) == Cardinality({l \in Loans : loans[l].status \in statuses})
    IN  Count(LoanStatuses \ {"none"}) + Count({"rejected", "closed"})
            + Cardinality(Unavailable(member, frozen)) <= 3
=============================================================================
