------------------------------ MODULE Listings ------------------------------
(***************************************************************************)
(* Walking through a list page by page.  Every list handler reads one row  *)
(* more than it returns, and its page token names the last row returned.   *)
(* Rows come and go between two requests of a walk.                        *)
(*                                                                         *)
(* A row is its position in the order of its list: (created_at, id), or    *)
(* the member number.  Page sizes are scaled down.                         *)
(***************************************************************************)
EXTENDS Integers, FiniteSets

CONSTANTS
    Listings,         \* the handlers to walk with
    Positions,        \* positions of rows, positive integers
    PageSizes,        \* page sizes a client asks for
    defaultPageSize,  \* 50 in the code
    maxPageSize       \* 1000 or 100 in the code

ASSUME ListConstants ==
    /\ Positions \subseteq Nat \ {0} /\ IsFiniteSet(Positions)
    /\ PageSizes \subseteq Int /\ {defaultPageSize, maxPageSize} \subseteq Nat \ {0}

VARIABLES
    listing,  \* the handler this walk uses
    rows,     \* the rows in the table that pass the handler's filters
    token,    \* the page token of the next request; 0 is the empty token
    listed,   \* how often each row was returned
    stayed,   \* rows that were there before the walk and have not left
    walk      \* "walking" or "done"

listVars == <<listing, rows, token, listed, stayed, walk>>

\* ORDER BY created_at DESC, id DESC
NewestFirst == {"ListLoans", "ListGuarantors", "GetPaymentHistory", "ListShareTransactions",
                "ListCashierSessions", "ListCashDeposits", "ListContributionCharges",
                "ListDarajaPayments", "ListCreditOperations"}

\* No page size in the request.
FixedSize == {"ListDarajaPayments", "ListCreditOperations"}

ListsTypeOK ==
    /\ listing \in Listings
    /\ rows \subseteq Positions /\ stayed \subseteq rows
    /\ token \in Positions \cup {0}
    /\ listed \in [Positions -> Nat]
    /\ walk \in {"walking", "done"}

ListsInit ==
    /\ listing \in Listings
    /\ rows \in SUBSET Positions
    /\ token = 0
    /\ listed = [r \in Positions |-> 0]
    /\ stayed = rows
    /\ walk = "walking"

RowAppears(r) ==
    /\ walk = "walking" /\ r \notin rows
    /\ rows' = rows \cup {r}
    /\ UNCHANGED <<listing, token, listed, stayed, walk>>

RowLeaves(r) ==
    /\ walk = "walking" /\ r \in rows
    /\ rows' = rows \ {r}
    /\ stayed' = stayed \ {r}
    /\ UNCHANGED <<listing, token, listed, walk>>

-----------------------------------------------------------------------------
Limit(size) ==
    IF size <= 0 \/ listing \in FixedSize THEN defaultPageSize
    ELSE IF size > maxPageSize THEN maxPageSize ELSE size

\* The WHERE clause of the cursor.  ListShareAccounts goes on above it; the
\* lists by time below it; and so does ListMembers.
Beyond(r) ==
    token # 0 => IF listing = "ListShareAccounts" THEN r > token ELSE r < token

\* The ORDER BY clause: ListShareAccounts and ListMembers ascend.
Before(r, q) == IF listing \in NewestFirst THEN r > q ELSE r < q

\* ORDER BY ... LIMIT n
FirstRows(S, n) == {r \in S : Cardinality({q \in S : Before(q, r)}) < n}

\* A mutant: the token names the row that was read but not returned.
LookAheadRow(fetched, limit) ==
    CHOOSE r \in fetched : \A q \in fetched : q = r \/ Before(q, r)

\* last := rows[limit-1]
NextPageToken(fetched, limit) ==
    LET page == FirstRows(fetched, limit)
    IN  CHOOSE r \in page : \A q \in page : q = r \/ Before(q, r)

ListPage(size) ==
    LET limit   == Limit(size)
        fetched == FirstRows({r \in rows : Beyond(r)}, limit + 1)
        hasMore == Cardinality(fetched) > limit
        page    == FirstRows(fetched, limit)
    IN  /\ walk = "walking"
        /\ listed' = [r \in Positions |-> IF r \in page THEN listed[r] + 1 ELSE listed[r]]
        /\ token' = IF hasMore THEN NextPageToken(fetched, limit) ELSE 0
        /\ walk' = IF hasMore THEN "walking" ELSE "done"
        /\ UNCHANGED <<listing, rows, stayed>>

ListsNext ==
    \/ \E r \in Positions : RowAppears(r) \/ RowLeaves(r)
    \/ \E size \in PageSizes : ListPage(size)

ListsSpec == ListsInit /\ [][ListsNext]_listVars

-----------------------------------------------------------------------------
(* Correctness.                                                            *)

\* A walk to the last page returns no row twice, and every row that was in the
\* list all the time, whatever else came and went and whatever sizes were asked.
WalkListsEveryRowOnce ==
    /\ \A r \in Positions : listed[r] <= 1
    /\ walk = "done" => \A r \in stayed : listed[r] = 1
=============================================================================
