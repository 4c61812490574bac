---------------------------- MODULE MonthlyFees ----------------------------
(***************************************************************************)
(* Which months a member owes COM and LGOM for (internal/contribution):    *)
(* AssessMonthlyFees, and the quote that mirrors it, read the status       *)
(* history of the member (internal/member) to find out what the member was *)
(* when the month began.  One member; the two fees are due together.       *)
(*                                                                         *)
(* The history is read in the order of created_at, which is the time when  *)
(* the transaction that changed the status began.  Here BEGIN, the read    *)
(* that decides and the update are three steps.  Every BEGIN and every     *)
(* midnight that starts a month is a tick of the clock of its own.         *)
(***************************************************************************)
EXTENDS Naturals, Sequences, MemberStatus

CONSTANTS
    StatusCalls,  \* status changes that may be open at once
    MaxBegun,     \* bound: status changes of one behaviour
    MaxMonths     \* bound: months of one behaviour

ASSUME FeeConstants == MaxBegun \in Nat /\ MaxMonths \in Nat \ {0}

VARIABLES
    feeClock,     \* the time
    starts,       \* month -> the time it began; the last one is the current month
    feeMember,    \* the members row
    statusRows,   \* member_status_history, in the order of commits
    statusCalls,  \* the open transactions
    assessed      \* contribution_monthly_fees: the months that have rows

feeVars == <<feeClock, starts, feeMember, statusRows, statusCalls, assessed>>

Months == 1 .. Len(starts)

NoStatusTx == [op |-> "none", created_at |-> 0, from |-> "none", to |-> "none"]

FeesTypeOK ==
    /\ feeClock \in 0 .. MaxBegun + MaxMonths
    /\ starts \in Seq(0 .. feeClock) /\ Len(starts) \in 1 .. MaxMonths
    /\ feeMember \in [status : Statuses \cup {"none"}, created_at : 0 .. feeClock,
                      is_deleted : BOOLEAN]
    /\ statusRows \in Seq([created_at : 1 .. feeClock, from : Statuses, to : Statuses])
    /\ statusCalls \in [StatusCalls ->
           [op : {"none", "begun", "status", "close"}, created_at : 0 .. feeClock,
            from : Statuses \cup {"none"}, to : Statuses \cup {"none"}]]
    /\ assessed \subseteq Months

FeesInit ==
    /\ feeClock = 0
    /\ starts = <<0>>
    /\ feeMember = [status |-> "none", created_at |-> 0, is_deleted |-> FALSE]
    /\ statusRows = << >>
    /\ statusCalls = [c \in StatusCalls |-> NoStatusTx]
    /\ assessed = {}

-----------------------------------------------------------------------------
(* Time, and the member.                                                   *)

StartMonth ==
    /\ Len(starts) < MaxMonths
    /\ feeClock' = feeClock + 1
    /\ starts' = Append(starts, feeClock')
    /\ UNCHANGED <<feeMember, statusRows, statusCalls, assessed>>

CreateFeeMember ==
    /\ feeMember.status = "none"
    /\ feeMember' = [feeMember EXCEPT !.status = "pending", !.created_at = feeClock]
    /\ UNCHANGED <<feeClock, starts, statusRows, statusCalls, assessed>>

\* ExecTx of UpdateMemberStatus or CloseMember: CURRENT_TIMESTAMP is now fixed.
BeginStatusTx(c) ==
    /\ statusCalls[c] = NoStatusTx
    /\ feeClock + 1 - Len(starts) < MaxBegun
    /\ feeClock' = feeClock + 1
    /\ statusCalls' = [statusCalls EXCEPT ![c] = [NoStatusTx EXCEPT !.op = "begun", !.created_at = feeClock']]
    /\ UNCHANGED <<starts, feeMember, statusRows, assessed>>

\* The row is read without a lock, and the transition is decided.
DecideStatus(c, op, to) ==
    /\ statusCalls[c].op = "begun"
    /\ ~feeMember.is_deleted
    /\ <<feeMember.status, to>> \in statusTransitions
    /\ op = "close" => to = "closed"
    /\ statusCalls' = [statusCalls EXCEPT ![c].op = op, ![c].from = feeMember.status, ![c].to = to]
    /\ UNCHANGED <<feeClock, starts, feeMember, statusRows, assessed>>

\* The update and the history row, committed.
WriteStatus(c) ==
    /\ statusCalls[c].op \in {"status", "close"}
    /\ ~feeMember.is_deleted
    /\ feeMember' = [feeMember EXCEPT !.status = statusCalls[c].to,
                                      !.is_deleted = statusCalls[c].op = "close"]
    /\ statusRows' = Append(statusRows, [created_at |-> statusCalls[c].created_at,
                                         from |-> statusCalls[c].from, to |-> statusCalls[c].to])
    /\ statusCalls' = [statusCalls EXCEPT ![c] = NoStatusTx]
    /\ UNCHANGED <<feeClock, starts, assessed>>

\* A refusal, no row to update, or a failure.
RollbackStatus(c) ==
    /\ statusCalls[c] # NoStatusTx
    /\ statusCalls' = [statusCalls EXCEPT ![c] = NoStatusTx]
    /\ UNCHANGED <<feeClock, starts, feeMember, statusRows, assessed>>

-----------------------------------------------------------------------------
(* The fees.                                                               *)

Rows == {statusRows[i] : i \in 1 .. Len(statusRows)}

\* Rows dated up to the start of a month, after it, and within the month.
RowsBefore(p) == {h \in Rows : h.created_at <= starts[p]}
RowsAfter(p)  == {h \in Rows : h.created_at > starts[p]}
RowsDuring(p) == {h \in Rows : /\ h.created_at >= starts[p]
                               /\ p < Len(starts) => h.created_at < starts[p + 1]}

Latest(S)   == CHOOSE h \in S : \A g \in S : g.created_at <= h.created_at
Earliest(S) == CHOOSE h \in S : \A g \in S : h.created_at <= g.created_at

\* A mutant: the second fallback of COALESCE is missing.
StatusToday(p) == IF RowsBefore(p) # {} THEN Latest(RowsBefore(p)).to ELSE feeMember.status

\* What the member was at the start of a month, according to the history.
StatusAtStart(p) ==
    CASE RowsBefore(p) # {} -> Latest(RowsBefore(p)).to
      [] RowsBefore(p) = {} /\ RowsAfter(p) # {} -> Earliest(RowsAfter(p)).from
      [] OTHER -> feeMember.status

\* "Charge the full monthly fees when active at month start or activated during it."
EligibleForFees(p) ==
    /\ feeMember.status # "none" /\ ~feeMember.is_deleted
    /\ p < Len(starts) => feeMember.created_at < starts[p + 1]
    /\ StatusAtStart(p) = "active" \/ \E h \in RowsDuring(p) : h.to = "active"

\* monthlyFees of a receipt: no month in the future, and a row stays once it exists.
AssessMonthlyFees(p) ==
    /\ EligibleForFees(p)
    /\ assessed' = assessed \cup {p}
    /\ UNCHANGED <<feeClock, starts, feeMember, statusRows, statusCalls>>

\* What the cashier is quoted: the row, or what the row would be.
QuoteMonthlyFees(p) == p \in assessed \/ EligibleForFees(p)

FeesNext ==
    \/ StartMonth
    \/ CreateFeeMember
    \/ \E c \in StatusCalls :
          BeginStatusTx(c) \/ WriteStatus(c) \/ RollbackStatus(c)
    \/ \E c \in StatusCalls, op \in {"status", "close"}, to \in Statuses : DecideStatus(c, op, to)
    \/ \E p \in Months : AssessMonthlyFees(p)

FeesSpec == FeesInit /\ [][FeesNext]_feeVars

-----------------------------------------------------------------------------
(* Correctness.                                                            *)

\* No two status changes have been recorded in another order than they began.
\* Otherwise the history does not end with the status the member has, and even
\* an active member is not charged.
RecordedInOrder ==
    \A i, j \in 1 .. Len(statusRows) :
        i < j => statusRows[i].created_at < statusRows[j].created_at

\* A month that is over is settled: whether it is charged does not depend on
\* when the cashier asks.  A later suspension does not forgive it, and a later
\* activation does not charge it, as long as changes are recorded in order;
\* only the deletion of the member forgives what was not assessed.
PastFeesStand ==
    [][\A p \in 1 .. Len(starts) - 1 :
          /\ RecordedInOrder'
          /\ \A h \in Rows' \ Rows : h.created_at >= starts[p + 1]
          /\ ~feeMember'.is_deleted
          => (QuoteMonthlyFees(p) <=> QuoteMonthlyFees(p)')]_feeVars
=============================================================================
