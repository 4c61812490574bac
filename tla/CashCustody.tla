---------------------------- MODULE CashCustody ----------------------------
(***************************************************************************)
(* Custody of cash in one branch (internal/contribution/cash.go): till     *)
(* sessions, cash receipts, the count at closing, the handover to a second *)
(* person, and bank deposits with their verification.                      *)
(*                                                                         *)
(* A call that is admitted locks the session rows it works on (FOR UPDATE, *)
(* in ID order), reads, and commits in a later step.  Opening a session is *)
(* one statement; verifying a deposit reads and updates without a          *)
(* transaction.  A refused, failed or crashed call changes nothing.        *)
(* Fees, charges, allocations and the member's status may refuse a receipt *)
(* too: see ReceiptPosting and Members.                                    *)
(*                                                                         *)
(* Requests carry amounts in tenths of a quantum, rows hold whole quanta   *)
(* (module Money): no handler refuses an amount finer than the columns.    *)
(***************************************************************************)
EXTENDS Staff, Money, FiniteSetsExt

CONSTANTS
    Sessions,   \* bound: sessions that may be opened
    Keys,       \* idempotency keys of cash receipts
    BankRefs,   \* bank references of deposits
    Amounts,    \* amounts of receipts, in tenths of a quantum
    Counts,     \* amounts counted at closing, in tenths
    Slips,      \* amounts on deposit slips, in tenths
    CashCalls   \* calls that may be in progress at once

VARIABLES
    sessions,   \* cashier_sessions
    receipts,   \* contribution_receipts of channel cash, by idempotency key
    deposits,   \* cash_deposits and cash_deposit_sessions, by bank reference
    cashCalls,  \* transactions in progress
    late        \* people deactivated while a call of theirs was on its way

cashTables == <<sessions, receipts, deposits>>
cashVars == <<staff, sessions, receipts, deposits, cashCalls, late>>

Nobody == "nobody"

\* Tables are finite, and negative amounts are refused before anything is read.
ASSUME CashConstants ==
    /\ IsFiniteSet(Sessions) /\ IsFiniteSet(Keys)
    /\ Amounts \subseteq Nat /\ Counts \subseteq Nat /\ Slips \subseteq Nat
    /\ Nobody \notin StaffIds

NoSession == [status |-> "none", cashier_id |-> Nobody, expected |-> 0, counted |-> 0,
              variance_reason |-> FALSE, handed_over_to |-> Nobody]
NoReceipt == [session |-> {}, amount |-> 0]
NoDeposit == [status |-> "none", amount |-> 0, sessions |-> {}, recorded_by |-> Nobody,
              verified_by |-> Nobody]

\* A call: who asks for what, on which rows, and what it has read.
NoCall == [op |-> "idle", by |-> Nobody, on |-> {}, key |-> "none", amount |-> 0, expected |-> 0,
           reason |-> FALSE]

CashTypeOK ==
    /\ StaffTypeOK
    /\ sessions \in [Sessions ->
           [status : {"none", "open", "closed", "handed_over", "deposited"},
            cashier_id : StaffIds \cup {Nobody}, expected : Nat, counted : Nat,
            variance_reason : BOOLEAN, handed_over_to : StaffIds \cup {Nobody}]]
    /\ receipts \in [Keys -> [session : SUBSET Sessions, amount : Nat]]
    /\ deposits \in [BankRefs ->
           [status : {"none", "recorded", "verified"}, amount : Nat,
            sessions : SUBSET Sessions, recorded_by : StaffIds \cup {Nobody},
            verified_by : StaffIds \cup {Nobody}]]
    /\ cashCalls \in [CashCalls ->
           [op : DOMAIN permissionForMethod \cup {"idle"}, by : StaffIds \cup {Nobody},
            on : SUBSET Sessions, key : Keys \cup BankRefs \cup {"none"}, amount : Nat,
            expected : Nat, reason : BOOLEAN]]
    /\ late \subseteq StaffIds

CashInit ==
    /\ StaffInit
    /\ sessions = [s \in Sessions |-> NoSession]
    /\ receipts = [k \in Keys |-> NoReceipt]
    /\ deposits = [r \in BankRefs |-> NoDeposit]
    /\ cashCalls = [c \in CashCalls |-> NoCall]
    /\ late = {}

-----------------------------------------------------------------------------
(* Calls and row locks.                                                    *)

\* A mutant: the rows are read without a lock.
NotLocked(S) == TRUE

\* FOR UPDATE: no other open transaction holds one of the rows.
RowsFree(S) == \A c \in CashCalls : cashCalls[c].on \cap S = {}

\* A mutant: a call on its way is let through without its role.
AnyoneOnTheWay(by, op) ==
    \/ Admitted(by, op) /\ UNCHANGED late
    \/ by \in late /\ late' = late \ {by}

\* The interceptor let the call in: now, or before the caller was deactivated.
Enters(by, op) ==
    \/ Admitted(by, op) /\ UNCHANGED late
    \/ /\ by \in late /\ roleHasPermission(staff[by].role, permissionForMethod[op])
       /\ late' = late \ {by}

\* The call holds its rows and has read what it needs.
HoldRows(c, call) ==
    /\ cashCalls[c] = NoCall
    /\ Enters(call.by, call.op)
    /\ RowsFree(call.on)
    /\ cashCalls' = [cashCalls EXCEPT ![c] = call]
    /\ UNCHANGED <<staff, cashTables>>

CommitCash(c, op) ==
    /\ cashCalls[c].op = op
    /\ cashCalls' = [cashCalls EXCEPT ![c] = NoCall]
    /\ UNCHANGED <<staff, late>>

\* The call is refused later on, fails, times out or is lost in a crash.
AbortCash(c) ==
    /\ cashCalls[c] # NoCall
    /\ cashCalls' = [cashCalls EXCEPT ![c] = NoCall]
    /\ UNCHANGED <<staff, cashTables, late>>

StaffChanges ==
    \E admin, s \in StaffIds :
        \/ \E role \in HiredRoles : CreateStaffUser(admin, s, role) /\ UNCHANGED late
        \/ DeactivateStaffUser(admin, s) /\ late' \in {late, late \cup {s}}

-----------------------------------------------------------------------------
(* The till.                                                               *)

\* idx_cashier_sessions_one_open; with an open session that one is returned.
OpenCashierSession(by, s) ==
    /\ Enters(by, "OpenCashierSession")
    /\ sessions[s] = NoSession
    /\ \A t \in Sessions : ~(sessions[t].status = "open" /\ sessions[t].cashier_id = by)
    /\ sessions' = [sessions EXCEPT ![s].status = "open", ![s].cashier_id = by]
    /\ UNCHANGED <<staff, receipts, deposits, cashCalls>>

\* session.Status != open || session.CashierID != params.ReceivedBy
AcceptsCash(s, by) == sessions[s].status = "open" /\ sessions[s].cashier_id = by

\* A known key is answered with its receipt and goes no further.
BeginReceipt(c, by, s, k, a) ==
    /\ receipts[k] = NoReceipt
    /\ AcceptsCash(s, by)
    /\ a > 0
    /\ HoldRows(c, [op |-> "CreateCashContribution", by |-> by, on |-> {s}, key |-> k,
                 amount |-> a, expected |-> 0, reason |-> FALSE])

\* CHECK (received_amount > 0), on what the column keeps.  ON CONFLICT DO NOTHING:
\* a key used meanwhile in another session keeps its receipt.
InsertContributionReceipt(c) ==
    /\ CommitCash(c, "CreateCashContribution")
    /\ Stored(cashCalls[c].amount) > 0
    /\ receipts' = IF receipts[cashCalls[c].key] = NoReceipt
                     THEN [receipts EXCEPT ![cashCalls[c].key] =
                              [session |-> cashCalls[c].on, amount |-> Stored(cashCalls[c].amount)]]
                     ELSE receipts
    /\ UNCHANGED <<sessions, deposits>>

SumCashReceiptsBySession(s) ==
    SumFunctionOnSet([k \in Keys |-> receipts[k].amount], {k \in Keys : s \in receipts[k].session})

\* Only the cashier of the session counts it.  A count that differs from the
\* receipts needs a reason: here the count is cut off at a quantum.
BeginClose(c, by, s, counted, reason) ==
    LET expected == SumCashReceiptsBySession(s)
    IN  /\ AcceptsCash(s, by)
        /\ reason \/ numericToScale(counted) = expected
        /\ HoldRows(c, [op |-> "CloseCashierSession", by |-> by, on |-> {s}, key |-> "none",
                     amount |-> counted, expected |-> expected, reason |-> reason])

\* A mutant: the table takes the service's word for it.
AsTheServiceSaw(call) == TRUE

\* chk_cashier_sessions_variance_reason, where the count is rounded.
VarianceExplained(call) == call.reason \/ Stored(call.amount) = call.expected

CloseCashierSession(c) ==
    /\ CommitCash(c, "CloseCashierSession")
    /\ VarianceExplained(cashCalls[c])
    /\ \E s \in cashCalls[c].on :
           sessions' = [sessions EXCEPT ![s].status = "closed",
                                        ![s].expected = cashCalls[c].expected,
                                        ![s].counted = Stored(cashCalls[c].amount),
                                        ![s].variance_reason = cashCalls[c].reason]
    /\ UNCHANGED <<receipts, deposits>>

-----------------------------------------------------------------------------
(* Handover and deposit.                                                   *)

\* A mutant: cashiers may accept their own cash.
AnyPerson(s, by) == TRUE

\* ErrCashSeparationOfDuties.
AnotherPerson(s, by) == sessions[s].cashier_id # by

\* A session already handed over is returned as it is.
BeginHandover(c, by, s) ==
    /\ AnotherPerson(s, by)
    /\ sessions[s].status = "closed"
    /\ HoldRows(c, [NoCall EXCEPT !.op = "AcceptCashHandover", !.by = by, !.on = {s}])

AcceptCashHandover(c) ==
    /\ CommitCash(c, "AcceptCashHandover")
    /\ \E s \in cashCalls[c].on :
           sessions' = [sessions EXCEPT ![s].status = "handed_over",
                                        ![s].handed_over_to = cashCalls[c].by]
    /\ UNCHANGED <<receipts, deposits>>

\* A mutant: banked sessions are accepted again.
HandedOverOnce(s) == sessions[s].status \in {"handed_over", "deposited"}

\* Only cash that was handed over and is not yet banked.
MayDeposit(s) == sessions[s].status = "handed_over"

\* What was counted in the sessions S.
CountedIn(S) == SumFunctionOnSet([s \in Sessions |-> sessions[s].counted], S)

\* total.Cmp(numericToScale(amount, -4)) != 0: the slip is cut off at a quantum.
SlipMatches(amount, S) == numericToScale(amount) = CountedIn(S)

\* The reference is looked up before the rows are locked.
BeginDeposit(c, by, S, r, amount) ==
    /\ deposits[r] = NoDeposit
    /\ amount > 0
    /\ \A s \in S : MayDeposit(s)
    /\ SlipMatches(amount, S)
    /\ HoldRows(c, [op |-> "RecordCashDeposit", by |-> by, on |-> S, key |-> r,
                 amount |-> amount, expected |-> 0, reason |-> FALSE])

\* UNIQUE bank_reference: a reference recorded meanwhile fails the call.  The
\* column rounds the slip's amount; CHECK (amount > 0).
RecordCashDeposit(c) ==
    /\ CommitCash(c, "RecordCashDeposit")
    /\ deposits[cashCalls[c].key] = NoDeposit
    /\ Stored(cashCalls[c].amount) > 0
    /\ deposits' = [deposits EXCEPT ![cashCalls[c].key] =
           [status |-> "recorded", amount |-> Stored(cashCalls[c].amount),
            sessions |-> cashCalls[c].on, recorded_by |-> cashCalls[c].by,
            verified_by |-> Nobody]]
    /\ sessions' = [s \in Sessions |->
           IF s \in cashCalls[c].on THEN [sessions[s] EXCEPT !.status = "deposited"]
           ELSE sessions[s]]
    /\ UNCHANGED receipts

\* The deposit as read: recorded, and by somebody else.
ReadDeposit(c, by, r) ==
    /\ deposits[r].status = "recorded"
    /\ deposits[r].recorded_by # by
    /\ HoldRows(c, [NoCall EXCEPT !.op = "VerifyCashDeposit", !.by = by, !.key = r])

\* A mutant: the update does not ask again.
Unconditional(r) == TRUE

\* WHERE status = 'recorded'.
StillRecorded(r) == deposits[r].status = "recorded"

VerifyCashDeposit(c) ==
    /\ CommitCash(c, "VerifyCashDeposit")
    /\ deposits' = IF StillRecorded(cashCalls[c].key)
                     THEN [deposits EXCEPT ![cashCalls[c].key].status = "verified",
                                           ![cashCalls[c].key].verified_by = cashCalls[c].by]
                     ELSE deposits
    /\ UNCHANGED <<sessions, receipts>>

-----------------------------------------------------------------------------
CashNext ==
    \/ StaffChanges /\ UNCHANGED <<cashTables, cashCalls>>
    \/ \E by \in StaffIds, s \in Sessions : OpenCashierSession(by, s)
    \/ \E c \in CashCalls, by \in StaffIds :
           \/ \E s \in Sessions, k \in Keys, a \in Amounts : BeginReceipt(c, by, s, k, a)
           \/ \E s \in Sessions, counted \in Counts, reason \in BOOLEAN :
                  BeginClose(c, by, s, counted, reason)
           \/ \E s \in Sessions : BeginHandover(c, by, s)
           \/ \E S \in SUBSET Sessions \ {{}}, r \in BankRefs, amount \in Slips :
                  BeginDeposit(c, by, S, r, amount)
           \/ \E r \in BankRefs : ReadDeposit(c, by, r)
    \/ \E c \in CashCalls :
           \/ InsertContributionReceipt(c)
           \/ CloseCashierSession(c)
           \/ AcceptCashHandover(c)
           \/ RecordCashDeposit(c)
           \/ VerifyCashDeposit(c)
           \/ AbortCash(c)

CashSpec == CashInit /\ [][CashNext]_cashVars

-----------------------------------------------------------------------------
(* Correctness.                                                            *)

\* CloseCashierSession "snapshots expected cash while the session row is
\* locked": what a closed session expects is the sum of its receipts, then and
\* at any later time, although receipts were being accepted during the count;
\* and a recorded count that differs has its reason, although the service and
\* the table round the count differently.
SessionTotalsExact ==
    \A s \in Sessions :
        sessions[s].status \in {"closed", "handed_over", "deposited"} =>
            /\ sessions[s].expected = SumCashReceiptsBySession(s)
            /\ sessions[s].counted = sessions[s].expected \/ sessions[s].variance_reason

\* RecordCashDeposit proves "where the cash went": a session is banked when it
\* is in a deposit, it is in one only, and a deposit holds what was counted, or
\* one quantum more where the slip named half a quantum that was cut off when
\* it was compared and rounded up when it was stored.
DepositsAccountForCash ==
    /\ \A s \in Sessions :
           Cardinality({r \in BankRefs : s \in deposits[r].sessions}) =
               IF sessions[s].status = "deposited" THEN 1 ELSE 0
    /\ \A r \in BankRefs : deposits[r].amount - CountedIn(deposits[r].sessions) \in {0, 1}

\* Cash is accounted for from the till to the bank.
CashAccountedFor == SessionTotalsExact /\ DepositsAccountForCash

\* Cash is taken over by another person than the one who received it, and a
\* deposit is confirmed by another person than the one who recorded it.
TwoPersonCustody ==
    /\ \A s \in Sessions :
           sessions[s].handed_over_to # Nobody => sessions[s].handed_over_to # sessions[s].cashier_id
    /\ \A r \in BankRefs :
           deposits[r].status = "verified" => deposits[r].verified_by # deposits[r].recorded_by

\* Everybody named on a session or a deposit has a role with the permission of
\* the call that put the name there, although people are hired and deactivated
\* while their calls wait for a row.
CustodyInRole ==
    LET InRole(p, method) ==
            p # Nobody => roleHasPermission(staff[p].role, permissionForMethod[method])
    IN  /\ \A s \in Sessions : /\ InRole(sessions[s].cashier_id, "OpenCashierSession")
                              /\ InRole(sessions[s].handed_over_to, "AcceptCashHandover")
        /\ \A r \in BankRefs : /\ InRole(deposits[r].recorded_by, "RecordCashDeposit")
                              /\ InRole(deposits[r].verified_by, "VerifyCashDeposit")

CustodyRank == [none |-> 0, open |-> 1, closed |-> 2, handed_over |-> 3, deposited |-> 4]

\* Custody only moves on, and what a person has signed for is not rewritten by
\* a racing or repeated call: the count, the handover, the verification.
CustodyMovesForward ==
    [][/\ \A s \in Sessions :
              LET a == sessions[s]
                  b == sessions'[s]
              IN  /\ CustodyRank[a.status] <= CustodyRank[b.status]
                  /\ CustodyRank[a.status] >= 2 =>
                         /\ b.expected = a.expected /\ b.counted = a.counted
                         /\ b.variance_reason = a.variance_reason
                  /\ CustodyRank[a.status] >= 3 => b.handed_over_to = a.handed_over_to
       /\ \A r \in BankRefs :
              deposits[r].status = "verified" => deposits'[r] = deposits[r]
      ]_cashVars
=============================================================================
