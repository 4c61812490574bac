------------------------------ MODULE Members ------------------------------
(***************************************************************************)
(* The members of one branch (internal/member): registration with its      *)
(* member number, the status machine with its history, closure, profiles,  *)
(* and the eligibility locks that other domains take.                      *)
(*                                                                         *)
(* Every operation is one READ COMMITTED transaction.  A status change     *)
(* reads the member without a lock, decides, and then updates the row      *)
(* whatever it holds by then: the read and the update are two steps here.  *)
(* A member is named by its national ID, which is unique in the branch     *)
(* even after deletion.                                                    *)
(***************************************************************************)
EXTENDS Naturals, Sequences, FiniteSets, MemberStatus

CONSTANTS
    NationalIds,  \* the people who may register
    MemberCalls,  \* transactions that may be open at once
    MaxChanges    \* bound: status changes per member

VARIABLES
    members,             \* members: a row per national ID
    profiles,            \* member_profiles
    next_member_number,  \* member_branch_counters
    history,             \* member_status_history, per member
    memberCalls          \* the open transactions

memberVars == <<members, profiles, next_member_number, history, memberCalls>>

NoRow == [number |-> 0, status |-> "none", is_deleted |-> FALSE]

Registered(m) == members[m].number # 0
Live(m)       == Registered(m) /\ ~members[m].is_deleted
IsActive(m)   == Live(m) /\ members[m].status = "active"

\* An open transaction: what it was asked and what it has read or locked.
Idle == [op |-> "idle", who |-> {}, from |-> "none", to |-> "none"]

MembersTypeOK ==
    /\ members \in [NationalIds -> [number : Nat, status : Statuses \cup {"none"},
                                    is_deleted : BOOLEAN]]
    /\ profiles \in [NationalIds -> {"none", "filed", "amended"}]
    /\ next_member_number \in Nat \ {0}
    /\ history \in [NationalIds -> Seq(statusTransitions)]
    /\ memberCalls \in [MemberCalls ->
           [op : {"idle", "register", "status", "close", "eligible"},
            who : SUBSET NationalIds, from : Statuses \cup {"none"},
            to : Statuses \cup {"none"}]]

MembersInit ==
    /\ members = [m \in NationalIds |-> NoRow]
    /\ profiles = [m \in NationalIds |-> "none"]
    /\ next_member_number = 1
    /\ history = [m \in NationalIds |-> << >>]
    /\ memberCalls = [c \in MemberCalls |-> Idle]

-----------------------------------------------------------------------------
(* Locks.                                                                  *)

\* IncrementMemberNumber's UPDATE holds the counter row until it commits.
CounterIsFree == \A c \in MemberCalls : memberCalls[c].op # "register"

\* FOR SHARE: an UPDATE of the row waits for every holder to commit.
HeldForShare(m) ==
    \E c \in MemberCalls : memberCalls[c].op = "eligible" /\ m \in memberCalls[c].who

Begin(c, call) == memberCalls[c] = Idle /\ memberCalls' = [memberCalls EXCEPT ![c] = call]

End(c) == memberCalls' = [memberCalls EXCEPT ![c] = Idle]

-----------------------------------------------------------------------------
(* RegisterMember.                                                         *)

\* The transaction takes the next number; nobody else can until it ends.
IncrementMemberNumber(c, m) ==
    /\ CounterIsFree
    /\ Begin(c, [op |-> "register", who |-> {m}, from |-> "none", to |-> "pending"])
    /\ UNCHANGED <<members, profiles, next_member_number, history>>

\* A mutant: the number is not given back.
NumberLost(registered) == next_member_number + 1

\* ON CONFLICT DO NOTHING: a known national ID returns no row, and the error
\* takes the number back with the transaction.
NumberAfter(registered) ==
    IF registered THEN next_member_number ELSE next_member_number + 1

CreateMember(c) ==
    /\ memberCalls[c].op = "register"
    /\ \E m \in memberCalls[c].who :
           /\ next_member_number' = NumberAfter(Registered(m))
           /\ IF Registered(m) THEN UNCHANGED <<members, profiles>>
              ELSE /\ members' = [members EXCEPT ![m] =
                         [number |-> next_member_number, status |-> "pending", is_deleted |-> FALSE]]
                   /\ profiles' = [profiles EXCEPT ![m] = "filed"]
    /\ End(c)
    /\ UNCHANGED history

\* UpdateMemberProfile writes the profile of any member, deleted or not; with
\* no profile it writes nothing and still succeeds.
UpdateMemberProfile(m) ==
    /\ profiles[m] # "none"
    /\ profiles' = [profiles EXCEPT ![m] = "amended"]
    /\ UNCHANGED <<members, next_member_number, history, memberCalls>>

-----------------------------------------------------------------------------
(* UpdateMemberStatus and CloseMember.                                     *)

\* The decision: made from a row read without a lock.
ReadStatus(c, m, to) ==
    /\ Live(m)
    /\ <<members[m].status, to>> \in statusTransitions
    /\ Len(history[m]) < MaxChanges
    /\ Begin(c, [op |-> "status", who |-> {m}, from |-> members[m].status, to |-> to])
    /\ UNCHANGED <<members, profiles, next_member_number, history>>

ReadToClose(c, m) ==
    /\ Live(m)
    /\ <<members[m].status, "closed">> \in statusTransitions
    /\ Len(history[m]) < MaxChanges
    /\ Begin(c, [op |-> "close", who |-> {m}, from |-> members[m].status, to |-> "closed"])
    /\ UNCHANGED <<members, profiles, next_member_number, history>>

\* A mutant: the update does not ask.
AnyRow(m) == Registered(m)

\* WHERE is_deleted = FALSE is all the update asks.
StillThere(m) == Live(m)

\* A mutant: it does not wait for them.
NeverWaits(m) == TRUE

\* The row lock of the update: shared locks are waited for.
MayUpdate(m) == ~HeldForShare(m)

\* Mutants: a status no other query knows, and a closure without its history row.
OwnName(call) == IF call.op = "close" THEN "deactivated" ELSE call.to
SkipsClosures(rows, call) ==
    IF call.op = "close" THEN rows ELSE Append(rows, <<call.from, call.to>>)

\* The status the update writes; the column is free text.
WrittenStatus(call) == call.to

\* RecordMemberStatusTransition, in the same transaction.
RecordMemberStatusTransition(rows, call) == Append(rows, <<call.from, call.to>>)

\* UpdateMemberStatus or DeactivateMember, with the history row, committed; or
\* no row to update, and the transaction is rolled back.
Apply(c, op, deleted) ==
    /\ memberCalls[c].op = op
    /\ \E m \in memberCalls[c].who :
           IF StillThere(m)
             THEN /\ MayUpdate(m)
                  /\ members' = [members EXCEPT ![m].status = WrittenStatus(memberCalls[c]),
                                                ![m].is_deleted = deleted]
                  /\ history' = [history EXCEPT ![m] =
                         RecordMemberStatusTransition(@, memberCalls[c])]
             ELSE UNCHANGED <<members, history>>
    /\ End(c)
    /\ UNCHANGED <<profiles, next_member_number>>

UpdateMemberStatus(c) == Apply(c, "status", FALSE)

DeactivateMember(c) == Apply(c, "close", TRUE)

-----------------------------------------------------------------------------
(* RequireActiveMemberInTx and LockActiveMembersInTx.                      *)

\* The members of S that are active now, locked until the caller commits.
LockActiveMembersInBranch(c, S) ==
    /\ \E m \in S : IsActive(m)
    /\ Begin(c, [op |-> "eligible", who |-> {m \in S : IsActive(m)},
                 from |-> "none", to |-> "none"])
    /\ UNCHANGED <<members, profiles, next_member_number, history>>

\* The caller commits, or any open transaction is rolled back: a crash, a
\* cancelled request, a lost connection.
EndMemberTx(c) ==
    /\ memberCalls[c] # Idle
    /\ End(c)
    /\ UNCHANGED <<members, profiles, next_member_number, history>>

MembersNext ==
    \/ \E c \in MemberCalls, m \in NationalIds : IncrementMemberNumber(c, m)
    \/ \E c \in MemberCalls : CreateMember(c)
    \/ \E m \in NationalIds : UpdateMemberProfile(m)
    \/ \E c \in MemberCalls, m \in NationalIds, to \in Statuses : ReadStatus(c, m, to)
    \/ \E c \in MemberCalls, m \in NationalIds : ReadToClose(c, m)
    \/ \E c \in MemberCalls : UpdateMemberStatus(c)
    \/ \E c \in MemberCalls : DeactivateMember(c)
    \/ \E c \in MemberCalls, S \in SUBSET NationalIds : LockActiveMembersInBranch(c, S)
    \/ \E c \in MemberCalls : EndMemberTx(c)

MembersSpec == MembersInit /\ [][MembersNext]_memberVars

-----------------------------------------------------------------------------
(* Correctness.                                                            *)

\* RegisterMember numbers the members 1, 2, 3, ... without a gap or a repeat,
\* and files one profile with each, whatever registrations race, repeat a
\* national ID or are rolled back.
NumbersConsecutive ==
    /\ {members[m].number : m \in {x \in NationalIds : Registered(x)}} =
           1 .. next_member_number - 1
    /\ \A m, n \in NationalIds :
           Registered(m) /\ members[m].number = members[n].number => m = n
    /\ \A m \in NationalIds : Registered(m) <=> profiles[m] # "none"

\* RequireActiveMemberInTx "holds eligibility stable until cash acceptance
\* commits": a member that a transaction found active stays active until that
\* transaction ends, although suspensions and closures may already have read.
EligibilityHeld == \A m \in NationalIds : HeldForShare(m) => IsActive(m)

\* A status and its history change together, closures included: the row that
\* was committed last names the status the member has now.
HistoryMatchesStatus ==
    \A m \in NationalIds :
        history[m] # << >> => members[m].status = history[m][Len(history[m])][2]

\* The rows of a member agree: number, profile, status and history.
MemberRecordsAgree == NumbersConsecutive /\ HistoryMatchesStatus

\* CloseMember is final: a status change that read the member before the
\* closure finds no row to update after it.
DeactivationIsFinal ==
    [][\A m \in NationalIds : members[m].is_deleted => members'[m] = members[m]]_memberVars

\* "`Closed` is terminal. A closed member must not reopen."
ClosedIsTerminal ==
    \A m \in NationalIds :
        (\E i \in 1 .. Len(history[m]) : history[m][i][2] = "closed") =>
            members[m].status = "closed"
=============================================================================
