--------------------------- MODULE BackOfficeProofs ---------------------------
(***************************************************************************)
(* The back office, for any number of people, rows and open calls:         *)
(* members, cash custody, credits, lists and monthly fees, each with an    *)
(* inductive invariant of its own, and then what the parts promise         *)
(* together.                                                               *)
(***************************************************************************)
EXTENDS MCBackOffice, ApprovalProofs, SequenceTheorems

-----------------------------------------------------------------------------
(* Members.                                                                *)

\* What an open status change has decided is a transition of the table; a
\* member without a row has no history and was never deleted.
Decisions ==
    /\ \A c \in MemberCalls :
           memberCalls[c].op \in {"status", "close"} =>
               <<memberCalls[c].from, memberCalls[c].to>> \in statusTransitions
    /\ \A m \in NationalIds :
           ~Registered(m) => history[m] = << >> /\ ~members[m].is_deleted

MembersInv == MembersTypeOK /\ Decisions /\ MemberRecordsAgree /\ EligibilityHeld

LEMMA InitMembersInv == MembersInit => MembersInv
<1> SUFFICES ASSUME MembersInit PROVE MembersInv
  OBVIOUS
<1> USE DEF MembersInit, NoRow, Idle
<1>1. MembersTypeOK
  BY DEF MembersTypeOK
<1>2. Decisions
  BY DEF Decisions, Registered
<1>3. MemberRecordsAgree
  <2>1. \A m \in NationalIds : ~Registered(m)
    BY DEF Registered
  <2>2. 1 .. next_member_number - 1 = {}
    OBVIOUS
  <2>3. QED
    BY <2>1, <2>2 DEF MemberRecordsAgree, NumbersConsecutive, HistoryMatchesStatus, Registered
<1>4. EligibilityHeld
  BY DEF EligibilityHeld, HeldForShare
<1>5. QED
  BY <1>1, <1>2, <1>3, <1>4 DEF MembersInv

\* The row of no member, and no history, is touched.
LEMMA OnlyCallsChange ==
    ASSUME MembersInv, MembersTypeOK', Decisions',
           UNCHANGED <<members, next_member_number, history>>,
           \A m \in NationalIds : profiles'[m] = "none" <=> profiles[m] = "none",
           \A m \in NationalIds : HeldForShare(m)' => IsActive(m)
    PROVE  MembersInv'
<1>1. NumbersConsecutive'
  BY DEF MembersInv, MemberRecordsAgree, NumbersConsecutive, Registered
<1>2. HistoryMatchesStatus'
  BY DEF MembersInv, MemberRecordsAgree, HistoryMatchesStatus
<1>3. EligibilityHeld'
  BY DEF EligibilityHeld, IsActive, Live, Registered
<1>4. QED
  BY <1>1, <1>2, <1>3 DEF MembersInv, MemberRecordsAgree

-----------------------------------------------------------------------------
(* One lemma per kind of step.                                             *)

\* Any open transaction that is not a lock, begun or ended.
LEMMA BeginKeeps ==
    ASSUME MembersInv, NEW c \in MemberCalls,
           NEW call \in [op : {"idle", "register", "status", "close", "eligible"},
                         who : SUBSET NationalIds, from : Statuses \cup {"none"},
                         to : Statuses \cup {"none"}],
           call.op \in {"status", "close"} => <<call.from, call.to>> \in statusTransitions,
           call.op = "eligible" => \A m \in call.who : IsActive(m),
           memberCalls' = [memberCalls EXCEPT ![c] = call],
           UNCHANGED <<members, profiles, next_member_number, history>>
    PROVE  MembersInv'
<1>1. MembersTypeOK'
  BY DEF MembersInv, MembersTypeOK
<1>2. Decisions'
  BY DEF MembersInv, MembersTypeOK, Decisions, Registered
<1>3. \A m \in NationalIds : HeldForShare(m)' => IsActive(m)
  BY DEF MembersInv, MembersTypeOK, EligibilityHeld, HeldForShare
<1>4. QED
  BY <1>1, <1>2, <1>3, OnlyCallsChange

LEMMA CreateKeeps ==
    ASSUME MembersInv, NEW c \in MemberCalls, CreateMember(c)
    PROVE  MembersInv'
<1>1. PICK m \in memberCalls[c].who :
          /\ next_member_number' = NumberAfter(Registered(m))
          /\ IF Registered(m) THEN UNCHANGED <<members, profiles>>
             ELSE /\ members' = [members EXCEPT ![m] =
                        [number |-> next_member_number, status |-> "pending",
                         is_deleted |-> FALSE]]
                  /\ profiles' = [profiles EXCEPT ![m] = "filed"]
  BY DEF CreateMember
<1>2. memberCalls' = [memberCalls EXCEPT ![c] = Idle] /\ UNCHANGED history
  BY DEF CreateMember, End
<1>3. m \in NationalIds
  BY <1>1 DEF MembersInv, MembersTypeOK
<1>4. CASE Registered(m)
  <2>1. UNCHANGED <<members, profiles, next_member_number, history>>
    BY <1>1, <1>2, <1>4 DEF NumberAfter
  <2>2. Idle \in [op : {"idle", "register", "status", "close", "eligible"},
                  who : SUBSET NationalIds, from : Statuses \cup {"none"},
                  to : Statuses \cup {"none"}]
    BY DEF Idle
  <2>3. Idle.op = "idle"
    BY DEF Idle
  <2>4. QED
    BY <1>2, <2>1, <2>2, <2>3, BeginKeeps
<1>5. CASE ~Registered(m)
  <2> DEFINE n == next_member_number
  <2>1. n \in Nat \ {0} /\ next_member_number' = n + 1
    BY <1>1, <1>5 DEF NumberAfter, MembersInv, MembersTypeOK
  <2>2. members' = [members EXCEPT ![m] =
            [number |-> n, status |-> "pending", is_deleted |-> FALSE]]
    BY <1>1, <1>5
  <2>3. profiles' = [profiles EXCEPT ![m] = "filed"]
    BY <1>1, <1>5
  <2> HIDE DEF n
  <2>4. MembersTypeOK'
    BY <1>2, <1>3, <2>1, <2>2, <2>3 DEF MembersInv, MembersTypeOK, Statuses, Idle
  <2>5. /\ Registered(m)' /\ members'[m].number = n /\ ~members'[m].is_deleted
        /\ \A x \in NationalIds \ {m} :
               members'[x] = members[x] /\ (Registered(x)' <=> Registered(x))
    BY <1>3, <2>1, <2>2 DEF MembersInv, MembersTypeOK, Registered
  <2>6. Decisions'
    BY <1>2, <1>3, <2>5 DEF MembersInv, MembersTypeOK, Decisions, Idle
  <2>7. NumbersConsecutive'
    <3>1. {members[x].number : x \in {y \in NationalIds : Registered(y)}} = 1 .. n - 1
      BY DEF MembersInv, MemberRecordsAgree, NumbersConsecutive, n
    <3>2. {members'[x].number : x \in {y \in NationalIds : Registered(y)'}}
              = (1 .. n - 1) \cup {n}
      BY <1>3, <1>5, <2>5, <3>1
    <3>3. (1 .. n - 1) \cup {n} = 1 .. next_member_number' - 1
      BY <2>1
    <3>4. \A x \in NationalIds : Registered(x) => members[x].number # n
      BY <2>1, <3>1
    <3>5. ASSUME NEW x \in NationalIds, NEW y \in NationalIds, Registered(x)',
                 members'[x].number = members'[y].number
          PROVE  x = y
      <4>1. members'[y].number # 0
        BY <3>5 DEF Registered
      <4>2. Registered(y)'
        BY <4>1 DEF Registered
      <4>3. CASE x # m /\ y # m
        BY <2>5, <3>5, <4>3 DEF MembersInv, MemberRecordsAgree, NumbersConsecutive
      <4>4. CASE x = m \/ y = m
        BY <1>5, <2>5, <3>4, <3>5, <4>2, <4>4
      <4>5. QED
        BY <4>3, <4>4
    <3>6. \A x \in NationalIds : Registered(x)' <=> profiles'[x] # "none"
      BY <1>3, <2>3, <2>5 DEF MembersInv, MembersTypeOK, MemberRecordsAgree, NumbersConsecutive
    <3>7. QED
      BY <3>2, <3>3, <3>5, <3>6 DEF NumbersConsecutive
  <2>8. HistoryMatchesStatus'
    BY <1>2, <1>3, <1>5, <2>5
       DEF MembersInv, Decisions, MemberRecordsAgree, HistoryMatchesStatus
  <2>9. EligibilityHeld'
    <3>1. \A x \in NationalIds : HeldForShare(x)' => HeldForShare(x)
      BY <1>2 DEF HeldForShare, Idle, MembersInv, MembersTypeOK
    <3>2. ~HeldForShare(m)
      BY <1>3, <1>5 DEF MembersInv, EligibilityHeld, IsActive, Live
    <3>3. QED
      BY <1>3, <2>5, <3>1, <3>2 DEF MembersInv, EligibilityHeld, IsActive, Live, Registered
  <2>10. QED
    BY <2>4, <2>6, <2>7, <2>8, <2>9 DEF MembersInv, MemberRecordsAgree
<1>6. QED
  BY <1>4, <1>5

LEMMA ApplyKeeps ==
    ASSUME MembersInv, NEW c \in MemberCalls, NEW op \in {"status", "close"},
           NEW deleted \in BOOLEAN, Apply(c, op, deleted)
    PROVE  MembersInv'
<1> DEFINE call == memberCalls[c]
<1>1. PICK m \in call.who :
          IF StillThere(m)
            THEN /\ MayUpdate(m)
                 /\ members' = [members EXCEPT ![m].status = WrittenStatus(call),
                                               ![m].is_deleted = deleted]
                 /\ history' = [history EXCEPT ![m] =
                        RecordMemberStatusTransition(@, call)]
            ELSE UNCHANGED <<members, history>>
  BY DEF Apply
<1>2. /\ call.op = op
      /\ memberCalls' = [memberCalls EXCEPT ![c] = Idle]
      /\ UNCHANGED <<profiles, next_member_number>>
  BY DEF Apply, End
<1>3. m \in NationalIds
  BY <1>1 DEF MembersInv, MembersTypeOK
<1>4. Idle \in [op : {"idle", "register", "status", "close", "eligible"},
                who : SUBSET NationalIds, from : Statuses \cup {"none"},
                to : Statuses \cup {"none"}] /\ Idle.op = "idle"
  BY DEF Idle
<1>5. CASE ~StillThere(m)
  BY <1>1, <1>2, <1>4, <1>5, BeginKeeps
<1>6. CASE StillThere(m)
  <2> DEFINE row == <<call.from, call.to>>
  <2>1. row \in statusTransitions /\ call.to \in Statuses
    BY <1>2 DEF MembersInv, Decisions, statusTransitions, Statuses
  <2>2. history' = [history EXCEPT ![m] = Append(history[m], row)]
    BY <1>1, <1>6 DEF RecordMemberStatusTransition
  <2>3. members' = [members EXCEPT ![m].status = call.to, ![m].is_deleted = deleted]
    BY <1>1, <1>6 DEF WrittenStatus
  <2>4. Live(m) /\ ~HeldForShare(m)
    BY <1>1, <1>6 DEF StillThere, MayUpdate
  <2> HIDE DEF row, call
  <2>5. MembersTypeOK'
    <3>1. members' \in [NationalIds -> [number : Nat, status : Statuses \cup {"none"},
                                        is_deleted : BOOLEAN]]
      <4> DEFINE M == [members EXCEPT ![m].status = call.to]
                 MemberRows == [number : Nat, status : Statuses \cup {"none"}, is_deleted : BOOLEAN]
      <4>1. members \in [NationalIds -> MemberRows]
        BY DEF MembersInv, MembersTypeOK
      <4>2. M \in [NationalIds -> MemberRows]
        BY <1>3, <2>1, <4>1
      <4>3. members' = [M EXCEPT ![m].is_deleted = deleted]
        BY <2>3
      <4> HIDE DEF M
      <4>4. QED
        BY <1>3, <4>2, <4>3
    <3>2. history' \in [NationalIds -> Seq(statusTransitions)]
      <4>1. history[m] \in Seq(statusTransitions)
        BY <1>3 DEF MembersInv, MembersTypeOK
      <4>2. Append(history[m], row) \in Seq(statusTransitions)
        BY <2>1, <4>1
      <4>3. QED
        BY <1>3, <2>2, <4>2 DEF MembersInv, MembersTypeOK
    <3>3. QED
      BY <1>2, <1>4, <3>1, <3>2 DEF MembersInv, MembersTypeOK
  <2>6. /\ members'[m].number = members[m].number /\ members'[m].status = call.to
        /\ \A x \in NationalIds \ {m} : members'[x] = members[x]
    BY <1>3, <2>3 DEF MembersInv, MembersTypeOK
  <2>7. \A x \in NationalIds : members'[x].number = members[x].number
    BY <2>6
  <2>8. \A x \in NationalIds : Registered(x)' <=> Registered(x)
    BY <2>7 DEF Registered
  <2>9. Registered(m)
    BY <2>4 DEF Live
  <2>10. Decisions'
    <3>1. \A x \in NationalIds \ {m} : history'[x] = history[x]
      BY <2>2 DEF MembersInv, MembersTypeOK
    <3>2. \A x \in NationalIds : ~Registered(x)' => history'[x] = << >> /\ ~members'[x].is_deleted
      BY <2>6, <2>8, <2>9, <3>1 DEF MembersInv, Decisions
    <3>3. \A d \in MemberCalls : memberCalls'[d].op \in {"status", "close"} =>
              <<memberCalls'[d].from, memberCalls'[d].to>> \in statusTransitions
      BY <1>2, <1>4 DEF MembersInv, MembersTypeOK, Decisions
    <3>4. QED
      BY <3>2, <3>3 DEF Decisions
  <2>11. NumbersConsecutive'
    <3>1. {members'[x].number : x \in {y \in NationalIds : Registered(y)'}}
              = {members[x].number : x \in {y \in NationalIds : Registered(y)}}
      BY <2>7, <2>8
    <3>2. QED
      BY <1>2, <2>7, <2>8, <3>1 DEF MembersInv, MemberRecordsAgree, NumbersConsecutive
  <2>12. HistoryMatchesStatus'
    <3>1. history[m] \in Seq(statusTransitions) /\ history'[m] = Append(history[m], row)
      BY <1>3, <2>2 DEF MembersInv, MembersTypeOK
    <3>2. history'[m][Len(history'[m])] = row
      BY <2>1, <3>1
    <3>3. history'[m][Len(history'[m])][2] = members'[m].status
      BY <2>6, <3>2 DEF row
    <3>4. \A x \in NationalIds \ {m} : history'[x] = history[x]
      BY <2>2 DEF MembersInv, MembersTypeOK
    <3>5. QED
      BY <2>6, <3>3, <3>4 DEF MembersInv, MemberRecordsAgree, HistoryMatchesStatus
  <2>13. EligibilityHeld'
    <3>1. \A x \in NationalIds : HeldForShare(x)' => HeldForShare(x)
      BY <1>2, <1>4 DEF HeldForShare, MembersInv, MembersTypeOK
    <3>2. QED
      BY <2>4, <2>6, <3>1 DEF MembersInv, EligibilityHeld, IsActive, Live, Registered
  <2>14. QED
    BY <2>5, <2>10, <2>11, <2>12, <2>13 DEF MembersInv, MemberRecordsAgree
<1>7. QED
  BY <1>5, <1>6

LEMMA NextKeepsMembersInv == MembersInv /\ [MembersNext]_memberVars => MembersInv'
<1> SUFFICES ASSUME MembersInv, [MembersNext]_memberVars PROVE MembersInv'
  OBVIOUS
<1>1. ASSUME NEW c \in MemberCalls, NEW m \in NationalIds, IncrementMemberNumber(c, m)
      PROVE  MembersInv'
  <2> DEFINE call == [op |-> "register", who |-> {m}, from |-> "none", to |-> "pending"]
  <2>1. memberCalls' = [memberCalls EXCEPT ![c] = call]
        /\ UNCHANGED <<members, profiles, next_member_number, history>>
    BY <1>1 DEF IncrementMemberNumber, Begin
  <2>2. call \in [op : {"idle", "register", "status", "close", "eligible"},
                  who : SUBSET NationalIds, from : Statuses \cup {"none"},
                  to : Statuses \cup {"none"}] /\ call.op = "register"
    BY DEF Statuses
  <2> HIDE DEF call
  <2>3. QED
    BY <2>1, <2>2, BeginKeeps
<1>2. ASSUME NEW c \in MemberCalls, CreateMember(c) PROVE MembersInv'
  BY <1>2, CreateKeeps
<1>3. ASSUME NEW m \in NationalIds, UpdateMemberProfile(m) PROVE MembersInv'
  <2>1. profiles[m] # "none" /\ profiles' = [profiles EXCEPT ![m] = "amended"]
        /\ UNCHANGED <<members, next_member_number, history, memberCalls>>
    BY <1>3 DEF UpdateMemberProfile
  <2>2. \A x \in NationalIds : profiles'[x] = "none" <=> profiles[x] = "none"
    BY <2>1 DEF MembersInv, MembersTypeOK
  <2>3. MembersTypeOK'
    BY <2>1 DEF MembersInv, MembersTypeOK
  <2>4. Decisions'
    BY <2>1 DEF MembersInv, Decisions, Registered
  <2>5. \A x \in NationalIds : HeldForShare(x)' => IsActive(x)
    BY <2>1 DEF MembersInv, EligibilityHeld, HeldForShare
  <2>6. QED
    BY <2>1, <2>2, <2>3, <2>4, <2>5, OnlyCallsChange
<1>4. ASSUME NEW c \in MemberCalls, NEW m \in NationalIds, NEW op \in {"status", "close"},
             NEW to \in Statuses, <<members[m].status, to>> \in statusTransitions,
             Begin(c, [op |-> op, who |-> {m}, from |-> members[m].status, to |-> to]),
             UNCHANGED <<members, profiles, next_member_number, history>>
      PROVE  MembersInv'
  <2> DEFINE call == [op |-> op, who |-> {m}, from |-> members[m].status, to |-> to]
  <2>1. memberCalls' = [memberCalls EXCEPT ![c] = call]
    BY <1>4 DEF Begin
  <2>2. call \in [op : {"idle", "register", "status", "close", "eligible"},
                  who : SUBSET NationalIds, from : Statuses \cup {"none"},
                  to : Statuses \cup {"none"}]
    BY DEF MembersInv, MembersTypeOK
  <2>3. <<call.from, call.to>> \in statusTransitions /\ call.op # "eligible"
    BY <1>4
  <2> HIDE DEF call
  <2>4. QED
    BY <1>4, <2>1, <2>2, <2>3, BeginKeeps
<1>5. ASSUME NEW c \in MemberCalls, NEW m \in NationalIds, NEW to \in Statuses,
             ReadStatus(c, m, to)
      PROVE  MembersInv'
  BY <1>4, <1>5 DEF ReadStatus
<1>6. ASSUME NEW c \in MemberCalls, NEW m \in NationalIds, ReadToClose(c, m)
      PROVE  MembersInv'
  <2>1. "closed" \in Statuses
    BY DEF Statuses
  <2>2. QED
    BY <1>4, <1>6, <2>1 DEF ReadToClose
<1>7. ASSUME NEW c \in MemberCalls, UpdateMemberStatus(c) \/ DeactivateMember(c)
      PROVE  MembersInv'
  BY <1>7, ApplyKeeps DEF UpdateMemberStatus, DeactivateMember
<1>8. ASSUME NEW c \in MemberCalls, NEW S \in SUBSET NationalIds,
             LockActiveMembersInBranch(c, S)
      PROVE  MembersInv'
  <2> DEFINE call == [op |-> "eligible", who |-> {m \in S : IsActive(m)},
                      from |-> "none", to |-> "none"]
  <2>1. memberCalls' = [memberCalls EXCEPT ![c] = call]
        /\ UNCHANGED <<members, profiles, next_member_number, history>>
    BY <1>8 DEF LockActiveMembersInBranch, Begin
  <2>2. call \in [op : {"idle", "register", "status", "close", "eligible"},
                  who : SUBSET NationalIds, from : Statuses \cup {"none"},
                  to : Statuses \cup {"none"}]
    OBVIOUS
  <2>3. call.op = "eligible" /\ \A m \in call.who : IsActive(m)
    OBVIOUS
  <2> HIDE DEF call
  <2>4. QED
    BY <2>1, <2>2, <2>3, BeginKeeps
<1>9. ASSUME NEW c \in MemberCalls, EndMemberTx(c) PROVE MembersInv'
  <2>1. Idle \in [op : {"idle", "register", "status", "close", "eligible"},
                  who : SUBSET NationalIds, from : Statuses \cup {"none"},
                  to : Statuses \cup {"none"}] /\ Idle.op = "idle"
    BY DEF Idle
  <2>2. QED
    BY <1>9, <2>1, BeginKeeps DEF EndMemberTx, End
<1>10. CASE UNCHANGED memberVars
  <2>1. UNCHANGED <<members, profiles, next_member_number, history, memberCalls>>
    BY <1>10 DEF memberVars
  <2>2. MembersTypeOK' /\ Decisions'
    BY <2>1 DEF MembersInv, MembersTypeOK, Decisions, Registered
  <2>3. \A x \in NationalIds : HeldForShare(x)' => IsActive(x)
    BY <2>1 DEF MembersInv, EligibilityHeld, HeldForShare
  <2>4. QED
    BY <2>1, <2>2, <2>3, OnlyCallsChange
<1>11. QED
  BY <1>1, <1>2, <1>3, <1>5, <1>6, <1>7, <1>8, <1>9, <1>10 DEF MembersNext

-----------------------------------------------------------------------------
(* The theorems.                                                           *)

LEMMA MembersInvHolds == MembersSpec => []MembersInv
BY InitMembersInv, NextKeepsMembersInv, PTL DEF MembersSpec

\* Whatever registrations and status changes overlap, members are numbered
\* without gap or repeat, each has one profile, and the last history row of
\* RecordMemberStatusTransition names the status the member has.
THEOREM RecordsAgree == MembersSpec => []MemberRecordsAgree
<1>1. MembersInv => MemberRecordsAgree
  BY DEF MembersInv
<1>2. QED
  BY <1>1, MembersInvHolds, PTL

\* LockActiveMembersInTx holds: a member found active stays active until the
\* transaction that asked has ended.
THEOREM EligibilityIsHeld == MembersSpec => []EligibilityHeld
<1>1. MembersInv => EligibilityHeld
  BY DEF MembersInv
<1>2. QED
  BY <1>1, MembersInvHolds, PTL

\* A row that CloseMember has deleted is never written again, not even by a
\* status change that read the member before.
THEOREM DeactivationStays == MembersSpec => DeactivationIsFinal
<1>1. MembersInv /\ [MembersNext]_memberVars
        => \A m \in NationalIds : members[m].is_deleted => members'[m] = members[m]
  <2> SUFFICES ASSUME MembersInv, [MembersNext]_memberVars,
                      NEW m \in NationalIds, members[m].is_deleted
               PROVE  members'[m] = members[m]
    OBVIOUS
  <2>1. Registered(m) /\ ~Live(m)
    BY DEF MembersInv, Decisions, Live
  <2>2. ASSUME NEW c \in MemberCalls, CreateMember(c) PROVE members'[m] = members[m]
    BY <2>1, <2>2 DEF CreateMember, MembersInv, MembersTypeOK
  <2>3. ASSUME NEW c \in MemberCalls, NEW op, NEW deleted, Apply(c, op, deleted)
        PROVE  members'[m] = members[m]
    <3>1. PICK x \in memberCalls[c].who :
              IF StillThere(x)
                THEN members' = [members EXCEPT ![x].status = WrittenStatus(memberCalls[c]),
                                                ![x].is_deleted = deleted]
                ELSE UNCHANGED members
      BY <2>3 DEF Apply
    <3>2. QED
      BY <2>1, <3>1 DEF StillThere, MembersInv, MembersTypeOK
  <2>4. ASSUME UNCHANGED members PROVE members'[m] = members[m]
    BY <2>4
  <2>5. QED
    BY <2>2, <2>3, <2>4
       DEF MembersNext, IncrementMemberNumber, UpdateMemberProfile, ReadStatus, ReadToClose,
           UpdateMemberStatus, DeactivateMember, LockActiveMembersInBranch, EndMemberTx,
           memberVars
<1>2. QED
  BY <1>1, MembersInvHolds, PTL DEF MembersSpec, DeactivationIsFinal

-----------------------------------------------------------------------------
(* When a closed member stays closed.  The decision and the update of a    *)
(* status change are two statements without a lock in between; one change  *)
(* at a time would be enough.                                              *)

ChangesStatus(c, m) == memberCalls[c].op \in {"status", "close"} /\ m \in memberCalls[c].who

\* No two status changes of one member are open at once.
ChangesDoNotOverlap ==
    \A c, d \in MemberCalls : \A m \in NationalIds :
        ChangesStatus(c, m) /\ ChangesStatus(d, m) => c = d

\* What an open status change has read is still so.
ReadsStand ==
    \A c \in MemberCalls, m \in NationalIds :
        ChangesStatus(c, m) => Live(m) /\ members[m].status = memberCalls[c].from

LEMMA ApplyStands ==
  ASSUME MembersInv, ChangesDoNotOverlap, ReadsStand, ClosedIsTerminal,
         NEW c \in MemberCalls, NEW op \in {"status", "close"}, NEW deleted,
         Apply(c, op, deleted)
  PROVE  ReadsStand' /\ ClosedIsTerminal'
<1> DEFINE call == memberCalls[c]
           row  == <<call.from, call.to>>
<1>1. memberCalls' = [memberCalls EXCEPT ![c] = Idle] /\ call.op = op
  BY DEF Apply, End
<1>2. /\ memberCalls'[c] = Idle
      /\ \A d \in MemberCalls \ {c} : memberCalls'[d] = memberCalls[d]
  BY <1>1 DEF MembersInv, MembersTypeOK
<1>3. PICK m \in call.who :
          IF StillThere(m)
            THEN /\ members' = [members EXCEPT ![m].status = call.to, ![m].is_deleted = deleted]
                 /\ history' = [history EXCEPT ![m] = Append(@, row)]
            ELSE UNCHANGED <<members, history>>
  BY DEF Apply, WrittenStatus, RecordMemberStatusTransition
<1>4. m \in NationalIds
  BY DEF MembersInv, MembersTypeOK
<1>5. ChangesStatus(c, m)
  BY <1>1 DEF ChangesStatus
<1>6. Live(m) /\ members[m].status = call.from
  BY <1>4, <1>5 DEF ReadsStand
<1>7. row \in statusTransitions
  BY <1>1 DEF MembersInv, Decisions
<1>8. call.from # "closed"
  BY <1>7 DEF statusTransitions
<1> HIDE DEF call, row
<1>9. /\ members' = [members EXCEPT ![m].status = call.to, ![m].is_deleted = deleted]
      /\ history' = [history EXCEPT ![m] = Append(@, row)]
  BY <1>3, <1>6 DEF StillThere
<1>10. /\ \A x \in NationalIds \ {m} : members'[x] = members[x] /\ history'[x] = history[x]
       /\ members'[m].status = call.to /\ history'[m] = Append(history[m], row)
  BY <1>4, <1>9 DEF MembersInv, MembersTypeOK
<1>11. ReadsStand'
  <2> SUFFICES ASSUME NEW d \in MemberCalls, NEW x \in NationalIds, ChangesStatus(d, x)'
               PROVE  Live(x)' /\ members'[x].status = memberCalls'[d].from
    BY DEF ReadsStand
  <2>1. d # c
    BY <1>2 DEF ChangesStatus, Idle
  <2>2. memberCalls'[d] = memberCalls[d] /\ ChangesStatus(d, x)
    BY <1>2, <2>1 DEF ChangesStatus
  <2>3. x # m
    BY <1>4, <1>5, <2>1, <2>2 DEF ChangesDoNotOverlap
  <2> QED BY <1>10, <2>2, <2>3 DEF ReadsStand, Live, Registered
<1>12. ClosedIsTerminal'
  <2> SUFFICES ASSUME NEW x \in NationalIds, NEW i \in 1 .. Len(history'[x]),
                      history'[x][i][2] = "closed"
               PROVE  members'[x].status = "closed"
    BY DEF ClosedIsTerminal
  <2>1. CASE x # m
    BY <1>10, <2>1 DEF ClosedIsTerminal
  <2>2. CASE x = m
    <3>1. history[m] \in Seq(statusTransitions)
      BY <1>4 DEF MembersInv, MembersTypeOK
    <3>2. \A j \in 1 .. Len(history[m]) : history[m][j][2] # "closed"
      BY <1>4, <1>6, <1>8 DEF ClosedIsTerminal
    <3>3. /\ Len(history'[m]) = Len(history[m]) + 1
          /\ \A j \in 1 .. Len(history[m]) : history'[m][j] = history[m][j]
          /\ history'[m][Len(history[m]) + 1] = row
      BY <1>7, <1>10, <3>1
    <3>4. i = Len(history[m]) + 1
      BY <2>2, <3>1, <3>2, <3>3
    <3>5. row[2] = call.to
      BY DEF row
    <3> QED BY <1>10, <2>2, <3>3, <3>4, <3>5
  <2> QED BY <2>1, <2>2
<1> QED BY <1>11, <1>12

\* A call that begins or ends without writing a member.
LEMMA QuietStands ==
  ASSUME ReadsStand, ClosedIsTerminal, UNCHANGED <<members, history>>,
         \A c \in MemberCalls, m \in NationalIds :
             ChangesStatus(c, m)' =>
                 \/ memberCalls'[c] = memberCalls[c]
                 \/ Live(m) /\ members[m].status = memberCalls'[c].from
  PROVE  ReadsStand' /\ ClosedIsTerminal'
<1>1. ReadsStand'
  <2> SUFFICES ASSUME NEW c \in MemberCalls, NEW m \in NationalIds, ChangesStatus(c, m)'
               PROVE  Live(m)' /\ members'[m].status = memberCalls'[c].from
    BY DEF ReadsStand
  <2>1. Live(m)' <=> Live(m)
    BY DEF Live, Registered
  <2>2. CASE memberCalls'[c] = memberCalls[c]
    BY <2>1, <2>2 DEF ReadsStand, ChangesStatus
  <2> QED BY <2>1, <2>2
<1>2. ClosedIsTerminal'
  BY DEF ClosedIsTerminal
<1> QED BY <1>1, <1>2

LEMMA CallsStand ==
  ASSUME MembersInv, ReadsStand, ClosedIsTerminal, UNCHANGED <<members, history>>,
         NEW c \in MemberCalls, NEW call, memberCalls' = [memberCalls EXCEPT ![c] = call],
         call.op \in {"status", "close"} =>
             \A m \in call.who : Live(m) /\ members[m].status = call.from
  PROVE  ReadsStand' /\ ClosedIsTerminal'
<1>1. memberCalls'[c] = call /\ \A d \in MemberCalls \ {c} : memberCalls'[d] = memberCalls[d]
  BY DEF MembersInv, MembersTypeOK
<1> QED BY <1>1, QuietStands DEF ChangesStatus

\* RegisterMember writes a row that was not there, so nobody has read it.
LEMMA CreateStands ==
  ASSUME MembersInv, ReadsStand, ClosedIsTerminal, NEW c \in MemberCalls, CreateMember(c)
  PROVE  ReadsStand' /\ ClosedIsTerminal'
<1>1. PICK m \in memberCalls[c].who :
          IF Registered(m) THEN UNCHANGED members
          ELSE members' = [members EXCEPT ![m] = [number |-> next_member_number,
                                                  status |-> "pending", is_deleted |-> FALSE]]
  BY Zenon DEF CreateMember
<1>2. m \in NationalIds
  BY DEF MembersInv, MembersTypeOK
<1>3. \A x \in NationalIds : Registered(x) => members'[x] = members[x]
  BY <1>1, <1>2 DEF MembersInv, MembersTypeOK
<1>4. history' = history /\ memberCalls' = [memberCalls EXCEPT ![c] = Idle]
  BY DEF CreateMember, End
<1>5. /\ memberCalls'[c] = Idle
      /\ \A d \in MemberCalls \ {c} : memberCalls'[d] = memberCalls[d]
  BY <1>4 DEF MembersInv, MembersTypeOK
<1>6. ReadsStand'
  <2> SUFFICES ASSUME NEW d \in MemberCalls, NEW x \in NationalIds, ChangesStatus(d, x)'
               PROVE  Live(x)' /\ members'[x].status = memberCalls'[d].from
    BY DEF ReadsStand
  <2>1. memberCalls'[d] = memberCalls[d]
    BY <1>5 DEF ChangesStatus, Idle
  <2>2. Live(x) /\ members[x].status = memberCalls'[d].from
    BY <2>1 DEF ReadsStand, ChangesStatus
  <2>3. members'[x] = members[x]
    BY <1>3, <2>2 DEF Live
  <2> QED BY <2>2, <2>3 DEF Live, Registered
<1>7. ClosedIsTerminal'
  <2> SUFFICES ASSUME NEW x \in NationalIds, NEW i \in 1 .. Len(history[x]),
                      history[x][i][2] = "closed"
               PROVE  members'[x].status = "closed"
    BY <1>4 DEF ClosedIsTerminal
  <2>1. history[x] # << >>
    OBVIOUS
  <2>2. Registered(x)
    BY <2>1 DEF MembersInv, Decisions
  <2> QED BY <1>3, <2>2 DEF ClosedIsTerminal
<1> QED BY <1>6, <1>7

\* "`Closed` is terminal. A closed member must not reopen": so it is as long as
\* no two of UpdateMemberStatus and CloseMember are under way for one member,
\* whatever registrations, profiles and eligibility locks overlap with them.
THEOREM OrderlyClosuresAreFinal ==
  MembersSpec /\ []ChangesDoNotOverlap => []ClosedIsTerminal
<1>1. MembersInit => ReadsStand /\ ClosedIsTerminal
  BY DEF MembersInit, ReadsStand, ChangesStatus, Idle, ClosedIsTerminal
<1>2. MembersInv /\ ChangesDoNotOverlap /\ (ReadsStand /\ ClosedIsTerminal)
        /\ [MembersNext]_memberVars => (ReadsStand /\ ClosedIsTerminal)'
  <2> SUFFICES ASSUME MembersInv, ChangesDoNotOverlap, ReadsStand, ClosedIsTerminal,
                      [MembersNext]_memberVars
               PROVE  ReadsStand' /\ ClosedIsTerminal'
    OBVIOUS
  <2>1. ASSUME NEW c \in MemberCalls, NEW m \in NationalIds, IncrementMemberNumber(c, m)
        PROVE  ReadsStand' /\ ClosedIsTerminal'
    BY <2>1, CallsStand DEF IncrementMemberNumber, Begin
  <2>2. ASSUME NEW c \in MemberCalls, CreateMember(c)
        PROVE  ReadsStand' /\ ClosedIsTerminal'
    BY <2>2, CreateStands
  <2>3. ASSUME \/ UNCHANGED memberVars
               \/ \E m \in NationalIds : UpdateMemberProfile(m)
        PROVE  ReadsStand' /\ ClosedIsTerminal'
    <3>1. UNCHANGED <<members, history, memberCalls>>
      BY <2>3 DEF memberVars, UpdateMemberProfile
    <3> QED BY <3>1, QuietStands
  <2>4. ASSUME NEW c \in MemberCalls, NEW m \in NationalIds, NEW to \in Statuses,
               ReadStatus(c, m, to)
        PROVE  ReadsStand' /\ ClosedIsTerminal'
    BY <2>4, CallsStand DEF ReadStatus, Begin
  <2>5. ASSUME NEW c \in MemberCalls, NEW m \in NationalIds, ReadToClose(c, m)
        PROVE  ReadsStand' /\ ClosedIsTerminal'
    BY <2>5, CallsStand DEF ReadToClose, Begin
  <2>6. ASSUME NEW c \in MemberCalls, UpdateMemberStatus(c) \/ DeactivateMember(c)
        PROVE  ReadsStand' /\ ClosedIsTerminal'
    BY <2>6, ApplyStands DEF UpdateMemberStatus, DeactivateMember
  <2>7. ASSUME NEW c \in MemberCalls, NEW S \in SUBSET NationalIds,
               LockActiveMembersInBranch(c, S)
        PROVE  ReadsStand' /\ ClosedIsTerminal'
    <3> DEFINE call == [op |-> "eligible", who |-> {m \in S : IsActive(m)},
                        from |-> "none", to |-> "none"]
    <3>1. /\ memberCalls' = [memberCalls EXCEPT ![c] = call] /\ call.op = "eligible"
          /\ UNCHANGED <<members, history>>
      BY <2>7 DEF LockActiveMembersInBranch, Begin
    <3> HIDE DEF call
    <3> QED BY <3>1, CallsStand
  <2>8. ASSUME NEW c \in MemberCalls, EndMemberTx(c)
        PROVE  ReadsStand' /\ ClosedIsTerminal'
    <3>1. /\ memberCalls' = [memberCalls EXCEPT ![c] = Idle] /\ Idle.op = "idle"
          /\ UNCHANGED <<members, history>>
      BY <2>8 DEF EndMemberTx, End, Idle
    <3> QED BY <3>1, CallsStand
  <2> QED
    BY <2>1, <2>2, <2>3, <2>4, <2>5, <2>6, <2>7, <2>8 DEF MembersNext
<1> QED
  BY <1>1, <1>2, MembersInvHolds, PTL DEF MembersSpec

-----------------------------------------------------------------------------
(* Cash custody.                                                           *)

\* What an open call has read still holds: its rows are locked, and a recorded
\* deposit keeps its recorder.
CallFits(k) ==
    /\ k.op \in {"idle", "CreateCashContribution", "CloseCashierSession", "AcceptCashHandover",
                 "RecordCashDeposit", "VerifyCashDeposit"}
    /\ k.op \in {"idle", "VerifyCashDeposit"} => k.on = {}
    /\ k.op = "CreateCashContribution" =>
           k.key \in Keys /\ \E s \in Sessions : k.on = {s} /\ sessions[s].status = "open"
    /\ k.op = "CloseCashierSession" =>
           \E s \in Sessions : /\ k.on = {s} /\ sessions[s].status = "open"
                               /\ k.expected = SumCashReceiptsBySession(s)
    /\ k.op = "AcceptCashHandover" =>
           /\ k.by \in StaffIds
           /\ \E s \in Sessions : /\ k.on = {s} /\ sessions[s].status = "closed"
                                  /\ sessions[s].cashier_id # k.by
    /\ k.op = "RecordCashDeposit" =>
           /\ k.key \in BankRefs /\ SlipMatches(k.amount, k.on) /\ k.amount \in Slips
           /\ \A s \in k.on : sessions[s].status = "handed_over"
    /\ k.op = "VerifyCashDeposit" =>
           /\ k.key \in BankRefs /\ deposits[k.key].status # "none"
           /\ deposits[k.key].recorded_by # k.by

RowsHeldOnce == \A c, d \in CashCalls : c # d => cashCalls[c].on \cap cashCalls[d].on = {}

\* No slip names half a quantum or more beyond a whole quantum.
WholeSlips == \A x \in Slips : x % 10 < 5

\* What a deposit may hold beyond the count.
Slack == IF WholeSlips THEN {0} ELSE {0, 1}

\* DepositsAccountForCash, deposit by deposit.
DepositsHold ==
    /\ \A s \in Sessions :
           sessions[s].status = "deposited" <=> \E r \in BankRefs : s \in deposits[r].sessions
    /\ \A r, q \in BankRefs : r # q => deposits[r].sessions \cap deposits[q].sessions = {}
    /\ \A r \in BankRefs : deposits[r].amount - CountedIn(deposits[r].sessions) \in Slack

CashInv ==
    /\ CashTypeOK
    /\ \A c \in CashCalls : CallFits(cashCalls[c])
    /\ RowsHeldOnce
    /\ SessionTotalsExact
    /\ DepositsHold
    /\ TwoPersonCustody

SessionRows == [status : {"none", "open", "closed", "handed_over", "deposited"},
                cashier_id : StaffIds \cup {Nobody}, expected : Nat, counted : Nat,
                variance_reason : BOOLEAN, handed_over_to : StaffIds \cup {Nobody}]
ReceiptRows == [session : SUBSET Sessions, amount : Nat]
DepositRows == [status : {"none", "recorded", "verified"}, amount : Nat,
                sessions : SUBSET Sessions, recorded_by : StaffIds \cup {Nobody},
                verified_by : StaffIds \cup {Nobody}]
CallRows    == [op : DOMAIN permissionForMethod \cup {"idle"}, by : StaffIds \cup {Nobody},
                on : SUBSET Sessions, key : Keys \cup BankRefs \cup {"none"}, amount : Nat,
                expected : Nat, reason : BOOLEAN]

\* The column keeps what the service compared, or one quantum more.
LEMMA StoredOrCut ==
    ASSUME NEW x \in Nat
    PROVE  /\ Stored(x) \in Nat /\ numericToScale(x) \in Nat
           /\ Stored(x) - numericToScale(x) \in {0, 1}
           /\ x % 10 < 5 => Stored(x) = numericToScale(x)
BY DEF Stored, numericToScale

LEMMA CashTypes ==
    CashTypeOK <=> /\ StaffTypeOK
                   /\ sessions \in [Sessions -> SessionRows]
                   /\ receipts \in [Keys -> ReceiptRows]
                   /\ deposits \in [BankRefs -> DepositRows]
                   /\ cashCalls \in [CashCalls -> CallRows]
                   /\ late \subseteq StaffIds
BY DEF CashTypeOK, SessionRows, ReceiptRows, DepositRows, CallRows

LEMMA CashTypesPrimed ==
    CashTypeOK' <=> /\ StaffTypeOK'
                    /\ sessions' \in [Sessions -> SessionRows]
                    /\ receipts' \in [Keys -> ReceiptRows]
                    /\ deposits' \in [BankRefs -> DepositRows]
                    /\ cashCalls' \in [CashCalls -> CallRows]
                    /\ late' \subseteq StaffIds
BY DEF CashTypeOK, SessionRows, ReceiptRows, DepositRows, CallRows

LEMMA CallMethods ==
    {"CreateCashContribution", "CloseCashierSession", "AcceptCashHandover",
     "RecordCashDeposit", "VerifyCashDeposit"} \subseteq DOMAIN permissionForMethod
BY DEF permissionForMethod

\* What was counted in some sessions is an amount.
LEMMA CountedTyped ==
    ASSUME sessions \in [Sessions -> SessionRows], NEW S \in SUBSET Sessions
    PROVE  CountedIn(S) \in Int
<1> DEFINE f == [s \in Sessions |-> sessions[s].counted]
<1>1. IsFiniteSet(S) /\ \A s \in S : f[s] \in Int
  BY CashConstants, FS_Subset DEF SessionRows
<1> HIDE DEF f
<1>2. SumFunctionOnSet(f, S) \in Int
  BY <1>1, SumType
<1> QED BY <1>2 DEF CountedIn, f

\* The sums that calls read, of rows that do not change.
LEMMA SameCounts ==
    ASSUME sessions \in [Sessions -> SessionRows], sessions' \in [Sessions -> SessionRows],
           NEW S \in SUBSET Sessions, \A s \in S : sessions'[s].counted = sessions[s].counted
    PROVE  CountedIn(S)' = CountedIn(S)
<1> DEFINE f == [s \in Sessions |-> sessions[s].counted]
           g == [s \in Sessions |-> sessions'[s].counted]
<1>1. IsFiniteSet(S)
  BY CashConstants, FS_Subset
<1>2. \A s \in S : f[s] \in Int /\ f[s] = g[s]
  BY DEF SessionRows
<1> HIDE DEF f, g
<1>3. SumFunctionOnSet(f, S) = SumFunctionOnSet(g, S)
  BY <1>1, <1>2, SumSame
<1> QED BY <1>3 DEF CountedIn, f, g

\* A call keeps what it has read when the rows it has not locked change.
LEMMA FitsStays ==
    ASSUME sessions \in [Sessions -> SessionRows], sessions' \in [Sessions -> SessionRows],
           NEW k \in CallRows, CallFits(k),
           \A s \in k.on : /\ sessions'[s] = sessions[s]
                           /\ SumCashReceiptsBySession(s)' = SumCashReceiptsBySession(s),
           \A r \in BankRefs : deposits[r].status # "none" =>
               deposits'[r].status # "none" /\ deposits'[r].recorded_by = deposits[r].recorded_by
    PROVE  CallFits(k)'
<1>1. k.on \in SUBSET Sessions
  BY DEF CallRows
<1>2. CountedIn(k.on)' = CountedIn(k.on)
  BY <1>1, SameCounts
<1> QED BY <1>2 DEF CallFits, SlipMatches

\* A call is let in and holds its rows.
LEMMA HoldKeeps ==
    ASSUME CashInv, NEW c \in CashCalls, NEW call \in CallRows, CallFits(call), HoldRows(c, call)
    PROVE  CashInv'
<1>1. /\ cashCalls' = [cashCalls EXCEPT ![c] = call]
      /\ sessions' = sessions /\ receipts' = receipts /\ deposits' = deposits /\ staff' = staff
      /\ RowsFree(call.on) /\ late' \subseteq late
  BY DEF HoldRows, Enters, cashTables
<1>2. CashTypeOK /\ cashCalls \in [CashCalls -> CallRows] /\ sessions \in [Sessions -> SessionRows]
  BY CashTypes DEF CashInv
<1>3. cashCalls' \in [CashCalls -> CallRows] /\ cashCalls'[c] = call
      /\ \A d \in CashCalls : d # c => cashCalls'[d] = cashCalls[d]
  BY <1>1, <1>2
<1>4. CashTypeOK'
  BY <1>1, <1>2, <1>3, CashTypes, CashTypesPrimed DEF StaffTypeOK
<1>5. \A s \in Sessions : SumCashReceiptsBySession(s)' = SumCashReceiptsBySession(s)
  BY <1>1 DEF SumCashReceiptsBySession
<1>6. \A S : CountedIn(S)' = CountedIn(S)
  BY <1>1 DEF CountedIn
<1>7. ASSUME NEW d \in CashCalls PROVE CallFits(cashCalls[d])'
  <2> SUFFICES ASSUME NEW k, k = cashCalls'[d] PROVE CallFits(k)'
    OBVIOUS
  <2>1. k \in CallRows /\ CallFits(k)
    BY <1>2, <1>3 DEF CashInv
  <2> QED BY <1>1, <1>5, <1>6, <2>1 DEF CallFits, CallRows, SlipMatches
<1>8. RowsHeldOnce'
  BY <1>1, <1>3 DEF CashInv, RowsHeldOnce, RowsFree
<1>9. SessionTotalsExact' /\ DepositsHold' /\ TwoPersonCustody'
  BY <1>1, <1>5, <1>6 DEF CashInv, SessionTotalsExact, DepositsHold, TwoPersonCustody
<1> QED BY <1>4, <1>7, <1>8, <1>9 DEF CashInv

LEMMA BeginCashKeeps ==
    ASSUME CashInv, NEW c \in CashCalls, NEW by \in StaffIds,
           \/ \E s \in Sessions, k \in Keys, a \in Amounts : BeginReceipt(c, by, s, k, a)
           \/ \E s \in Sessions, counted \in Counts, reason \in BOOLEAN :
                  BeginClose(c, by, s, counted, reason)
           \/ \E s \in Sessions : BeginHandover(c, by, s)
           \/ \E S \in SUBSET Sessions \ {{}}, r \in BankRefs, amount \in Slips :
                  BeginDeposit(c, by, S, r, amount)
           \/ \E r \in BankRefs : ReadDeposit(c, by, r)
    PROVE  CashInv'
<1>1. /\ sessions \in [Sessions -> SessionRows] /\ receipts \in [Keys -> ReceiptRows]
      /\ deposits \in [BankRefs -> DepositRows] /\ Amounts \subseteq Nat /\ Counts \subseteq Nat
      /\ Slips \subseteq Nat
      /\ IsFiniteSet(Sessions) /\ IsFiniteSet(Keys)
  BY CashTypes, CashConstants DEF CashInv
<1>2. ASSUME NEW s \in Sessions, NEW k \in Keys, NEW a \in Amounts, BeginReceipt(c, by, s, k, a)
      PROVE  CashInv'
  <2> DEFINE call == [op |-> "CreateCashContribution", by |-> by, on |-> {s}, key |-> k,
                      amount |-> a, expected |-> 0, reason |-> FALSE]
  <2>1. call \in CallRows
    BY <1>1, CallMethods DEF CallRows
  <2>2. CallFits(call)
    BY <1>2 DEF CallFits, BeginReceipt, AcceptsCash
  <2>3. HoldRows(c, call)
    BY <1>2 DEF BeginReceipt
  <2> HIDE DEF call
  <2> QED BY <2>1, <2>2, <2>3, HoldKeeps
<1>3. ASSUME NEW s \in Sessions, NEW counted \in Counts, NEW reason \in BOOLEAN,
             BeginClose(c, by, s, counted, reason)
      PROVE  CashInv'
  <2> DEFINE call == [op |-> "CloseCashierSession", by |-> by, on |-> {s}, key |-> "none",
                      amount |-> counted, expected |-> SumCashReceiptsBySession(s),
                      reason |-> reason]
  <2>1. SumCashReceiptsBySession(s) \in Nat
    <3> DEFINE f == [k \in Keys |-> receipts[k].amount]
               T == {k \in Keys : s \in receipts[k].session}
    <3>1. IsFiniteSet(T) /\ \A x \in T : f[x] \in Nat
      BY <1>1, FS_Subset DEF ReceiptRows
    <3> HIDE DEF f, T
    <3>2. SumFunctionOnSet(f, T) \in Nat
      BY <3>1, SumNat
    <3> QED BY <3>2 DEF SumCashReceiptsBySession, f, T
  <2>2. call \in CallRows
    BY <1>1, <2>1, CallMethods DEF CallRows
  <2>3. CallFits(call)
    BY <1>3 DEF CallFits, BeginClose, AcceptsCash
  <2>4. HoldRows(c, call)
    BY <1>3 DEF BeginClose
  <2> HIDE DEF call
  <2> QED BY <2>2, <2>3, <2>4, HoldKeeps
<1>4. ASSUME NEW s \in Sessions, BeginHandover(c, by, s) PROVE CashInv'
  <2>1. PICK call : /\ call = [NoCall EXCEPT !.op = "AcceptCashHandover", !.by = by, !.on = {s}]
                    /\ HoldRows(c, call)
    BY <1>4 DEF BeginHandover
  <2>2. call \in CallRows /\ call.op = "AcceptCashHandover" /\ call.by = by /\ call.on = {s}
    BY <2>1, CallMethods DEF CallRows, NoCall
  <2>3. CallFits(call)
    BY <1>4, <2>2 DEF CallFits, BeginHandover, AnotherPerson
  <2> QED BY <2>1, <2>2, <2>3, HoldKeeps
<1>5. ASSUME NEW S \in SUBSET Sessions \ {{}}, NEW r \in BankRefs, NEW amount \in Slips,
             BeginDeposit(c, by, S, r, amount)
      PROVE  CashInv'
  <2> DEFINE call == [op |-> "RecordCashDeposit", by |-> by, on |-> S, key |-> r,
                      amount |-> amount, expected |-> 0, reason |-> FALSE]
  <2>1. call \in CallRows
    BY <1>1, CallMethods DEF CallRows
  <2>2. CallFits(call)
    BY <1>5 DEF CallFits, BeginDeposit, MayDeposit
  <2>3. HoldRows(c, call)
    BY <1>5 DEF BeginDeposit
  <2> HIDE DEF call
  <2> QED BY <2>1, <2>2, <2>3, HoldKeeps
<1>6. ASSUME NEW r \in BankRefs, ReadDeposit(c, by, r) PROVE CashInv'
  <2>1. PICK call : /\ call = [NoCall EXCEPT !.op = "VerifyCashDeposit", !.by = by, !.key = r]
                    /\ HoldRows(c, call)
    BY <1>6 DEF ReadDeposit
  <2>2. call \in CallRows /\ call.op = "VerifyCashDeposit" /\ call.by = by /\ call.on = {} /\ call.key = r
    BY <2>1, CallMethods DEF CallRows, NoCall
  <2>3. CallFits(call)
    BY <1>6, <2>2 DEF CallFits, ReadDeposit
  <2> QED BY <2>1, <2>2, <2>3, HoldKeeps
<1> QED BY <1>2, <1>3, <1>4, <1>5, <1>6

\* A call ends: its rows are free, and the others hold theirs.
LEMMA CallEnds ==
    ASSUME CashInv, NEW c \in CashCalls, cashCalls' = [cashCalls EXCEPT ![c] = NoCall]
    PROVE  /\ cashCalls' \in [CashCalls -> CallRows] /\ RowsHeldOnce'
           /\ cashCalls'[c] = NoCall /\ CallFits(NoCall)'
           /\ \A d \in CashCalls : d # c => /\ cashCalls'[d] = cashCalls[d] /\ cashCalls[d] \in CallRows
                                            /\ CallFits(cashCalls[d])
                                            /\ cashCalls[d].on \cap cashCalls[c].on = {}
<1>1. NoCall \in CallRows /\ NoCall.on = {} /\ NoCall.op = "idle"
  BY DEF NoCall, CallRows
<1>2. cashCalls \in [CashCalls -> CallRows]
  BY CashTypes DEF CashInv
<1>3. cashCalls' \in [CashCalls -> CallRows] /\ cashCalls'[c] = NoCall
      /\ \A d \in CashCalls : d # c => cashCalls'[d] = cashCalls[d]
  BY <1>1, <1>2
<1>4. RowsHeldOnce'
  BY <1>1, <1>3 DEF CashInv, RowsHeldOnce
<1>5. CallFits(NoCall)'
  BY <1>1 DEF CallFits
<1> QED BY <1>2, <1>3, <1>4, <1>5 DEF CashInv, RowsHeldOnce

\* What a commit must show: the rows it wrote were its own.
LEMMA CommitKeepsCash ==
    ASSUME CashInv, NEW c \in CashCalls, cashCalls' = [cashCalls EXCEPT ![c] = NoCall],
           staff' = staff, late' = late,
           sessions' \in [Sessions -> SessionRows], receipts' \in [Keys -> ReceiptRows],
           deposits' \in [BankRefs -> DepositRows],
           \A s \in Sessions \ cashCalls[c].on :
               /\ sessions'[s] = sessions[s]
               /\ SumCashReceiptsBySession(s)' = SumCashReceiptsBySession(s),
           \A r \in BankRefs : deposits[r].status # "none" =>
               deposits'[r].status # "none" /\ deposits'[r].recorded_by = deposits[r].recorded_by,
           SessionTotalsExact', DepositsHold', TwoPersonCustody'
    PROVE  CashInv'
<1>1. /\ cashCalls' \in [CashCalls -> CallRows] /\ RowsHeldOnce'
      /\ cashCalls'[c] = NoCall /\ CallFits(NoCall)'
      /\ \A d \in CashCalls : d # c => /\ cashCalls'[d] = cashCalls[d] /\ cashCalls[d] \in CallRows
                                       /\ CallFits(cashCalls[d])
                                       /\ cashCalls[d].on \cap cashCalls[c].on = {}
  BY CallEnds
<1>2. CashTypeOK /\ sessions \in [Sessions -> SessionRows]
  BY CashTypes DEF CashInv
<1>3. CashTypeOK'
  BY <1>1, <1>2, CashTypes, CashTypesPrimed DEF StaffTypeOK
<1>4. ASSUME NEW d \in CashCalls PROVE CallFits(cashCalls[d])'
  <2> SUFFICES ASSUME NEW k, k = cashCalls'[d] PROVE CallFits(k)'
    OBVIOUS
  <2>1. CASE d = c
    BY <1>1, <2>1
  <2>2. CASE d # c
    <3>1. k \in CallRows /\ CallFits(k) /\ k.on \cap cashCalls[c].on = {} /\ k.on \subseteq Sessions
      BY <1>1, <2>2 DEF CallRows
    <3>2. \A s \in k.on : sessions'[s] = sessions[s]
                          /\ SumCashReceiptsBySession(s)' = SumCashReceiptsBySession(s)
      BY <3>1
    <3> QED BY <1>2, <3>1, <3>2, FitsStays
  <2> QED BY <2>1, <2>2
<1> QED BY <1>1, <1>3, <1>4 DEF CashInv

\* A receipt enters the sum of its own session only.
LEMMA SumElsewhere ==
    ASSUME CashInv, receipts' \in [Keys -> ReceiptRows], NEW k \in Keys, receipts[k].session = {},
           \A x \in Keys \ {k} : receipts'[x] = receipts[x],
           NEW s \in Sessions, s \notin receipts'[k].session
    PROVE  SumCashReceiptsBySession(s)' = SumCashReceiptsBySession(s)
<1> DEFINE f == [x \in Keys |-> receipts[x].amount]
           g == [x \in Keys |-> receipts'[x].amount]
           T == {x \in Keys : s \in receipts[x].session}
<1>1. receipts \in [Keys -> ReceiptRows] /\ IsFiniteSet(Keys)
  BY CashTypes, CashConstants DEF CashInv
<1>2. {x \in Keys : s \in receipts'[x].session} = T
  OBVIOUS
<1>3. IsFiniteSet(T) /\ k \notin T
  BY <1>1, FS_Subset
<1>4. \A x \in T : f[x] \in Int /\ f[x] = g[x]
  BY <1>1, <1>3 DEF ReceiptRows
<1> HIDE DEF f, g, T
<1>5. SumFunctionOnSet(f, T) = SumFunctionOnSet(g, T)
  BY <1>3, <1>4, SumSame
<1> QED BY <1>2, <1>5 DEF SumCashReceiptsBySession, f, g, T

LEMMA InsertReceiptKeeps ==
    ASSUME CashInv, NEW c \in CashCalls, InsertContributionReceipt(c)
    PROVE  CashInv'
<1> DEFINE k == cashCalls[c]
<1>1. /\ CashTypeOK /\ receipts \in [Keys -> ReceiptRows] /\ sessions \in [Sessions -> SessionRows]
      /\ deposits \in [BankRefs -> DepositRows] /\ k \in CallRows /\ CallFits(k)
  BY CashTypes DEF CashInv
<1>2. /\ k.op = "CreateCashContribution" /\ cashCalls' = [cashCalls EXCEPT ![c] = NoCall]
      /\ staff' = staff /\ late' = late /\ sessions' = sessions /\ deposits' = deposits
  BY DEF InsertContributionReceipt, CommitCash
<1>3. PICK t \in Sessions : k.on = {t} /\ sessions[t].status = "open"
  BY <1>1, <1>2 DEF CallFits
<1>4. k.key \in Keys /\ Stored(k.amount) \in Nat
  BY <1>1, <1>2, StoredOrCut DEF CallFits, CallRows
<1>5. receipts' = IF receipts[k.key] = NoReceipt
                    THEN [receipts EXCEPT ![k.key] = [session |-> k.on, amount |-> Stored(k.amount)]]
                    ELSE receipts
  BY DEF InsertContributionReceipt
<1> HIDE DEF k
<1>6. receipts' \in [Keys -> ReceiptRows]
  <2>1. [session |-> k.on, amount |-> Stored(k.amount)] \in ReceiptRows
    BY <1>3, <1>4 DEF ReceiptRows
  <2> QED BY <1>1, <1>4, <1>5, <2>1
<1>7. ASSUME NEW s \in Sessions \ k.on
      PROVE  SumCashReceiptsBySession(s)' = SumCashReceiptsBySession(s)
  <2>1. CASE receipts[k.key] = NoReceipt
    <3>1. receipts[k.key].session = {}
      BY <2>1 DEF NoReceipt
    <3>2. receipts'[k.key].session = k.on /\ \A x \in Keys \ {k.key} : receipts'[x] = receipts[x]
      BY <1>1, <1>4, <1>5, <2>1
    <3> QED BY <1>4, <1>6, <3>1, <3>2, SumElsewhere
  <2>2. CASE receipts[k.key] # NoReceipt
    BY <1>5, <2>2 DEF SumCashReceiptsBySession
  <2> QED BY <2>1, <2>2
<1>8. SessionTotalsExact'
  <2> SUFFICES ASSUME NEW s \in Sessions, sessions[s].status \in {"closed", "handed_over", "deposited"}
               PROVE  /\ sessions[s].expected = SumCashReceiptsBySession(s)'
                      /\ sessions[s].counted = sessions[s].expected \/ sessions[s].variance_reason
    BY <1>2 DEF SessionTotalsExact
  <2>1. s \notin k.on
    BY <1>3
  <2> QED BY <1>7, <2>1 DEF CashInv, SessionTotalsExact
<1>9. \A S : CountedIn(S)' = CountedIn(S)
  BY <1>2 DEF CountedIn
<1>10. DepositsHold' /\ TwoPersonCustody'
  BY <1>2, <1>9 DEF CashInv, DepositsHold, TwoPersonCustody
<1> QED BY <1>1, <1>2, <1>6, <1>7, <1>8, <1>10, CommitKeepsCash DEF k

\* A step on one session of the till that is not in a deposit.
LEMMA TillKeeps ==
    ASSUME CashInv, sessions' \in [Sessions -> SessionRows], receipts' = receipts, deposits' = deposits,
           NEW t \in Sessions, \A s \in Sessions \ {t} : sessions'[s] = sessions[s],
           sessions[t].status # "deposited", sessions'[t].status # "deposited",
           sessions'[t].status \in {"closed", "handed_over"} =>
               /\ sessions'[t].expected = SumCashReceiptsBySession(t)
               /\ sessions'[t].counted = sessions'[t].expected \/ sessions'[t].variance_reason,
           sessions'[t].handed_over_to # Nobody => sessions'[t].handed_over_to # sessions'[t].cashier_id
    PROVE  /\ SessionTotalsExact' /\ DepositsHold' /\ TwoPersonCustody'
           /\ \A s \in Sessions : SumCashReceiptsBySession(s)' = SumCashReceiptsBySession(s)
<1>1. sessions \in [Sessions -> SessionRows] /\ deposits \in [BankRefs -> DepositRows]
  BY CashTypes DEF CashInv
<1>2. \A s \in Sessions : SumCashReceiptsBySession(s)' = SumCashReceiptsBySession(s)
  BY DEF SumCashReceiptsBySession
<1>3. sessions'[t].status \in {"none", "open", "closed", "handed_over", "deposited"}
  BY DEF SessionRows
<1>4. SessionTotalsExact'
  <2> SUFFICES ASSUME NEW s \in Sessions, sessions'[s].status \in {"closed", "handed_over", "deposited"}
               PROVE  /\ sessions'[s].expected = SumCashReceiptsBySession(s)'
                      /\ sessions'[s].counted = sessions'[s].expected \/ sessions'[s].variance_reason
    BY DEF SessionTotalsExact
  <2>1. CASE s = t
    BY <1>2, <2>1
  <2>2. CASE s # t
    BY <1>2, <2>2 DEF CashInv, SessionTotalsExact
  <2> QED BY <2>1, <2>2
<1>5. \A r \in BankRefs : t \notin deposits[r].sessions /\ deposits[r].sessions \in SUBSET Sessions
  BY <1>1 DEF CashInv, DepositsHold, DepositRows
<1>6. \A r \in BankRefs : CountedIn(deposits[r].sessions)' = CountedIn(deposits[r].sessions)
  <2> TAKE r \in BankRefs
  <2> SUFFICES ASSUME NEW S, S = deposits[r].sessions PROVE CountedIn(S)' = CountedIn(S)
    OBVIOUS
  <2> QED BY <1>1, <1>5, SameCounts
<1>7. DepositsHold'
  BY <1>5, <1>6 DEF CashInv, DepositsHold
<1>8. TwoPersonCustody'
  BY DEF CashInv, TwoPersonCustody
<1> QED BY <1>2, <1>4, <1>7, <1>8

LEMMA CloseKeeps ==
    ASSUME CashInv, NEW c \in CashCalls, CloseCashierSession(c) \/ AcceptCashHandover(c)
    PROVE  CashInv'
<1> DEFINE k == cashCalls[c]
<1>1. /\ CashTypeOK /\ receipts \in [Keys -> ReceiptRows] /\ sessions \in [Sessions -> SessionRows]
      /\ deposits \in [BankRefs -> DepositRows] /\ k \in CallRows /\ CallFits(k)
      /\ SessionTotalsExact /\ TwoPersonCustody
  BY CashTypes DEF CashInv
<1>2. /\ cashCalls' = [cashCalls EXCEPT ![c] = NoCall]
      /\ staff' = staff /\ late' = late /\ receipts' = receipts /\ deposits' = deposits
  BY DEF CloseCashierSession, AcceptCashHandover, CommitCash
<1>3. /\ k.by \in StaffIds \cup {Nobody} /\ Stored(k.amount) \in Nat /\ k.expected \in Nat
      /\ k.reason \in BOOLEAN
  BY <1>1, StoredOrCut DEF CallRows
<1>4. PICK t \in Sessions :
          /\ k.on = {t} /\ sessions' \in [Sessions -> SessionRows]
          /\ \A s \in Sessions \ {t} : sessions'[s] = sessions[s]
          /\ sessions[t].status # "deposited" /\ sessions'[t].status # "deposited"
          /\ sessions'[t].expected = SumCashReceiptsBySession(t)
          /\ sessions'[t].counted = sessions'[t].expected \/ sessions'[t].variance_reason
          /\ sessions'[t].handed_over_to # Nobody => sessions'[t].handed_over_to # sessions'[t].cashier_id
  <2>1. CASE CloseCashierSession(c)
    <3>1. k.op = "CloseCashierSession"
      BY <2>1 DEF CloseCashierSession, CommitCash
    <3>2. PICK t \in Sessions : /\ k.on = {t} /\ sessions[t].status = "open"
                                /\ k.expected = SumCashReceiptsBySession(t)
      BY <1>1, <3>1 DEF CallFits
    <3>3. /\ sessions' = [sessions EXCEPT ![t].status = "closed", ![t].expected = k.expected,
                                          ![t].counted = Stored(k.amount),
                                          ![t].variance_reason = k.reason]
          /\ k.reason \/ Stored(k.amount) = k.expected
      BY <2>1, <3>2 DEF CloseCashierSession, VarianceExplained
    <3> HIDE DEF k
    <3>4. sessions' \in [Sessions -> SessionRows] /\ \A s \in Sessions \ {t} : sessions'[s] = sessions[s]
      <4> DEFINE row == [sessions[t] EXCEPT !.status = "closed", !.expected = k.expected,
                                            !.counted = Stored(k.amount), !.variance_reason = k.reason]
      <4>1. sessions[t] \in SessionRows /\ k.expected \in Nat /\ k.reason \in BOOLEAN
        BY <1>1 DEF CallRows
      <4>2. row \in SessionRows
        BY <4>1, <1>3 DEF SessionRows
      <4>3. sessions' = [sessions EXCEPT ![t] = row]
        BY <3>3
      <4> HIDE DEF row
      <4> QED BY <1>1, <4>2, <4>3
    <3>5. /\ sessions'[t].status = "closed" /\ sessions'[t].expected = k.expected
          /\ sessions'[t].counted = Stored(k.amount) /\ sessions'[t].variance_reason = k.reason
          /\ sessions'[t].handed_over_to = sessions[t].handed_over_to
          /\ sessions'[t].cashier_id = sessions[t].cashier_id
      BY <1>1, <3>3 DEF SessionRows
    <3> QED BY <1>1, <3>2, <3>3, <3>4, <3>5 DEF TwoPersonCustody
  <2>2. CASE AcceptCashHandover(c)
    <3>1. k.op = "AcceptCashHandover"
      BY <2>2 DEF AcceptCashHandover, CommitCash
    <3>2. PICK t \in Sessions : /\ k.on = {t} /\ sessions[t].status = "closed"
                                /\ sessions[t].cashier_id # k.by
      BY <1>1, <3>1 DEF CallFits
    <3>3. sessions' = [sessions EXCEPT ![t].status = "handed_over", ![t].handed_over_to = k.by]
      BY <2>2, <3>2 DEF AcceptCashHandover
    <3> HIDE DEF k
    <3>4. sessions' \in [Sessions -> SessionRows] /\ \A s \in Sessions \ {t} : sessions'[s] = sessions[s]
      BY <1>1, <1>3, <3>3 DEF SessionRows
    <3>5. /\ sessions'[t].status = "handed_over" /\ sessions'[t].expected = sessions[t].expected
          /\ sessions'[t].counted = sessions[t].counted
          /\ sessions'[t].variance_reason = sessions[t].variance_reason
          /\ sessions'[t].handed_over_to = k.by /\ sessions'[t].cashier_id = sessions[t].cashier_id
      BY <1>1, <3>3 DEF SessionRows
    <3> QED BY <1>1, <3>2, <3>4, <3>5 DEF SessionTotalsExact
  <2> QED BY <2>1, <2>2
<1> HIDE DEF k
<1>5. /\ SessionTotalsExact' /\ DepositsHold' /\ TwoPersonCustody'
      /\ \A s \in Sessions : SumCashReceiptsBySession(s)' = SumCashReceiptsBySession(s)
  BY <1>2, <1>4, TillKeeps
<1> QED BY <1>1, <1>2, <1>4, <1>5, CommitKeepsCash DEF k

\* What RecordCashDeposit writes.
LEMMA DepositEffect ==
    ASSUME CashInv, NEW c \in CashCalls, RecordCashDeposit(c), NEW k, k = cashCalls[c]
    PROVE  /\ k.key \in BankRefs /\ k.on \in SUBSET Sessions
           /\ Stored(k.amount) - CountedIn(k.on) \in Slack
           /\ deposits[k.key] = NoDeposit
           /\ \A s \in k.on : sessions[s].status = "handed_over"
           /\ sessions' \in [Sessions -> SessionRows] /\ deposits' \in [BankRefs -> DepositRows]
           /\ \A s \in Sessions \ k.on : sessions'[s] = sessions[s]
           /\ \A s \in k.on : /\ sessions'[s].status = "deposited" /\ sessions'[s].expected = sessions[s].expected
                              /\ sessions'[s].counted = sessions[s].counted
                              /\ sessions'[s].variance_reason = sessions[s].variance_reason
                              /\ sessions'[s].cashier_id = sessions[s].cashier_id
                              /\ sessions'[s].handed_over_to = sessions[s].handed_over_to
           /\ \A r \in BankRefs \ {k.key} : deposits'[r] = deposits[r]
           /\ deposits'[k.key].sessions = k.on /\ deposits'[k.key].amount = Stored(k.amount)
           /\ deposits'[k.key].status = "recorded"
<1>1. /\ sessions \in [Sessions -> SessionRows] /\ deposits \in [BankRefs -> DepositRows]
      /\ k \in CallRows /\ CallFits(k)
  BY CashTypes DEF CashInv
<1>2. k.op = "RecordCashDeposit"
  BY DEF RecordCashDeposit, CommitCash
<1>3. /\ k.key \in BankRefs /\ SlipMatches(k.amount, k.on) /\ k.amount \in Slips
      /\ \A s \in k.on : sessions[s].status = "handed_over"
  BY <1>1, <1>2 DEF CallFits
<1>4. /\ k.on \in SUBSET Sessions /\ k.by \in StaffIds \cup {Nobody}
      /\ Stored(k.amount) \in Nat /\ Stored(k.amount) - CountedIn(k.on) \in Slack
  BY <1>1, <1>3, StoredOrCut DEF CallRows, SlipMatches, Slack, WholeSlips
<1>5. PICK d : /\ d = [status |-> "recorded", amount |-> Stored(k.amount), sessions |-> k.on,
                       recorded_by |-> k.by, verified_by |-> Nobody]
               /\ deposits' = [deposits EXCEPT ![k.key] = d]
  BY DEF RecordCashDeposit
<1>6. d \in DepositRows /\ d.sessions = k.on /\ d.amount = Stored(k.amount) /\ d.status = "recorded"
  BY <1>4, <1>5 DEF DepositRows
<1>7. /\ deposits' \in [BankRefs -> DepositRows] /\ deposits'[k.key] = d
      /\ \A r \in BankRefs \ {k.key} : deposits'[r] = deposits[r]
  BY <1>1, <1>3, <1>5, <1>6
<1>8. sessions' = [s \in Sessions |-> IF s \in k.on THEN [sessions[s] EXCEPT !.status = "deposited"]
                                      ELSE sessions[s]]
  BY DEF RecordCashDeposit
<1>9. sessions' \in [Sessions -> SessionRows]
  BY <1>1, <1>8 DEF SessionRows
<1>10. \A s \in Sessions \ k.on : sessions'[s] = sessions[s]
  BY <1>8
<1>11. \A s \in k.on : /\ sessions'[s].status = "deposited" /\ sessions'[s].expected = sessions[s].expected
                       /\ sessions'[s].counted = sessions[s].counted
                       /\ sessions'[s].variance_reason = sessions[s].variance_reason
                       /\ sessions'[s].cashier_id = sessions[s].cashier_id
                       /\ sessions'[s].handed_over_to = sessions[s].handed_over_to
  BY <1>1, <1>4, <1>8 DEF SessionRows
<1>12. deposits[k.key] = NoDeposit
  BY DEF RecordCashDeposit
<1> QED BY <1>3, <1>4, <1>6, <1>7, <1>9, <1>10, <1>11, <1>12

LEMMA RecordDepositKeeps ==
    ASSUME CashInv, NEW c \in CashCalls, RecordCashDeposit(c)
    PROVE  CashInv'
<1>0. PICK k : k = cashCalls[c]
  OBVIOUS
<1>1. /\ cashCalls' = [cashCalls EXCEPT ![c] = NoCall]
      /\ staff' = staff /\ late' = late /\ receipts' = receipts
  BY DEF RecordCashDeposit, CommitCash
<1>2. /\ k.key \in BankRefs /\ k.on \in SUBSET Sessions
      /\ Stored(k.amount) - CountedIn(k.on) \in Slack
      /\ deposits[k.key] = NoDeposit
      /\ \A s \in k.on : sessions[s].status = "handed_over"
      /\ sessions' \in [Sessions -> SessionRows] /\ deposits' \in [BankRefs -> DepositRows]
      /\ \A s \in Sessions \ k.on : sessions'[s] = sessions[s]
      /\ \A s \in k.on : /\ sessions'[s].status = "deposited" /\ sessions'[s].expected = sessions[s].expected
                         /\ sessions'[s].counted = sessions[s].counted
                         /\ sessions'[s].variance_reason = sessions[s].variance_reason
                         /\ sessions'[s].cashier_id = sessions[s].cashier_id
                         /\ sessions'[s].handed_over_to = sessions[s].handed_over_to
      /\ \A r \in BankRefs \ {k.key} : deposits'[r] = deposits[r]
      /\ deposits'[k.key].sessions = k.on /\ deposits'[k.key].amount = Stored(k.amount)
      /\ deposits'[k.key].status = "recorded"
  BY <1>0, DepositEffect
<1>3. /\ sessions \in [Sessions -> SessionRows] /\ deposits \in [BankRefs -> DepositRows]
      /\ receipts \in [Keys -> ReceiptRows]
      /\ SessionTotalsExact /\ DepositsHold /\ TwoPersonCustody
  BY CashTypes DEF CashInv
<1>4. \A s \in Sessions : SumCashReceiptsBySession(s)' = SumCashReceiptsBySession(s)
  BY <1>1 DEF SumCashReceiptsBySession
<1>5. SessionTotalsExact'
  <2> SUFFICES ASSUME NEW s \in Sessions, sessions'[s].status \in {"closed", "handed_over", "deposited"}
               PROVE  /\ sessions'[s].expected = SumCashReceiptsBySession(s)
                      /\ sessions'[s].counted = sessions'[s].expected \/ sessions'[s].variance_reason
    BY <1>4 DEF SessionTotalsExact
  <2>1. CASE s \in k.on
    BY <1>2, <1>3, <2>1 DEF SessionTotalsExact
  <2>2. CASE s \notin k.on
    BY <1>2, <1>3, <2>2 DEF SessionTotalsExact
  <2> QED BY <2>1, <2>2
<1>6. \A S \in SUBSET Sessions : CountedIn(S)' = CountedIn(S)
  <2> TAKE S \in SUBSET Sessions
  <2>1. \A s \in S : sessions'[s].counted = sessions[s].counted
    BY <1>2
  <2> QED BY <1>2, <1>3, <2>1, SameCounts
<1>7. \A r \in BankRefs : deposits[r].sessions \in SUBSET Sessions /\ deposits[r].sessions \cap k.on = {}
  BY <1>2, <1>3 DEF DepositsHold, DepositRows
<1>8. DepositsHold'
  <2>1. ASSUME NEW s \in Sessions
        PROVE  sessions'[s].status = "deposited" <=> \E r \in BankRefs : s \in deposits'[r].sessions
    <3>1. CASE s \in k.on
      BY <1>2, <3>1
    <3>2. CASE s \notin k.on
      <4>1. sessions'[s] = sessions[s] /\ \A r \in BankRefs : s \in deposits'[r].sessions =>
                                                              s \in deposits[r].sessions
        BY <1>2, <3>2
      <4>2. deposits[k.key].sessions = {}
        BY <1>2 DEF NoDeposit
      <4>3. \A r \in BankRefs : s \in deposits[r].sessions => s \in deposits'[r].sessions
        BY <1>2, <4>2
      <4> QED BY <1>3, <4>1, <4>3 DEF DepositsHold
    <3> QED BY <3>1, <3>2
  <2>2. \A r, q \in BankRefs : r # q => deposits'[r].sessions \cap deposits'[q].sessions = {}
    <3> TAKE r, q \in BankRefs
    <3>1. CASE r = k.key
      BY <1>2, <1>7, <3>1
    <3>2. CASE q = k.key
      BY <1>2, <1>7, <3>2
    <3>3. CASE r # k.key /\ q # k.key
      BY <1>2, <1>3, <3>3 DEF DepositsHold
    <3> QED BY <3>1, <3>2, <3>3
  <2>3. ASSUME NEW r \in BankRefs, NEW S, S = deposits'[r].sessions
        PROVE  deposits'[r].amount - CountedIn(S)' \in Slack
    <3>1. CASE r = k.key
      BY <1>2, <1>6, <2>3, <3>1
    <3>2. CASE r # k.key
      BY <1>2, <1>3, <1>6, <1>7, <2>3, <3>2 DEF DepositsHold
    <3> QED BY <3>1, <3>2
  <2> QED BY <2>1, <2>2, <2>3 DEF DepositsHold
<1>9. TwoPersonCustody'
  <2>1. ASSUME NEW s \in Sessions, sessions'[s].handed_over_to # Nobody
        PROVE  sessions'[s].handed_over_to # sessions'[s].cashier_id
    <3>1. CASE s \in k.on
      BY <1>2, <1>3, <2>1, <3>1 DEF TwoPersonCustody
    <3>2. CASE s \notin k.on
      BY <1>2, <1>3, <2>1, <3>2 DEF TwoPersonCustody
    <3> QED BY <3>1, <3>2
  <2>2. ASSUME NEW r \in BankRefs, deposits'[r].status = "verified"
        PROVE  deposits'[r].verified_by # deposits'[r].recorded_by
    <3>1. r # k.key
      BY <1>2, <2>2
    <3> QED BY <1>2, <1>3, <2>2, <3>1 DEF TwoPersonCustody
  <2> QED BY <2>1, <2>2 DEF TwoPersonCustody
<1>10. \A r \in BankRefs : deposits[r].status # "none" =>
           deposits'[r].status # "none" /\ deposits'[r].recorded_by = deposits[r].recorded_by
  <2>1. deposits[k.key].status = "none"
    BY <1>2 DEF NoDeposit
  <2> QED BY <1>2, <2>1
<1> QED BY <1>0, <1>1, <1>2, <1>3, <1>4, <1>5, <1>8, <1>9, <1>10, CommitKeepsCash

\* VerifyCashDeposit changes a deposit that is still recorded, and nothing else.
LEMMA VerifyEffect ==
    ASSUME CashInv, NEW c \in CashCalls, VerifyCashDeposit(c), NEW k, k = cashCalls[c]
    PROVE  /\ k.key \in BankRefs /\ deposits' \in [BankRefs -> DepositRows]
           /\ \A r \in BankRefs : /\ deposits'[r].sessions = deposits[r].sessions
                                  /\ deposits'[r].amount = deposits[r].amount
                                  /\ deposits'[r].recorded_by = deposits[r].recorded_by
                                  /\ deposits[r].status # "recorded" => deposits'[r] = deposits[r]
                                  /\ r # k.key => deposits'[r] = deposits[r]
                                  /\ deposits[r].status = "recorded" => deposits'[r].status # "none"
           /\ deposits'[k.key].status = "verified" =>
                  deposits'[k.key].verified_by # deposits'[k.key].recorded_by
<1>1. /\ deposits \in [BankRefs -> DepositRows] /\ k \in CallRows /\ CallFits(k) /\ TwoPersonCustody
  BY CashTypes DEF CashInv
<1>2. k.op = "VerifyCashDeposit"
  BY DEF VerifyCashDeposit, CommitCash
<1>3. k.key \in BankRefs /\ deposits[k.key].recorded_by # k.by /\ k.by \in StaffIds \cup {Nobody}
  BY <1>1, <1>2 DEF CallFits, CallRows
<1>4. CASE deposits[k.key].status = "recorded"
  <2>1. deposits' = [deposits EXCEPT ![k.key].status = "verified", ![k.key].verified_by = k.by]
    BY <1>4 DEF VerifyCashDeposit, StillRecorded
  <2>2. deposits' \in [BankRefs -> DepositRows] /\ \A r \in BankRefs : r # k.key => deposits'[r] = deposits[r]
    BY <1>1, <1>3, <2>1 DEF DepositRows
  <2>3. /\ deposits'[k.key].status = "verified" /\ deposits'[k.key].verified_by = k.by
        /\ deposits'[k.key].recorded_by = deposits[k.key].recorded_by
        /\ deposits'[k.key].sessions = deposits[k.key].sessions
        /\ deposits'[k.key].amount = deposits[k.key].amount
    BY <1>1, <1>3, <2>1 DEF DepositRows
  <2> QED BY <1>3, <1>4, <2>2, <2>3
<1>5. CASE deposits[k.key].status # "recorded"
  <2>1. deposits' = deposits
    BY <1>5 DEF VerifyCashDeposit, StillRecorded
  <2> QED BY <1>1, <1>3, <1>5, <2>1 DEF TwoPersonCustody
<1> QED BY <1>4, <1>5

LEMMA VerifyKeeps ==
    ASSUME CashInv, NEW c \in CashCalls, VerifyCashDeposit(c)
    PROVE  CashInv'
<1>0. PICK k : k = cashCalls[c]
  OBVIOUS
<1>1. /\ cashCalls' = [cashCalls EXCEPT ![c] = NoCall]
      /\ staff' = staff /\ late' = late /\ receipts' = receipts /\ sessions' = sessions
  BY DEF VerifyCashDeposit, CommitCash
<1>2. /\ sessions \in [Sessions -> SessionRows] /\ receipts \in [Keys -> ReceiptRows]
      /\ deposits \in [BankRefs -> DepositRows]
      /\ SessionTotalsExact /\ DepositsHold /\ TwoPersonCustody
  BY CashTypes DEF CashInv
<1>3. /\ k.key \in BankRefs /\ deposits' \in [BankRefs -> DepositRows]
      /\ \A r \in BankRefs : /\ deposits'[r].sessions = deposits[r].sessions
                             /\ deposits'[r].amount = deposits[r].amount
                             /\ deposits'[r].recorded_by = deposits[r].recorded_by
                             /\ deposits[r].status # "recorded" => deposits'[r] = deposits[r]
                             /\ r # k.key => deposits'[r] = deposits[r]
                             /\ deposits[r].status = "recorded" => deposits'[r].status # "none"
      /\ deposits'[k.key].status = "verified" =>
             deposits'[k.key].verified_by # deposits'[k.key].recorded_by
  BY <1>0, VerifyEffect
<1>4. /\ \A s \in Sessions : SumCashReceiptsBySession(s)' = SumCashReceiptsBySession(s)
      /\ \A S : CountedIn(S)' = CountedIn(S)
  BY <1>1 DEF SumCashReceiptsBySession, CountedIn
<1>5. SessionTotalsExact' /\ DepositsHold'
  BY <1>1, <1>2, <1>3, <1>4 DEF SessionTotalsExact, DepositsHold
<1>6. TwoPersonCustody'
  BY <1>1, <1>2, <1>3 DEF TwoPersonCustody
<1> QED BY <1>1, <1>2, <1>3, <1>4, <1>5, <1>6, CommitKeepsCash

LEMMA AbortCashKeeps ==
    ASSUME CashInv, NEW c \in CashCalls, AbortCash(c)
    PROVE  CashInv'
<1>1. /\ cashCalls' = [cashCalls EXCEPT ![c] = NoCall] /\ staff' = staff /\ late' = late
      /\ receipts' = receipts /\ sessions' = sessions /\ deposits' = deposits
  BY DEF AbortCash, cashTables
<1>2. /\ sessions \in [Sessions -> SessionRows] /\ receipts \in [Keys -> ReceiptRows]
      /\ deposits \in [BankRefs -> DepositRows]
  BY CashTypes DEF CashInv
<1>3. /\ \A s \in Sessions : SumCashReceiptsBySession(s)' = SumCashReceiptsBySession(s)
      /\ \A S : CountedIn(S)' = CountedIn(S)
  BY <1>1 DEF SumCashReceiptsBySession, CountedIn
<1>4. SessionTotalsExact' /\ DepositsHold' /\ TwoPersonCustody'
  BY <1>1, <1>3 DEF CashInv, SessionTotalsExact, DepositsHold, TwoPersonCustody
<1> QED BY <1>1, <1>2, <1>3, <1>4, CommitKeepsCash

LEMMA OpenKeeps ==
    ASSUME CashInv, NEW by \in StaffIds, NEW t \in Sessions, OpenCashierSession(by, t)
    PROVE  CashInv'
<1>1. /\ sessions' = [sessions EXCEPT ![t].status = "open", ![t].cashier_id = by]
      /\ staff' = staff /\ receipts' = receipts /\ deposits' = deposits /\ cashCalls' = cashCalls
      /\ sessions[t] = NoSession /\ late' \subseteq late
  BY DEF OpenCashierSession, Enters
<1>2. /\ CashTypeOK /\ sessions \in [Sessions -> SessionRows] /\ cashCalls \in [CashCalls -> CallRows]
  BY CashTypes DEF CashInv
<1>3. sessions' \in [Sessions -> SessionRows] /\ \A s \in Sessions \ {t} : sessions'[s] = sessions[s]
  BY <1>1, <1>2 DEF SessionRows
<1>4. sessions[t].status = "none" /\ sessions[t].handed_over_to = Nobody
  BY <1>1 DEF NoSession
<1>5. sessions'[t].status = "open" /\ sessions'[t].handed_over_to = sessions[t].handed_over_to
  BY <1>1, <1>2 DEF SessionRows
<1>6. /\ SessionTotalsExact' /\ DepositsHold' /\ TwoPersonCustody'
      /\ \A s \in Sessions : SumCashReceiptsBySession(s)' = SumCashReceiptsBySession(s)
  BY <1>1, <1>3, <1>4, <1>5, TillKeeps
<1>7. CashTypeOK'
  BY <1>1, <1>2, <1>3, CashTypes, CashTypesPrimed DEF StaffTypeOK
<1>8. ASSUME NEW d \in CashCalls PROVE CallFits(cashCalls[d])'
  <2> SUFFICES ASSUME NEW k, k = cashCalls'[d] PROVE CallFits(k)'
    OBVIOUS
  <2>1. k \in CallRows /\ CallFits(k) /\ k.on \subseteq Sessions
    BY <1>1, <1>2 DEF CashInv, CallRows
  <2>2. t \notin k.on
    BY <1>4, <2>1 DEF CallFits
  <2>3. \A s \in k.on : sessions'[s] = sessions[s]
                        /\ SumCashReceiptsBySession(s)' = SumCashReceiptsBySession(s)
    BY <1>3, <1>6, <2>1, <2>2
  <2> QED BY <1>1, <1>2, <1>3, <2>1, <2>3, FitsStays
<1>9. RowsHeldOnce'
  BY <1>1 DEF CashInv, RowsHeldOnce
<1> QED BY <1>6, <1>7, <1>8, <1>9 DEF CashInv

LEMMA StaffChangesTyped ==
    ASSUME StaffTypeOK, late \subseteq StaffIds, StaffChanges
    PROVE  StaffTypeOK' /\ late' \subseteq StaffIds
<1>1. HiredRoles \subseteq Roles
  BY StaffConstants
<1>2. PICK admin0, s \in StaffIds :
          \/ \E role \in HiredRoles : CreateStaffUser(admin0, s, role) /\ UNCHANGED late
          \/ DeactivateStaffUser(admin0, s) /\ late' \in {late, late \cup {s}}
  BY DEF StaffChanges
<1>3. late' \subseteq StaffIds
  BY <1>2
<1>4. ASSUME NEW role \in HiredRoles, CreateStaffUser(admin0, s, role) PROVE StaffTypeOK'
  BY <1>1, <1>4 DEF CreateStaffUser, StaffTypeOK
<1>5. ASSUME DeactivateStaffUser(admin0, s) PROVE StaffTypeOK'
  BY <1>5 DEF DeactivateStaffUser, StaffTypeOK
<1> QED BY <1>2, <1>3, <1>4, <1>5

\* The tables stay, whoever joins or leaves.
LEMMA TablesStay ==
    ASSUME CashInv, StaffTypeOK', late' \subseteq StaffIds, UNCHANGED <<cashTables, cashCalls>>
    PROVE  CashInv'
<1>1. sessions' = sessions /\ receipts' = receipts /\ deposits' = deposits /\ cashCalls' = cashCalls
  BY DEF cashTables
<1>2. CashTypeOK'
  BY <1>1, CashTypes, CashTypesPrimed DEF CashInv
<1>3. /\ \A s \in Sessions : SumCashReceiptsBySession(s)' = SumCashReceiptsBySession(s)
      /\ \A S : CountedIn(S)' = CountedIn(S)
  BY <1>1 DEF SumCashReceiptsBySession, CountedIn
<1>4. SessionTotalsExact' /\ DepositsHold' /\ TwoPersonCustody' /\ RowsHeldOnce'
  BY <1>1, <1>3 DEF CashInv, SessionTotalsExact, DepositsHold, TwoPersonCustody, RowsHeldOnce
<1>5. ASSUME NEW d \in CashCalls PROVE CallFits(cashCalls[d])'
  <2> SUFFICES ASSUME NEW k, k = cashCalls'[d] PROVE CallFits(k)'
    OBVIOUS
  <2>1. CallFits(k) /\ k.on \in SUBSET Sessions
    BY <1>1, CashTypes DEF CashInv, CallRows
  <2> QED BY <1>1, <1>3, <2>1 DEF CallFits, SlipMatches
<1> QED BY <1>2, <1>4, <1>5 DEF CashInv

LEMMA InitCashInv == CashInit => CashInv
<1> SUFFICES ASSUME CashInit PROVE CashInv
  OBVIOUS
<1>1. \A s \in StaffIds : InitialRoles[s] \in Roles \cup {"none"}
  BY StaffConstants
<1>2. StaffTypeOK
  BY <1>1 DEF CashInit, StaffInit, StaffTypeOK
<1>3. NoSession \in SessionRows /\ NoReceipt \in ReceiptRows /\ NoDeposit \in DepositRows /\ NoCall \in CallRows
  BY DEF NoSession, NoReceipt, NoDeposit, NoCall, SessionRows, ReceiptRows, DepositRows, CallRows
<1>4. CashTypeOK
  BY <1>2, <1>3, CashTypes DEF CashInit
<1>5. /\ \A s \in Sessions : sessions[s] = NoSession
      /\ \A r \in BankRefs : deposits[r] = NoDeposit
      /\ \A c \in CashCalls : cashCalls[c] = NoCall
  BY DEF CashInit
<1>6. /\ NoSession.status = "none" /\ NoSession.handed_over_to = Nobody
      /\ NoDeposit.status = "none" /\ NoDeposit.sessions = {} /\ NoDeposit.amount = 0
      /\ NoCall.op = "idle" /\ NoCall.on = {}
  BY DEF NoSession, NoDeposit, NoCall
<1>7. CountedIn({}) = 0 /\ 0 \in Slack
  BY SumEmpty DEF CountedIn, Slack
<1>8. ASSUME NEW c \in CashCalls PROVE CallFits(cashCalls[c])
  BY <1>5, <1>6 DEF CallFits
<1>9. DepositsHold
  <2>1. \A r \in BankRefs : deposits[r].amount - CountedIn(deposits[r].sessions) \in Slack
    <3> TAKE r \in BankRefs
    <3>1. deposits[r].amount = 0 /\ CountedIn(deposits[r].sessions) = 0
      BY <1>5, <1>6, <1>7
    <3>2. 0 - 0 = 0
      OBVIOUS
    <3> QED BY <3>1, <3>2, <1>7
  <2> QED BY <1>5, <1>6, <2>1 DEF DepositsHold
<1>10. RowsHeldOnce /\ SessionTotalsExact /\ TwoPersonCustody
  BY <1>5, <1>6 DEF RowsHeldOnce, SessionTotalsExact, TwoPersonCustody
<1> QED BY <1>4, <1>8, <1>9, <1>10 DEF CashInv

LEMMA NextCashInv == CashInv /\ [CashNext]_cashVars => CashInv'
<1> SUFFICES ASSUME CashInv, [CashNext]_cashVars PROVE CashInv'
  OBVIOUS
<1>1. StaffTypeOK /\ late \subseteq StaffIds
  BY CashTypes DEF CashInv
<1>2. CASE StaffChanges /\ UNCHANGED <<cashTables, cashCalls>>
  BY <1>1, <1>2, StaffChangesTyped, TablesStay
<1>3. ASSUME NEW by \in StaffIds, NEW s \in Sessions, OpenCashierSession(by, s) PROVE CashInv'
  BY <1>3, OpenKeeps
<1>4. ASSUME NEW c \in CashCalls, NEW by \in StaffIds,
             \/ \E s \in Sessions, k \in Keys, a \in Amounts : BeginReceipt(c, by, s, k, a)
             \/ \E s \in Sessions, counted \in Counts, reason \in BOOLEAN :
                    BeginClose(c, by, s, counted, reason)
             \/ \E s \in Sessions : BeginHandover(c, by, s)
             \/ \E S \in SUBSET Sessions \ {{}}, r \in BankRefs, amount \in Slips :
                    BeginDeposit(c, by, S, r, amount)
             \/ \E r \in BankRefs : ReadDeposit(c, by, r)
      PROVE  CashInv'
  BY <1>4, BeginCashKeeps
<1>5. ASSUME NEW c \in CashCalls,
             \/ InsertContributionReceipt(c) \/ CloseCashierSession(c) \/ AcceptCashHandover(c)
             \/ RecordCashDeposit(c) \/ VerifyCashDeposit(c) \/ AbortCash(c)
      PROVE  CashInv'
  BY <1>5, InsertReceiptKeeps, CloseKeeps, RecordDepositKeeps, VerifyKeeps, AbortCashKeeps
<1>6. CASE UNCHANGED cashVars
  BY <1>1, <1>6, TablesStay DEF cashVars, cashTables, StaffTypeOK
<1> QED BY <1>2, <1>3, <1>4, <1>5, <1>6 DEF CashNext

LEMMA CashInvHolds == CashSpec => []CashInv
BY InitCashInv, NextCashInv, PTL DEF CashSpec

\* What closed sessions expect and what deposits hold, although receipts are
\* being accepted during a count and two deposits race for a session, for any
\* number of sessions, receipts and calls at once and for any amounts: no
\* amount is assumed to be whole quanta, so a deposit may hold one more than
\* was counted, and a count has its reason as the column rounds it.
THEOREM CashIsAccountedFor == CashSpec => []CashAccountedFor
<1>1. CashInv => CashAccountedFor
  <2> SUFFICES ASSUME CashInv PROVE CashAccountedFor
    OBVIOUS
  <2>1. ASSUME NEW s \in Sessions
        PROVE  Cardinality({r \in BankRefs : s \in deposits[r].sessions})
                   = IF sessions[s].status = "deposited" THEN 1 ELSE 0
    <3>1. CASE sessions[s].status = "deposited"
      <4>1. PICK r \in BankRefs : s \in deposits[r].sessions
        BY <3>1 DEF CashInv, DepositsHold
      <4>2. {q \in BankRefs : s \in deposits[q].sessions} = {r}
        BY <4>1 DEF CashInv, DepositsHold
      <4> QED BY <3>1, <4>2, FS_Singleton
    <3>2. CASE sessions[s].status # "deposited"
      <4>1. {q \in BankRefs : s \in deposits[q].sessions} = {}
        BY <3>2 DEF CashInv, DepositsHold
      <4> QED BY <3>2, <4>1, FS_EmptySet
    <3> QED BY <3>1, <3>2
  <2>2. Slack \subseteq {0, 1}
    BY DEF Slack
  <2> QED BY <2>1, <2>2 DEF CashInv, DepositsHold, CashAccountedFor, DepositsAccountForCash
<1> QED BY <1>1, CashInvHolds, PTL

\* The rounding is all that can come between a deposit and the count: when
\* no slip names half a quantum, what RecordCashDeposit stores is what was
\* counted in the sessions it banks.
THEOREM WholeSlipsBankTheCount ==
    ASSUME WholeSlips
    PROVE  CashSpec => [](\A r \in BankRefs : deposits[r].amount = CountedIn(deposits[r].sessions))
<1>1. CashInv => \A r \in BankRefs : deposits[r].amount = CountedIn(deposits[r].sessions)
  <2> SUFFICES ASSUME CashInv, NEW r \in BankRefs
               PROVE  deposits[r].amount = CountedIn(deposits[r].sessions)
    OBVIOUS
  <2>1. deposits[r].amount - CountedIn(deposits[r].sessions) \in {0}
    BY DEF CashInv, DepositsHold, Slack
  <2>2. deposits[r].amount \in Nat /\ CountedIn(deposits[r].sessions) \in Int
    BY CashTypes, CountedTyped DEF CashInv, DepositRows
  <2> QED BY <2>1, <2>2
<1> QED BY <1>1, CashInvHolds, PTL

\* A session moves one place on, and keeps what was signed for.
MovesOn(s) ==
    \/ sessions'[s] = sessions[s]
    \/ sessions[s].status = "none" /\ sessions'[s].status = "open"
    \/ sessions[s].status = "open" /\ sessions'[s].status = "closed"
    \/ /\ sessions[s].status = "closed" /\ sessions'[s].status = "handed_over"
       /\ sessions'[s].expected = sessions[s].expected /\ sessions'[s].counted = sessions[s].counted
       /\ sessions'[s].variance_reason = sessions[s].variance_reason
    \/ /\ sessions[s].status = "handed_over" /\ sessions'[s].status = "deposited"
       /\ sessions'[s].expected = sessions[s].expected /\ sessions'[s].counted = sessions[s].counted
       /\ sessions'[s].variance_reason = sessions[s].variance_reason
       /\ sessions'[s].handed_over_to = sessions[s].handed_over_to

VerifiedStays(r) == deposits[r].status = "verified" => deposits'[r] = deposits[r]

LEMMA CustodySteps ==
    ASSUME CashInv, [CashNext]_cashVars
    PROVE  (\A s \in Sessions : MovesOn(s)) /\ (\A r \in BankRefs : VerifiedStays(r))
<1>1. /\ sessions \in [Sessions -> SessionRows] /\ deposits \in [BankRefs -> DepositRows]
      /\ cashCalls \in [CashCalls -> CallRows] /\ \A c \in CashCalls : CallFits(cashCalls[c])
  BY CashTypes DEF CashInv
<1>2. CASE sessions' = sessions /\ deposits' = deposits
  BY <1>2 DEF MovesOn, VerifiedStays
<1>3. ASSUME NEW by \in StaffIds, NEW t \in Sessions, OpenCashierSession(by, t)
      PROVE  \A s \in Sessions : MovesOn(s)
  <2>1. /\ sessions' = [sessions EXCEPT ![t].status = "open", ![t].cashier_id = by]
        /\ sessions[t].status = "none"
    BY <1>3 DEF OpenCashierSession, NoSession
  <2>2. sessions'[t].status = "open" /\ \A s \in Sessions \ {t} : sessions'[s] = sessions[s]
    BY <1>1, <2>1 DEF SessionRows
  <2> QED BY <2>1, <2>2 DEF MovesOn
<1>4. ASSUME NEW c \in CashCalls, CloseCashierSession(c) PROVE \A s \in Sessions : MovesOn(s)
  <2>1. cashCalls[c].op = "CloseCashierSession"
    BY <1>4 DEF CloseCashierSession, CommitCash
  <2>2. PICK t \in Sessions : cashCalls[c].on = {t} /\ sessions[t].status = "open"
    BY <1>1, <2>1 DEF CallFits
  <2>3. sessions' = [sessions EXCEPT ![t].status = "closed", ![t].expected = cashCalls[c].expected,
                                     ![t].counted = Stored(cashCalls[c].amount),
                                     ![t].variance_reason = cashCalls[c].reason]
    BY <1>4, <2>2 DEF CloseCashierSession
  <2>4. sessions'[t].status = "closed" /\ \A s \in Sessions \ {t} : sessions'[s] = sessions[s]
    BY <1>1, <2>3 DEF SessionRows
  <2> QED BY <2>2, <2>4 DEF MovesOn
<1>5. ASSUME NEW c \in CashCalls, AcceptCashHandover(c) PROVE \A s \in Sessions : MovesOn(s)
  <2>1. cashCalls[c].op = "AcceptCashHandover"
    BY <1>5 DEF AcceptCashHandover, CommitCash
  <2>2. PICK t \in Sessions : cashCalls[c].on = {t} /\ sessions[t].status = "closed"
    BY <1>1, <2>1 DEF CallFits
  <2>3. sessions' = [sessions EXCEPT ![t].status = "handed_over", ![t].handed_over_to = cashCalls[c].by]
    BY <1>5, <2>2 DEF AcceptCashHandover
  <2>4. /\ sessions'[t].status = "handed_over" /\ sessions'[t].expected = sessions[t].expected
        /\ sessions'[t].counted = sessions[t].counted
        /\ sessions'[t].variance_reason = sessions[t].variance_reason
        /\ \A s \in Sessions \ {t} : sessions'[s] = sessions[s]
    BY <1>1, <2>3 DEF SessionRows
  <2> QED BY <2>2, <2>4 DEF MovesOn
<1>6. ASSUME NEW c \in CashCalls, RecordCashDeposit(c)
      PROVE  (\A s \in Sessions : MovesOn(s)) /\ (\A r \in BankRefs : VerifiedStays(r))
  <2>0. PICK k : k = cashCalls[c]
    OBVIOUS
  <2>1. /\ deposits[k.key] = NoDeposit
        /\ \A s \in k.on : sessions[s].status = "handed_over"
        /\ \A s \in Sessions \ k.on : sessions'[s] = sessions[s]
        /\ \A s \in k.on : /\ sessions'[s].status = "deposited" /\ sessions'[s].expected = sessions[s].expected
                           /\ sessions'[s].counted = sessions[s].counted
                           /\ sessions'[s].variance_reason = sessions[s].variance_reason
                           /\ sessions'[s].handed_over_to = sessions[s].handed_over_to
        /\ \A r \in BankRefs \ {k.key} : deposits'[r] = deposits[r]
    BY <1>6, <2>0, DepositEffect
  <2>2. NoDeposit.status # "verified"
    BY DEF NoDeposit
  <2> QED BY <2>1, <2>2 DEF MovesOn, VerifiedStays
<1>7. ASSUME NEW c \in CashCalls, VerifyCashDeposit(c) PROVE \A r \in BankRefs : VerifiedStays(r)
  <2>1. \A r \in BankRefs : deposits[r].status # "recorded" => deposits'[r] = deposits[r]
    BY <1>7, VerifyEffect
  <2> QED BY <2>1 DEF VerifiedStays
<1>9. ASSUME UNCHANGED deposits PROVE \A r \in BankRefs : VerifiedStays(r)
  BY <1>9 DEF VerifiedStays
<1>10. CASE \E by \in StaffIds, s \in Sessions : OpenCashierSession(by, s)
  <2>1. UNCHANGED deposits
    BY <1>10 DEF OpenCashierSession
  <2> QED BY <1>10, <1>3, <1>9, <2>1
<1>11. CASE \E c \in CashCalls, by \in StaffIds :
               \/ \E s \in Sessions, k \in Keys, a \in Amounts : BeginReceipt(c, by, s, k, a)
               \/ \E s \in Sessions, counted \in Counts, reason \in BOOLEAN :
                      BeginClose(c, by, s, counted, reason)
               \/ \E s \in Sessions : BeginHandover(c, by, s)
               \/ \E S \in SUBSET Sessions \ {{}}, r \in BankRefs, amount \in Slips :
                      BeginDeposit(c, by, S, r, amount)
               \/ \E r \in BankRefs : ReadDeposit(c, by, r)
  <2>1. \A c, call : HoldRows(c, call) => UNCHANGED <<sessions, deposits>>
    BY DEF HoldRows, cashTables
  <2>2. UNCHANGED <<sessions, deposits>>
    BY <1>11, <2>1 DEF BeginReceipt, BeginClose, BeginHandover, BeginDeposit, ReadDeposit
  <2> QED BY <1>2, <2>2
<1>12. ASSUME NEW c \in CashCalls,
              \/ InsertContributionReceipt(c) \/ CloseCashierSession(c) \/ AcceptCashHandover(c)
              \/ RecordCashDeposit(c) \/ VerifyCashDeposit(c) \/ AbortCash(c)
       PROVE  (\A s \in Sessions : MovesOn(s)) /\ (\A r \in BankRefs : VerifiedStays(r))
  <2>1. CASE InsertContributionReceipt(c) \/ AbortCash(c)
    BY <2>1, <1>2 DEF InsertContributionReceipt, AbortCash, cashTables
  <2>2. CASE CloseCashierSession(c)
    <3>1. UNCHANGED deposits
      BY <2>2 DEF CloseCashierSession
    <3> QED BY <2>2, <3>1, <1>4, <1>9
  <2>3. CASE AcceptCashHandover(c)
    <3>1. UNCHANGED deposits
      BY <2>3 DEF AcceptCashHandover
    <3> QED BY <2>3, <3>1, <1>5, <1>9
  <2>4. CASE VerifyCashDeposit(c)
    <3>1. \A s \in Sessions : MovesOn(s)
      BY <2>4 DEF VerifyCashDeposit, MovesOn
    <3> QED BY <2>4, <3>1, <1>7
  <2> QED BY <1>12, <1>6, <2>1, <2>2, <2>3, <2>4
<1>13. CASE (StaffChanges /\ UNCHANGED <<cashTables, cashCalls>>) \/ UNCHANGED cashVars
  <2>1. UNCHANGED <<sessions, deposits>>
    BY <1>13 DEF cashVars, cashTables
  <2> QED BY <1>2, <2>1
<1> QED BY <1>10, <1>11, <1>12, <1>13 DEF CashNext

\* What a step of the till may do to custody, in the terms of CustodyMovesForward.
CustodyKept ==
    /\ \A s \in Sessions :
           LET a == sessions[s]
               b == sessions'[s]
           IN  /\ CustodyRank[a.status] <= CustodyRank[b.status]
               /\ CustodyRank[a.status] >= 2 =>
                      /\ b.expected = a.expected /\ b.counted = a.counted
                      /\ b.variance_reason = a.variance_reason
               /\ CustodyRank[a.status] >= 3 => b.handed_over_to = a.handed_over_to
    /\ \A r \in BankRefs : deposits[r].status = "verified" => deposits'[r] = deposits[r]

LEMMA CustodyIsKept == CashInv /\ [CashNext]_cashVars => CustodyKept
<1> SUFFICES ASSUME CashInv, [CashNext]_cashVars PROVE CustodyKept
  OBVIOUS
<1>1. (\A s \in Sessions : MovesOn(s)) /\ (\A r \in BankRefs : VerifiedStays(r))
  BY CustodySteps
<1>2. /\ CustodyRank["none"] = 0 /\ CustodyRank["open"] = 1 /\ CustodyRank["closed"] = 2
      /\ CustodyRank["handed_over"] = 3 /\ CustodyRank["deposited"] = 4
  BY DEF CustodyRank
<1>3. \A s \in Sessions : sessions[s].status \in {"none", "open", "closed", "handed_over", "deposited"}
  BY CashTypes DEF CashInv, SessionRows
<1> QED BY <1>1, <1>2, <1>3 DEF MovesOn, VerifiedStays, CustodyKept

-----------------------------------------------------------------------------
(* Roles.  A call waits with the role it was admitted with; roles are      *)
(* given once, so what the interceptor saw is true of the rows it writes.  *)

\* p was hired into a role that may call the method.
Holds(p, method) ==
    /\ p \in StaffIds /\ staff[p].role # "none"
    /\ roleHasPermission(staff[p].role, permissionForMethod[method])

\* A name in a row, or nobody's.
NamedInRole(p, method) == p = Nobody \/ Holds(p, method)

SessionInRole(s) == /\ NamedInRole(sessions[s].cashier_id, "OpenCashierSession")
                    /\ NamedInRole(sessions[s].handed_over_to, "AcceptCashHandover")
DepositInRole(r) == /\ NamedInRole(deposits[r].recorded_by, "RecordCashDeposit")
                    /\ NamedInRole(deposits[r].verified_by, "VerifyCashDeposit")

RolesInv ==
    /\ \A p \in StaffIds : staff[p].is_active \/ p \in late => staff[p].role # "none"
    /\ \A c \in CashCalls : cashCalls[c].op # "idle" => Holds(cashCalls[c].by, cashCalls[c].op)
    /\ \A s \in Sessions : SessionInRole(s)
    /\ \A r \in BankRefs : DepositInRole(r)

LEMMA EntersInRole ==
    ASSUME RolesInv, NEW by \in StaffIds,
           NEW op \in {"OpenCashierSession", "CreateCashContribution", "CloseCashierSession",
                       "AcceptCashHandover", "RecordCashDeposit", "VerifyCashDeposit"},
           Enters(by, op)
    PROVE  Holds(by, op) /\ late' \subseteq late
<1>1. /\ permissionForMethod["OpenCashierSession"] = "cash.record"
      /\ permissionForMethod["CreateCashContribution"] = "cash.record"
      /\ permissionForMethod["CloseCashierSession"] = "cash.record"
      /\ permissionForMethod["AcceptCashHandover"] = "cash.approve"
      /\ permissionForMethod["RecordCashDeposit"] = "cash.approve"
      /\ permissionForMethod["VerifyCashDeposit"] = "cash.approve"
  BY DEF permissionForMethod
<1>2. permissionForMethod[op] # ""
  BY <1>1
<1> QED BY <1>2 DEF Enters, Admitted, RolesInv, Holds

\* A role is given once: hiring needs a login that nobody has.
LEMMA RolesAreGivenOnce ==
    ASSUME StaffTypeOK, RolesInv, StaffChanges
    PROVE  /\ \A p \in StaffIds : staff'[p].is_active \/ p \in late' => staff'[p].role # "none"
           /\ \A p, method : Holds(p, method) => Holds(p, method)'
<1>1. PICK admin0, s \in StaffIds :
          \/ \E role \in HiredRoles : CreateStaffUser(admin0, s, role) /\ UNCHANGED late
          \/ DeactivateStaffUser(admin0, s) /\ late' \in {late, late \cup {s}}
  BY DEF StaffChanges
<1>2. HiredRoles \subseteq Roles /\ "none" \notin Roles
  BY StaffConstants DEF Roles
<1>3. ASSUME NEW role \in HiredRoles, CreateStaffUser(admin0, s, role), UNCHANGED late
      PROVE  /\ \A p \in StaffIds : staff'[p].is_active \/ p \in late' => staff'[p].role # "none"
             /\ \A p \in StaffIds : staff[p].role # "none" => staff'[p].role = staff[p].role
  BY <1>2, <1>3 DEF CreateStaffUser, NotHired, RolesInv, StaffTypeOK
<1>4. ASSUME DeactivateStaffUser(admin0, s), late' \in {late, late \cup {s}}
      PROVE  /\ \A p \in StaffIds : staff'[p].is_active \/ p \in late' => staff'[p].role # "none"
             /\ \A p \in StaffIds : staff[p].role # "none" => staff'[p].role = staff[p].role
  BY <1>4 DEF DeactivateStaffUser, RolesInv, StaffTypeOK
<1> QED BY <1>1, <1>3, <1>4 DEF Holds

\* With the same staff, roles are kept if every name that is new in a row or a
\* call is in its role.
LEMMA NamesKeepRoles ==
    ASSUME RolesInv, staff' = staff, late' \subseteq late,
           \A c \in CashCalls : cashCalls'[c].op = "idle" \/ Holds(cashCalls'[c].by, cashCalls'[c].op),
           \A s \in Sessions : /\ NamedInRole(sessions'[s].cashier_id, "OpenCashierSession")
                               /\ NamedInRole(sessions'[s].handed_over_to, "AcceptCashHandover"),
           \A r \in BankRefs : /\ NamedInRole(deposits'[r].recorded_by, "RecordCashDeposit")
                               /\ NamedInRole(deposits'[r].verified_by, "VerifyCashDeposit")
    PROVE  RolesInv'
<1>1. \A p, method : Holds(p, method)' <=> Holds(p, method)
  BY DEF Holds
<1>2. \A c \in CashCalls : cashCalls'[c].op # "idle" => Holds(cashCalls[c].by, cashCalls[c].op)'
  BY DEF Holds
<1>3. \A s \in Sessions : SessionInRole(s)'
  BY DEF SessionInRole, NamedInRole, Holds
<1>4. \A r \in BankRefs : DepositInRole(r)'
  BY DEF DepositInRole, NamedInRole, Holds
<1> QED BY <1>2, <1>3, <1>4 DEF RolesInv

LEMMA NextRolesInv == CashInv /\ RolesInv /\ [CashNext]_cashVars => RolesInv'
<1> SUFFICES ASSUME CashInv, RolesInv, [CashNext]_cashVars PROVE RolesInv'
  OBVIOUS
<1>1. /\ sessions \in [Sessions -> SessionRows] /\ deposits \in [BankRefs -> DepositRows]
      /\ cashCalls \in [CashCalls -> CallRows] /\ StaffTypeOK
      /\ \A c \in CashCalls : CallFits(cashCalls[c])
  BY CashTypes DEF CashInv
<1>2. /\ \A c \in CashCalls : cashCalls[c].op = "idle" \/ Holds(cashCalls[c].by, cashCalls[c].op)
      /\ \A s \in Sessions : /\ NamedInRole(sessions[s].cashier_id, "OpenCashierSession")
                             /\ NamedInRole(sessions[s].handed_over_to, "AcceptCashHandover")
      /\ \A r \in BankRefs : /\ NamedInRole(deposits[r].recorded_by, "RecordCashDeposit")
                             /\ NamedInRole(deposits[r].verified_by, "VerifyCashDeposit")
  BY DEF RolesInv, SessionInRole, DepositInRole
<1>3. CASE StaffChanges /\ UNCHANGED <<cashTables, cashCalls>>
  <2>1. sessions' = sessions /\ deposits' = deposits /\ cashCalls' = cashCalls
    BY <1>3 DEF cashTables
  <2>2. /\ \A p \in StaffIds : staff'[p].is_active \/ p \in late' => staff'[p].role # "none"
        /\ \A p, method : Holds(p, method) => Holds(p, method)'
    BY <1>1, <1>3, RolesAreGivenOnce
  <2>3. \A c \in CashCalls : cashCalls'[c].op # "idle" => Holds(cashCalls[c].by, cashCalls[c].op)'
    BY <1>2, <2>1, <2>2 DEF Holds
  <2>4. \A s \in Sessions : SessionInRole(s)'
    BY <1>2, <2>1, <2>2 DEF SessionInRole, NamedInRole, Holds
  <2>5. \A r \in BankRefs : DepositInRole(r)'
    BY <1>2, <2>1, <2>2 DEF DepositInRole, NamedInRole, Holds
  <2> QED BY <2>2, <2>3, <2>4, <2>5 DEF RolesInv
<1>4. ASSUME NEW by \in StaffIds, NEW t \in Sessions, OpenCashierSession(by, t) PROVE RolesInv'
  <2>1. /\ sessions' = [sessions EXCEPT ![t].status = "open", ![t].cashier_id = by]
        /\ staff' = staff /\ deposits' = deposits /\ cashCalls' = cashCalls
    BY <1>4 DEF OpenCashierSession
  <2>2. Holds(by, "OpenCashierSession") /\ late' \subseteq late
    BY <1>4, EntersInRole DEF OpenCashierSession
  <2>3. \A s \in Sessions : /\ sessions'[s].cashier_id \in {sessions[s].cashier_id, by}
                            /\ sessions'[s].handed_over_to = sessions[s].handed_over_to
    BY <1>1, <2>1 DEF SessionRows
  <2>4. \A s \in Sessions : /\ NamedInRole(sessions'[s].cashier_id, "OpenCashierSession")
                            /\ NamedInRole(sessions'[s].handed_over_to, "AcceptCashHandover")
    BY <1>2, <2>2, <2>3 DEF NamedInRole
  <2> QED BY <1>2, <2>1, <2>2, <2>4, NamesKeepRoles
<1>5. ASSUME NEW c \in CashCalls, NEW by \in StaffIds,
             \/ \E s \in Sessions, k \in Keys, a \in Amounts : BeginReceipt(c, by, s, k, a)
             \/ \E s \in Sessions, counted \in Counts, reason \in BOOLEAN :
                    BeginClose(c, by, s, counted, reason)
             \/ \E s \in Sessions : BeginHandover(c, by, s)
             \/ \E S \in SUBSET Sessions \ {{}}, r \in BankRefs, amount \in Slips :
                    BeginDeposit(c, by, S, r, amount)
             \/ \E r \in BankRefs : ReadDeposit(c, by, r)
      PROVE  RolesInv'
  <2>1. PICK call : /\ HoldRows(c, call) /\ call.by = by
                    /\ call.op \in {"CreateCashContribution", "CloseCashierSession",
                                    "AcceptCashHandover", "RecordCashDeposit", "VerifyCashDeposit"}
    <3>1. CASE \E s \in Sessions, k \in Keys, a \in Amounts : BeginReceipt(c, by, s, k, a)
      BY <3>1 DEF BeginReceipt
    <3>2. CASE \E s \in Sessions, counted \in Counts, reason \in BOOLEAN :
                  BeginClose(c, by, s, counted, reason)
      BY <3>2 DEF BeginClose
    <3>3. CASE \E s \in Sessions : BeginHandover(c, by, s)
      <4>1. PICK s, call : /\ call = [NoCall EXCEPT !.op = "AcceptCashHandover", !.by = by, !.on = {s}]
                           /\ HoldRows(c, call)
        BY <3>3 DEF BeginHandover
      <4>2. call.op = "AcceptCashHandover" /\ call.by = by
        BY <4>1 DEF NoCall
      <4> QED BY <4>1, <4>2
    <3>4. CASE \E S \in SUBSET Sessions \ {{}}, r \in BankRefs, amount \in Slips :
                  BeginDeposit(c, by, S, r, amount)
      BY <3>4 DEF BeginDeposit
    <3>5. CASE \E r \in BankRefs : ReadDeposit(c, by, r)
      <4>1. PICK r, call : /\ call = [NoCall EXCEPT !.op = "VerifyCashDeposit", !.by = by, !.key = r]
                           /\ HoldRows(c, call)
        BY <3>5 DEF ReadDeposit
      <4>2. call.op = "VerifyCashDeposit" /\ call.by = by
        BY <4>1 DEF NoCall
      <4> QED BY <4>1, <4>2
    <3> QED BY <1>5, <3>1, <3>2, <3>3, <3>4, <3>5
  <2>2. /\ cashCalls' = [cashCalls EXCEPT ![c] = call] /\ Enters(by, call.op)
        /\ staff' = staff /\ sessions' = sessions /\ deposits' = deposits
    BY <2>1 DEF HoldRows, cashTables
  <2>3. Holds(by, call.op) /\ late' \subseteq late
    BY <2>1, <2>2, EntersInRole
  <2>4. \A d \in CashCalls : cashCalls'[d].op = "idle" \/ Holds(cashCalls'[d].by, cashCalls'[d].op)
    BY <1>1, <1>2, <2>1, <2>2, <2>3
  <2> QED BY <1>2, <2>2, <2>3, <2>4, NamesKeepRoles
<1>6. ASSUME NEW c \in CashCalls,
             \/ InsertContributionReceipt(c) \/ CloseCashierSession(c) \/ AcceptCashHandover(c)
             \/ RecordCashDeposit(c) \/ VerifyCashDeposit(c) \/ AbortCash(c)
      PROVE  RolesInv'
  <2>1. /\ cashCalls' = [cashCalls EXCEPT ![c] = NoCall] /\ staff' = staff /\ late' = late
    BY <1>6 DEF InsertContributionReceipt, CloseCashierSession, AcceptCashHandover,
                RecordCashDeposit, VerifyCashDeposit, AbortCash, CommitCash
  <2>2. \A d \in CashCalls : cashCalls'[d].op = "idle" \/ Holds(cashCalls'[d].by, cashCalls'[d].op)
    <3>1. NoCall.op = "idle"
      BY DEF NoCall
    <3> QED BY <1>1, <1>2, <2>1, <3>1
  <2>3. PICK k : k = cashCalls[c] /\ CallFits(k)
    BY <1>1
  <2>4. CASE InsertContributionReceipt(c) \/ AbortCash(c)
    <3>1. sessions' = sessions /\ deposits' = deposits
      BY <2>4 DEF InsertContributionReceipt, AbortCash, cashTables
    <3> QED BY <1>2, <2>1, <2>2, <3>1, NamesKeepRoles
  <2>5. CASE CloseCashierSession(c) \/ AcceptCashHandover(c)
    <3>1. deposits' = deposits
      BY <2>5 DEF CloseCashierSession, AcceptCashHandover
    <3>2. k.op \in {"CloseCashierSession", "AcceptCashHandover"}
      BY <2>3, <2>5 DEF CloseCashierSession, AcceptCashHandover, CommitCash
    <3>3. \A s \in Sessions :
              /\ sessions'[s].cashier_id = sessions[s].cashier_id
              /\ \/ sessions'[s].handed_over_to = sessions[s].handed_over_to
                 \/ sessions'[s].handed_over_to = k.by /\ k.op = "AcceptCashHandover"
      <4>1. CASE CloseCashierSession(c)
        <5>1. PICK t : sessions' = [sessions EXCEPT ![t].status = "closed",
                           ![t].expected = cashCalls[c].expected,
                           ![t].counted = Stored(cashCalls[c].amount),
                           ![t].variance_reason = cashCalls[c].reason]
          BY <4>1 DEF CloseCashierSession
        <5> QED BY <1>1, <5>1 DEF SessionRows
      <4>2. CASE AcceptCashHandover(c)
        <5>1. PICK t : sessions' = [sessions EXCEPT ![t].status = "handed_over",
                                                    ![t].handed_over_to = k.by]
          BY <2>3, <4>2 DEF AcceptCashHandover
        <5>2. k.op = "AcceptCashHandover"
          BY <2>3, <4>2 DEF AcceptCashHandover, CommitCash
        <5> QED BY <1>1, <5>1, <5>2 DEF SessionRows
      <4> QED BY <2>5, <4>1, <4>2
    <3>4. Holds(k.by, k.op)
      BY <1>2, <2>3, <3>2
    <3>5. \A s \in Sessions : /\ NamedInRole(sessions'[s].cashier_id, "OpenCashierSession")
                              /\ NamedInRole(sessions'[s].handed_over_to, "AcceptCashHandover")
      BY <1>2, <3>3, <3>4 DEF NamedInRole
    <3> QED BY <1>2, <2>1, <2>2, <3>1, <3>5, NamesKeepRoles
  <2>6. CASE RecordCashDeposit(c)
    <3>1. k.op = "RecordCashDeposit" /\ Holds(k.by, k.op)
      BY <1>2, <2>3, <2>6 DEF RecordCashDeposit, CommitCash
    <3>2. \A s \in Sessions : /\ sessions'[s].cashier_id = sessions[s].cashier_id
                              /\ sessions'[s].handed_over_to = sessions[s].handed_over_to
      BY <1>1, <2>6 DEF RecordCashDeposit, SessionRows
    <3>3. PICK d : /\ d = [status |-> "recorded", amount |-> Stored(k.amount), sessions |-> k.on,
                           recorded_by |-> k.by, verified_by |-> Nobody]
                   /\ deposits' = [deposits EXCEPT ![k.key] = d]
      BY <2>3, <2>6 DEF RecordCashDeposit
    <3>4. d.recorded_by = k.by /\ d.verified_by = Nobody
      BY <3>3
    <3>5. \A r \in BankRefs : deposits'[r] \in {deposits[r], d}
      BY <1>1, <3>3
    <3>6. \A r \in BankRefs : /\ NamedInRole(deposits'[r].recorded_by, "RecordCashDeposit")
                              /\ NamedInRole(deposits'[r].verified_by, "VerifyCashDeposit")
      BY <1>2, <3>1, <3>4, <3>5 DEF NamedInRole
    <3> QED BY <1>2, <2>1, <2>2, <3>2, <3>6, NamesKeepRoles
  <2>7. CASE VerifyCashDeposit(c)
    <3>1. k.op = "VerifyCashDeposit" /\ Holds(k.by, k.op) /\ sessions' = sessions
      BY <1>2, <2>3, <2>7 DEF VerifyCashDeposit, CommitCash
    <3>2. \/ deposits' = deposits
          \/ deposits' = [deposits EXCEPT ![k.key].status = "verified", ![k.key].verified_by = k.by]
      BY <2>3, <2>7 DEF VerifyCashDeposit
    <3>3. \A r \in BankRefs : /\ deposits'[r].recorded_by = deposits[r].recorded_by
                              /\ deposits'[r].verified_by \in {deposits[r].verified_by, k.by}
      BY <1>1, <3>2 DEF DepositRows
    <3>4. \A r \in BankRefs : /\ NamedInRole(deposits'[r].recorded_by, "RecordCashDeposit")
                              /\ NamedInRole(deposits'[r].verified_by, "VerifyCashDeposit")
      BY <1>2, <3>1, <3>3 DEF NamedInRole
    <3> QED BY <1>2, <2>1, <2>2, <3>1, <3>4, NamesKeepRoles
  <2> QED BY <1>6, <2>4, <2>5, <2>6, <2>7
<1>7. CASE UNCHANGED cashVars
  BY <1>2, <1>7, NamesKeepRoles DEF cashVars
<1> QED BY <1>3, <1>4, <1>5, <1>6, <1>7 DEF CashNext

LEMMA InitRolesInv == CashInit => RolesInv
<1> SUFFICES ASSUME CashInit PROVE RolesInv
  OBVIOUS
<1>1. \A p \in StaffIds : staff[p].is_active \/ p \in late => staff[p].role # "none"
  BY DEF CashInit, StaffInit
<1>2. /\ NoSession.cashier_id = Nobody /\ NoSession.handed_over_to = Nobody
      /\ NoDeposit.recorded_by = Nobody /\ NoDeposit.verified_by = Nobody /\ NoCall.op = "idle"
  BY DEF NoSession, NoDeposit, NoCall
<1> QED BY <1>1, <1>2 DEF CashInit, RolesInv, SessionInRole, DepositInRole, NamedInRole

\* Sessions are opened, cash is taken over and deposits are recorded and verified
\* only by people whose role has the permission the interceptor asks for, in
\* calls that outlive their caller's account too.
THEOREM CustodyStaysInRole == CashSpec => []CustodyInRole
<1>1. CashInv /\ [CashNext]_cashVars /\ RolesInv => RolesInv'
  BY NextRolesInv
<1>2. RolesInv => CustodyInRole
  BY DEF RolesInv, CustodyInRole, SessionInRole, DepositInRole, NamedInRole, Holds
<1> QED BY <1>1, <1>2, InitRolesInv, CashInvHolds, PTL DEF CashSpec

-----------------------------------------------------------------------------
(* Credits.  A transaction that holds the credit row has read what is left *)
(* of the credit, or an operation to review; nobody else changes either    *)
(* until it commits.                                                       *)

\* What an open transaction of ManageCredit knows.
CreditCallFits(x) ==
    x.action # "idle" =>
        /\ x.operation \in OperationIds /\ x.by \in StaffIds
        /\ \E k \in CreditIds :
               /\ x.credit = {k}
               /\ x.action \in SpendActions => x.amount <= GetCreditFunds(k)
               /\ x.action \in ReviewActions =>
                      /\ operations[x.operation].credit = {k}
                      /\ operations[x.operation].action = "request_refund"
                      /\ operations[x.operation].requested_by # x.by
                      /\ IF x.action = "record_refund"
                         THEN operations[x.operation].status = "approved" /\ x.reference \in PayoutRefs
                         ELSE operations[x.operation].status = "pending"

CreditsHeldOnce ==
    \A c, d \in CreditCalls : c # d => creditCalls[c].credit \cap creditCalls[d].credit = {}

\* An approved refund was approved by another officer, and a payout reference
\* is on one operation only.
RefundsReviewed ==
    \A o \in OperationIds :
        /\ operations[o].action = "request_refund" /\ operations[o].status \in {"approved", "completed"} =>
               operations[o].reviewed_by \notin {NoStaff, operations[o].requested_by}
        /\ operations[o].action = "request_refund" /\ operations[o].status = "completed" =>
               /\ operations[o].completed_by \notin {NoStaff, operations[o].requested_by}
               /\ operations[o].payout_reference # "none"
        /\ operations[o].payout_reference # "none" =>
               \A p \in OperationIds \ {o} :
                   operations[p].payout_reference # operations[o].payout_reference

OperationRows == [credit : SUBSET CreditIds, action : SpendActions \cup {"none"}, amount : Nat,
                  status : {"none", "pending", "approved", "completed", "rejected"},
                  requested_by : StaffIds \cup {NoStaff}, reviewed_by : StaffIds \cup {NoStaff},
                  completed_by : StaffIds \cup {NoStaff}, payout_reference : PayoutRefs \cup {"none"}]
CreditCallRows == [credit : SUBSET CreditIds, action : SpendActions \cup ReviewActions \cup {"idle"},
                   by : StaffIds \cup {NoStaff}, operation : OperationIds \cup {"none"}, amount : Nat,
                   reference : PayoutRefs \cup {"none"}]

CreditTables ==
    /\ closedOwners \subseteq CreditIds
    /\ operations \in [OperationIds -> OperationRows]
    /\ ledgerRows \subseteq OperationIds \X SpendActions \X Nat
    /\ creditCalls \in [CreditCalls -> CreditCallRows]

CreditsInv ==
    /\ CreditTables
    /\ \A c \in CreditCalls : CreditCallFits(creditCalls[c])
    /\ CreditsHeldOnce
    /\ CreditNeverOverspent
    /\ SpentMeansPosted
    /\ RefundsReviewed

\* Operations in these states hold or have spent some of their credit.
Taken == {"pending", "approved", "completed"}

TakenBy(ops, k, statuses) == {o \in OperationIds : k \in ops[o].credit /\ ops[o].status \in statuses}

SumOf(ops, k, statuses) ==
    SumFunctionOnSet([o \in OperationIds |-> ops[o].amount], TakenBy(ops, k, statuses))

\* What is reserved and what is used add up to what is taken.
LEMMA TakenSplits ==
    ASSUME NEW ops \in [OperationIds -> OperationRows], NEW k
    PROVE  /\ SumOf(ops, k, Taken) \in Nat
           /\ SumOf(ops, k, {"pending", "approved"}) \in Nat
           /\ SumOf(ops, k, {"completed"}) \in Nat
           /\ SumOf(ops, k, Taken) = SumOf(ops, k, {"pending", "approved"}) + SumOf(ops, k, {"completed"})
<1> DEFINE f == [o \in OperationIds |-> ops[o].amount]
           S == TakenBy(ops, k, {"pending", "approved"})
           R == TakenBy(ops, k, {"completed"})
           T == TakenBy(ops, k, Taken)
<1>1. T = S \cup R /\ S \cap R = {}
  BY DEF TakenBy, Taken
<1>2. IsFiniteSet(T) /\ IsFiniteSet(S) /\ IsFiniteSet(R)
  BY CreditConstants, FS_Subset DEF TakenBy
<1>3. T \subseteq OperationIds /\ \A o \in OperationIds : f[o] \in Nat
  BY DEF TakenBy, OperationRows
<1> HIDE DEF f, S, R, T
<1>4. SumFunctionOnSet(f, S \cup R) = SumFunctionOnSet(f, S) + SumFunctionOnSet(f, R)
  BY <1>1, <1>2, <1>3, SumSplit
<1>5. /\ SumFunctionOnSet(f, T) \in Nat /\ SumFunctionOnSet(f, S) \in Nat
      /\ SumFunctionOnSet(f, R) \in Nat
  BY <1>1, <1>2, <1>3, SumNat
<1> QED BY <1>1, <1>4, <1>5 DEF SumOf, f, S, R, T

LEMMA FundsNow ==
    ASSUME operations \in [OperationIds -> OperationRows], NEW k
    PROVE  /\ SumOf(operations, k, Taken) \in Nat
           /\ Reserved(k) + Used(k) = SumOf(operations, k, Taken)
           /\ GetCreditFunds(k) = CreditAmount - SumOf(operations, k, Taken)
<1>1. /\ Reserved(k) = SumOf(operations, k, {"pending", "approved"})
      /\ Used(k) = SumOf(operations, k, {"completed"})
  BY DEF Reserved, Used, AmountIn, SumOf, TakenBy
<1> QED BY <1>1, TakenSplits, CreditConstants DEF GetCreditFunds

LEMMA FundsNext ==
    ASSUME operations' \in [OperationIds -> OperationRows], NEW k
    PROVE  /\ SumOf(operations', k, Taken) \in Nat
           /\ Reserved(k)' + Used(k)' = SumOf(operations', k, Taken)
           /\ GetCreditFunds(k)' = CreditAmount - SumOf(operations', k, Taken)
<1>1. /\ Reserved(k)' = SumOf(operations', k, {"pending", "approved"})
      /\ Used(k)' = SumOf(operations', k, {"completed"})
  BY DEF Reserved, Used, AmountIn, SumOf, TakenBy
<1> QED BY <1>1, TakenSplits, CreditConstants DEF GetCreditFunds

LEMMA NoMoreTaken ==
    ASSUME NEW ops \in [OperationIds -> OperationRows], NEW new \in [OperationIds -> OperationRows],
           NEW k,
           \A o \in OperationIds :
               k \in new[o].credit /\ new[o].status \in Taken =>
                   /\ k \in ops[o].credit /\ ops[o].status \in Taken
                   /\ new[o].amount = ops[o].amount
    PROVE  SumOf(new, k, Taken) <= SumOf(ops, k, Taken)
<1> DEFINE f == [o \in OperationIds |-> ops[o].amount]
           g == [o \in OperationIds |-> new[o].amount]
           S == TakenBy(ops, k, Taken)
           T == TakenBy(new, k, Taken)
<1>1. T \subseteq S /\ S \subseteq OperationIds /\ \A o \in T : f[o] = g[o]
  BY DEF TakenBy
<1>2. IsFiniteSet(S) /\ IsFiniteSet(T)
  BY CreditConstants, FS_Subset DEF TakenBy
<1>3. \A o \in OperationIds : f[o] \in Nat /\ g[o] \in Nat
  BY DEF OperationRows
<1> HIDE DEF f, g, S, T
<1>4. SumFunctionOnSet(f, T) = SumFunctionOnSet(g, T)
  BY <1>1, <1>2, <1>3, SumSame
<1>5. SumFunctionOnSet(f, T) <= SumFunctionOnSet(f, S)
  BY <1>1, <1>2, <1>3, SumMonotone
<1> QED BY <1>4, <1>5 DEF SumOf, f, g, S, T

LEMMA OneMoreTaken ==
    ASSUME NEW ops \in [OperationIds -> OperationRows], NEW new \in [OperationIds -> OperationRows],
           NEW k, NEW o \in OperationIds, ops[o].status \notin Taken,
           k \in new[o].credit, new[o].status \in Taken,
           \A p \in OperationIds \ {o} : new[p] = ops[p]
    PROVE  SumOf(new, k, Taken) = SumOf(ops, k, Taken) + new[o].amount
<1> DEFINE f == [p \in OperationIds |-> ops[p].amount]
           g == [p \in OperationIds |-> new[p].amount]
           S == TakenBy(ops, k, Taken)
           T == TakenBy(new, k, Taken)
<1>1. T = S \cup {o} /\ o \notin S /\ S \subseteq OperationIds /\ \A p \in S : f[p] = g[p]
  BY DEF TakenBy
<1>2. IsFiniteSet(S)
  BY CreditConstants, FS_Subset DEF TakenBy
<1>3. (\A p \in OperationIds : f[p] \in Nat /\ g[p] \in Nat) /\ g[o] = new[o].amount
  BY DEF OperationRows
<1> HIDE DEF f, g, S, T
<1>4. SumFunctionOnSet(f, S) = SumFunctionOnSet(g, S)
  BY <1>1, <1>2, <1>3, SumSame
<1>5. SumFunctionOnSet(g, S \cup {o}) = g[o] + SumFunctionOnSet(g, S)
  <2>1. \A y \in S \cup {o} : g[y] \in Int
    BY <1>1, <1>3
  <2>2. o \notin S
    BY <1>1
  <2> QED BY <1>2, <2>1, <2>2, SumAdd
<1>6. SumFunctionOnSet(g, S) \in Nat
  BY <1>1, <1>2, <1>3, SumNat
<1> QED BY <1>1, <1>3, <1>4, <1>5, <1>6 DEF SumOf, f, g, S, T

-----------------------------------------------------------------------------
\* A transaction begins: it locks a credit that nobody holds.
LEMMA BeginCreditKeeps ==
    ASSUME CreditsInv, NEW c \in CreditCalls, NEW k \in CreditIds, NEW call \in CreditCallRows,
           call.credit = {k}, CreditCallFits(call), BeginCredit(c, k, call)
    PROVE  CreditsInv'
<1>1. /\ creditCalls' = [creditCalls EXCEPT ![c] = call]
      /\ closedOwners' = closedOwners /\ operations' = operations /\ ledgerRows' = ledgerRows
      /\ CreditIsFree(k)
  BY DEF BeginCredit
<1>2. CreditTables
  BY DEF CreditsInv
<1>3. CreditTables' /\ creditCalls'[c] = call
      /\ \A d \in CreditCalls : d # c => creditCalls'[d] = creditCalls[d]
  BY <1>1, <1>2 DEF CreditTables
<1>4. \A x : GetCreditFunds(x)' = GetCreditFunds(x) /\ Reserved(x)' = Reserved(x) /\ Used(x)' = Used(x)
  BY <1>1 DEF GetCreditFunds, Reserved, Used, AmountIn
<1>5. ASSUME NEW d \in CreditCalls PROVE CreditCallFits(creditCalls[d])'
  <2> SUFFICES ASSUME NEW x, x = creditCalls'[d] PROVE CreditCallFits(x)'
    OBVIOUS
  <2>1. CreditCallFits(x)
    BY <1>3 DEF CreditsInv
  <2> QED BY <1>1, <1>4, <2>1 DEF CreditCallFits
<1>6. CreditsHeldOnce'
  BY <1>1, <1>3 DEF CreditsInv, CreditsHeldOnce, CreditIsFree
<1>7. CreditNeverOverspent' /\ SpentMeansPosted' /\ RefundsReviewed'
  BY <1>1, <1>4 DEF CreditsInv, CreditNeverOverspent, SpentMeansPosted, RefundsReviewed
<1> QED BY <1>3, <1>5, <1>6, <1>7 DEF CreditsInv

LEMMA BeginSpendKeeps ==
    ASSUME CreditsInv, NEW c \in CreditCalls, NEW by \in StaffIds, NEW k \in CreditIds,
           NEW o \in OperationIds, NEW action \in SpendActions, NEW amount \in OperationAmounts,
           BeginSpend(c, by, k, o, action, amount)
    PROVE  CreditsInv'
<1> DEFINE call == [credit |-> {k}, action |-> action, by |-> by, operation |-> o,
                    amount |-> amount, reference |-> "none"]
<1>1. call \in CreditCallRows
  BY CreditConstants DEF CreditCallRows
<1>2. amount <= GetCreditFunds(k)
  <2>1. operations \in [OperationIds -> OperationRows]
    BY DEF CreditsInv, CreditTables
  <2>2. GetCreditFunds(k) \in Int /\ amount \in Int
    BY <2>1, FundsNow, CreditConstants
  <2> QED BY <2>2 DEF BeginSpend
<1>3. CreditCallFits(call)
  BY <1>2 DEF CreditCallFits, SpendActions, ReviewActions
<1>4. BeginCredit(c, k, call) /\ call.credit = {k}
  BY DEF BeginSpend
<1> HIDE DEF call
<1> QED BY <1>1, <1>3, <1>4, BeginCreditKeeps

LEMMA BeginReviewKeeps ==
    ASSUME CreditsInv, NEW c \in CreditCalls, NEW by \in StaffIds, NEW k \in CreditIds,
           NEW o \in OperationIds, NEW action \in ReviewActions, NEW reference \in PayoutRefs \cup {"none"},
           action = "record_refund" => reference \in PayoutRefs,
           BeginReview(c, by, k, o, action, reference)
    PROVE  CreditsInv'
<1> DEFINE call == [credit |-> {k}, action |-> action, by |-> by, operation |-> o,
                    amount |-> 0, reference |-> reference]
<1>1. call \in CreditCallRows
  BY DEF CreditCallRows
<1>2. action \notin SpendActions
  BY DEF SpendActions, ReviewActions
<1>3. CreditCallFits(call)
  BY <1>2 DEF CreditCallFits, BeginReview, AnotherOfficer, MayRecord
<1>4. BeginCredit(c, k, call) /\ call.credit = {k}
  BY DEF BeginReview
<1> HIDE DEF call
<1> QED BY <1>1, <1>3, <1>4, BeginCreditKeeps

\* A transaction ends.  It has changed operations of its own credit only, and
\* taken nothing from another one: the other transactions know what they knew.
LEMMA CreditCallEnds ==
    ASSUME CreditsInv, NEW c \in CreditCalls, CommitCredit(c),
           operations' \in [OperationIds -> OperationRows],
           ledgerRows' \subseteq OperationIds \X SpendActions \X Nat,
           \A o \in OperationIds : operations'[o] # operations[o] =>
               operations[o].credit \subseteq creditCalls[c].credit,
           \A k \in CreditIds \ creditCalls[c].credit :
               SumOf(operations', k, Taken) <= SumOf(operations, k, Taken)
    PROVE  /\ CreditTables'
           /\ \A d \in CreditCalls : CreditCallFits(creditCalls[d])'
           /\ CreditsHeldOnce'
<1>1. creditCalls' = [creditCalls EXCEPT ![c] = NoCreditCall] /\ closedOwners' = closedOwners
  BY DEF CommitCredit
<1>2. CreditTables /\ operations \in [OperationIds -> OperationRows]
      /\ creditCalls \in [CreditCalls -> CreditCallRows]
  BY DEF CreditsInv, CreditTables
<1>3. NoCreditCall \in CreditCallRows /\ NoCreditCall.action = "idle" /\ NoCreditCall.credit = {}
  BY DEF NoCreditCall, CreditCallRows
<1>4. creditCalls' \in [CreditCalls -> CreditCallRows] /\ creditCalls'[c] = NoCreditCall
      /\ \A d \in CreditCalls : d # c => creditCalls'[d] = creditCalls[d]
  BY <1>1, <1>2, <1>3
<1>5. CreditTables'
  BY <1>1, <1>2, <1>4 DEF CreditTables
<1>6. ASSUME NEW d \in CreditCalls PROVE CreditCallFits(creditCalls[d])'
  <2> SUFFICES ASSUME NEW x, x = creditCalls'[d], x.action # "idle" PROVE CreditCallFits(x)'
    BY DEF CreditCallFits
  <2>1. d # c /\ x = creditCalls[d] /\ CreditCallFits(x)
    BY <1>3, <1>4 DEF CreditsInv
  <2>2. x.operation \in OperationIds /\ x.by \in StaffIds /\ x.amount \in Nat
    BY <1>2, <2>1 DEF CreditCallFits, CreditCallRows
  <2>3. PICK k \in CreditIds :
               /\ x.credit = {k}
               /\ x.action \in SpendActions => x.amount <= GetCreditFunds(k)
               /\ x.action \in ReviewActions =>
                      /\ operations[x.operation].credit = {k}
                      /\ operations[x.operation].action = "request_refund"
                      /\ operations[x.operation].requested_by # x.by
                      /\ IF x.action = "record_refund"
                         THEN operations[x.operation].status = "approved" /\ x.reference \in PayoutRefs
                         ELSE operations[x.operation].status = "pending"
    BY <2>1 DEF CreditCallFits
  <2>4. k \notin creditCalls[c].credit
    BY <2>1, <2>3 DEF CreditsInv, CreditsHeldOnce
  <2>5. x.action \in SpendActions => x.amount <= GetCreditFunds(k)'
    <3>1. SumOf(operations', k, Taken) <= SumOf(operations, k, Taken)
      BY <2>4
    <3>2. /\ SumOf(operations, k, Taken) \in Nat
          /\ GetCreditFunds(k) = CreditAmount - SumOf(operations, k, Taken)
      BY <1>2, FundsNow
    <3>3. /\ SumOf(operations', k, Taken) \in Nat
          /\ GetCreditFunds(k)' = CreditAmount - SumOf(operations', k, Taken)
      BY FundsNext
    <3> QED BY <2>2, <2>3, <3>1, <3>2, <3>3, CreditConstants
  <2>6. x.action \in ReviewActions => operations'[x.operation] = operations[x.operation]
    BY <2>2, <2>3, <2>4
  <2> QED BY <2>2, <2>3, <2>5, <2>6 DEF CreditCallFits
<1>7. CreditsHeldOnce'
  BY <1>3, <1>4 DEF CreditsInv, CreditsHeldOnce
<1> QED BY <1>5, <1>6, <1>7

\* What InsertCreditOperation writes.
LEMMA InsertEffect ==
    ASSUME CreditsInv, NEW c \in CreditCalls, InsertCreditOperation(c)
    PROVE  \E o \in OperationIds, k \in CreditIds :
               /\ operations[o] = NoOperation
               /\ creditCalls[c].credit = {k} /\ creditCalls[c].amount <= GetCreditFunds(k)
               /\ creditCalls[c].amount \in Nat
               /\ operations' \in [OperationIds -> OperationRows]
               /\ \A p \in OperationIds \ {o} : operations'[p] = operations[p]
               /\ operations'[o].credit = {k} /\ operations'[o].status \in {"pending", "completed"}
               /\ operations'[o].amount = creditCalls[c].amount
               /\ operations'[o].payout_reference = "none"
               /\ operations'[o].action \in SpendActions
               /\ operations'[o].action = "request_refund" => operations'[o].status = "pending"
               /\ ledgerRows' = ledgerRows \cup
                     (IF operations'[o].action = "request_refund" THEN {}
                      ELSE {<<o, operations'[o].action, operations'[o].amount>>})
               /\ ledgerRows' \subseteq OperationIds \X SpendActions \X Nat
<1>0. PICK x : x = creditCalls[c]
  OBVIOUS
<1>1. x \in CreditCallRows /\ CreditCallFits(x) /\ operations \in [OperationIds -> OperationRows]
      /\ ledgerRows \subseteq OperationIds \X SpendActions \X Nat
  BY <1>0 DEF CreditsInv, CreditTables
<1>2. /\ x.action \in SpendActions
      /\ operations[x.operation] = NoOperation
      /\ operations' = [operations EXCEPT ![x.operation] =
             [NoOperation EXCEPT !.credit = x.credit, !.action = x.action,
                                 !.amount = x.amount, !.requested_by = x.by,
                                 !.status = IF x.action = "request_refund" THEN "pending" ELSE "completed",
                                 !.completed_by = IF x.action = "request_refund" THEN NoStaff ELSE x.by]]
      /\ ledgerRows' = ledgerRows \cup Posting(x)
  BY <1>0 DEF InsertCreditOperation
<1>3. x.action # "idle"
  BY <1>2 DEF SpendActions
<1>4. PICK k \in CreditIds : x.credit = {k} /\ x.amount <= GetCreditFunds(k)
  BY <1>1, <1>2, <1>3 DEF CreditCallFits
<1>5. x.operation \in OperationIds /\ x.by \in StaffIds /\ x.amount \in Nat
  BY <1>1, <1>3 DEF CreditCallFits, CreditCallRows
<1>6. PICK w : w = [NoOperation EXCEPT !.credit = x.credit, !.action = x.action,
                                 !.amount = x.amount, !.requested_by = x.by,
                                 !.status = IF x.action = "request_refund" THEN "pending" ELSE "completed",
                                 !.completed_by = IF x.action = "request_refund" THEN NoStaff ELSE x.by]
  OBVIOUS
<1>7. w \in OperationRows
  BY <1>2, <1>4, <1>5, <1>6 DEF OperationRows, NoOperation
<1>8. /\ w.credit = {k} /\ w.amount = x.amount /\ w.action = x.action /\ w.payout_reference = "none"
      /\ w.status = IF x.action = "request_refund" THEN "pending" ELSE "completed"
  BY <1>4, <1>6 DEF NoOperation
<1>9. /\ operations' \in [OperationIds -> OperationRows] /\ operations'[x.operation] = w
      /\ \A p \in OperationIds \ {x.operation} : operations'[p] = operations[p]
  BY <1>1, <1>2, <1>5, <1>6, <1>7
<1>10. /\ ledgerRows' = ledgerRows \cup
              (IF w.action = "request_refund" THEN {} ELSE {<<x.operation, w.action, w.amount>>})
       /\ ledgerRows' \subseteq OperationIds \X SpendActions \X Nat
  BY <1>1, <1>2, <1>5, <1>8 DEF Posting
<1> QED BY <1>0, <1>2, <1>4, <1>5, <1>8, <1>9, <1>10

LEMMA InsertCreditKeeps ==
    ASSUME CreditsInv, NEW c \in CreditCalls, InsertCreditOperation(c)
    PROVE  CreditsInv'
<1>1. PICK o \in OperationIds, k \in CreditIds :
               /\ operations[o] = NoOperation
               /\ creditCalls[c].credit = {k} /\ creditCalls[c].amount <= GetCreditFunds(k)
               /\ creditCalls[c].amount \in Nat
               /\ operations' \in [OperationIds -> OperationRows]
               /\ \A p \in OperationIds \ {o} : operations'[p] = operations[p]
               /\ operations'[o].credit = {k} /\ operations'[o].status \in {"pending", "completed"}
               /\ operations'[o].amount = creditCalls[c].amount
               /\ operations'[o].payout_reference = "none"
               /\ operations'[o].action \in SpendActions
               /\ operations'[o].action = "request_refund" => operations'[o].status = "pending"
               /\ ledgerRows' = ledgerRows \cup
                     (IF operations'[o].action = "request_refund" THEN {}
                      ELSE {<<o, operations'[o].action, operations'[o].amount>>})
               /\ ledgerRows' \subseteq OperationIds \X SpendActions \X Nat
  BY InsertEffect
<1>2. operations \in [OperationIds -> OperationRows] /\ CreditAmount \in Nat
  BY CreditConstants DEF CreditsInv, CreditTables
<1>3. NoOperation.credit = {} /\ NoOperation.status = "none"
  BY DEF NoOperation
<1>4. ASSUME NEW j \in CreditIds \ {k} PROVE SumOf(operations', j, Taken) <= SumOf(operations, j, Taken)
  <2>1. \A p \in OperationIds :
            j \in operations'[p].credit /\ operations'[p].status \in Taken =>
                /\ j \in operations[p].credit /\ operations[p].status \in Taken
                /\ operations'[p].amount = operations[p].amount
    BY <1>1
  <2> QED BY <1>1, <1>2, <2>1, NoMoreTaken
<1>5. SumOf(operations', k, Taken) = SumOf(operations, k, Taken) + operations'[o].amount
  <2>1. operations[o].status \notin Taken /\ k \in operations'[o].credit /\ operations'[o].status \in Taken
    BY <1>1, <1>3 DEF Taken
  <2> QED BY <1>1, <1>2, <2>1, OneMoreTaken
<1>6. /\ CreditTables' /\ CreditsHeldOnce'
      /\ \A d \in CreditCalls : CreditCallFits(creditCalls[d])'
  <2>1. CommitCredit(c)
    BY DEF InsertCreditOperation
  <2>2. \A p \in OperationIds : operations'[p] # operations[p] =>
             operations[p].credit \subseteq creditCalls[c].credit
    BY <1>1, <1>3
  <2>3. \A j \in CreditIds \ creditCalls[c].credit :
             SumOf(operations', j, Taken) <= SumOf(operations, j, Taken)
    BY <1>1, <1>4
  <2> QED BY <1>1, <2>1, <2>2, <2>3, CreditCallEnds
<1>7. CreditNeverOverspent'
  <2> SUFFICES ASSUME NEW j \in CreditIds PROVE Reserved(j)' + Used(j)' <= CreditAmount
    BY DEF CreditNeverOverspent
  <2>1. /\ SumOf(operations, j, Taken) \in Nat
        /\ Reserved(j) + Used(j) = SumOf(operations, j, Taken)
        /\ GetCreditFunds(j) = CreditAmount - SumOf(operations, j, Taken)
    BY <1>2, FundsNow
  <2>2. /\ SumOf(operations', j, Taken) \in Nat
        /\ Reserved(j)' + Used(j)' = SumOf(operations', j, Taken)
    BY <1>1, FundsNext
  <2>3. CASE j = k
    BY <1>1, <1>2, <1>5, <2>1, <2>2, <2>3
  <2>4. CASE j # k
    BY <1>2, <1>4, <2>1, <2>2, <2>4 DEF CreditsInv, CreditNeverOverspent
  <2> QED BY <2>3, <2>4
<1>8. SpentMeansPosted'
  <2> DEFINE Spent(ops) == {x \in OperationIds : ops[x].action # "request_refund" /\ ops[x].status # "none"}
             RowsOf(ops) == {<<x, ops[x].action, ops[x].amount>> : x \in Spent(ops)}
  <2>1. ledgerRows = RowsOf(operations)
    BY DEF CreditsInv, SpentMeansPosted
  <2>2. o \notin Spent(operations)
    BY <1>1, <1>3
  <2>3. Spent(operations') = Spent(operations) \cup
             (IF operations'[o].action = "request_refund" THEN {} ELSE {o})
    BY <1>1, <2>2
  <2>4. \A x \in Spent(operations) : operations'[x] = operations[x]
    BY <1>1, <2>2
  <2>5. RowsOf(operations') = RowsOf(operations) \cup
             (IF operations'[o].action = "request_refund" THEN {}
              ELSE {<<o, operations'[o].action, operations'[o].amount>>})
    <3> HIDE DEF Spent
    <3> QED BY <2>3, <2>4
  <2>6. ledgerRows' = RowsOf(operations')
    BY <1>1, <2>1, <2>5
  <2> QED BY <2>6 DEF SpentMeansPosted
<1>9. RefundsReviewed'
  <2>1. \A p \in OperationIds : operations'[p].payout_reference = operations[p].payout_reference
    BY <1>1 DEF NoOperation
  <2>2. RefundsReviewed
    BY DEF CreditsInv
  <2> QED BY <1>1, <2>1, <2>2 DEF RefundsReviewed
<1> QED BY <1>6, <1>7, <1>8, <1>9 DEF CreditsInv

\* A refund that holds its amount is reviewed or settled: nothing more is taken
\* from a credit, and nothing is posted.
LEMMA SettleKeeps ==
    ASSUME CreditsInv, NEW c \in CreditCalls, CommitCredit(c), UNCHANGED ledgerRows,
           NEW o \in OperationIds, creditCalls[c].credit = operations[o].credit,
           operations[o].action = "request_refund", operations[o].status \in {"pending", "approved"},
           operations' \in [OperationIds -> OperationRows],
           \A p \in OperationIds \ {o} : operations'[p] = operations[p],
           operations'[o].credit = operations[o].credit, operations'[o].action = "request_refund",
           operations'[o].amount = operations[o].amount, RefundsReviewed'
    PROVE  CreditsInv'
<1>1. /\ operations \in [OperationIds -> OperationRows] /\ CreditAmount \in Nat
      /\ ledgerRows \subseteq OperationIds \X SpendActions \X Nat
  BY CreditConstants DEF CreditsInv, CreditTables
<1>2. \A k \in CreditIds : SumOf(operations', k, Taken) <= SumOf(operations, k, Taken)
  <2> SUFFICES ASSUME NEW k \in CreditIds
               PROVE  SumOf(operations', k, Taken) <= SumOf(operations, k, Taken)
    OBVIOUS
  <2>1. \A p \in OperationIds :
            k \in operations'[p].credit /\ operations'[p].status \in Taken =>
                /\ k \in operations[p].credit /\ operations[p].status \in Taken
                /\ operations'[p].amount = operations[p].amount
    BY DEF Taken
  <2> QED BY <1>1, <2>1, NoMoreTaken
<1>3. /\ CreditTables' /\ CreditsHeldOnce'
      /\ \A d \in CreditCalls : CreditCallFits(creditCalls[d])'
  <2>1. \A p \in OperationIds : operations'[p] # operations[p] =>
             operations[p].credit \subseteq creditCalls[c].credit
    OBVIOUS
  <2>2. ledgerRows' \subseteq OperationIds \X SpendActions \X Nat
    BY <1>1
  <2> QED BY <1>2, <2>1, <2>2, CreditCallEnds
<1>4. CreditNeverOverspent'
  <2> SUFFICES ASSUME NEW j \in CreditIds PROVE Reserved(j)' + Used(j)' <= CreditAmount
    BY DEF CreditNeverOverspent
  <2>1. /\ SumOf(operations, j, Taken) \in Nat
        /\ Reserved(j) + Used(j) = SumOf(operations, j, Taken)
    BY <1>1, FundsNow
  <2>2. /\ SumOf(operations', j, Taken) \in Nat
        /\ Reserved(j)' + Used(j)' = SumOf(operations', j, Taken)
    BY FundsNext
  <2> QED BY <1>1, <1>2, <2>1, <2>2 DEF CreditsInv, CreditNeverOverspent
<1>5. SpentMeansPosted'
  <2> DEFINE Spent(ops) == {x \in OperationIds : ops[x].action # "request_refund" /\ ops[x].status # "none"}
             RowsOf(ops) == {<<x, ops[x].action, ops[x].amount>> : x \in Spent(ops)}
  <2>1. ledgerRows = RowsOf(operations)
    BY DEF CreditsInv, SpentMeansPosted
  <2>2. Spent(operations') = Spent(operations) /\ \A x \in Spent(operations) : operations'[x] = operations[x]
    OBVIOUS
  <2>3. RowsOf(operations') = RowsOf(operations)
    <3> HIDE DEF Spent
    <3> QED BY <2>2
  <2> QED BY <2>1, <2>3 DEF SpentMeansPosted
<1> QED BY <1>3, <1>4, <1>5 DEF CreditsInv

\* What a transaction that reviews or settles knows of its operation.
LEMMA ReviewKnows ==
    ASSUME CreditsInv, NEW c \in CreditCalls, creditCalls[c].action \in ReviewActions
    PROVE  LET x == creditCalls[c]
               a == operations[x.operation]
           IN  /\ x.operation \in OperationIds /\ x.by \in StaffIds
               /\ a \in OperationRows /\ x.credit = a.credit /\ a.action = "request_refund"
               /\ a.requested_by # x.by
               /\ IF x.action = "record_refund"
                  THEN a.status = "approved" /\ x.reference \in PayoutRefs
                  ELSE a.status = "pending"
<1>1. CreditCallFits(creditCalls[c]) /\ operations \in [OperationIds -> OperationRows]
  BY DEF CreditsInv, CreditTables
<1>2. creditCalls[c].action # "idle"
  BY DEF ReviewActions
<1> QED BY <1>1, <1>2 DEF CreditCallFits

LEMMA ReviewCreditKeeps ==
    ASSUME CreditsInv, NEW c \in CreditCalls, ReviewCreditOperation(c)
    PROVE  CreditsInv'
<1>0. PICK x : x = creditCalls[c]
  OBVIOUS
<1>1. PICK o : o = x.operation
  OBVIOUS
<1>2. PICK st : st = IF x.action = "approve_refund" THEN "approved" ELSE "rejected"
  OBVIOUS
<1>3. /\ x.action \in {"approve_refund", "reject_refund"} /\ CommitCredit(c) /\ UNCHANGED ledgerRows
      /\ operations' = [operations EXCEPT ![o].status = st, ![o].reviewed_by = x.by]
  BY <1>0, <1>1, <1>2 DEF ReviewCreditOperation
<1>4. /\ o \in OperationIds /\ x.by \in StaffIds /\ x.credit = operations[o].credit
      /\ operations[o].action = "request_refund" /\ operations[o].requested_by # x.by
      /\ operations[o].status = "pending"
  <2>1. x.action \in ReviewActions /\ x.action # "record_refund"
    BY <1>3 DEF ReviewActions
  <2> QED BY <1>0, <1>1, <2>1, ReviewKnows
<1>5. operations \in [OperationIds -> OperationRows] /\ NoStaff \notin StaffIds /\ RefundsReviewed
  BY CreditConstants DEF CreditsInv, CreditTables
<1>6. st \in {"approved", "rejected"}
  BY <1>2
<1>7. /\ operations' \in [OperationIds -> OperationRows]
      /\ \A p \in OperationIds \ {o} : operations'[p] = operations[p]
      /\ operations'[o].credit = operations[o].credit /\ operations'[o].action = operations[o].action
      /\ operations'[o].amount = operations[o].amount /\ operations'[o].status = st
      /\ operations'[o].reviewed_by = x.by /\ operations'[o].requested_by = operations[o].requested_by
      /\ operations'[o].payout_reference = operations[o].payout_reference
  BY <1>3, <1>4, <1>5, <1>6 DEF OperationRows
<1>8. RefundsReviewed'
  <2>1. \A p \in OperationIds : operations'[p].payout_reference = operations[p].payout_reference
    BY <1>7
  <2> QED BY <1>4, <1>5, <1>6, <1>7, <2>1 DEF RefundsReviewed
<1> QED BY <1>0, <1>3, <1>4, <1>7, <1>8, SettleKeeps

LEMMA CompleteCreditKeeps ==
    ASSUME CreditsInv, NEW c \in CreditCalls, CompleteCreditOperation(c)
    PROVE  CreditsInv'
<1>0. PICK x : x = creditCalls[c]
  OBVIOUS
<1>1. PICK o : o = x.operation
  OBVIOUS
<1>3. /\ x.action = "record_refund" /\ CommitCredit(c) /\ UNCHANGED ledgerRows
      /\ ReferenceIsUnused(x.reference)
      /\ operations' = [operations EXCEPT ![o].status = "completed", ![o].completed_by = x.by,
                                          ![o].payout_reference = x.reference]
  BY <1>0, <1>1 DEF CompleteCreditOperation
<1>4. /\ o \in OperationIds /\ x.by \in StaffIds /\ x.credit = operations[o].credit
      /\ operations[o].action = "request_refund" /\ operations[o].requested_by # x.by
      /\ operations[o].status = "approved" /\ x.reference \in PayoutRefs
  <2>1. x.action \in ReviewActions
    BY <1>3 DEF ReviewActions
  <2> QED BY <1>0, <1>1, <1>3, <2>1, ReviewKnows
<1>5. /\ operations \in [OperationIds -> OperationRows] /\ RefundsReviewed
      /\ NoStaff \notin StaffIds /\ "none" \notin PayoutRefs
  BY CreditConstants DEF CreditsInv, CreditTables
<1>7. /\ operations' \in [OperationIds -> OperationRows]
      /\ \A p \in OperationIds \ {o} : operations'[p] = operations[p]
      /\ operations'[o].credit = operations[o].credit /\ operations'[o].action = operations[o].action
      /\ operations'[o].amount = operations[o].amount /\ operations'[o].status = "completed"
      /\ operations'[o].reviewed_by = operations[o].reviewed_by
      /\ operations'[o].completed_by = x.by /\ operations'[o].requested_by = operations[o].requested_by
      /\ operations'[o].payout_reference = x.reference
  BY <1>3, <1>4, <1>5 DEF OperationRows
<1>8. RefundsReviewed'
  <2> SUFFICES ASSUME NEW p \in OperationIds
               PROVE
        /\ operations'[p].action = "request_refund" /\ operations'[p].status \in {"approved", "completed"} =>
               operations'[p].reviewed_by \notin {NoStaff, operations'[p].requested_by}
        /\ operations'[p].action = "request_refund" /\ operations'[p].status = "completed" =>
               /\ operations'[p].completed_by \notin {NoStaff, operations'[p].requested_by}
               /\ operations'[p].payout_reference # "none"
        /\ operations'[p].payout_reference # "none" =>
               \A q \in OperationIds \ {p} :
                   operations'[q].payout_reference # operations'[p].payout_reference
    BY DEF RefundsReviewed
  <2>1. CASE p = o
    BY <1>3, <1>4, <1>5, <1>7, <2>1 DEF RefundsReviewed, ReferenceIsUnused
  <2>2. CASE p # o
    BY <1>3, <1>4, <1>5, <1>7, <2>2 DEF RefundsReviewed, ReferenceIsUnused
  <2> QED BY <2>1, <2>2
<1> QED BY <1>0, <1>3, <1>4, <1>7, <1>8, SettleKeeps

\* A step of the credits, or a step elsewhere: only staff may change.
CreditsStep == CreditsNext \/ UNCHANGED <<closedOwners, operations, ledgerRows, creditCalls>>

LEMMA NextCreditsInv == CreditsInv /\ CreditsStep => CreditsInv'
<1> SUFFICES ASSUME CreditsInv, CreditsStep PROVE CreditsInv'
  OBVIOUS
<1>1. ASSUME UNCHANGED <<operations, ledgerRows, creditCalls>>, closedOwners' \subseteq CreditIds
      PROVE  CreditsInv'
  <2>1. \A x : GetCreditFunds(x)' = GetCreditFunds(x) /\ Reserved(x)' = Reserved(x) /\ Used(x)' = Used(x)
    BY <1>1 DEF GetCreditFunds, Reserved, Used, AmountIn
  <2>2. \A d \in CreditCalls : CreditCallFits(creditCalls[d])'
    BY <1>1, <2>1 DEF CreditsInv, CreditCallFits
  <2>3. CreditTables' /\ CreditsHeldOnce' /\ SpentMeansPosted' /\ RefundsReviewed'
    BY <1>1 DEF CreditsInv, CreditTables, CreditsHeldOnce, SpentMeansPosted, RefundsReviewed
  <2>4. CreditNeverOverspent'
    BY <2>1 DEF CreditsInv, CreditNeverOverspent
  <2> QED BY <2>2, <2>3, <2>4 DEF CreditsInv
<1>2. CASE UNCHANGED <<closedOwners, operations, ledgerRows, creditCalls>>
  BY <1>1, <1>2 DEF CreditsInv, CreditTables
<1>3. ASSUME NEW k \in CreditIds, OwnerCloses(k) PROVE CreditsInv'
  BY <1>1, <1>3 DEF OwnerCloses, CreditsInv, CreditTables
<1>4. ASSUME NEW c \in CreditCalls, NEW by \in StaffIds, NEW k \in CreditIds, NEW o \in OperationIds,
             \/ \E action \in {"approve_refund", "reject_refund"} : BeginReview(c, by, k, o, action, "none")
             \/ \E reference \in PayoutRefs : BeginReview(c, by, k, o, "record_refund", reference)
      PROVE  CreditsInv'
  BY <1>4, BeginReviewKeeps DEF ReviewActions
<1>5. ASSUME NEW c \in CreditCalls, AbortCredit(c) PROVE CreditsInv'
  <2>1. CommitCredit(c) /\ operations' = operations /\ ledgerRows' = ledgerRows
    BY <1>5 DEF AbortCredit
  <2>2. operations \in [OperationIds -> OperationRows]
        /\ ledgerRows \subseteq OperationIds \X SpendActions \X Nat
    BY DEF CreditsInv, CreditTables
  <2>3. \A k \in CreditIds : SumOf(operations', k, Taken) <= SumOf(operations, k, Taken)
    <3>1. \A k \in CreditIds : SumOf(operations, k, Taken) \in Nat
      BY <2>2, FundsNow
    <3> QED BY <2>1, <3>1
  <2>4. /\ CreditTables' /\ CreditsHeldOnce'
        /\ \A d \in CreditCalls : CreditCallFits(creditCalls[d])'
    BY <2>1, <2>2, <2>3, CreditCallEnds
  <2>5. CreditNeverOverspent' /\ SpentMeansPosted' /\ RefundsReviewed'
    BY <2>1 DEF CreditsInv, CreditNeverOverspent, Reserved, Used, AmountIn, SpentMeansPosted, RefundsReviewed
  <2> QED BY <2>4, <2>5 DEF CreditsInv
<1> QED BY <1>2, <1>3, <1>4, <1>5, BeginSpendKeeps, InsertCreditKeeps, ReviewCreditKeeps,
           CompleteCreditKeeps DEF CreditsStep, CreditsNext

LEMMA InitCreditsInv == CreditsInit => CreditsInv
<1> SUFFICES ASSUME CreditsInit PROVE CreditsInv
  OBVIOUS
<1>1. NoOperation \in OperationRows /\ NoCreditCall \in CreditCallRows
  BY CreditConstants DEF NoOperation, NoCreditCall, OperationRows, CreditCallRows
<1>2. CreditTables
  BY <1>1 DEF CreditsInit, CreditTables
<1>3. /\ \A c \in CreditCalls : CreditCallFits(creditCalls[c])
      /\ CreditsHeldOnce
  BY DEF CreditsInit, CreditCallFits, CreditsHeldOnce, NoCreditCall
<1>4. CreditNeverOverspent
  <2> SUFFICES ASSUME NEW k \in CreditIds PROVE Reserved(k) + Used(k) <= CreditAmount
    BY DEF CreditNeverOverspent
  <2>1. Reserved(k) + Used(k) = SumOf(operations, k, Taken)
    BY <1>2, FundsNow DEF CreditTables
  <2>2. TakenBy(operations, k, Taken) = {}
    BY DEF CreditsInit, NoOperation, TakenBy
  <2>3. SumOf(operations, k, Taken) = 0
    BY <2>2, SumEmpty DEF SumOf
  <2> QED BY <2>1, <2>3, CreditConstants
<1>5. SpentMeansPosted /\ RefundsReviewed
  BY DEF CreditsInit, NoOperation, SpentMeansPosted, RefundsReviewed
<1> QED BY <1>2, <1>3, <1>4, <1>5 DEF CreditsInv

LEMMA CreditsInvHolds == CreditsSpec => []CreditsInv
<1>1. [CreditsNext]_creditVars => CreditsStep
  BY DEF creditVars, CreditsStep
<1> QED BY <1>1, InitCreditsInv, NextCreditsInv, PTL DEF CreditsSpec

\* Transfers, applications and refunds of one credit never take more than the
\* credit, although each transaction reads the funds before it writes, and the
\* ledgers show every amount that was spent.
THEOREM CreditIsAccountedFor == CreditsSpec => []CreditAccountedFor
<1>1. CreditsInv => CreditAccountedFor
  BY DEF CreditsInv, CreditAccountedFor
<1> QED BY <1>1, CreditsInvHolds, PTL

LEMMA SettledByOthers == CreditsInv => RefundsSettledByOthers
BY DEF CreditsInv, RefundsReviewed, RefundsSettledByOthers

\* What a step may do to the operations, in the terms of OperationsFinal.
OperationsKept ==
    \A o \in OperationIds :
        LET a == operations[o]
            b == operations'[o]
        IN  /\ a.status \in {"completed", "rejected"} => b = a
            /\ a.status # "none" =>
                   /\ b.credit = a.credit /\ b.action = a.action
                   /\ b.amount = a.amount /\ b.requested_by = a.requested_by

LEMMA OperationsAreKept == CreditsInv /\ CreditsStep => OperationsKept
<1> SUFFICES ASSUME CreditsInv, CreditsStep PROVE OperationsKept
  OBVIOUS
<1>1. CASE UNCHANGED operations
  BY <1>1 DEF OperationsKept
<1>2. ASSUME NEW c \in CreditCalls, InsertCreditOperation(c) PROVE OperationsKept
  <2>1. PICK o \in OperationIds : /\ operations[o] = NoOperation
                                  /\ \A p \in OperationIds \ {o} : operations'[p] = operations[p]
    BY <1>2, InsertEffect
  <2>2. NoOperation.status = "none"
    BY DEF NoOperation
  <2> QED BY <2>1, <2>2 DEF OperationsKept
<1>3. ASSUME NEW c \in CreditCalls, ReviewCreditOperation(c) \/ CompleteCreditOperation(c)
      PROVE  OperationsKept
  <2>0. PICK x : x = creditCalls[c]
    OBVIOUS
  <2>1. x.action \in ReviewActions
    BY <1>3, <2>0 DEF ReviewCreditOperation, CompleteCreditOperation, ReviewActions
  <2>2. x.operation \in OperationIds /\ operations[x.operation].status \in {"pending", "approved"}
    BY <2>0, <2>1, ReviewKnows
  <2>3. operations \in [OperationIds -> OperationRows]
    BY DEF CreditsInv, CreditTables
  <2>4. /\ \A p \in OperationIds \ {x.operation} : operations'[p] = operations[p]
        /\ operations'[x.operation].credit = operations[x.operation].credit
        /\ operations'[x.operation].action = operations[x.operation].action
        /\ operations'[x.operation].amount = operations[x.operation].amount
        /\ operations'[x.operation].requested_by = operations[x.operation].requested_by
    BY <1>3, <2>0, <2>2, <2>3 DEF ReviewCreditOperation, CompleteCreditOperation, OperationRows
  <2> QED BY <2>2, <2>4 DEF OperationsKept
<1> QED BY <1>1, <1>2, <1>3 DEF CreditsStep, CreditsNext, OwnerCloses, BeginSpend, BeginReview,
           BeginCredit, AbortCredit

-----------------------------------------------------------------------------
(* Lists.  The cursor of a handler must go on in the order in which its    *)
(* query sorts: this holds for every list but ListMembers, whose cursor    *)
(* runs against its order (the run MemberListing).                         *)

CursorFollowsOrder == NewestFirst \cup {"ListShareAccounts"}

\* Rows beyond the token have not been returned, and rows that stayed and are
\* not beyond it have been.
WalkInv ==
    /\ ListsTypeOK
    /\ listing \in CursorFollowsOrder
    /\ \A r \in Positions : listed[r] <= 1
    /\ token = 0 /\ walk = "walking" => \A r \in Positions : listed[r] = 0
    /\ token # 0 => /\ walk = "walking"
                    /\ \A r \in Positions : Beyond(r) => listed[r] = 0
                    /\ \A r \in stayed : ~Beyond(r) => listed[r] = 1
    /\ walk = "done" => \A r \in stayed : listed[r] = 1

\* ORDER BY is a strict total order of the positions.
LEMMA OrderIsTotal ==
    /\ \A x, y, z \in Nat : Before(x, y) /\ Before(y, z) => Before(x, z)
    /\ \A x, y \in Nat : x = y \/ Before(x, y) \/ Before(y, x)
    /\ \A x, y \in Nat : ~(Before(x, y) /\ Before(y, x))
    /\ \A x \in Nat : ~Before(x, x)
BY DEF Before

\* Some rows have a first and a last one in that order.
LEMMA FirstAndLast ==
    ASSUME NEW S, \A x \in S : x \in Nat, IsFiniteSet(S), S # {}
    PROVE  /\ \E x \in S : \A y \in S : y = x \/ Before(x, y)
           /\ \E x \in S : \A y \in S : y = x \/ Before(y, x)
<1>1. PICK lo \in S : \A y \in S : lo <= y
  <2>1. S \in SUBSET Nat
    OBVIOUS
  <2> QED BY <2>1, HasLeast
<1>2. PICK hi \in S : \A y \in S : hi >= y
  BY HasGreatest
<1>3. \A y \in S : y = lo \/ lo < y
  BY <1>1
<1>4. \A y \in S : y = hi \/ hi > y
  BY <1>2
<1>5. CASE listing \in NewestFirst
  BY <1>3, <1>4, <1>5 DEF Before
<1>6. CASE listing \notin NewestFirst
  BY <1>3, <1>4, <1>6 DEF Before
<1> QED BY <1>5, <1>6

\* LIMIT n takes an initial part of the rows.
LEMMA FirstRowsInitial ==
    ASSUME NEW S, \A x \in S : x \in Nat, IsFiniteSet(S), NEW n \in Nat
    PROVE  /\ FirstRows(S, n) \subseteq S /\ IsFiniteSet(FirstRows(S, n))
           /\ \A r \in FirstRows(S, n), q \in S : Before(q, r) => q \in FirstRows(S, n)
<1>1. FirstRows(S, n) \subseteq S
  BY DEF FirstRows
<1>2. IsFiniteSet(FirstRows(S, n))
  BY <1>1, FS_Subset
<1>3. ASSUME NEW r \in FirstRows(S, n), NEW q \in S, Before(q, r) PROVE q \in FirstRows(S, n)
  <2> DEFINE A == {x \in S : Before(x, q)}
             B == {x \in S : Before(x, r)}
  <2>1. A \subseteq B
    BY <1>1, <1>3, OrderIsTotal
  <2>2. IsFiniteSet(A) /\ IsFiniteSet(B)
    BY FS_Subset
  <2>3. Cardinality(B) < n
    BY DEF FirstRows
  <2> HIDE DEF A, B
  <2>4. Cardinality(A) <= Cardinality(B) /\ Cardinality(A) \in Nat /\ Cardinality(B) \in Nat
    BY <2>1, <2>2, FS_Subset, FS_CardinalityType
  <2>5. Cardinality(A) < n
    BY <2>3, <2>4
  <2> QED BY <2>5 DEF FirstRows, A
<1> QED BY <1>1, <1>2, <1>3

\* A page that is not full holds everything.
LEMMA ShortPageIsAll ==
    ASSUME NEW S, \A x \in S : x \in Nat, IsFiniteSet(S), NEW n \in Nat,
           Cardinality(FirstRows(S, n + 1)) <= n
    PROVE  FirstRows(S, n + 1) = S
<1> DEFINE F == FirstRows(S, n + 1)
           L == S \ F
<1>1. F \subseteq S /\ IsFiniteSet(F)
  BY FirstRowsInitial
<1>2. CASE L # {}
  <2>1. IsFiniteSet(L) /\ \A x \in L : x \in Nat
    BY FS_Subset
  <2>2. PICK r \in L : \A y \in L : y = r \/ Before(r, y)
    <3> HIDE DEF L
    <3> QED BY <1>2, <2>1, FirstAndLast
  <2> DEFINE A == {x \in S : Before(x, r)}
  <2>3. A \subseteq F
    BY <2>2, OrderIsTotal
  <2>4. Cardinality(A) <= Cardinality(F) /\ Cardinality(A) \in Nat /\ Cardinality(F) \in Nat
    <3> HIDE DEF A, F
    <3>1. IsFiniteSet(F) /\ IsFiniteSet(A)
      BY <1>1, <2>3, FS_Subset
    <3> QED BY <2>3, <3>1, FS_Subset, FS_CardinalityType
  <2>5. Cardinality(A) < n + 1
    BY <2>4
  <2>6. r \in F
    BY <2>5 DEF FirstRows
  <2> QED BY <2>2, <2>6
<1> QED BY <1>1, <1>2

\* So does a page as long as what there is.
LEMMA LongPageIsAll ==
    ASSUME NEW S, \A x \in S : x \in Nat, IsFiniteSet(S), NEW n \in Nat, Cardinality(S) <= n
    PROVE  FirstRows(S, n) = S
<1> SUFFICES ASSUME NEW r \in S PROVE Cardinality({q \in S : Before(q, r)}) < n
  BY DEF FirstRows
<1> DEFINE A == {q \in S : Before(q, r)}
<1>1. A \subseteq S \ {r}
  BY OrderIsTotal
<1>2. IsFiniteSet(S \ {r}) /\ Cardinality(S \ {r}) = Cardinality(S) - 1 /\ Cardinality(S) \in Nat
  BY FS_RemoveElement, FS_CardinalityType
<1> HIDE DEF A
<1>3. Cardinality(A) <= Cardinality(S \ {r}) /\ Cardinality(A) \in Nat
  BY <1>1, <1>2, FS_Subset, FS_CardinalityType
<1>4. Cardinality(A) < n
  BY <1>2, <1>3
<1> QED BY <1>4 DEF A

LEMMA PageIsNotEmpty ==
    ASSUME NEW S, \A x \in S : x \in Nat, IsFiniteSet(S), S # {}, NEW n \in Nat, n > 0
    PROVE  FirstRows(S, n) # {}
<1>1. PICK x \in S : \A y \in S : y = x \/ Before(x, y)
  BY FirstAndLast
<1>2. {q \in S : Before(q, x)} = {}
  BY <1>1, OrderIsTotal
<1>3. Cardinality({q \in S : Before(q, x)}) = 0
  BY <1>2, FS_EmptySet
<1> QED BY <1>3 DEF FirstRows

-----------------------------------------------------------------------------
LEMMA LimitIsPositive == ASSUME NEW size \in PageSizes PROVE Limit(size) \in Nat /\ Limit(size) > 0
<1>1. /\ defaultPageSize \in Nat /\ defaultPageSize > 0
      /\ maxPageSize \in Nat /\ maxPageSize > 0 /\ size \in Int
  BY ListConstants
<1> QED BY <1>1 DEF Limit

\* What one request returns and where the next one goes on.
LEMMA PageEffect ==
    ASSUME ListsTypeOK, NEW size \in PageSizes, ListPage(size)
    PROVE  \E page \in SUBSET rows :
               /\ \A r \in page : Beyond(r)
               /\ listed' = [r \in Positions |-> IF r \in page THEN listed[r] + 1 ELSE listed[r]]
               /\ \/ /\ walk' = "done" /\ token' = 0
                     /\ \A r \in rows : Beyond(r) => r \in page
                  \/ /\ walk' = "walking" /\ token' \in page
                     /\ \A r \in page : r = token' \/ Before(r, token')
                     /\ \A r \in rows : Beyond(r) /\ Before(r, token') => r \in page
<1> DEFINE S == {r \in rows : Beyond(r)}
           limit == Limit(size)
           F == FirstRows(S, limit + 1)
           page == FirstRows(F, limit)
<1>1. limit \in Nat /\ limit > 0
  BY LimitIsPositive
<1>2. rows \subseteq Positions /\ IsFiniteSet(Positions) /\ \A x \in Positions : x \in Nat
  BY ListConstants DEF ListsTypeOK
<1>3. IsFiniteSet(S) /\ \A x \in S : x \in Nat
  BY <1>2, FS_Subset
<1>4. /\ listed' = [r \in Positions |-> IF r \in page THEN listed[r] + 1 ELSE listed[r]]
      /\ Cardinality(F) > limit => walk' = "walking" /\ token' = NextPageToken(F, limit)
      /\ ~(Cardinality(F) > limit) => walk' = "done" /\ token' = 0
  BY DEF ListPage
<1>5. S \subseteq rows /\ \A r \in rows : Beyond(r) <=> r \in S
  OBVIOUS
<1> HIDE DEF S, limit
<1>6. /\ F \subseteq S /\ IsFiniteSet(F)
      /\ \A r \in F, q \in S : Before(q, r) => q \in F
  BY <1>1, <1>3, FirstRowsInitial
<1>7. \A x \in F : x \in Nat
  BY <1>3, <1>6
<1> HIDE DEF F
<1>8. /\ page \subseteq F /\ IsFiniteSet(page)
      /\ \A r \in page, q \in F : Before(q, r) => q \in page
  BY <1>1, <1>6, <1>7, FirstRowsInitial
<1>9. page \in SUBSET rows /\ \A r \in page : Beyond(r)
  BY <1>5, <1>6, <1>8
<1>10. Cardinality(F) \in Nat
  BY <1>6, FS_CardinalityType
<1>11. CASE ~(Cardinality(F) > limit)
  <2>1. Cardinality(F) <= limit
    BY <1>1, <1>10, <1>11
  <2>2. F = S
    BY <1>1, <1>3, <2>1, ShortPageIsAll DEF F
  <2>3. page = F
    BY <1>1, <1>6, <1>7, <2>1, LongPageIsAll
  <2> QED BY <1>4, <1>5, <1>9, <1>11, <2>2, <2>3
<1>12. CASE Cardinality(F) > limit
  <2>1. F # {}
    BY <1>1, <1>12, FS_EmptySet
  <2>2. page # {}
    BY <1>1, <1>6, <1>7, <2>1, PageIsNotEmpty
  <2>3. \A x \in page : x \in Nat
    BY <1>7, <1>8
  <2>4. token' = CHOOSE r \in page : \A q \in page : q = r \/ Before(q, r)
    BY <1>4, <1>12 DEF NextPageToken
  <2> HIDE DEF page
  <2>5. \E r \in page : \A q \in page : q = r \/ Before(q, r)
    BY <1>8, <2>2, <2>3, FirstAndLast
  <2>6. token' \in page /\ \A r \in page : r = token' \/ Before(r, token')
    BY <2>4, <2>5
  <2>7. \A r \in S : Before(r, token') => r \in page
    BY <1>6, <1>8, <2>6
  <2> QED BY <1>4, <1>5, <1>9, <1>12, <2>6, <2>7
<1> QED BY <1>11, <1>12

LEMMA CursorOrder ==
    ASSUME listing \in CursorFollowsOrder, NEW r \in Nat, token \in Nat
    PROVE  Beyond(r) <=> token = 0 \/ Before(token, r)
<1>1. "ListShareAccounts" \notin NewestFirst
  BY DEF NewestFirst
<1> QED BY <1>1 DEF CursorFollowsOrder, Beyond, Before

LEMMA CursorOrderNext ==
    ASSUME listing \in CursorFollowsOrder, listing' = listing, NEW r \in Nat, token' \in Nat
    PROVE  Beyond(r)' <=> token' = 0 \/ Before(token', r)
<1>1. "ListShareAccounts" \notin NewestFirst
  BY DEF NewestFirst
<1> QED BY <1>1 DEF CursorFollowsOrder, Beyond, Before

LEMMA PageKeeps ==
    ASSUME WalkInv, NEW size \in PageSizes, ListPage(size)
    PROVE  WalkInv'
<1>1. PICK page \in SUBSET rows :
               /\ \A r \in page : Beyond(r)
               /\ listed' = [r \in Positions |-> IF r \in page THEN listed[r] + 1 ELSE listed[r]]
               /\ \/ /\ walk' = "done" /\ token' = 0
                     /\ \A r \in rows : Beyond(r) => r \in page
                  \/ /\ walk' = "walking" /\ token' \in page
                     /\ \A r \in page : r = token' \/ Before(r, token')
                     /\ \A r \in rows : Beyond(r) /\ Before(r, token') => r \in page
  BY PageEffect DEF WalkInv
<1>2. /\ rows \subseteq Positions /\ stayed \subseteq rows /\ token \in Positions \cup {0}
      /\ listed \in [Positions -> Nat] /\ 0 \notin Positions
      /\ listing \in CursorFollowsOrder
      /\ \A x \in Positions : x \in Nat
      /\ token \in Nat
  BY ListConstants DEF WalkInv, ListsTypeOK
<1>3. walk = "walking" /\ listing' = listing /\ rows' = rows /\ stayed' = stayed
  BY DEF ListPage
<1>4. \A r \in page : listed[r] = 0
  BY <1>1, <1>2, <1>3 DEF WalkInv
<1>5. /\ \A r \in page : listed'[r] = 1
      /\ \A r \in Positions \ page : listed'[r] = listed[r]
      /\ listed' \in [Positions -> Nat]
  BY <1>1, <1>2, <1>4
<1>6. \A r \in stayed : r \notin page => (Beyond(r) \/ listed[r] = 1)
  BY <1>2, <1>3 DEF WalkInv, Beyond
<1>7. ListsTypeOK'
  BY <1>1, <1>2, <1>3, <1>5 DEF WalkInv, ListsTypeOK
<1>8. \A r \in Positions : listed'[r] <= 1
  BY <1>2, <1>5 DEF WalkInv
<1>9. CASE walk' = "done"
  <2>1. token' = 0 /\ \A r \in rows : Beyond(r) => r \in page
    BY <1>1, <1>9
  <2>2. \A r \in stayed' : listed'[r] = 1
    BY <1>2, <1>3, <1>5, <1>6, <2>1
  <2> QED BY <1>2, <1>3, <1>7, <1>8, <1>9, <2>1, <2>2 DEF WalkInv
<1>10. CASE walk' # "done"
  <2>1. /\ walk' = "walking" /\ token' \in page
        /\ \A r \in page : r = token' \/ Before(r, token')
        /\ \A r \in rows : Beyond(r) /\ Before(r, token') => r \in page
    BY <1>1, <1>10
  <2>2. token' \in Nat /\ token' # 0 /\ token' \in Positions
    BY <1>2, <2>1
  <2>3. ASSUME NEW r \in Positions, Beyond(r)' PROVE listed'[r] = 0
    <3>1. r \in Nat /\ Before(token', r)
      BY <1>2, <1>3, <2>2, <2>3, CursorOrderNext
    <3>2. r \notin page
      BY <1>2, <2>1, <2>2, <3>1, OrderIsTotal
    <3>3. Beyond(token')
      BY <1>1, <2>1
    <3>4. token = 0 \/ Before(token, token')
      BY <1>2, <2>2, <3>3, CursorOrder
    <3>5. token = 0 \/ Before(token, r)
      BY <1>2, <2>2, <3>1, <3>4, OrderIsTotal
    <3>6. listed[r] = 0
      BY <1>2, <1>3, <3>1, <3>5, CursorOrder DEF WalkInv
    <3> QED BY <1>5, <3>2, <3>6
  <2>4. ASSUME NEW r \in stayed', ~Beyond(r)' PROVE listed'[r] = 1
    <3>1. r \in Positions /\ r \in Nat /\ r \in rows /\ r \in stayed
      BY <1>2, <1>3
    <3>2. ~Before(token', r)
      BY <1>2, <1>3, <2>2, <2>4, <3>1, CursorOrderNext
    <3>3. r = token' \/ Before(r, token')
      BY <2>2, <3>1, <3>2, OrderIsTotal
    <3>4. Beyond(r) => r \in page
      BY <2>1, <3>1, <3>3
    <3> QED BY <1>5, <1>6, <3>1, <3>4
  <2> QED BY <1>2, <1>3, <1>7, <1>8, <2>1, <2>2, <2>3, <2>4 DEF WalkInv
<1> QED BY <1>9, <1>10

LEMMA NextWalkInv == WalkInv /\ [ListsNext]_listVars => WalkInv'
<1> SUFFICES ASSUME WalkInv, [ListsNext]_listVars PROVE WalkInv'
  OBVIOUS
<1>1. ASSUME UNCHANGED <<listing, token, listed, walk>>, rows' \subseteq Positions,
             stayed' \subseteq rows', stayed' \subseteq stayed
      PROVE  WalkInv'
  BY <1>1 DEF WalkInv, ListsTypeOK, Beyond
<1>2. ASSUME NEW r \in Positions, RowAppears(r) \/ RowLeaves(r) PROVE WalkInv'
  BY <1>1, <1>2 DEF RowAppears, RowLeaves, WalkInv, ListsTypeOK
<1>3. CASE UNCHANGED listVars
  BY <1>1, <1>3 DEF listVars, WalkInv, ListsTypeOK
<1> QED BY <1>2, <1>3, PageKeeps DEF ListsNext

LEMMA WalkInvHolds ==
    ASSUME Listings \subseteq CursorFollowsOrder
    PROVE  ListsSpec => []WalkInv
<1>1. ListsInit => WalkInv
  BY ListConstants DEF ListsInit, WalkInv, ListsTypeOK
<1> QED BY <1>1, NextWalkInv, PTL DEF ListsSpec

\* A walk through any list whose cursor follows its order returns no row twice
\* and misses none that was there all the time, whatever rows come and go and
\* whatever page sizes are asked for.
THEOREM WalksAreComplete ==
    ASSUME Listings \subseteq CursorFollowsOrder
    PROVE  ListsSpec => []WalkListsEveryRowOnce
<1>1. WalkInv => WalkListsEveryRowOnce
  BY DEF WalkInv, WalkListsEveryRowOnce
<1> QED BY <1>1, WalkInvHolds, PTL

-----------------------------------------------------------------------------
(* Monthly fees.  What makes a month that is over stand is that the status *)
(* at its start is read from rows that were there when it was over, and    *)
(* that the first row of a history says what the member was before it.     *)

\* An open status change has begun; one that is decided started from a member
\* who exists, and, as long as there is no history, from the status of today.
StatusCallFits(x) ==
    /\ x.op # "none" => x.created_at > 0
    /\ x.op \in {"status", "close"} =>
           /\ x.from \in Statuses /\ x.to \in Statuses
           /\ feeMember.status # "none"
           /\ statusRows = << >> => x.from = feeMember.status

FeesInv ==
    /\ FeesTypeOK
    /\ feeClock + 1 <= MaxBegun + Len(starts)
    /\ \A i, j \in Months : i < j => starts[i] < starts[j]
    /\ \A c \in StatusCalls : StatusCallFits(statusCalls[c])

StatusRowSet(n) == [created_at : 1 .. n, from : Statuses, to : Statuses]
StatusCallSet(n) == [op : {"none", "begun", "status", "close"}, created_at : 0 .. n,
                     from : Statuses \cup {"none"}, to : Statuses \cup {"none"}]
FeeMemberSet(n) == [status : Statuses \cup {"none"}, created_at : 0 .. n, is_deleted : BOOLEAN]

LEMMA FeeTypes ==
    FeesTypeOK <=> /\ feeClock \in 0 .. MaxBegun + MaxMonths
                   /\ starts \in Seq(0 .. feeClock) /\ Len(starts) \in 1 .. MaxMonths
                   /\ feeMember \in FeeMemberSet(feeClock)
                   /\ statusRows \in Seq(StatusRowSet(feeClock))
                   /\ statusCalls \in [StatusCalls -> StatusCallSet(feeClock)]
                   /\ assessed \subseteq Months
BY DEF FeesTypeOK, StatusRowSet, StatusCallSet, FeeMemberSet

LEMMA FeeTypesPrimed ==
    FeesTypeOK' <=> /\ feeClock' \in 0 .. MaxBegun + MaxMonths
                    /\ starts' \in Seq(0 .. feeClock') /\ Len(starts') \in 1 .. MaxMonths
                    /\ feeMember' \in FeeMemberSet(feeClock')
                    /\ statusRows' \in Seq(StatusRowSet(feeClock'))
                    /\ statusCalls' \in [StatusCalls -> StatusCallSet(feeClock')]
                    /\ assessed' \subseteq Months'
BY DEF FeesTypeOK, StatusRowSet, StatusCallSet, FeeMemberSet

\* Time passes: what was dated up to now is dated up to then.
LEMMA LaterTypes ==
    ASSUME NEW n \in Nat
    PROVE  /\ 0 .. n \subseteq 0 .. n + 1
           /\ StatusRowSet(n) \subseteq StatusRowSet(n + 1)
           /\ StatusCallSet(n) \subseteq StatusCallSet(n + 1)
           /\ FeeMemberSet(n) \subseteq FeeMemberSet(n + 1)
BY DEF StatusRowSet, StatusCallSet, FeeMemberSet

\* The clock ticks: a month begins or a status change does.
LEMMA TickTypes ==
    ASSUME FeesInv, feeClock' = feeClock + 1, UNCHANGED <<feeMember, statusRows>>
    PROVE  /\ feeClock \in Nat /\ starts \in Seq(0 .. feeClock')
           /\ feeMember' \in FeeMemberSet(feeClock')
           /\ statusRows' \in Seq(StatusRowSet(feeClock'))
           /\ statusCalls \in [StatusCalls -> StatusCallSet(feeClock')]
<1>1. /\ feeClock \in Nat /\ starts \in Seq(0 .. feeClock) /\ feeMember \in FeeMemberSet(feeClock)
      /\ statusRows \in Seq(StatusRowSet(feeClock))
      /\ statusCalls \in [StatusCalls -> StatusCallSet(feeClock)]
  BY FeeTypes DEF FeesInv
<1>2. /\ 0 .. feeClock \subseteq 0 .. feeClock'
      /\ StatusRowSet(feeClock) \subseteq StatusRowSet(feeClock')
      /\ StatusCallSet(feeClock) \subseteq StatusCallSet(feeClock')
      /\ FeeMemberSet(feeClock) \subseteq FeeMemberSet(feeClock')
  BY <1>1, LaterTypes
<1>3. starts \in Seq(0 .. feeClock')
  BY <1>1, <1>2, SeqMonotonic
<1>4. statusRows \in Seq(StatusRowSet(feeClock'))
  BY <1>1, <1>2, SeqMonotonic
<1> QED BY <1>1, <1>2, <1>3, <1>4

LEMMA StartMonthKeeps == ASSUME FeesInv, StartMonth PROVE FeesInv'
<1>1. /\ feeClock' = feeClock + 1 /\ starts' = Append(starts, feeClock') /\ Len(starts) < MaxMonths
      /\ UNCHANGED <<feeMember, statusRows, statusCalls, assessed>>
  BY DEF StartMonth
<1>2. /\ feeClock \in Nat /\ starts \in Seq(0 .. feeClock')
      /\ feeMember' \in FeeMemberSet(feeClock')
      /\ statusRows' \in Seq(StatusRowSet(feeClock'))
      /\ statusCalls \in [StatusCalls -> StatusCallSet(feeClock')]
  BY <1>1, TickTypes
<1>3. /\ Len(starts) \in 1 .. MaxMonths /\ assessed \subseteq Months /\ starts \in Seq(0 .. feeClock)
      /\ feeClock + 1 <= MaxBegun + Len(starts) /\ MaxBegun \in Nat /\ MaxMonths \in Nat
      /\ \A i, j \in Months : i < j => starts[i] < starts[j]
  BY FeeTypes, FeeConstants DEF FeesInv
<1>4. /\ starts' \in Seq(0 .. feeClock') /\ Len(starts') = Len(starts) + 1
      /\ starts'[Len(starts) + 1] = feeClock'
      /\ \A i \in 1 .. Len(starts) : starts'[i] = starts[i]
  BY <1>1, <1>2
<1>5. \A i \in 1 .. Len(starts) : starts[i] \in 0 .. feeClock
  BY <1>3, ElementOfSeq
<1>6. \A i, j \in Months' : i < j => starts'[i] < starts'[j]
  <2> SUFFICES ASSUME NEW i \in 1 .. Len(starts) + 1, NEW j \in 1 .. Len(starts) + 1, i < j
               PROVE  starts'[i] < starts'[j]
    BY <1>4 DEF Months
  <2>1. i \in 1 .. Len(starts) /\ Len(starts) \in Nat
    BY <1>3
  <2>2. CASE j = Len(starts) + 1
    <3>1. starts[i] < feeClock + 1
      BY <1>2, <1>5, <2>1
    <3> QED BY <1>1, <1>4, <2>1, <2>2, <3>1
  <2>3. CASE j # Len(starts) + 1
    <3>1. j \in 1 .. Len(starts)
      BY <2>1, <2>3
    <3> QED BY <1>3, <1>4, <2>1, <3>1 DEF Months
  <2> QED BY <2>2, <2>3
<1>7. FeesTypeOK'
  <2>1. assessed' \subseteq Months'
    BY <1>1, <1>3, <1>4 DEF Months
  <2>2. feeClock' \in 0 .. MaxBegun + MaxMonths /\ Len(starts') \in 1 .. MaxMonths
    BY <1>1, <1>2, <1>3, <1>4
  <2> QED BY <1>1, <1>2, <1>4, <2>1, <2>2, FeeTypesPrimed
<1>8. \A c \in StatusCalls : StatusCallFits(statusCalls[c])'
  BY <1>1 DEF FeesInv, StatusCallFits
<1>9. feeClock' + 1 <= MaxBegun + Len(starts')
  BY <1>1, <1>2, <1>3, <1>4
<1> QED BY <1>6, <1>7, <1>8, <1>9 DEF FeesInv

\* Only the open status changes are touched, at most with a tick of the clock.
LEMMA StatusCallsKeep ==
    ASSUME FeesInv, UNCHANGED <<starts, feeMember, statusRows, assessed>>,
           \/ feeClock' = feeClock
           \/ feeClock' = feeClock + 1 /\ feeClock + 1 - Len(starts) < MaxBegun,
           NEW c \in StatusCalls, NEW x \in StatusCallSet(feeClock'), StatusCallFits(x),
           statusCalls' = [statusCalls EXCEPT ![c] = x]
    PROVE  FeesInv'
<1>1. /\ feeClock \in 0 .. MaxBegun + MaxMonths /\ starts \in Seq(0 .. feeClock)
      /\ Len(starts) \in 1 .. MaxMonths
      /\ feeMember \in FeeMemberSet(feeClock) /\ statusRows \in Seq(StatusRowSet(feeClock))
      /\ statusCalls \in [StatusCalls -> StatusCallSet(feeClock)] /\ assessed \subseteq Months
      /\ feeClock + 1 <= MaxBegun + Len(starts) /\ MaxBegun \in Nat /\ MaxMonths \in Nat
  BY FeeTypes, FeeConstants DEF FeesInv
<1>2. /\ starts' \in Seq(0 .. feeClock') /\ feeMember' \in FeeMemberSet(feeClock')
      /\ statusRows' \in Seq(StatusRowSet(feeClock'))
      /\ statusCalls \in [StatusCalls -> StatusCallSet(feeClock')]
  <2>1. CASE feeClock' = feeClock
    BY <1>1, <2>1
  <2>2. CASE feeClock' = feeClock + 1
    BY <2>2, TickTypes
  <2> QED BY <2>1, <2>2
<1>3. statusCalls' \in [StatusCalls -> StatusCallSet(feeClock')]
  BY <1>2
<1>4. feeClock' \in 0 .. MaxBegun + MaxMonths /\ feeClock' + 1 <= MaxBegun + Len(starts')
  BY <1>1
<1>5. FeesTypeOK'
  BY <1>1, <1>2, <1>3, <1>4, FeeTypesPrimed DEF Months
<1>6. ASSUME NEW d \in StatusCalls PROVE StatusCallFits(statusCalls[d])'
  <2> SUFFICES ASSUME NEW y, y = statusCalls'[d] PROVE StatusCallFits(y)'
    OBVIOUS
  <2>1. StatusCallFits(y)
    BY <1>1 DEF FeesInv
  <2> QED BY <2>1 DEF StatusCallFits
<1>7. \A i, j \in Months' : i < j => starts'[i] < starts'[j]
  BY DEF FeesInv, Months
<1> QED BY <1>4, <1>5, <1>6, <1>7 DEF FeesInv

LEMMA CreateFeeMemberKeeps == ASSUME FeesInv, CreateFeeMember PROVE FeesInv'
<1>1. /\ feeClock \in 0 .. MaxBegun + MaxMonths /\ starts \in Seq(0 .. feeClock)
      /\ Len(starts) \in 1 .. MaxMonths
      /\ feeMember \in FeeMemberSet(feeClock) /\ statusRows \in Seq(StatusRowSet(feeClock))
      /\ statusCalls \in [StatusCalls -> StatusCallSet(feeClock)] /\ assessed \subseteq Months
      /\ feeClock + 1 <= MaxBegun + Len(starts)
  BY FeeTypes, FeeConstants DEF FeesInv
<1>2. /\ feeMember.status = "none"
      /\ feeMember' = [feeMember EXCEPT !.status = "pending", !.created_at = feeClock]
      /\ UNCHANGED <<feeClock, starts, statusRows, statusCalls, assessed>>
  BY DEF CreateFeeMember
<1>3. feeMember' \in FeeMemberSet(feeClock')
  <2>1. feeClock \in 0 .. feeClock /\ "pending" \in Statuses
    BY <1>1, FeeConstants DEF Statuses
  <2>2. feeMember' \in FeeMemberSet(feeClock)
    BY <1>1, <1>2, <2>1 DEF FeeMemberSet
  <2> QED BY <1>2, <2>2
<1>4. FeesTypeOK'
  BY <1>1, <1>2, <1>3, FeeTypesPrimed DEF Months
<1>5. \A c \in StatusCalls : statusCalls[c].op \notin {"status", "close"}
  BY <1>2 DEF FeesInv, StatusCallFits
<1>6. \A c \in StatusCalls : StatusCallFits(statusCalls[c])'
  BY <1>2, <1>5 DEF FeesInv, StatusCallFits
<1>7. \A i, j \in Months' : i < j => starts'[i] < starts'[j]
  BY <1>2 DEF FeesInv, Months
<1> QED BY <1>1, <1>2, <1>4, <1>6, <1>7 DEF FeesInv

LEMMA WriteStatusKeeps == ASSUME FeesInv, NEW c \in StatusCalls, WriteStatus(c) PROVE FeesInv'
<1>1. /\ feeClock \in 0 .. MaxBegun + MaxMonths /\ starts \in Seq(0 .. feeClock)
      /\ Len(starts) \in 1 .. MaxMonths
      /\ feeMember \in FeeMemberSet(feeClock) /\ statusRows \in Seq(StatusRowSet(feeClock))
      /\ statusCalls \in [StatusCalls -> StatusCallSet(feeClock)] /\ assessed \subseteq Months
      /\ feeClock + 1 <= MaxBegun + Len(starts)
  BY FeeTypes, FeeConstants DEF FeesInv
<1>2. PICK x : x = statusCalls[c]
  OBVIOUS
<1>3. /\ x.op \in {"status", "close"}
      /\ feeMember' = [feeMember EXCEPT !.status = x.to, !.is_deleted = x.op = "close"]
      /\ statusRows' = Append(statusRows, [created_at |-> x.created_at, from |-> x.from, to |-> x.to])
      /\ statusCalls' = [statusCalls EXCEPT ![c] = NoStatusTx]
      /\ UNCHANGED <<feeClock, starts, assessed>>
  BY <1>2 DEF WriteStatus
<1>4. x \in StatusCallSet(feeClock) /\ x.created_at > 0 /\ x.from \in Statuses /\ x.to \in Statuses
  BY <1>1, <1>2, <1>3 DEF FeesInv, StatusCallFits
<1>5. x.created_at \in 1 .. feeClock
  BY <1>1, <1>4, FeeConstants DEF StatusCallSet
<1>6. feeMember' \in FeeMemberSet(feeClock') /\ feeMember'.status # "none"
  <2>1. feeMember' \in FeeMemberSet(feeClock) /\ feeMember'.status = x.to
    BY <1>1, <1>3, <1>4 DEF FeeMemberSet
  <2>2. "none" \notin Statuses
    BY DEF Statuses
  <2> QED BY <1>3, <1>4, <2>1, <2>2
<1>7. statusRows' \in Seq(StatusRowSet(feeClock')) /\ statusRows' # << >>
  <2>1. [created_at |-> x.created_at, from |-> x.from, to |-> x.to] \in StatusRowSet(feeClock)
    BY <1>4, <1>5 DEF StatusRowSet
  <2> QED BY <1>1, <1>3, <2>1
<1>8. NoStatusTx \in StatusCallSet(feeClock) /\ NoStatusTx.op = "none"
  BY <1>1, FeeConstants DEF NoStatusTx, StatusCallSet
<1>9. statusCalls' \in [StatusCalls -> StatusCallSet(feeClock')]
  BY <1>1, <1>3, <1>8
<1>10. FeesTypeOK'
  BY <1>1, <1>3, <1>6, <1>7, <1>9, FeeTypesPrimed DEF Months
<1>11. ASSUME NEW d \in StatusCalls PROVE StatusCallFits(statusCalls[d])'
  <2> SUFFICES ASSUME NEW y, y = statusCalls'[d] PROVE StatusCallFits(y)'
    OBVIOUS
  <2>1. CASE d = c
    BY <1>1, <1>3, <1>8, <2>1 DEF StatusCallFits
  <2>2. CASE d # c
    <3>1. StatusCallFits(y)
      BY <1>1, <1>3, <2>2 DEF FeesInv
    <3> QED BY <1>6, <1>7, <3>1 DEF StatusCallFits
  <2> QED BY <2>1, <2>2
<1>12. \A i, j \in Months' : i < j => starts'[i] < starts'[j]
  BY <1>3 DEF FeesInv, Months
<1> QED BY <1>1, <1>3, <1>10, <1>11, <1>12 DEF FeesInv

LEMMA NextFeesInv == FeesInv /\ [FeesNext]_feeVars => FeesInv'
<1> SUFFICES ASSUME FeesInv, [FeesNext]_feeVars PROVE FeesInv'
  OBVIOUS
<1>1. /\ feeClock \in Nat /\ statusCalls \in [StatusCalls -> StatusCallSet(feeClock)]
      /\ feeMember \in FeeMemberSet(feeClock)
  BY FeeTypes DEF FeesInv
<1>2. ASSUME NEW c \in StatusCalls, BeginStatusTx(c) PROVE FeesInv'
  <2>1. PICK x : x = [NoStatusTx EXCEPT !.op = "begun", !.created_at = feeClock']
    OBVIOUS
  <2>2. /\ feeClock' = feeClock + 1 /\ feeClock + 1 - Len(starts) < MaxBegun
        /\ statusCalls' = [statusCalls EXCEPT ![c] = x]
        /\ UNCHANGED <<starts, feeMember, statusRows, assessed>>
    BY <1>2, <2>1 DEF BeginStatusTx
  <2>3. x \in StatusCallSet(feeClock') /\ x.op = "begun" /\ x.created_at = feeClock'
    <3>1. PICK n : n = feeClock'
      OBVIOUS
    <3>2. n \in 0 .. n /\ x = [NoStatusTx EXCEPT !.op = "begun", !.created_at = n]
      BY <1>1, <2>1, <2>2, <3>1
    <3>3. x \in StatusCallSet(n) /\ x.op = "begun" /\ x.created_at = n
      BY <3>2 DEF NoStatusTx, StatusCallSet
    <3> QED BY <3>1, <3>3
  <2>4. StatusCallFits(x)
    BY <1>1, <2>2, <2>3 DEF StatusCallFits
  <2> QED BY <2>2, <2>3, <2>4, StatusCallsKeep
<1>3. ASSUME NEW c \in StatusCalls, RollbackStatus(c) PROVE FeesInv'
  <2>1. NoStatusTx \in StatusCallSet(feeClock) /\ StatusCallFits(NoStatusTx)
    BY <1>1 DEF NoStatusTx, StatusCallSet, StatusCallFits
  <2>2. /\ feeClock' = feeClock /\ statusCalls' = [statusCalls EXCEPT ![c] = NoStatusTx]
        /\ UNCHANGED <<starts, feeMember, statusRows, assessed>>
    BY <1>3 DEF RollbackStatus
  <2> QED BY <2>1, <2>2, StatusCallsKeep
<1>4. ASSUME NEW c \in StatusCalls, NEW op \in {"status", "close"}, NEW to \in Statuses,
             DecideStatus(c, op, to)
      PROVE  FeesInv'
  <2>1. PICK x : x = [statusCalls[c] EXCEPT !.op = op, !.from = feeMember.status, !.to = to]
    OBVIOUS
  <2>2. /\ statusCalls[c].op = "begun" /\ <<feeMember.status, to>> \in statusTransitions
        /\ statusCalls' = [statusCalls EXCEPT ![c].op = op, ![c].from = feeMember.status, ![c].to = to]
        /\ UNCHANGED <<feeClock, starts, feeMember, statusRows, assessed>>
    BY <1>4 DEF DecideStatus
  <2>3. statusCalls' = [statusCalls EXCEPT ![c] = x]
    BY <1>1, <2>1, <2>2
  <2>4. feeMember.status \in Statuses /\ "none" \notin Statuses
    BY <2>2 DEF statusTransitions, Statuses
  <2>5. statusCalls[c].created_at > 0 /\ statusCalls[c] \in StatusCallSet(feeClock)
    BY <1>1, <2>2 DEF FeesInv, StatusCallFits
  <2>6. /\ x \in StatusCallSet(feeClock') /\ x.op = op /\ x.created_at = statusCalls[c].created_at
        /\ x.from = feeMember.status /\ x.to = to
    BY <2>1, <2>2, <2>4, <2>5 DEF StatusCallSet
  <2>7. StatusCallFits(x)
    BY <2>4, <2>5, <2>6 DEF StatusCallFits
  <2> QED BY <2>2, <2>3, <2>6, <2>7, StatusCallsKeep
<1>5. ASSUME UNCHANGED <<feeClock, starts, feeMember, statusRows, statusCalls>>, assessed' \subseteq Months
      PROVE  FeesInv'
  BY <1>5 DEF FeesInv, FeesTypeOK, Months, StatusCallFits
<1>6. ASSUME NEW p \in Months, AssessMonthlyFees(p) PROVE FeesInv'
  BY <1>5, <1>6 DEF AssessMonthlyFees, FeesInv, FeesTypeOK
<1>7. CASE UNCHANGED feeVars
  BY <1>5, <1>7 DEF feeVars, FeesInv, FeesTypeOK
<1> QED BY <1>2, <1>3, <1>4, <1>6, <1>7, StartMonthKeeps, CreateFeeMemberKeeps, WriteStatusKeeps
        DEF FeesNext

LEMMA InitFeesInv == FeesInit => FeesInv
<1> SUFFICES ASSUME FeesInit PROVE FeesInv
  OBVIOUS
<1>1. /\ feeClock = 0 /\ starts = <<0>> /\ statusRows = << >> /\ assessed = {}
      /\ feeMember = [status |-> "none", created_at |-> 0, is_deleted |-> FALSE]
      /\ statusCalls = [c \in StatusCalls |-> NoStatusTx]
  BY DEF FeesInit
<1>2. MaxBegun \in Nat /\ MaxMonths \in Nat \ {0} /\ Len(starts) = 1 /\ starts \in Seq(0 .. feeClock)
  BY <1>1, FeeConstants
<1>3. statusRows \in Seq(StatusRowSet(feeClock))
  BY <1>1
<1>4. feeMember \in FeeMemberSet(feeClock) /\ statusCalls \in [StatusCalls -> StatusCallSet(feeClock)]
  BY <1>1 DEF FeeMemberSet, StatusCallSet, NoStatusTx
<1>5. FeesTypeOK
  BY <1>1, <1>2, <1>3, <1>4, FeeTypes
<1>6. \A c \in StatusCalls : StatusCallFits(statusCalls[c])
  BY <1>1 DEF StatusCallFits, NoStatusTx
<1> QED BY <1>1, <1>2, <1>5, <1>6 DEF FeesInv, Months

LEMMA FeesInvHolds == FeesSpec => []FeesInv
BY InitFeesInv, NextFeesInv, PTL DEF FeesSpec

\* A later row does not change which one is the earliest.
LEMMA EarliestStays ==
    ASSUME NEW S, S # {}, NEW h, h.created_at \in Nat,
           \A g \in S : g.created_at \in Nat /\ g.created_at < h.created_at
    PROVE  Earliest(S \cup {h}) = Earliest(S)
<1>1. \A x : (x \in S \cup {h} /\ \A g \in S \cup {h} : x.created_at <= g.created_at)
                <=> (x \in S /\ \A g \in S : x.created_at <= g.created_at)
  <2> SUFFICES ASSUME NEW x
               PROVE  (x \in S \cup {h} /\ \A g \in S \cup {h} : x.created_at <= g.created_at)
                          <=> (x \in S /\ \A g \in S : x.created_at <= g.created_at)
    OBVIOUS
  <2>1. ~(\A g \in S : h.created_at <= g.created_at)
    OBVIOUS
  <2>2. x \in S => x.created_at <= h.created_at
    OBVIOUS
  <2> QED BY <2>1, <2>2
<1> QED BY <1>1, Zenon DEF Earliest

\* A status change is recorded after the month: what the month owes stays.
LEMMA WriteKeepsFees ==
    ASSUME FeesInv, NEW c \in StatusCalls, WriteStatus(c), NEW p \in 1 .. Len(starts) - 1,
           RecordedInOrder', \A h \in Rows' \ Rows : h.created_at >= starts[p + 1],
           ~feeMember'.is_deleted
    PROVE  EligibleForFees(p)' <=> EligibleForFees(p)
<1>0. /\ feeClock \in Nat /\ starts \in Seq(0 .. feeClock) /\ Len(starts) \in Nat
      /\ feeMember \in FeeMemberSet(feeClock) /\ statusRows \in Seq(StatusRowSet(feeClock))
      /\ statusCalls \in [StatusCalls -> StatusCallSet(feeClock)]
  BY FeeTypes DEF FeesInv
<1>1. PICK x : x = statusCalls[c]
  OBVIOUS
<1>2. PICK h : h = [created_at |-> x.created_at, from |-> x.from, to |-> x.to]
  OBVIOUS
<1>3. /\ x.op \in {"status", "close"} /\ ~feeMember.is_deleted
      /\ feeMember' = [feeMember EXCEPT !.status = x.to, !.is_deleted = x.op = "close"]
      /\ statusRows' = Append(statusRows, h) /\ starts' = starts
  BY <1>1, <1>2 DEF WriteStatus
<1>4. /\ h.created_at \in Nat /\ h.from = x.from /\ x.from \in Statuses /\ x.to \in Statuses
      /\ feeMember.status # "none" /\ (statusRows = << >> => x.from = feeMember.status)
  <2>1. x \in StatusCallSet(feeClock) /\ StatusCallFits(x)
    BY <1>0, <1>1 DEF FeesInv
  <2> QED BY <1>2, <1>3, <2>1 DEF StatusCallFits, StatusCallSet
<1>5. /\ feeMember'.status # "none" /\ feeMember'.created_at = feeMember.created_at
  <2>1. "none" \notin Statuses
    BY DEF Statuses
  <2> QED BY <1>0, <1>3, <1>4, <2>1 DEF FeeMemberSet
<1>6. Rows' = Rows \cup {h}
  <2>1. /\ Len(statusRows) \in Nat /\ Len(statusRows') = Len(statusRows) + 1
        /\ statusRows'[Len(statusRows) + 1] = h
        /\ \A i \in 1 .. Len(statusRows) : statusRows'[i] = statusRows[i]
    BY <1>0, <1>3
  <2>2. Rows' = {statusRows'[i] : i \in 1 .. Len(statusRows) + 1}
    BY <2>1 DEF Rows
  <2>3. 1 .. Len(statusRows) + 1 = 1 .. Len(statusRows) \cup {Len(statusRows) + 1}
    BY <2>1
  <2> QED BY <2>1, <2>2, <2>3 DEF Rows
<1>7. \A g \in Rows : g.created_at \in Nat /\ g.created_at < h.created_at
  <2> SUFFICES ASSUME NEW i \in 1 .. Len(statusRows)
               PROVE  /\ statusRows[i].created_at \in Nat
                      /\ statusRows[i].created_at < h.created_at
    BY DEF Rows
  <2>1. /\ Len(statusRows') = Len(statusRows) + 1 /\ statusRows'[Len(statusRows) + 1] = h
        /\ statusRows'[i] = statusRows[i] /\ Len(statusRows) \in Nat
    BY <1>0, <1>3
  <2>2. statusRows[i] \in StatusRowSet(feeClock)
    BY <1>0, ElementOfSeq
  <2>3. /\ i \in 1 .. Len(statusRows') /\ Len(statusRows) + 1 \in 1 .. Len(statusRows')
        /\ i < Len(statusRows) + 1
    BY <2>1
  <2>4. statusRows'[i].created_at < statusRows'[Len(statusRows) + 1].created_at
    BY <2>3 DEF RecordedInOrder
  <2> QED BY <2>1, <2>2, <2>4 DEF StatusRowSet
<1>8. p \in 1 .. Len(starts) /\ p + 1 \in 1 .. Len(starts) /\ p < p + 1 /\ p < Len(starts)
  BY <1>0
<1>9. starts[p] \in Nat /\ starts[p + 1] \in Nat /\ starts[p] < starts[p + 1]
  <2>1. starts[p] \in 0 .. feeClock /\ starts[p + 1] \in 0 .. feeClock
    BY <1>0, <1>8, ElementOfSeq
  <2> QED BY <1>0, <1>8, <2>1 DEF FeesInv, Months
<1>10. h.created_at >= starts[p + 1]
  BY <1>4, <1>6, <1>7
<1>11. RowsBefore(p)' = RowsBefore(p)
  BY <1>3, <1>4, <1>6, <1>9, <1>10 DEF RowsBefore
<1>12. RowsAfter(p)' = RowsAfter(p) \cup {h}
  BY <1>3, <1>4, <1>6, <1>9, <1>10 DEF RowsAfter
<1>13. RowsDuring(p)' = RowsDuring(p)
  BY <1>3, <1>4, <1>6, <1>8, <1>9, <1>10 DEF RowsDuring
<1>14. StatusAtStart(p)' = StatusAtStart(p)
  <2>1. CASE RowsBefore(p) # {}
    <3>1. /\ StatusAtStart(p) = Latest(RowsBefore(p)).to
          /\ StatusAtStart(p)' = Latest(RowsBefore(p)').to
      BY <1>11, <2>1 DEF StatusAtStart, Latest
    <3> QED BY <1>11, <3>1
  <2>2. CASE RowsBefore(p) = {} /\ RowsAfter(p) # {}
    <3>1. /\ StatusAtStart(p) = Earliest(RowsAfter(p)).from
          /\ StatusAtStart(p)' = Earliest(RowsAfter(p)').from
      BY <1>11, <1>12, <2>2 DEF StatusAtStart, Earliest
    <3>2. \A g \in RowsAfter(p) : g.created_at \in Nat /\ g.created_at < h.created_at
      BY <1>7 DEF RowsAfter
    <3>3. Earliest(RowsAfter(p) \cup {h}) = Earliest(RowsAfter(p))
      BY <1>4, <2>2, <3>2, EarliestStays
    <3> QED BY <1>12, <3>1, <3>3
  <2>3. CASE RowsBefore(p) = {} /\ RowsAfter(p) = {}
    <3>1. Rows = {}
      BY <1>7, <1>9, <2>3 DEF RowsBefore, RowsAfter
    <3>2. statusRows = << >>
      <4>1. Len(statusRows) \in Nat
        BY <1>0
      <4>2. \A i \in 1 .. Len(statusRows) : statusRows[i] \in Rows
        BY DEF Rows
      <4>3. 1 \notin 1 .. Len(statusRows)
        BY <3>1, <4>2
      <4>4. Len(statusRows) = 0
        BY <4>1, <4>3
      <4> QED BY <1>0, <4>4, EmptySeq
    <3>3. StatusAtStart(p) = feeMember.status
      BY <2>3 DEF StatusAtStart
    <3>4. StatusAtStart(p)' = Earliest({h}).from
      BY <1>11, <1>12, <2>3 DEF StatusAtStart, Earliest
    <3>5. Earliest({h}) = h
      BY <1>4 DEF Earliest
    <3> QED BY <1>4, <3>2, <3>3, <3>4, <3>5
  <2> QED BY <2>1, <2>2, <2>3
<1>15. EligibleForFees(p) <=> /\ feeMember.created_at < starts[p + 1]
                              /\ \/ StatusAtStart(p) = "active"
                                 \/ \E g \in RowsDuring(p) : g.to = "active"
  BY <1>3, <1>4, <1>8 DEF EligibleForFees
<1>16. EligibleForFees(p)' <=> /\ feeMember'.created_at < starts[p + 1]
                               /\ \/ StatusAtStart(p)' = "active"
                                  \/ \E g \in RowsDuring(p)' : g.to = "active"
  BY <1>3, <1>5, <1>8 DEF EligibleForFees
<1> QED BY <1>5, <1>13, <1>14, <1>15, <1>16

\* What a step may do to past months, in the terms of PastFeesStand.
FeesKept ==
    \A p \in 1 .. Len(starts) - 1 :
        /\ RecordedInOrder'
        /\ \A h \in Rows' \ Rows : h.created_at >= starts[p + 1]
        /\ ~feeMember'.is_deleted
        => (QuoteMonthlyFees(p) <=> QuoteMonthlyFees(p)')

LEMMA FeesAreKept == FeesInv /\ [FeesNext]_feeVars => FeesKept
<1> SUFFICES ASSUME FeesInv, [FeesNext]_feeVars, NEW p \in 1 .. Len(starts) - 1, RecordedInOrder',
                    \A h \in Rows' \ Rows : h.created_at >= starts[p + 1], ~feeMember'.is_deleted
             PROVE  QuoteMonthlyFees(p) <=> QuoteMonthlyFees(p)'
  BY DEF FeesKept
<1>0. /\ feeClock \in Nat /\ starts \in Seq(0 .. feeClock) /\ Len(starts) \in Nat
      /\ feeMember \in FeeMemberSet(feeClock)
  BY FeeTypes DEF FeesInv
<1>1. p \in 1 .. Len(starts) /\ p + 1 \in 1 .. Len(starts) /\ p < Len(starts)
  BY <1>0
<1>2. CASE UNCHANGED <<starts, feeMember, statusRows>> /\ (assessed' = assessed)
  BY <1>2 DEF QuoteMonthlyFees, EligibleForFees, StatusAtStart, RowsBefore, RowsAfter, RowsDuring, Rows
<1>3. CASE StartMonth
  <2>1. /\ starts' = Append(starts, feeClock') /\ feeClock' = feeClock + 1
        /\ UNCHANGED <<feeMember, statusRows, assessed>>
    BY <1>3 DEF StartMonth
  <2>2. starts'[p] = starts[p] /\ starts'[p + 1] = starts[p + 1] /\ Len(starts') = Len(starts) + 1
    BY <1>0, <1>1, <2>1
  <2>3. p < Len(starts')
    BY <1>0, <1>1, <2>2
  <2>4. /\ RowsBefore(p)' = RowsBefore(p) /\ RowsAfter(p)' = RowsAfter(p)
        /\ RowsDuring(p)' = RowsDuring(p)
    BY <1>1, <2>1, <2>2, <2>3 DEF RowsBefore, RowsAfter, RowsDuring, Rows
  <2>5. StatusAtStart(p)' = StatusAtStart(p)
    BY <2>1, <2>4 DEF StatusAtStart, Latest, Earliest
  <2> QED BY <1>1, <2>1, <2>2, <2>3, <2>4, <2>5 DEF QuoteMonthlyFees, EligibleForFees
<1>4. CASE CreateFeeMember
  <2>1. /\ feeMember.status = "none" /\ assessed' = assessed /\ starts' = starts
        /\ feeMember'.created_at = feeClock
    BY <1>0, <1>4 DEF CreateFeeMember, FeeMemberSet
  <2>2. starts[p + 1] \in 0 .. feeClock
    BY <1>0, <1>1, ElementOfSeq
  <2>3. ~EligibleForFees(p)
    BY <2>1 DEF EligibleForFees
  <2>4. ~(feeMember'.created_at < starts'[p + 1])
    BY <1>0, <2>1, <2>2
  <2>5. ~EligibleForFees(p)'
    BY <1>1, <2>1, <2>4 DEF EligibleForFees
  <2> QED BY <2>1, <2>3, <2>5 DEF QuoteMonthlyFees
<1>5. ASSUME NEW c \in StatusCalls, WriteStatus(c) PROVE QuoteMonthlyFees(p) <=> QuoteMonthlyFees(p)'
  <2>1. EligibleForFees(p)' <=> EligibleForFees(p)
    BY <1>5, WriteKeepsFees
  <2>2. assessed' = assessed
    BY <1>5 DEF WriteStatus
  <2> QED BY <2>1, <2>2 DEF QuoteMonthlyFees
<1>6. ASSUME NEW q \in Months, AssessMonthlyFees(q) PROVE QuoteMonthlyFees(p) <=> QuoteMonthlyFees(p)'
  <2>1. /\ EligibleForFees(q) /\ assessed' = assessed \cup {q}
        /\ UNCHANGED <<starts, feeMember, statusRows>>
    BY <1>6 DEF AssessMonthlyFees
  <2>2. EligibleForFees(p)' <=> EligibleForFees(p)
    BY <2>1 DEF EligibleForFees, StatusAtStart, RowsBefore, RowsAfter, RowsDuring, Rows
  <2> QED BY <2>1, <2>2 DEF QuoteMonthlyFees
<1>7. ASSUME NEW c \in StatusCalls,
             \/ BeginStatusTx(c) \/ RollbackStatus(c)
             \/ \E op \in {"status", "close"}, to \in Statuses : DecideStatus(c, op, to)
      PROVE  QuoteMonthlyFees(p) <=> QuoteMonthlyFees(p)'
  BY <1>2, <1>7 DEF BeginStatusTx, RollbackStatus, DecideStatus
<1>8. CASE UNCHANGED feeVars
  BY <1>2, <1>8 DEF feeVars
<1> QED BY <1>3, <1>4, <1>5, <1>6, <1>7, <1>8 DEF FeesNext

\* Whether a month that is over is charged does not depend on when it is asked,
\* whatever status changes are open, as long as they are recorded in order.
THEOREM PastFeesAreSettled == FeesSpec => PastFeesStand
<1>1. FeesInv /\ [FeesNext]_feeVars => FeesKept
  BY FeesAreKept
<1>2. FeesKept <=> \A p \in 1 .. Len(starts) - 1 :
          /\ RecordedInOrder'
          /\ \A h \in Rows' \ Rows : h.created_at >= starts[p + 1]
          /\ ~feeMember'.is_deleted
          => (QuoteMonthlyFees(p) <=> QuoteMonthlyFees(p)')
  BY DEF FeesKept
<1> QED BY <1>1, <1>2, FeesInvHolds, PTL DEF FeesSpec, PastFeesStand

\* The types of a walk, whatever the order of the list.
LEMMA ListsTyped == ListsSpec => []ListsTypeOK
<1>1. ListsInit => ListsTypeOK
  BY ListConstants DEF ListsInit, ListsTypeOK
<1>2. ASSUME ListsTypeOK, NEW size \in PageSizes, ListPage(size) PROVE ListsTypeOK'
  <2>1. PICK page \in SUBSET rows :
            /\ listed' = [r \in Positions |-> IF r \in page THEN listed[r] + 1 ELSE listed[r]]
            /\ \/ walk' = "done" /\ token' = 0
               \/ walk' = "walking" /\ token' \in page
    BY <1>2, PageEffect
  <2>2. UNCHANGED <<listing, rows, stayed>>
    BY <1>2 DEF ListPage
  <2> QED BY <1>2, <2>1, <2>2 DEF ListsTypeOK
<1>3. ListsTypeOK /\ [ListsNext]_listVars => ListsTypeOK'
  <2> SUFFICES ASSUME ListsTypeOK, [ListsNext]_listVars PROVE ListsTypeOK'
    OBVIOUS
  <2>1. ASSUME NEW r \in Positions, RowAppears(r) \/ RowLeaves(r) PROVE ListsTypeOK'
    BY <2>1 DEF RowAppears, RowLeaves, ListsTypeOK
  <2>2. CASE UNCHANGED listVars
    BY <2>2 DEF listVars, ListsTypeOK
  <2> QED BY <1>2, <2>1, <2>2 DEF ListsNext
<1> QED BY <1>1, <1>3, PTL DEF ListsSpec

-----------------------------------------------------------------------------
(* The back office as one system: every part of it behaves as that part.   *)

LEMMA OfficeStart ==
    MCInit => /\ MembersInit /\ FeesInit /\ DividendsInit /\ CeepInit
              /\ CashInit /\ CreditsInit /\ ListsInit
BY DEF MCInit

LEMMA OfficeStep ==
    [MCNext]_officeVars =>
        /\ [MembersNext]_memberVars /\ [FeesNext]_feeVars /\ [DividendsNext]_dividendVars
        /\ [CeepNext]_ceepVars /\ [ListsNext]_listVars
        /\ [CashNext]_cashVars /\ CreditsStep
<1> SUFFICES ASSUME [MCNext]_officeVars
             PROVE  /\ [MembersNext]_memberVars /\ [FeesNext]_feeVars /\ [DividendsNext]_dividendVars
                    /\ [CeepNext]_ceepVars /\ [ListsNext]_listVars
                    /\ [CashNext]_cashVars /\ CreditsStep
  OBVIOUS
<1>1. CASE MCNext
  <2>1. /\ [MembersNext]_memberVars /\ [FeesNext]_feeVars /\ [DividendsNext]_dividendVars
        /\ [CeepNext]_ceepVars /\ [ListsNext]_listVars /\ CreditsStep
    BY <1>1 DEF MCNext, CreditsStep
  <2>2. CreditsNext => UNCHANGED staff
    <3>1. \A c, k, call : BeginCredit(c, k, call) => UNCHANGED staff
      BY DEF BeginCredit
    <3>2. \A c : CommitCredit(c) => UNCHANGED staff
      BY DEF CommitCredit
    <3>3. \A c, by, k, o, action, x :
              BeginSpend(c, by, k, o, action, x) \/ BeginReview(c, by, k, o, action, x) => UNCHANGED staff
      BY <3>1 DEF BeginSpend, BeginReview
    <3>4. \A c : (\/ InsertCreditOperation(c) \/ ReviewCreditOperation(c)
                 \/ CompleteCreditOperation(c) \/ AbortCredit(c)) => UNCHANGED staff
      BY <3>2 DEF InsertCreditOperation, ReviewCreditOperation, CompleteCreditOperation, AbortCredit
    <3> QED BY <3>3, <3>4 DEF CreditsNext, OwnerCloses
  <2>3. [CashNext]_cashVars
    <3>1. CASE focus = "cash"
      BY <1>1, <3>1 DEF MCNext
    <3>2. CASE focus # "cash"
      <4>1. UNCHANGED <<cashTables, cashCalls, late>>
        BY <1>1, <3>2 DEF MCNext
      <4>2. UNCHANGED staff
        BY <1>1, <2>2, <3>2 DEF MCNext
      <4> QED BY <4>1, <4>2 DEF cashVars, cashTables
    <3> QED BY <3>1, <3>2
  <2> QED BY <2>1, <2>3
<1>2. CASE UNCHANGED officeVars
  <2>1. /\ UNCHANGED memberVars /\ UNCHANGED feeVars /\ UNCHANGED dividendVars
        /\ UNCHANGED ceepVars /\ UNCHANGED listVars /\ UNCHANGED cashVars /\ UNCHANGED creditVars
    BY <1>2 DEF officeVars
  <2> QED BY <2>1 DEF CreditsStep, creditVars
<1> QED BY <1>1, <1>2

LEMMA OfficeParts ==
    MCSpec => /\ MembersSpec /\ FeesSpec /\ DividendsSpec /\ CeepSpec /\ CashSpec /\ ListsSpec
              /\ []CreditsInv
BY OfficeStart, OfficeStep, InitCreditsInv, NextCreditsInv, PTL
   DEF MCSpec, MembersSpec, FeesSpec, DividendsSpec, CeepSpec, CashSpec, ListsSpec

\* Whatever part of the back office is at work, it keeps its types.
THEOREM OfficeTyped == MCSpec => []OfficeTypeOK
<1>1. MembersInv /\ FeesInv /\ CashInv /\ CreditsInv
        => MembersTypeOK /\ FeesTypeOK /\ CashTypeOK /\ CreditsTypeOK
  BY CashTypes DEF MembersInv, FeesInv, CashInv, CreditsInv, CreditTables, CreditsTypeOK,
                   OperationRows, CreditCallRows
<1>2. (/\ MembersTypeOK /\ FeesTypeOK /\ DividendsTypeOK /\ CeepTypeOK
       /\ CashTypeOK /\ CreditsTypeOK /\ ListsTypeOK) => OfficeTypeOK
  BY DEF OfficeTypeOK
<1> QED BY <1>1, <1>2, OfficeParts, MembersInvHolds, FeesInvHolds, CashInvHolds, DividendTypes,
           CeepTypes, ListsTyped, PTL

\* Cash is taken over, deposits are confirmed and refunds are approved and paid
\* by another person than the one who started, whatever staff are hired and
\* leave while their calls are open, and each of them in a role that may do it.
THEOREM DutiesStaySeparate == MCSpec => []SeparationOfDuties
<1>1. CashInv /\ CustodyInRole /\ CreditsInv => SeparationOfDuties
  BY SettledByOthers DEF CashInv, SeparationOfDuties
<1> QED BY <1>1, OfficeParts, CashInvHolds, CustodyStaysInRole, PTL

\* What has been decided in a part of the back office stays decided.
THEOREM DecisionsStay == MCSpec => DecisionsAreFinal
<1>1. MCSpec => DeactivationIsFinal /\ AllocationsFrozen /\ PastFeesStand
  BY OfficeParts, DeactivationStays, AllocationsStayFrozen, PastFeesAreSettled, PTL
<1>2. MCSpec => CustodyMovesForward
  <2>1. CashInv /\ [CashNext]_cashVars => CustodyKept
    BY CustodyIsKept
  <2>2. CustodyKept <=>
          /\ \A s \in Sessions :
                LET a == sessions[s]
                    b == sessions'[s]
                IN  /\ CustodyRank[a.status] <= CustodyRank[b.status]
                    /\ CustodyRank[a.status] >= 2 =>
                           /\ b.expected = a.expected /\ b.counted = a.counted
                           /\ b.variance_reason = a.variance_reason
                    /\ CustodyRank[a.status] >= 3 => b.handed_over_to = a.handed_over_to
          /\ \A r \in BankRefs :
                deposits[r].status = "verified" => deposits'[r] = deposits[r]
    BY DEF CustodyKept
  <2> QED BY <2>1, <2>2, OfficeParts, CashInvHolds, PTL DEF CashSpec, CustodyMovesForward
<1>3. MCSpec => OperationsFinal
  <2>1. CreditsInv /\ CreditsStep => OperationsKept
    BY OperationsAreKept
  <2>2. OperationsKept <=>
          \A o \in OperationIds :
              LET a == operations[o]
                  b == operations'[o]
              IN  /\ a.status \in {"completed", "rejected"} => b = a
                  /\ a.status # "none" =>
                         /\ b.credit = a.credit /\ b.action = a.action
                         /\ b.amount = a.amount /\ b.requested_by = a.requested_by
    BY DEF OperationsKept
  <2> QED BY <2>1, <2>2, OfficeParts, OfficeStep, PTL DEF MCSpec, OperationsFinal
<1> QED BY <1>1, <1>2, <1>3, PTL DEF DecisionsAreFinal
=============================================================================
