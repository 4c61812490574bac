------------------------------- MODULE Staff -------------------------------
(***************************************************************************)
(* Staff accounts and the permission check in front of every RPC           *)
(* (internal/auth).  The interceptor looks the caller up among the active  *)
(* staff and compares the role with the permission of the method; the      *)
(* handler then runs with that answer, even if the account is deactivated  *)
(* while it waits for a lock.                                              *)
(***************************************************************************)
EXTENDS Naturals, FiniteSets

CONSTANTS
    StaffIds,      \* people with a login
    InitialRoles,  \* the roster at the start: a role, or "none" if not yet hired
    HiredRoles,    \* roles given to people hired later
    MaxLeavers     \* bound: people who may be deactivated

VARIABLE staff  \* staff_users

Roles == {"system_admin", "manager", "loan_officer", "cashier",
          "auditor", "chairperson", "secretary"}

Permissions == {"staff.manage", "member.write", "share.write", "share.approve",
                "loan.write", "loan.approve", "loan.disburse", "repayment.record",
                "credit.withdraw", "cash.record", "cash.approve"}

RolePermissions ==
    [system_admin |-> Permissions,
     manager      |-> Permissions \ {"staff.manage"},
     loan_officer |-> {"member.write", "loan.write"},
     cashier      |-> {"share.write", "repayment.record", "cash.record"},
     chairperson  |-> {"loan.approve", "share.approve", "credit.withdraw"},
     secretary    |-> {"member.write"},
     auditor      |-> {}]

\* The staff_role type has these roles only.
ASSUME StaffConstants ==
    InitialRoles \in [StaffIds -> Roles \cup {"none"}] /\ HiredRoles \subseteq Roles

roleHasPermission(role, permission) == permission \in RolePermissions[role]

\* The methods that staff call in the modules that use this one; ManageCredit
\* asks for nothing here and decides in its handler.
permissionForMethod ==
    [CreateStaffUser     |-> "staff.manage",  DeactivateStaffUser |-> "staff.manage",
     OpenCashierSession  |-> "cash.record",   CreateCashContribution |-> "cash.record",
     CloseCashierSession |-> "cash.record",   AcceptCashHandover  |-> "cash.approve",
     RecordCashDeposit   |-> "cash.approve",  VerifyCashDeposit   |-> "cash.approve",
     RequestCreditWithdrawal |-> "repayment.record", ManageCredit |-> ""]

NotHired == [role |-> "none", is_active |-> FALSE]

StaffTypeOK ==
    staff \in [StaffIds -> [role : Roles \cup {"none"}, is_active : BOOLEAN]]

StaffInit ==
    staff = [s \in StaffIds |-> [role |-> InitialRoles[s], is_active |-> InitialRoles[s] # "none"]]

\* UnaryServerInterceptor: an active account whose role has the permission.
Admitted(s, method) ==
    /\ staff[s].is_active
    /\ permissionForMethod[method] # "" =>
           roleHasPermission(staff[s].role, permissionForMethod[method])

\* ON CONFLICT DO NOTHING: a known login is refused, deactivated ones too.
CreateStaffUser(admin, s, role) ==
    /\ Admitted(admin, "CreateStaffUser")
    /\ staff[s] = NotHired
    /\ staff' = [staff EXCEPT ![s] = [role |-> role, is_active |-> TRUE]]

\* Anyone may be deactivated, the last administrator too; nothing reactivates.
DeactivateStaffUser(admin, s) ==
    /\ Admitted(admin, "DeactivateStaffUser")
    /\ staff[s].is_active
    /\ Cardinality({p \in StaffIds : staff[p].role # "none" /\ ~staff[p].is_active}) < MaxLeavers
    /\ staff' = [staff EXCEPT ![s].is_active = FALSE]
=============================================================================
