CONSTANTS
    NationalIds = {i1}
    MemberCalls = {c1, c2}
    MaxChanges = 3
SPECIFICATION MembersSpec
INVARIANTS ClosedIsTerminal
CHECK_DEADLOCK FALSE
