CONSTANTS
    Listings = {"ListMembers"}
    Positions = {1, 2, 3}
    PageSizes = {0, 1, 9}
    defaultPageSize = 2
    maxPageSize = 3
SPECIFICATION ListsSpec
INVARIANTS WalkListsEveryRowOnce
CHECK_DEADLOCK FALSE
