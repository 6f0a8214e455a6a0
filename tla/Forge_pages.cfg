SPECIFICATION Spec
CONSTANTS
    add = add
    edit = edit
    Stray = Stray
    Page = {add, edit}
    Adders = {add}
    Admins = {edit}
    MaxProblems = 2
    MaxSaves = 2
    Faults = {"network", "database", "store", "leave"}
    MaxFaults = 1
INVARIANTS
    SavedAsSaid
    RolledBackIsGone
    RowsHaveObjects
    EmptyIsKnown
CHECK_DEADLOCK FALSE
