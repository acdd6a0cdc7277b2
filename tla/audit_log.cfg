\* Three events, two retention runs and one reading, in five days.
SPECIFICATION AuditSpec
CONSTANTS
    w1 = w1  w2 = w2  none = none  mixed = mixed
    Event <- Events
    Sweep = {w1, w2}
    RetentionDays = 2
    MaxOpen = 1
    PageSize = 1
    NoSweep = none
    Mixed = mixed
    MaxDay = 4
INVARIANTS DeletedIsArchived ArchivedOnce PagesMissNothing
SYMMETRY Symmetry
CHECK_DEADLOCK FALSE
