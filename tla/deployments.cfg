\* Two scripts and a run of the backup process, in three seconds.
SPECIFICATION Spec
CONSTANTS
    b1 = b1  d1 = d1  d2 = d2  t1 = t1  t2 = t2  none = none  empty = empty
    Run = {b1, d1, d2}
    Retention = 1
    None = none
    Empty = empty
    MaxNow = 2
    Deploy = {d1, d2}
    Tag = {t1, t2}
    ImageOf <- OneImage
    TagOf <- OwnTag
    SchemaOf <- Schemas
INVARIANTS PublishedIsWhole AlwaysRestorable RecordedHasPassed SettledIsRecorded
PROPERTIES MigratedAfterBackup
CONSTRAINT OneRunASecond
CHECK_DEADLOCK FALSE
