SPECIFICATION Spec
CONSTANTS
    p1 = p1
    p2 = p2
    None = None
    Pod = {p1, p2}
    Session = {"web", "jobs"}
    Table = {"vm_states", "backup_results", "storage_snapshots"}
    Last = 4
    Size <- Sizes
    Retype <- Retypes
    TableOf <- Alters
    Dialects = {"sqlite", "postgres"}
    Budget = 3
    Singles = 2
    Batches = 2
    MaxKills = 1
CHECK_DEADLOCK FALSE
INVARIANTS TypeOK RecordedIsWhole
PROPERTIES SchemaSpec ReleaseComesUp
