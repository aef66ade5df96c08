SPECIFICATION Spec
CONSTANTS
    Vm <- TwoVms
    Cluster <- Ids
    Local <- Places
    Name <- Names
    Repeat = 2
    History = 2
    End = 3
    Absent = Absent
CHECK_DEADLOCK FALSE
INVARIANT InventoryIsTheAnswer
