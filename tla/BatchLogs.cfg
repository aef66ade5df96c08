SPECIFICATION ParseSpec
CONSTANTS
    Vmid <- Vms
    Message <- Texts
    Blank <- Emptied
    Time <- OneTime
    BatchStart = 3
    MaxLines = 5
    None = None
CHECK_DEADLOCK FALSE
INVARIANTS ParseTypeOK AsTheLogSays
