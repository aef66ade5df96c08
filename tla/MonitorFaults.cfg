SPECIFICATION Spec
CONSTANTS
    Memory = FALSE
    Faults <- AnyFault
    MaxFaults = 3
INVARIANTS TypeOK OnePollAtATime
PROPERTIES GracefulExit MonitoringRecovers
