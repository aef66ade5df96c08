SPECIFICATION Spec
CONSTANTS
    Vm <- TwoVms
    DayLength = 2
    Days = 2
    Week = 2
    Cluster = {"c1", "c2"}
    History = 2
    StaleAfter = 6
    End = 6
    MaxRows = 3
    None = None
CHECK_DEADLOCK FALSE
INVARIANTS DotsTellTheDay  DigestAndPageAgree
PROPERTIES FailuresStayVisible ResolvedBySuccess
