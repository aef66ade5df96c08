SPECIFICATION Spec
CONSTANTS
    n1 = n1
    n2 = n2
    local = local
    Node <- Nodes
    Pool <- TwoPools
    Rank <- Order
    Size <- Alike
    Like <- Itself
    Hours = 2
    Channels = {"email", "discord"}
    Faults = {"crash", "error", "wedge", "node", "email", "discord"}
    MaxFaults = 2
    None = None
INVARIANTS TypeOK OncePerDay MarksTellTheTruth
PROPERTIES PollIsWhole EventuallyReported EventuallyShown
