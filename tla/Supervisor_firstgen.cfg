SPECIFICATION Spec
CONSTANTS
    i1 = i1  i2 = i2  i3 = i3  m1 = m1
    NoOp = NoOp  User = User  Drain = Drain
    Instances = {i1, i2}
    Restarts = {}
    Models = {m1}
    ModelOf <- OneModel
    OwnerOf <- OneEntry
    MaxConcurrent = 0
    Orphaned = {}
    Requests = {"stop", "cleanup"}
INVARIANTS LiveExclusion LiveIsRegistered TerminalMeansGone DurableOwnership
CHECK_DEADLOCK FALSE
