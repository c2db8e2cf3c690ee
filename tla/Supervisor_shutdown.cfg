SPECIFICATION OpFairSpec
CONSTANTS
    i1 = i1  i2 = i2  i3 = i3  m1 = m1
    NoOp = NoOp  User = User  Drain = Drain
    Instances = {i1, i2}
    Restarts = {}
    Models = {m1}
    ModelOf <- OneModel
    OwnerOf <- EntriesOfPipeline
    MaxConcurrent = 1
    Orphaned = {}
    Requests = {"shutdown"}
INVARIANTS DrainAccounting ShutdownComplete LiveHoldsSlot
PROPERTY DrainCompletes
CHECK_DEADLOCK FALSE
