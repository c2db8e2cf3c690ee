SPECIFICATION Spec
CONSTANTS
    i1 = i1  i2 = i2  i3 = i3  m1 = m1
    NoOp = NoOp  User = User  Drain = Drain
    Instances = {i1, i2}
    Restarts = {r1}
    Models = {m1}
    ModelOf <- OneModel
    OwnerOf <- ManualAndEntry
    MaxConcurrent = 0
    Orphaned = {}
    Requests = {}
INVARIANT LiveExclusion
CHECK_DEADLOCK FALSE
