SPECIFICATION Spec
CONSTANTS
    i1 = i1  i2 = i2  i3 = i3  m1 = m1
    NoOp = NoOp  User = User  Drain = Drain
    Instances = {i1}
    Restarts = {r1, r2}
    Models = {m1}
    ModelOf <- OneModel
    OwnerOf <- ManualAndEntry
    MaxConcurrent = 2
    Orphaned = {m1}
    Requests = {"stop", "cleanup", "shutdown"}
SYMMETRY RestartSymmetry
INVARIANTS SpawnsOverNothing NothingLeaks
PROPERTIES OwnedStayRegistered
CHECK_DEADLOCK FALSE
