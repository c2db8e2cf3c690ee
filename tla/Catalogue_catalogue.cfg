SPECIFICATION Spec
CONSTANTS
    c1 = c1
    c2 = c2
    Clients = {c1, c2}
    Requests <- MCRequests
    Upgrade <- MCUpgrade
    EmptyDoc <- MCEmpty
    Missing = Missing
    Torn = Torn
    Initial <- MCInitial
    MaxDamage = 1
    RuntimeIds = {"r1", "r2"}
    ModelIds = {"m1", "m2"}
    PipelineIds = {"p1"}
    PhysicalIds = {"f1"}
    Args = {"m.gguf", "--host", "h"}
    Bodies <- MCBodies
    Envs = {"-", "e"}
    Names <- MCNames
    Lower <- MCLower
    NoEnv = "-"
    HostFlag = "--host"
    NoHost = NoHost
    NoId = NoId
    OldStores <- MCStores
    ConfigSeed <- MCSeed
SYMMETRY MCSymmetry
INVARIANTS TypeOK Recoverable ImportRestores PlannerComplete
PROPERTIES ImplementsRegister ChecksHold BootOnlyAdds
CHECK_DEADLOCK FALSE
