CONSTANTS
    a = a
    c1 = c1
    c2 = c2
    admin = admin
    ops = ops
    pwd1 = pwd1
    pwd2 = pwd2
    Instances = {a}
    Clients = {c1, c2}
    Watched <- OneAndAll
    All = All
    Nothing = Nothing
    Loads <- SomeLoads
    StoreCap = 2
    FeedCap = 1
    BufferCap = 1
    PageCap = 2
    Listeners = {"http", "https"}
    Requests = {"r1", "r2"}
    Generations = 3
    FileCap = 5
    LineSize = 2
    TornSize = 1
    MaxEvents = 9
    MaxFailures = 3
    Absent = Absent
    Savers = {"s1", "s2"}
    Bodies <- SomeBodies
    Inodes = {1, 2, 3, 4}
    Shipped <- SomeDocuments
    Levels = {"debug", "info"}
    None = None
    Broken = Broken
    MaxFaults = 1
    MaxEdits = 1
    MaxStops = 1
SPECIFICATION ConsoleSpec
INVARIANTS
    StreamFaithful
    OutcomeHonest
    AckedKept
    SavedSettingsHold
PROPERTY RunReturns
CHECK_DEADLOCK FALSE
