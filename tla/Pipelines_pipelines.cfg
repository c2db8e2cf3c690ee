SPECIFICATION Spec
CONSTANTS
    p1 = p1
    m1 = m1
    m2 = m2
    e1 = e1
    e2 = e2
    i1 = i1
    i2 = i2
    i3 = i3
    i4 = i4
    i5 = i5
    i6 = i6
    i7 = i7
    Boot = Boot
    No = No
    Instances = {i1, i2, i3, i4, i5, i6, i7}
    Pipes = {p1}
    Models = {m1, m2}
    Layouts <- BothLayouts
    InitialPipe <- OnDisk
    BootJobs <- Autostarted
    Orphaned = {m2}
    Kinds <- SomeKinds
    MaxRequests = 2
    MaxFaults = 1
INVARIANTS TypeOK StopMeansStopped RestartReplaces EditStrandsNothing
PROPERTY RequestsReturn
CHECK_DEADLOCK FALSE
