SPECIFICATION MCSpec
CONSTANTS
    v1 = v1
    v2 = v2
    v3 = v3
    e1 = e1
    p1 = p1
    p3 = p3
    p4 = p4
    c1 = c1
    VMs <- MCVMs
    FuzzingVMs = 1
    PerRepro = 2
    Titles = {t1}
    HubTitle = hub
    Unwanted = {}
    HasDash = TRUE
    MaxReproAttempts = 1
    MaxPending = 1
INVARIANTS TypeOK SlotsAccounted OneReproPerTitle FuzzingReserved
PROPERTIES ShutdownExits ReproStarts DisabledKept TriageFinishes
