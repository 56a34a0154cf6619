SPECIFICATION FairSpec
CONSTANTS
    Managers = {m1, m2}
    Progs = {p1, p2}
    Repros = {}
    Dropped = {}
    MaxRecords = 0
    CapRecords = 2
    MaxConnect = 2
    Workloads <- Smooth
    MaxSeq = 5
    Supports <- AllSupported
PROPERTIES Exchanged
CHECK_DEADLOCK FALSE
