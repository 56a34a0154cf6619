SPECIFICATION Spec
CONSTANTS
    Managers = {m1, m2}
    Progs = {p1, p2, p3}
    Repros = {r1, r2}
    Dropped = {p1}
    MaxRecords = 0
    CapRecords = 2
    MaxConnect = 2
    MaxSeq = 2
    Workloads <- Rough
    Supports <- AllSupported
SYMMETRY Symmetry
INVARIANTS TypeOK Delivered InSync CorpusOwned ReprosDelivered
CHECK_DEADLOCK FALSE
