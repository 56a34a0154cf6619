SPECIFICATION Spec
CONSTANTS
    Managers = {m1, m2}
    Progs = {p1}
    Repros = {r1, r2}
    Dropped = {}
    MaxRecords = 1
    CapRecords = 2
    MaxConnect = 2
    Workloads <- Rough
    MaxSeq = 2
    Supports <- AllSupported
SYMMETRY Symmetry
INVARIANTS ReprosPersist
CHECK_DEADLOCK FALSE
