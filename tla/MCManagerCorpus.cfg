SPECIFICATION Spec
CONSTANTS
    Elems = {e1, e2}
    MaxPrio = 0
    Progs = {p1, p2}
    VMs = {v1}
    Calls = {c1}
    CallOf <- MCCallOf
    Broken = {}
    Disabled = {}
    Leftovers = {}
    Seeds = {}
    PreserveCorpus = FALSE
    HubEnabled = TRUE
    HubProgs = {}
    BatchSize = 1
    InitialBatch = 1
    SplitSize = 1
    SatLimit = 1
    CheckFailLimit = 1
SYMMETRY Symmetry
INVARIANTS CorpusSignalExact CorpusPersisted MaxSignalReaches
PROPERTIES CandidatesKept
