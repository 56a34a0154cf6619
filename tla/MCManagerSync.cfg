SPECIFICATION Spec
CONSTANTS
    Elems = {e1}
    MaxPrio = 0
    Progs = {p1}
    VMs = {v1, v2}
    Calls = {c1}
    CallOf <- MCCallOf
    Broken = {}
    Disabled = {}
    Leftovers = {}
    Seeds = {}
    PreserveCorpus = FALSE
    HubEnabled = FALSE
    HubProgs = {}
    BatchSize = 1
    InitialBatch = 1
    SplitSize = 1
    SatLimit = 2
    CheckFailLimit = 2
SYMMETRY Symmetry
INVARIANTS TypeOK CorpusReaches MaxSignalReaches
PROPERTIES LoadedOnce
