SPECIFICATION Spec
CONSTANTS
    Elems = {e1}
    MaxPrio = 0
    Progs = {p1, p2}
    VMs = {v1}
    Calls = {c1}
    CallOf <- MCCallOf
    Broken = {}
    Disabled = {}
    Leftovers = {}
    Seeds = {}
    PreserveCorpus = FALSE
    HubEnabled = FALSE
    HubProgs = {}
    BatchSize = 4
    InitialBatch = 1
    SplitSize = 1
    SatLimit = 2
    CheckFailLimit = 2
SYMMETRY Symmetry
PROPERTIES UntriagedKept
