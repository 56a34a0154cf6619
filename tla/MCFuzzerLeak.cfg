SPECIFICATION Spec
CONSTANTS
    a = a
    b = b
    Elems = {e1}
    MaxPrio = 1
    Progs = {q1}
    Procs <- MCProcs
    CandidateFlags <- MCCandidateFlags
    SignalRuns = 3
    Workloads <- MCWorkloads
PROPERTIES LeakCheckAfterTriage
