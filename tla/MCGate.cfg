SPECIFICATION Spec
CONSTANTS
    Threads = {t1, t2, t3, t4}
    C = 3
    HasCallback = TRUE
SYMMETRY ThreadSymmetry
INVARIANTS TypeOK Window NoBrokenGate CallbackAlone NoLostWakeup BatchBound
