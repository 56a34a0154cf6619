SPECIFICATION Spec
CONSTANTS
    Keys = {k1, k2}
    Recs = {r1, r2}
    NoRec = none
    Versions = {1, 2}
    Num = 1
    Den = 2
    MaxLog = 5
SYMMETRY Symmetry
INVARIANTS TypeOK Mirrored FileBounded
PROPERTIES RefinesStore
