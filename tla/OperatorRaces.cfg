\* Two processes that race; pods do not matter here.
SPECIFICATION Spec
CONSTANTS
    m1 = m1
    m2 = m2
    p1 = p1
    p2 = p2
    Other = Other
    NoOne = NoOne
    Procs = {m1, m2}
    Pods = {}
    Images = {"golang-app:v2"}
    Sizes <- SizesUpTo2
    MaxOps = 2
    MaxVersions = 4
    MaxFaults = 1
SYMMETRY Symmetry
INVARIANTS
    TypeOK
    NoLostUpdate
    NeverBackwards
    WritesWhatWasAsked
CHECK_DEADLOCK FALSE
