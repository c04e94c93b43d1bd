\* A CR that is resized to 0.
SPECIFICATION FairSpec
CONSTANTS
    m1 = m1
    m2 = m2
    p1 = p1
    p2 = p2
    Other = Other
    NoOne = NoOne
    Procs = {m1}
    Pods = {p1}
    Images = {"golang-app:v2"}
    Sizes <- SizesUpTo1
    MaxOps = 2
    MaxVersions = 3
    MaxFaults = 0
PROPERTY StatusCleared
CHECK_DEADLOCK FALSE
