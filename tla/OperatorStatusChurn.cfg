\* Two pods and nobody who changes anything.
SPECIFICATION Spec
CONSTANTS
    m1 = m1
    m2 = m2
    p1 = p1
    p2 = p2
    Other = Other
    NoOne = NoOne
    Procs = {m1}
    Pods = {p1, p2}
    Images = {"golang-app:v2"}
    Sizes <- SizesUpTo2
    MaxOps = 1
    MaxVersions = 4
    MaxFaults = 0
PROPERTY StatusOnlyIfNeeded
CHECK_DEADLOCK FALSE
