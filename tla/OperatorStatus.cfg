\* One process that reports pods which are lost and replaced under another name.
SPECIFICATION FairSpec
CONSTANTS
    m1 = m1
    m2 = m2
    p1 = p1
    p2 = p2
    Other = Other
    NoOne = NoOne
    Procs = {m1}
    Pods = {p1, p2}
    Images = {"golang-app:v2"}
    Sizes <- SizesUpTo1
    MaxOps = 2
    MaxVersions = 3
    MaxFaults = 1
INVARIANT StatusIsASnapshot
PROPERTIES
    UserOwnsSpec
    StatusConverges
CHECK_DEADLOCK FALSE
