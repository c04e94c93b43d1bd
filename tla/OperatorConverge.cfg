\* One process; a CR that is edited, deleted and created again.
SPECIFICATION FairSpec
CONSTANTS
    m1 = m1
    m2 = m2
    p1 = p1
    p2 = p2
    Other = Other
    NoOne = NoOne
    Procs = {m1}
    Pods = {}
    Images = {"golang-app:v2"}
    Sizes <- ThreeSizes
    MaxOps = 4
    MaxVersions = 3
    MaxFaults = 1
PROPERTIES
    Converges
    DeletedForGood
    KeepsPromise
    ForeignSurvives
CHECK_DEADLOCK FALSE
