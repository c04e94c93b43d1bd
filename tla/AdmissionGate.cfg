\* Restarts, stale CAs and failing calls under a pod that is created again and again.
SPECIFICATION Spec
CONSTANTS
    NotANumber = NotANumber
    TaintMaxAge = 3
    Requests = {r1}
    Inputs <- AllPods
    Namespaces <- AllNamespaces
    MaxFaults = 1
INVARIANTS
    TypeOK
    NothingSlipsThrough
    ClientKeepsItsPod
    ScheduledWhereItMayLive
    NothingTwice
PROPERTIES
    AdmitsAtOnce
