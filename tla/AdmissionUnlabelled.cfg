\* A pod without labels in a namespace that mutatingwebhook watches.
SPECIFICATION FairSpec
CONSTANTS
    NotANumber = NotANumber
    TaintMaxAge = 2
    Requests = {r1}
    Inputs <- SomePods
    Namespaces <- OneEach
    MaxFaults = 0
PROPERTY EveryPodIsLabelled
