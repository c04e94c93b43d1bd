\* Restarts of the servers while clients retry.
SPECIFICATION FairSpec
CONSTANTS
    NotANumber = NotANumber
    TaintMaxAge = 2
    Requests = {r1}
    Inputs <- SomePods
    Namespaces <- AllNamespaces
    MaxFaults = 2
PROPERTY AcceptablePodsGetIn
