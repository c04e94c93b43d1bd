\* Two pushes with any messages, jobs that fail, are cancelled and run again.
SPECIFICATION Spec
CONSTANTS
    MaxPushes = 2
    MaxFaults = 1
    MaxReruns = 1
INVARIANTS
    TypeOK
    StateIsTrue
    OneIsPublished
PROPERTIES
    AppliedIsThere
    TagsMoveForward
    KeepsRemoteState
CHECK_DEADLOCK FALSE
