\* The first push; nothing fails.
SPECIFICATION Spec
CONSTANTS
    MaxPushes = 1
    MaxFaults = 0
    MaxReruns = 0
INVARIANT BothCanBePulled
CHECK_DEADLOCK FALSE
