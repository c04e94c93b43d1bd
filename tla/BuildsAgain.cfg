\* The first push, with one failure and one job that is run again.
SPECIFICATION Spec
CONSTANTS
    MaxPushes = 1
    MaxFaults = 1
    MaxReruns = 1
INVARIANT RunPublishes
CHECK_DEADLOCK FALSE
