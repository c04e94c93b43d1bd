\* Three requests at a time, and a conf.toml that is replaced twice.
SPECIFICATION Spec
CONSTANTS
    Nil = Nil
    Requests = {r1, r2, r3}
    MaxEdits = 2
INVARIANTS
    TypeOK
    AnswersAreWhole
    AnswersAreCurrent
PROPERTIES
    ServesAsPromised
CHECK_DEADLOCK FALSE
