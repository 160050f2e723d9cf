SPECIFICATION Spec
CHECK_DEADLOCK FALSE
CONSTANTS
    N = 3
    Exclusive = {3}
    MaxParallel = 2
    MaxChanges = 2
INVARIANTS RefusalIsFinal ExclusiveSeesAll
PROPERTIES StartsAsAdmitted BatchEnds
