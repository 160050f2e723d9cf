SPECIFICATION FairSpec
CHECK_DEADLOCK FALSE
CONSTANTS
    a1 = a1
    a2 = a2
    root = root
    Agents = {a1, a2}
    Root = root
    Forks = {a2}
    Limit = 2
    MaxMessages = 1
    MaxBreaks = 1
INVARIANTS OneReader NoMessageStranded RunningIsRun
PROPERTIES SyncCallEnds
