SPECIFICATION BackgroundSpec
CHECK_DEADLOCK FALSE
CONSTANTS
    t1 = t1
    Tasks = {t1}
    MaxAtOnce = 2
    MaxCalls = 3
    MaxCrashes = 2
INVARIANTS ReportedOnce
PROPERTIES EveryEndIsTold
