SPECIFICATION RewriteSpec
CHECK_DEADLOCK FALSE
CONSTANTS
    b1 = b1
    s1 = s1
    g1 = g1
    Bash = {b1}
    Agent = {s1}
    Grants = {g1}
    MaxTurns = 2
    MaxModes = 2
    MaxTogether = 2
    MaxRewrites = 2
INVARIANTS RewrittenIsClosed RightsNeverWiden SettingsKept EndsAreTold
