\* One session, one client, a rewind and a shutdown.
SPECIFICATION Spec
CONSTANTS
    s1 = s1
    s2 = s2
    c1 = c1
    None = None
    Sessions = {s1}
    Clients = {c1}
    Parent <- MCParent
    Views <- MCViews
    MaxIdle = 0
    Rewindable = {s1}
    MaxRewinds = 1
    Stops = TRUE
INVARIANTS
    LoneResumeSucceeds
    ShutdownFreesLeases
PROPERTIES
    WorkKeepsSession
    HoldsEnd
\* A host that is shut down does nothing more.
CHECK_DEADLOCK FALSE
