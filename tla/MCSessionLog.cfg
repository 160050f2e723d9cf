SPECIFICATION Spec
CONSTANTS
    MaxQueue = 3
    MaxBatch = 3
    MaxEvents = 5
    MaxCrashes = 2
INVARIANTS Accounted AckedKept
PROPERTIES EventuallyDurable
