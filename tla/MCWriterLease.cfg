SPECIFICATION LeaseSpec
CHECK_DEADLOCK FALSE
CONSTANTS
    l1 = l1
    l2 = l2
    l3 = l3
    p1 = p1
    p2 = p2
    p3 = p3
    Leases = {l1, l2, l3}
    Procs = {p1, p2, p3}
    ProcOf <- MCProcOf
    None = None
    Faults = {"mkdir", "write", "rename", "read", "rm"}
INVARIANTS HealthyKept 
