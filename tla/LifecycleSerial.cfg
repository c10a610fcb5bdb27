SPECIFICATION Spec
CONSTANTS
    NoHost = NoHost
    NoTask = NoTask
    Workers = {w1}
    Sandboxes = {s1, s2}
    Requests = {r1, r2}
    Compute = 1
    MaxSandboxes = 2
    Checkpoints = TRUE
    Serial = TRUE
    Reaps = {"pause"}
    Faults = {"boot", "restore", "heartbeat"}
    Ops = {"provision", "pause", "resume", "destroy"}
SYMMETRY Symmetry
INVARIANTS RowsMatchWorkers
PROPERTIES DestroyedIsFinal
CHECK_DEADLOCK FALSE
