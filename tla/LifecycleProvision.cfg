SPECIFICATION Spec
CONSTANTS
    NoHost = NoHost
    NoTask = NoTask
    Workers = {w1, w2}
    Sandboxes = {s1, s2}
    Requests = {r1, r2}
    Compute = 2
    MaxSandboxes = 1
    Checkpoints = TRUE
    Serial = FALSE
    Reaps = {}
    Faults = {"boot", "timeout", "cancel", "orchestrator", "crash", "heartbeat"}
    Ops = {"provision"}
SYMMETRY Symmetry
INVARIANTS TypeOK OneWorkerPerSandbox ReservedWithinSlots
PROPERTIES ActiveAfterBoot
CHECK_DEADLOCK FALSE
