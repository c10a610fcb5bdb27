SPECIFICATION Spec
CONSTANTS
    NoHost = NoHost
    NoTask = NoTask
    Workers = {w1}
    Sandboxes = {s1, s2}
    Requests = {r1}
    Compute = 1
    MaxSandboxes = 2
    Checkpoints = TRUE
    Serial = TRUE
    Reaps = {}
    Faults = {}
    Ops = {"provision", "pause", "exec"}
INVARIANTS RunningWithinCompute
CHECK_DEADLOCK FALSE
