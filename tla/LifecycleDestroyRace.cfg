SPECIFICATION Spec
CONSTANTS
    NoHost = NoHost
    NoTask = NoTask
    Workers = {w1}
    Sandboxes = {s1}
    Requests = {r1, r2}
    Compute = 1
    MaxSandboxes = 1
    Checkpoints = TRUE
    Serial = FALSE
    Reaps = {}
    Faults = {}
    Ops = {"provision", "pause", "resume", "destroy"}
INVARIANTS DestroyReleasesVM
CHECK_DEADLOCK FALSE
