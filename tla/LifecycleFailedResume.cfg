SPECIFICATION Spec
CONSTANTS
    NoHost = NoHost
    NoTask = NoTask
    Workers = {w1}
    Sandboxes = {s1}
    Requests = {r1}
    Compute = 1
    MaxSandboxes = 1
    Checkpoints = TRUE
    Serial = TRUE
    Reaps = {}
    Faults = {"restore"}
    Ops = {"provision", "pause", "resume"}
INVARIANTS FailedResumeReturnsToPaused
CHECK_DEADLOCK FALSE
