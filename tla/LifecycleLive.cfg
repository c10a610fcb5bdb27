SPECIFICATION FairSpec
CONSTANTS
    NoHost = NoHost
    NoTask = NoTask
    Workers = {w1}
    Sandboxes = {s1}
    Requests = {r1}
    Compute = 1
    MaxSandboxes = 1
    Checkpoints = TRUE
    Serial = FALSE
    Reaps = {"pause", "destroy"}
    Faults = {"boot", "snapshot", "restore", "report", "timeout", "orchestrator"}
    Ops = {"provision", "pause", "resume", "destroy", "exec"}
PROPERTIES RequestsFinish SchedulingResolves
CHECK_DEADLOCK FALSE
