SPECIFICATION Spec
CONSTANTS
    NoHost = NoHost
    NoTask = NoTask
    Workers = {w1}
    Sandboxes = {s1}
    Requests = {r1, r2}
    Compute = 1
    MaxSandboxes = 1
    Checkpoints = TRUE
    Serial = FALSE
    Reaps = {}
    Faults = {"boot", "snapshot", "checkpoint", "restore", "report", "timeout", "cancel", "orchestrator", "crash"}
    Ops = {"provision", "pause", "resume", "destroy", "exec"}
SYMMETRY Symmetry
INVARIANTS PausedHasNoVM
PROPERTIES RefinesPlacement
CHECK_DEADLOCK FALSE
