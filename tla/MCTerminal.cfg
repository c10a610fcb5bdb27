CONSTANTS
    Handlers = {h1, h2}
    None = None
    Create = Create
    Exec = Exec
    Pause = Pause
    RingSize = 1
    OutputCap = 1
    WireCap = 1
    MaxChunks = 3
    MaxRequests = 3
SPECIFICATION Spec
CHECK_DEADLOCK FALSE
INVARIANTS TypeOK TokenUsedOnce OutputContiguous TokenMeansPTY  ShellsAreKnown
PROPERTIES StopTerminalEnds 
