SPECIFICATION Spec
CONSTANTS
    Workers = {w1, w2}
    Sandboxes = {s1, s2}
    NoHost = NoHost
INVARIANTS
    TypeOK
    HostOnlyWhilePlaced
PROPERTIES
    HostNeverSwaps
    PausedWakesThroughResuming
SYMMETRY Symmetry
