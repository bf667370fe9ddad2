\* Liveness needs a smaller instance: one publisher in the other process.
CONSTANTS
    c1 = c1
    c2 = c2
    p2 = p2
    Conns = {c1, c2}
    Publishers = {p2}
    Subscribers = {s1}
    At <- TwoProcesses
    Cap = 1
    Closers = {c1, c2}
    MaxBreaks = 1
SPECIFICATION Spec
PROPERTIES
    ServerForgets
    EveryoneHears
