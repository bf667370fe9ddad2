\* A stream and a publisher in one process, a publisher in another, a mailbox of
\* one event, connections that break twice, and the first process shuts down.
CONSTANTS
    c1 = c1
    c2 = c2
    p2 = p2
    Conns = {c1, c2}
    Publishers = {p1, p2}
    Subscribers = {s1}
    At <- TwoProcesses
    Cap = 1
    Closers = {c1}
    MaxBreaks = 2
SPECIFICATION Spec
INVARIANTS
    TypeOK
    OpenMeansRouted
    NothingUnheard
    AckedHasLeft
    EndedIsForgotten
