\* Two publishers, two streams and room for one event in a mailbox, so that
\* publishers overlap, mailboxes fill and writers wait for readers.
CONSTANTS
    Publishers = {p1, p2}
    Subscribers = {s1, s2}
    Cap = 1
SPECIFICATION Spec
INVARIANTS
    TypeOK
    ClosedOnce
    RegisteredWhileOpen
PROPERTIES
    NoMutationDuringLoop
    ImplementsFanout
    PublishReturns
    CancelReleases
