\* Three requests of any kind on two todos, either of which may have to be
\* created first, over two connections.
CONSTANTS
    Requests = {r1, r2, r3}
    Ids = {t1, t2}
    Items = {plan}
    Ops = {"create", "toggle", "delete", "seed", "enqueue", "pulse"}
    PoolSize = 2
    EventIds = {1, 2, 3}
    Nothing = nothing
SYMMETRY Symmetry
SPECIFICATION Spec
INVARIANTS
    TypeOK
    AuditChain
    JobIffEvent
    AnswersAreTrue
PROPERTIES
    ImplementsLedger
