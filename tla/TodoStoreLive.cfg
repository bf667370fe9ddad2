\* Three requests change one todo over two connections, so that one holds the
\* row's lock, one waits for it with a connection and one waits for that.
CONSTANTS
    Requests = {r1, r2, r3}
    Ids = {t1}
    Items = {plan}
    Ops = {"toggle", "delete"}
    PoolSize = 2
    EventIds = {1, 2, 3}
    Nothing = nothing
SPECIFICATION Spec
PROPERTIES
    RequestsFinish
