\* Two requests load the sample plan, which has one item here.
CONSTANTS
    Requests = {r1, r2}
    Ids = {t1, t2}
    Items = {plan}
    Ops = {"seed"}
    PoolSize = 2
    EventIds = {1, 2}
    Nothing = nothing
SPECIFICATION Spec
INVARIANT SeedOnce
