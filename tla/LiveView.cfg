\* One tab with one stream, and two requests of any kind.
CONSTANTS
    r1 = r1
    r2 = r2
    s1 = s1
    s2 = s2
    tab1 = tab1
    tab2 = tab2
    Publishers = {r1, r2}
    Subscribers = {s1}
    Tabs = {tab1}
    TabOf <- OneStream
    SentBy <- TwoFirst
    Kinds <- AnyKinds
    Cap = 1
    MaxInFlight = 1
SPECIFICATION Spec
INVARIANTS
    TypeOK
    NoSilentStaleness
PROPERTIES
    StreamsCatchUp
