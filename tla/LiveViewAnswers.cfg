\* Two tabs, and two changes answered by a snapshot.
CONSTANTS
    r1 = r1
    r2 = r2
    s1 = s1
    s2 = s2
    tab1 = tab1
    tab2 = tab2
    Publishers = {r1, r2}
    Subscribers = {s1, s2}
    Tabs = {tab1, tab2}
    TabOf <- TwoTabs
    SentBy <- OneEach
    Kinds <- Creates
    Cap = 1
    MaxInFlight = 1
SPECIFICATION Spec
INVARIANTS
    TabsConverge
