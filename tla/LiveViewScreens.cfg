\* One tab that connects twice; it sends a toggle or a delete, and another
\* change comes from elsewhere.
CONSTANTS
    r1 = r1
    r2 = r2
    s1 = s1
    s2 = s2
    tab1 = tab1
    tab2 = tab2
    Publishers = {r1, r2}
    Subscribers = {s1, s2}
    Tabs = {tab1}
    TabOf <- TwoStreams
    SentBy <- TwoFirst
    Kinds <- RowAndNote
    Cap = 1
    MaxInFlight = 1
SPECIFICATION Spec
SYMMETRY StreamSymmetry
INVARIANTS
    TabsConverge
PROPERTIES
    ScreenNeverGoesBack
