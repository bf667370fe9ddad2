\* One todo, and two requests of the tab under way at once.
CONSTANTS
    Rows <- OneRow
    Body <- Awkward
    Slots = {s1, s2}
SYMMETRY SlotSymmetry
SPECIFICATION Spec
INVARIANTS
    EachPanelOnce
    StatsTellRows
    PanelsAreWhole
    ErrorIsLatestVerdict
    OneTodoPerForm
PROPERTIES
    DraftIsTheirs
