\* Two migrators, cut off three times, and bodies up to one character too long.
CONSTANTS
    Migrators = {m1, m2}
    Bodies <- ShortBodies
    SeedBodies <- Seeds
    MaxBody = 2
    RiverLatest = 3
    MaxFailures = 3
SPECIFICATION Spec
INVARIANTS
    VersionsTellSchema
    NoConstraintRefuses
    ReadyMeansMigrated
PROPERTIES
    ComesToBeReady
