SPECIFICATION Spec
CONSTANTS
    Builders = {b1, b2, b3}
    Cleaners = {}
    Patient = {b1, b2, b3}
    Versions = {v1, v2}
    Broken = {v2}
    OpenFiles = FALSE
    MaxCrashes = 0
    MaxEdits = 2
    None = None
INVARIANT CompilesItsSources
