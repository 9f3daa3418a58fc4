CONSTANTS
    MaxCap = 63
    MinBuffer = 4
    DefaultCap = 16
    Step = 6
    Requested <- MCRequested
    Writes <- MCWrites
SPECIFICATION Spec
INVARIANTS
    NoUnderflow
    GrowthIsEnough
    RefusedOnlyAtLimit
