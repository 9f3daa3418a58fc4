CONSTANTS
    k1 = k1
    k2 = k2
    off = off
    on = on
    high = high
    None = None
    Keys = {k1, k2}
    Values = {off, on, high}
    Default <- MCDefault
    Accepted <- MCAccepted
    MaxWanted = 2
SPECIFICATION Spec
INVARIANT ScriptSeesItsSettings
