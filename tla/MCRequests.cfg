SPECIFICATION RequestsSpec
CONSTANTS
    first = first
    again = again
    oncemore = oncemore
    other = other
    key = key
    otherKey = otherKey
    Requests <- TheRequests
    Keys <- TheKeys
    KeyOf <- TheKeyOf
    MaxFaults = 2
INVARIANTS
    RequestsTypeOK
    EffectOnce
    ReplayIsOriginal
PROPERTIES
    KeyFreed
CHECK_DEADLOCK FALSE
