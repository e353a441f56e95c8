SPECIFICATION OutboxSpec
CONSTANTS
    alert = alert
    notice = notice
    x = x
    k1 = k1
    u1 = u1
    u2 = u2
    Workers = {w1, w2}
    Replayers = {w1}
    Types <- MCTypes
    AdminTypes = {alert}
    Recipients <- MCRecipients
    Entities = {x}
    Keys = {k1}
    KeyEvent <- MCKeyEvent
    MaxAttempts = 2
    ReplayLimit = 1
    MaxRows = 2
    MaxDead = 1
    MaxFaults = 1
INVARIANTS
    ClaimsBounded
    DoneReachedAll
    RemindedOnce
    ResolvedWasReplayed
PROPERTIES
    EntrySettles
CHECK_DEADLOCK FALSE
