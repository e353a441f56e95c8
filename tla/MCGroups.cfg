SPECIFICATION GroupsSpec
CONSTANTS
    owner = owner
    u1 = u1
    u2 = u2
    g = g
    Users <- MCUsers
    Ids = {g}
    Opening <- MCOpening
    StartTiers = {0}
    MaxCents = 2
    Group = g
    Owner = owner
    Dollars = {u1, u2}
    SellRate = 2
    Fees = {0, 2}
    MaxMembers = 2
    FreeMaxMembers = 2
    MinMembers = 2
    Calls = {c1, c2}
    GeneralFee = 2
    MaxRequests = 6
INVARIANTS
    GroupsTypeOK
    CapacityKept
    PaidIsBacked
PROPERTIES
    HandoverKeepsOwner
SYMMETRY MCSymmetry
CHECK_DEADLOCK FALSE
