SPECIFICATION KnockoutSpec
CONSTANTS
    A = A
    B = B
    a12 = a12
    a13 = a13
    a23 = a23
    b45 = b45
    b46 = b46
    b56 = b56
    ko = ko
    final = final
    Matches <- TheMatches
    GroupOf <- TheGroupOf
    Slots <- TheSlots
    Source <- TheSource
    HomeSlot <- TheHomeSlot
    AwaySlot <- TheAwaySlot
    WinPoints = 3
    Advancing = 2
    Calls <- TheCalls
    Threads = {1, 2}
    Fixtures <- TheFixtures
    Typed <- TheTyped
    MaxFaults = 1
    MaxEdits = 1
INVARIANTS
    AutoIsRight
    ThirdsMatched
PROPERTIES
    AdminChoiceStands
    SlotsFilled
CHECK_DEADLOCK FALSE
