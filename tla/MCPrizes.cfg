SPECIFICATION PrizesSpec
CONSTANTS
    Users = {1, 2}
    Ids <- MCIds
    Opening <- MCOpening
    StartTiers <- MCStartTiers
    MaxCents = 1
    DepositLimit <- MCDepositLimit
    DepositVelocity <- MCDepositVelocity
    PayoutLimit = 7
    WithdrawalVelocity <- MCWithdrawalVelocity
    GateRate = 500
    Reviewed = {1}
    Grants = {2}
    Admins = {a1, a2}
    Quinielas = {11}
    Score <- MCScore
    Fees = {1, 2}
    MinMembersPerGroup = 2
INVARIANTS
    PrizesTypeOK
    NoPrizePaidTwice
PROPERTIES
    PaidAtCurrentFee
CHECK_DEADLOCK FALSE
