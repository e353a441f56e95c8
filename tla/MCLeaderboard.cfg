SPECIFICATION LeaderboardSpec
CONSTANTS
    Members <- MCMembers
    ActivePaid <- MCActivePaid
    Histories <- MCHistories
    Distances <- MCDistances
    MinMembersPerGroup = 5
INVARIANTS
    RankCountsBetter
    PrizesCutAtTie
CHECK_DEADLOCK FALSE
