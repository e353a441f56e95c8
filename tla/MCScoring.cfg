SPECIFICATION ScoringSpec
CONSTANTS
    Users = {u1}
    Matches = {m1}
    Admins = {a1}
    Workers = {w1}
    Clients = {c1}
    Results <- MCResults
    Forecasts <- MCForecasts
    Configs <- MCConfigs
    MaxEvents = 2
    MaxCrashes = 1
INVARIANTS
    ScoringTypeOK
PROPERTIES
    PointsAreFinal
    PublishedIsScored
CHECK_DEADLOCK FALSE
