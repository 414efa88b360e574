CONSTANT MaxLifespans = 2
SPECIFICATION StateSpec
CHECK_DEADLOCK FALSE
INVARIANT NothingLeaks
INVARIANT ServesWhatItStarted
INVARIANT RequiredStopsStartup
PROPERTY HealthIsHonest
