SPECIFICATION CacheSpec
CONSTANTS
    Screens <- AllScreens
    MaxWrites = 2
    MaxVisits = 2
    LeftToAge <- KnownLeftToAge
INVARIANTS OwnWritesShown
CHECK_DEADLOCK FALSE
