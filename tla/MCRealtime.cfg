SPECIFICATION LinkSpec
CONSTANTS
    h1 = h1
    h2 = h2
    h3 = h3
    h4 = h4
    NoConnection = NoConnection
    Connections <- MCConnections
    MaxRebuilds = 3
    MaxFailures = 2
INVARIANTS StatusHonest OnePerRebuild
PROPERTIES EndsConnected
CHECK_DEADLOCK FALSE
