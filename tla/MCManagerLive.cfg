SPECIFICATION LSpec
CONSTANTS
    Empty = ""
    Name = {"a", "b"}
    Device = {"eth0"}
    NoIP = NoIP
    NoRoute = NoRoute
    gwA = gwA
    gwF = gwF
    Text <- MCText
    IP <- MCIP
    ParseIP <- MCParseIP
    Format <- MCFormat
    Configs <- MCConfigs
    MinInterval = 2
PROPERTIES
    Recovers
    ReturnsToBaseInterval
    FlipsOnEvidence
    StaysSettled
    RoundsApproach
CHECK_DEADLOCK FALSE
