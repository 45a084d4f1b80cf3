SPECIFICATION HSpec
CONSTANTS
    Empty = ""
    Name = {"a", "b"}
    Device = {"eth0"}
    NoIP = NoIP
    NoRoute = NoRoute
    gwA = gwA
    Text <- MCText
    IP <- MCIP
    ParseIP <- MCParseIP
    Format <- MCFormat
    Configs <- MCConfigs
    MinInterval = 2
    MaxStreak = 3
PROPERTIES
    NoEarlyFlip
    NoLateFlip
