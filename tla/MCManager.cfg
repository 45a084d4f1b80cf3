SPECIFICATION Spec
CONSTANTS
    Empty = ""
    Name = {"a", "b"}
    Device = {"eth0"}
    NoIP = NoIP
    NoRoute = NoRoute
    gwA = gwA
    gwB = gwB
    gwF = gwF
    Text <- MCText
    IP <- MCIP
    ParseIP <- MCParseIP
    Format <- MCFormat
    Configs <- MCConfigs
    MinInterval = 3
INVARIANTS
    TypeOK
    TablesAgree
    PendingOpposes
    AcceleratedOnlyWhilePending
PROPERTY
    PaceBounded
    RoundConverges
    StatusFollowsUpdates
