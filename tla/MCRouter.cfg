SPECIFICATION Spec
CONSTANTS
    gwA = gwA
    gwB = gwB
    IP <- MCIP
    Device = {"eth0", "wlan0"}
    Egress = "eth0"
    Metric = {0, 100}
    ExternalHops <- MCHops
    NoHop = NoHop
    NoRoute = NoRoute
    NoGw = NoGw
    NoDevice = NoDevice
PROPERTIES
    SuccessInForce
    SuccessAlone
    CalmCallSucceeds
    ImplementsInterface
    Converges
CHECK_DEADLOCK FALSE
