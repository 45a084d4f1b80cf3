SPECIFICATION Spec
CONSTANTS
    Config = {c1, c2}
    Broken = Broken
    Request = {r1, r2}
    Main = Main
    Off = Off
INVARIANTS
    TypeOK
    FileLoads
    RunsItsFile
    SignalsKept
PROPERTY
    HupHonoured
    TermHonoured
