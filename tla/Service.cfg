SPECIFICATION Spec
CONSTANTS
    Tree = {system, prefix}
    System = system
    MaxJobs = 3
INVARIANTS
    TypeOK
    StaysInstalled
    UninstallIsComplete
    ServesAtSocket
PROPERTY
    UserConfigKept
