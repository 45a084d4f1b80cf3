SPECIFICATION Spec
CONSTANTS
    Empty = ""
    Name = {"a", "b"}
    Device = {"eth0"}
    Text <- MCText
    IP = {x}
    NoIP = NoIP
    ParseIP <- MCParseIP
    Format <- MCFormat
    Typed <- MCTyped
    AddTyped <- MCAddTyped
    MaxChanges = 2
    MaxTouched = 2
    Stored <- MCStored
    x = x
INVARIANTS
    TypeOK
    DraftTargetsValid
    DraftKeepsRest
    SavedMeansRunning
    PromptsSuffice
PROPERTY
    NothingLostUnlessStale
