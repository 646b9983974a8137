CONSTANTS
    Collectors = {daemon, once}
    Daemons = {daemon}
    Calls = {u1}
    MaxControls = 1
    EventLimit = 2
    UploadBatch = 2
    MaxChatter = 1
    MaxFaults = 1

SPECIFICATION Spec

INVARIANTS
    TranscriptKept
    ProofsGiven

PROPERTIES
    StoppedIsShown
    FlagFollows
