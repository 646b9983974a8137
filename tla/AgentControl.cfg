CONSTANTS
    Collectors = {daemon}
    Daemons = {daemon}
    Calls = {u1, u2}
    MaxControls = 2
    EventLimit = 3
    UploadBatch = 2
    MaxChatter = 0
    MaxFaults = 1

SPECIFICATION Spec

INVARIANTS
    EffectiveMeansStopped
    AcksKept
    NoticeOnce
