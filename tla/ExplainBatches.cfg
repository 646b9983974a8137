CONSTANTS
    Runs = {r1, r2}
    Hourly = {r1}
    Objects = {x, y}
    Authored = {x}
    Viewed = {x}
    MaxEdits = 1
    Cap = 2
    GroupSize = 2
    MaxBatches = 2
    MaxEvents = 1

SPECIFICATION Spec

INVARIANTS
    OneLiveBatch
    CountedOnce
    AboutItsText
    PaidIsOnRecord

PROPERTIES
    CapKept
    BatchesEnd
