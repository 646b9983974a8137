CONSTANTS
    Channels = {ch}
    Hooks = {}
    NoOne = NoOne
    MaxMessages = 2
    InboxLimit = 2
    MaxCollected = 1
    BudgetLimit = 1
    Pulls = FALSE
    MaxFaults = 0

SPECIFICATION Spec

INVARIANTS
    ReadableBehindCursor
