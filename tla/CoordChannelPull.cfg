CONSTANTS
    Channels = {}
    Hooks = {h1, h2}
    NoOne = NoOne
    MaxMessages = 2
    InboxLimit = 1
    MaxCollected = 1
    BudgetLimit = 0
    Pulls = TRUE
    MaxFaults = 1

SPECIFICATION Spec

SYMMETRY HookSymmetry

PROPERTIES
    NoWakeSkipped
