CONSTANTS
    Channels = {ch}
    Hooks = {hook}
    NoOne = NoOne
    MaxMessages = 2
    InboxLimit = 2
    MaxCollected = 1
    BudgetLimit = 0
    Pulls = FALSE
    MaxFaults = 1

SPECIFICATION Spec

INVARIANTS
    ClaimsInHand
    BudgetKept

PROPERTIES
    AtMostOnceDelivery
    EveryWakeArrives
