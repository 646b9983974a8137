CONSTANTS
    Agents <- MCAgents
    MaxOrdered = 3

SPECIFICATION Spec

INVARIANTS
    FindsMutualWaits
    OrderIsACircle
