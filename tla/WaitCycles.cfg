CONSTANTS
    Agents = {a, b, c}
    Messages = {m1, m2, m3}
    NoAgent = NoAgent
    Lifetimes = {0, 9}
    Movers = {}
    Failing = FALSE
    Interval = 2
    MaxTime = 1

SPECIFICATION Spec

SYMMETRY Symmetry

INVARIANTS
    ToldSinceFormed
    HeldForItsOwnNotice

PROPERTIES
    ClosedCircleNoticed
