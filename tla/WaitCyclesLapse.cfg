CONSTANTS
    Agents = {a, b, c}
    Messages = {m1, m2}
    NoAgent = NoAgent
    Lifetimes = {0, 9}
    Movers = {c}
    Failing = TRUE
    Interval = 2
    MaxTime = 2

SPECIFICATION Spec

SYMMETRY Symmetry

INVARIANTS
    NotesSpaced
    HeldNoLongerThanLimited
