CONSTANTS
    Callers = {c1, c2, c3}
    Sizes = {1, 2, 4}
    MaxOperations = 2
    MaxBytes = 3
    MaxBatch = 2
    Kinds = {1, 2, 3}
    Keys = {k1}
    MaxKeys = 1
    MaxCount = 2

SPECIFICATION Spec

INVARIANTS
    TypeOK
    LoadAccounted
    ToldWhatHappened
    HitsConserved

PROPERTIES
    LineSpec
    CloseReturns
