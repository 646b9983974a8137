CONSTANTS
    Installers = {i, j}
    Tabs = {s, t}
    MaxSessions = 2
    MaxClaims = 2
    MaxEvents = 1
    SessionTTL = 3
    MaxLifetime = 5
    ClaimTTL = 2
    AuthTTL = 1
    ResumeTTL = 3
    MaxConfirmFails = 2

SPECIFICATION Spec

SYMMETRY Symmetry

INVARIANTS
    TokenAsApproved
    NothingLeftBehind
    GuessesBounded
    ReturnIsNoIntrusion

PROPERTIES
    GrantsAsPromised
