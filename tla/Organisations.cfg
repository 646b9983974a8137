CONSTANTS
    Accounts = {a, b, c}
    Orgs = {o, q}
    Remotes = {r}
    Covered = {r}
    Names = {n}
    Codes = {k}
    Visibilities = {TRUE}
    GivenRoles = {"none", "member", "lead", "owner"}
    MaxLinks = 2
    MaxProjects = 1
    NoOrg = NoOrg
    NoProject = NoProject

SPECIFICATION Spec
SYMMETRY Symmetry

INVARIANTS
    OwnersRemain
    NoRoleOutlives

PROPERTIES
    RisesAreGranted
    PrefixDecides
