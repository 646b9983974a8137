---------------------------- MODULE Organisations ----------------------------
(***************************************************************************)
(* Who may do what in which project (src/internal/store: orgs.go,          *)
(* roles.go, sharing.go, joininvite.go): organisations with owners and     *)
(* members, projects that belong to one of them each, roles in a project,  *)
(* invitation links, and the prefix of remotes an organisation holds by    *)
(* the proof of a connected source.  Every operation is one transaction of *)
(* the runtime writer and so one action; what makes them hard is their     *)
(* order.                                                                  *)
(*                                                                         *)
(* There is one login at one host, so at most one source and one prefix.   *)
(* Visibility is enforced, and accounts are active.  pickOrgTx takes an    *)
(* account's default organisation, which it may set to any it is a member  *)
(* of, so the default is any of these here.                                *)
(***************************************************************************)
EXTENDS Integers, FiniteSets

CONSTANTS
    Accounts, Orgs,
    Remotes,      \* git remotes
    Covered,      \* those below the login
    Names,        \* projects without git
    Codes,        \* invitation links that can be open at a time
    Visibilities, \* what a prefix may say: TRUE shares what lands below it
    GivenRoles,   \* bound: the roles SetProjectRole gives, with "none" to remove one
    MaxLinks,     \* bound: invitation links issued, the backfill counted as one
    MaxProjects,  \* bound: projects
    NoOrg, NoProject

Projects == Remotes \union Names

ASSUME OrgAssumption ==
    /\ IsFiniteSet(Accounts) /\ Visibilities \subseteq BOOLEAN
    /\ GivenRoles \subseteq {"none", "guest", "member", "lead", "owner"}
    /\ Covered \subseteq Remotes /\ Remotes \intersect Names = {}
    /\ NoOrg \notin Orgs /\ NoProject \notin Projects /\ {MaxLinks, MaxProjects} \subseteq Nat

VARIABLES
    orgs,         \* the organisations that exist
    member,       \* table org_members
    guest,        \* table org_guests: members who came for one project only
    org,          \* table projects: the organisation of a project
    shared,       \* table shared_projects
    role,         \* table project_members
    invitation,   \* the open rows of table invitations
    source,       \* table git_sources: the organisation that connected the login
    prefix,       \* table org_prefixes: who holds the prefix, and its visibility
    links,        \* how many ways into an organisation there were: links issued, the backfill
    filled        \* the marker 'backfill' of table org_state

vars == <<orgs, member, guest, org, shared, role, invitation, source, prefix, links, filled>>

OrgRoles == {"none", "member", "owner"}
Roles == {"none", "guest", "member", "lead", "owner"}

\* A link into the organisation has no project and no project role.
Invitations == [org : Orgs, by : Accounts, project : Projects \union {NoProject},
                role : {"none", "guest", "member"}]
NoInvitation == [org |-> NoOrg]

NoPrefix == [org |-> NoOrg, shared |-> FALSE]

RoleRank == [none |-> 0, guest |-> 1, member |-> 2, lead |-> 3, owner |-> 4]

IsMember(o, a) == o \in Orgs /\ member[o][a] # "none"
Owns(o, a) == o \in Orgs /\ member[o][a] = "owner"
Owners(o) == {a \in Accounts : Owns(o, a)}

\* Mutant: members count as well.
LastMember(o, a) == Owns(o, a) /\ Cardinality({c \in Accounts : IsMember(o, c)}) <= 1

\* ownerCountTx
LastOwner(o, a) == Owns(o, a) /\ Cardinality(Owners(o)) <= 1

\* projectRoleTx: only members of the organisation have a role in its projects.
\* Its owners are owners there; the stored role comes next, then what a shared
\* project gives to all but guests.
ProjectRole(p, a) ==
    IF ~IsMember(org[p], a) THEN "none"
    ELSE IF Owns(org[p], a) THEN "owner"
    ELSE IF role[p][a] # "none" THEN role[p][a]
    ELSE IF p \in shared /\ a \notin guest[org[p]] THEN "member" ELSE "none"

Rank(p, a) == RoleRank[ProjectRole(p, a)]

Nobody == [a \in Accounts |-> "none"]

Init ==
    /\ orgs = {} /\ member = [o \in Orgs |-> Nobody] /\ guest = [o \in Orgs |-> {}]
    /\ org = [p \in Projects |-> NoOrg] /\ shared = {} /\ role = [p \in Projects |-> Nobody]
    /\ invitation = [c \in Codes |-> NoInvitation]
    /\ source = NoOrg /\ prefix = NoPrefix /\ links = 0
    /\ filled = FALSE

-----------------------------------------------------------------------------
(* Organisations and their members; b is who acts *)

CreateOrg(b, o) ==
    /\ o \notin orgs
    /\ orgs' = orgs \union {o}
    /\ member' = [member EXCEPT ![o][b] = "owner"]
    /\ UNCHANGED <<guest, org, shared, role, invitation, source, prefix, links, filled>>

SetOrgRole(b, o, a, r) ==
    /\ Owns(o, b) /\ IsMember(o, a) /\ member[o][a] # r
    /\ ~LastOwner(o, a)
    /\ member' = [member EXCEPT ![o][a] = r]
    /\ UNCHANGED <<orgs, guest, org, shared, role, invitation, source, prefix, links, filled>>

\* Mutant: roles stay when their holder leaves.
RolesKept(o, a) == role

\* dropProjectRolesTx: those of account a in the projects of organisation o.
RolesWithout(o, a) ==
    [p \in Projects |-> IF org[p] = o THEN [role[p] EXCEPT ![a] = "none"] ELSE role[p]]

RemoveOrgMember(b, o, a) ==
    /\ Owns(o, b) \/ a = b
    /\ IsMember(o, a) /\ ~LastOwner(o, a)
    /\ member' = [member EXCEPT ![o][a] = "none"]
    /\ role' = RolesWithout(o, a)
    /\ guest' = [guest EXCEPT ![o] = @ \ {a}]
    /\ UNCHANGED <<orgs, org, shared, invitation, source, prefix, links, filled>>

-----------------------------------------------------------------------------
(* Projects *)

Room(new) == Cardinality({p \in Projects : org[p] # NoOrg} \union new) <= MaxProjects

\* The organisation in which a new remote p lands that b brings in, for the
\* organisation wanted or, with NoOrg, for none in particular; NoOrg when it
\* lands nowhere.  A prefix decides alone; otherwise only an owner brings in.
LandsIn(b, p, wanted) ==
    IF p \in Covered /\ prefix.org # NoOrg
    THEN IF wanted \in {NoOrg, prefix.org} /\ IsMember(prefix.org, b) /\ b \notin guest[prefix.org]
         THEN prefix.org ELSE NoOrg
    ELSE IF Owns(wanted, b) THEN wanted ELSE NoOrg

\* assignByPrefixTx shares what the prefix says.
BringIn(b, p, wanted) ==
    /\ org[p] = NoOrg /\ LandsIn(b, p, wanted) # NoOrg /\ Room({p})
    /\ org' = [org EXCEPT ![p] = LandsIn(b, p, wanted)]
    /\ shared' = IF p \in Covered /\ prefix.shared THEN shared \union {p} ELSE shared

\* EnsureProject, which names no organisation, and ClaimProject.  What
\* EnsureProject picks where no prefix decides is one of the account's.
ClaimProject(b, p, wanted) ==
    /\ BringIn(b, p, wanted)
    /\ UNCHANGED <<orgs, member, guest, role, invitation, source, prefix, links, filled>>

CreateNamedProject(b, n, o) ==
    /\ org[n] = NoOrg /\ IsMember(o, b) /\ Room({n})
    /\ org' = [org EXCEPT ![n] = o]
    /\ role' = [role EXCEPT ![n][b] = "owner"]
    /\ UNCHANGED <<orgs, member, guest, shared, invitation, source, prefix, links, filled>>

Relocate(p, o) ==
    /\ o \in orgs /\ org[p] \notin {NoOrg, o}
    /\ org' = [org EXCEPT ![p] = o]
    /\ shared' = shared \ {p}
    /\ role' = [role EXCEPT ![p] = Nobody]
    /\ UNCHANGED <<orgs, member, guest, invitation, source, prefix, links, filled>>

MoveProject(b, p, o) == Owns(org[p], b) /\ Owns(o, b) /\ Relocate(p, o)

\* By the operator, with access to the database.
ForceMoveProject == \E p \in Projects, o \in Orgs : Relocate(p, o)

SetProjectVisibility(b, p) ==
    /\ Rank(p, b) = RoleRank.owner
    /\ shared' = IF p \in shared THEN shared \ {p} ELSE shared \union {p}
    /\ UNCHANGED <<orgs, member, guest, org, role, invitation, source, prefix, links, filled>>

\* projectOwnerCountTx
ProjectOwners(p) == Owners(org[p]) \union {a \in Accounts : IsMember(org[p], a) /\ role[p][a] = "owner"}

\* Mutant: a lead gives what it has itself.
MayGiveOwn(b, p, a, r) ==
    /\ Rank(p, b) >= RoleRank.lead
    /\ a = b => RoleRank[r] < Rank(p, b)
    /\ a # b /\ Rank(p, b) = RoleRank.lead => RoleRank[r] <= RoleRank.lead

\* Its own role an account may only lower; a lead gives member at most, and to
\* nobody who is lead or more.
MayGive(b, p, a, r) ==
    /\ Rank(p, b) >= RoleRank.lead
    /\ a = b => RoleRank[r] < Rank(p, b)
    /\ a # b /\ Rank(p, b) = RoleRank.lead =>
          RoleRank[r] <= RoleRank.member /\ RoleRank[role[p][a]] < RoleRank.lead

\* SetProjectRole and RemoveProjectRole (r is "none").
ChangeProjectRole(b, p, a, r) ==
    /\ IsMember(org[p], a) /\ ~Owns(org[p], a) /\ role[p][a] # r
    /\ MayGive(b, p, a, r)
    /\ role[p][a] = "owner" => Cardinality(ProjectOwners(p)) > 1
    /\ role' = [role EXCEPT ![p][a] = r]
    /\ UNCHANGED <<orgs, member, guest, org, shared, invitation, source, prefix, links, filled>>

-----------------------------------------------------------------------------
(* Invitation links *)

Issue(b, c, o, p, r) ==
    /\ invitation[c] = NoInvitation /\ Owns(o, b) /\ links < MaxLinks
    /\ links' = links + 1
    /\ invitation' = [invitation EXCEPT ![c] = [org |-> o, by |-> b, project |-> p, role |-> r]]

CreateInvitation(b, c, o) ==
    /\ Issue(b, c, o, NoProject, "none")
    /\ UNCHANGED <<orgs, member, guest, org, shared, role, source, prefix, filled>>

CreateProjectInvitation(b, c, p, r) ==
    /\ Issue(b, c, org[p], p, r)
    /\ UNCHANGED <<orgs, member, guest, org, shared, role, source, prefix, filled>>

\* Both in one transaction.
ClaimAndInviteProject(b, c, o, p, r) ==
    /\ Issue(b, c, o, p, r)
    /\ BringIn(b, p, o)
    /\ UNCHANGED <<orgs, member, guest, role, source, prefix, filled>>

Gone(c) == invitation' = [invitation EXCEPT ![c] = NoInvitation]

RevokeInvitation(b, c) ==
    /\ Owns(invitation[c].org, b) /\ Gone(c)
    /\ UNCHANGED <<orgs, member, guest, org, shared, role, source, prefix, links, filled>>

InvitationExpires ==
    /\ \E c \in Codes : invitation[c] # NoInvitation /\ Gone(c)
    /\ UNCHANGED <<orgs, member, guest, org, shared, role, source, prefix, links, filled>>

\* invitationCoverage: account b would gain nothing.
CoveredBy(b, i) ==
    \/ Owns(i.org, b)
    \/ i.project = NoProject /\ IsMember(i.org, b) /\ b \notin guest[i.org]
    \/ i.project # NoProject /\ RoleRank[role[i.project][b]] >= RoleRank[i.role]

AcceptInvitation(b, c) ==
    LET i == invitation[c] IN
    /\ i # NoInvitation
    /\ Owns(i.org, i.by)
    /\ i.project # NoProject => org[i.project] = i.org
    /\ ~CoveredBy(b, i)
    /\ Gone(c)
    /\ member' = IF IsMember(i.org, b) THEN member ELSE [member EXCEPT ![i.org][b] = "member"]
    /\ guest' = CASE i.project = NoProject -> [guest EXCEPT ![i.org] = @ \ {b}]
                  [] i.project # NoProject /\ ~IsMember(i.org, b) -> [guest EXCEPT ![i.org] = @ \union {b}]
                  [] OTHER -> guest
    /\ role' = IF i.project = NoProject THEN role ELSE [role EXCEPT ![i.project][b] = i.role]
    /\ UNCHANGED <<orgs, org, shared, source, prefix, links, filled>>

-----------------------------------------------------------------------------
(* The connected source and the prefix it proves *)

\* The caller has shown to be an admin of the login.  What it lists for import
\* may change with every call.
ConnectSource(b, o) ==
    /\ Owns(o, b) /\ source = NoOrg
    /\ source' = o
    /\ UNCHANGED <<orgs, member, guest, org, shared, role, invitation, prefix, links, filled>>

\* Mutant: the prefix outlives its proof.
DisconnectKeepsPrefix(b) ==
    /\ Owns(source, b)
    /\ source' = NoOrg
    /\ UNCHANGED <<orgs, member, guest, org, shared, role, invitation, prefix, links, filled>>

DisconnectSource(b) ==
    /\ Owns(source, b)
    /\ source' = NoOrg
    /\ prefix' = IF prefix.org = source THEN NoPrefix ELSE prefix
    /\ UNCHANGED <<orgs, member, guest, org, shared, role, invitation, links, filled>>

ImportSourceRepos(b, repos) ==
    LET new == {p \in repos : org[p] = NoOrg} IN
    /\ Owns(source, b) /\ Room(new)
    /\ org' = [p \in Projects |-> IF p \in new THEN source ELSE org[p]]
    /\ shared' = IF prefix.org = source /\ prefix.shared THEN shared \union new ELSE shared
    /\ UNCHANGED <<orgs, member, guest, role, invitation, source, prefix, links, filled>>

ClaimPrefix(b, visible) ==
    /\ Owns(source, b) /\ prefix.org \in {NoOrg, source}
    /\ prefix' = [org |-> source, shared |-> visible]
    /\ UNCHANGED <<orgs, member, guest, org, shared, role, invitation, source, links, filled>>

ReleasePrefix(b) ==
    /\ Owns(prefix.org, b) /\ prefix' = NoPrefix
    /\ UNCHANGED <<orgs, member, guest, org, shared, role, invitation, source, links, filled>>

-----------------------------------------------------------------------------
(* The one backfill                                                        *)

\* migrateOrgs, at every Open once there is an account, until its marker is
\* set: the instance owner b becomes an owner of the oldest organisation o, or
\* of a new one, and every remote the database knows and nobody has goes there,
\* whatever a prefix says.  Which account and which organisation came first
\* nothing else depends on, so they are chosen here.
BackfillInto(b, o, known) ==
    /\ ~filled /\ filled' = TRUE
    /\ o \in orgs \/ orgs = {}
    /\ Room(known) /\ links < MaxLinks /\ links' = links + 1
    /\ orgs' = orgs \union {o}
    /\ member' = IF IsMember(o, b) THEN member ELSE [member EXCEPT ![o][b] = "owner"]
    /\ org' = [p \in Projects |-> IF p \in known THEN o ELSE org[p]]
    /\ UNCHANGED <<guest, shared, role, invitation, source, prefix>>

Backfill == \E b \in Accounts, o \in Orgs :
                \E known \in SUBSET {p \in Remotes : org[p] = NoOrg} : BackfillInto(b, o, known)

-----------------------------------------------------------------------------

ActsOnOrg(b) == \E o \in Orgs :
    \/ CreateOrg(b, o)
    \/ \E a \in Accounts : RemoveOrgMember(b, o, a) \/ \E r \in {"member", "owner"} : SetOrgRole(b, o, a, r)
    \/ \E n \in Names : CreateNamedProject(b, n, o)
    \/ \E p \in Projects : MoveProject(b, p, o)
    \/ ConnectSource(b, o)

ActsOnProject(b) ==
    \/ \E p \in Remotes, o \in Orgs \union {NoOrg} : ClaimProject(b, p, o)
    \/ \E p \in Projects : \/ SetProjectVisibility(b, p)
                           \/ \E a \in Accounts, r \in GivenRoles : ChangeProjectRole(b, p, a, r)

ActsOnLink(b) == \E c \in Codes :
    \/ RevokeInvitation(b, c) \/ AcceptInvitation(b, c)
    \/ \E o \in Orgs : CreateInvitation(b, c, o)
    \/ \E p \in Projects, r \in {"guest", "member"} :
          \/ CreateProjectInvitation(b, c, p, r)
          \/ \E o \in Orgs : p \in Remotes /\ ClaimAndInviteProject(b, c, o, p, r)

ActsOnSource(b) ==
    \/ DisconnectSource(b) \/ ReleasePrefix(b)
    \/ \E repos \in SUBSET Covered : ImportSourceRepos(b, repos)
    \/ \E visible \in Visibilities : ClaimPrefix(b, visible)

Acts(b) == ActsOnOrg(b) \/ ActsOnProject(b) \/ ActsOnLink(b) \/ ActsOnSource(b)

Next == (\E b \in Accounts : Acts(b)) \/ ForceMoveProject \/ InvitationExpires \/ Backfill

Spec == Init /\ [][Next]_vars

-----------------------------------------------------------------------------
(* Properties *)

TypeOK ==
    /\ orgs \subseteq Orgs /\ member \in [Orgs -> [Accounts -> OrgRoles]]
    /\ guest \in [Orgs -> SUBSET Accounts]
    /\ org \in [Projects -> Orgs \union {NoOrg}] /\ shared \subseteq Projects
    /\ role \in [Projects -> [Accounts -> Roles]]
    /\ invitation \in [Codes -> Invitations \union {NoInvitation}]
    /\ source \in Orgs \union {NoOrg} /\ links \in 0..MaxLinks
    /\ prefix \in [org : Orgs \union {NoOrg}, shared : BOOLEAN]
    /\ filled \in BOOLEAN

\* An organisation never loses its last owner, whoever demotes, removes or
\* leaves (SetOrgRole, RemoveOrgMember).
OwnersRemain == \A o \in orgs : Owners(o) # {}

\* A role stored for a project, and the mark of a guest, belong to a member of
\* the organisation that has the project now: whoever leaves takes nothing back
\* on return, and a project that moves takes nobody along (dropProjectRolesTx).
NoRoleOutlives ==
    /\ \A p \in Projects, a \in Accounts : role[p][a] # "none" => IsMember(org[p], a)
    /\ \A o \in Orgs : \A a \in guest[o] : IsMember(o, a)

\* Who acts raises nobody's rank in a project above what it may give: its own
\* rank is at least lead, and a lead gives member at most.  Its own rank rises
\* only when it accepts a link, to member at most (changeProjectRole,
\* acceptInvitationTx and every other transaction).  About the steps an account
\* takes: the operator's move and the backfill ask nobody.
MayRaise(b, p, a) ==
    \/ /\ a # b /\ Rank(p, b) >= RoleRank.lead
       /\ Rank(p, b) = RoleRank.lead => Rank(p, a)' <= RoleRank.member
    \/ /\ a = b /\ Rank(p, a)' <= RoleRank.member
       /\ \E c \in Codes : /\ invitation[c] # NoInvitation /\ invitation'[c] = NoInvitation
                           /\ Owns(org[p], invitation[c].by)

RisesAreGranted ==
    [][\A p \in Projects, a \in Accounts : org[p] # NoOrg /\ Rank(p, a) < Rank(p, a)' =>
          \A b \in Accounts : MayRaise(b, p, a) \/ ~Acts(b)]_vars

\* A remote below a prefix that an organisation holds becomes a project of this
\* organisation and of no other, by whichever call of an account it becomes one
\* (assignByPrefixTx; ImportSourceRepos does not look who holds the prefix).
\* The backfill, whose marker the step sets, does not ask the prefix.
PrefixDecides ==
    [][\A p \in Covered : org[p] = NoOrg /\ org'[p] # NoOrg /\ prefix.org # NoOrg =>
          org'[p] = prefix.org \/ filled' # filled]_vars

=============================================================================
