------------------------- MODULE OrganisationsProofs -------------------------
(***************************************************************************)
(* Theorems about Organisations, for any finite set of accounts and any    *)
(* organisations, projects and links.                                      *)
(***************************************************************************)
EXTENDS Organisations, FiniteSetTheorems, TLAPS

-----------------------------------------------------------------------------
(* The inductive invariant *)

\* Members, projects and a source are those of organisations that exist.
Founded ==
    /\ \A o \in Orgs, a \in Accounts : member[o][a] # "none" => o \in orgs
    /\ \A p \in Projects : org[p] \in orgs \union {NoOrg}
    /\ source \in orgs \union {NoOrg}

\* Who holds the prefix has the source connected that proves it.
PrefixProven == prefix.org # NoOrg => source = prefix.org

Inv == TypeOK /\ OwnersRemain /\ NoRoleOutlives /\ Founded /\ PrefixProven

-----------------------------------------------------------------------------
(* Types *)

LEMMA InitTyped == ASSUME Init PROVE TypeOK
<1>1. /\ member \in [Orgs -> [Accounts -> OrgRoles]] /\ role \in [Projects -> [Accounts -> Roles]]
      /\ guest \in [Orgs -> SUBSET Accounts] /\ org \in [Projects -> Orgs \union {NoOrg}]
  BY DEF Init, Nobody, OrgRoles, Roles
<1>2. /\ invitation \in [Codes -> Invitations \union {NoInvitation}] /\ links \in 0..MaxLinks
      /\ prefix \in [org : Orgs \union {NoOrg}, shared : BOOLEAN]
  BY OrgAssumption DEF Init, NoPrefix
<1>3. orgs \subseteq Orgs /\ shared \subseteq Projects /\ source \in Orgs \union {NoOrg} /\ filled \in BOOLEAN
  BY DEF Init
<1>. QED
  BY <1>1, <1>2, <1>3 DEF TypeOK

\* A member's row that is changed, and a role that is changed.
LEMMA RowTyped ==
    ASSUME TypeOK
    PROVE  /\ \A o \in Orgs, a \in Accounts, r \in OrgRoles :
                  [member EXCEPT ![o][a] = r] \in [Orgs -> [Accounts -> OrgRoles]]
           /\ \A p \in Projects, a \in Accounts, r \in Roles :
                  [role EXCEPT ![p][a] = r] \in [Projects -> [Accounts -> Roles]]
  BY DEF TypeOK

LEMMA RelocateTyped ==
    ASSUME TypeOK, NEW p \in Projects, NEW o \in Orgs, Relocate(p, o)
    PROVE  TypeOK'
  BY DEF Relocate, TypeOK, Nobody, Roles

LEMMA OrgTyped ==
    ASSUME TypeOK, NEW b \in Accounts, ActsOnOrg(b)
    PROVE  TypeOK'
<1>1. ASSUME NEW o \in Orgs, CreateOrg(b, o) PROVE TypeOK'
  BY <1>1, RowTyped DEF CreateOrg, TypeOK, OrgRoles
<1>2. ASSUME NEW o \in Orgs, NEW a \in Accounts, RemoveOrgMember(b, o, a) PROVE TypeOK'
  <2>1. role' \in [Projects -> [Accounts -> Roles]]
    BY <1>2 DEF RemoveOrgMember, RolesWithout, TypeOK, Roles
  <2>2. member' \in [Orgs -> [Accounts -> OrgRoles]]
    BY <1>2, RowTyped DEF RemoveOrgMember, OrgRoles
  <2>3. guest' \in [Orgs -> SUBSET Accounts]
    BY <1>2 DEF RemoveOrgMember, TypeOK
  <2>. QED
    BY <1>2, <2>1, <2>2, <2>3 DEF RemoveOrgMember, TypeOK
<1>3. ASSUME NEW o \in Orgs, NEW a \in Accounts, NEW r \in {"member", "owner"}, SetOrgRole(b, o, a, r)
      PROVE  TypeOK'
  BY <1>3, RowTyped DEF SetOrgRole, TypeOK, OrgRoles
<1>4. ASSUME NEW o \in Orgs, NEW n \in Names, CreateNamedProject(b, n, o) PROVE TypeOK'
  BY <1>4, RowTyped DEF CreateNamedProject, TypeOK, Roles, Projects
<1>5. ASSUME NEW o \in Orgs, NEW p \in Projects, MoveProject(b, p, o) PROVE TypeOK'
  BY <1>5, RelocateTyped DEF MoveProject
<1>6. ASSUME NEW o \in Orgs, ConnectSource(b, o) PROVE TypeOK'
  BY <1>6 DEF ConnectSource, TypeOK
<1>. QED
  BY <1>1, <1>2, <1>3, <1>4, <1>5, <1>6 DEF ActsOnOrg

\* A remote that is brought in lands in an organisation.
LEMMA Lands ==
    ASSUME TypeOK, NEW b \in Accounts, NEW p \in Projects, NEW wanted \in Orgs \union {NoOrg},
           BringIn(b, p, wanted)
    PROVE  /\ LandsIn(b, p, wanted) \in Orgs /\ IsMember(LandsIn(b, p, wanted), b)
           /\ org[p] = NoOrg /\ org' = [org EXCEPT ![p] = LandsIn(b, p, wanted)]
           /\ shared' \in {shared, shared \union {p}}
           /\ p \in Covered /\ prefix.org # NoOrg => LandsIn(b, p, wanted) = prefix.org
           /\ org' \in [Projects -> Orgs \union {NoOrg}] /\ shared' \subseteq Projects
<1>1. LandsIn(b, p, wanted) # NoOrg
  BY DEF BringIn
<1>2. /\ IsMember(LandsIn(b, p, wanted), b)
      /\ p \in Covered /\ prefix.org # NoOrg => LandsIn(b, p, wanted) = prefix.org
  BY <1>1 DEF LandsIn, Owns, IsMember
<1>3. LandsIn(b, p, wanted) \in Orgs
  BY <1>2 DEF IsMember
<1>4. /\ org[p] = NoOrg /\ org' = [org EXCEPT ![p] = LandsIn(b, p, wanted)]
      /\ shared' \in {shared, shared \union {p}}
  BY DEF BringIn
<1>5. org' \in [Projects -> Orgs \union {NoOrg}] /\ shared' \subseteq Projects
  BY <1>3, <1>4 DEF TypeOK
<1>. QED
  BY <1>2, <1>3, <1>4, <1>5

LEMMA ProjectTyped ==
    ASSUME TypeOK, NEW b \in Accounts, ActsOnProject(b)
    PROVE  TypeOK'
<1>1. ASSUME NEW p \in Remotes, NEW o \in Orgs \union {NoOrg}, ClaimProject(b, p, o) PROVE TypeOK'
  <2>1. p \in Projects /\ BringIn(b, p, o)
    BY <1>1 DEF Projects, ClaimProject
  <2>. QED
    BY <1>1, <2>1, Lands DEF ClaimProject, TypeOK
<1>2. ASSUME NEW p \in Projects, SetProjectVisibility(b, p) PROVE TypeOK'
  BY <1>2 DEF SetProjectVisibility, TypeOK
<1>3. ASSUME NEW p \in Projects, NEW a \in Accounts, NEW r \in Roles, ChangeProjectRole(b, p, a, r) PROVE TypeOK'
  BY <1>3, RowTyped DEF ChangeProjectRole, TypeOK
<1>. QED
  BY <1>1, <1>2, <1>3, OrgAssumption DEF ActsOnProject, Roles

\* A link that is written down.
LEMMA Issued ==
    ASSUME TypeOK, NEW b \in Accounts, NEW c \in Codes, NEW o \in Orgs, NEW p \in Projects \union {NoProject},
           NEW r \in {"none", "guest", "member"}, Issue(b, c, o, p, r)
    PROVE  invitation' \in [Codes -> Invitations \union {NoInvitation}] /\ links' \in 0..MaxLinks
  BY OrgAssumption DEF Issue, TypeOK, Invitations

LEMMA Cleared ==
    ASSUME TypeOK, NEW c \in Codes, Gone(c)
    PROVE  invitation' \in [Codes -> Invitations \union {NoInvitation}]
  BY DEF Gone, TypeOK

\* Account b joins organisation o with a link of account i, for project p with
\* the role r or for the organisation.
Joins(b, o, p, r, i) ==
    /\ Owns(o, i) /\ ~Owns(o, b)
    /\ IF IsMember(o, b) THEN member' = member ELSE member' = [member EXCEPT ![o][b] = "member"]
    /\ IF p = NoProject THEN role' = role ELSE org[p] = o /\ role' = [role EXCEPT ![p][b] = r]
    /\ guest' \in {guest, [guest EXCEPT ![o] = @ \ {b}], [guest EXCEPT ![o] = @ \union {b}]}
    /\ UNCHANGED <<orgs, org, shared, source, prefix, links, filled>>

\* What accepting a link does, said of the values the link has.
LEMMA Accepted ==
    ASSUME TypeOK, NEW b \in Accounts, NEW c \in Codes, AcceptInvitation(b, c)
    PROVE  \E o \in Orgs, p \in Projects \union {NoProject}, r \in {"none", "guest", "member"}, i \in Accounts :
               Joins(b, o, p, r, i) /\ invitation[c].org = o /\ invitation[c].by = i
<1> DEFINE l == invitation[c]
<1>1. /\ l.org \in Orgs /\ l.by \in Accounts
      /\ l.project \in Projects \union {NoProject} /\ l.role \in {"none", "guest", "member"}
  BY DEF AcceptInvitation, TypeOK, Invitations
<1>2. Owns(l.org, l.by) /\ ~Owns(l.org, b)
  BY DEF AcceptInvitation, CoveredBy
<1>3. guest' \in {guest, [guest EXCEPT ![l.org] = @ \ {b}], [guest EXCEPT ![l.org] = @ \union {b}]}
  BY DEF AcceptInvitation
<1>4. Joins(b, l.org, l.project, l.role, l.by)
  BY <1>2, <1>3 DEF AcceptInvitation, Joins
<1>. QED
  BY <1>1, <1>4

LEMMA LinkTyped ==
    ASSUME TypeOK, NEW b \in Accounts, ActsOnLink(b)
    PROVE  TypeOK'
<1>1. ASSUME NEW c \in Codes, RevokeInvitation(b, c) PROVE TypeOK'
  BY <1>1, Cleared DEF RevokeInvitation, TypeOK
<1>2. ASSUME NEW c \in Codes, AcceptInvitation(b, c) PROVE TypeOK'
  <2>1. PICK o \in Orgs, p \in Projects \union {NoProject}, r \in {"none", "guest", "member"}, i \in Accounts :
            Joins(b, o, p, r, i)
    BY <1>2, Accepted
  <2>2. member' \in [Orgs -> [Accounts -> OrgRoles]]
    <3>1. "member" \in OrgRoles
      BY DEF OrgRoles
    <3>2. [member EXCEPT ![o][b] = "member"] \in [Orgs -> [Accounts -> OrgRoles]]
      BY <3>1, RowTyped
    <3>. QED
      BY <2>1, <3>2 DEF Joins, TypeOK
  <2>3. guest' \in [Orgs -> SUBSET Accounts]
    BY <2>1 DEF Joins, TypeOK
  <2>4. role' \in [Projects -> [Accounts -> Roles]]
    <3>1. CASE p = NoProject
      BY <2>1, <3>1 DEF Joins, TypeOK
    <3>2. CASE p # NoProject
      <4>1. p \in Projects /\ r \in Roles
        BY <3>2 DEF Roles
      <4>2. [role EXCEPT ![p][b] = r] \in [Projects -> [Accounts -> Roles]]
        BY <4>1, RowTyped
      <4>. QED
        BY <2>1, <3>2, <4>2 DEF Joins
    <3>. QED
      BY <3>1, <3>2
  <2>5. invitation' \in [Codes -> Invitations \union {NoInvitation}]
    BY <1>2, Cleared DEF AcceptInvitation
  <2>. QED
    BY <2>1, <2>2, <2>3, <2>4, <2>5 DEF Joins, TypeOK
<1>3. ASSUME NEW c \in Codes, NEW o \in Orgs, CreateInvitation(b, c, o) PROVE TypeOK'
  BY <1>3, Issued DEF CreateInvitation, TypeOK
<1>4. ASSUME NEW c \in Codes, NEW p \in Projects, NEW r \in {"guest", "member"},
             CreateProjectInvitation(b, c, p, r)
      PROVE  TypeOK'
  <2>1. org[p] \in Orgs
    BY <1>4 DEF CreateProjectInvitation, Issue, Owns
  <2>. QED
    BY <1>4, <2>1, Issued DEF CreateProjectInvitation, TypeOK
<1>5. ASSUME NEW c \in Codes, NEW p \in Projects, NEW r \in {"guest", "member"}, NEW o \in Orgs,
             ClaimAndInviteProject(b, c, o, p, r)
      PROVE  TypeOK'
  BY <1>5, Issued, Lands DEF ClaimAndInviteProject, TypeOK
<1>. QED
  BY <1>1, <1>2, <1>3, <1>4, <1>5 DEF ActsOnLink

LEMMA SourceTyped ==
    ASSUME TypeOK, NEW b \in Accounts, ActsOnSource(b)
    PROVE  TypeOK'
<1>1. CASE DisconnectSource(b)
  BY <1>1 DEF DisconnectSource, TypeOK, NoPrefix
<1>2. CASE ReleasePrefix(b)
  BY <1>2 DEF ReleasePrefix, TypeOK, NoPrefix
<1>3. ASSUME NEW repos \in SUBSET Covered, ImportSourceRepos(b, repos) PROVE TypeOK'
  <2>1. repos \subseteq Projects
    BY OrgAssumption DEF Projects
  <2>2. source \in Orgs
    BY <1>3 DEF ImportSourceRepos, Owns
  <2>. QED
    BY <1>3, <2>1, <2>2 DEF ImportSourceRepos, TypeOK
<1>4. ASSUME NEW visible \in Visibilities, ClaimPrefix(b, visible) PROVE TypeOK'
  <2>1. source \in Orgs /\ visible \in BOOLEAN
    BY <1>4, OrgAssumption DEF ClaimPrefix, Owns
  <2>. QED
    BY <1>4, <2>1 DEF ClaimPrefix, TypeOK
<1>. QED
  BY <1>1, <1>2, <1>3, <1>4 DEF ActsOnSource

LEMMA BackfillTyped == ASSUME TypeOK, Backfill PROVE TypeOK'
<1>1. PICK b \in Accounts, o \in Orgs, known \in SUBSET Remotes : BackfillInto(b, o, known)
  BY DEF Backfill
<1> USE DEF BackfillInto
<1>2. member' \in [Orgs -> [Accounts -> OrgRoles]]
  BY <1>1, RowTyped DEF TypeOK, OrgRoles
<1>3. org' \in [Projects -> Orgs \union {NoOrg}]
  BY <1>1 DEF TypeOK
<1>4. links' \in 0..MaxLinks
  BY <1>1, OrgAssumption DEF TypeOK
<1>. QED
  BY <1>1, <1>2, <1>3, <1>4 DEF TypeOK

LEMMA StepTyped == ASSUME TypeOK, [Next]_vars PROVE TypeOK'
<1>1. ASSUME NEW b \in Accounts, Acts(b) PROVE TypeOK'
  BY <1>1, OrgTyped, ProjectTyped, LinkTyped, SourceTyped DEF Acts
<1>2. CASE ForceMoveProject
  BY <1>2, RelocateTyped DEF ForceMoveProject
<1>3. CASE InvitationExpires
  BY <1>3, Cleared DEF InvitationExpires, TypeOK
<1>4. CASE UNCHANGED vars
  BY <1>4 DEF vars, TypeOK
<1>. QED
  BY <1>1, <1>2, <1>3, <1>4, BackfillTyped DEF Next

-----------------------------------------------------------------------------
(* Which steps touch what *)

\* Steps that change who belongs to an organisation.
Enlists(b) ==
    \/ \E o \in Orgs : CreateOrg(b, o)
    \/ \E o \in Orgs, a \in Accounts : RemoveOrgMember(b, o, a)
    \/ \E o \in Orgs, a \in Accounts, r \in {"member", "owner"} : SetOrgRole(b, o, a, r)
    \/ \E c \in Codes : AcceptInvitation(b, c)

\* Steps that bring in projects.
Places(b) ==
    \/ \E o \in Orgs, n \in Names : CreateNamedProject(b, n, o)
    \/ \E p \in Remotes, o \in Orgs \union {NoOrg} : ClaimProject(b, p, o)
    \/ \E c \in Codes, p \in Remotes, r \in {"guest", "member"}, o \in Orgs : ClaimAndInviteProject(b, c, o, p, r)
    \/ \E repos \in SUBSET Covered : ImportSourceRepos(b, repos)

Moves(b) == \E p \in Projects, o \in Orgs : MoveProject(b, p, o)

\* Steps that change a stored role or what a project shows.
Grants(b) ==
    \/ \E p \in Projects, a \in Accounts, r \in Roles : ChangeProjectRole(b, p, a, r)
    \/ \E p \in Projects : SetProjectVisibility(b, p)

\* Steps that connect and disconnect.
Connects(b) ==
    \/ \E o \in Orgs : ConnectSource(b, o)
    \/ DisconnectSource(b) \/ ReleasePrefix(b)
    \/ \E visible \in Visibilities : ClaimPrefix(b, visible)

\* Nobody's access changes.
Quiet == UNCHANGED <<orgs, member, guest, org, shared, role>>

Still == Quiet /\ UNCHANGED <<source, prefix>>

LEMMA StepKinds ==
    ASSUME NEW b \in Accounts, Acts(b)
    PROVE  Enlists(b) \/ Places(b) \/ Moves(b) \/ Grants(b) \/ Connects(b) \/ Still
<1>1. ASSUME ActsOnOrg(b) PROVE Enlists(b) \/ Places(b) \/ Moves(b) \/ Connects(b)
  BY <1>1 DEF ActsOnOrg, Enlists, Places, Connects, Moves
<1>2. ASSUME ActsOnProject(b) PROVE Places(b) \/ Grants(b)
  BY <1>2, OrgAssumption DEF ActsOnProject, Places, Grants, Roles
<1>3. ASSUME ActsOnLink(b) PROVE Enlists(b) \/ Places(b) \/ Still
  <2>1. ASSUME NEW c \in Codes, RevokeInvitation(b, c) PROVE Still
    BY <2>1 DEF RevokeInvitation, Still, Quiet
  <2>2. ASSUME NEW c \in Codes, NEW o \in Orgs, CreateInvitation(b, c, o) PROVE Still
    BY <2>2 DEF CreateInvitation, Still, Quiet
  <2>3. ASSUME NEW c \in Codes, NEW p \in Projects, NEW r \in {"guest", "member"}, CreateProjectInvitation(b, c, p, r)
        PROVE  Still
    BY <2>3 DEF CreateProjectInvitation, Still, Quiet
  <2>. QED
    BY <1>3, <2>1, <2>2, <2>3 DEF ActsOnLink, Enlists, Places
<1>4. ASSUME ActsOnSource(b) PROVE Places(b) \/ Connects(b)
  BY <1>4 DEF ActsOnSource, Places, Connects
<1>. QED
  BY <1>1, <1>2, <1>3, <1>4 DEF Acts

\* The projects N, new until now, belong to organisation o from now on; what
\* holds of all others stays.
Settle(o, N) ==
    /\ \A p \in N : org[p] = NoOrg
    /\ \A p \in Projects : org'[p] = IF p \in N THEN o ELSE org[p]
    /\ \A p \in Projects \ N : p \in shared' <=> p \in shared
    /\ \A p \in Projects \ N : role'[p] = role[p]
    /\ \A p \in N, a \in Accounts : role'[p][a] # "none" => role[p][a] # "none" \/ IsMember(o, a)
    /\ \A p \in N \intersect Covered : prefix.org # NoOrg => o = prefix.org
    /\ UNCHANGED <<orgs, member, guest, source, prefix>>

\* Whichever way projects are brought in, they settle in an organisation that
\* exists.
LEMMA PlacesSettle ==
    ASSUME Inv, NEW b \in Accounts, Places(b)
    PROVE  \E o \in orgs, N \in SUBSET Projects : Settle(o, N)
<1>0. TypeOK /\ Founded /\ PrefixProven
  BY DEF Inv
<1>1. ASSUME NEW p \in Projects, NEW o \in Orgs \union {NoOrg}, BringIn(b, p, o),
             UNCHANGED <<orgs, member, guest, role, source, prefix>>
      PROVE  \E s \in orgs, N \in SUBSET Projects : Settle(s, N)
  <2> DEFINE s == LandsIn(b, p, o)
  <2>1. /\ s \in Orgs /\ IsMember(s, b) /\ org[p] = NoOrg /\ org' = [org EXCEPT ![p] = s]
        /\ shared' \in {shared, shared \union {p}}
        /\ p \in Covered /\ prefix.org # NoOrg => s = prefix.org
    BY <1>0, <1>1, Lands
  <2>. HIDE DEF s
  <2>2. s \in orgs
    BY <1>0, <2>1 DEF Founded, IsMember
  <2>3. \A q \in Projects : org'[q] = IF q \in {p} THEN s ELSE org[q]
    BY <1>0, <2>1 DEF TypeOK
  <2>4. Settle(s, {p})
    BY <1>1, <2>1, <2>3 DEF Settle
  <2>. QED
    BY <2>2, <2>4
<1>2. ASSUME NEW o \in Orgs, NEW n \in Names, CreateNamedProject(b, n, o)
      PROVE  \E s \in orgs, N \in SUBSET Projects : Settle(s, N)
  <2>1. n \in Projects /\ n \notin Covered
    BY OrgAssumption DEF Projects
  <2>2. o \in orgs
    BY <1>0, <1>2 DEF Founded, CreateNamedProject, IsMember
  <2>3. \A q \in Projects : org'[q] = IF q \in {n} THEN o ELSE org[q]
    BY <1>0, <1>2 DEF TypeOK, CreateNamedProject
  <2>4. \A q \in Projects \ {n} : role'[q] = role[q]
    BY <1>0, <1>2 DEF TypeOK, CreateNamedProject
  <2>5. \A a \in Accounts : role'[n][a] # "none" => role[n][a] # "none" \/ IsMember(o, a)
    BY <1>0, <1>2, <2>1 DEF TypeOK, CreateNamedProject
  <2>6. Settle(o, {n})
    BY <1>2, <2>1, <2>3, <2>4, <2>5 DEF Settle, CreateNamedProject
  <2>. QED
    BY <2>1, <2>2, <2>6
<1>3. ASSUME NEW repos \in SUBSET Covered, ImportSourceRepos(b, repos)
      PROVE  \E s \in orgs, N \in SUBSET Projects : Settle(s, N)
  <2> DEFINE N == {p \in repos : org[p] = NoOrg}
  <2>1. N \subseteq Projects
    BY OrgAssumption DEF Projects
  <2>2. source \in orgs
    BY <1>0, <1>3, OrgAssumption DEF Founded, ImportSourceRepos, Owns
  <2>3. /\ \A p \in Projects : org'[p] = IF p \in N THEN source ELSE org[p]
        /\ shared' \in {shared, shared \union N}
        /\ UNCHANGED <<orgs, member, guest, role, source, prefix>>
    BY <1>3 DEF ImportSourceRepos
  <2>4. \A p \in N : org[p] = NoOrg
    OBVIOUS
  <2>. HIDE DEF N
  <2>5. Settle(source, N)
    BY <1>0, <2>1, <2>3, <2>4 DEF Settle, PrefixProven
  <2>. QED
    BY <2>1, <2>2, <2>5
<1>4. ASSUME NEW p \in Remotes, NEW o \in Orgs \union {NoOrg}, ClaimProject(b, p, o)
      PROVE  \E s \in orgs, N \in SUBSET Projects : Settle(s, N)
  BY <1>1, <1>4 DEF ClaimProject, Projects
<1>5. ASSUME NEW c \in Codes, NEW p \in Remotes, NEW r \in {"guest", "member"}, NEW o \in Orgs,
             ClaimAndInviteProject(b, c, o, p, r)
      PROVE  \E s \in orgs, N \in SUBSET Projects : Settle(s, N)
  BY <1>1, <1>5 DEF ClaimAndInviteProject, Projects
<1>. QED
  BY <1>2, <1>3, <1>4, <1>5 DEF Places

-----------------------------------------------------------------------------
(* The invariant is kept *)

\* The owner that a last owner is told apart from.
LEMMA OtherOwner ==
    ASSUME NEW o \in Orgs, NEW a \in Accounts, Owns(o, a), ~LastOwner(o, a)
    PROVE  \E b \in Accounts : b # a /\ Owns(o, b)
<1>1. Cardinality(Owners(o)) > 1
  <2>1. IsFiniteSet(Owners(o))
    BY OrgAssumption, FS_Subset DEF Owners
  <2>2. Cardinality(Owners(o)) \in Nat
    BY <2>1, FS_CardinalityType
  <2>. QED
    BY <2>2 DEF LastOwner
<1>2. Owners(o) # {a}
  <2>1. Cardinality({a}) = 1
    BY FS_Singleton
  <2>. QED
    BY <1>1, <2>1
<1>3. a \in Owners(o) /\ Owners(o) \subseteq Accounts
  BY DEF Owners
<1>. QED
  BY <1>2, <1>3 DEF Owners

\* A row of the table of members, and a stored role, that is written.
Enrolled(o, a, r) == member' = [member EXCEPT ![o][a] = r]
Stored(p, a, r) == role' = [role EXCEPT ![p][a] = r]

LEMMA RowChanged ==
    ASSUME TypeOK, NEW o \in Orgs, NEW a \in Accounts, NEW r \in OrgRoles, Enrolled(o, a, r)
    PROVE  \A q \in Orgs, b \in Accounts : member'[q][b] = IF q = o /\ b = a THEN r ELSE member[q][b]
  BY DEF TypeOK, Enrolled

LEMMA RoleChanged ==
    ASSUME TypeOK, NEW p \in Projects, NEW a \in Accounts, NEW r \in Roles, Stored(p, a, r)
    PROVE  \A q \in Projects, b \in Accounts : role'[q][b] = IF q = p /\ b = a THEN r ELSE role[q][b]
  BY DEF TypeOK, Stored

LEMMA RolesDropped ==
    ASSUME TypeOK, NEW o \in Orgs, NEW a \in Accounts, role' = RolesWithout(o, a)
    PROVE  \A p \in Projects, b \in Accounts :
               role'[p][b] = IF org[p] = o /\ b = a THEN "none" ELSE role[p][b]
  BY DEF TypeOK, RolesWithout

\* Account a, who is not the last owner of o, has the role r there from now on.
Turned(o, a, r) == Enrolled(o, a, r) /\ orgs' = orgs /\ ~LastOwner(o, a)

\* Whatever becomes of one account, somebody else or itself owns.
LEMMA OwnersStay ==
    ASSUME Inv, NEW b \in Accounts, Enlists(b)
    PROVE  OwnersRemain'
<1>. SUFFICES ASSUME NEW q \in orgs' PROVE \E a \in Accounts : Owns(q, a)'
  BY DEF OwnersRemain, Owners
<1>0. TypeOK /\ OwnersRemain /\ (q \in orgs => \E a \in Accounts : Owns(q, a))
  BY DEF Inv, OwnersRemain, Owners
<1>1. ASSUME NEW o \in Orgs, CreateOrg(b, o) PROVE \E a \in Accounts : Owns(q, a)'
  <2>1. \A s \in Orgs, a \in Accounts : member'[s][a] = IF s = o /\ a = b THEN "owner" ELSE member[s][a]
    <3>1. Enrolled(o, b, "owner") /\ "owner" \in OrgRoles
      BY <1>1 DEF CreateOrg, Enrolled, OrgRoles
    <3>. QED
      BY <1>0, <3>1, RowChanged
  <2>2. q = o \/ q \in orgs
    BY <1>1 DEF CreateOrg
  <2>3. CASE q = o
    <3>1. Owns(q, b)'
      BY <2>1, <2>3 DEF Owns
    <3>. QED
      BY <3>1
  <2>4. CASE q # o
    <3>1. PICK a \in Accounts : Owns(q, a)
      BY <1>0, <2>2, <2>4
    <3>2. Owns(q, a)'
      BY <2>1, <2>4, <3>1 DEF Owns
    <3>. QED
      BY <3>2
  <2>. QED
    BY <2>3, <2>4
<1>2. ASSUME NEW o \in Orgs, NEW a \in Accounts, NEW r \in OrgRoles, Turned(o, a, r)
      PROVE  \E c \in Accounts : Owns(q, c)'
  <2>1. \A s \in Orgs, c \in Accounts : member'[s][c] = IF s = o /\ c = a THEN r ELSE member[s][c]
    BY <1>0, <1>2, RowChanged DEF Turned
  <2>2. PICK c \in Accounts : Owns(q, c)
    BY <1>0, <1>2 DEF Turned
  <2>3. CASE q = o /\ c = a
    <3>0. Owns(o, a) /\ ~LastOwner(o, a)
      BY <1>2, <2>2, <2>3 DEF Turned
    <3>1. PICK d \in Accounts : d # a /\ Owns(o, d)
      BY <3>0, OtherOwner
    <3>. QED
      BY <2>1, <2>3, <3>1 DEF Owns
  <2>4. CASE ~(q = o /\ c = a)
    BY <2>1, <2>2, <2>4 DEF Owns
  <2>. QED
    BY <2>3, <2>4
<1>3. ASSUME NEW o \in Orgs, NEW a \in Accounts, RemoveOrgMember(b, o, a) PROVE \E c \in Accounts : Owns(q, c)'
  <2>1. "none" \in OrgRoles /\ Turned(o, a, "none")
    BY <1>3 DEF RemoveOrgMember, OrgRoles, Turned, Enrolled
  <2>. QED
    BY <1>2, <2>1
<1>4. ASSUME NEW o \in Orgs, NEW a \in Accounts, NEW r \in {"member", "owner"}, SetOrgRole(b, o, a, r)
      PROVE  \E c \in Accounts : Owns(q, c)'
  <2>1. r \in OrgRoles /\ Turned(o, a, r)
    BY <1>4 DEF SetOrgRole, OrgRoles, Turned, Enrolled
  <2>. QED
    BY <1>2, <2>1
<1>5. ASSUME NEW c \in Codes, AcceptInvitation(b, c) PROVE \E a \in Accounts : Owns(q, a)'
  <2>1. PICK o \in Orgs, p \in Projects \union {NoProject}, r \in {"none", "guest", "member"}, i \in Accounts :
            Joins(b, o, p, r, i)
    BY <1>0, <1>5, Accepted
  <2>2. CASE IsMember(o, b)
    <3>1. member' = member /\ orgs' = orgs
      BY <2>1, <2>2 DEF Joins
    <3>. QED
      BY <1>0, <3>1 DEF Owns
  <2>3. CASE ~IsMember(o, b)
    <3>1. ~LastOwner(o, b)
      BY <2>3 DEF LastOwner, Owns, IsMember
    <3>2. "member" \in OrgRoles /\ Turned(o, b, "member")
      BY <2>1, <2>3, <3>1 DEF OrgRoles, Turned, Enrolled, Joins
    <3>. QED
      BY <1>2, <3>2
  <2>. QED
    BY <2>2, <2>3
<1>. QED
  BY <1>1, <1>3, <1>4, <1>5 DEF Enlists

\* Who has a role or is a guest, is a member: steps that change the members.
LEMMA RolesAmongMembers ==
    ASSUME Inv, NEW b \in Accounts, Enlists(b)
    PROVE  NoRoleOutlives'
<1>0. TypeOK /\ NoRoleOutlives
  BY DEF Inv
<1>1. ASSUME \A o \in Orgs, a \in Accounts : IsMember(o, a) => IsMember(o, a)', UNCHANGED org,
             \A p \in Projects, a \in Accounts : role'[p][a] # "none" => role[p][a] # "none" \/ IsMember(org[p], a)',
             \A o \in Orgs : \A a \in guest'[o] : a \in guest[o] \/ IsMember(o, a)'
      PROVE  NoRoleOutlives'
  <2>1. ASSUME NEW p \in Projects, NEW a \in Accounts, role'[p][a] # "none" PROVE IsMember(org[p], a)'
    <3>1. CASE role[p][a] # "none"
      <4>1. IsMember(org[p], a) /\ org[p] \in Orgs
        BY <1>0, <3>1 DEF NoRoleOutlives, IsMember
      <4>2. IsMember(org[p], a)' <=> org[p] \in Orgs /\ member'[org[p]][a] # "none"
        BY <1>1 DEF IsMember
      <4>. QED
        BY <1>1, <4>1, <4>2 DEF IsMember
    <3>. QED
      BY <1>1, <2>1, <3>1
  <2>2. ASSUME NEW o \in Orgs, NEW a \in guest'[o] PROVE IsMember(o, a)'
    <3>1. CASE a \in guest[o]
      <4>1. IsMember(o, a) /\ a \in Accounts
        BY <1>0, <3>1 DEF NoRoleOutlives, TypeOK
      <4>. QED
        BY <1>1, <4>1
    <3>. QED
      BY <1>1, <3>1
  <2>. QED
    BY <2>1, <2>2 DEF NoRoleOutlives
<1>2. ASSUME NEW o \in Orgs, CreateOrg(b, o) PROVE NoRoleOutlives'
  <2>1. Enrolled(o, b, "owner") /\ "owner" \in OrgRoles /\ UNCHANGED <<org, role, guest>>
    BY <1>2 DEF CreateOrg, Enrolled, OrgRoles
  <2>2. \A s \in Orgs, a \in Accounts : IsMember(s, a) => IsMember(s, a)'
    BY <1>0, <2>1, RowChanged DEF IsMember
  <2>. QED
    BY <1>1, <2>1, <2>2
<1>3. ASSUME NEW o \in Orgs, NEW a \in Accounts, NEW r \in {"member", "owner"}, SetOrgRole(b, o, a, r)
      PROVE  NoRoleOutlives'
  <2>1. Enrolled(o, a, r) /\ r \in OrgRoles /\ UNCHANGED <<org, role, guest>>
    BY <1>3 DEF SetOrgRole, Enrolled, OrgRoles
  <2>2. \A s \in Orgs, c \in Accounts : IsMember(s, c) => IsMember(s, c)'
    BY <1>0, <2>1, RowChanged DEF IsMember
  <2>. QED
    BY <1>1, <2>1, <2>2
<1>4. ASSUME NEW o \in Orgs, NEW a \in Accounts, RemoveOrgMember(b, o, a) PROVE NoRoleOutlives'
  <2>1. /\ Enrolled(o, a, "none") /\ "none" \in OrgRoles /\ org' = org
        /\ role' = RolesWithout(o, a) /\ guest' = [guest EXCEPT ![o] = @ \ {a}]
    BY <1>4 DEF RemoveOrgMember, Enrolled, OrgRoles
  <2>2. \A s \in Orgs, c \in Accounts : IsMember(s, c) /\ ~(s = o /\ c = a) => IsMember(s, c)'
    BY <1>0, <2>1, RowChanged DEF IsMember
  <2>3. ASSUME NEW p \in Projects, NEW c \in Accounts, role'[p][c] # "none" PROVE IsMember(org[p], c)'
    <3>1. role[p][c] # "none" /\ ~(org[p] = o /\ c = a)
      BY <1>0, <2>1, <2>3, RolesDropped
    <3>2. org[p] \in Orgs /\ IsMember(org[p], c)
      BY <1>0, <3>1 DEF NoRoleOutlives, IsMember
    <3>3. org[p] \in Orgs /\ member'[org[p]][c] # "none"
      BY <2>2, <3>1, <3>2 DEF IsMember
    <3>. QED
      BY <2>1, <3>3 DEF IsMember
  <2>4. ASSUME NEW s \in Orgs, NEW c \in guest'[s] PROVE IsMember(s, c)'
    <3>1. c \in guest[s] /\ ~(s = o /\ c = a) /\ c \in Accounts
      BY <1>0, <2>1, <2>4 DEF TypeOK
    <3>. QED
      BY <1>0, <2>2, <3>1 DEF NoRoleOutlives
  <2>. QED
    BY <2>3, <2>4 DEF NoRoleOutlives
<1>5. ASSUME NEW c \in Codes, AcceptInvitation(b, c) PROVE NoRoleOutlives'
  <2>1. PICK o \in Orgs, p \in Projects \union {NoProject}, r \in {"none", "guest", "member"}, i \in Accounts :
            Joins(b, o, p, r, i)
    BY <1>0, <1>5, Accepted
  <2>2. r \in Roles /\ "member" \in OrgRoles /\ UNCHANGED org
    BY <2>1 DEF Roles, OrgRoles, Joins
  <2>3. IsMember(o, b)' /\ \A s \in Orgs, a \in Accounts : IsMember(s, a) => IsMember(s, a)'
    <3>1. CASE IsMember(o, b)
      BY <2>1, <3>1 DEF IsMember, Joins
    <3>2. CASE ~IsMember(o, b)
      <4>1. Enrolled(o, b, "member")
        BY <2>1, <3>2 DEF Joins, Enrolled
      <4>. QED
        BY <1>0, <2>2, <4>1, RowChanged DEF IsMember
    <3>. QED
      BY <3>1, <3>2
  <2>4. ASSUME NEW s \in Projects, NEW a \in Accounts, role'[s][a] # "none", role[s][a] = "none"
        PROVE  IsMember(org[s], a)'
    <3>1. p # NoProject
      BY <2>1, <2>4 DEF Joins
    <3>2. p \in Projects /\ Stored(p, b, r) /\ org[p] = o
      BY <2>1, <3>1 DEF Joins, Stored
    <3>3. s = p /\ a = b
      BY <1>0, <2>2, <2>4, <3>2, RoleChanged
    <3>4. org'[s] = o
      BY <2>2, <3>2, <3>3
    <3>. QED
      BY <2>3, <3>3, <3>4 DEF IsMember
  <2>5. ASSUME NEW s \in Orgs, NEW a \in guest'[s], a \notin guest[s] PROVE IsMember(s, a)'
    <3>1. guest' \in {guest, [guest EXCEPT ![o] = @ \ {b}], [guest EXCEPT ![o] = @ \union {b}]}
      BY <2>1 DEF Joins
    <3>2. s = o /\ a = b
      BY <1>0, <2>5, <3>1 DEF TypeOK
    <3>. QED
      BY <2>3, <3>2
  <2>6. \A s \in Orgs, a \in Accounts : IsMember(s, a) => IsMember(s, a)'
    BY <2>3
  <2>. QED
    BY <1>1, <2>2, <2>4, <2>5, <2>6
<1>. QED
  BY <1>2, <1>3, <1>4, <1>5 DEF Enlists

\* Projects that settle bring no roles with them.
LEMMA SettledRoles ==
    ASSUME TypeOK, NoRoleOutlives, NEW o \in Orgs, NEW N \in SUBSET Projects, Settle(o, N)
    PROVE  NoRoleOutlives'
<1>1. ASSUME NEW p \in Projects, NEW a \in Accounts, role'[p][a] # "none" PROVE IsMember(org[p], a)'
  <2>1. CASE p \in N
    <3>1. org'[p] = o /\ UNCHANGED member
      BY <2>1 DEF Settle
    <3>2. role[p][a] = "none" \/ IsMember(NoOrg, a)
      BY <2>1 DEF Settle, NoRoleOutlives
    <3>3. IsMember(o, a)
      BY <1>1, <2>1, <3>2, OrgAssumption DEF Settle, IsMember
    <3>. QED
      BY <3>1, <3>3 DEF IsMember
  <2>2. CASE p \notin N
    <3>1. org'[p] = org[p] /\ role'[p] = role[p] /\ UNCHANGED member
      BY <2>2 DEF Settle
    <3>2. IsMember(org[p], a)
      BY <1>1, <3>1 DEF NoRoleOutlives
    <3>. QED
      BY <3>1, <3>2 DEF IsMember
  <2>. QED
    BY <2>1, <2>2
<1>2. ASSUME NEW s \in Orgs, NEW a \in guest'[s] PROVE IsMember(s, a)'
  BY <1>2 DEF Settle, NoRoleOutlives, IsMember
<1>. QED
  BY <1>1, <1>2 DEF NoRoleOutlives

\* A project that moves to another organisation leaves its roles behind.
LEMMA RelocatedRoles ==
    ASSUME TypeOK, NoRoleOutlives, NEW p \in Projects, NEW o \in Orgs, Relocate(p, o)
    PROVE  NoRoleOutlives'
<1>1. ASSUME NEW q \in Projects, NEW a \in Accounts, role'[q][a] # "none" PROVE IsMember(org[q], a)'
  <2>1. q # p /\ role'[q] = role[q] /\ org'[q] = org[q] /\ UNCHANGED member
    BY <1>1 DEF Relocate, TypeOK, Nobody
  <2>2. IsMember(org[q], a)
    BY <1>1, <2>1 DEF NoRoleOutlives
  <2>. QED
    BY <2>1, <2>2 DEF IsMember
<1>2. ASSUME NEW s \in Orgs, NEW a \in guest'[s] PROVE IsMember(s, a)'
  BY <1>2 DEF Relocate, NoRoleOutlives, IsMember
<1>. QED
  BY <1>1, <1>2 DEF NoRoleOutlives

\* A role is given to members only.
LEMMA GrantedRoles ==
    ASSUME TypeOK, NoRoleOutlives, NEW b \in Accounts, Grants(b)
    PROVE  NoRoleOutlives'
<1>1. ASSUME NEW p \in Projects, NEW a \in Accounts, NEW r \in Roles, ChangeProjectRole(b, p, a, r)
      PROVE  NoRoleOutlives'
  <2>1. Stored(p, a, r) /\ IsMember(org[p], a) /\ UNCHANGED <<org, member, guest>>
    BY <1>1 DEF ChangeProjectRole, Stored
  <2>2. \A q \in Projects, c \in Accounts : role'[q][c] # "none" => IsMember(org[q], c)
    BY <2>1, RoleChanged DEF NoRoleOutlives
  <2>. QED
    BY <2>1, <2>2 DEF NoRoleOutlives, IsMember
<1>2. ASSUME NEW p \in Projects, SetProjectVisibility(b, p) PROVE NoRoleOutlives'
  BY <1>2 DEF SetProjectVisibility, NoRoleOutlives, IsMember
<1>. QED
  BY <1>1, <1>2 DEF Grants

\* Whoever becomes a member somewhere, the organisation exists.
LEMMA EnlistsFounded ==
    ASSUME Inv, NEW b \in Accounts, Enlists(b)
    PROVE  Founded' /\ UNCHANGED <<org, source, prefix>>
<1>0. TypeOK /\ Founded
  BY DEF Inv
<1>1. ASSUME NEW o \in Orgs, NEW a \in Accounts, NEW r \in OrgRoles, Enrolled(o, a, r),
             o \in orgs', orgs \subseteq orgs', UNCHANGED <<org, source>>
      PROVE  Founded'
  BY <1>0, <1>1, RowChanged DEF Founded
<1>2. ASSUME NEW o \in Orgs, CreateOrg(b, o) PROVE Founded' /\ UNCHANGED <<org, source, prefix>>
  <2>1. Enrolled(o, b, "owner") /\ "owner" \in OrgRoles
    BY <1>2 DEF CreateOrg, Enrolled, OrgRoles
  <2>. QED
    BY <1>1, <1>2, <2>1 DEF CreateOrg
<1>3. ASSUME NEW o \in Orgs, NEW a \in Accounts, RemoveOrgMember(b, o, a)
      PROVE  Founded' /\ UNCHANGED <<org, source, prefix>>
  <2>1. Enrolled(o, a, "none") /\ "none" \in OrgRoles /\ o \in orgs
    BY <1>0, <1>3 DEF RemoveOrgMember, Enrolled, OrgRoles, Founded, IsMember
  <2>. QED
    BY <1>1, <1>3, <2>1 DEF RemoveOrgMember
<1>4. ASSUME NEW o \in Orgs, NEW a \in Accounts, NEW r \in {"member", "owner"}, SetOrgRole(b, o, a, r)
      PROVE  Founded' /\ UNCHANGED <<org, source, prefix>>
  <2>1. Enrolled(o, a, r) /\ r \in OrgRoles /\ o \in orgs
    BY <1>0, <1>4 DEF SetOrgRole, Enrolled, OrgRoles, Founded, IsMember
  <2>. QED
    BY <1>1, <1>4, <2>1 DEF SetOrgRole
<1>5. ASSUME NEW c \in Codes, AcceptInvitation(b, c) PROVE Founded' /\ UNCHANGED <<org, source, prefix>>
  <2>1. PICK o \in Orgs, p \in Projects \union {NoProject}, r \in {"none", "guest", "member"}, i \in Accounts :
            Joins(b, o, p, r, i)
    BY <1>0, <1>5, Accepted
  <2>2. o \in orgs /\ UNCHANGED <<orgs, org, source, prefix>>
    BY <1>0, <2>1 DEF Joins, Owns, Founded
  <2>3. CASE IsMember(o, b)
    BY <1>0, <2>1, <2>2, <2>3 DEF Joins, Founded
  <2>4. CASE ~IsMember(o, b)
    <3>1. Enrolled(o, b, "member") /\ "member" \in OrgRoles
      BY <2>1, <2>4 DEF Joins, Enrolled, OrgRoles
    <3>. QED
      BY <1>1, <2>2, <3>1
  <2>. QED
    BY <2>3, <2>4
<1>. QED
  BY <1>2, <1>3, <1>4, <1>5 DEF Enlists

\* The prefix goes with its proof, and nobody takes over one that is held.
LEMMA ConnectsProven ==
    ASSUME Inv, NEW b \in Accounts, Connects(b)
    PROVE  Quiet /\ Founded' /\ PrefixProven'
<1>0. Founded /\ PrefixProven /\ TypeOK
  BY DEF Inv
<1>1. ASSUME NEW o \in Orgs, ConnectSource(b, o) PROVE Quiet /\ Founded' /\ PrefixProven'
  BY <1>0, <1>1, OrgAssumption DEF ConnectSource, Quiet, Founded, PrefixProven, Owns
<1>2. ASSUME DisconnectSource(b) PROVE Quiet /\ Founded' /\ PrefixProven'
  BY <1>0, <1>2 DEF DisconnectSource, Quiet, Founded, PrefixProven, NoPrefix
<1>3. ASSUME ReleasePrefix(b) PROVE Quiet /\ Founded' /\ PrefixProven'
  BY <1>0, <1>3 DEF ReleasePrefix, Quiet, Founded, PrefixProven, NoPrefix
<1>4. ASSUME NEW visible \in Visibilities, ClaimPrefix(b, visible) PROVE Quiet /\ Founded' /\ PrefixProven'
  BY <1>0, <1>4 DEF ClaimPrefix, Quiet, Founded, PrefixProven
<1>. QED
  BY <1>1, <1>2, <1>3, <1>4 DEF Connects

\* Steps after which everybody has the access they had.
LEMMA QuietKeeps ==
    ASSUME Inv, Quiet, Founded', PrefixProven', TypeOK'
    PROVE  Inv'
<1>1. OwnersRemain'
  BY DEF Inv, Quiet, OwnersRemain, Owners, Owns
<1>2. NoRoleOutlives'
  BY DEF Inv, Quiet, NoRoleOutlives, IsMember
<1>. QED
  BY <1>1, <1>2 DEF Inv

LEMMA RelocateKeeps ==
    ASSUME Inv, NEW p \in Projects, NEW o \in Orgs, Relocate(p, o)
    PROVE  Inv'
<1>1. TypeOK' /\ NoRoleOutlives'
  BY RelocateTyped, RelocatedRoles DEF Inv
<1>2. OwnersRemain'
  BY DEF Inv, Relocate, OwnersRemain, Owners, Owns
<1>3. Founded' /\ PrefixProven'
  BY DEF Inv, TypeOK, Relocate, Founded, PrefixProven
<1>. QED
  BY <1>1, <1>2, <1>3 DEF Inv

LEMMA ActsKeep ==
    ASSUME Inv, NEW b \in Accounts, Acts(b), TypeOK'
    PROVE  Inv'
<1>1. CASE Enlists(b)
  BY <1>1, OwnersStay, RolesAmongMembers, EnlistsFounded DEF Inv, PrefixProven
<1>2. CASE Places(b)
  <2>1. PICK o \in orgs, N \in SUBSET Projects : Settle(o, N)
    BY <1>2, PlacesSettle
  <2>2. o \in Orgs
    BY DEF Inv, TypeOK
  <2>3. NoRoleOutlives'
    BY <2>1, <2>2, SettledRoles DEF Inv
  <2>4. OwnersRemain'
    BY <2>1 DEF Inv, Settle, OwnersRemain, Owners, Owns
  <2>5. Founded' /\ PrefixProven'
    BY <2>1 DEF Inv, Settle, Founded, PrefixProven
  <2>. QED
    BY <2>3, <2>4, <2>5 DEF Inv
<1>3. CASE Moves(b)
  BY <1>3, RelocateKeeps DEF Moves, MoveProject
<1>4. CASE Grants(b)
  <2>1. NoRoleOutlives'
    BY <1>4, GrantedRoles DEF Inv
  <2>2. UNCHANGED <<orgs, member, org, source, prefix>>
    BY <1>4 DEF Grants, ChangeProjectRole, SetProjectVisibility
  <2>3. OwnersRemain' /\ Founded' /\ PrefixProven'
    BY <2>2 DEF Inv, OwnersRemain, Owners, Owns, Founded, PrefixProven
  <2>. QED
    BY <2>1, <2>3 DEF Inv
<1>5. CASE Connects(b)
  BY <1>5, ConnectsProven, QuietKeeps
<1>6. CASE Still
  <2>1. Quiet /\ Founded' /\ PrefixProven'
    BY <1>6 DEF Still, Quiet, Inv, Founded, PrefixProven
  <2>. QED
    BY <2>1, QuietKeeps
<1>. QED
  BY <1>1, <1>2, <1>3, <1>4, <1>5, <1>6, StepKinds

\* The instance owner b joins organisation o, the first one or a new one, and
\* the remotes known that nobody has become projects of it.
Fills(b, o, known) ==
    /\ o \in orgs \/ orgs = {}
    /\ orgs' = orgs \union {o}
    /\ \A q \in Orgs, a \in Accounts :
          member'[q][a] = IF q = o /\ a = b /\ member[o][b] = "none" THEN "owner" ELSE member[q][a]
    /\ \A p \in known : org[p] = NoOrg
    /\ \A p \in Projects : org'[p] = IF p \in known THEN o ELSE org[p]
    /\ UNCHANGED <<guest, role, source, prefix>>

LEMMA BackfillFills ==
    ASSUME TypeOK, Backfill
    PROVE  \E b \in Accounts, o \in Orgs, known \in SUBSET Remotes : Fills(b, o, known)
<1>1. PICK b \in Accounts, o \in Orgs, known \in SUBSET Remotes :
          BackfillInto(b, o, known) /\ \A p \in known : org[p] = NoOrg
  BY DEF Backfill
<1> USE DEF BackfillInto
<1>2. \A q \in Orgs, a \in Accounts :
          member'[q][a] = IF q = o /\ a = b /\ member[o][b] = "none" THEN "owner" ELSE member[q][a]
  <2>1. CASE IsMember(o, b)
    BY <1>1, <2>1 DEF IsMember
  <2>2. CASE ~IsMember(o, b)
    <3>1. Enrolled(o, b, "owner") /\ "owner" \in OrgRoles /\ member[o][b] = "none"
      BY <1>1, <2>2 DEF Enrolled, OrgRoles, IsMember
    <3>. QED
      BY <3>1, RowChanged
  <2>. QED
    BY <2>1, <2>2
<1>3. \A p \in Projects : org'[p] = IF p \in known THEN o ELSE org[p]
  BY <1>1
<1>. QED
  BY <1>1, <1>2, <1>3 DEF Fills

\* The backfill makes an owner and takes nobody's membership.
LEMMA BackfillKeeps ==
    ASSUME Inv, Backfill, TypeOK'
    PROVE  Inv'
<1>0. TypeOK /\ OwnersRemain /\ NoRoleOutlives /\ Founded /\ PrefixProven
  BY DEF Inv
<1>1. PICK b \in Accounts, o \in Orgs, known \in SUBSET Remotes : Fills(b, o, known)
  BY <1>0, BackfillFills
<1>2. ASSUME NEW q \in orgs' PROVE \E a \in Accounts : Owns(q, a)'
  <2>1. CASE q \in orgs
    <3>1. PICK a \in Accounts : Owns(q, a)
      BY <1>0, <2>1 DEF OwnersRemain, Owners
    <3>2. q \in Orgs /\ member[q][a] = "owner"
      BY <3>1 DEF Owns
    <3>3. member'[q][a] = "owner"
      BY <1>1, <3>2 DEF Fills
    <3>. QED
      BY <3>2, <3>3 DEF Owns
  <2>2. CASE q \notin orgs
    <3>1. q = o /\ orgs = {}
      BY <1>1, <1>2, <2>2 DEF Fills
    <3>2. member[o][b] = "none"
      BY <1>0, <3>1 DEF Founded
    <3>3. member'[o][b] = "owner"
      BY <1>1, <3>2 DEF Fills
    <3>. QED
      BY <3>1, <3>3 DEF Owns
  <2>. QED
    BY <2>1, <2>2
<1>3. OwnersRemain'
  BY <1>2 DEF OwnersRemain, Owners
<1>4. NoRoleOutlives'
  <2>1. ASSUME NEW p \in Projects, NEW a \in Accounts, role'[p][a] # "none" PROVE IsMember(org[p], a)'
    <3>1. role[p][a] # "none"
      BY <1>1, <2>1 DEF Fills
    <3>2. org[p] \in Orgs /\ member[org[p]][a] # "none"
      BY <1>0, <3>1 DEF NoRoleOutlives, IsMember
    <3>3. org'[p] = org[p]
      BY <1>1, <3>2, OrgAssumption DEF Fills
    <3>4. member'[org[p]][a] # "none"
      BY <1>1, <3>2 DEF Fills
    <3>. QED
      BY <3>2, <3>3, <3>4 DEF IsMember
  <2>2. ASSUME NEW q \in Orgs, NEW a \in guest'[q] PROVE IsMember(q, a)'
    <3>1. a \in Accounts /\ member[q][a] # "none"
      BY <1>0, <1>1, <2>2 DEF Fills, NoRoleOutlives, IsMember, TypeOK
    <3>. QED
      BY <1>1, <3>1 DEF Fills, IsMember
  <2>. QED
    BY <2>1, <2>2 DEF NoRoleOutlives
<1>5. Founded' /\ PrefixProven'
  BY <1>0, <1>1 DEF Fills, Founded, PrefixProven
<1>. QED
  BY <1>3, <1>4, <1>5 DEF Inv

LEMMA InvStep == ASSUME Inv, [Next]_vars PROVE Inv'
<1>0. TypeOK'
  BY StepTyped DEF Inv
<1>1. ASSUME NEW b \in Accounts, Acts(b) PROVE Inv'
  BY <1>0, <1>1, ActsKeep
<1>2. CASE ForceMoveProject
  BY <1>2, RelocateKeeps DEF ForceMoveProject
<1>3. CASE InvitationExpires \/ UNCHANGED vars
  <2>1. Quiet /\ Founded' /\ PrefixProven'
    BY <1>3 DEF InvitationExpires, vars, Quiet, Inv, Founded, PrefixProven
  <2>. QED
    BY <1>0, <2>1, QuietKeeps
<1>. QED
  BY <1>0, <1>1, <1>2, <1>3, BackfillKeeps DEF Next

LEMMA InvInit == ASSUME Init PROVE Inv
<1>1. TypeOK
  BY InitTyped
<1>2. OwnersRemain /\ Founded /\ PrefixProven
  BY DEF Init, OwnersRemain, Founded, PrefixProven, Nobody, NoPrefix
<1>3. NoRoleOutlives
  BY DEF Init, NoRoleOutlives, Nobody
<1>. QED
  BY <1>1, <1>2, <1>3 DEF Inv

\* The invariant that the theorems below rest on (every transaction of orgs.go,
\* roles.go, sharing.go and joininvite.go).
THEOREM InvHolds == Spec => []Inv
  BY InvInit, InvStep, PTL DEF Spec

\* Every variable keeps its type.
THEOREM TypeCorrect == Spec => []TypeOK
<1>1. Inv => TypeOK
  BY DEF Inv
<1>. QED
  BY <1>1, InvHolds, PTL

\* An organisation never loses its last owner: of those who demote, remove or
\* leave, the last one is refused (ownerCountTx), and no other transaction
\* takes an owner away.
THEOREM NoOrphans == Spec => []OwnersRemain
<1>1. Inv => OwnersRemain
  BY DEF Inv
<1>. QED
  BY <1>1, InvHolds, PTL

\* Stored roles and the mark of a guest belong to members of the organisation
\* that has the project (dropProjectRolesTx, moveProjectTx).
THEOREM RolesEnd == Spec => []NoRoleOutlives
<1>1. Inv => NoRoleOutlives
  BY DEF Inv
<1>. QED
  BY <1>1, InvHolds, PTL

-----------------------------------------------------------------------------
(* Ranks *)

\* The rank of an account in a project, by the row it has in the organisation,
\* its stored role, and whether the project is shared with it.
RankOf(m, r, s) ==
    IF m = "none" THEN 0 ELSE IF m = "owner" THEN 4 ELSE IF r # "none" THEN RoleRank[r] ELSE IF s THEN 2 ELSE 0

SharedWith(p, a) == p \in shared /\ a \notin guest[org[p]]

LEMMA RankIs ==
    ASSUME NEW p, NEW a, NEW o \in Orgs
    PROVE  /\ org[p] = o => Rank(p, a) = RankOf(member[o][a], role[p][a], SharedWith(p, a))
           /\ org'[p] = o => Rank(p, a)' = RankOf(member'[o][a], role'[p][a], SharedWith(p, a)')
<1>1. ASSUME org[p] = o PROVE Rank(p, a) = RankOf(member[o][a], role[p][a], SharedWith(p, a))
  <2>1. ProjectRole(p, a) = IF member[o][a] = "none" THEN "none" ELSE IF member[o][a] = "owner" THEN "owner"
                            ELSE IF role[p][a] # "none" THEN role[p][a]
                            ELSE IF SharedWith(p, a) THEN "member" ELSE "none"
    BY <1>1 DEF ProjectRole, IsMember, Owns, SharedWith
  <2>. QED
    BY <2>1 DEF Rank, RankOf, RoleRank
<1>2. ASSUME org'[p] = o PROVE Rank(p, a)' = RankOf(member'[o][a], role'[p][a], SharedWith(p, a)')
  <2>1. ProjectRole(p, a)' = IF member'[o][a] = "none" THEN "none" ELSE IF member'[o][a] = "owner" THEN "owner"
                             ELSE IF role'[p][a] # "none" THEN role'[p][a]
                             ELSE IF SharedWith(p, a)' THEN "member" ELSE "none"
    BY <1>2 DEF ProjectRole, IsMember, Owns, SharedWith
  <2>. QED
    BY <2>1 DEF Rank, RankOf, RoleRank
<1>. QED
  BY <1>1, <1>2

\* What the rank is in each case.
LEMMA RankBounds ==
    ASSUME NEW m \in OrgRoles, NEW r \in Roles, NEW s \in BOOLEAN
    PROVE  /\ RankOf(m, r, s) \in 0..4
           /\ m = "none" => RankOf(m, r, s) = 0
           /\ m = "owner" => RankOf(m, r, s) = 4
           /\ m # "owner" /\ RoleRank[r] <= 2 => RankOf(m, r, s) <= 2
           /\ m # "owner" => RankOf(m, r, s) <= RoleRank[r] \/ RankOf(m, r, s) <= 2
           /\ m = "member" /\ r # "none" => RankOf(m, r, s) = RoleRank[r]
           /\ RoleRank[r] \in 0..4
  BY DEF RankOf, RoleRank, OrgRoles, Roles

LEMMA RankTyped ==
    ASSUME TypeOK, NEW p \in Projects, NEW a \in Accounts
    PROVE  /\ Rank(p, a) \in 0..4
           /\ Owns(org[p], a) => Rank(p, a) = 4
<1>1. CASE org[p] \notin Orgs
  BY <1>1 DEF Rank, ProjectRole, RoleRank, IsMember, Owns
<1>2. CASE org[p] \in Orgs
  <2>1. member[org[p]][a] \in OrgRoles /\ role[p][a] \in Roles /\ SharedWith(p, a) \in BOOLEAN
    BY <1>2 DEF TypeOK, SharedWith
  <2>2. Rank(p, a) = RankOf(member[org[p]][a], role[p][a], SharedWith(p, a))
    BY <1>2, RankIs
  <2>. QED
    BY <2>1, <2>2, RankBounds DEF Owns
<1>. QED
  BY <1>1, <1>2

\* What a rank is made of stays: so does the rank.
LEMMA SameRank ==
    ASSUME TypeOK, NEW p \in Projects, NEW a \in Accounts, org[p] # NoOrg, org'[p] = org[p],
           member'[org[p]][a] = member[org[p]][a], role'[p][a] = role[p][a], p \in shared' <=> p \in shared,
           a \in guest'[org[p]] <=> a \in guest[org[p]]
    PROVE  Rank(p, a)' = Rank(p, a)
<1>1. org[p] \in Orgs
  BY DEF TypeOK
<1>2. SharedWith(p, a)' = SharedWith(p, a)
  BY DEF SharedWith
<1>. QED
  BY <1>1, <1>2, RankIs

\* The rank of account a in project p rises.
Raised(p, a) == org[p] # NoOrg /\ Rank(p, a) < Rank(p, a)'

LEMMA RaisedIs ==
    ASSUME Inv, TypeOK', NEW p \in Projects, NEW a \in Accounts, Raised(p, a)
    PROVE  /\ org[p] \in Orgs /\ org[p] \in orgs /\ Rank(p, a) \in 0..3 /\ Rank(p, a)' \in 0..4
           /\ ~Owns(org[p], a)
<1>1. org[p] \in Orgs /\ org[p] \in orgs
  BY DEF Raised, Inv, TypeOK, Founded
<1>2. Rank(p, a) \in 0..4 /\ (Owns(org[p], a) => Rank(p, a) = 4)
  BY RankTyped DEF Inv
<1>3. Rank(p, a)' \in 0..4
  <2>1. CASE org'[p] \notin Orgs
    BY <2>1 DEF Rank, ProjectRole, RoleRank, IsMember, Owns
  <2>2. CASE org'[p] \in Orgs
    <3>1. member'[org'[p]][a] \in OrgRoles /\ role'[p][a] \in Roles /\ SharedWith(p, a)' \in BOOLEAN
      BY <2>2 DEF TypeOK, SharedWith
    <3>2. Rank(p, a)' = RankOf(member'[org'[p]][a], role'[p][a], SharedWith(p, a)')
      BY <2>2, RankIs
    <3>. QED
      BY <3>1, <3>2, RankBounds
  <2>. QED
    BY <2>1, <2>2
<1>. QED
  BY <1>1, <1>2, <1>3 DEF Raised

\* Whoever owns a project or its organisation may raise everybody else; nobody
\* rises above that.
LEMMA OwnerRaises ==
    ASSUME Inv, TypeOK', NEW p \in Projects, NEW a \in Accounts, NEW b \in Accounts, Raised(p, a),
           Rank(p, b) = 4
    PROVE  MayRaise(b, p, a)
<1>1. a # b
  BY RaisedIs
<1>. QED
  BY <1>1 DEF MayRaise, RoleRank

LEMMA EnlistsRaise ==
    ASSUME Inv, TypeOK', NEW b \in Accounts, Enlists(b), NEW p \in Projects, NEW a \in Accounts, Raised(p, a)
    PROVE  MayRaise(b, p, a)
<1>0. TypeOK /\ NoRoleOutlives /\ Rank(p, a)' # Rank(p, a) /\ org[p] # NoOrg
  BY RaisedIs DEF Inv, Raised
<1>1. PICK o \in Orgs : org[p] = o
  BY RaisedIs
<1>2. ASSUME NEW q \in Orgs, CreateOrg(b, q) PROVE FALSE
  <2>1. Enrolled(q, b, "owner") /\ "owner" \in OrgRoles /\ UNCHANGED <<org, role, guest, shared>>
    BY <1>2 DEF CreateOrg, Enrolled, OrgRoles
  <2>2. q # o
    BY <1>1, <1>2, RaisedIs DEF CreateOrg
  <2>3. member'[org[p]][a] = member[org[p]][a]
    BY <1>0, <1>1, <2>1, <2>2, RowChanged
  <2>. QED
    BY <1>0, <2>1, <2>3, SameRank
<1>3. ASSUME NEW q \in Orgs, NEW d \in Accounts, NEW r \in {"member", "owner"}, SetOrgRole(b, q, d, r)
      PROVE  MayRaise(b, p, a)
  <2>1. Enrolled(q, d, r) /\ r \in OrgRoles /\ UNCHANGED <<org, role, guest, shared>> /\ Owns(q, b)
    BY <1>3 DEF SetOrgRole, Enrolled, OrgRoles
  <2>2. q = o
    <3>1. ASSUME q # o PROVE member'[org[p]][a] = member[org[p]][a]
      BY <1>0, <1>1, <2>1, <3>1, RowChanged
    <3>. QED
      BY <1>0, <2>1, <3>1, SameRank
  <2>3. Rank(p, b) = 4
    BY <1>0, <1>1, <2>1, <2>2, RankTyped
  <2>. QED
    BY <2>3, OwnerRaises
<1>4. ASSUME NEW q \in Orgs, NEW d \in Accounts, RemoveOrgMember(b, q, d) PROVE FALSE
  <2>1. /\ Enrolled(q, d, "none") /\ "none" \in OrgRoles /\ UNCHANGED <<org, shared>>
        /\ role' = RolesWithout(q, d) /\ guest' = [guest EXCEPT ![q] = @ \ {d}]
    BY <1>4 DEF RemoveOrgMember, Enrolled, OrgRoles
  <2>2. CASE q = o /\ d = a
    <3>1. member'[o][a] = "none" /\ org'[p] = o
      BY <1>0, <1>1, <2>1, <2>2, RowChanged
    <3>2. Rank(p, a)' = 0
      BY <3>1, RankIs DEF RankOf
    <3>. QED
      BY <3>2, RaisedIs DEF Raised
  <2>3. CASE ~(q = o /\ d = a)
    <3>1. member'[org[p]][a] = member[org[p]][a]
      BY <1>0, <1>1, <2>1, <2>3, RowChanged
    <3>2. role'[p][a] = role[p][a]
      BY <1>0, <1>1, <2>1, <2>3, RolesDropped
    <3>3. a \in guest'[org[p]] <=> a \in guest[org[p]]
      BY <1>0, <1>1, <2>1, <2>3 DEF TypeOK
    <3>. QED
      BY <1>0, <2>1, <3>1, <3>2, <3>3, SameRank
  <2>. QED
    BY <2>2, <2>3
<1>5. ASSUME NEW c \in Codes, AcceptInvitation(b, c) PROVE MayRaise(b, p, a)
  <2>1. PICK q \in Orgs, s \in Projects \union {NoProject}, r \in {"none", "guest", "member"}, i \in Accounts :
            Joins(b, q, s, r, i) /\ invitation[c].org = q /\ invitation[c].by = i
    BY <1>0, <1>5, Accepted
  <2>2. \A x \in Orgs, d \in Accounts :
            member'[x][d] # member[x][d] => x = q /\ d = b /\ ~IsMember(q, b) /\ member'[x][d] = "member"
    <3>1. CASE IsMember(q, b)
      BY <2>1, <3>1 DEF Joins
    <3>2. CASE ~IsMember(q, b)
      <4>1. Enrolled(q, b, "member") /\ "member" \in OrgRoles
        BY <2>1, <3>2 DEF Joins, Enrolled, OrgRoles
      <4>. QED
        BY <1>0, <3>2, <4>1, RowChanged
    <3>. QED
      BY <3>1, <3>2
  <2>3. role'[p][a] # role[p][a] => o = q /\ a = b /\ role'[p][a] = r
    <3>1. CASE s = NoProject
      BY <2>1, <3>1 DEF Joins
    <3>2. CASE s # NoProject
      <4>1. Stored(s, b, r) /\ r \in Roles /\ s \in Projects /\ org[s] = q
        BY <2>1, <3>2 DEF Joins, Stored, Roles
      <4>. QED
        BY <1>0, <1>1, <4>1, RoleChanged
    <3>. QED
      BY <3>1, <3>2
  <2>4. (a \in guest'[org[p]] <=> a \in guest[org[p]]) \/ (o = q /\ a = b)
    <3>1. guest' \in {guest, [guest EXCEPT ![q] = @ \ {b}], [guest EXCEPT ![q] = @ \union {b}]}
      BY <2>1 DEF Joins
    <3>. QED
      BY <1>0, <1>1, <3>1 DEF TypeOK
  <2>5. UNCHANGED <<org, shared>> /\ Owns(q, i) /\ ~Owns(q, b)
    BY <2>1 DEF Joins
  <2>6. o = q /\ a = b
    <3>1. ASSUME ~(o = q /\ a = b) PROVE FALSE
      <4>1. member'[org[p]][a] = member[org[p]][a] /\ role'[p][a] = role[p][a]
        BY <1>1, <2>2, <2>3, <3>1
      <4>. QED
        BY <1>0, <2>4, <2>5, <3>1, <4>1, SameRank
    <3>. QED
      BY <3>1
  <2>7. Rank(p, a)' <= 2
    <3>0. /\ member'[o][a] \in OrgRoles /\ role'[p][a] \in Roles /\ SharedWith(p, a)' \in BOOLEAN
          /\ member[o][a] \in OrgRoles /\ role[p][a] \in Roles /\ SharedWith(p, a) \in BOOLEAN
      BY <1>0 DEF TypeOK, SharedWith
    <3>1. Rank(p, a)' = RankOf(member'[o][a], role'[p][a], SharedWith(p, a)')
      BY <1>1, <2>5, RankIs
    <3>2. member'[o][a] # "owner"
      BY <2>2, <2>5, <2>6 DEF Owns
    <3>3. CASE role'[p][a] = r \/ role'[p][a] = "none"
      <4>1. RoleRank[role'[p][a]] <= 2
        BY <3>3 DEF RoleRank
      <4>. QED
        BY <3>0, <3>1, <3>2, <4>1, RankBounds
    <3>4. CASE role'[p][a] # r /\ role'[p][a] # "none"
      <4>1. role'[p][a] = role[p][a] /\ role[p][a] # "none"
        BY <2>3, <3>4
      <4>2. IsMember(o, a)
        BY <1>0, <1>1, <4>1 DEF NoRoleOutlives
      <4>3. member'[o][a] = member[o][a] /\ member[o][a] = "member"
        BY <2>2, <2>6, <3>0, <3>2, <4>2 DEF OrgRoles, IsMember
      <4>4. Rank(p, a) = RoleRank[role[p][a]] /\ Rank(p, a)' = RoleRank[role[p][a]]
        BY <1>1, <3>0, <3>1, <4>1, <4>3, RankIs, RankBounds
      <4>. QED
        BY <1>0, <4>4
    <3>. QED
      BY <3>3, <3>4
  <2>8. invitation[c] # NoInvitation /\ invitation'[c] = NoInvitation
    BY <1>0, <1>5 DEF AcceptInvitation, Gone, TypeOK
  <2>9. Owns(org[p], invitation[c].by)
    BY <1>1, <2>1, <2>5, <2>6
  <2>. QED
    BY <2>6, <2>7, <2>8, <2>9 DEF MayRaise, RoleRank
<1>. QED
  BY <1>2, <1>3, <1>4, <1>5 DEF Enlists

\* What is stored is given by those who may give it.
LEMMA GrantsRaise ==
    ASSUME Inv, TypeOK', NEW b \in Accounts, Grants(b), NEW p \in Projects, NEW a \in Accounts, Raised(p, a)
    PROVE  MayRaise(b, p, a)
<1>0. TypeOK /\ Rank(p, a)' # Rank(p, a) /\ org[p] # NoOrg
  BY RaisedIs DEF Inv, Raised
<1>1. PICK o \in Orgs : org[p] = o
  BY RaisedIs
<1>2. ASSUME NEW q \in Projects, SetProjectVisibility(b, q) PROVE MayRaise(b, p, a)
  <2>1. UNCHANGED <<org, member, role, guest>> /\ (q # p => (p \in shared' <=> p \in shared)) /\ Rank(q, b) = 4
    BY <1>2 DEF SetProjectVisibility, RoleRank
  <2>2. q = p
    BY <1>0, <2>1, SameRank
  <2>. QED
    BY <2>1, <2>2, OwnerRaises
<1>3. ASSUME NEW q \in Projects, NEW d \in Accounts, NEW r \in Roles, ChangeProjectRole(b, q, d, r)
      PROVE  MayRaise(b, p, a)
  <2>1. Stored(q, d, r) /\ UNCHANGED <<org, member, guest, shared>>
    BY <1>3 DEF ChangeProjectRole, Stored
  <2>2. q = p /\ d = a
    <3>1. ASSUME ~(q = p /\ d = a) PROVE role'[p][a] = role[p][a]
      BY <1>0, <2>1, <3>1, RoleChanged
    <3>. QED
      BY <1>0, <2>1, <3>1, SameRank
  <2>3. IsMember(o, a) /\ ~Owns(o, a) /\ MayGive(b, p, a, r)
    BY <1>1, <1>3, <2>2 DEF ChangeProjectRole
  <2>4. /\ Rank(p, b) >= 3
        /\ a = b => RoleRank[r] < Rank(p, b)
        /\ a # b /\ Rank(p, b) = 3 => RoleRank[r] <= 2
    BY <2>3 DEF MayGive, RoleRank
  <2>5. RoleRank[r] \in 0..4 /\ (Rank(p, a)' <= RoleRank[r] \/ Rank(p, a)' <= 2)
    <3>1. role'[p][a] = r
      BY <1>0, <2>1, <2>2, RoleChanged
    <3>2. member'[o][a] \in OrgRoles /\ member'[o][a] # "owner" /\ SharedWith(p, a)' \in BOOLEAN
      BY <1>0, <2>1, <2>3 DEF TypeOK, Owns, SharedWith
    <3>3. Rank(p, a)' = RankOf(member'[o][a], r, SharedWith(p, a)')
      BY <1>1, <2>1, <3>1, RankIs
    <3>. QED
      BY <3>2, <3>3, RankBounds
  <2>6. Rank(p, a) < Rank(p, a)' /\ Rank(p, a) \in 0..3 /\ Rank(p, a)' \in 0..4 /\ Rank(p, b) \in 0..4
    BY <1>0, RaisedIs, RankTyped DEF Raised
  <2>7. a # b
    BY <2>4, <2>5, <2>6
  <2>8. Rank(p, b) = 3 => Rank(p, a)' <= 2
    BY <2>4, <2>5, <2>6, <2>7
  <2>. QED
    BY <2>4, <2>7, <2>8 DEF MayRaise, RoleRank
<1>. QED
  BY <1>2, <1>3 DEF Grants

\* A rise is granted, whoever acts.
LEMMA ActsGrant ==
    ASSUME Inv, TypeOK', NEW b \in Accounts, Acts(b), NEW p \in Projects, NEW a \in Accounts, Raised(p, a)
    PROVE  MayRaise(b, p, a)
<1>0. TypeOK /\ Rank(p, a)' # Rank(p, a) /\ org[p] # NoOrg
  BY RaisedIs DEF Inv, Raised
<1>1. CASE Places(b)
  <2>1. PICK o \in orgs, N \in SUBSET Projects : Settle(o, N)
    BY <1>1, PlacesSettle
  <2>2. p \notin N
    BY <1>0, <2>1 DEF Settle
  <2>3. Rank(p, a)' = Rank(p, a)
    BY <1>0, <2>1, <2>2, SameRank DEF Settle
  <2>. QED
    BY <1>0, <2>3
<1>2. CASE Moves(b)
  <2>1. PICK q \in Projects, o \in Orgs : MoveProject(b, q, o)
    BY <1>2 DEF Moves
  <2>2. CASE q # p
    <3>1. /\ org'[p] = org[p] /\ role'[p] = role[p] /\ (p \in shared' <=> p \in shared)
          /\ UNCHANGED <<member, guest>>
      BY <1>0, <2>1, <2>2 DEF MoveProject, Relocate, TypeOK
    <3>. QED
      BY <1>0, <3>1, SameRank
  <2>3. CASE q = p
    <3>1. Rank(p, b) = 4
      BY <1>0, <2>1, <2>3, RankTyped DEF MoveProject
    <3>. QED
      BY <3>1, OwnerRaises
  <2>. QED
    BY <2>2, <2>3
<1>3. CASE Connects(b) \/ Still
  <2>1. Quiet
    BY <1>3, ConnectsProven DEF Still
  <2>. QED
    BY <1>0, <2>1, SameRank DEF Quiet
<1>. QED
  BY <1>1, <1>2, <1>3, StepKinds, EnlistsRaise, GrantsRaise

\* No transaction raises the rank of an account above what the acting account
\* may give: no lead makes owners or leads, nobody raises itself but with a
\* link, and a link gives member at most (changeProjectRole, acceptInvitationTx
\* and all others).
THEOREM RanksRiseByGrant == Spec => RisesAreGranted
<1>1. ASSUME Inv, [Next]_vars
      PROVE  [\A p \in Projects, a \in Accounts : org[p] # NoOrg /\ Rank(p, a) < Rank(p, a)' =>
                  \A b \in Accounts : MayRaise(b, p, a) \/ ~Acts(b)]_vars
  <2>1. TypeOK'
    BY <1>1, StepTyped DEF Inv
  <2>2. ASSUME NEW p \in Projects, NEW a \in Accounts, Raised(p, a), NEW b \in Accounts, Acts(b)
        PROVE  MayRaise(b, p, a)
    BY <1>1, <2>1, <2>2, ActsGrant
  <2>. QED
    BY <2>2 DEF Raised
<1>. QED
  BY <1>1, InvHolds, PTL DEF Spec, RisesAreGranted

-----------------------------------------------------------------------------
(* Whose projects the remotes become *)

\* A remote below a prefix that is held becomes a project of who holds it, by
\* whatever call of whatever account (assignByPrefixTx, ImportSourceRepos); the
\* backfill alone does not ask.
THEOREM PrefixRules == Spec => PrefixDecides
<1>1. ASSUME Inv, [Next]_vars
      PROVE  [\A p \in Covered : org[p] = NoOrg /\ org'[p] # NoOrg /\ prefix.org # NoOrg =>
                  org'[p] = prefix.org \/ filled' # filled]_vars
  <2>1. ASSUME NEW p \in Covered, org[p] = NoOrg, org'[p] # NoOrg, prefix.org # NoOrg
        PROVE  org'[p] = prefix.org \/ filled' # filled
    <3>0. p \in Projects /\ TypeOK
      BY <1>1, OrgAssumption DEF Projects, Inv
    <3>1. ASSUME NEW b \in Accounts, Places(b) PROVE org'[p] = prefix.org
      <4>1. PICK o \in orgs, N \in SUBSET Projects : Settle(o, N)
        BY <1>1, <3>1, PlacesSettle
      <4>. QED
        BY <2>1, <3>0, <4>1 DEF Settle
    <3>2. ASSUME NEW q \in Projects, NEW o \in Orgs, Relocate(q, o) PROVE FALSE
      <4>1. p # q
        BY <2>1, <3>2 DEF Relocate
      <4>. QED
        BY <2>1, <3>0, <3>2, <4>1 DEF Relocate, TypeOK
    <3>3. ASSUME NEW b \in Accounts, Enlists(b) \/ Grants(b) \/ Connects(b) \/ Still PROVE UNCHANGED org
      <4>1. CASE Enlists(b)
        BY <1>1, <4>1, EnlistsFounded
      <4>2. CASE Grants(b)
        BY <4>2 DEF Grants, ChangeProjectRole, SetProjectVisibility
      <4>3. CASE Connects(b)
        BY <1>1, <4>3, ConnectsProven DEF Quiet
      <4>. QED
        BY <3>3, <4>1, <4>2, <4>3 DEF Still, Quiet
    <3>4. ASSUME NEW b \in Accounts, Acts(b) PROVE org'[p] = prefix.org
      BY <2>1, <3>1, <3>2, <3>3, <3>4, StepKinds DEF Moves, MoveProject
    <3>5. CASE ForceMoveProject
      BY <3>2, <3>5 DEF ForceMoveProject
    <3>6. CASE InvitationExpires \/ UNCHANGED vars
      BY <2>1, <3>6 DEF InvitationExpires, vars
    <3>7. CASE Backfill
      BY <3>7 DEF Backfill, BackfillInto
    <3>. QED
      BY <1>1, <3>4, <3>5, <3>6, <3>7 DEF Next
  <2>. QED
    BY <2>1
<1>. QED
  BY <1>1, InvHolds, PTL DEF Spec, PrefixDecides

=============================================================================
