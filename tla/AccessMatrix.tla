----------------------------- MODULE AccessMatrix -----------------------------
(***************************************************************************)
(* Who may do what: the catalogue of roles and permissions that bootstrap  *)
(* writes, and the roles and exceptions of each person, which bootstrap    *)
(* seeds into an unused database and the administration panel edits        *)
(* afterwards.  A panel request is checked by the guard, and executed some *)
(* time later by a Serializable transaction that locks the ADMIN role and  *)
(* the person; a bootstrap is one Serializable transaction.                *)
(***************************************************************************)
EXTENDS FiniteSets, Integers

CONSTANTS
  Person, Role, Permission,
  Grants,      \* Grants[v]: pairs <<role, permission>> of manifest version v
  SeedRoles,   \* pairs <<user, role>> of the manifest
  SeedGrants,  \* pairs <<user, permission>> granted directly by the manifest
  Restricted,  \* permissions only the holder of ADMIN may be granted
  PanelAccess, \* what the holder of ADMIN must not be denied
  MaxRequests  \* panel requests

\* The manifest: one administrator, whose role alone has what is restricted and
\* in every version has what the panel needs.
ASSUME ManifestAssumption ==
  /\ "ADMIN" \in Role
  /\ DOMAIN Grants \subseteq Nat \ {0}
  /\ \E admin \in Person : \A u \in Person :
       /\ <<u, "ADMIN">> \in SeedRoles <=> u = admin
       /\ \A p \in Restricted : <<u, p>> \in SeedGrants => u = admin
  /\ \A v \in DOMAIN Grants :
       /\ \A p \in PanelAccess : <<"ADMIN", p>> \in Grants[v]
       /\ \A r \in Role, p \in Restricted : <<r, p>> \in Grants[v] => r = "ADMIN"

ASSUME PermissionsAssumption ==
  PanelAccess \subseteq Permission /\ Restricted \subseteq Permission

RolesRequest == [kind : {"roles"}, user : Person, want : SUBSET Role]

Exception == {"GRANT", "DENY", "none"}

RulesRequest == [kind : {"rules"}, user : Person, want : [Permission -> Exception]]

VARIABLES
  version, \* version of the manifest in the database, 0 before the first
  inUse,   \* a credential or a session exists
  roles,   \* roles[u]: active roles
  rule,    \* rule[u][p]: the active exception: "GRANT", "DENY" or "none"
  pending, \* panel requests past the guard
  asked

matrix == <<version, inUse, roles, rule, pending, asked>>

Catalogue == IF version = 0 THEN {} ELSE Grants[version]

\* A direct denial wins over everything, a direct grant needs no role.
Allowed(u, p) ==
  /\ rule[u][p] # "DENY"
  /\ \/ rule[u][p] = "GRANT"
     \/ \E r \in roles[u]: <<r, p>> \in Catalogue

Administrators == {u \in Person : "ADMIN" \in roles[u]}

-----------------------------------------------------------------------------
(* Bootstrap.                                                              *)

\* A bug: people are seeded again whenever bootstrap runs.
SeedsAlways == TRUE

\* People are seeded only while nobody uses the database.
Seeds == ~inUse

Expected(u) == {r \in Role : <<u, r>> \in SeedRoles}
ExpectedRule(u) ==
  [p \in Permission |-> IF <<u, p>> \in SeedGrants THEN "GRANT" ELSE "none"]

\* A database in use must be one the panel can produce.
Sound ==
  /\ Cardinality(Administrators) = 1
  /\ \A u \in Person, p \in Restricted:
       rule[u][p] = "GRANT" => u \in Administrators

\* A grant that is not in the manifest refuses the run.
NothingUnexpected(v) == Catalogue \subseteq Grants[v]

\* So does an assignment; what is missing is created.  (Nothing can have been
\* revoked before the first session.)
SeedPeople ==
  /\ \A u \in Person:
       /\ roles[u] \subseteq Expected(u)
       /\ \A p \in Permission: rule[u][p] \in {"none", ExpectedRule(u)[p]}
  /\ roles' = [u \in Person |-> Expected(u)]
  /\ rule' = [u \in Person |-> ExpectedRule(u)]

Bootstrap(v) ==
  /\ NothingUnexpected(v)
  /\ inUse => Sound
  /\ version' = v
  /\ IF Seeds THEN SeedPeople ELSE UNCHANGED <<roles, rule>>
  /\ UNCHANGED <<inUse, pending, asked>>

\* The administrator's invitation is accepted.
FirstCredential ==
  /\ version > 0 /\ ~inUse
  /\ inUse' = TRUE
  /\ UNCHANGED <<version, roles, rule, pending, asked>>

-----------------------------------------------------------------------------
(* The panel.                                                              *)

\* The guard: someone with a session may manage roles now.
Ask(q) ==
  /\ inUse /\ asked < MaxRequests
  /\ \E actor \in Person: Allowed(actor, "users.roles.manage")
  /\ asked' = asked + 1
  /\ pending' = pending \cup {q}
  /\ UNCHANGED <<version, inUse, roles, rule>>

\* The panel neither assigns the role ADMIN nor removes it.
Editable(u, want) == ("ADMIN" \in roles[u]) = ("ADMIN" \in want)

ReplaceRoles(q) ==
  /\ q \in pending /\ q.kind = "roles"
  /\ pending' = pending \ {q}
  /\ IF Editable(q.user, q.want)
       THEN roles' = [roles EXCEPT ![q.user] = q.want]
       ELSE UNCHANGED roles
  /\ UNCHANGED <<version, inUse, rule, asked>>

Created(u, want) == {p \in Permission : want[p] \notin {"none", rule[u][p]}}

\* Only new exceptions are judged.
Permitted(u, want) ==
  \A p \in Created(u, want):
    /\ want[p] = "GRANT" /\ p \in Restricted => u \in Administrators
    /\ want[p] = "DENY" /\ p \in PanelAccess => u \notin Administrators

ReplaceOverrides(q) ==
  /\ q \in pending /\ q.kind = "rules"
  /\ pending' = pending \ {q}
  /\ rule' = IF Permitted(q.user, q.want)
               THEN [rule EXCEPT ![q.user] = q.want] ELSE rule
  /\ UNCHANGED <<version, inUse, roles, asked>>

-----------------------------------------------------------------------------
AccessInit ==
  /\ version = 0 /\ inUse = FALSE
  /\ roles = [u \in Person |-> {}]
  /\ rule = [u \in Person |-> [p \in Permission |-> "none"]]
  /\ pending = {} /\ asked = 0

AccessNext ==
  \/ \E v \in DOMAIN Grants: Bootstrap(v)
  \/ FirstCredential
  \/ \E q \in RolesRequest \cup RulesRequest: Ask(q)
  \/ \E q \in pending: ReplaceRoles(q) \/ ReplaceOverrides(q)

AccessSpec == AccessInit /\ [][AccessNext]_matrix

-----------------------------------------------------------------------------
(* Properties.                                                             *)

\* Whatever the panel is asked and however its requests and the bootstraps of
\* successive manifests interleave, there is one administrator, who can reach
\* the panel, and nobody else can do what is reserved to administrators, be it
\* by a role or by an exception.
PanelNeverSplitsAdmin ==
  version > 0 =>
    \E admin \in Person:
      /\ Administrators = {admin}
      /\ \A p \in PanelAccess: Allowed(admin, p)
      /\ \A u \in Person \ {admin}, p \in Restricted: ~Allowed(u, p)

\* Once the database is in use a role or an exception appears only because a
\* panel request names it: bootstrap brings back nothing the panel removed.
PanelOwnsPeople ==
  [][inUse => \A u \in Person:
       /\ \A r \in roles'[u] \ roles[u]:
            \E q \in pending: q.kind = "roles" /\ q.user = u /\ r \in q.want
       /\ \A p \in Permission: rule'[u][p] # rule[u][p] =>
            \E q \in pending: q.kind = "rules" /\ q.user = u
                                /\ q.want[p] = rule'[u][p]]_matrix

\* One administrator, and nobody else with its powers; and bootstrap brings
\* back nothing the panel removed.
PanelHoldsAccess == []PanelNeverSplitsAdmin /\ PanelOwnsPeople
=============================================================================
