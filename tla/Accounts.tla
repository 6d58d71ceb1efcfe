------------------------------ MODULE Accounts ------------------------------
(***************************************************************************)
(* The accounts of a hosted backend: users, roles and the links between    *)
(* them in the meta store, as the onboarding route, the admin routes and   *)
(* the seeding at startup change them.                                     *)
(*                                                                         *)
(* Each step is at most one statement that writes.  With the SQLite meta   *)
(* store every statement is synchronous, so a handler runs to its end      *)
(* before another one starts; with MySQL each statement is awaited and     *)
(* handlers interleave.  No handler uses a transaction, so a statement     *)
(* that fails, or a crash, leaves the earlier ones in effect.              *)
(*                                                                         *)
(* Permissions are reduced to what assertAdminUserRemains asks of them:    *)
(* whether they grant admin access.                                        *)
(***************************************************************************)
EXTENDS Naturals, FiniteSets

CONSTANTS
  Ids,        \* ids of users; each is given out at most once
  Roles,      \* ids of roles; each is given out at most once
  Emails,     \* lower-case addresses
  Requests,   \* request handlers
  Servers,    \* the servers that are looked at: see below
  None,       \* no such row, yet or any more; no value
  Gone,       \* the row was deleted
  Keep        \* a field the request leaves alone

(* A server: the driver of its meta store, STARQUERY_SEED_ADMIN_EMAIL or   *)
(* None, how many requests it serves at once, the fields that requests     *)
(* patch in PUT /api/admin/users, and what may happen beyond the ordinary: *)
(* "roleEdits": PUT /api/admin/roles takes away what a role grants.        *)
(* "staleRoles": a request may name a role that was deleted.               *)
(* "crashes": the process may stop between two statements of a handler.    *)

UserRows == [email : Emails, enabled : BOOLEAN, direct : BOOLEAN]
RoleRows == [slug : {"admin", "other"}, grants : BOOLEAN]

ASSUME AccountsAssumption ==
  /\ {None, Gone} \cap (Emails \cup UserRows \cup RoleRows) = {}
  /\ Keep \notin Emails \cup BOOLEAN /\ \A R \in SUBSET Roles : Keep # R
  /\ Servers \subseteq [driver : {"sqlite", "mysql"}, seedEmail : Emails \cup {None}, clients : Nat,
                        fields : SUBSET {"email", "enabled", "direct", "roles"},
                        features : SUBSET {"roleEdits", "staleRoles", "crashes"}]

VARIABLES
  server, \* the server a behaviour is about
  users,  \* table users
  roles,  \* table roles
  links,  \* table user_roles
  req,    \* where each handler is
  boot    \* where the startup is

vars == <<server, users, roles, links, req, boot>>

Driver == server.driver
SeedEmail == server.seedEmail
Features == server.features

LiveUsers == {i \in Ids : users[i] \in UserRows}
LiveRoles == {x \in Roles : roles[x] \in RoleRows}
RolesOf(i) == {x \in Roles : <<i, x>> \in links}
AdminRole == {x \in LiveRoles : roles[x].slug = "admin"}
WithEmail(m) == {i \in LiveUsers : users[i].email = m}

\* userHasAdminAccess of an enabled user with the given row and roles.
IsAdmin(row, granted) == row.enabled /\ (row.direct \/ \E x \in granted : roles[x].grants)
Admins == {i \in LiveUsers : IsAdmin(users[i], RolesOf(i))}

Idle == [at |-> "idle"]
Quiet == \A r \in Requests : req[r] = Idle

Patch(f, S) == (IF f \in server.fields THEN S ELSE {}) \cup {Keep}
Patches == [email : Patch("email", Emails), enabled : Patch("enabled", BOOLEAN),
            direct : Patch("direct", BOOLEAN), roles : Patch("roles", SUBSET Roles)]
Merge(row, p) == [email   |-> IF p.email = Keep THEN row.email ELSE p.email,
                  enabled |-> IF p.enabled = Keep THEN row.enabled ELSE p.enabled,
                  direct  |-> IF p.direct = Keep THEN row.direct ELSE p.direct]

RequestStates ==
  {Idle}
    \cup [at : {"insert"}, onboard : BOOLEAN, id : Ids, row : UserRows, roles : SUBSET Roles]
    \cup [at : {"findRole"}, id : Ids]
    \cup [at : {"read"}, id : Ids, patch : Patches]
    \cup [at : {"write"}, id : Ids, row : UserRows, patch : Patches]
    \cup [at : {"unlink", "link"}, id : Ids, roles : SUBSET Roles]
    \cup [at : {"deleteUser"}, id : Ids]
    \cup [at : {"deleteRole"}, role : Roles]
    \cup [at : {"writeRole"}, role : Roles, row : RoleRows]

BootStates ==
  [at : {"down", "seed", "up"}] \cup [at : {"unlink", "link"}, id : Ids, roles : SUBSET Roles]

\* A role link joins a user and a role that exist: deleting either takes the
\* links along, whatever setUserRoleIds is in the middle of and wherever the
\* process stops.
LinksAreLive == links \subseteq LiveUsers \X LiveRoles

TypeOK ==
  /\ server \in Servers
  /\ users \in [Ids -> UserRows \cup {None, Gone}]
  /\ roles \in [Roles -> RoleRows \cup {None, Gone}]
  /\ req \in [Requests -> RequestStates]
  /\ boot \in BootStates
  /\ LinksAreLive

Init ==
  /\ server \in Servers
  /\ users = [i \in Ids |-> None]
  /\ roles = [x \in Roles |-> None]
  /\ links = {}
  /\ req = [r \in Requests |-> Idle]
  /\ boot = [at |-> "down"]

-----------------------------------------------------------------------------
(* The handlers.                                                           *)

\* SQLite lets no other handler run while one has statements left.
Turn(r) ==
  /\ boot.at = "up"
  /\ Driver = "sqlite" => \A s \in Requests \ {r} : req[s] = Idle

Goto(r, state) == req' = [req EXCEPT ![r] = state]
Busy == {s \in Requests : req[s] # Idle}
Starts(r) == Turn(r) /\ req[r] = Idle /\ Cardinality(Busy) < server.clients
At(r, step) == Turn(r) /\ req[r].at = step

\* An admin route answers only those whom attachAuth found to be admins.
StartsAdmin(r) == Starts(r) /\ Admins # {}

\* An id that no row has and no handler is about to insert.
Unused(i) == users[i] = None /\ \A s \in Requests : req[s].at = "insert" => req[s].id # i

\* The role ids a client may send: those it loaded earlier.
Sendable == IF "staleRoles" \in Features THEN {x \in Roles : roles[x] # None} ELSE LiveRoles

\* POST /api/auth/onboard, up to its first write: countUsers() is zero.
OnboardingRequired == LiveUsers = {}

Onboard(r, i, m) ==
  /\ Starts(r)
  /\ OnboardingRequired
  /\ Unused(i)
  /\ Goto(r, [at |-> "insert", onboard |-> TRUE, id |-> i, roles |-> {},
              row |-> [email |-> m, enabled |-> TRUE, direct |-> FALSE]])
  /\ UNCHANGED <<users, roles, links, boot>>

\* POST /api/admin/users.
CreateUser(r, i, m, direct, R) ==
  /\ StartsAdmin(r)
  /\ Unused(i) /\ R \subseteq Sendable
  /\ Goto(r, [at |-> "insert", onboard |-> FALSE, id |-> i, roles |-> R,
              row |-> [email |-> m, enabled |-> TRUE, direct |-> direct]])
  /\ UNCHANGED <<users, roles, links, boot>>

\* createUser: email is unique.
Insert(r) ==
  /\ At(r, "insert")
  /\ LET q == req[r]
     IN  IF WithEmail(q.row.email) # {}
         THEN Goto(r, Idle) /\ UNCHANGED users
         ELSE /\ users' = [users EXCEPT ![q.id] = q.row]
              /\ Goto(r, IF q.onboard THEN [at |-> "findRole", id |-> q.id]
                         ELSE [at |-> "unlink", id |-> q.id, roles |-> q.roles])
  /\ UNCHANGED <<roles, links, boot>>

\* The onboarding route looks the admin role up, and can do without it.
FindRole(r) ==
  /\ At(r, "findRole")
  /\ Goto(r, IF AdminRole = {} THEN Idle
             ELSE [at |-> "unlink", id |-> req[r].id, roles |-> AdminRole])
  /\ UNCHANGED <<users, roles, links, boot>>

\* PUT /api/admin/users/:userId, up to assertAdminUserRemains over the users
\* as they would be.
AdminLeft_Unchecked(row, i, granted) == TRUE
AdminLeft(row, i, granted) == IsAdmin(row, granted) \/ Admins \ {i} # {}

PutUser(r, i, p) ==
  /\ StartsAdmin(r)
  /\ i \in LiveUsers
  /\ p.roles # Keep => p.roles \subseteq Sendable
  /\ \/ p.roles = Keep /\ p.direct = Keep /\ p.enabled = Keep
     \/ AdminLeft(Merge(users[i], p), i, IF p.roles = Keep THEN RolesOf(i) ELSE p.roles \cap LiveRoles)
  /\ Goto(r, [at |-> "read", id |-> i, patch |-> p])
  /\ UNCHANGED <<users, roles, links, boot>>

\* updateUser reads the whole row...
Read(r) ==
  /\ At(r, "read")
  /\ LET i == req[r].id
     IN  Goto(r, IF i \in LiveUsers
                 THEN [at |-> "write", id |-> i, row |-> users[i], patch |-> req[r].patch]
                 ELSE Idle)
  /\ UNCHANGED <<users, roles, links, boot>>

\* ...and writes the whole row.
Kept_Enabled(row, p) == [Merge(row, p) EXCEPT !.enabled = p.enabled # FALSE]
Kept(row, p) == Merge(row, p)

Write(r) ==
  /\ At(r, "write")
  /\ LET q == req[r]
         row == Kept(q.row, q.patch)
         live == q.id \in LiveUsers
     IN  IF live /\ WithEmail(row.email) \ {q.id} # {}
         THEN Goto(r, Idle) /\ UNCHANGED users
         ELSE /\ users' = IF live THEN [users EXCEPT ![q.id] = row] ELSE users
              /\ Goto(r, IF q.patch.roles = Keep THEN Idle
                         ELSE [at |-> "unlink", id |-> q.id, roles |-> q.patch.roles])
  /\ UNCHANGED <<roles, links, boot>>

\* setUserRoleIds deletes the user's links, then inserts the new ones in one
\* statement, which fails if it names a user or a role that does not exist.
Unlinked(i) == {l \in links : l[1] # i}
Linked(i, R) == links \cup ({i} \X R)
CanLink(i, R) == i \in LiveUsers /\ R \subseteq LiveRoles /\ RolesOf(i) \cap R = {}

Unlink(r) ==
  /\ At(r, "unlink")
  /\ links' = Unlinked(req[r].id)
  /\ Goto(r, IF req[r].roles = {} THEN Idle ELSE [req[r] EXCEPT !.at = "link"])
  /\ UNCHANGED <<users, roles, boot>>

Link(r) ==
  /\ At(r, "link")
  /\ links' = IF CanLink(req[r].id, req[r].roles) THEN Linked(req[r].id, req[r].roles) ELSE links
  /\ Goto(r, Idle)
  /\ UNCHANGED <<users, roles, boot>>

\* DELETE /api/admin/users/:userId and DELETE /api/admin/roles/:roleId: the
\* check, then the statement, whose foreign keys cascade to the links.
DeleteUser(r, i) ==
  /\ StartsAdmin(r)
  /\ i \in LiveUsers /\ Admins \ {i} # {}
  /\ Goto(r, [at |-> "deleteUser", id |-> i])
  /\ UNCHANGED <<users, roles, links, boot>>

DeleteUserRow(r) ==
  /\ At(r, "deleteUser")
  /\ users' = [users EXCEPT ![req[r].id] = Gone]
  /\ links' = Unlinked(req[r].id)
  /\ Goto(r, Idle)
  /\ UNCHANGED <<roles, boot>>

RoleNeeded(x) == {i \in LiveUsers : IsAdmin(users[i], RolesOf(i) \ {x})} = {}

DeleteRole(r, x) ==
  /\ StartsAdmin(r)
  /\ x \in LiveRoles /\ ~RoleNeeded(x)
  /\ Goto(r, [at |-> "deleteRole", role |-> x])
  /\ UNCHANGED <<users, roles, links, boot>>

WithoutRole_Dangling(x) == links
WithoutRole(x) == {l \in links : l[2] # x}

DeleteRoleRow(r) ==
  /\ At(r, "deleteRole")
  /\ roles' = [roles EXCEPT ![req[r].role] = Gone]
  /\ links' = WithoutRole(req[r].role)
  /\ Goto(r, Idle)
  /\ UNCHANGED <<users, boot>>

\* POST /api/admin/roles.  (Only the slug `admin' matters to anyone.)
CreateRole(r, x, grants) ==
  /\ StartsAdmin(r)
  /\ roles[x] = None
  /\ roles' = [roles EXCEPT ![x] = [slug |-> "other", grants |-> grants]]
  /\ UNCHANGED <<users, links, req, boot>>

\* PUT /api/admin/roles/:roleId: the route makes no check.
PutRole(r, x, row) ==
  /\ StartsAdmin(r)
  /\ x \in LiveRoles
  /\ \/ "roleEdits" \in Features
     \/ row.slug = roles[x].slug /\ (roles[x].grants => row.grants)
  /\ Goto(r, [at |-> "writeRole", role |-> x, row |-> row])
  /\ UNCHANGED <<users, roles, links, boot>>

WriteRole(r) ==
  /\ At(r, "writeRole")
  /\ LET q == req[r]
         clash == q.row.slug = "admin" /\ AdminRole \ {q.role} # {}
     IN  roles' = IF q.role \in LiveRoles /\ ~clash
                  THEN [roles EXCEPT ![q.role] = q.row] ELSE roles
  /\ Goto(r, Idle)
  /\ UNCHANGED <<users, links, boot>>

-----------------------------------------------------------------------------
(* Startup: ensureAdminRole, then ensureSeedAdminUser.                     *)

EnsureAdminRole(x) ==
  /\ boot.at = "down"
  /\ IF AdminRole # {}
     THEN UNCHANGED roles
     ELSE /\ roles[x] = None
          /\ roles' = [roles EXCEPT ![x] = [slug |-> "admin", grants |-> TRUE]]
  /\ boot' = [at |-> IF SeedEmail = None THEN "up" ELSE "seed"]
  /\ UNCHANGED <<users, links, req>>

\* The seed user is created, or enabled again.
SeedRoles_Only(i) == RolesOf(i)
SeedRoles(i) == RolesOf(i) \cup AdminRole

SeedUser(i) ==
  /\ boot.at = "seed"
  /\ IF WithEmail(SeedEmail) = {}
     THEN /\ users[i] = None
          /\ users' = [users EXCEPT ![i] = [email |-> SeedEmail, enabled |-> TRUE, direct |-> FALSE]]
     ELSE /\ i \in WithEmail(SeedEmail)
          /\ users' = [users EXCEPT ![i].enabled = TRUE]
  /\ boot' = [at |-> "unlink", id |-> i, roles |-> SeedRoles(i)]
  /\ UNCHANGED <<roles, links, req>>

SeedUnlink ==
  /\ boot.at = "unlink"
  /\ links' = Unlinked(boot.id)
  /\ boot' = [boot EXCEPT !.at = "link"]
  /\ UNCHANGED <<users, roles, req>>

SeedLink ==
  /\ boot.at = "link"
  /\ links' = Linked(boot.id, boot.roles)
  /\ boot' = [at |-> "up"]
  /\ UNCHANGED <<users, roles, req>>

\* The process ends: in good order, or anywhere.
Stop ==
  /\ IF "crashes" \in Features THEN boot.at # "down" ELSE boot.at = "up" /\ Quiet
  /\ boot' = [at |-> "down"]
  /\ req' = [r \in Requests |-> Idle]
  /\ UNCHANGED <<users, roles, links>>

-----------------------------------------------------------------------------
RequestNext(r) ==
  \/ \E i \in Ids, m \in Emails : Onboard(r, i, m)
  \/ \E i \in Ids, m \in Emails, direct \in BOOLEAN, R \in SUBSET Roles : CreateUser(r, i, m, direct, R)
  \/ \E i \in Ids, p \in Patches : PutUser(r, i, p)
  \/ \E i \in Ids : DeleteUser(r, i)
  \/ \E x \in Roles : DeleteRole(r, x)
  \/ \E x \in Roles, grants \in BOOLEAN : CreateRole(r, x, grants)
  \/ \E x \in Roles, row \in RoleRows : PutRole(r, x, row)
  \/ Insert(r) \/ FindRole(r) \/ Read(r) \/ Write(r) \/ Unlink(r) \/ Link(r)
  \/ DeleteUserRow(r) \/ DeleteRoleRow(r) \/ WriteRole(r)

BootNext ==
  \/ \E x \in Roles : EnsureAdminRole(x)
  \/ \E i \in Ids : SeedUser(i)
  \/ SeedUnlink \/ SeedLink \/ Stop

Next == UNCHANGED server /\ (BootNext \/ \E r \in Requests : RequestNext(r))

Spec == Init /\ [][Next]_vars

-----------------------------------------------------------------------------
(* Properties.                                                             *)

\* What the checks of the routes promise: with SQLite, whose handlers do not
\* interleave, with orderly stops, and with roles that exist.
IsOrderly == Driver = "sqlite" /\ Features \subseteq {"roleEdits"}

\* `At least one enabled admin user must remain': on an orderly server, between
\* requests, once there are users, one of them is an enabled admin.
AdminRemains == IsOrderly /\ boot.at = "up" /\ Quiet /\ LiveUsers # {} => Admins # {}

\* On an orderly server a change of accounts is what was asked for: onboarding
\* inserts the first account only, although its check was an earlier statement,
\* and a disabled account is enabled again only by a request that says so or by
\* the seeding at startup, never as a side effect of another patch.
OnboardedFirst ==
  \A r \in Requests : req[r].at = "insert" /\ users' # users => (req[r].onboard => LiveUsers = {})
DisabledStaysDisabled ==
  \A i \in LiveUsers :
    ~users[i].enabled /\ users'[i] # Gone /\ users'[i].enabled =>
      \/ boot.at = "seed"
      \/ \E r \in Requests : req[r].at = "write" /\ req[r].id = i /\ req[r].patch.enabled = TRUE
AccountsChangeAsAsked == [][IsOrderly => OnboardedFirst /\ DisabledStaysDisabled]_vars

\* When the startup is over, the seed admin is an enabled admin, whatever was
\* done to the account and wherever an earlier process was interrupted.
SeedAdminAfterStart ==
  [][boot.at # "up" /\ boot'.at = "up" /\ SeedEmail # None =>
       (\E i \in Admins : users[i].email = SeedEmail)']_vars
=============================================================================
