---------------------------- MODULE AccountsProofs -----------------------------
(***************************************************************************)
(* The accounts of a hosted backend, for any sets of ids, addresses,       *)
(* handlers and servers: links join users and roles that exist, and, as    *)
(* long as no request changes what a role grants, a start makes the seed   *)
(* admin an admin and an orderly SQLite server is never left without one.  *)
(***************************************************************************)
EXTENDS Accounts, TLAPS

-----------------------------------------------------------------------------
(* The states of a handler.                                                *)

\* What a handler at each step remembers.
LEMMA HandlerShapes ==
  ASSUME NEW q \in RequestStates
  PROVE  /\ q.at = "insert" => q \in [at : {"insert"}, onboard : BOOLEAN, id : Ids, row : UserRows, roles : SUBSET Roles]
         /\ q.at = "findRole" => q \in [at : {"findRole"}, id : Ids]
         /\ q.at = "read" => q \in [at : {"read"}, id : Ids, patch : Patches]
         /\ q.at = "write" => q \in [at : {"write"}, id : Ids, row : UserRows, patch : Patches]
         /\ q.at \in {"unlink", "link"} => q \in [at : {"unlink", "link"}, id : Ids, roles : SUBSET Roles]
         /\ q.at = "deleteUser" => q \in [at : {"deleteUser"}, id : Ids]
         /\ q.at = "deleteRole" => q \in [at : {"deleteRole"}, role : Roles]
         /\ q.at = "writeRole" => q \in [at : {"writeRole"}, role : Roles, row : RoleRows]
BY DEF RequestStates, Idle

\* The states a handler can go to.
LEMMA HandlerStates ==
  ASSUME NEW i \in Ids, NEW R \in SUBSET Roles, NEW x \in Roles, NEW row \in UserRows,
         NEW roleRow \in RoleRows, NEW p \in Patches, NEW onboard \in BOOLEAN
  PROVE  /\ Idle \in RequestStates
         /\ [at |-> "insert", onboard |-> onboard, id |-> i, roles |-> R, row |-> row] \in RequestStates
         /\ [at |-> "findRole", id |-> i] \in RequestStates
         /\ [at |-> "read", id |-> i, patch |-> p] \in RequestStates
         /\ [at |-> "write", id |-> i, row |-> row, patch |-> p] \in RequestStates
         /\ [at |-> "unlink", id |-> i, roles |-> R] \in RequestStates
         /\ [at |-> "link", id |-> i, roles |-> R] \in RequestStates
         /\ [at |-> "deleteUser", id |-> i] \in RequestStates
         /\ [at |-> "deleteRole", role |-> x] \in RequestStates
         /\ [at |-> "writeRole", role |-> x, row |-> roleRow] \in RequestStates
BY DEF RequestStates

\* A patched row is a row.
LEMMA MergedRow ==
  ASSUME NEW row \in UserRows, NEW p \in Patches
  PROVE  Merge(row, p) \in UserRows
<1>1. p.email \in Emails \cup {Keep} /\ p.enabled \in BOOLEAN \cup {Keep} /\ p.direct \in BOOLEAN \cup {Keep}
  BY DEF Patches, Patch
<1> QED
  BY <1>1 DEF Merge, UserRows

-----------------------------------------------------------------------------
(* Types, and what the startup has in hand.                                *)

\* The seeding has an address, and the account and the roles that it is about
\* to link exist.
BootIsLive ==
  /\ boot.at \in {"seed", "unlink", "link"} => SeedEmail # None
  /\ boot.at \in {"unlink", "link"} => boot.id \in LiveUsers /\ boot.roles \subseteq LiveRoles

\* No handler runs before the startup is over.
Undisturbed == boot.at # "up" => Quiet

TypedState == TypeOK /\ BootIsLive /\ Undisturbed

\* The store starts empty.
LEMMA InitTyped == Init => TypedState
BY DEF Init, TypedState, TypeOK, LinksAreLive, BootIsLive, Undisturbed, Quiet, RequestStates, Idle, BootStates

\* A server does not change what its requests patch.
LEMMA StatesStay == ASSUME UNCHANGED server PROVE RequestStates' = RequestStates
BY DEF RequestStates, Patches, Patch, Idle

\* A handler that goes from one state to another, and no more.
LEMMA GotoTyped ==
  ASSUME TypedState, UNCHANGED <<server, boot>>, NEW r \in Requests, boot.at = "up",
         NEW q \in RequestStates, Goto(r, q)
  PROVE  (req \in [Requests -> RequestStates])' /\ Undisturbed'
BY StatesStay DEF TypedState, TypeOK, Goto, Undisturbed

\* A handler's step keeps the types if what it writes has them.
LEMMA HandlerTyped ==
  ASSUME TypedState, UNCHANGED <<server, boot>>, NEW r \in Requests, boot.at = "up",
         NEW q \in RequestStates, Goto(r, q),
         users' \in [Ids -> UserRows \cup {None, Gone}], roles' \in [Roles -> RoleRows \cup {None, Gone}],
         LinksAreLive'
  PROVE  TypedState'
<1>1. (req \in [Requests -> RequestStates])' /\ Undisturbed'
  BY GotoTyped
<1>2. BootIsLive'
  BY DEF TypedState, BootIsLive
<1>3. TypeOK'
  BY <1>1 DEF TypedState, TypeOK
<1> QED
  BY <1>1, <1>2, <1>3 DEF TypedState

\* Links stay alive as long as no user and no role goes.
LEMMA LinksStay ==
  ASSUME LinksAreLive, links' \subseteq links, LiveUsers \subseteq LiveUsers', LiveRoles \subseteq LiveRoles'
  PROVE  LinksAreLive'
BY DEF LinksAreLive

\* A handler's first step, and a look at the store, change no table.
LEMMA ReadingTyped ==
  ASSUME TypedState, UNCHANGED <<server, boot, users, roles, links>>, NEW r \in Requests,
         boot.at = "up", NEW q \in RequestStates, Goto(r, q)
  PROVE  TypedState'
<1>1. LiveUsers' = LiveUsers /\ LiveRoles' = LiveRoles
  BY DEF LiveUsers, LiveRoles
<1>2. LinksAreLive'
  BY <1>1 DEF TypedState, TypeOK, LinksAreLive
<1>3. /\ users' \in [Ids -> UserRows \cup {None, Gone}]
      /\ roles' \in [Roles -> RoleRows \cup {None, Gone}]
  BY DEF TypedState, TypeOK
<1> QED
  BY <1>2, <1>3, HandlerTyped

\* The requests' first steps keep the types.
LEMMA StartTyped ==
  ASSUME TypedState, UNCHANGED server, NEW r \in Requests,
         \/ \E i \in Ids, m \in Emails : Onboard(r, i, m)
         \/ \E i \in Ids, m \in Emails, direct \in BOOLEAN, R \in SUBSET Roles : CreateUser(r, i, m, direct, R)
         \/ \E i \in Ids, p \in Patches : PutUser(r, i, p)
         \/ \E i \in Ids : DeleteUser(r, i)
         \/ \E x \in Roles : DeleteRole(r, x)
         \/ \E x \in Roles, row \in RoleRows : PutRole(r, x, row)
         \/ FindRole(r) \/ Read(r)
  PROVE  TypedState'
<1> USE DEF Starts, StartsAdmin, Turn, At
<1>1. ASSUME NEW i \in Ids, NEW m \in Emails, Onboard(r, i, m) PROVE TypedState'
  <2>1. [email |-> m, enabled |-> TRUE, direct |-> FALSE] \in UserRows
    BY DEF UserRows
  <2> QED
    BY <1>1, <2>1, ReadingTyped DEF Onboard, RequestStates
<1>2. ASSUME NEW i \in Ids, NEW m \in Emails, NEW direct \in BOOLEAN, NEW R \in SUBSET Roles,
             CreateUser(r, i, m, direct, R)
      PROVE  TypedState'
  <2>1. [email |-> m, enabled |-> TRUE, direct |-> direct] \in UserRows
    BY DEF UserRows
  <2> QED
    BY <1>2, <2>1, ReadingTyped DEF CreateUser, RequestStates
<1>3. ASSUME NEW i \in Ids, NEW p \in Patches, PutUser(r, i, p) PROVE TypedState'
  BY <1>3, ReadingTyped DEF PutUser, RequestStates
<1>4. ASSUME NEW i \in Ids, DeleteUser(r, i) PROVE TypedState'
  BY <1>4, ReadingTyped DEF DeleteUser, RequestStates
<1>5. ASSUME NEW x \in Roles, DeleteRole(r, x) PROVE TypedState'
  BY <1>5, ReadingTyped DEF DeleteRole, RequestStates
<1>6. ASSUME NEW x \in Roles, NEW row \in RoleRows, PutRole(r, x, row) PROVE TypedState'
  BY <1>6, ReadingTyped DEF PutRole, RequestStates
<1>7. CASE FindRole(r)
  <2>1. req[r].id \in Ids /\ AdminRole \in SUBSET Roles
    BY <1>7, HandlerShapes DEF FindRole, AdminRole, LiveRoles, TypedState, TypeOK
  <2> QED
    BY <1>7, <2>1, ReadingTyped DEF FindRole, RequestStates
<1>8. CASE Read(r)
  <2>1. req[r].id \in Ids /\ req[r].patch \in Patches
    BY <1>8, HandlerShapes DEF Read, TypedState, TypeOK
  <2>2. req[r].id \in LiveUsers => users[req[r].id] \in UserRows
    BY DEF LiveUsers
  <2> QED
    BY <1>8, <2>1, <2>2, ReadingTyped DEF Read, RequestStates
<1> QED
  BY <1>1, <1>2, <1>3, <1>4, <1>5, <1>6, <1>7, <1>8

\* The writes of users keep the types.
LEMMA UserWriteTyped ==
  ASSUME TypedState, UNCHANGED server, NEW r \in Requests, Insert(r) \/ Write(r)
  PROVE  TypedState'
<1> DEFINE q == req[r]
<1>1. q \in RequestStates /\ boot.at = "up" /\ UNCHANGED <<roles, links, boot>>
  BY DEF TypedState, TypeOK, Insert, Write, At, Turn
<1>2. LiveRoles' = LiveRoles /\ roles' \in [Roles -> RoleRows \cup {None, Gone}]
  BY <1>1 DEF LiveRoles, TypedState, TypeOK
<1>3. CASE Insert(r)
  <2>1. q \in [at : {"insert"}, onboard : BOOLEAN, id : Ids, row : UserRows, roles : SUBSET Roles]
    BY <1>1, <1>3, HandlerShapes DEF Insert, At
  <2>2. users' \in [Ids -> UserRows \cup {None, Gone}] /\ LiveUsers \subseteq LiveUsers'
    BY <1>3, <2>1 DEF Insert, LiveUsers, TypedState, TypeOK
  <2>3. LinksAreLive'
    BY <1>1, <1>2, <2>2, LinksStay DEF TypedState, TypeOK
  <2>4. PICK s \in RequestStates : Goto(r, s)
    BY <1>3, <2>1 DEF Insert, RequestStates
  <2> QED
    BY <1>1, <1>2, <2>2, <2>3, <2>4, HandlerTyped
<1>4. CASE Write(r)
  <2>1. q \in [at : {"write"}, id : Ids, row : UserRows, patch : Patches]
    BY <1>1, <1>4, HandlerShapes DEF Write, At
  <2>2. Kept(q.row, q.patch) \in UserRows
    BY <2>1, MergedRow DEF Kept
  <2>3. users' \in [Ids -> UserRows \cup {None, Gone}] /\ LiveUsers \subseteq LiveUsers'
    BY <1>4, <2>1, <2>2 DEF Write, LiveUsers, TypedState, TypeOK
  <2>4. LinksAreLive'
    BY <1>1, <1>2, <2>3, LinksStay DEF TypedState, TypeOK
  <2>5. q.patch.roles # Keep => q.patch.roles \in SUBSET Roles
    BY <2>1 DEF Patches, Patch
  <2>6. PICK s \in RequestStates : Goto(r, s)
    BY <1>4, <2>1, <2>5 DEF Write, RequestStates
  <2> QED
    BY <1>1, <1>2, <2>3, <2>4, <2>6, HandlerTyped
<1> QED
  BY <1>3, <1>4

\* The two statements of setUserRoleIds keep the types.
LEMMA LinkingTyped ==
  ASSUME TypedState, UNCHANGED server, NEW r \in Requests, Unlink(r) \/ Link(r)
  PROVE  TypedState'
<1> DEFINE q == req[r]
<1>1. q \in RequestStates /\ boot.at = "up" /\ UNCHANGED <<users, roles, boot>>
  BY DEF TypedState, TypeOK, Unlink, Link, At, Turn
<1>2. q \in [at : {"unlink", "link"}, id : Ids, roles : SUBSET Roles]
  BY <1>1, HandlerShapes DEF Unlink, Link, At
<1>3. LiveUsers' = LiveUsers /\ LiveRoles' = LiveRoles
  BY <1>1 DEF LiveUsers, LiveRoles
<1>4. LinksAreLive'
  <2>1. CASE Unlink(r)
    BY <1>3, <2>1, LinksStay DEF Unlink, Unlinked, TypedState, TypeOK
  <2>2. CASE Link(r)
    BY <1>3, <2>2 DEF Link, CanLink, Linked, LinksAreLive, TypedState, TypeOK
  <2> QED
    BY <2>1, <2>2
<1>5. PICK s \in RequestStates : Goto(r, s)
  BY <1>2 DEF Unlink, Link, RequestStates
<1> QED
  BY <1>1, <1>4, <1>5, HandlerTyped DEF TypedState, TypeOK

\* A deleted user takes its links along, and so does a role.
LEMMA DeletionTyped ==
  ASSUME TypedState, UNCHANGED server, NEW r \in Requests, DeleteUserRow(r) \/ DeleteRoleRow(r)
  PROVE  TypedState'
<1> DEFINE q == req[r]
<1>1. q \in RequestStates /\ boot.at = "up" /\ UNCHANGED boot /\ Goto(r, Idle) /\ Idle \in RequestStates
  BY DEF TypedState, TypeOK, DeleteUserRow, DeleteRoleRow, At, Turn, RequestStates
<1>2. CASE DeleteUserRow(r)
  <2>1. q.id \in Ids
    BY <1>1, <1>2, HandlerShapes DEF DeleteUserRow, At
  <2>2. LiveUsers \ {q.id} \subseteq LiveUsers' /\ LiveRoles' = LiveRoles
    BY <1>2, <2>1 DEF DeleteUserRow, LiveUsers, LiveRoles, TypedState, TypeOK
  <2>3. LinksAreLive'
    BY <1>2, <2>2 DEF DeleteUserRow, Unlinked, LinksAreLive, TypedState, TypeOK
  <2>4. /\ users' \in [Ids -> UserRows \cup {None, Gone}]
        /\ roles' \in [Roles -> RoleRows \cup {None, Gone}]
    BY <1>2 DEF DeleteUserRow, TypedState, TypeOK
  <2> QED
    BY <1>1, <2>3, <2>4, HandlerTyped
<1>3. CASE DeleteRoleRow(r)
  <2>1. q.role \in Roles
    BY <1>1, <1>3, HandlerShapes DEF DeleteRoleRow, At
  <2>2. LiveUsers' = LiveUsers /\ LiveRoles \ {q.role} \subseteq LiveRoles'
    BY <1>3, <2>1 DEF DeleteRoleRow, LiveUsers, LiveRoles, TypedState, TypeOK
  <2>3. LinksAreLive'
    BY <1>3, <2>2 DEF DeleteRoleRow, WithoutRole, LinksAreLive, TypedState, TypeOK
  <2>4. /\ users' \in [Ids -> UserRows \cup {None, Gone}]
        /\ roles' \in [Roles -> RoleRows \cup {None, Gone}]
    BY <1>3 DEF DeleteRoleRow, TypedState, TypeOK
  <2> QED
    BY <1>1, <2>3, <2>4, HandlerTyped
<1> QED
  BY <1>2, <1>3

\* The writes of roles keep the types.
LEMMA RoleWriteTyped ==
  ASSUME TypedState, UNCHANGED server, NEW r \in Requests,
         (\E x \in Roles, grants \in BOOLEAN : CreateRole(r, x, grants)) \/ WriteRole(r)
  PROVE  TypedState'
<1>1. boot.at = "up" /\ UNCHANGED <<users, links, boot>> /\ Idle \in RequestStates
  BY DEF CreateRole, StartsAdmin, Starts, WriteRole, At, Turn, RequestStates
<1>2. /\ roles' \in [Roles -> RoleRows \cup {None, Gone}]
      /\ LiveRoles \subseteq LiveRoles'
  <2>1. ASSUME NEW x \in Roles, NEW grants \in BOOLEAN, CreateRole(r, x, grants)
        PROVE  roles' \in [Roles -> RoleRows \cup {None, Gone}] /\ LiveRoles \subseteq LiveRoles'
    <3>1. [slug |-> "other", grants |-> grants] \in RoleRows
      BY DEF RoleRows
    <3> QED
      BY <2>1, <3>1 DEF CreateRole, LiveRoles, TypedState, TypeOK
  <2>2. CASE WriteRole(r)
    <3>1. req[r].row \in RoleRows
      BY <2>2, HandlerShapes DEF WriteRole, At, TypedState, TypeOK
    <3> QED
      BY <2>2, <3>1 DEF WriteRole, LiveRoles, TypedState, TypeOK
  <2> QED
    BY <2>1, <2>2
<1>3. LiveUsers' = LiveUsers /\ users' \in [Ids -> UserRows \cup {None, Gone}]
  BY <1>1 DEF LiveUsers, TypedState, TypeOK
<1>4. LinksAreLive'
  BY <1>1, <1>2, <1>3, LinksStay DEF TypedState, TypeOK
<1>5. PICK q \in RequestStates : Goto(r, q)
  <2>1. ASSUME NEW x \in Roles, NEW grants \in BOOLEAN, CreateRole(r, x, grants)
        PROVE  Goto(r, req[r]) /\ req[r] \in RequestStates
    BY <2>1 DEF CreateRole, Goto, TypedState, TypeOK
  <2> QED
    BY <1>1, <2>1 DEF WriteRole
<1> QED
  BY <1>1, <1>2, <1>3, <1>4, <1>5, HandlerTyped

\* The startup and the stop keep the types.
LEMMA BootTyped ==
  ASSUME TypedState, UNCHANGED server, BootNext
  PROVE  TypedState'
<1>1. RequestStates' = RequestStates
  BY StatesStay
<1>2. ASSUME NEW x \in Roles, EnsureAdminRole(x) PROVE TypedState'
  <2>1. [slug |-> "admin", grants |-> TRUE] \in RoleRows
    BY DEF RoleRows
  <2>2. roles' \in [Roles -> RoleRows \cup {None, Gone}] /\ LiveRoles \subseteq LiveRoles' /\ LiveUsers' = LiveUsers
    BY <1>2, <2>1 DEF EnsureAdminRole, LiveRoles, LiveUsers, TypedState, TypeOK
  <2>3. LinksAreLive'
    BY <1>2, <2>2, LinksStay DEF EnsureAdminRole, TypedState, TypeOK
  <2>4. boot' \in BootStates /\ BootIsLive' /\ Undisturbed'
    BY <1>2 DEF EnsureAdminRole, BootStates, BootIsLive, Undisturbed, Quiet, TypedState, SeedEmail
  <2>5. TypeOK'
    BY <1>1, <1>2, <2>2, <2>3, <2>4 DEF EnsureAdminRole, TypedState, TypeOK
  <2> QED
    BY <2>4, <2>5 DEF TypedState
<1>3. ASSUME NEW i \in Ids, SeedUser(i) PROVE TypedState'
  <2>1. SeedEmail \in Emails
    BY <1>3, AccountsAssumption DEF SeedUser, TypedState, TypeOK, BootIsLive, SeedEmail
  <2>2. [email |-> SeedEmail, enabled |-> TRUE, direct |-> FALSE] \in UserRows
    BY <2>1 DEF UserRows
  <2>3. i \in LiveUsers => [users[i] EXCEPT !.enabled = TRUE] \in UserRows
    BY DEF LiveUsers, UserRows
  <2>4. /\ users' \in [Ids -> UserRows \cup {None, Gone}]
        /\ LiveUsers \subseteq LiveUsers' /\ i \in LiveUsers' /\ LiveRoles' = LiveRoles
    BY <1>3, <2>2, <2>3 DEF SeedUser, WithEmail, LiveUsers, LiveRoles, TypedState, TypeOK
  <2>5. LinksAreLive'
    BY <1>3, <2>4, LinksStay DEF SeedUser, TypedState, TypeOK
  <2>6. SeedRoles(i) \subseteq LiveRoles
    BY DEF SeedRoles, RolesOf, AdminRole, LinksAreLive, TypedState, TypeOK
  <2>7. boot' \in BootStates /\ BootIsLive' /\ Undisturbed'
    BY <1>3, <2>4, <2>6 DEF SeedUser, BootStates, BootIsLive, Undisturbed, Quiet, TypedState, SeedEmail, LiveRoles
  <2>8. TypeOK'
    BY <1>1, <1>3, <2>4, <2>5, <2>7 DEF SeedUser, TypedState, TypeOK
  <2> QED
    BY <2>7, <2>8 DEF TypedState
<1>4. ASSUME SeedUnlink \/ SeedLink PROVE TypedState'
  <2>1. boot \in [at : {"unlink", "link"}, id : Ids, roles : SUBSET Roles]
    BY <1>4 DEF SeedUnlink, SeedLink, BootStates, TypedState, TypeOK
  <2>2. LiveUsers' = LiveUsers /\ LiveRoles' = LiveRoles
    BY <1>4 DEF SeedUnlink, SeedLink, LiveUsers, LiveRoles
  <2>3. LinksAreLive'
    BY <1>4, <2>2 DEF SeedUnlink, SeedLink, Unlinked, Linked, LinksAreLive, BootIsLive, TypedState, TypeOK
  <2>4. boot' \in BootStates /\ BootIsLive' /\ Undisturbed'
    BY <1>4, <2>1, <2>2 DEF SeedUnlink, SeedLink, BootStates, BootIsLive, Undisturbed, Quiet, TypedState, SeedEmail
  <2>5. TypeOK'
    BY <1>1, <1>4, <2>3, <2>4 DEF SeedUnlink, SeedLink, TypedState, TypeOK
  <2> QED
    BY <2>4, <2>5 DEF TypedState
<1>5. CASE Stop
  <2>1. boot' \in BootStates /\ BootIsLive' /\ Undisturbed'
    BY <1>5 DEF Stop, BootStates, BootIsLive, Undisturbed, Quiet
  <2>2. LinksAreLive'
    BY <1>5 DEF Stop, LinksAreLive, LiveUsers, LiveRoles, TypedState, TypeOK
  <2>3. (req \in [Requests -> RequestStates])'
    BY <1>1, <1>5 DEF Stop, RequestStates
  <2>4. TypeOK'
    BY <1>5, <2>1, <2>2, <2>3 DEF Stop, TypedState, TypeOK
  <2> QED
    BY <2>1, <2>4 DEF TypedState
<1> QED
  BY <1>2, <1>3, <1>4, <1>5 DEF BootNext

\* Every step keeps the types.
LEMMA NextTyped == TypedState /\ [Next]_vars => TypedState'
<1> SUFFICES ASSUME TypedState, [Next]_vars PROVE TypedState'
  OBVIOUS
<1>1. CASE UNCHANGED vars
  <2>1. TypeOK'
    BY <1>1, StatesStay DEF vars, TypedState, TypeOK, LinksAreLive, LiveUsers, LiveRoles
  <2>2. BootIsLive' /\ Undisturbed'
    BY <1>1 DEF vars, TypedState, BootIsLive, Undisturbed, Quiet, LiveUsers, LiveRoles, SeedEmail
  <2> QED
    BY <2>1, <2>2 DEF TypedState
<1>2. CASE UNCHANGED server /\ BootNext
  BY <1>2, BootTyped
<1>3. ASSUME UNCHANGED server, NEW r \in Requests, RequestNext(r) PROVE TypedState'
  BY <1>3, StartTyped, UserWriteTyped, LinkingTyped, DeletionTyped, RoleWriteTyped DEF RequestNext
<1> QED
  BY <1>1, <1>2, <1>3 DEF Next

\* Accounts.ts and the admin routes: whatever the requests, wherever the
\* process stops, the tables hold rows and every link joins two of them.
THEOREM AccountsTyped == Spec => []TypeOK
<1>1. TypedState => TypeOK
  BY DEF TypedState
<1> QED
  BY <1>1, InitTyped, NextTyped, PTL DEF Spec

-----------------------------------------------------------------------------
(* The seed admin.  A request may change what a role grants, and then      *)
(* neither this nor the rest holds: the theorems say that none does.       *)

NoRoleEdits == "roleEdits" \notin Features

\* Whoever has the admin role has admin access, also after the writes that
\* handlers have decided on.
AdminRoleGrants ==
  /\ \A x \in AdminRole : roles[x].grants
  /\ \A r \in Requests : req[r].at = "writeRole" /\ req[r].row.slug = "admin" => req[r].row.grants

\* The seeding finds an admin role, and then gives it to its enabled account.
SeedIsReady ==
  /\ boot.at = "seed" => AdminRole # {}
  /\ boot.at \in {"unlink", "link"} =>
       /\ users[boot.id].email = SeedEmail /\ users[boot.id].enabled
       /\ boot.roles \cap AdminRole # {}

SeededState == TypedState /\ (NoRoleEdits => AdminRoleGrants /\ SeedIsReady)

\* The store starts without roles.
LEMMA InitSeeded == Init => SeededState
<1>1. Init => AdminRoleGrants
  BY AccountsAssumption DEF Init, AdminRoleGrants, AdminRole, LiveRoles, Idle
<1>2. Init => SeedIsReady
  BY DEF Init, SeedIsReady
<1> QED
  BY <1>1, <1>2, InitTyped DEF SeededState

\* A handler writes at most one role: one that was not there, or one that
\* keeps its slug and grants no less.
LEMMA RequestKeepsGrants ==
  ASSUME TypedState, AdminRoleGrants, NoRoleEdits, UNCHANGED server, NEW r \in Requests, RequestNext(r)
  PROVE  AdminRoleGrants'
<1>1. ASSUME UNCHANGED roles, NEW q, Goto(r, q), q.at # "writeRole" PROVE AdminRoleGrants'
  BY <1>1 DEF AdminRoleGrants, AdminRole, LiveRoles, Goto, TypedState, TypeOK
<1>2. ASSUME NEW i \in Ids, NEW m \in Emails, Onboard(r, i, m) PROVE AdminRoleGrants'
  BY <1>1, <1>2 DEF Onboard
<1>3. ASSUME NEW i \in Ids, NEW m \in Emails, NEW direct \in BOOLEAN, NEW R \in SUBSET Roles,
             CreateUser(r, i, m, direct, R)
      PROVE  AdminRoleGrants'
  BY <1>1, <1>3 DEF CreateUser
<1>4. ASSUME NEW i \in Ids, NEW p \in Patches, PutUser(r, i, p) PROVE AdminRoleGrants'
  BY <1>1, <1>4 DEF PutUser
<1>5. ASSUME NEW i \in Ids, DeleteUser(r, i) PROVE AdminRoleGrants'
  BY <1>1, <1>5 DEF DeleteUser
<1>6. ASSUME NEW x \in Roles, DeleteRole(r, x) PROVE AdminRoleGrants'
  BY <1>1, <1>6 DEF DeleteRole
<1>7. ASSUME NEW x \in Roles, NEW grants \in BOOLEAN, CreateRole(r, x, grants) PROVE AdminRoleGrants'
  BY <1>7 DEF CreateRole, AdminRoleGrants, AdminRole, LiveRoles, TypedState, TypeOK
<1>8. ASSUME NEW x \in Roles, NEW row \in RoleRows, PutRole(r, x, row) PROVE AdminRoleGrants'
  <2>1. row.slug = "admin" => row.grants
    BY <1>8 DEF PutRole, NoRoleEdits, AdminRoleGrants, AdminRole, LiveRoles, RoleRows
  <2> QED
    BY <1>8, <2>1 DEF PutRole, Goto, AdminRoleGrants, AdminRole, LiveRoles, TypedState, TypeOK
<1>9. CASE WriteRole(r)
  <2>1. req[r].row.slug = "admin" => req[r].row.grants
    BY <1>9 DEF WriteRole, At, AdminRoleGrants
  <2>2. \A x \in AdminRole' : roles'[x].grants
    BY <1>9, <2>1 DEF WriteRole, AdminRoleGrants, AdminRole, LiveRoles, TypedState, TypeOK
  <2>3. \A s \in Requests : req'[s].at = "writeRole" => req'[s] = req[s]
    BY <1>9 DEF WriteRole, Goto, Idle, TypedState, TypeOK
  <2> QED
    BY <2>2, <2>3 DEF AdminRoleGrants
<1>10. CASE DeleteRoleRow(r)
  <2>1. \A x \in AdminRole' : roles'[x].grants
    BY <1>10, AccountsAssumption DEF DeleteRoleRow, AdminRoleGrants, AdminRole, LiveRoles, TypedState, TypeOK
  <2>2. \A s \in Requests : req'[s].at = "writeRole" => req'[s] = req[s]
    BY <1>10 DEF DeleteRoleRow, Goto, Idle, TypedState, TypeOK
  <2> QED
    BY <2>1, <2>2 DEF AdminRoleGrants
<1>11. CASE Insert(r) \/ FindRole(r) \/ Read(r) \/ Write(r) \/ Unlink(r) \/ Link(r) \/ DeleteUserRow(r)
  <2>1. UNCHANGED roles
    BY <1>11 DEF Insert, FindRole, Read, Write, Unlink, Link, DeleteUserRow
  <2>2. req[r] \in RequestStates
    BY DEF TypedState, TypeOK
  <2>3. PICK q : Goto(r, q) /\ q.at # "writeRole"
    BY <1>11, <2>2, HandlerShapes DEF Insert, FindRole, Read, Write, Unlink, Link, DeleteUserRow, At, Idle
  <2> QED
    BY <1>1, <2>1, <2>3
<1> QED
  BY <1>2, <1>3, <1>4, <1>5, <1>6, <1>7, <1>8, <1>9, <1>10, <1>11 DEF RequestNext

\* No handler runs during the startup.
LEMMA RequestsAfterStart ==
  ASSUME NEW r \in Requests, RequestNext(r)
  PROVE  boot.at = "up" /\ boot' = boot
BY DEF RequestNext, Onboard, CreateUser, PutUser, DeleteUser, DeleteRole, CreateRole, PutRole, Insert,
       FindRole, Read, Write, Unlink, Link, DeleteUserRow, DeleteRoleRow, WriteRole, StartsAdmin, Starts,
       At, Turn

\* The startup makes an admin role if there is none, and hands it on.
LEMMA BootKeepsSeed ==
  ASSUME SeededState, NoRoleEdits, UNCHANGED server, BootNext
  PROVE  AdminRoleGrants' /\ SeedIsReady'
<1> USE DEF SeededState
<1>1. ASSUME NEW x \in Roles, EnsureAdminRole(x) PROVE AdminRoleGrants' /\ SeedIsReady'
  <2>1. [slug |-> "admin", grants |-> TRUE] \in RoleRows
    BY DEF RoleRows
  <2>2. CASE AdminRole # {}
    BY <1>1, <2>2 DEF EnsureAdminRole, AdminRoleGrants, SeedIsReady, AdminRole, LiveRoles
  <2>3. CASE AdminRole = {}
    <3>1. roles' = [roles EXCEPT ![x] = [slug |-> "admin", grants |-> TRUE]]
      BY <1>1, <2>3 DEF EnsureAdminRole
    <3>2. x \in AdminRole'
      BY <2>1, <3>1 DEF AdminRole, LiveRoles, TypedState, TypeOK
    <3>3. \A y \in AdminRole' : roles'[y].grants
      BY <2>1, <2>3, <3>1 DEF AdminRole, LiveRoles, TypedState, TypeOK
    <3> QED
      BY <1>1, <3>2, <3>3 DEF EnsureAdminRole, AdminRoleGrants, SeedIsReady
  <2> QED
    BY <2>2, <2>3
<1>2. ASSUME NEW i \in Ids, SeedUser(i) PROVE AdminRoleGrants' /\ SeedIsReady'
  <2>1. AdminRole' = AdminRole /\ AdminRole # {}
    BY <1>2 DEF SeedUser, SeedIsReady, AdminRole, LiveRoles
  <2>2. AdminRoleGrants'
    BY <1>2, <2>1 DEF SeedUser, AdminRoleGrants
  <2>3. users'[i].email = SeedEmail' /\ users'[i].enabled
    BY <1>2 DEF SeedUser, WithEmail, LiveUsers, UserRows, SeedEmail, TypedState, TypeOK
  <2>4. boot'.id = i /\ boot'.roles \cap AdminRole # {}
    BY <1>2, <2>1 DEF SeedUser, SeedRoles
  <2>5. boot'.at = "unlink"
    BY <1>2 DEF SeedUser
  <2> QED
    BY <2>1, <2>2, <2>3, <2>4, <2>5 DEF SeedIsReady
<1>3. ASSUME SeedUnlink \/ SeedLink PROVE AdminRoleGrants' /\ SeedIsReady'
  <2>1. AdminRole' = AdminRole /\ SeedEmail' = SeedEmail
    BY <1>3 DEF SeedUnlink, SeedLink, AdminRole, LiveRoles, SeedEmail
  <2>2. boot \in [at : {"unlink", "link"}, id : Ids, roles : SUBSET Roles]
    BY <1>3 DEF SeedUnlink, SeedLink, BootStates, TypedState, TypeOK
  <2> QED
    BY <1>3, <2>1, <2>2 DEF SeedUnlink, SeedLink, AdminRoleGrants, SeedIsReady
<1>4. CASE Stop
  BY <1>4 DEF Stop, AdminRoleGrants, SeedIsReady, AdminRole, LiveRoles, Idle
<1> QED
  BY <1>1, <1>2, <1>3, <1>4 DEF BootNext

\* Every step keeps the seeding ready.
LEMMA NextSeeded == SeededState /\ [Next]_vars => SeededState'
<1> SUFFICES ASSUME SeededState, [Next]_vars PROVE SeededState'
  OBVIOUS
<1>1. TypedState'
  BY NextTyped DEF SeededState
<1>2. ASSUME NoRoleEdits' PROVE AdminRoleGrants' /\ SeedIsReady'
  <2>1. UNCHANGED server /\ NoRoleEdits
    BY <1>2 DEF Next, vars, NoRoleEdits, Features
  <2>2. AdminRoleGrants /\ SeedIsReady /\ TypedState
    BY <2>1 DEF SeededState
  <2>3. CASE UNCHANGED vars
    BY <2>2, <2>3 DEF vars, AdminRoleGrants, SeedIsReady, AdminRole, LiveRoles, SeedEmail
  <2>4. CASE BootNext
    BY <2>1, <2>4, BootKeepsSeed
  <2>5. ASSUME NEW r \in Requests, RequestNext(r) PROVE AdminRoleGrants' /\ SeedIsReady'
    <3>1. AdminRoleGrants'
      BY <2>1, <2>2, <2>5, RequestKeepsGrants
    <3>2. SeedIsReady'
      BY <2>5, RequestsAfterStart DEF SeedIsReady
    <3> QED
      BY <3>1, <3>2
  <2> QED
    BY <2>3, <2>4, <2>5 DEF Next
<1> QED
  BY <1>1, <1>2 DEF SeededState

\* The seeding's last step leaves an enabled admin with the seed's address.
LEMMA SeedingDone ==
  ASSUME SeededState, NoRoleEdits, UNCHANGED server, SeedLink
  PROVE  (\E i \in Admins : users[i].email = SeedEmail)'
<1>1. PICK i \in Ids : i = boot.id
  BY DEF SeededState, TypedState, BootIsLive, SeedLink, LiveUsers
<1>2. PICK x \in Roles : x \in boot.roles \cap AdminRole
  BY DEF SeededState, SeedIsReady, SeedLink, AdminRole, LiveRoles
<1>3. i \in LiveUsers /\ users[i].email = SeedEmail /\ users[i].enabled /\ roles[x].grants
  BY <1>1, <1>2 DEF SeededState, TypedState, BootIsLive, SeedIsReady, AdminRoleGrants, SeedLink
<1>4. <<i, x>> \in links'
  BY <1>1, <1>2 DEF SeedLink, Linked
<1>5. x \in RolesOf(i)'
  BY <1>4 DEF RolesOf
<1>6. i \in Admins' /\ users'[i].email = SeedEmail'
  BY <1>3, <1>5 DEF SeedLink, Admins, IsAdmin, LiveUsers, SeedEmail
<1> QED
  BY <1>6

\* bootstrap.ts: where no request changes what a role grants, every startup
\* that has a seed address ends with an enabled admin of that address, whatever
\* was done to the account before and wherever an earlier process stopped.
THEOREM SeedAdminIsMade ==
  ASSUME \A s \in Servers : "roleEdits" \notin s.features
  PROVE  Spec => SeedAdminAfterStart
<1>1. SeededState /\ [Next]_vars =>
        [boot.at # "up" /\ boot'.at = "up" /\ SeedEmail # None => (\E i \in Admins : users[i].email = SeedEmail)']_vars
  <2> SUFFICES ASSUME SeededState, Next, boot.at # "up", boot'.at = "up", SeedEmail # None
               PROVE  (\E i \in Admins : users[i].email = SeedEmail)'
    BY DEF vars
  <2>1. NoRoleEdits
    BY DEF NoRoleEdits, Features, SeededState, TypedState, TypeOK
  <2>2. ~\E x \in Roles : EnsureAdminRole(x)
    BY DEF EnsureAdminRole
  <2>3. ~SeedUnlink
    BY DEF SeedUnlink, BootStates, SeededState, TypedState, TypeOK
  <2>4. SeedLink
    BY <2>2, <2>3, RequestsAfterStart DEF Next, BootNext, SeedUser, Stop
  <2> QED
    BY <2>1, <2>4, SeedingDone DEF Next
<1> QED
  BY <1>1, InitSeeded, NextSeeded, PTL DEF Spec, SeedAdminAfterStart

-----------------------------------------------------------------------------
(* The last admin.  An orderly server runs one handler at a time, so what  *)
(* assertAdminUserRemains found is still so when the handler writes.       *)

Orderly == Driver = "sqlite" /\ Features = {}

OneAtATime == \A r, s \in Requests : req[r] # Idle /\ req[s] # Idle => r = s

\* The roles an account will have once its patch is through.
RolesAsked(q) == IF q.patch.roles = Keep THEN RolesOf(q.id) ELSE q.patch.roles

\* What a handler that has got this far knows: an admin is left when it is
\* done, whichever statements it has left.
KeepsAnAdmin(q) ==
  /\ q.at = "insert" =>
       /\ users[q.id] = None /\ q.roles \subseteq LiveRoles
       /\ IF q.onboard THEN LiveUsers = {} /\ q.row.enabled ELSE Admins # {}
  /\ q.at = "findRole" => LiveUsers = {q.id} /\ users[q.id].enabled /\ AdminRole # {}
  /\ q.at \in {"read", "write"} =>
       /\ Admins # {} /\ q.id \in LiveUsers
       /\ q.patch.roles # Keep => q.patch.roles \subseteq LiveRoles
       /\ AdminLeft(Merge(users[q.id], q.patch), q.id, RolesAsked(q))
  /\ q.at = "write" => q.row = users[q.id]
  /\ q.at \in {"unlink", "link"} =>
       /\ q.id \in LiveUsers /\ q.roles \subseteq LiveRoles
       /\ AdminLeft(users[q.id], q.id, q.roles)
  /\ q.at = "link" => RolesOf(q.id) = {}
  /\ q.at = "deleteUser" => Admins \ {q.id} # {}
  /\ q.at = "deleteRole" => ~RoleNeeded(q.role)
  /\ q.at = "writeRole" =>
       /\ Admins # {} /\ q.role \in LiveRoles
       /\ q.row.slug = roles[q.role].slug /\ (roles[q.role].grants => q.row.grants)

\* Between requests there is an admin, or nobody yet and a role to give out.
AdminsStay ==
  /\ boot.at \in {"seed", "up"} /\ LiveUsers = {} => AdminRole # {}
  /\ Quiet /\ boot.at \in {"down", "seed", "up"} /\ LiveUsers # {} => Admins # {}

OrderlyInv == OneAtATime /\ AdminsStay /\ \A r \in Requests : KeepsAnAdmin(req[r])

OrderlyState == SeededState /\ (Orderly => OrderlyInv)

\* A handler with no statements left promises nothing.
LEMMA IdleKeeps == KeepsAnAdmin(Idle) /\ KeepsAnAdmin(Idle)'
BY DEF KeepsAnAdmin, Idle

\* The store starts without users.
LEMMA InitOrderly == Init => OrderlyState
<1> SUFFICES ASSUME Init PROVE OrderlyState
  OBVIOUS
<1>1. LiveUsers = {}
  BY AccountsAssumption DEF Init, LiveUsers
<1>2. \A r \in Requests : KeepsAnAdmin(req[r])
  BY IdleKeeps DEF Init
<1>3. OneAtATime /\ AdminsStay
  BY <1>1 DEF Init, OneAtATime, AdminsStay
<1> QED
  BY <1>2, <1>3, InitSeeded DEF OrderlyState, OrderlyInv

\* While a handler of an orderly server runs the others are idle, so it only has
\* to hand its own promise on.
LEMMA OneHandler ==
  ASSUME TypedState, Orderly, OrderlyInv, NEW r \in Requests, Turn(r), NEW q, Goto(r, q), KeepsAnAdmin(q)',
         LiveUsers' = {} => AdminRole' # {}, UNCHANGED boot,
         q = Idle /\ LiveUsers' # {} => Admins' # {}
  PROVE  OrderlyInv'
<1>1. req'[r] = q /\ \A s \in Requests \ {r} : req'[s] = Idle
  BY DEF Goto, Turn, Orderly, TypedState, TypeOK
<1>2. OneAtATime'
  BY <1>1 DEF OneAtATime
<1>3. AdminsStay'
  BY <1>1 DEF AdminsStay, Quiet, Turn
<1>4. (\A s \in Requests : KeepsAnAdmin(req[s]))'
  <2> SUFFICES ASSUME NEW s \in Requests PROVE KeepsAnAdmin(req[s])'
    OBVIOUS
  <2>1. CASE s = r
    BY <1>1, <2>1 DEF KeepsAnAdmin, AdminLeft, RoleNeeded, RolesAsked, IsAdmin, Merge
  <2>2. CASE s # r
    <3>1. req'[s].at = "idle"
      BY <1>1, <2>2 DEF Idle
    <3> QED
      BY <3>1 DEF KeepsAnAdmin
  <2> QED
    BY <2>1, <2>2
<1> QED
  BY <1>2, <1>3, <1>4 DEF OrderlyInv

\* What the tables say while nobody writes.
LEMMA StoreSame ==
  ASSUME UNCHANGED <<users, roles, links>>
  PROVE  /\ LiveUsers' = LiveUsers /\ LiveRoles' = LiveRoles /\ AdminRole' = AdminRole
         /\ Admins' = Admins /\ \A i \in Ids : RolesOf(i)' = RolesOf(i)
         /\ \A x \in Roles : RoleNeeded(x)' = RoleNeeded(x)
<1>1. LiveUsers' = LiveUsers /\ LiveRoles' = LiveRoles
  BY DEF LiveUsers, LiveRoles
<1>2. AdminRole' = AdminRole /\ \A i \in Ids : RolesOf(i)' = RolesOf(i)
  BY <1>1 DEF AdminRole, RolesOf
<1>3. Admins' = Admins /\ \A x \in Roles : RoleNeeded(x)' = RoleNeeded(x)
  BY <1>1 DEF Admins, IsAdmin, RolesOf, RoleNeeded, LiveUsers
<1> QED
  BY <1>1, <1>2, <1>3

\* What is known to a handler stays true while nobody writes.
LEMMA KnownStays ==
  ASSUME UNCHANGED <<users, roles, links>>, NEW q \in RequestStates, KeepsAnAdmin(q)
  PROVE  KeepsAnAdmin(q)'
<1>1. q.at \in {"read", "write", "unlink", "link"} => RolesOf(q.id)' = RolesOf(q.id)
  BY DEF RolesOf
<1>2. q.at = "deleteRole" => RoleNeeded(q.role)' = RoleNeeded(q.role)
  BY StoreSame, HandlerShapes
<1>3. q.at \in {"read", "write"} =>
        AdminLeft(Merge(users[q.id], q.patch), q.id, RolesAsked(q))' = AdminLeft(Merge(users[q.id], q.patch), q.id, RolesAsked(q))
  BY <1>1, StoreSame DEF AdminLeft, RolesAsked, IsAdmin, Merge
<1>4. q.at \in {"unlink", "link"} =>
        AdminLeft(users[q.id], q.id, q.roles)' = AdminLeft(users[q.id], q.id, q.roles)
  BY StoreSame DEF AdminLeft, IsAdmin
<1> QED
  BY <1>1, <1>2, <1>3, <1>4, StoreSame DEF KeepsAnAdmin

\* A step that only looks hands on what it found.
LEMMA LookingOrderly ==
  ASSUME OrderlyState, Orderly, UNCHANGED <<boot, users, roles, links>>, NEW r \in Requests, Turn(r),
         NEW q \in RequestStates, Goto(r, q), KeepsAnAdmin(q), q # Idle
  PROVE  OrderlyInv'
<1>1. OrderlyInv /\ TypedState
  BY DEF OrderlyState, SeededState
<1>2. LiveUsers' = {} => AdminRole' # {}
  BY <1>1, StoreSame DEF OrderlyInv, AdminsStay, Turn
<1> QED
  BY <1>1, <1>2, KnownStays, OneHandler

\* The checks of the routes establish what their statements rely on.
LEMMA StartOrderly ==
  ASSUME OrderlyState, Orderly, UNCHANGED server, NEW r \in Requests,
         \/ \E i \in Ids, m \in Emails : Onboard(r, i, m)
         \/ \E i \in Ids, m \in Emails, direct \in BOOLEAN, R \in SUBSET Roles : CreateUser(r, i, m, direct, R)
         \/ \E i \in Ids, p \in Patches : PutUser(r, i, p)
         \/ \E i \in Ids : DeleteUser(r, i)
         \/ \E x \in Roles : DeleteRole(r, x)
         \/ \E x \in Roles, row \in RoleRows : PutRole(r, x, row)
  PROVE  OrderlyInv'
<1> USE DEF Starts, StartsAdmin
<1>1. ASSUME NEW i \in Ids, NEW m \in Emails, Onboard(r, i, m) PROVE OrderlyInv'
  <2>1. PICK row \in UserRows : row = [email |-> m, enabled |-> TRUE, direct |-> FALSE]
    BY DEF UserRows
  <2>2. PICK q \in RequestStates : q = [at |-> "insert", onboard |-> TRUE, id |-> i, roles |-> {}, row |-> row]
    BY DEF RequestStates
  <2>3. KeepsAnAdmin(q)
    BY <1>1, <2>1, <2>2 DEF KeepsAnAdmin, Onboard, OnboardingRequired, Unused
  <2> QED
    BY <1>1, <2>1, <2>2, <2>3, LookingOrderly DEF Onboard, Idle
<1>2. ASSUME NEW i \in Ids, NEW m \in Emails, NEW direct \in BOOLEAN, NEW R \in SUBSET Roles,
             CreateUser(r, i, m, direct, R)
      PROVE  OrderlyInv'
  <2>1. PICK row \in UserRows : row = [email |-> m, enabled |-> TRUE, direct |-> direct]
    BY DEF UserRows
  <2>2. PICK q \in RequestStates : q = [at |-> "insert", onboard |-> FALSE, id |-> i, roles |-> R, row |-> row]
    BY DEF RequestStates
  <2>3. KeepsAnAdmin(q)
    BY <1>2, <2>1, <2>2 DEF KeepsAnAdmin, CreateUser, Unused, Sendable, Orderly
  <2> QED
    BY <1>2, <2>1, <2>2, <2>3, LookingOrderly DEF CreateUser, Idle
<1>3. ASSUME NEW i \in Ids, NEW p \in Patches, PutUser(r, i, p) PROVE OrderlyInv'
  <2>1. PICK q \in RequestStates : q = [at |-> "read", id |-> i, patch |-> p]
    BY DEF RequestStates
  <2>2. p.roles # Keep => p.roles \subseteq LiveRoles
    BY <1>3 DEF PutUser, Sendable, Orderly
  <2>3. Admins # {} /\ i \in LiveUsers
    BY <1>3 DEF PutUser
  <2>4. AdminLeft(Merge(users[i], p), i, RolesAsked(q))
    <3>1. CASE p.roles = Keep /\ p.direct = Keep /\ p.enabled = Keep
      BY <2>1, <2>3, <3>1 DEF AdminLeft, Merge, RolesAsked, IsAdmin, Admins
    <3>2. CASE AdminLeft(Merge(users[i], p), i, IF p.roles = Keep THEN RolesOf(i) ELSE p.roles \cap LiveRoles)
      <4>1. p.roles # Keep => p.roles \cap LiveRoles = p.roles
        BY <2>2
      <4> QED
        BY <2>1, <3>2, <4>1 DEF RolesAsked
    <3> QED
      BY <1>3, <3>1, <3>2 DEF PutUser
  <2>5. KeepsAnAdmin(q)
    BY <2>1, <2>2, <2>3, <2>4 DEF KeepsAnAdmin
  <2> QED
    BY <1>3, <2>1, <2>5, LookingOrderly DEF PutUser, Idle
<1>4. ASSUME NEW i \in Ids, DeleteUser(r, i) PROVE OrderlyInv'
  <2>1. PICK q \in RequestStates : q = [at |-> "deleteUser", id |-> i]
    BY DEF RequestStates
  <2>2. KeepsAnAdmin(q)
    BY <1>4, <2>1 DEF KeepsAnAdmin, DeleteUser
  <2> QED
    BY <1>4, <2>1, <2>2, LookingOrderly DEF DeleteUser, Idle
<1>5. ASSUME NEW x \in Roles, DeleteRole(r, x) PROVE OrderlyInv'
  <2>1. PICK q \in RequestStates : q = [at |-> "deleteRole", role |-> x]
    BY DEF RequestStates
  <2>2. KeepsAnAdmin(q)
    BY <1>5, <2>1 DEF KeepsAnAdmin, DeleteRole
  <2> QED
    BY <1>5, <2>1, <2>2, LookingOrderly DEF DeleteRole, Idle
<1>6. ASSUME NEW x \in Roles, NEW row \in RoleRows, PutRole(r, x, row) PROVE OrderlyInv'
  <2>1. PICK q \in RequestStates : q = [at |-> "writeRole", role |-> x, row |-> row]
    BY DEF RequestStates
  <2>2. KeepsAnAdmin(q)
    BY <1>6, <2>1 DEF KeepsAnAdmin, PutRole, Orderly
  <2> QED
    BY <1>6, <2>1, <2>2, LookingOrderly DEF PutRole, Idle
<1> QED
  BY <1>1, <1>2, <1>3, <1>4, <1>5, <1>6

\* An admin stays one if the row stays and its roles grant no less.
LEMMA AdminStays ==
  ASSUME NEW i \in Admins, users'[i] = users[i], RolesOf(i) \subseteq RolesOf(i)',
         \A x \in RolesOf(i) : roles[x].grants => roles'[x].grants
  PROVE  i \in Admins'
BY DEF Admins, LiveUsers, IsAdmin

\* The looks at the store between a route's statements.
LEMMA LookOrderly ==
  ASSUME OrderlyState, Orderly, UNCHANGED server, NEW r \in Requests, FindRole(r) \/ Read(r)
  PROVE  OrderlyInv'
<1>1. PICK q \in RequestStates : q = req[r]
  BY DEF OrderlyState, SeededState, TypedState, TypeOK
<1>2. KeepsAnAdmin(q)
  BY <1>1 DEF OrderlyState, OrderlyInv
<1>3. CASE FindRole(r)
  <2>1. q.at = "findRole" /\ q.id \in Ids /\ LiveUsers = {q.id} /\ users[q.id].enabled /\ AdminRole # {}
    BY <1>1, <1>2, <1>3, HandlerShapes DEF FindRole, At, KeepsAnAdmin
  <2>2. PICK R \in SUBSET Roles : R = AdminRole
    BY DEF AdminRole, LiveRoles
  <2>3. PICK n \in RequestStates : n = [at |-> "unlink", id |-> q.id, roles |-> R]
    BY <2>1 DEF RequestStates
  <2>4. IsAdmin(users[q.id], R)
    BY <2>1, <2>2 DEF IsAdmin, OrderlyState, SeededState, AdminRoleGrants, NoRoleEdits, Orderly
  <2>5. KeepsAnAdmin(n)
    BY <2>1, <2>2, <2>3, <2>4 DEF KeepsAnAdmin, AdminLeft, AdminRole
  <2> QED
    BY <1>1, <1>3, <2>1, <2>2, <2>3, <2>5, LookingOrderly DEF FindRole, At, Idle
<1>4. CASE Read(r)
  <2>1. q.at = "read" /\ q.id \in Ids /\ q.patch \in Patches
    BY <1>1, <1>4, HandlerShapes DEF Read, At
  <2>2. PICK row \in UserRows : row = users[q.id]
    BY <1>2, <2>1 DEF KeepsAnAdmin, LiveUsers
  <2>3. PICK n \in RequestStates : n = [at |-> "write", id |-> q.id, row |-> row, patch |-> q.patch]
    BY <2>1 DEF RequestStates
  <2>4. KeepsAnAdmin(n) /\ q.id \in LiveUsers
    BY <1>2, <2>1, <2>2, <2>3 DEF KeepsAnAdmin, RolesAsked
  <2> QED
    BY <1>1, <1>4, <2>2, <2>3, <2>4, LookingOrderly DEF Read, At, Idle
<1> QED
  BY <1>3, <1>4

\* A new account costs no admin.
LEMMA InsertOrderly ==
  ASSUME OrderlyState, Orderly, UNCHANGED server, NEW r \in Requests, Insert(r)
  PROVE  OrderlyInv'
<1>1. PICK q \in RequestStates : q = req[r]
  BY DEF OrderlyState, SeededState, TypedState, TypeOK
<1>2. OrderlyInv /\ TypedState /\ KeepsAnAdmin(q)
  BY <1>1 DEF OrderlyState, SeededState, OrderlyInv
<1>3. /\ q \in [at : {"insert"}, onboard : BOOLEAN, id : Ids, row : UserRows, roles : SUBSET Roles]
      /\ Turn(r) /\ UNCHANGED <<roles, links, boot>>
  BY <1>1, HandlerShapes DEF Insert, At
<1>4. /\ users[q.id] = None /\ q.roles \subseteq LiveRoles
      /\ IF q.onboard THEN LiveUsers = {} /\ q.row.enabled ELSE Admins # {}
  BY <1>2, <1>3 DEF KeepsAnAdmin
<1>5. AdminRole' = AdminRole /\ LiveRoles' = LiveRoles /\ (LiveUsers = {} => AdminRole # {})
  BY <1>2, <1>3 DEF AdminRole, LiveRoles, OrderlyInv, AdminsStay, Turn
<1>6. CASE WithEmail(q.row.email) # {}
  <2>1. Goto(r, Idle) /\ UNCHANGED users
    BY <1>1, <1>6 DEF Insert
  <2>2. LiveUsers # {} /\ Admins # {}
    BY <1>4, <1>6 DEF WithEmail
  <2>3. LiveUsers' = LiveUsers /\ Admins' = Admins
    BY <1>3, <2>1, StoreSame
  <2> QED
    BY <1>2, <1>3, <2>1, <2>2, <2>3, IdleKeeps, OneHandler
<1>7. CASE WithEmail(q.row.email) = {}
  <2>1. users' = [users EXCEPT ![q.id] = q.row]
    BY <1>1, <1>7 DEF Insert
  <2>2. LiveUsers' = LiveUsers \cup {q.id} /\ q.id \notin LiveUsers
    BY <1>2, <1>3, <1>4, <2>1, AccountsAssumption DEF LiveUsers, TypedState, TypeOK
  <2>3. ASSUME NEW i \in Admins PROVE i \in Admins' /\ i # q.id
    <3>1. i # q.id
      BY <2>2 DEF Admins
    <3> QED
      BY <1>2, <1>3, <2>1, <3>1, AdminStays DEF RolesOf, Admins, LiveUsers, TypedState, TypeOK
  <2>4. PICK n \in RequestStates :
          n = IF q.onboard THEN [at |-> "findRole", id |-> q.id]
              ELSE [at |-> "unlink", id |-> q.id, roles |-> q.roles]
    BY <1>3 DEF RequestStates
  <2>5. Goto(r, n) /\ n # Idle
    BY <1>1, <1>7, <2>4 DEF Insert, Idle
  <2>6. KeepsAnAdmin(n)'
    <3>1. CASE q.onboard
      <4>1. users'[q.id].enabled
        BY <1>2, <1>3, <1>4, <2>1, <3>1 DEF TypedState, TypeOK
      <4> QED
        BY <1>4, <1>5, <2>2, <2>4, <3>1, <4>1 DEF KeepsAnAdmin
    <3>2. CASE ~q.onboard
      <4>1. Admins' \ {q.id} # {}
        BY <1>4, <2>3, <3>2
      <4> QED
        BY <1>4, <1>5, <2>2, <2>4, <3>2, <4>1 DEF KeepsAnAdmin, AdminLeft
    <3> QED
      BY <1>3, <3>1, <3>2
  <2> QED
    BY <1>2, <1>3, <2>2, <2>5, <2>6, OneHandler
<1> QED
  BY <1>6, <1>7

\* The patched account is written as the check assumed, roles aside.
LEMMA WriteOrderly ==
  ASSUME OrderlyState, Orderly, UNCHANGED server, NEW r \in Requests, Write(r)
  PROVE  OrderlyInv'
<1>1. PICK q \in RequestStates : q = req[r]
  BY DEF OrderlyState, SeededState, TypedState, TypeOK
<1>2. OrderlyInv /\ TypedState /\ KeepsAnAdmin(q)
  BY <1>1 DEF OrderlyState, SeededState, OrderlyInv
<1>3. /\ q \in [at : {"write"}, id : Ids, row : UserRows, patch : Patches]
      /\ Turn(r) /\ UNCHANGED <<roles, links, boot>>
  BY <1>1, HandlerShapes DEF Write, At
<1>4. /\ Admins # {} /\ q.id \in LiveUsers /\ q.row = users[q.id]
      /\ q.patch.roles # Keep => q.patch.roles \subseteq LiveRoles
      /\ AdminLeft(Merge(users[q.id], q.patch), q.id, RolesAsked(q))
  BY <1>2, <1>3 DEF KeepsAnAdmin
<1>5. LiveRoles' = LiveRoles /\ RolesOf(q.id)' = RolesOf(q.id)
  BY <1>3 DEF LiveRoles, RolesOf
<1>6. CASE UNCHANGED users /\ Goto(r, Idle)
  <2>1. LiveUsers' = LiveUsers /\ Admins' = Admins
    BY <1>3, <1>6, StoreSame
  <2> QED
    BY <1>2, <1>3, <1>4, <1>6, <2>1, IdleKeeps, OneHandler
<1>7. PICK row \in UserRows : row = Merge(users[q.id], q.patch)
  BY <1>3, <1>4, MergedRow
<1>8. CASE users' = [users EXCEPT ![q.id] = row]
  <2>1. users'[q.id] = row /\ LiveUsers' = LiveUsers
    BY <1>2, <1>3, <1>4, <1>8 DEF LiveUsers, TypedState, TypeOK
  <2>2. Admins \ {q.id} \subseteq Admins' \ {q.id}
    <3> SUFFICES ASSUME NEW i \in Admins \ {q.id} PROVE i \in Admins'
      OBVIOUS
    <3> QED
      BY <1>2, <1>3, <1>8, AdminStays DEF RolesOf, Admins, LiveUsers, TypedState, TypeOK
  <2>3. AdminLeft(row, q.id, RolesAsked(q))'
    BY <1>3, <1>4, <1>5, <1>7, <2>2 DEF AdminLeft, RolesAsked, IsAdmin
  <2>4. CASE q.patch.roles = Keep
    <3>1. Goto(r, Idle)
      BY <1>1, <1>6, <2>4 DEF Write
    <3>2. Admins' # {}
      BY <1>4, <2>1, <2>3, <2>4 DEF AdminLeft, RolesAsked, Admins
    <3> QED
      BY <1>2, <1>3, <1>4, <2>1, <3>1, <3>2, IdleKeeps, OneHandler
  <2>5. CASE q.patch.roles # Keep
    <3>1. PICK n \in RequestStates : n = [at |-> "unlink", id |-> q.id, roles |-> q.patch.roles]
      BY <1>3, <2>5 DEF RequestStates, Patches, Patch
    <3>2. KeepsAnAdmin(n)'
      BY <1>4, <1>5, <2>1, <2>3, <2>5, <3>1 DEF KeepsAnAdmin, RolesAsked
    <3>3. Goto(r, n) \/ (Goto(r, Idle) /\ UNCHANGED users)
      BY <1>1, <2>5, <3>1 DEF Write
    <3> QED
      BY <1>2, <1>3, <1>4, <1>6, <2>1, <3>1, <3>2, <3>3, OneHandler DEF Idle
  <2> QED
    BY <2>4, <2>5
<1> QED
  BY <1>1, <1>4, <1>6, <1>7, <1>8 DEF Write, Kept

\* The two statements of setUserRoleIds leave the others' admin access alone.
LEMMA LinkingOrderly ==
  ASSUME OrderlyState, Orderly, UNCHANGED server, NEW r \in Requests, Unlink(r) \/ Link(r)
  PROVE  OrderlyInv'
<1>1. PICK q \in RequestStates : q = req[r]
  BY DEF OrderlyState, SeededState, TypedState, TypeOK
<1>2. OrderlyInv /\ TypedState /\ KeepsAnAdmin(q)
  BY <1>1 DEF OrderlyState, SeededState, OrderlyInv
<1>3. /\ q \in [at : {"unlink", "link"}, id : Ids, roles : SUBSET Roles]
      /\ Turn(r) /\ UNCHANGED <<users, roles, boot>>
  BY <1>1, HandlerShapes DEF Unlink, Link, At
<1>4. q.id \in LiveUsers /\ q.roles \subseteq LiveRoles /\ AdminLeft(users[q.id], q.id, q.roles)
  BY <1>2, <1>3 DEF KeepsAnAdmin
<1>5. LiveUsers' = LiveUsers /\ LiveRoles' = LiveRoles
  BY <1>3 DEF LiveUsers, LiveRoles
<1>6. links' = Unlinked(q.id) \/ links' = Linked(q.id, q.roles) => Admins \ {q.id} \subseteq Admins'
  BY <1>3 DEF Unlinked, Linked, Admins, LiveUsers, IsAdmin, RolesOf
<1>7. CASE Unlink(r)
  <2>1. links' = Unlinked(q.id)
    BY <1>1, <1>7 DEF Unlink
  <2>2. RolesOf(q.id)' = {}
    BY <2>1 DEF Unlinked, RolesOf
  <2>3. CASE q.roles = {}
    <3>1. Admins' # {}
      BY <1>3, <1>4, <1>5, <1>6, <2>1, <2>2, <2>3 DEF AdminLeft, Admins, IsAdmin
    <3>2. Goto(r, Idle)
      BY <1>1, <1>7, <2>3 DEF Unlink
    <3> QED
      BY <1>2, <1>3, <1>4, <1>5, <3>1, <3>2, IdleKeeps, OneHandler
  <2>4. CASE q.roles # {}
    <3>1. PICK n \in RequestStates : n = [q EXCEPT !.at = "link"]
      BY <1>3 DEF RequestStates
    <3>2. n.at = "link" /\ n.id = q.id /\ n.roles = q.roles
      BY <1>3, <3>1
    <3>3. AdminLeft(users[q.id], q.id, q.roles)'
      BY <1>3, <1>4, <1>6, <2>1 DEF AdminLeft, IsAdmin
    <3>4. KeepsAnAdmin(n)'
      BY <1>4, <1>5, <2>2, <3>2, <3>3 DEF KeepsAnAdmin
    <3>5. Goto(r, n) /\ n # Idle
      BY <1>1, <1>7, <2>4, <3>1, <3>2 DEF Unlink, Idle
    <3> QED
      BY <1>2, <1>3, <1>4, <1>5, <3>4, <3>5, OneHandler
  <2> QED
    BY <2>3, <2>4
<1>8. CASE Link(r)
  <2>1. RolesOf(q.id) = {}
    BY <1>1, <1>2, <1>8 DEF KeepsAnAdmin, Link, At
  <2>2. links' = Linked(q.id, q.roles)
    BY <1>1, <1>4, <1>8, <2>1 DEF Link, CanLink
  <2>3. RolesOf(q.id)' = q.roles
    BY <1>3, <2>1, <2>2 DEF Linked, RolesOf
  <2>4. Admins' # {}
    BY <1>3, <1>4, <1>5, <1>6, <2>2, <2>3 DEF AdminLeft, Admins, IsAdmin
  <2>5. Goto(r, Idle)
    BY <1>8 DEF Link
  <2> QED
    BY <1>2, <1>3, <1>4, <1>5, <2>4, <2>5, IdleKeeps, OneHandler
<1> QED
  BY <1>7, <1>8

\* Neither a deleted account nor a deleted role was the last that mattered.
LEMMA DeletionOrderly ==
  ASSUME OrderlyState, Orderly, UNCHANGED server, NEW r \in Requests, DeleteUserRow(r) \/ DeleteRoleRow(r)
  PROVE  OrderlyInv'
<1>1. PICK q \in RequestStates : q = req[r]
  BY DEF OrderlyState, SeededState, TypedState, TypeOK
<1>2. OrderlyInv /\ TypedState /\ KeepsAnAdmin(q)
  BY <1>1 DEF OrderlyState, SeededState, OrderlyInv
<1>3. Turn(r) /\ UNCHANGED boot /\ Goto(r, Idle)
  BY DEF DeleteUserRow, DeleteRoleRow, At
<1>4. Admins' # {}
  <2>1. CASE DeleteUserRow(r)
    <3>1. PICK i \in Admins : i # q.id
      BY <1>1, <1>2, <2>1 DEF KeepsAnAdmin, DeleteUserRow, At
    <3> QED
      BY <1>1, <1>2, <2>1, <3>1, AdminStays
      DEF DeleteUserRow, Unlinked, RolesOf, Admins, LiveUsers, TypedState, TypeOK
  <2>2. CASE DeleteRoleRow(r)
    <3>1. PICK i \in LiveUsers : IsAdmin(users[i], RolesOf(i) \ {q.role})
      BY <1>1, <1>2, <2>2 DEF KeepsAnAdmin, RoleNeeded, DeleteRoleRow, At
    <3>2. UNCHANGED users /\ RolesOf(i)' = RolesOf(i) \ {q.role}
      BY <1>1, <2>2 DEF DeleteRoleRow, WithoutRole, RolesOf
    <3>3. \A x \in Roles \ {q.role} : roles'[x] = roles[x]
      BY <1>1, <1>2, <2>2 DEF DeleteRoleRow, TypedState, TypeOK
    <3> QED
      BY <3>1, <3>2, <3>3 DEF IsAdmin, Admins, LiveUsers, RolesOf
  <2> QED
    BY <2>1, <2>2
<1>5. LiveUsers' # {}
  BY <1>4 DEF Admins
<1> QED
  BY <1>2, <1>3, <1>4, <1>5, IdleKeeps, OneHandler

\* A role that is created or edited takes no grant away.
LEMMA RoleWriteOrderly ==
  ASSUME OrderlyState, Orderly, UNCHANGED server, NEW r \in Requests,
         (\E x \in Roles, grants \in BOOLEAN : CreateRole(r, x, grants)) \/ WriteRole(r)
  PROVE  OrderlyInv'
<1>1. OrderlyInv /\ TypedState
  BY DEF OrderlyState, SeededState
<1>2. Turn(r) /\ UNCHANGED <<boot, users, links>> /\ Goto(r, Idle) /\ Admins # {}
  <2>1. ASSUME NEW x \in Roles, NEW grants \in BOOLEAN, CreateRole(r, x, grants)
        PROVE  Turn(r) /\ UNCHANGED <<boot, users, links>> /\ Goto(r, Idle) /\ Admins # {}
    BY <1>1, <2>1 DEF CreateRole, StartsAdmin, Starts, Goto, TypedState, TypeOK
  <2>2. CASE WriteRole(r)
    <3>1. PICK q \in RequestStates : q = req[r]
      BY <1>1 DEF TypedState, TypeOK
    <3>2. KeepsAnAdmin(q)
      BY <1>1, <3>1 DEF OrderlyInv
    <3> QED
      BY <2>2, <3>1, <3>2 DEF WriteRole, At, KeepsAnAdmin
  <2> QED
    BY <2>1, <2>2
<1>3. \A x \in LiveRoles : roles[x].grants => roles'[x].grants
  <2>1. ASSUME NEW x \in Roles, NEW grants \in BOOLEAN, CreateRole(r, x, grants)
        PROVE  \A y \in LiveRoles : roles'[y] = roles[y]
    BY <1>1, <2>1, AccountsAssumption DEF CreateRole, LiveRoles, TypedState, TypeOK
  <2>2. CASE WriteRole(r)
    <3>1. PICK q \in RequestStates : q = req[r]
      BY <1>1 DEF TypedState, TypeOK
    <3>2. roles[q.role].grants => q.row.grants
      BY <1>1, <2>2, <3>1 DEF OrderlyInv, KeepsAnAdmin, WriteRole, At
    <3> QED
      BY <1>1, <2>2, <3>1, <3>2 DEF WriteRole, LiveRoles, TypedState, TypeOK
  <2> QED
    BY <2>1, <2>2
<1>4. PICK i \in Admins : TRUE
  BY <1>2
<1>5. i \in Admins'
  BY <1>1, <1>2, <1>3, AdminStays DEF RolesOf, LinksAreLive, TypedState, TypeOK
<1>6. LiveUsers' # {}
  BY <1>5 DEF Admins
<1> QED
  BY <1>1, <1>2, <1>5, <1>6, IdleKeeps, OneHandler

\* The startup only adds admins, and the last of its steps adds the seed.
LEMMA BootOrderly ==
  ASSUME OrderlyState, Orderly, UNCHANGED server, BootNext
  PROVE  OrderlyInv'
<1>1. OrderlyInv /\ TypedState /\ SeededState /\ SeededState' /\ NoRoleEdits
  BY NextSeeded DEF OrderlyState, SeededState, Next, NoRoleEdits, Orderly
<1>2. CASE Stop
  <2>1. Quiet /\ boot.at = "up" /\ UNCHANGED <<users, roles, links>> /\ boot'.at = "down"
    BY <1>2 DEF Stop, Orderly
  <2>2. OneAtATime' /\ \A r \in Requests : req'[r] = Idle
    BY <1>2 DEF Stop, OneAtATime
  <2>3. AdminsStay'
    BY <1>1, <2>1, StoreSame DEF OrderlyInv, AdminsStay
  <2>4. (\A r \in Requests : KeepsAnAdmin(req[r]))'
    BY <2>2 DEF KeepsAnAdmin, Idle
  <2> QED
    BY <2>2, <2>3, <2>4 DEF OrderlyInv
<1>3. CASE ~Stop
  <2>1. boot.at # "up" /\ UNCHANGED req /\ Quiet
    BY <1>1, <1>3 DEF BootNext, EnsureAdminRole, SeedUser, SeedUnlink, SeedLink, TypedState, Undisturbed
  <2>2. OneAtATime'
    BY <1>1, <2>1 DEF OrderlyInv, OneAtATime
  <2>3. (\A r \in Requests : KeepsAnAdmin(req[r]))'
    BY <2>1 DEF KeepsAnAdmin, Idle, Quiet
  <2>4. AdminsStay'
    <3>1. ASSUME NEW x \in Roles, EnsureAdminRole(x) PROVE AdminsStay'
      <4>1. \A y \in LiveRoles : roles'[y] = roles[y]
        BY <1>1, <3>1, AccountsAssumption DEF EnsureAdminRole, LiveRoles, TypedState, TypeOK
      <4>2. ASSUME NEW i \in Admins PROVE i \in Admins'
        BY <1>1, <3>1, <4>1, AdminStays DEF EnsureAdminRole, RolesOf, LinksAreLive, TypedState, TypeOK
      <4>3. AdminRole' # {}
        <5>1. CASE AdminRole # {}
          BY <3>1, <5>1 DEF EnsureAdminRole, AdminRole, LiveRoles
        <5>2. CASE AdminRole = {}
          <6>1. [slug |-> "admin", grants |-> TRUE] \in RoleRows
            BY DEF RoleRows
          <6>2. roles' = [roles EXCEPT ![x] = [slug |-> "admin", grants |-> TRUE]]
            BY <3>1, <5>2 DEF EnsureAdminRole
          <6>3. x \in AdminRole'
            BY <1>1, <3>1, <6>1, <6>2 DEF AdminRole, LiveRoles, TypedState, TypeOK
          <6> QED
            BY <6>3
        <5> QED
          BY <5>1, <5>2
      <4>4. LiveUsers' = LiveUsers
        BY <3>1 DEF EnsureAdminRole, LiveUsers
      <4>5. boot.at = "down" /\ (LiveUsers # {} => Admins # {})
        BY <1>1, <2>1, <3>1 DEF EnsureAdminRole, OrderlyInv, AdminsStay
      <4> QED
        BY <4>2, <4>3, <4>4, <4>5 DEF AdminsStay
    <3>2. ASSUME NEW i \in Ids, SeedUser(i) PROVE AdminsStay'
      BY <3>2 DEF SeedUser, AdminsStay
    <3>3. CASE SeedUnlink
      <4>1. boot'.at = "link"
        BY <1>1, <3>3 DEF SeedUnlink, BootStates, TypedState, TypeOK
      <4> QED
        BY <4>1 DEF AdminsStay
    <3>4. CASE SeedLink
      <4>1. Admins' # {}
        BY <1>1, <3>4, SeedingDone
      <4>2. LiveUsers' # {}
        BY <4>1 DEF Admins
      <4> QED
        BY <4>1, <4>2 DEF AdminsStay
    <3> QED
      BY <1>3, <3>1, <3>2, <3>3, <3>4 DEF BootNext
  <2> QED
    BY <2>2, <2>3, <2>4 DEF OrderlyInv
<1> QED
  BY <1>2, <1>3

\* Every step of an orderly server leaves an admin.
LEMMA NextOrderly == OrderlyState /\ [Next]_vars => OrderlyState'
<1> SUFFICES ASSUME OrderlyState, [Next]_vars PROVE OrderlyState'
  OBVIOUS
<1>1. SeededState'
  BY NextSeeded DEF OrderlyState
<1>2. ASSUME Orderly' PROVE OrderlyInv'
  <2>1. UNCHANGED server /\ Orderly
    BY <1>2 DEF Next, vars, Orderly, Driver, Features
  <2>2. OrderlyInv
    BY <2>1 DEF OrderlyState
  <2>3. CASE UNCHANGED vars
    <3>1. AdminsStay' /\ OneAtATime'
      BY <2>2, <2>3, StoreSame DEF vars, OrderlyInv, AdminsStay, OneAtATime, Quiet
    <3>2. (\A r \in Requests : KeepsAnAdmin(req[r]))'
      <4> SUFFICES ASSUME NEW r \in Requests PROVE KeepsAnAdmin(req[r])'
        OBVIOUS
      <4>1. PICK q \in RequestStates : q = req[r]
        BY DEF OrderlyState, SeededState, TypedState, TypeOK
      <4>2. KeepsAnAdmin(q)'
        BY <2>2, <2>3, <4>1, KnownStays DEF vars, OrderlyInv
      <4> QED
        BY <2>3, <4>1, <4>2 DEF vars, KeepsAnAdmin, AdminLeft, RoleNeeded, RolesAsked, IsAdmin, Merge
    <3> QED
      BY <3>1, <3>2 DEF OrderlyInv
  <2>4. CASE BootNext
    BY <2>1, <2>4, BootOrderly
  <2>5. ASSUME NEW r \in Requests, RequestNext(r) PROVE OrderlyInv'
    BY <2>1, <2>5, StartOrderly, LookOrderly, InsertOrderly, WriteOrderly, LinkingOrderly, DeletionOrderly,
       RoleWriteOrderly DEF RequestNext
  <2> QED
    BY <2>3, <2>4, <2>5 DEF Next
<1> QED
  BY <1>1, <1>2 DEF OrderlyState

\* assertAdminUserRemains: where no request changes what a role grants, an
\* orderly SQLite server that has users has an enabled admin between requests.
THEOREM AnAdminRemains ==
  ASSUME \A s \in Servers : "roleEdits" \notin s.features
  PROVE  Spec => []AdminRemains
<1>1. OrderlyState => AdminRemains
  BY DEF OrderlyState, SeededState, TypedState, TypeOK, Orderly, OrderlyInv, AdminsStay, AdminRemains,
         IsOrderly, Features
<1> QED
  BY <1>1, InitOrderly, NextOrderly, PTL DEF Spec

\* A disabled account is enabled by the statement that says so, and by no other.
LEMMA WritesAsAsked ==
  ASSUME OrderlyState, Orderly, Next, NEW i \in LiveUsers, ~users[i].enabled, users'[i] # Gone,
         users'[i].enabled, boot.at # "seed"
  PROVE  \E r \in Requests : req[r].at = "write" /\ req[r].id = i /\ req[r].patch.enabled = TRUE
<1>1. OrderlyInv /\ TypedState /\ users[i] # users'[i]
  BY DEF OrderlyState, SeededState
<1>2. PICK r \in Requests : RequestNext(r)
  BY <1>1 DEF Next, BootNext, EnsureAdminRole, SeedUser, SeedUnlink, SeedLink, Stop
<1>3. PICK q \in RequestStates : q = req[r]
  BY <1>1 DEF TypedState, TypeOK
<1>4. KeepsAnAdmin(q)
  BY <1>1, <1>3 DEF OrderlyInv
<1>5. ~Insert(r)
  <2> SUFFICES ASSUME Insert(r) PROVE FALSE
    OBVIOUS
  <2>1. q.at = "insert" /\ q.id \in Ids /\ users[q.id] = None
    BY <1>3, <1>4, HandlerShapes DEF Insert, At, KeepsAnAdmin
  <2>2. i # q.id
    BY <2>1, AccountsAssumption DEF LiveUsers
  <2> QED
    BY <1>1, <1>3, <2>2 DEF Insert, LiveUsers, TypedState, TypeOK
<1>6. ~DeleteUserRow(r)
  <2> SUFFICES ASSUME DeleteUserRow(r) PROVE FALSE
    OBVIOUS
  <2> QED
    BY <1>1 DEF DeleteUserRow, LiveUsers, TypedState, TypeOK
<1>7. Write(r)
  BY <1>1, <1>2, <1>5, <1>6
  DEF RequestNext, Onboard, CreateUser, PutUser, DeleteUser, DeleteRole, CreateRole, PutRole,
      FindRole, Read, Unlink, Link, DeleteRoleRow, WriteRole
<1>8. /\ q \in [at : {"write"}, id : Ids, row : UserRows, patch : Patches]
      /\ q.row = users[q.id]
  BY <1>3, <1>4, <1>7, HandlerShapes DEF Write, At, KeepsAnAdmin
<1>9. q.id = i /\ users'[i] = Merge(users[i], q.patch)
  BY <1>1, <1>3, <1>7, <1>8 DEF Write, Kept, LiveUsers, TypedState, TypeOK
<1>10. q.patch.enabled \in BOOLEAN
  BY <1>8, <1>9 DEF Patches, Patch, Merge
<1>11. q.patch.enabled = TRUE
  BY <1>9, <1>10, AccountsAssumption DEF Merge
<1> QED
  BY <1>3, <1>8, <1>9, <1>11

\* The routes and their statements: on an orderly SQLite server where no request
\* changes what a role grants, only the first account is onboarded, and only a
\* request that says so, or the seeding, enables a disabled account.
THEOREM AccountsChangeOnlyAsAsked ==
  ASSUME \A s \in Servers : "roleEdits" \notin s.features
  PROVE  Spec => AccountsChangeAsAsked
<1>1. OrderlyState /\ [Next]_vars => [IsOrderly => OnboardedFirst /\ DisabledStaysDisabled]_vars
  <2> SUFFICES ASSUME OrderlyState, Next, IsOrderly PROVE OnboardedFirst /\ DisabledStaysDisabled
    BY DEF vars
  <2>1. Orderly /\ OrderlyInv
    BY DEF OrderlyState, SeededState, TypedState, TypeOK, Orderly, IsOrderly, Features
  <2>2. OnboardedFirst
    BY <2>1 DEF OrderlyInv, KeepsAnAdmin, OnboardedFirst
  <2>3. DisabledStaysDisabled
    BY <2>1, WritesAsAsked DEF DisabledStaysDisabled
  <2> QED
    BY <2>2, <2>3
<1> QED
  BY <1>1, InitOrderly, NextOrderly, PTL DEF Spec, AccountsChangeAsAsked
=============================================================================
