-------------------------------- MODULE Access --------------------------------
(***************************************************************************)
(* What a user may do in a workspace: permission patterns and how routes   *)
(* match them, the access a workspace manager gives (none, read or write), *)
(* the dialog that shows and sets it, and the admin view, which edits the  *)
(* same permissions as a whole.                                            *)
(*                                                                         *)
(* One user is followed, with permissions of its own, which the dialogs    *)
(* write, and those of its roles, which count beside them.  A permission is a path, split at  *)
(* the dots, with an access ("any" when it has no suffix).  The server     *)
(* handles a call when its answer arrives, and answers come in any order;  *)
(* only the two statements of a PUT are kept apart, with MySQL.            *)
(***************************************************************************)
EXTENDS Naturals, Sequences, FiniteSets

CONSTANTS
  Projects,
  Sources,       \* of every project
  AdminPatterns, \* what the admin view may add to or take from the user
  RolePermissions, \* what the user's roles grant; they keep their permissions
  MaxAccessSteps \* bound: what the two dialogs start

ASSUME AccessAssumption == MaxAccessSteps \in Nat /\ "*" \notin Projects

Perm(path, access) == [path |-> path, access |-> access]

VARIABLES
  driver,      \* of the meta store
  direct,      \* the user's own permissions
  puts,        \* PUT handlers between their statements: what each read
  calls,       \* calls of the browser that were not answered
  dlg,         \* ManageProjectUsersDialog
  admin,       \* useAdminView: the loaded user, and the dialog's copy
  accessSteps,
  granted,     \* history: what was last set for each workspace
  crossed      \* history: a late answer of another workspace reached the dialog

accessVars == <<driver, direct, puts, calls, dlg, admin, accessSteps, granted, crossed>>

Levels == {"none", "read", "write"}
Unloaded == {Perm(<<"unloaded">>, "any")}

-----------------------------------------------------------------------------
(* Patterns.                                                               *)

\* permissionPatternMatches: a star stands for any characters, dots included.
\* rest[i]: where in the path the pattern's names from i on may begin.
PathMatches(pattern, path) ==
  LET rest[i \in 1..Len(pattern) + 1] ==
        IF i > Len(pattern) THEN {Len(path) + 1}
        ELSE {j \in 1..Len(path) : IF pattern[i] = "*" THEN \E k \in rest[i + 1] : k > j
                                   ELSE pattern[i] = path[j] /\ j + 1 \in rest[i + 1]}
  IN  1 \in rest[1]

PatternMatches(p, required) ==
  /\ PathMatches(p.path, required.path)
  /\ required.access = "any" \/ p.access \in {"any", required.access}

HasAny(perms, targets) == \E p \in perms, t \in targets : PatternMatches(p, t)

ProjectTargets(p, action, a) ==
  {Perm(<<"project", action>>, a), Perm(<<"project", action, "*">>, a)}
    \cup (IF action = "create" THEN {} ELSE {Perm(<<"project", action, p>>, a)})

SourceTargets(p, s, action, a) ==
  {Perm(<<"datasource", action>> \o rest, a) : rest \in {<< >>, <<"*">>, <<p, "*">>, <<p, s>>}}

ProjectSourceTargets(p, s, a) ==
  {Perm(<<"project", "manage", p, "datasources">> \o rest, a) : rest \in {<< >>, <<"*">>, <<s>>}}

SourceReadTargets(p, s) ==
  (UNION {ProjectSourceTargets(p, s, a) : a \in {"read", "write"}})
    \cup (UNION {SourceTargets(p, s, action, "write") : action \in {"query", "manage", "table.edit"}})
    \cup (UNION {SourceTargets(p, s, action, "read") : action \in {"view", "query"}})
    \cup ProjectTargets(p, "manage", "write")

SourceWriteTargets(p, s) ==
  ProjectSourceTargets(p, s, "write")
    \cup (UNION {SourceTargets(p, s, action, "write") : action \in {"query", "manage", "table.edit"}})
    \cup ProjectTargets(p, "manage", "write")

SourceConfigTargets(p, s) ==
  ProjectSourceTargets(p, s, "write") \cup SourceTargets(p, s, "manage", "write")
    \cup ProjectTargets(p, "manage", "write")

\* canViewProject.
ViewProjectTargets(p) ==
  (UNION {ProjectTargets(p, action, "any") : action \in {"view", "manage", "users"}}) \cup SourceReadTargets(p, "*")

-----------------------------------------------------------------------------
(* A workspace's access.                                                   *)

ReadGrants(p) ==
  {Perm(<<"project", "view", p>>, "read"), Perm(<<"project", "manage", p, "datasources", "*">>, "read"),
   Perm(<<"datasource", "view", p, "*">>, "read"), Perm(<<"datasource", "query", p, "*">>, "read")}

WriteGrants(p) ==
  {Perm(<<"project", "manage", p>>, "write"), Perm(<<"project", "users", p>>, "write"),
   Perm(<<"project", "manage", p, "datasources", "*">>, "write")}
    \cup {Perm(<<"datasource", action, p, "*">>, "write") : action \in {"query", "manage", "table.edit"}}

\* buildProjectAccessPermissions.
AccessPermissions(p, level) ==
  (IF level = "none" THEN {} ELSE ReadGrants(p)) \cup (IF level = "write" THEN WriteGrants(p) ELSE {})

\* managedProjectPermissionBases: what applyProjectUserAccess takes away.
ManagedBases_NoUsers(p) ==
  {g.path : g \in ReadGrants(p) \cup WriteGrants(p)} \ {<<"project", "users", p>>}
ManagedBases(p) ==
  {g.path : g \in ReadGrants(p) \cup WriteGrants(p)} \cup {<<"project", "manage", p, "datasources">>}

ApplyAccess(perms, p, level) ==
  {g \in perms : g.path \notin ManagedBases(p)} \cup AccessPermissions(p, level)

\* getProjectUserAccess.
AccessOf(perms, p) ==
  LET writes == (UNION {ProjectTargets(p, action, "write") : action \in {"manage", "users"}})
                  \cup (ProjectSourceTargets(p, "*", "write"))
                  \cup (UNION {SourceTargets(p, "*", action, "write") : action \in {"query", "manage", "table.edit"}})
      reads == ProjectTargets(p, "view", "read") \cup ProjectSourceTargets(p, "*", "read")
                  \cup (UNION {SourceTargets(p, "*", action, "read") : action \in {"view", "query"}})
  IN IF HasAny(perms, writes) THEN "write" ELSE IF HasAny(perms, reads) THEN "read" ELSE "none"

\* The user's own permissions and its roles', which every route asks.
Effective == direct \cup RolePermissions

-----------------------------------------------------------------------------
AccessTypeOK ==
  /\ driver \in {"sqlite", "mysql"}
  /\ \A g \in direct : g.access \in {"any", "read", "write"}
  /\ \A i \in DOMAIN puts : puts[i].project \in Projects /\ puts[i].level \in Levels
  /\ \A i \in DOMAIN calls : calls[i].kind \in {"members", "put", "bootstrap", "saveUser"}
  /\ dlg.visible \in BOOLEAN /\ dlg.project \in Projects \cup {"none"}
  /\ dlg.shown \in Levels \cup {"unknown"} /\ dlg.saving \in BOOLEAN
  /\ accessSteps \in 0..MaxAccessSteps
  /\ granted \in [Projects -> Levels \cup {"unset"}] /\ crossed \in BOOLEAN

AccessInit ==
  /\ driver \in {"sqlite", "mysql"}
  /\ direct = {} /\ puts = << >> /\ calls = << >>
  /\ dlg = [visible |-> FALSE, project |-> "none", shown |-> "unknown", saving |-> FALSE]
  /\ admin = [loaded |-> Unloaded, form |-> Unloaded]
  /\ accessSteps = 0
  /\ granted = [p \in Projects |-> "unset"] /\ crossed = FALSE

Call(kind, p, level, perms) == [kind |-> kind, project |-> p, level |-> level, perms |-> perms]
Send(c) == calls' = Append(calls, c)
Begin == accessSteps < MaxAccessSteps /\ accessSteps' = accessSteps + 1

\* The dialog is opened for a workspace, and loads its users.
OpenMembers(p) ==
  /\ Begin /\ ~dlg.visible
  /\ dlg' = [dlg EXCEPT !.visible = TRUE, !.project = p]
  /\ Send(Call("members", p, "none", {}))
  /\ crossed' = FALSE
  /\ UNCHANGED <<driver, direct, puts, admin, granted>>

CloseMembers ==
  /\ dlg.visible /\ dlg' = [dlg EXCEPT !.visible = FALSE]
  /\ UNCHANGED <<driver, direct, puts, calls, admin, accessSteps, granted, crossed>>

\* applyAccess, for a user that is listed.
SetAccess(level) ==
  /\ Begin /\ dlg.visible /\ dlg.shown # "unknown" /\ ~dlg.saving
  /\ dlg.shown = "none" => level # "none"
  /\ dlg' = [dlg EXCEPT !.saving = TRUE]
  /\ Send(Call("put", dlg.project, level, {}))
  /\ UNCHANGED <<driver, direct, puts, admin, granted, crossed>>

\* loadBootstrap of the admin view.
LoadAdmin ==
  /\ Begin /\ Send(Call("bootstrap", "none", "none", {}))
  /\ UNCHANGED <<driver, direct, puts, dlg, admin, granted, crossed>>

\* openEditUserDialog: the dialog copies what was loaded.
OpenEditUser ==
  /\ admin.loaded # Unloaded
  /\ admin' = [admin EXCEPT !.form = admin.loaded]
  /\ UNCHANGED <<driver, direct, puts, calls, dlg, accessSteps, granted, crossed>>

EditUser(pattern, add) ==
  /\ admin.form # Unloaded
  /\ admin' = [admin EXCEPT !.form = IF add THEN @ \cup {pattern} ELSE @ \ {pattern}]
  /\ UNCHANGED <<driver, direct, puts, calls, dlg, accessSteps, granted, crossed>>

\* saveUser sends the copy; the dialog stays open until the answer.
SaveUser ==
  /\ Begin /\ admin.form # Unloaded
  /\ Send(Call("saveUser", "none", "none", admin.form))
  /\ UNCHANGED <<driver, direct, puts, dlg, admin, granted, crossed>>

-----------------------------------------------------------------------------
(* The server, and what the browser does with an answer.                   *)

Without(i) == [j \in 1..(Len(calls) - 1) |-> IF j < i THEN calls[j] ELSE calls[j + 1]]

\* The answer replaces the entry of the list that is shown, whichever it is.
Shows(p, level) ==
  /\ dlg' = [dlg EXCEPT !.shown = level]
  /\ crossed' = (crossed \/ p # dlg.project)

AnswerMembers(i) ==
  /\ calls[i].kind = "members"
  /\ calls' = Without(i)
  /\ Shows(calls[i].project, AccessOf(Effective, calls[i].project))
  /\ UNCHANGED <<driver, direct, puts, admin, accessSteps, granted>>

\* PUT /api/projects/:projectId/users/:userId up to its write, which is of the user's own
\* permissions.
ReadUser(i) ==
  /\ calls[i].kind = "put"
  /\ driver = "sqlite" => puts = << >>
  /\ calls' = Without(i)
  /\ puts' = Append(puts, [project |-> calls[i].project, level |-> calls[i].level, read |-> direct])
  /\ UNCHANGED <<driver, direct, dlg, admin, accessSteps, granted, crossed>>

\* The PUT's answer computes the access again, from what was written.
ShownAfter(put, perms) == IF dlg.shown = "unknown" THEN "unknown" ELSE AccessOf(perms, put.project)

WriteAccess(i) ==
  LET put == puts[i] IN
  /\ direct' = ApplyAccess(put.read, put.project, put.level)
  /\ puts' = [j \in 1..(Len(puts) - 1) |-> IF j < i THEN puts[j] ELSE puts[j + 1]]
  /\ granted' = [granted EXCEPT ![put.project] = put.level]
  /\ dlg' = [dlg EXCEPT !.saving = FALSE, !.shown = ShownAfter(put, Effective')]
  /\ crossed' = (crossed \/ put.project # dlg.project)
  /\ UNCHANGED <<driver, calls, admin, accessSteps>>

AnswerBootstrap(i) ==
  /\ calls[i].kind = "bootstrap"
  /\ calls' = Without(i)
  /\ admin' = [admin EXCEPT !.loaded = direct]
  /\ UNCHANGED <<driver, direct, puts, dlg, accessSteps, granted, crossed>>

\* PUT /api/admin/users/:userId writes the permissions as a whole: what a
\* workspace was given meanwhile is gone.  The view then loads again.
AnswerSaveUser(i) ==
  /\ calls[i].kind = "saveUser"
  /\ driver = "sqlite" => puts = << >>
  /\ direct' = calls[i].perms
  /\ calls' = Append(Without(i), Call("bootstrap", "none", "none", {}))
  /\ admin' = [admin EXCEPT !.form = Unloaded]
  /\ granted' = [p \in Projects |-> "unset"]
  /\ UNCHANGED <<driver, puts, dlg, accessSteps, crossed>>

AccessNext ==
  \/ \E p \in Projects : OpenMembers(p)
  \/ \E level \in Levels : SetAccess(level)
  \/ \E pattern \in AdminPatterns, add \in BOOLEAN : EditUser(pattern, add)
  \/ CloseMembers \/ LoadAdmin \/ OpenEditUser \/ SaveUser
  \/ \E i \in DOMAIN calls : AnswerMembers(i) \/ ReadUser(i) \/ AnswerBootstrap(i) \/ AnswerSaveUser(i)
  \/ \E i \in DOMAIN puts : WriteAccess(i)

-----------------------------------------------------------------------------
NamesWorkspaces(perms) == \A g \in perms : \E i \in DOMAIN g.path : g.path[i] \in Projects

Higher(level, other) ==
  IF "write" \in {level, other} THEN "write" ELSE IF "read" \in {level, other} THEN "read" ELSE "none"

\* The routes allow what the user was given itself or what its roles grant, and nothing else.
AllowedIff(own, targets) == HasAny(Effective, targets) <=> own \/ HasAny(RolePermissions, targets)

\* With SQLite, the access a manager sets is, together with what the user's
\* roles grant, what the routes then allow, and the access of other
\* workspaces stays, until an administrator saves the user: read may see
\* every source and configure none, write may configure them all, none adds
\* nothing to the roles.  (A permission of the user's own for all workspaces,
\* which only an administrator gives, stays whatever a workspace's manager sets.)
AccessIsAsGranted ==
  driver = "sqlite" /\ NamesWorkspaces(direct) => \A p \in Projects : granted[p] # "unset" =>
    /\ AccessOf(Effective, p) = Higher(granted[p], AccessOf(RolePermissions, p))
    /\ AllowedIff(granted[p] # "none", ViewProjectTargets(p))
    /\ \A s \in Sources :
         /\ AllowedIff(granted[p] # "none", SourceReadTargets(p, s))
         /\ AllowedIff(granted[p] = "write", SourceWriteTargets(p, s))
         /\ AllowedIff(granted[p] = "write", SourceConfigTargets(p, s))

\* When everything is answered, the dialog shows the access the user has in
\* its workspace, by itself or through its roles, unless a late answer of another
\* workspace's dialog reached it or an administrator saved the user since.
ShownAccessIsTrue ==
  (dlg.visible /\ calls = << >> /\ puts = << >> /\ ~crossed /\ granted[dlg.project] # "unset")
    => dlg.shown = AccessOf(Effective, dlg.project)

\* What a manager set is what the routes allow and what the dialog shows.
AccessIsTrue == AccessTypeOK /\ AccessIsAsGranted /\ ShownAccessIsTrue
=============================================================================
