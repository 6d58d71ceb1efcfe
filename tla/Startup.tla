-------------------------------- MODULE Startup --------------------------------
(***************************************************************************)
(* The life of a server and its meta store: the migration of an empty      *)
(* store, the default content, the bootstrap file, serving, closing, and a *)
(* crash or a failed start between any two statements.  Each statement     *)
(* that writes is a step; nothing else uses the store meanwhile.  What     *)
(* seeds the first administrator is in Accounts.                           *)
(*                                                                         *)
(* A file lists users [email, password, roles] and projects [slug, name,   *)
(* sources], a source being [name, config]; Absent and Unset stand for     *)
(* what an entry leaves out.                                               *)
(***************************************************************************)
EXTENDS Naturals, Sequences, FiniteSets

CONSTANTS
  Files,        \* the bootstrap files a start may find
  Addresses, Passwords, Slugs, Titles, SourceNames, Configs, RoleSlugs,
  Statements,   \* of the migration
  MaxStarts, MaxRouteCalls    \* bounds

Absent == ""
Unset == {"unset"}

UserEntries == [email : Addresses, password : Passwords \cup {Absent}, roles : (SUBSET RoleSlugs) \cup {Unset}]
SourceEntries == [name : SourceNames, config : Configs]
ProjectEntries == [slug : Slugs, name : Titles, sources : Seq(SourceEntries)]

ASSUME StartupAssumption ==
  /\ {Statements, MaxStarts, MaxRouteCalls} \subseteq Nat /\ Statements > 0
  /\ "admin" \in RoleSlugs /\ "default" \in Slugs /\ IsFiniteSet(Slugs)
  /\ Files \subseteq [users : Seq(UserEntries), projects : Seq(ProjectEntries)]

NoUser == [there |-> FALSE, password |-> Absent, roles |-> {}]
NoProject == [there |-> FALSE, name |-> Absent, position |-> 0, sources |-> [n \in SourceNames |-> Absent]]

VARIABLES
  tables,     \* statements of the migration that ran
  entry,      \* the row in __drizzle_migrations
  roles, people, projects,   \* the store's rows
  phase,      \* of the process
  file,       \* the bootstrap file it read
  at,         \* [i, j]: the entry being applied
  known,      \* existingSources of the project being applied
  starts, routeCalls,
  served      \* history: a server with this store once listened

startupVars == <<tables, entry, roles, people, projects, phase, file, at, known, starts, routeCalls, served>>
rows == <<tables, entry, roles, people, projects>>

Phases == {"down", "migrating", "refused", "content", "users", "roles", "grant", "projects",
           "sources", "failed", "up", "closing", "closed"}

StartupTypeOK ==
  /\ tables \in 0..Statements /\ entry \in BOOLEAN
  /\ roles \subseteq RoleSlugs
  /\ \A e \in Addresses : people[e].roles \subseteq RoleSlugs
  /\ DOMAIN projects = Slugs /\ \A s \in Slugs : projects[s].there \in BOOLEAN
  /\ phase \in Phases /\ file \in Files /\ at \in [i : Nat, j : Nat]
  /\ known \subseteq SourceNames /\ starts \in 0..MaxStarts /\ routeCalls \in 0..MaxRouteCalls
  /\ served \in BOOLEAN

StartupInit ==
  /\ tables = 0 /\ entry = FALSE /\ roles = {}
  /\ people = [e \in Addresses |-> NoUser] /\ projects = [s \in Slugs |-> NoProject]
  /\ phase = "down" /\ file \in Files /\ at = [i |-> 1, j |-> 1] /\ known = {}
  /\ starts = 0 /\ routeCalls = 0 /\ served = FALSE

-----------------------------------------------------------------------------
(* Starting.                                                               *)

\* runMetaMigrations: tables without a migration entry are refused.
AfterConnect_AnyTable == IF tables > 0 THEN "refused" ELSE "migrating"
AfterConnect == IF entry THEN "content" ELSE IF tables > 0 THEN "refused" ELSE "migrating"

Start ==
  /\ phase = "down" /\ starts < MaxStarts
  /\ starts' = starts + 1
  /\ phase' = AfterConnect
  /\ file' \in Files
  /\ UNCHANGED <<rows, at, known, routeCalls, served>>

\* The migrator: the statements, then its own row.
Migrate ==
  /\ phase = "migrating"
  /\ IF tables < Statements
     THEN tables' = tables + 1 /\ UNCHANGED <<entry, phase>>
     ELSE entry' = TRUE /\ phase' = "content" /\ UNCHANGED tables
  /\ UNCHANGED <<roles, people, projects, file, at, known, starts, routeCalls, served>>

\* ensureDefaultMetaContent, before any file.
EnsureAdminRole ==
  /\ phase = "content" /\ "admin" \notin roles
  /\ roles' = roles \cup {"admin"}
  /\ UNCHANGED <<tables, entry, people, projects, phase, file, at, known, starts, routeCalls, served>>

EnsureDefaultProject ==
  /\ phase = "content" /\ "admin" \in roles
  /\ projects' = IF \E s \in Slugs : projects[s].there THEN projects
                 ELSE [projects EXCEPT !["default"] = [NoProject EXCEPT !.there = TRUE, !.name = "Default"]]
  /\ phase' = "users" /\ at' = [i |-> 1, j |-> 1]
  /\ UNCHANGED <<tables, entry, roles, people, file, known, starts, routeCalls, served>>

NextEntry == [i |-> at.i + 1, j |-> 1]

\* applyBootstrapUsers: the user is created or updated.
ApplyUser ==
  /\ phase = "users" /\ at.i <= Len(file.users)
  /\ LET u == file.users[at.i] IN
     /\ people' = [people EXCEPT ![u.email].there = TRUE,
                                 ![u.email].password = IF u.password = Absent THEN @ ELSE u.password]
     /\ IF u.roles = Unset THEN at' = NextEntry /\ UNCHANGED phase
                           ELSE phase' = "roles" /\ UNCHANGED at
  /\ UNCHANGED <<tables, entry, roles, projects, file, known, starts, routeCalls, served>>

\* resolveRoleIds: what names no role is left out.
Resolved(named) == named \cap roles

\* setUserRoleIds: the roles are taken away, then those of the file that are
\* roles of the store are given.
ApplyRoles ==
  LET u == file.users[at.i] IN
  /\ \/ phase = "roles" /\ phase' = "grant" /\ UNCHANGED at
        /\ people' = [people EXCEPT ![u.email].roles = {}]
     \/ phase = "grant" /\ phase' = "users" /\ at' = NextEntry
        /\ people' = [people EXCEPT ![u.email].roles = Resolved(u.roles)]
  /\ UNCHANGED <<tables, entry, roles, projects, file, known, starts, routeCalls, served>>

UsersDone ==
  /\ phase = "users" /\ at.i > Len(file.users)
  /\ phase' = "projects" /\ at' = [i |-> 1, j |-> 1]
  /\ UNCHANGED <<rows, file, known, starts, routeCalls, served>>

\* applyBootstrapProjects: the project, and the names its sources then have.
ApplyProject ==
  /\ phase = "projects" /\ at.i <= Len(file.projects)
  /\ LET p == file.projects[at.i] IN
     /\ projects' = [projects EXCEPT ![p.slug].there = TRUE, ![p.slug].name = p.name,
                                     ![p.slug].position = at.i]
     /\ known' = {n \in SourceNames : projects[p.slug].sources[n] # Absent}
  /\ phase' = "sources"
  /\ UNCHANGED <<tables, entry, roles, people, file, at, starts, routeCalls, served>>

\* A source that is known is updated with the file's configuration.  A name
\* that was not known is inserted: the unique index refuses the second of two
\* entries with one name, and the start fails.
ApplySource ==
  /\ phase = "sources"
  /\ LET p == file.projects[at.i] IN
     IF at.j > Len(p.sources)
     THEN at' = NextEntry /\ phase' = "projects" /\ UNCHANGED projects
     ELSE LET e == p.sources[at.j] IN
          IF e.name \notin known /\ projects[p.slug].sources[e.name] # Absent
          THEN phase' = "failed" /\ UNCHANGED <<projects, at>>
          ELSE /\ projects' = [projects EXCEPT ![p.slug].sources[e.name] = e.config]
               /\ at' = [at EXCEPT !.j = @ + 1] /\ UNCHANGED phase
  /\ UNCHANGED <<tables, entry, roles, people, file, known, starts, routeCalls, served>>

Applied == phase = "projects" /\ at.i > Len(file.projects)

\* startBackendServer listens; the port may be taken.
Listen ==
  /\ Applied
  /\ \/ phase' = "up" /\ served' = TRUE
     \/ phase' = "failed" /\ UNCHANGED served
  /\ UNCHANGED <<rows, file, at, known, starts, routeCalls>>

\* The process ends: refused, failed or closed; or it is killed.
Exit ==
  /\ phase # "down"
  /\ phase' = "down" /\ known' = {} /\ at' = [i |-> 1, j |-> 1]
  /\ UNCHANGED <<rows, file, starts, routeCalls, served>>

\* close ends the tunnels and the store before the server stops listening: a
\* request that comes meanwhile finds no store and fails.
Close ==
  /\ phase \in {"up", "closing"}
  /\ phase' = IF phase = "up" THEN "closing" ELSE "closed"
  /\ UNCHANGED <<rows, file, at, known, starts, routeCalls, served>>

-----------------------------------------------------------------------------
(* The routes, while the store is open.                                    *)

RouteCall ==
  /\ phase = "up" /\ routeCalls < MaxRouteCalls /\ routeCalls' = routeCalls + 1
  /\ UNCHANGED <<tables, entry, phase, file, at, known, starts, served>>

CreateProject(s, name) ==
  /\ RouteCall /\ ~projects[s].there
  /\ projects' = [projects EXCEPT ![s] = [NoProject EXCEPT !.there = TRUE, !.name = name,
                    !.position = Cardinality({t \in Slugs : projects[t].there})]]
  /\ UNCHANGED <<roles, people>>

\* PUT: a new name, and a new slug unless another project has it.
UpdateProject(s, slug, name) ==
  /\ RouteCall /\ projects[s].there /\ (slug = s \/ ~projects[slug].there)
  /\ projects' = [[projects EXCEPT ![s] = NoProject] EXCEPT ![slug] = [projects[s] EXCEPT !.name = name]]
  /\ UNCHANGED <<roles, people>>

\* Its sources go with it (on delete cascade).
DeleteProject(s) ==
  /\ RouteCall /\ projects[s].there
  /\ projects' = [projects EXCEPT ![s] = NoProject]
  /\ UNCHANGED <<roles, people>>

\* A source is created, changed or deleted by its own routes.
ChangeSource(s, n, config) ==
  /\ RouteCall /\ projects[s].there /\ projects[s].sources[n] # config
  /\ projects' = [projects EXCEPT ![s].sources[n] = config]
  /\ UNCHANGED <<roles, people>>

\* An administrator removes a user, or creates or deletes a role.
DropUser(e) ==
  /\ RouteCall /\ people[e].there
  /\ people' = [people EXCEPT ![e] = NoUser]
  /\ UNCHANGED <<roles, projects>>

ChangeRole(r) ==
  /\ RouteCall /\ r # "admin"
  /\ roles' = IF r \in roles THEN roles \ {r} ELSE roles \cup {r}
  /\ people' = [e \in Addresses |-> [people[e] EXCEPT !.roles = @ \cap roles']]
  /\ UNCHANGED projects

StartupNext ==
  \/ Start \/ Migrate \/ EnsureAdminRole \/ EnsureDefaultProject \/ ApplyUser \/ ApplyRoles \/ UsersDone
  \/ ApplyProject \/ ApplySource \/ Listen \/ Exit \/ Close
  \/ \E s \in Slugs, n \in Titles : CreateProject(s, n)
  \/ \E s, t \in Slugs, n \in Titles : UpdateProject(s, t, n)
  \/ \E s \in Slugs : DeleteProject(s)
  \/ \E s \in Slugs, n \in SourceNames, c \in Configs \cup {Absent} : ChangeSource(s, n, c)
  \/ \E e \in Addresses : DropUser(e)
  \/ \E r \in RoleSlugs : ChangeRole(r)

-----------------------------------------------------------------------------
UserIsApplied(e) ==
  LET mine == {i \in DOMAIN file.users : file.users[i].email = e}
      secret == {i \in mine : file.users[i].password # Absent}
      named == {i \in mine : file.users[i].roles # Unset}
      last(S) == file.users[CHOOSE i \in S : \A k \in S : k <= i] IN
  mine # {} =>
    /\ people[e].there
    /\ secret # {} => people[e].password = last(secret).password
    /\ named # {} => people[e].roles = last(named).roles \cap roles

ProjectIsApplied(s) ==
  LET mine == {i \in DOMAIN file.projects : file.projects[i].slug = s}
      last(S) == CHOOSE i \in S : \A k \in S : k <= i IN
  mine # {} =>
    /\ projects[s].there
    /\ projects[s].name = file.projects[last(mine)].name /\ projects[s].position = last(mine)

\* Each source the file gives a project has the configuration of its last entry.
SourcesAreApplied ==
  \A i \in DOMAIN file.projects : \A j \in DOMAIN file.projects[i].sources :
    LET s == file.projects[i].slug  e == file.projects[i].sources[j] IN
    (\A k \in i..Len(file.projects) : file.projects[k].slug = s =>
       \A l \in DOMAIN file.projects[k].sources :
         (k > i \/ l > j) => file.projects[k].sources[l].name # e.name)
      => projects[s].sources[e.name] = e.config

\* Before the server listens, the store has everything the file names as the
\* file has it, whatever the starts before it left unfinished, whatever other
\* files they read and whatever the routes changed since.
FileIsApplied ==
  Applied => (\A e \in Addresses : UserIsApplied(e)) /\ (\A s \in Slugs : ProjectIsApplied(s)) /\ SourcesAreApplied

\* A store that a server has served from is never refused by a later start,
\* and has an admin role and, when a server starts to listen, a project.
StoreStaysUsable ==
  /\ served => phase # "refused"
  /\ Applied => "admin" \in roles /\ \E s \in Slugs : projects[s].there

\* A start that is over leaves the store as the file says and fit to serve
\* from.
StoreIsRestored == StartupTypeOK /\ FileIsApplied /\ StoreStaysUsable
=============================================================================
