-------------------------------- MODULE MCServer --------------------------------
(***************************************************************************)
(* The parts of the server, and what its clients do with them, that meet   *)
(* only in the store's tables: a behaviour is about one of them and the    *)
(* others rest in a first state.                                           *)
(***************************************************************************)
EXTENDS SignIn, Access, Sources, Startup, Desktop

VARIABLE scene

serverVars == <<scene, signInVars, accessVars, sourceVars, startupVars, desktopVars>>

\* A role that shows a workspace and none of its sources.
MCRolePermissions == {Perm(<<"project", "view", "q">>, "read")}
MCAdminPatterns == {Perm(<<"project", "users", "p">>, "write"), Perm(<<"project", "view", "*">>, "read")}

Case(types, paths, one) ==
  [types |-> types, paths |-> paths,
   fills |-> {[f \in paths |-> "k1"], [f \in paths |-> IF f = one THEN Space ELSE ""]}]
S3Case == Case({"s3", "sqlite"}, {"secretKey"}, "secretKey")
MCCases ==
  {S3Case, Case({"mysql", "convex"}, {"password", "adminKey"}, "password"),
   Case({"redis"}, {"password"}, "password"), Case({"cassandra"}, {"password"}, "password"),
   Case({"cockroachdb"}, {"ssh.privateKey"}, "ssh.privateKey"),
   Case({"elasticsearch", "duckdb"}, {"apiKey"}, "apiKey"),
   Case({"mongodb"}, {"ssh.password"}, "ssh.password")}

UserEntry(e, p, r) == [email |-> e, password |-> p, roles |-> r]
SourceEntry(n, c) == [name |-> n, config |-> c]
ProjectEntry(s, n, list) == [slug |-> s, name |-> n, sources |-> list]

\* A role that is no role, an address twice, a project twice, a source twice.
MCFiles ==
  {[users |-> <<UserEntry("a", "p1", {"admin"}), UserEntry("a", "", {"viewer"})>>,
    projects |-> <<ProjectEntry("x", "X", <<SourceEntry("n", "c1"), SourceEntry("m", "c2")>>),
                   ProjectEntry("y", "Y", << >>)>>],
   [users |-> <<UserEntry("b", "p1", {"viewer", "admin"})>>,
    projects |-> <<ProjectEntry("y", "Y", <<SourceEntry("n", "c2"), SourceEntry("n", "c1")>>),
                   ProjectEntry("y", "X", <<SourceEntry("n", "c2")>>)>>],
   [users |-> <<UserEntry("a", "p2", Unset)>>,
    projects |-> <<ProjectEntry("x", "Y", <<SourceEntry("n", "c2")>>), ProjectEntry("default", "Y", << >>)>>]}

SignInRest == SignInInit /\ theme = "tabs" /\ Members = {}
AccessRest == AccessInit /\ driver = "sqlite"
SourcesRest == SourcesInit /\ mode = "server" /\ scope = S3Case
StartupRest == StartupInit /\ file = CHOOSE f \in MCFiles : TRUE
DesktopRest == DesktopInit /\ legacy = "absent"

\* The server's mode matters to the local types only.
SourcesChosen == SourcesInit /\ (mode = "server" \/ scope.types \cap {"sqlite", "duckdb"} # {})

ServerInit ==
  \/ scene = "signIn" /\ SignInInit /\ AccessRest /\ SourcesRest /\ StartupRest /\ DesktopRest
  \/ scene = "access" /\ SignInRest /\ AccessInit /\ SourcesRest /\ StartupRest /\ DesktopRest
  \/ scene = "sources" /\ SignInRest /\ AccessRest /\ SourcesChosen /\ StartupRest /\ DesktopRest
  \/ scene = "startup" /\ SignInRest /\ AccessRest /\ SourcesRest /\ StartupInit /\ DesktopRest
  \/ scene = "desktop" /\ SignInRest /\ AccessRest /\ SourcesRest /\ StartupRest /\ DesktopInit

ServerNext ==
  /\ UNCHANGED scene
  /\ \/ scene = "signIn" /\ SignInNext /\ UNCHANGED <<accessVars, sourceVars, startupVars, desktopVars>>
     \/ scene = "access" /\ AccessNext /\ UNCHANGED <<signInVars, sourceVars, startupVars, desktopVars>>
     \/ scene = "sources" /\ SourcesNext /\ UNCHANGED <<signInVars, accessVars, startupVars, desktopVars>>
     \/ scene = "startup" /\ StartupNext /\ UNCHANGED <<signInVars, accessVars, sourceVars, desktopVars>>
     \/ scene = "desktop" /\ DesktopNext /\ UNCHANGED <<signInVars, accessVars, sourceVars, startupVars>>

ServerSpec == ServerInit /\ [][ServerNext]_serverVars

\* No callback begins the exchange of a state that was exchanged or expired,
\* as GET /api/auth/openid/callback promises (StatesAreSpent of SignIn), and
\* the secrets of a source change as the dialog's users mean it
\* (SecretsAreKept of Sources).
ServerKeepsFaith == [][StatesAreSpent /\ SecretsAreKept]_serverVars
=============================================================================
