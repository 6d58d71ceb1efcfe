---------------------------- MODULE ServerProofs ----------------------------
(***************************************************************************)
(* The parts of the server, one after the other, and then the whole.       *)
(* The desktop app's backends: a URL that a window was given stays served  *)
(* until the app quits, for any number of windows, launches and backends.  *)
(* The life of a server's store, for any bootstrap files, rows and numbers *)
(* of starts: a start that gets to listen has applied the whole of its     *)
(* file, and a store that was served from is never refused.                *)
(* The secrets of the data sources, for any browsers, sources, secrets and *)
(* requests under way: none reaches a browser whose user did not type it,  *)
(* and a stored one changes only as a dialog that was submitted says.      *)
(* Signing in, for any accounts, people, states, tabs and times: one       *)
(* account answers to a person, a spent login state begins no exchange, a  *)
(* tab sends the last token it stored, and guesses are bounded.            *)
(* Access to workspaces, for any workspaces, sources and users under edit: *)
(* what a manager sets is what the routes allow and the dialog shows.      *)
(***************************************************************************)
EXTENDS MCServer, PositionsProofs

-----------------------------------------------------------------------------
(* The desktop app.                                                        *)

DesktopSpec == DesktopInit /\ [][DesktopNext]_desktopVars

-----------------------------------------------------------------------------
(* The inductive invariant.                                                *)

\* A call that starts a backend starts one of its own, one that closes a
\* backend does so only while the app quits, and until then the backend that
\* the app refers to is up: hasRunningLocalBackend is then the question
\* whether there is one.
CallsAgree ==
  /\ localBackend # None =>
       backends[localBackend] \in IF quitting = "no" THEN {"up"} ELSE {"up", "down"}
  /\ \A c \in Callers :
       /\ callers[c].at = "starting" =>
            callers[c].starts \in Backends /\ backends[callers[c].starts] = "starting"
       /\ callers[c].at = "closing" =>
            quitting = "closing" /\ callers[c].starts \in Backends
            /\ backends[callers[c].starts] \in {"up", "down"}
  /\ \A c, d \in Callers :
       (callers[c].at = "starting" /\ callers[d].at = "starting"
         /\ callers[c].starts = callers[d].starts) => c = d

\* Only a folder that exists is being copied.
CopyIsOfLegacy == userData = "copying" => legacy # "absent"

DesktopInv == DesktopTypeOK /\ HandedUrlIsServed /\ CallsAgree /\ CopyIsOfLegacy

\* The bounds of the model are numbers.
LEMMA BoundsAreNumbers == MaxBackends \in Nat /\ MaxLaunches \in Nat
BY DesktopAssumption

\* Before the first launch nothing runs.
LEMMA DesktopInitInv == DesktopInit => DesktopInv
<1> SUFFICES ASSUME DesktopInit PROVE DesktopInv
  OBVIOUS
<1> USE BoundsAreNumbers DEF DesktopInit, NoProcess, Idle, None
<1>1. callers \in [Callers -> [at : {"idle", "closing", "starting", "done"}, starts : {None} \cup Backends]]
  BY DEF DesktopTypeOK
<1>2. DesktopTypeOK
  <2>1. launches \in 0..MaxLaunches
    OBVIOUS
  <2>2. backends \in [Backends -> {"unused", "starting", "up", "down"}]
    OBVIOUS
  <2> QED
    BY <1>1, <2>1, <2>2 DEF DesktopTypeOK
<1>3. HandedUrlIsServed /\ CallsAgree /\ CopyIsOfLegacy
  BY DEF HandedUrlIsServed, CallsAgree, CopyIsOfLegacy
<1> QED
  BY <1>2, <1>3 DEF DesktopInv

\* When the process has ended, the next one starts from nothing.
LEMMA EndedInv ==
  ASSUME DesktopInv, ProcessEnds, launches' = launches, legacy' = legacy,
         userData' = userData, disk' \in {disk, "torn"}
  PROVE DesktopInv'
<1> USE BoundsAreNumbers DEF DesktopInv, ProcessEnds, Idle, None
<1>1. DesktopTypeOK'
  BY DEF DesktopTypeOK
<1>2. HandedUrlIsServed' /\ CallsAgree' /\ CopyIsOfLegacy'
  BY DEF HandedUrlIsServed, CallsAgree, CopyIsOfLegacy
<1> QED
  BY <1>1, <1>2

\* What only touches the files leaves the process as it is.
LEMMA FilesInv ==
  ASSUME DesktopInv, UNCHANGED process, DesktopTypeOK', CopyIsOfLegacy'
  PROVE DesktopInv'
BY DEF DesktopInv, HandedUrlIsServed, CallsAgree, process

-----------------------------------------------------------------------------
(* Every step keeps it.                                                    *)

\* The next backend to be started was not used.
LEMMA FreshIsUnused ==
  ASSUME NEW b \in Backends, IsFresh(b)
  PROVE backends[b] = "unused"
<1>1. b \in Nat
  BY BoundsAreNumbers DEF Backends
<1>2. ~(b < b)
  BY <1>1
<1> QED
  BY <1>2 DEF IsFresh

\* A backend that nobody was given yet is started for one call: all that is
\* handed out or being started is another one.
LEMMA StartInv ==
  ASSUME DesktopInv, NEW c \in Callers, StartAnother(c), callers[c].at # "starting",
         UNCHANGED <<running, launches, files, localBackend, handed, quitting>>
  PROVE DesktopInv'
<1> USE BoundsAreNumbers DEF DesktopInv, None, files
<1>1. PICK b \in Backends :
        /\ backends[b] = "unused"
        /\ backends' = [backends EXCEPT ![b] = "starting"]
        /\ callers' = [callers EXCEPT ![c] = [at |-> "starting", starts |-> b]]
  BY FreshIsUnused DEF StartAnother
<1>2. DesktopTypeOK'
  BY <1>1 DEF DesktopTypeOK
<1>3. HandedUrlIsServed'
  BY <1>1 DEF HandedUrlIsServed, DesktopTypeOK
<1>4. CallsAgree'
  BY <1>1 DEF CallsAgree, DesktopTypeOK
<1> QED
  BY <1>2, <1>3, <1>4 DEF CopyIsOfLegacy

\* A window's call is answered from the running backend, or starts one.
LEMMA AskInv == ASSUME DesktopInv, NEW c \in Callers, AskBackend(c) PROVE DesktopInv'
<1> USE BoundsAreNumbers DEF None, files
<1>1. CASE ~MustStart
  <2>1. localBackend \in Backends /\ backends[localBackend] = "up"
    BY <1>1 DEF MustStart, IsListening, DesktopInv, DesktopTypeOK
  <2>2. handed' \subseteq handed \cup {localBackend}
    BY <1>1 DEF AskBackend
  <2>3. UNCHANGED <<running, launches, files, localBackend, backends, callers, quitting>>
    BY <1>1 DEF AskBackend
  <2> QED
    BY <2>1, <2>2, <2>3 DEF DesktopInv, DesktopTypeOK, HandedUrlIsServed, CallsAgree, CopyIsOfLegacy
<1>2. CASE MustStart /\ localBackend # None
  <2>1. callers' = [callers EXCEPT ![c] = [at |-> "closing", starts |-> localBackend]]
    BY <1>2 DEF AskBackend
  <2>2. UNCHANGED <<running, launches, files, localBackend, backends, handed, quitting>>
    BY <1>2 DEF AskBackend
  <2>3. quitting = "closing" /\ localBackend \in Backends
    BY <1>2 DEF MustStart, IsListening, DesktopInv, DesktopTypeOK, CallsAgree
  <2>4. backends[localBackend] \in {"up", "down"}
    BY <1>2 DEF DesktopInv, CallsAgree
  <2> QED
    BY <2>1, <2>2, <2>3, <2>4 DEF DesktopInv, DesktopTypeOK, HandedUrlIsServed, CallsAgree, CopyIsOfLegacy
<1>3. CASE MustStart /\ localBackend = None
  <2>1. StartAnother(c) /\ UNCHANGED <<running, launches, files, localBackend, handed, quitting>>
    BY <1>3 DEF AskBackend
  <2>2. callers[c].at # "starting"
    BY DEF AskBackend, Idle
  <2> QED
    BY <2>1, <2>2, StartInv
<1> QED
  BY <1>1, <1>2, <1>3

\* What a quitting app does with a stale backend takes nothing from a window.
LEMMA StaleInv == ASSUME DesktopInv, NEW c \in Callers, StaleClosed(c) PROVE DesktopInv'
<1> USE BoundsAreNumbers DEF DesktopInv, None, files
<1>1. PICK b \in Backends :
        /\ backends[b] = "unused"
        /\ backends' = [backends EXCEPT ![callers[c].starts] = "down", ![b] = "starting"]
        /\ callers' = [callers EXCEPT ![c] = [at |-> "starting", starts |-> b]]
  BY FreshIsUnused DEF StaleClosed
<1>2. callers[c].at = "closing" /\ localBackend' = None
      /\ UNCHANGED <<running, launches, files, handed, quitting>>
  BY DEF StaleClosed
<1>3. callers[c].starts \in Backends /\ callers[c].starts # b /\ quitting = "closing"
      /\ backends[callers[c].starts] \in {"up", "down"}
  BY <1>1, <1>2 DEF CallsAgree
<1>4. DesktopTypeOK'
  BY <1>1, <1>2, <1>3 DEF DesktopTypeOK
<1>5. HandedUrlIsServed'
  BY <1>2, <1>3 DEF HandedUrlIsServed
<1>6. CallsAgree'
  BY <1>1, <1>2, <1>3 DEF CallsAgree, DesktopTypeOK
<1> QED
  BY <1>2, <1>4, <1>5, <1>6 DEF CopyIsOfLegacy

\* The backend that a call started is up when the window gets its URL.
LEMMA StartedInv == ASSUME DesktopInv, NEW c \in Callers, Started(c) PROVE DesktopInv'
<1> USE BoundsAreNumbers DEF DesktopInv, None, files, Asked
<1> DEFINE b == callers[c].starts
<1>1. b \in Backends /\ backends[b] = "starting" /\ callers[c].at = "starting"
  BY DEF Started, CallsAgree
<1>2. DesktopTypeOK'
  BY <1>1 DEF Started, DesktopTypeOK
<1>3. HandedUrlIsServed'
  BY <1>1 DEF Started, HandedUrlIsServed, DesktopTypeOK
<1>4. CallsAgree'
  BY <1>1 DEF Started, CallsAgree, DesktopTypeOK
<1> QED
  BY <1>2, <1>3, <1>4 DEF Started, CopyIsOfLegacy

\* A start that fails takes away a backend that nobody was given.
LEMMA StartFailsInv == ASSUME DesktopInv, NEW c \in Callers, StartFails(c) PROVE DesktopInv'
<1> USE BoundsAreNumbers DEF DesktopInv, None, files, Asked
<1> DEFINE b == callers[c].starts
<1>1. b \in Backends /\ backends[b] = "starting" /\ callers[c].at = "starting"
  BY DEF StartFails, CallsAgree
<1>2. DesktopTypeOK'
  BY <1>1 DEF StartFails, DesktopTypeOK
<1>3. HandedUrlIsServed'
  BY <1>1 DEF StartFails, HandedUrlIsServed, DesktopTypeOK
<1>4. CallsAgree'
  BY <1>1 DEF StartFails, CallsAgree, DesktopTypeOK
<1> QED
  BY <1>2, <1>3, <1>4 DEF StartFails, CopyIsOfLegacy

\* Launching, quitting, being killed, and reading and writing the files.
LEMMA AppInv ==
  ASSUME DesktopInv,
         \/ Launch \/ CopyLegacy \/ Kill \/ BeforeQuit \/ StopListening \/ Quit
         \/ LoadConfig \/ Saved \/ \E config \in WindowConfigs : SaveConfig(config)
  PROVE DesktopInv'
<1> USE BoundsAreNumbers DEF None
<1>1. CASE Launch
  BY <1>1, FilesInv DEF Launch, DesktopInv, DesktopTypeOK, CopyIsOfLegacy, process
<1>2. CASE CopyLegacy
  BY <1>2, FilesInv DEF CopyLegacy, DesktopInv, DesktopTypeOK, CopyIsOfLegacy, process
<1>3. CASE Kill
  BY <1>3, EndedInv DEF Kill
<1>4. CASE Quit
  BY <1>4, EndedInv DEF Quit
<1>5. CASE BeforeQuit
  BY <1>5 DEF BeforeQuit, DesktopInv, DesktopTypeOK, HandedUrlIsServed, CallsAgree, CopyIsOfLegacy, files
<1>6. CASE StopListening
  <2>1. quitting' = "closing" /\ localBackend \in Backends /\ backends[localBackend] = "up"
    BY <1>6 DEF StopListening, IsListening, DesktopInv, DesktopTypeOK
  <2> QED
    BY <1>6, <2>1 DEF StopListening, DesktopInv, DesktopTypeOK, HandedUrlIsServed, CallsAgree, CopyIsOfLegacy, files
<1>7. CASE LoadConfig
  BY <1>7, FilesInv DEF LoadConfig, DesktopInv, DesktopTypeOK, CopyIsOfLegacy, process
<1>8. CASE Saved
  BY <1>8, FilesInv DEF Saved, DesktopInv, DesktopTypeOK, CopyIsOfLegacy, process
<1>9. ASSUME NEW config \in WindowConfigs, SaveConfig(config) PROVE DesktopInv'
  BY <1>9, FilesInv DEF SaveConfig, DesktopInv, DesktopTypeOK, CopyIsOfLegacy, process
<1> QED
  BY <1>1, <1>2, <1>3, <1>4, <1>5, <1>6, <1>7, <1>8, <1>9

\* The invariant is inductive.
LEMMA DesktopStepInv == DesktopInv /\ [DesktopNext]_desktopVars => DesktopInv'
<1> SUFFICES ASSUME DesktopInv, [DesktopNext]_desktopVars PROVE DesktopInv'
  OBVIOUS
<1>1. CASE UNCHANGED desktopVars
  BY <1>1, FilesInv DEF desktopVars, process, DesktopInv, DesktopTypeOK, CopyIsOfLegacy
<1>2. CASE DesktopNext
  BY <1>2, AppInv, AskInv, StaleInv, StartedInv, StartFailsInv DEF DesktopNext
<1> QED
  BY <1>1, <1>2

\* Until the app quits no window's URL goes dead (BackendIsSafe of the run
\* server): whatever windows ask at once and however starts fail.
THEOREM UrlsStayServed == DesktopSpec => []BackendIsSafe
<1>1. DesktopInv => BackendIsSafe
  BY DEF DesktopInv, BackendIsSafe
<1> QED
  BY <1>1, DesktopInitInv, DesktopStepInv, PTL DEF DesktopSpec
-----------------------------------------------------------------------------
(* The store of the server and its bootstrap files.                        *)

StartupSpec == StartupInit /\ [][StartupNext]_startupVars

-----------------------------------------------------------------------------
(* The inductive invariant.                                                *)

People == [there : BOOLEAN, password : Passwords \cup {Absent}, roles : SUBSET RoleSlugs]
ProjectRows ==
  [there : BOOLEAN, name : Titles \cup {"Default", Absent}, position : Nat,
   sources : [SourceNames -> Configs \cup {Absent}]]

StartupTyped ==
  /\ tables \in 0..Statements /\ entry \in BOOLEAN
  /\ roles \subseteq RoleSlugs
  /\ people \in [Addresses -> People]
  /\ projects \in [Slugs -> ProjectRows]
  /\ phase \in Phases /\ file \in Files /\ at \in [i : Nat \ {0}, j : Nat \ {0}]
  /\ known \subseteq SourceNames /\ starts \in 0..MaxStarts /\ routeCalls \in 0..MaxRouteCalls
  /\ served \in BOOLEAN

\* The entries before the n-th of a file f that name a user, give a password,
\* or give roles.
Mine(f, e, n) == {i \in DOMAIN f.users : i < n /\ f.users[i].email = e}
Secret(f, e, n) == {i \in Mine(f, e, n) : f.users[i].password # Absent}
Named(f, e, n) == {i \in Mine(f, e, n) : f.users[i].roles # Unset}
IsLast(i, S) == i \in S /\ \A k \in S : k <= i

\* The store has what those entries say of a user.
ThereDone(f, e, n) == Mine(f, e, n) # {} => people[e].there
PasswordDone(f, e, n) ==
  Secret(f, e, n) # {} =>
    \E i \in DOMAIN f.users : IsLast(i, Secret(f, e, n)) /\ people[e].password = f.users[i].password
RolesDone(f, e, n) ==
  Named(f, e, n) # {} =>
    \E i \in DOMAIN f.users : IsLast(i, Named(f, e, n)) /\ people[e].roles = f.users[i].roles \cap roles
UserDone(f, e, n) == ThereDone(f, e, n) /\ PasswordDone(f, e, n) /\ RolesDone(f, e, n)

\* The same of a project.
About(f, s, n) == {i \in DOMAIN f.projects : i < n /\ f.projects[i].slug = s}
ProjectDone(f, s, n) ==
  About(f, s, n) # {} =>
    \E i \in DOMAIN f.projects :
      /\ IsLast(i, About(f, s, n))
      /\ projects[s].there /\ projects[s].name = f.projects[i].name /\ projects[s].position = i

\* And of the sources before the m-th of the n-th project.
Before(i, j, n, m) == i < n \/ (i = n /\ j < m)
SameSource(f, i, j, k, l) ==
  f.projects[k].slug = f.projects[i].slug /\ f.projects[k].sources[l].name = f.projects[i].sources[j].name
Overwritten(f, i, j, n, m) ==
  \E k \in DOMAIN f.projects : \E l \in DOMAIN f.projects[k].sources :
    Before(i, j, k, l) /\ Before(k, l, n, m) /\ SameSource(f, i, j, k, l)
SourceDone(f, i, j) == projects[f.projects[i].slug].sources[f.projects[i].sources[j].name] = f.projects[i].sources[j].config
SourcesDone(f, n, m) ==
  \A i \in DOMAIN f.projects : \A j \in DOMAIN f.projects[i].sources :
    Before(i, j, n, m) /\ ~Overwritten(f, i, j, n, m) => SourceDone(f, i, j)

\* How far a start has got with its file.
UsersInv ==
  /\ phase = "users" => \A e \in Addresses : UserDone(file, e, at.i)
  /\ phase \in {"roles", "grant"} =>
       /\ at.i \in DOMAIN file.users /\ file.users[at.i].roles # Unset
       /\ \A e \in Addresses :
            /\ ThereDone(file, e, at.i + 1) /\ PasswordDone(file, e, at.i + 1)
            /\ e # file.users[at.i].email => RolesDone(file, e, at.i)
  /\ phase \in {"projects", "sources"} => \A e \in Addresses : UserDone(file, e, Len(file.users) + 1)
ProjectsInv ==
  /\ phase = "projects" => at.j = 1 /\ SourcesDone(file, at.i, 1) /\ \A s \in Slugs : ProjectDone(file, s, at.i)
  /\ phase = "sources" =>
       /\ at.i \in DOMAIN file.projects
       /\ SourcesDone(file, at.i, at.j) /\ \A s \in Slugs : ProjectDone(file, s, at.i + 1)

\* What a start has made sure of before it reads its file, and what lasts.
Applying == {"users", "roles", "grant", "projects", "sources"}
ContentInv ==
  /\ phase \in Applying => "admin" \in roles /\ \E s \in Slugs : projects[s].there
  /\ phase \in Applying \cup {"content"} => entry
  /\ served => entry
  /\ phase = "refused" => ~entry

StartupInv == StartupTyped /\ UsersInv /\ ProjectsInv /\ ContentInv

-----------------------------------------------------------------------------
(* What a file is.                                                         *)

LEMMA FileShape ==
  ASSUME NEW f \in Files
  PROVE  /\ Len(f.users) \in Nat /\ DOMAIN f.users = 1..Len(f.users)
         /\ \A i \in DOMAIN f.users : f.users[i] \in UserEntries
         /\ Len(f.projects) \in Nat /\ DOMAIN f.projects = 1..Len(f.projects)
         /\ \A i \in DOMAIN f.projects : f.projects[i] \in ProjectEntries
<1>1. f \in [users : Seq(UserEntries), projects : Seq(ProjectEntries)]
  BY StartupAssumption
<1>2. f.users \in Seq(UserEntries) /\ f.projects \in Seq(ProjectEntries)
  BY <1>1
<1> QED
  BY <1>2

LEMMA ProjectShape ==
  ASSUME NEW p \in ProjectEntries
  PROVE  /\ p.slug \in Slugs /\ p.name \in Titles
         /\ Len(p.sources) \in Nat /\ DOMAIN p.sources = 1..Len(p.sources)
         /\ \A j \in DOMAIN p.sources : p.sources[j] \in SourceEntries
<1>1. p.slug \in Slugs /\ p.name \in Titles /\ p.sources \in Seq(SourceEntries)
  BY DEF ProjectEntries
<1> QED
  BY <1>1

\* One more entry of the users.
LEMMA MineNext ==
  ASSUME NEW f \in Files, NEW n \in DOMAIN f.users, NEW e
  PROVE  /\ Mine(f, e, n + 1) = IF f.users[n].email = e THEN Mine(f, e, n) \cup {n} ELSE Mine(f, e, n)
         /\ Secret(f, e, n + 1) = IF f.users[n].email = e /\ f.users[n].password # Absent
                                  THEN Secret(f, e, n) \cup {n} ELSE Secret(f, e, n)
         /\ Named(f, e, n + 1) = IF f.users[n].email = e /\ f.users[n].roles # Unset
                                 THEN Named(f, e, n) \cup {n} ELSE Named(f, e, n)
<1>1. DOMAIN f.users = 1..Len(f.users) /\ Len(f.users) \in Nat
  BY FileShape
<1>2. \A i \in DOMAIN f.users : i < n + 1 <=> (i < n \/ i = n)
  BY <1>1
<1>3. Mine(f, e, n + 1) = IF f.users[n].email = e THEN Mine(f, e, n) \cup {n} ELSE Mine(f, e, n)
  BY <1>2 DEF Mine
<1> QED
  BY <1>3 DEF Secret, Named

\* One more entry of the projects.
LEMMA AboutNext ==
  ASSUME NEW f \in Files, NEW n \in DOMAIN f.projects, NEW s
  PROVE  About(f, s, n + 1) = IF f.projects[n].slug = s THEN About(f, s, n) \cup {n} ELSE About(f, s, n)
<1>1. DOMAIN f.projects = 1..Len(f.projects) /\ Len(f.projects) \in Nat
  BY FileShape
<1>2. \A i \in DOMAIN f.projects : i < n + 1 <=> (i < n \/ i = n)
  BY <1>1
<1> QED
  BY <1>2 DEF About

\* The entry that is applied is the last so far.
LEMMA LastIsNew ==
  ASSUME NEW f \in Files, NEW e, NEW s
  PROVE  /\ \A n \in DOMAIN f.users :
              IsLast(n, Secret(f, e, n) \cup {n}) /\ IsLast(n, Named(f, e, n) \cup {n})
         /\ \A n \in DOMAIN f.projects : IsLast(n, About(f, s, n) \cup {n})
<1>1. /\ DOMAIN f.users = 1..Len(f.users) /\ Len(f.users) \in Nat
      /\ DOMAIN f.projects = 1..Len(f.projects) /\ Len(f.projects) \in Nat
  BY FileShape
<1> QED
  BY <1>1 DEF IsLast, Secret, Named, Mine, About

-----------------------------------------------------------------------------
(* The types.                                                              *)

\* The first state.
LEMMA StartupInitInv == StartupInit => StartupInv
<1> SUFFICES ASSUME StartupInit PROVE StartupInv
  OBVIOUS
<1>1. NoUser \in People /\ NoProject \in ProjectRows
  BY DEF NoUser, People, NoProject, ProjectRows
<1>2. StartupTyped
  <2>1. people \in [Addresses -> People] /\ projects \in [Slugs -> ProjectRows]
    BY <1>1 DEF StartupInit
  <2>2. tables \in 0..Statements /\ starts \in 0..MaxStarts /\ routeCalls \in 0..MaxRouteCalls
    BY StartupAssumption DEF StartupInit
  <2>3. at \in [i : Nat \ {0}, j : Nat \ {0}] /\ phase \in Phases
    BY DEF StartupInit, Phases
  <2> QED
    BY <2>1, <2>2, <2>3 DEF StartupInit, StartupTyped
<1>3. UsersInv /\ ProjectsInv /\ ContentInv
  BY DEF StartupInit, UsersInv, ProjectsInv, ContentInv, Applying
<1> QED
  BY <1>2, <1>3 DEF StartupInv

\* A row that changes in some of its fields is a row.
LEMMA EmptyRows == NoProject \in ProjectRows /\ NoUser \in People
BY DEF NoUser, People, NoProject, ProjectRows

LEMMA PersonRow ==
  ASSUME NEW p \in People, NEW w \in Passwords \cup {Absent}, NEW R \in SUBSET RoleSlugs
  PROVE  /\ [p EXCEPT !.there = TRUE, !.password = w] \in People /\ [p EXCEPT !.roles = R] \in People
         /\ [p EXCEPT !.there = TRUE, !.password = w].there
         /\ [p EXCEPT !.there = TRUE, !.password = w].password = w
         /\ [p EXCEPT !.there = TRUE, !.password = w].roles = p.roles
         /\ [p EXCEPT !.roles = R].roles = R /\ [p EXCEPT !.roles = R].there = p.there
         /\ [p EXCEPT !.roles = R].password = p.password
BY DEF People

LEMMA ProjectRow ==
  ASSUME NEW p \in ProjectRows, NEW name \in Titles, NEW i \in Nat
  PROVE  /\ [p EXCEPT !.there = TRUE, !.name = name, !.position = i] \in ProjectRows
         /\ [p EXCEPT !.name = name] \in ProjectRows
         /\ [p EXCEPT !.there = TRUE, !.name = name, !.position = i].there
         /\ [p EXCEPT !.there = TRUE, !.name = name, !.position = i].name = name
         /\ [p EXCEPT !.there = TRUE, !.name = name, !.position = i].position = i
         /\ [p EXCEPT !.there = TRUE, !.name = name, !.position = i].sources = p.sources
BY DEF ProjectRows

LEMMA SourceRow ==
  ASSUME NEW p \in ProjectRows, NEW n \in SourceNames, NEW c \in Configs \cup {Absent}
  PROVE  /\ [p EXCEPT !.sources[n] = c] \in ProjectRows
         /\ [p EXCEPT !.sources[n] = c].there = p.there /\ [p EXCEPT !.sources[n] = c].name = p.name
         /\ [p EXCEPT !.sources[n] = c].position = p.position
         /\ [p EXCEPT !.sources[n] = c].sources = [p.sources EXCEPT ![n] = c]
BY DEF ProjectRows

-----------------------------------------------------------------------------
(* Steps that are no part of applying a file.                              *)

\* Before and after it nothing of the file counts.
LEMMA NotApplying ==
  ASSUME phase' \notin Applying
  PROVE  UsersInv' /\ ProjectsInv'
BY DEF Applying, UsersInv, ProjectsInv

\* The connection, the migration and the end of a process.
LEMMA ProcessInv ==
  ASSUME StartupInv, Start \/ Migrate \/ EnsureAdminRole \/ Listen \/ Exit \/ Close
  PROVE  StartupInv'
<1>1. StartupTyped'
  <2>1. UNCHANGED <<people, projects, routeCalls>> /\ (UNCHANGED roles \/ roles' = roles \cup {"admin"})
    BY DEF Start, Migrate, EnsureAdminRole, Listen, Exit, Close, rows
  <2>2. starts' \in 0..MaxStarts /\ file' \in Files
    BY StartupAssumption DEF StartupInv, StartupTyped, Start, Migrate, EnsureAdminRole, Listen, Exit, Close
  <2>3. tables' \in 0..Statements /\ entry' \in BOOLEAN /\ served' \in BOOLEAN
    <3>1. CASE Migrate
      <4>1. tables' = tables \/ (tables < Statements /\ tables' = tables + 1)
        BY <3>1 DEF Migrate
      <4>2. tables' \in 0..Statements
        BY <4>1, StartupAssumption DEF StartupInv, StartupTyped
      <4>3. entry' \in BOOLEAN /\ served' = served
        BY <3>1 DEF Migrate, StartupInv, StartupTyped
      <4> QED
        BY <4>2, <4>3 DEF StartupInv, StartupTyped
    <3>2. CASE Start \/ EnsureAdminRole \/ Listen \/ Exit \/ Close
      <4>1. UNCHANGED <<tables, entry>> /\ (served' = served \/ served' = TRUE)
        BY <3>2 DEF Start, EnsureAdminRole, Listen, Exit, Close, rows
      <4> QED
        BY <4>1 DEF StartupInv, StartupTyped
    <3> QED
      BY <3>1, <3>2
  <2>4. phase' \in Phases
    BY DEF StartupInv, StartupTyped, Start, AfterConnect, Migrate, EnsureAdminRole, Listen, Exit, Close, Phases
  <2>5. at' \in [i : Nat \ {0}, j : Nat \ {0}] /\ known' \subseteq SourceNames
    BY DEF StartupInv, StartupTyped, Start, Migrate, EnsureAdminRole, Listen, Exit, Close
  <2> QED
    BY <2>1, <2>2, <2>3, <2>4, <2>5, StartupAssumption DEF StartupInv, StartupTyped
<1>2. phase' \notin Applying
  BY DEF Applying, Start, AfterConnect, Migrate, EnsureAdminRole, Listen, Applied, Exit, Close
<1>3. ContentInv'
  BY <1>2 DEF StartupInv, ContentInv, Applying, Start, AfterConnect, Migrate, EnsureAdminRole, Listen, Applied,
              Exit, Close, rows
<1> QED
  BY <1>1, <1>2, <1>3, NotApplying DEF StartupInv

\* The routes, which only a server that listens answers.
LEMMA RouteInv ==
  ASSUME StartupInv,
         \/ \E s \in Slugs, n \in Titles : CreateProject(s, n)
         \/ \E s, t \in Slugs, n \in Titles : UpdateProject(s, t, n)
         \/ \E s \in Slugs : DeleteProject(s)
         \/ \E s \in Slugs, n \in SourceNames, c \in Configs \cup {Absent} : ChangeSource(s, n, c)
         \/ \E e \in Addresses : DropUser(e)
         \/ \E r \in RoleSlugs : ChangeRole(r)
  PROVE  StartupInv'
<1>1. /\ phase = "up" /\ UNCHANGED <<tables, entry, phase, file, at, known, starts, served>>
      /\ routeCalls' = routeCalls + 1 /\ routeCalls < MaxRouteCalls
  BY DEF CreateProject, UpdateProject, DeleteProject, ChangeSource, DropUser, ChangeRole, RouteCall
<1>2. routeCalls' \in 0..MaxRouteCalls
  BY <1>1, StartupAssumption DEF StartupInv, StartupTyped
<1>3. roles' \subseteq RoleSlugs
  BY DEF StartupInv, StartupTyped, CreateProject, UpdateProject, DeleteProject, ChangeSource, DropUser, ChangeRole
<1>4. people' \in [Addresses -> People]
  <2>1. ASSUME NEW r \in RoleSlugs, ChangeRole(r) PROVE people' \in [Addresses -> People]
    <3>1. people' = [e \in Addresses |-> [people[e] EXCEPT !.roles = people[e].roles \cap roles']]
      BY <2>1 DEF ChangeRole, StartupInv, StartupTyped, People
    <3> QED
      BY <3>1, <1>3 DEF StartupInv, StartupTyped, People
  <2>2. ASSUME NEW e \in Addresses, DropUser(e) PROVE people' \in [Addresses -> People]
    BY <2>2, EmptyRows DEF DropUser, StartupInv, StartupTyped
  <2> QED
    BY <2>1, <2>2 DEF StartupInv, StartupTyped, CreateProject, UpdateProject, DeleteProject, ChangeSource
<1>5. projects' \in [Slugs -> ProjectRows]
  <2>1. ASSUME NEW s \in Slugs, NEW n \in Titles, CreateProject(s, n) PROVE projects' \in [Slugs -> ProjectRows]
    <3>1. IsFiniteSet({t \in Slugs : projects[t].there})
      BY StartupAssumption, FS_Subset
    <3>2. PICK k \in Nat : k = Cardinality({t \in Slugs : projects[t].there})
      BY <3>1, FS_CardinalityType
    <3>3. [NoProject EXCEPT !.there = TRUE, !.name = n, !.position = k] \in ProjectRows
      BY EmptyRows, ProjectRow
    <3> QED
      BY <2>1, <3>2, <3>3 DEF CreateProject, StartupInv, StartupTyped
  <2>2. ASSUME NEW s \in Slugs, NEW t \in Slugs, NEW n \in Titles, UpdateProject(s, t, n)
        PROVE  projects' \in [Slugs -> ProjectRows]
    <3>1. [projects[s] EXCEPT !.name = n] \in ProjectRows
      BY ProjectRow DEF StartupInv, StartupTyped
    <3> QED
      BY <2>2, <3>1, EmptyRows DEF UpdateProject, StartupInv, StartupTyped
  <2>3. ASSUME NEW s \in Slugs, DeleteProject(s) PROVE projects' \in [Slugs -> ProjectRows]
    BY <2>3, EmptyRows DEF DeleteProject, StartupInv, StartupTyped
  <2>4. ASSUME NEW s \in Slugs, NEW n \in SourceNames, NEW c \in Configs \cup {Absent}, ChangeSource(s, n, c)
        PROVE  projects' \in [Slugs -> ProjectRows]
    <3>1. PICK row \in ProjectRows : row = [projects[s] EXCEPT !.sources[n] = c]
      BY SourceRow DEF StartupInv, StartupTyped
    <3>2. projects' = [projects EXCEPT ![s] = row]
      BY <2>4, <3>1 DEF ChangeSource, StartupInv, StartupTyped
    <3> QED
      BY <3>2 DEF StartupInv, StartupTyped
  <2> QED
    BY <2>1, <2>2, <2>3, <2>4 DEF StartupInv, StartupTyped, DropUser, ChangeRole
<1>6. StartupTyped'
  BY <1>1, <1>2, <1>3, <1>4, <1>5 DEF StartupInv, StartupTyped
<1>7. ContentInv' /\ phase' \notin Applying
  BY <1>1 DEF StartupInv, ContentInv, Applying
<1> QED
  BY <1>6, <1>7, NotApplying DEF StartupInv

-----------------------------------------------------------------------------
(* Applying a file.                                                        *)

\* A step that leaves the users alone leaves what is done of them.
LEMMA UsersSame ==
  ASSUME UNCHANGED <<people, roles>>, NEW f, NEW e, NEW n
  PROVE  UserDone(f, e, n)' <=> UserDone(f, e, n)
BY DEF UserDone, ThereDone, PasswordDone, RolesDone

\* Nothing is before the first entry, and nothing after the last.
LEMMA FirstAndLast ==
  ASSUME NEW f \in Files
  PROVE  /\ \A e \in Addresses : UserDone(f, e, 1)
         /\ SourcesDone(f, 1, 1) /\ \A s \in Slugs : ProjectDone(f, s, 1)
         /\ \A n \in Nat, e \in Addresses : n > Len(f.users) => (UserDone(f, e, n) <=> UserDone(f, e, Len(f.users) + 1))
<1>1. /\ Len(f.users) \in Nat /\ DOMAIN f.users = 1..Len(f.users)
      /\ Len(f.projects) \in Nat /\ DOMAIN f.projects = 1..Len(f.projects)
  BY FileShape
<1>2. ASSUME NEW e PROVE Mine(f, e, 1) = {} /\ Secret(f, e, 1) = {} /\ Named(f, e, 1) = {} /\ About(f, e, 1) = {}
  BY <1>1 DEF Mine, Secret, Named, About
<1>3. \A i \in DOMAIN f.projects : \A j \in DOMAIN f.projects[i].sources : ~Before(i, j, 1, 1)
  <2> SUFFICES ASSUME NEW i \in DOMAIN f.projects, NEW j \in DOMAIN f.projects[i].sources
               PROVE  ~Before(i, j, 1, 1)
    OBVIOUS
  <2>1. j \in Nat /\ j >= 1
    BY FileShape, ProjectShape
  <2> QED
    BY <1>1, <2>1 DEF Before
<1>4. ASSUME NEW n \in Nat, NEW e \in Addresses, n > Len(f.users)
      PROVE  UserDone(f, e, n) <=> UserDone(f, e, Len(f.users) + 1)
  <2>1. Mine(f, e, n) = Mine(f, e, Len(f.users) + 1)
    BY <1>1, <1>4 DEF Mine
  <2>2. Secret(f, e, n) = Secret(f, e, Len(f.users) + 1) /\ Named(f, e, n) = Named(f, e, Len(f.users) + 1)
    BY <2>1 DEF Secret, Named
  <2> QED
    BY <2>1, <2>2 DEF UserDone, ThereDone, PasswordDone, RolesDone
<1>5. (\A e \in Addresses : UserDone(f, e, 1)) /\ \A s \in Slugs : ProjectDone(f, s, 1)
  BY <1>2 DEF UserDone, ThereDone, PasswordDone, RolesDone, ProjectDone
<1>6. SourcesDone(f, 1, 1)
  BY <1>3 DEF SourcesDone
<1> QED
  BY <1>4, <1>5, <1>6

\* A start that finds no project makes one; then it turns to the users.
LEMMA DefaultInv ==
  ASSUME StartupInv, EnsureDefaultProject
  PROVE  StartupInv'
<1>1. /\ phase = "content" /\ "admin" \in roles /\ phase' = "users" /\ at' = [i |-> 1, j |-> 1]
      /\ UNCHANGED <<tables, entry, roles, people, file, known, starts, routeCalls, served>>
  BY DEF EnsureDefaultProject
<1>2. PICK row \in ProjectRows : row = [NoProject EXCEPT !.there = TRUE, !.name = "Default"] /\ row.there
  <2> DEFINE default == [NoProject EXCEPT !.there = TRUE, !.name = "Default"]
  <2>1. ASSUME NEW p \in ProjectRows
        PROVE  [p EXCEPT !.there = TRUE, !.name = "Default"] \in ProjectRows
               /\ [p EXCEPT !.there = TRUE, !.name = "Default"].there
    BY DEF ProjectRows
  <2>2. default \in ProjectRows /\ default.there
    BY <2>1, EmptyRows
  <2> QED
    BY <2>2
<1>3. projects' \in [Slugs -> ProjectRows] /\ \E s \in Slugs : projects'[s].there
  <2>1. CASE \E s \in Slugs : projects[s].there
    BY <2>1 DEF EnsureDefaultProject, StartupInv, StartupTyped
  <2>2. CASE ~\E s \in Slugs : projects[s].there
    <3>1. projects' = [projects EXCEPT !["default"] = row]
      BY <1>2, <2>2 DEF EnsureDefaultProject
    <3>2. projects' \in [Slugs -> ProjectRows] /\ projects'["default"].there
      BY <1>2, <3>1, StartupAssumption DEF StartupInv, StartupTyped
    <3> QED
      BY <3>2, StartupAssumption
  <2> QED
    BY <2>1, <2>2
<1>4. StartupTyped'
  BY <1>1, <1>3 DEF StartupInv, StartupTyped, Phases
<1>5. PICK f \in Files : f = file /\ f = file'
  BY <1>1 DEF StartupInv, StartupTyped
<1>6. \A e \in Addresses : UserDone(f, e, 1)'
  BY <1>1, UsersSame, FirstAndLast
<1>7. UsersInv' /\ ProjectsInv'
  BY <1>1, <1>5, <1>6 DEF UsersInv, ProjectsInv, UserDone, ThereDone, PasswordDone, RolesDone
<1>8. ContentInv'
  BY <1>1, <1>3 DEF StartupInv, ContentInv, Applying
<1> QED
  BY <1>4, <1>7, <1>8 DEF StartupInv

\* The entry that an application is at.
LEMMA UserAt ==
  ASSUME NEW f \in Files, NEW n \in DOMAIN f.users
  PROVE  /\ n \in Nat /\ f.users[n].email \in Addresses /\ f.users[n].password \in Passwords \cup {Absent}
         /\ f.users[n].roles # Unset => f.users[n].roles \in SUBSET RoleSlugs
<1>1. n \in Nat /\ f.users[n] \in UserEntries
  BY FileShape
<1> QED
  BY <1>1 DEF UserEntries

\* The user an entry names is created or updated.
LEMMA UserInv ==
  ASSUME StartupInv, ApplyUser
  PROVE  StartupInv'
<1>1. PICK f \in Files : f = file /\ f = file'
  BY DEF StartupInv, StartupTyped, ApplyUser
<1>2. PICK n \in DOMAIN f.users : n = at.i
  BY <1>1, FileShape DEF StartupInv, StartupTyped, ApplyUser
<1>3. PICK x \in Addresses : x = f.users[n].email
  BY UserAt
<1>4. PICK w \in Passwords \cup {Absent} :
        w = IF f.users[n].password = Absent THEN people[x].password ELSE f.users[n].password
  BY <1>3, UserAt DEF StartupInv, StartupTyped, People
<1>5. PICK row \in People :
        /\ people' = [people EXCEPT ![x] = row]
        /\ row.there /\ row.password = w /\ row.roles = people[x].roles
  <2>1. people[x] \in People
    BY DEF StartupInv, StartupTyped
  <2>2. people' = [people EXCEPT ![x] = [people[x] EXCEPT !.there = TRUE, !.password = w]]
    <3>1. people' = [people EXCEPT ![x].there = TRUE,
                                   ![x].password = IF f.users[n].password = Absent THEN @ ELSE f.users[n].password]
      BY <1>1, <1>2, <1>3 DEF ApplyUser
    <3>2. people \in [Addresses -> People]
      BY DEF StartupInv, StartupTyped
    <3> QED
      BY <1>4, <2>1, <3>1, <3>2 DEF People
  <2> DEFINE new == [people[x] EXCEPT !.there = TRUE, !.password = w]
  <2>3. new \in People /\ new.there /\ new.password = w /\ new.roles = people[x].roles
    BY <2>1, PersonRow
  <2> QED
    BY <2>2, <2>3
<1>6. people' \in [Addresses -> People] /\ people'[x] = row /\ \A e \in Addresses \ {x} : people'[e] = people[e]
  BY <1>5 DEF StartupInv, StartupTyped
<1>7. /\ phase = "users" /\ UNCHANGED <<tables, entry, roles, projects, file, known, starts, routeCalls, served>>
      /\ \/ f.users[n].roles = Unset /\ at' = [i |-> n + 1, j |-> 1] /\ phase' = "users"
         \/ f.users[n].roles # Unset /\ phase' = "roles" /\ at' = at
  BY <1>1, <1>2 DEF ApplyUser, NextEntry
<1>8. n \in Nat /\ \A e \in Addresses : ThereDone(f, e, n) /\ PasswordDone(f, e, n) /\ RolesDone(f, e, n)
  BY <1>1, <1>2, <1>7, UserAt DEF StartupInv, UsersInv, UserDone
<1>9. \A e \in Addresses : ThereDone(f, e, n + 1)' /\ PasswordDone(f, e, n + 1)'
  <2>1. ThereDone(f, x, n + 1)'
    BY <1>6, <1>5 DEF ThereDone
  <2>2. PasswordDone(f, x, n + 1)'
    <3>1. CASE f.users[n].password = Absent
      <4>1. Secret(f, x, n + 1) = Secret(f, x, n)
        BY <3>1, MineNext
      <4>2. people'[x].password = people[x].password
        BY <1>4, <1>5, <1>6, <3>1
      <4>3. PasswordDone(f, x, n)
        BY <1>8
      <4> QED
        BY <4>1, <4>2, <4>3 DEF PasswordDone
    <3>2. CASE f.users[n].password # Absent
      <4>1. Secret(f, x, n + 1) = Secret(f, x, n) \cup {n} /\ people'[x].password = f.users[n].password
        BY <1>3, <1>4, <1>5, <1>6, <3>2, MineNext
      <4>2. IsLast(n, Secret(f, x, n + 1))
        BY <4>1, LastIsNew
      <4> QED
        BY <4>1, <4>2 DEF PasswordDone
    <3> QED
      BY <3>1, <3>2
  <2>3. ASSUME NEW e \in Addresses, e # x PROVE ThereDone(f, e, n + 1)' /\ PasswordDone(f, e, n + 1)'
    <3>1. people'[e] = people[e] /\ UNCHANGED roles /\ e # f.users[n].email
      BY <1>3, <1>6, <1>7, <2>3
    <3>2. ThereDone(f, e, n) /\ PasswordDone(f, e, n)
      BY <1>8
    <3>3. Mine(f, e, n + 1) = Mine(f, e, n) /\ Secret(f, e, n + 1) = Secret(f, e, n)
      BY <3>1, MineNext
    <3> QED
      BY <3>1, <3>2, <3>3 DEF ThereDone, PasswordDone
  <2> QED
    BY <2>1, <2>2, <2>3
<1>10. \A e \in Addresses : RolesDone(f, e, n)'
  BY <1>5, <1>6, <1>7, <1>8 DEF RolesDone
<1>11. f.users[n].roles = Unset => \A e \in Addresses : RolesDone(f, e, n + 1)'
  <2>1. f.users[n].roles = Unset => \A e \in Addresses : Named(f, e, n + 1) = Named(f, e, n)
    BY MineNext
  <2> QED
    BY <1>10, <2>1 DEF RolesDone
<1>12. UsersInv'
  <2>1. CASE phase' = "users"
    <3>1. at'.i = n + 1 /\ f.users[n].roles = Unset
      BY <1>7, <2>1
    <3>2. \A e \in Addresses : UserDone(f, e, n + 1)'
      BY <1>9, <1>11, <3>1 DEF UserDone
    <3> QED
      BY <1>1, <2>1, <3>1, <3>2 DEF UsersInv, UserDone, ThereDone, PasswordDone, RolesDone
  <2>2. CASE phase' = "roles"
    <3>1. at'.i = n /\ f.users[n].roles # Unset
      BY <1>2, <1>7, <2>2
    <3> QED
      BY <1>1, <1>9, <1>10, <2>2, <3>1 DEF UsersInv, ThereDone, PasswordDone, RolesDone
  <2> QED
    BY <1>7, <2>1, <2>2
<1>13. StartupTyped'
  <2>1. at' \in [i : Nat \ {0}, j : Nat \ {0}] /\ phase' \in Phases
    <3>1. n + 1 \in Nat \ {0}
      BY <1>8
    <3> QED
      BY <1>7, <3>1 DEF StartupInv, StartupTyped, Phases
  <2> QED
    BY <1>6, <1>7, <2>1 DEF StartupInv, StartupTyped
<1>14. ProjectsInv' /\ ContentInv'
  BY <1>7 DEF StartupInv, ProjectsInv, ContentInv, Applying
<1> QED
  BY <1>12, <1>13, <1>14 DEF StartupInv

\* The roles of a user are taken away, then those the file gives are given.
LEMMA RolesInv ==
  ASSUME StartupInv, ApplyRoles
  PROVE  StartupInv'
<1>1. PICK f \in Files : f = file /\ f = file'
  BY DEF StartupInv, StartupTyped, ApplyRoles
<1>2. PICK n \in DOMAIN f.users : n = at.i /\ f.users[n].roles # Unset
  BY <1>1 DEF StartupInv, UsersInv, ApplyRoles
<1>3. PICK x \in Addresses : x = f.users[n].email
  BY UserAt
<1>4. PICK R \in SUBSET RoleSlugs :
        /\ people' = [people EXCEPT ![x].roles = R]
        /\ \/ phase = "roles" /\ phase' = "grant" /\ at' = at
           \/ phase = "grant" /\ phase' = "users" /\ at' = [i |-> n + 1, j |-> 1] /\ R = f.users[n].roles \cap roles
  <2>1. CASE phase = "roles"
    <3>1. people' = [people EXCEPT ![x].roles = {}] /\ phase' = "grant" /\ at' = at
      BY <1>1, <1>2, <1>3, <2>1 DEF ApplyRoles
    <3>2. {} \in SUBSET RoleSlugs
      OBVIOUS
    <3> QED
      BY <2>1, <3>1, <3>2
  <2>2. CASE phase = "grant"
    <3>1. PICK R \in SUBSET RoleSlugs : R = f.users[n].roles \cap roles
      BY DEF StartupInv, StartupTyped
    <3>2. people' = [people EXCEPT ![x].roles = R] /\ phase' = "users" /\ at' = [i |-> n + 1, j |-> 1]
      BY <1>1, <1>2, <1>3, <2>2, <3>1 DEF ApplyRoles, Resolved, NextEntry
    <3> QED
      BY <2>2, <3>1, <3>2
  <2> QED
    BY <2>1, <2>2 DEF ApplyRoles
<1>5. PICK row \in People :
        /\ people' = [people EXCEPT ![x] = row]
        /\ row.there = people[x].there /\ row.password = people[x].password /\ row.roles = R
  <2>1. people[x] \in People
    BY DEF StartupInv, StartupTyped
  <2>2. people' = [people EXCEPT ![x] = [people[x] EXCEPT !.roles = R]]
    BY <1>4, <2>1 DEF StartupInv, StartupTyped
  <2> DEFINE new == [people[x] EXCEPT !.roles = R]
  <2>3. new \in People /\ new.there = people[x].there /\ new.password = people[x].password /\ new.roles = R
    BY <2>1, PersonRow
  <2> QED
    BY <2>2, <2>3
<1>6. people' \in [Addresses -> People] /\ people'[x] = row /\ \A e \in Addresses \ {x} : people'[e] = people[e]
  BY <1>5 DEF StartupInv, StartupTyped
<1>7. UNCHANGED <<tables, entry, roles, projects, file, known, starts, routeCalls, served>>
  BY DEF ApplyRoles
<1>8. /\ n \in Nat
      /\ \A e \in Addresses : ThereDone(f, e, n + 1) /\ PasswordDone(f, e, n + 1)
      /\ \A e \in Addresses \ {x} : RolesDone(f, e, n)
  BY <1>1, <1>2, <1>3, <1>4, UserAt DEF StartupInv, UsersInv
<1>9. \A e \in Addresses : ThereDone(f, e, n + 1)' /\ PasswordDone(f, e, n + 1)'
  <2>1. \A e \in Addresses : people'[e].there = people[e].there /\ people'[e].password = people[e].password
    BY <1>5, <1>6
  <2> QED
    BY <1>8, <2>1 DEF ThereDone, PasswordDone
<1>10. \A e \in Addresses \ {x} : RolesDone(f, e, n)' /\ RolesDone(f, e, n + 1)'
  <2> SUFFICES ASSUME NEW e \in Addresses \ {x} PROVE RolesDone(f, e, n)' /\ RolesDone(f, e, n + 1)'
    OBVIOUS
  <2>1. RolesDone(f, e, n) /\ people'[e].roles = people[e].roles /\ roles' = roles
    BY <1>6, <1>7, <1>8
  <2>2. Named(f, e, n + 1) = Named(f, e, n)
    BY <1>3, MineNext
  <2> QED
    BY <2>1, <2>2 DEF RolesDone
<1>11. phase' = "users" => RolesDone(f, x, n + 1)'
  <2> SUFFICES ASSUME phase' = "users" PROVE RolesDone(f, x, n + 1)'
    OBVIOUS
  <2>1. people'[x].roles = f.users[n].roles \cap roles'
    BY <1>4, <1>5, <1>6, <1>7
  <2>2. Named(f, x, n + 1) = Named(f, x, n) \cup {n}
    BY <1>2, <1>3, MineNext
  <2>3. IsLast(n, Named(f, x, n + 1))
    BY <2>2, LastIsNew
  <2> QED
    BY <2>1, <2>3 DEF RolesDone
<1>12. UsersInv'
  <2>1. CASE phase' = "users"
    <3>1. at'.i = n + 1
      BY <1>4, <2>1
    <3>2. \A e \in Addresses : UserDone(f, e, n + 1)'
      BY <1>9, <1>10, <1>11, <2>1 DEF UserDone
    <3> QED
      BY <1>1, <2>1, <3>1, <3>2 DEF UsersInv, UserDone, ThereDone, PasswordDone, RolesDone
  <2>2. CASE phase' = "grant"
    <3>1. at'.i = n
      BY <1>2, <1>4, <2>2
    <3> QED
      BY <1>1, <1>2, <1>3, <1>9, <1>10, <2>2, <3>1 DEF UsersInv, ThereDone, PasswordDone, RolesDone
  <2> QED
    BY <1>4, <2>1, <2>2
<1>13. StartupTyped'
  <2>1. at' \in [i : Nat \ {0}, j : Nat \ {0}] /\ phase' \in Phases
    <3>1. n + 1 \in Nat \ {0}
      BY <1>8
    <3> QED
      BY <1>4, <3>1 DEF StartupInv, StartupTyped, Phases
  <2> QED
    BY <1>6, <1>7, <2>1 DEF StartupInv, StartupTyped
<1>14. ProjectsInv' /\ ContentInv'
  BY <1>4, <1>7 DEF StartupInv, ProjectsInv, ContentInv, Applying
<1> QED
  BY <1>12, <1>13, <1>14 DEF StartupInv

\* After the last user come the projects.
LEMMA UsersDoneInv ==
  ASSUME StartupInv, UsersDone
  PROVE  StartupInv'
<1>1. /\ phase = "users" /\ at.i > Len(file.users) /\ phase' = "projects" /\ at' = [i |-> 1, j |-> 1]
      /\ UNCHANGED <<rows, file, known, starts, routeCalls, served>>
  BY DEF UsersDone
<1>2. PICK f \in Files : f = file /\ f = file'
  BY <1>1 DEF StartupInv, StartupTyped
<1>3. PICK n \in Nat : n = at.i
  BY DEF StartupInv, StartupTyped
<1>4. UNCHANGED <<tables, entry, roles, people, projects>>
  BY <1>1 DEF rows
<1>5. \A e \in Addresses : UserDone(f, e, Len(f.users) + 1)'
  <2>1. \A e \in Addresses : UserDone(f, e, n) /\ n > Len(f.users)
    BY <1>1, <1>2, <1>3 DEF StartupInv, UsersInv
  <2>2. \A e \in Addresses : UserDone(f, e, Len(f.users) + 1)
    BY <2>1, FirstAndLast
  <2> QED
    BY <1>4, <2>2 DEF UserDone, ThereDone, PasswordDone, RolesDone
<1>6. SourcesDone(f, 1, 1)' /\ \A s \in Slugs : ProjectDone(f, s, 1)'
  <2>1. SourcesDone(f, 1, 1) /\ \A s \in Slugs : ProjectDone(f, s, 1)
    BY FirstAndLast
  <2> QED
    BY <1>4, <2>1 DEF ProjectDone, SourcesDone, SourceDone
<1>7. UsersInv'
  BY <1>1, <1>2, <1>5 DEF UsersInv, UserDone, ThereDone, PasswordDone, RolesDone
<1>8. ProjectsInv'
  BY <1>1, <1>2, <1>6 DEF ProjectsInv, ProjectDone, SourcesDone, SourceDone
<1>9. StartupTyped' /\ ContentInv'
  BY <1>1, <1>4 DEF StartupInv, StartupTyped, ContentInv, Applying, Phases
<1> QED
  BY <1>7, <1>8, <1>9 DEF StartupInv

\* The entry of a project.
LEMMA ProjectAt ==
  ASSUME NEW f \in Files, NEW n \in DOMAIN f.projects
  PROVE  /\ n \in Nat \ {0} /\ f.projects[n] \in ProjectEntries
         /\ f.projects[n].slug \in Slugs /\ f.projects[n].name \in Titles
         /\ Len(f.projects[n].sources) \in Nat
         /\ DOMAIN f.projects[n].sources = 1..Len(f.projects[n].sources)
BY FileShape, ProjectShape

\* A project is made or renamed; its sources stay.
LEMMA ProjectInv ==
  ASSUME StartupInv, ApplyProject
  PROVE  StartupInv'
<1>1. PICK f \in Files : f = file /\ f = file'
  BY DEF StartupInv, StartupTyped, ApplyProject
<1>2. PICK n \in DOMAIN f.projects : n = at.i
  <2>1. at.i \in Nat \ {0} /\ at.i <= Len(f.projects)
    BY <1>1 DEF StartupInv, StartupTyped, ApplyProject
  <2>2. DOMAIN f.projects = 1..Len(f.projects) /\ Len(f.projects) \in Nat
    BY FileShape
  <2> QED
    BY <2>1, <2>2
<1>3. PICK x \in Slugs, title \in Titles : x = f.projects[n].slug /\ title = f.projects[n].name
  BY ProjectAt
<1>4. /\ phase = "projects" /\ phase' = "sources"
      /\ projects' = [projects EXCEPT ![x].there = TRUE, ![x].name = title, ![x].position = n]
      /\ known' = {m \in SourceNames : projects[x].sources[m] # Absent}
      /\ UNCHANGED <<tables, entry, roles, people, file, at, starts, routeCalls, served>>
  BY <1>1, <1>2, <1>3 DEF ApplyProject
<1>5. PICK row \in ProjectRows :
        /\ projects' = [projects EXCEPT ![x] = row]
        /\ row.there /\ row.name = title /\ row.position = n /\ row.sources = projects[x].sources
  <2> DEFINE new == [projects[x] EXCEPT !.there = TRUE, !.name = title, !.position = n]
  <2>1. projects[x] \in ProjectRows
    BY DEF StartupInv, StartupTyped
  <2>2. projects' = [projects EXCEPT ![x] = new]
    BY <1>4, <2>1 DEF StartupInv, StartupTyped, ProjectRows
  <2>3. /\ new \in ProjectRows /\ new.there /\ new.name = title /\ new.position = n
        /\ new.sources = projects[x].sources
    <3>1. n \in Nat
      BY ProjectAt
    <3> QED
      BY <2>1, <3>1 DEF ProjectRows
  <2> QED
    BY <2>2, <2>3
<1>6. projects' \in [Slugs -> ProjectRows] /\ projects'[x] = row /\ \A s \in Slugs \ {x} : projects'[s] = projects[s]
  BY <1>5 DEF StartupInv, StartupTyped
<1>7. at.j = 1 /\ SourcesDone(f, n, 1) /\ \A s \in Slugs : ProjectDone(f, s, n)
  BY <1>1, <1>2, <1>4 DEF StartupInv, ProjectsInv
<1>8. SourcesDone(f, n, 1)'
  <2>1. \A s \in Slugs : projects'[s].sources = projects[s].sources
    BY <1>5, <1>6
  <2>2. \A i \in DOMAIN f.projects : f.projects[i].slug \in Slugs
    BY ProjectAt
  <2> QED
    BY <1>7, <2>1, <2>2 DEF SourcesDone, SourceDone
<1>9. \A s \in Slugs : ProjectDone(f, s, n + 1)'
  <2>1. ProjectDone(f, x, n + 1)'
    <3>1. About(f, x, n + 1) = About(f, x, n) \cup {n}
      BY <1>3, AboutNext
    <3>2. IsLast(n, About(f, x, n + 1))
      BY <3>1, LastIsNew
    <3> QED
      BY <1>3, <1>5, <1>6, <3>2 DEF ProjectDone
  <2>2. ASSUME NEW s \in Slugs \ {x} PROVE ProjectDone(f, s, n + 1)'
    <3>1. About(f, s, n + 1) = About(f, s, n)
      BY <1>3, AboutNext
    <3>2. ProjectDone(f, s, n) /\ projects'[s] = projects[s]
      BY <1>6, <1>7
    <3> QED
      BY <3>1, <3>2 DEF ProjectDone
  <2> QED
    BY <2>1, <2>2
<1>10. ProjectsInv'
  <2>1. at'.i = n /\ at'.j = 1
    BY <1>2, <1>4, <1>7
  <2>2. SourcesDone(file, at.i, at.j)'
    BY <1>1, <1>8, <2>1 DEF SourcesDone, SourceDone
  <2>3. \A s \in Slugs : ProjectDone(file, s, at.i + 1)'
    BY <1>1, <1>9, <2>1 DEF ProjectDone
  <2> QED
    BY <1>1, <1>4, <2>1, <2>2, <2>3 DEF ProjectsInv
<1>11. UsersInv'
  BY <1>4 DEF StartupInv, UsersInv, UserDone, ThereDone, PasswordDone, RolesDone
<1>12. StartupTyped'
  BY <1>4, <1>6 DEF StartupInv, StartupTyped, Phases
<1>13. ContentInv'
  <2>1. projects'[x].there
    BY <1>5, <1>6
  <2> QED
    BY <1>4, <2>1 DEF StartupInv, ContentInv, Applying
<1> QED
  BY <1>10, <1>11, <1>12, <1>13 DEF StartupInv

\* The entry of a source.
LEMMA SourceAt ==
  ASSUME NEW f \in Files, NEW n \in DOMAIN f.projects, NEW m \in DOMAIN f.projects[n].sources
  PROVE  /\ n \in Nat \ {0} /\ m \in Nat \ {0} /\ m <= Len(f.projects[n].sources)
         /\ f.projects[n].slug \in Slugs
         /\ f.projects[n].sources[m].name \in SourceNames /\ f.projects[n].sources[m].config \in Configs
<1>1. PICK p \in ProjectEntries : p = f.projects[n]
  BY ProjectAt
<1>2. m \in 1..Len(p.sources) /\ Len(p.sources) \in Nat /\ p.sources[m] \in SourceEntries
  BY <1>1, ProjectShape
<1>3. n \in Nat \ {0} /\ p.slug \in Slugs
  BY <1>1, ProjectAt
<1> QED
  BY <1>1, <1>2, <1>3 DEF SourceEntries

\* When the last source of a project is done, all before the next project are.
LEMMA ProjectEnds ==
  ASSUME NEW f \in Files, NEW n \in DOMAIN f.projects, NEW m \in Nat, m > Len(f.projects[n].sources),
         SourcesDone(f, n, m)
  PROVE  SourcesDone(f, n + 1, 1)
<1>1. \A i \in DOMAIN f.projects : \A j \in DOMAIN f.projects[i].sources : Before(i, j, n + 1, 1) <=> Before(i, j, n, m)
  <2> SUFFICES ASSUME NEW i \in DOMAIN f.projects, NEW j \in DOMAIN f.projects[i].sources
               PROVE  Before(i, j, n + 1, 1) <=> Before(i, j, n, m)
    OBVIOUS
  <2>1. /\ n \in Nat /\ i \in Nat /\ Len(f.projects[i].sources) \in Nat
        /\ j \in 1..Len(f.projects[i].sources)
    BY ProjectAt
  <2>2. i = n => j < m
    BY <2>1
  <2> QED
    BY <2>1, <2>2 DEF Before
<1>2. \A i \in DOMAIN f.projects : \A j \in DOMAIN f.projects[i].sources :
        Overwritten(f, i, j, n, m) => Overwritten(f, i, j, n + 1, 1)
  BY <1>1 DEF Overwritten
<1> QED
  BY <1>1, <1>2 DEF SourcesDone

LEMMA BeforeNext ==
  ASSUME NEW i \in Nat, NEW j \in Nat, NEW n \in Nat, NEW m \in Nat
  PROVE  Before(i, j, n, m + 1) <=> Before(i, j, n, m) \/ (i = n /\ j = m)
BY DEF Before

\* A source that stands after the m-th is that one, or stood before it and is
\* another.
LEMMA StillStands ==
  ASSUME NEW f \in Files, NEW n \in DOMAIN f.projects, NEW m \in DOMAIN f.projects[n].sources,
         NEW i \in DOMAIN f.projects, NEW j \in DOMAIN f.projects[i].sources,
         Before(i, j, n, m + 1), ~Overwritten(f, i, j, n, m + 1)
  PROVE  \/ i = n /\ j = m
         \/ Before(i, j, n, m) /\ ~Overwritten(f, i, j, n, m) /\ ~SameSource(f, i, j, n, m)
<1>1. n \in Nat /\ m \in Nat
  BY SourceAt
<1>2. i \in Nat /\ j \in Nat
  BY SourceAt
<1> SUFFICES ASSUME ~(i = n /\ j = m)
             PROVE  Before(i, j, n, m) /\ ~Overwritten(f, i, j, n, m) /\ ~SameSource(f, i, j, n, m)
  OBVIOUS
<1>3. Before(i, j, n, m)
  BY <1>1, <1>2, BeforeNext
<1>4. ~SameSource(f, i, j, n, m)
  <2>1. Before(n, m, n, m + 1)
    BY <1>1, BeforeNext
  <2> QED
    BY <1>3, <2>1 DEF Overwritten
<1>5. ~Overwritten(f, i, j, n, m)
  <2> SUFFICES ASSUME NEW k \in DOMAIN f.projects, NEW l \in DOMAIN f.projects[k].sources, Before(k, l, n, m)
               PROVE  Before(k, l, n, m + 1)
    BY DEF Overwritten
  <2>1. k \in Nat /\ l \in Nat
    BY SourceAt
  <2> QED
    BY <1>1, <2>1, BeforeNext
<1> QED
  BY <1>3, <1>4, <1>5

\* A source of the file is written; the others stay.
LEMMA SourceInv ==
  ASSUME StartupInv, ApplySource
  PROVE  StartupInv'
<1>1. PICK f \in Files : f = file /\ f = file'
  BY DEF StartupInv, StartupTyped, ApplySource
<1>2. PICK n \in DOMAIN f.projects : n = at.i
  BY <1>1 DEF StartupInv, ProjectsInv, ApplySource
<1>3. PICK m \in Nat \ {0} : m = at.j
  BY DEF StartupInv, StartupTyped
<1>4. PICK x \in Slugs : x = f.projects[n].slug
  BY ProjectAt
<1>5. phase = "sources" /\ UNCHANGED <<tables, entry, roles, people, file, known, starts, routeCalls, served>>
  BY DEF ApplySource
<1>6. SourcesDone(f, n, m) /\ \A s \in Slugs : ProjectDone(f, s, n + 1)
  BY <1>1, <1>2, <1>3, <1>5 DEF StartupInv, ProjectsInv
<1>7. n \in Nat \ {0} /\ Len(f.projects[n].sources) \in Nat
      /\ DOMAIN f.projects[n].sources = 1..Len(f.projects[n].sources)
  BY ProjectAt
<1>8. projects' = projects => ContentInv'
  <2>1. phase' \in {"projects", "failed", "sources"}
    BY <1>5 DEF ApplySource
  <2> QED
    BY <1>5, <2>1 DEF StartupInv, ContentInv, Applying
<1>9. CASE m > Len(f.projects[n].sources)
  <2>1. at' = [i |-> n + 1, j |-> 1] /\ phase' = "projects" /\ projects' = projects
    BY <1>1, <1>2, <1>3, <1>9 DEF ApplySource, NextEntry
  <2>2. SourcesDone(f, n + 1, 1)
    BY <1>6, <1>9, ProjectEnds
  <2>3. at'.i = n + 1 /\ at'.j = 1
    BY <2>1
  <2>4. SourcesDone(f, n + 1, 1)' /\ \A s \in Slugs : ProjectDone(f, s, n + 1)'
    BY <1>6, <2>1, <2>2 DEF SourcesDone, SourceDone, ProjectDone
  <2>5. ProjectsInv'
    BY <1>1, <2>1, <2>3, <2>4 DEF ProjectsInv, SourcesDone, SourceDone, ProjectDone
  <2>6. UsersInv'
    BY <1>5, <2>1 DEF StartupInv, UsersInv, UserDone, ThereDone, PasswordDone, RolesDone
  <2>7. StartupTyped'
    BY <1>5, <1>7, <2>1 DEF StartupInv, StartupTyped, Phases
  <2> QED
    BY <1>8, <2>1, <2>5, <2>6, <2>7 DEF StartupInv
<1>10. CASE m <= Len(f.projects[n].sources)
  <2>1. m \in DOMAIN f.projects[n].sources
    BY <1>3, <1>7, <1>10
  <2>2. PICK y \in SourceNames, c \in Configs :
          y = f.projects[n].sources[m].name /\ c = f.projects[n].sources[m].config
    BY <2>1, SourceAt
  <2>3. \/ phase' = "failed" /\ projects' = projects /\ at' = at
        \/ /\ projects' = [projects EXCEPT ![x].sources[y] = c]
           /\ at' = [at EXCEPT !.j = @ + 1] /\ phase' = phase
    <3>1. ~(at.j > Len(file.projects[at.i].sources))
      BY <1>1, <1>2, <1>3, <1>7, <1>10
    <3> QED
      BY <1>1, <1>2, <1>3, <1>4, <2>2, <3>1 DEF ApplySource
  <2>4. CASE phase' = "failed" /\ projects' = projects /\ at' = at
    <3>1. UsersInv' /\ ProjectsInv'
      BY <2>4, NotApplying DEF Applying
    <3>2. StartupTyped'
      BY <1>5, <2>4 DEF StartupInv, StartupTyped, Phases
    <3> QED
      BY <1>8, <2>4, <3>1, <3>2 DEF StartupInv
  <2>5. CASE projects' = [projects EXCEPT ![x].sources[y] = c] /\ at' = [at EXCEPT !.j = @ + 1] /\ phase' = phase
    <3>1. PICK row \in ProjectRows :
            /\ projects' = [projects EXCEPT ![x] = row]
            /\ row.there = projects[x].there /\ row.name = projects[x].name /\ row.position = projects[x].position
            /\ row.sources = [projects[x].sources EXCEPT ![y] = c]
      <4> DEFINE new == [projects[x] EXCEPT !.sources[y] = c]
      <4>1. projects[x] \in ProjectRows
        BY DEF StartupInv, StartupTyped
      <4>2. projects' = [projects EXCEPT ![x] = new]
        BY <2>5, <4>1 DEF StartupInv, StartupTyped, ProjectRows
      <4>3. /\ new \in ProjectRows /\ new.there = projects[x].there /\ new.name = projects[x].name
            /\ new.position = projects[x].position /\ new.sources = [projects[x].sources EXCEPT ![y] = c]
        BY <4>1 DEF ProjectRows
      <4> QED
        BY <4>2, <4>3
    <3>2. /\ projects' \in [Slugs -> ProjectRows] /\ projects'[x] = row
          /\ \A s \in Slugs \ {x} : projects'[s] = projects[s]
      BY <3>1 DEF StartupInv, StartupTyped
    <3>3. \A s \in Slugs : /\ projects'[s].there = projects[s].there /\ projects'[s].name = projects[s].name
                           /\ projects'[s].position = projects[s].position
      BY <3>1, <3>2
    <3>4. /\ projects'[x].sources[y] = c
          /\ \A s \in Slugs, t \in SourceNames : s # x \/ t # y => projects'[s].sources[t] = projects[s].sources[t]
      <4>1. projects[x].sources \in [SourceNames -> Configs \cup {Absent}]
        BY DEF StartupInv, StartupTyped, ProjectRows
      <4> QED
        BY <3>1, <3>2, <4>1
    <3>5. SourcesDone(f, n, m + 1)'
      <4> SUFFICES ASSUME NEW i \in DOMAIN f.projects, NEW j \in DOMAIN f.projects[i].sources,
                          Before(i, j, n, m + 1), ~Overwritten(f, i, j, n, m + 1)
                   PROVE  SourceDone(f, i, j)'
        BY DEF SourcesDone
      <4>1. CASE i = n /\ j = m
        BY <1>4, <2>2, <3>4, <4>1 DEF SourceDone
      <4>2. CASE ~(i = n /\ j = m)
        <5>1. Before(i, j, n, m) /\ ~Overwritten(f, i, j, n, m) /\ ~SameSource(f, i, j, n, m)
          BY <2>1, <4>2, StillStands
        <5>2. SourceDone(f, i, j)
          BY <1>6, <5>1 DEF SourcesDone
        <5>3. f.projects[i].slug # x \/ f.projects[i].sources[j].name # y
          BY <1>4, <2>2, <5>1 DEF SameSource
        <5>4. f.projects[i].slug \in Slugs /\ f.projects[i].sources[j].name \in SourceNames
          BY SourceAt
        <5> QED
          BY <3>4, <5>2, <5>3, <5>4 DEF SourceDone
      <4> QED
        BY <4>1, <4>2
    <3>6. \A s \in Slugs : ProjectDone(f, s, n + 1)'
      BY <1>6, <3>3 DEF ProjectDone
    <3>7. at'.i = n /\ at'.j = m + 1 /\ at' \in [i : Nat \ {0}, j : Nat \ {0}]
      BY <1>2, <1>3, <2>5 DEF StartupInv, StartupTyped
    <3>8. ProjectsInv'
      <4>1. SourcesDone(file, at.i, at.j)'
        BY <1>1, <3>5, <3>7 DEF SourcesDone, SourceDone
      <4>2. \A s \in Slugs : ProjectDone(file, s, at.i + 1)'
        BY <1>1, <3>6, <3>7 DEF ProjectDone
      <4> QED
        BY <1>1, <1>5, <2>5, <3>7, <4>1, <4>2 DEF ProjectsInv
    <3>9. UsersInv'
      BY <1>5, <2>5 DEF StartupInv, UsersInv, UserDone, ThereDone, PasswordDone, RolesDone
    <3>10. StartupTyped'
      BY <1>5, <2>5, <3>2, <3>7 DEF StartupInv, StartupTyped
    <3>11. ContentInv'
      BY <1>5, <2>5, <3>3 DEF StartupInv, ContentInv, Applying
    <3> QED
      BY <3>8, <3>9, <3>10, <3>11 DEF StartupInv
  <2> QED
    BY <2>3, <2>4, <2>5
<1> QED
  BY <1>3, <1>7, <1>9, <1>10

LEMMA StartupNextInv == StartupInv /\ [StartupNext]_startupVars => StartupInv'
<1> SUFFICES ASSUME StartupInv, [StartupNext]_startupVars PROVE StartupInv'
  OBVIOUS
<1>1. CASE Start \/ Migrate \/ EnsureAdminRole \/ Listen \/ Exit \/ Close
  BY <1>1, ProcessInv
<1>2. CASE EnsureDefaultProject
  BY <1>2, DefaultInv
<1>3. CASE ApplyUser
  BY <1>3, UserInv
<1>4. CASE ApplyRoles
  BY <1>4, RolesInv
<1>5. CASE UsersDone
  BY <1>5, UsersDoneInv
<1>6. CASE ApplyProject
  BY <1>6, ProjectInv
<1>7. CASE ApplySource
  BY <1>7, SourceInv
<1>8. CASE \/ \E s \in Slugs, n \in Titles : CreateProject(s, n)
           \/ \E s, t \in Slugs, n \in Titles : UpdateProject(s, t, n)
           \/ \E s \in Slugs : DeleteProject(s)
           \/ \E s \in Slugs, n \in SourceNames, c \in Configs \cup {Absent} : ChangeSource(s, n, c)
           \/ \E e \in Addresses : DropUser(e)
           \/ \E r \in RoleSlugs : ChangeRole(r)
  BY <1>8, RouteInv
<1>9. CASE UNCHANGED startupVars
  <2>1. StartupTyped' /\ ContentInv'
    BY <1>9 DEF startupVars, StartupInv, StartupTyped, ContentInv
  <2>2. UsersInv'
    BY <1>9 DEF startupVars, StartupInv, UsersInv, UserDone, ThereDone, PasswordDone, RolesDone
  <2>3. ProjectsInv'
    BY <1>9 DEF startupVars, StartupInv, ProjectsInv, ProjectDone, SourcesDone, SourceDone
  <2> QED
    BY <2>1, <2>2, <2>3 DEF StartupInv
<1> QED
  BY <1>1, <1>2, <1>3, <1>4, <1>5, <1>6, <1>7, <1>8, <1>9 DEF StartupNext

-----------------------------------------------------------------------------
(* What the invariant says when the file is through.                       *)

\* The greatest of a set is the one that is chosen.
LEMMA LastChosen ==
  ASSUME NEW S \in SUBSET Nat, NEW i, IsLast(i, S)
  PROVE  (CHOOSE k \in S : \A l \in S : l <= k) = i
<1>1. i \in S /\ \A l \in S : l <= i
  BY DEF IsLast
<1>2. PICK c : c = CHOOSE k \in S : \A l \in S : l <= k
  OBVIOUS
<1>3. c \in S /\ \A l \in S : l <= c
  BY <1>1, <1>2
<1>4. c \in Nat /\ i \in Nat /\ c <= i /\ i <= c
  BY <1>1, <1>3
<1> QED
  BY <1>2, <1>4

LEMMA UsersAreApplied ==
  ASSUME StartupInv, Applied, NEW e \in Addresses
  PROVE  UserIsApplied(e)
<1>1. PICK f \in Files : f = file
  BY DEF StartupInv, StartupTyped
<1>2. UserDone(f, e, Len(f.users) + 1)
  BY <1>1 DEF StartupInv, UsersInv, Applied
<1> DEFINE mine == {i \in DOMAIN f.users : f.users[i].email = e}
           secret == {i \in mine : f.users[i].password # Absent}
           named == {i \in mine : f.users[i].roles # Unset}
<1>3. Len(f.users) \in Nat /\ DOMAIN f.users = 1..Len(f.users)
  BY FileShape
<1>4. Mine(f, e, Len(f.users) + 1) = mine
  BY <1>3 DEF Mine
<1>5. Secret(f, e, Len(f.users) + 1) = secret /\ Named(f, e, Len(f.users) + 1) = named
  BY <1>4 DEF Secret, Named
<1>6. secret \in SUBSET Nat /\ named \in SUBSET Nat
  BY <1>3
<1>7. mine # {} => people[e].there
  BY <1>2, <1>4 DEF UserDone, ThereDone
<1>8. secret # {} => people[e].password = f.users[CHOOSE i \in secret : \A k \in secret : k <= i].password
  <2> SUFFICES ASSUME secret # {}
               PROVE  people[e].password = f.users[CHOOSE i \in secret : \A k \in secret : k <= i].password
    OBVIOUS
  <2>1. PICK i \in DOMAIN f.users : IsLast(i, secret) /\ people[e].password = f.users[i].password
    BY <1>2, <1>5 DEF UserDone, PasswordDone
  <2> HIDE DEF secret
  <2> QED
    BY <1>6, <2>1, LastChosen
<1>9. named # {} => people[e].roles = f.users[CHOOSE i \in named : \A k \in named : k <= i].roles \cap roles
  <2> SUFFICES ASSUME named # {}
               PROVE  people[e].roles = f.users[CHOOSE i \in named : \A k \in named : k <= i].roles \cap roles
    OBVIOUS
  <2>1. PICK i \in DOMAIN f.users : IsLast(i, named) /\ people[e].roles = f.users[i].roles \cap roles
    BY <1>2, <1>5 DEF UserDone, RolesDone
  <2> HIDE DEF named
  <2> QED
    BY <1>6, <2>1, LastChosen
<1> QED
  BY <1>1, <1>7, <1>8, <1>9 DEF UserIsApplied

LEMMA ProjectsAreApplied ==
  ASSUME StartupInv, Applied, NEW s \in Slugs
  PROVE  ProjectIsApplied(s)
<1>1. PICK f \in Files : f = file
  BY DEF StartupInv, StartupTyped
<1>2. PICK n \in Nat : n = at.i
  BY DEF StartupInv, StartupTyped
<1>3. n > Len(f.projects) /\ ProjectDone(f, s, n)
  BY <1>1, <1>2 DEF StartupInv, ProjectsInv, Applied
<1> DEFINE mine == {i \in DOMAIN f.projects : f.projects[i].slug = s}
           last == CHOOSE i \in mine : \A k \in mine : k <= i
<1>4. Len(f.projects) \in Nat /\ DOMAIN f.projects = 1..Len(f.projects)
  BY FileShape
<1>5. About(f, s, n) = mine /\ mine \in SUBSET Nat
  BY <1>3, <1>4 DEF About
<1>6. mine # {} =>
        projects[s].there /\ projects[s].name = f.projects[last].name /\ projects[s].position = last
  <2> SUFFICES ASSUME mine # {}
               PROVE  /\ projects[s].there /\ projects[s].name = f.projects[last].name
                      /\ projects[s].position = last
    OBVIOUS
  <2>1. PICK i \in DOMAIN f.projects :
          /\ IsLast(i, mine)
          /\ projects[s].there /\ projects[s].name = f.projects[i].name /\ projects[s].position = i
    BY <1>3, <1>5 DEF ProjectDone
  <2> HIDE DEF mine
  <2>2. last = i
    BY <1>5, <2>1, LastChosen
  <2> QED
    BY <2>1, <2>2
<1> QED
  BY <1>1, <1>6 DEF ProjectIsApplied

LEMMA SourcesApplied ==
  ASSUME StartupInv, Applied
  PROVE  SourcesAreApplied
<1>1. PICK f \in Files : f = file
  BY DEF StartupInv, StartupTyped
<1>2. PICK n \in Nat : n = at.i
  BY DEF StartupInv, StartupTyped
<1>3. n > Len(f.projects) /\ SourcesDone(f, n, 1)
  BY <1>1, <1>2 DEF StartupInv, ProjectsInv, Applied
<1> SUFFICES ASSUME NEW i \in DOMAIN f.projects, NEW j \in DOMAIN f.projects[i].sources,
                    \A k \in i..Len(f.projects) : f.projects[k].slug = f.projects[i].slug =>
                      \A l \in DOMAIN f.projects[k].sources :
                        (k > i \/ l > j) => f.projects[k].sources[l].name # f.projects[i].sources[j].name
             PROVE  projects[f.projects[i].slug].sources[f.projects[i].sources[j].name] = f.projects[i].sources[j].config
  BY <1>1 DEF SourcesAreApplied
<1>4. Len(f.projects) \in Nat /\ DOMAIN f.projects = 1..Len(f.projects)
  BY FileShape
<1>5. i \in Nat /\ j \in Nat /\ i <= Len(f.projects)
  BY <1>4, SourceAt
<1>6. Before(i, j, n, 1)
  BY <1>3, <1>4, <1>5 DEF Before
<1>7. ~Overwritten(f, i, j, n, 1)
  <2> SUFFICES ASSUME NEW k \in DOMAIN f.projects, NEW l \in DOMAIN f.projects[k].sources,
                      Before(i, j, k, l), SameSource(f, i, j, k, l)
               PROVE  FALSE
    BY DEF Overwritten
  <2>1. k \in Nat /\ l \in Nat /\ k <= Len(f.projects)
    BY <1>4, SourceAt
  <2>2. k \in i..Len(f.projects) /\ (k > i \/ l > j)
    BY <1>4, <1>5, <2>1 DEF Before
  <2> QED
    BY <2>2 DEF SameSource
<1>8. SourceDone(f, i, j)
  BY <1>3, <1>6, <1>7 DEF SourcesDone
<1> QED
  BY <1>8 DEF SourceDone

LEMMA InvIsRestored == StartupInv => StoreIsRestored
<1> SUFFICES ASSUME StartupInv PROVE StoreIsRestored
  OBVIOUS
<1>1. StartupTypeOK
  <2>1. /\ \A e \in Addresses : people[e].roles \subseteq RoleSlugs
        /\ DOMAIN projects = Slugs /\ \A s \in Slugs : projects[s].there \in BOOLEAN
    BY DEF StartupInv, StartupTyped, People, ProjectRows
  <2> QED
    BY <2>1 DEF StartupInv, StartupTyped, StartupTypeOK
<1>2. FileIsApplied
  BY UsersAreApplied, ProjectsAreApplied, SourcesApplied DEF FileIsApplied
<1>3. StoreStaysUsable
  BY DEF StartupInv, ContentInv, Applying, StoreStaysUsable, Applied
<1> QED
  BY <1>1, <1>2, <1>3 DEF StoreIsRestored

\* A start that gets to listen has applied the whole of its file (its users,
\* their passwords and roles, its projects and their sources), whatever the
\* starts before it left unfinished and the routes changed since, and a store
\* that was served from is never refused (StoreIsRestored): runMetaMigrations,
\* ensureDefaultMetaContent and applyBootstrap.
THEOREM StoreIsAlwaysRestored == StartupSpec => []StoreIsRestored
<1>1. StartupInit => StartupInv
  BY StartupInitInv
<1>2. StartupInv /\ [StartupNext]_startupVars => StartupInv'
  BY StartupNextInv
<1>3. StartupInv => StoreIsRestored
  BY InvIsRestored
<1> QED
  BY <1>1, <1>2, <1>3, PTL DEF StartupSpec
-----------------------------------------------------------------------------
(* The secrets of the data sources.                                        *)

SourcesSpec == SourcesInit /\ [][SourcesNext]_sourceVars

-----------------------------------------------------------------------------
(* The inductive invariant.                                                *)

Names == SourceIds \cup {Empty}
Methods == {"password", "privateKey"}
SourceConfigs(values) == [SecretPaths -> values]

\* A source that exists has a type, and no secret that its type has not; one
\* that a list shows has no secret at all.
Records(values) ==
  [name : Names, type : SourceTypes, config : SourceConfigs(values), ssh : BOOLEAN, method : Methods]
StoredValues == ({Empty, First} \cup Secrets) \ {Space}
StoredRows ==
  {NoSource, Gone}
    \cup {s \in Records(StoredValues) : \A f \in SecretPaths \ Module(s.type).secrets : s.config[f] = Empty}
ListedValues == {Empty, Marker}
ListedRows == {NoSource} \cup Records(ListedValues)

\* A dialog is closed, or has a type and blanks or typed secrets.
TypedValues == {Empty, Space} \cup Secrets
Drafts(values) ==
  [open : {"create", "edit"}, id : SourceIds \cup {"none"}, name : Names, type : SourceTypes,
   config : SourceConfigs(values), ssh : BOOLEAN, method : Methods, redacted : SUBSET SecretPaths,
   source : ListedRows]
FormStates == {Closed} \cup {f \in Drafts(TypedValues) : f.open = "edit" => f.id \in SourceIds}

\* A request sends no blank for a field shown as saved.
SentValues == TypedValues \cup {Missing}
SentPatches ==
  {p \in Drafts(SentValues) : \A f \in p.redacted : p.config[f] # Empty}
Orders ==
  [browser : Browsers, how : {"create"}, id : SourceIds \cup {"none"}, patch : SentPatches]
    \cup [browser : Browsers, how : {"edit"}, id : SourceIds, patch : SentPatches]
    \cup [browser : Browsers, how : {"delete"}, id : SourceIds, patch : {Closed}]

StoredOK == stored \in [SourceIds -> StoredRows]
ListsOK == lists \in [Browsers -> [SourceIds -> ListedRows]]
FormsOK == form \in [Browsers -> FormStates] /\ typed \in [Browsers -> SUBSET Secrets]
RequestsOK == requests \subseteq Orders

\* What a browser's dialog holds, its user typed.
FormsAreTyped == \A b \in Browsers, f \in SecretPaths : form[b].config[f] \in {Empty, Space} \cup typed[b]

SourcesInv ==
  /\ mode \in {"local", "server"} /\ scope \in Cases /\ sourceSteps \in 0..MaxSourceSteps
  /\ StoredOK /\ ListsOK /\ FormsOK /\ RequestsOK /\ FormsAreTyped

-----------------------------------------------------------------------------
(* What the server makes of a configuration.                               *)

\* The values that are no secret.
LEMMA ValuesDiffer ==
  Empty # Marker /\ Empty # Missing /\ Empty # Space /\ Marker # Missing /\ Space # Marker /\ Space # Missing
BY DEF Empty, Marker, Missing, Space

\* normalizeDataSourceConfig leaves a row that may be stored.
LEMMA NormalizedIsStored ==
  ASSUME NEW r, r.name \in Names, r.type \in SourceTypes, r.ssh \in BOOLEAN, r.method \in Methods,
         \A f \in SecretPaths : r.config[f] \in {Empty, First, Space} \cup Secrets
  PROVE  Normalized(r) \in StoredRows
<1>1. \A f \in SecretPaths : Trimmed(r.config[f]) \in StoredValues
  BY ValuesDiffer DEF Trimmed, StoredValues
<1>2. [f \in SecretPaths |-> IF f \in KeptPaths(r) THEN Trimmed(r.config[f]) ELSE Empty] \in SourceConfigs(StoredValues)
  BY <1>1, ValuesDiffer DEF SourceConfigs, StoredValues
<1>3. Normalized(r) \in Records(StoredValues)
  BY <1>2 DEF Normalized, Records, Methods
<1>4. \A f \in SecretPaths \ Module(r.type).secrets : Normalized(r).config[f] = Empty
  BY DEF Normalized, KeptPaths
<1>5. Normalized(r).type = r.type
  BY DEF Normalized
<1> QED
  BY <1>3, <1>4, <1>5 DEF StoredRows

\* sanitizeDataSourceRecord leaves no secret.
LEMMA SanitizedIsListed ==
  ASSUME NEW s \in StoredRows
  PROVE  Sanitized(s) \in ListedRows
<1>1. CASE ~Exists(s)
  BY <1>1 DEF Sanitized, ListedRows
<1>2. CASE Exists(s)
  <2>1. s \in Records(StoredValues) /\ \A f \in SecretPaths \ Module(s.type).secrets : s.config[f] = Empty
    BY <1>2 DEF Exists, StoredRows
  <2>2. PICK c \in SourceConfigs(ListedValues) :
          c = [f \in SecretPaths |-> IF f \in Module(s.type).secrets /\ s.config[f] # Empty THEN Marker ELSE s.config[f]]
    BY <2>1 DEF SourceConfigs, ListedValues
  <2>3. Sanitized(s) = [s EXCEPT !.config = c]
    BY <1>2, <2>2 DEF Sanitized
  <2> QED
    BY <2>1, <2>3 DEF ListedRows, Records
<1> QED
  BY <1>1, <1>2

\* So a list has none.
LEMMA ListedIsSafe ==
  ASSUME NEW records \in [SourceIds -> StoredRows]
  PROVE  Listed(records) \in [SourceIds -> ListedRows]
BY SanitizedIsListed DEF Listed, ListedRows

\* createDataSourceFormState leaves a blank form.
LEMMA FormIsBlank ==
  ASSUME NEW how \in {"create", "edit"}, NEW id \in SourceIds \cup {"none"}, how = "edit" => id \in SourceIds,
         NEW type \in SourceTypes, NEW s \in ListedRows, NEW edited \in ListedRows
  PROVE  /\ FormState(how, id, type, s, edited) \in FormStates \ {Closed}
         /\ \A f \in SecretPaths : FormState(how, id, type, s, edited).config[f] = Empty
<1>1. s.name \in Names /\ s.ssh \in BOOLEAN /\ s.method \in Methods
  <2>1. CASE s = NoSource
    BY <2>1 DEF NoSource, Names, Methods
  <2>2. CASE s \in Records(ListedValues)
    BY <2>2 DEF Records
  <2> QED
    BY <2>1, <2>2 DEF ListedRows
<1>2. Blank \in SourceConfigs(TypedValues) /\ \A f \in SecretPaths : Blank[f] = Empty
  BY DEF Blank, SourceConfigs, TypedValues
<1>3. PICK R \in SUBSET SecretPaths : R = {f \in SecretPaths : s.config[f] = Marker}
  OBVIOUS
<1>4. FormState(how, id, type, s, edited) =
        [open |-> how, id |-> id, type |-> type, source |-> edited, name |-> s.name, ssh |-> s.ssh,
         method |-> s.method, config |-> Blank, redacted |-> R]
  BY <1>3 DEF FormState
<1>5. FormState(how, id, type, s, edited) \in Drafts(TypedValues)
  BY <1>1, <1>2, <1>4 DEF Drafts
<1> QED
  BY <1>2, <1>4, <1>5 DEF FormStates, Closed

\* The name is as good as any other.
LEMMA NamedForm ==
  ASSUME NEW f \in FormStates \ {Closed}, NEW name \in Names
  PROVE  [f EXCEPT !.name = name] \in FormStates /\ [f EXCEPT !.name = name].config = f.config
<1>1. f \in Drafts(TypedValues)
  BY DEF FormStates
<1>2. [f EXCEPT !.name = name] \in Drafts(TypedValues)
  BY <1>1 DEF Drafts
<1> QED
  BY <1>1, <1>2 DEF FormStates, Drafts

\* buildDataSourcePayload sends what was typed, and no blank for a field shown
\* as saved.
LEMMA PayloadIsSent ==
  ASSUME NEW f \in FormStates, f.open # "no"
  PROVE  Payload(f) \in SentPatches /\ Payload(f).redacted = f.redacted
<1>1. f \in Drafts(TypedValues)
  BY DEF FormStates, Closed
<1>2. PICK c \in SourceConfigs(SentValues) :
        c = [p \in SecretPaths |->
               IF p \notin Module(f.type).secrets \/ (p \in f.redacted /\ f.config[p] = Empty)
               THEN Missing ELSE f.config[p]]
  BY <1>1 DEF Drafts, SourceConfigs, SentValues
<1>3. Payload(f) = [f EXCEPT !.config = c]
  BY <1>2 DEF Payload
<1>4. \A p \in f.redacted : c[p] # Empty
  BY <1>1, <1>2, ValuesDiffer DEF Drafts
<1>5. Payload(f) \in Drafts(SentValues)
  BY <1>1, <1>3 DEF Drafts
<1> QED
  BY <1>1, <1>3, <1>4, <1>5 DEF SentPatches, Drafts

-----------------------------------------------------------------------------
(* The steps.                                                              *)

\* At first there is one source, and everybody has its list.
LEMMA SourcesInitInv == SourcesInit => SourcesInv
<1> SUFFICES ASSUME SourcesInit PROVE SourcesInv
  OBVIOUS
<1>1. PICK type \in SourceTypes :
        stored = [[i \in SourceIds |-> NoSource] EXCEPT ![FirstId] = FirstSource(FirstId, type)]
  <2>1. \E type \in {t \in scope.types : IsAvailable(t)} :
          stored = [[i \in SourceIds |-> NoSource] EXCEPT ![FirstId] = FirstSource(FirstId, type)]
    BY DEF SourcesInit
  <2> QED
    BY <2>1, CasesAssumption DEF SourcesInit
<1>2. SourceIds # {} => FirstSource(FirstId, type) \in StoredRows
  <2> SUFFICES ASSUME SourceIds # {} PROVE FirstSource(FirstId, type) \in StoredRows
    OBVIOUS
  <2>1. FirstId \in Names
    BY DEF FirstId, Names
  <2> QED
    BY <2>1, NormalizedIsStored DEF FirstSource, Methods
<1>3. StoredOK
  BY <1>1, <1>2 DEF StoredOK, StoredRows
<1>4. ListsOK
  BY <1>3, ListedIsSafe DEF SourcesInit, ListsOK, StoredOK
<1>5. FormsOK /\ RequestsOK /\ FormsAreTyped
  BY DEF SourcesInit, FormsOK, RequestsOK, FormsAreTyped, FormStates, Closed, Blank
<1> QED
  BY <1>3, <1>4, <1>5, SourcesAssumption DEF SourcesInit, SourcesInv

\* Opening a dialog, or choosing another type in it, leaves it blank.
LEMMA OpeningInv ==
  ASSUME SourcesInv, NEW b \in Browsers, UNCHANGED <<mode, scope, stored, lists, requests, typed>>,
         sourceSteps' \in 0..MaxSourceSteps, NEW f \in FormStates, \A p \in SecretPaths : f.config[p] = Empty,
         form' = [form EXCEPT ![b] = f]
  PROVE  SourcesInv'
<1>1. StoredOK' /\ ListsOK' /\ RequestsOK' /\ scope' \in Cases /\ mode' \in {"local", "server"}
  BY DEF SourcesInv, StoredOK, ListsOK, RequestsOK
<1>2. FormsOK'
  BY DEF SourcesInv, FormsOK
<1>3. FormsAreTyped'
  BY DEF SourcesInv, FormsOK, FormsAreTyped
<1> QED
  BY <1>1, <1>2, <1>3 DEF SourcesInv

\* The dialog's steps.
LEMMA DialogInv ==
  ASSUME SourcesInv, NEW b \in Browsers,
         \/ \E type \in SourceTypes, name \in SourceIds : OpenCreate(b, type, name)
         \/ \E type \in SourceTypes : ChooseType(b, type)
         \/ \E id \in SourceIds : OpenEdit(b, id)
         \/ CloseDialog(b)
  PROVE  SourcesInv'
<1> USE DEF MayOpen
<1>1. sourceSteps' \in 0..MaxSourceSteps
  BY SourcesAssumption DEF SourcesInv, OpenCreate, ChooseType, OpenEdit, CloseDialog
<1>2. NoSource \in ListedRows /\ form[b] \in FormStates
  BY DEF ListedRows, SourcesInv, FormsOK
<1>3. ASSUME NEW type \in SourceTypes, NEW name \in SourceIds, OpenCreate(b, type, name) PROVE SourcesInv'
  <2>1. PICK f : f = FormState("create", "none", type, NoSource, NoSource)
    OBVIOUS
  <2>2. f \in FormStates \ {Closed} /\ \A p \in SecretPaths : f.config[p] = Empty
    BY <1>2, <2>1, FormIsBlank
  <2>3. [f EXCEPT !.name = name] \in FormStates /\ [f EXCEPT !.name = name].config = f.config
    BY <2>2, NamedForm DEF Names
  <2> QED
    BY <1>1, <1>3, <2>1, <2>2, <2>3, OpeningInv DEF OpenCreate
<1>4. ASSUME NEW type \in SourceTypes, ChooseType(b, type) PROVE SourcesInv'
  <2>1. PICK d \in Drafts(TypedValues) : d = form[b] /\ (d.open = "edit" => d.id \in SourceIds)
    BY <1>2, <1>4 DEF ChooseType, FormStates, Closed
  <2>2. PICK from \in ListedRows : from = IF d.source.type = type THEN d.source ELSE NoSource
    BY <1>2, <2>1 DEF Drafts
  <2>3. PICK f : f = FormState(d.open, d.id, type, from, d.source)
    OBVIOUS
  <2>4. /\ d.open \in {"create", "edit"} /\ d.id \in SourceIds \cup {"none"} /\ d.source \in ListedRows
        /\ d.name \in Names
    BY <2>1 DEF Drafts
  <2>5. PICK how \in {"create", "edit"}, id \in SourceIds \cup {"none"}, edited \in ListedRows :
          how = d.open /\ id = d.id /\ edited = d.source
    BY <2>4
  <2>6. f \in FormStates \ {Closed} /\ \A p \in SecretPaths : f.config[p] = Empty
    <3>1. (how = "edit" => id \in SourceIds) /\ f = FormState(how, id, type, from, edited)
      BY <2>1, <2>3, <2>5
    <3> QED
      BY <3>1, FormIsBlank
  <2>7. PICK g \in FormStates : g = [f EXCEPT !.name = d.name] /\ g.config = f.config
    BY <2>4, <2>6, NamedForm
  <2>8. form' = [form EXCEPT ![b] = g] /\ UNCHANGED <<mode, scope, stored, lists, requests, typed>>
    BY <1>4, <2>1, <2>2, <2>3, <2>7 DEF ChooseType
  <2> QED
    BY <1>1, <2>6, <2>7, <2>8, OpeningInv
<1>5. ASSUME NEW id \in SourceIds, OpenEdit(b, id) PROVE SourcesInv'
  <2>1. PICK s \in ListedRows : s = lists[b][id]
    BY DEF SourcesInv, ListsOK
  <2>2. s.type \in SourceTypes
    BY <1>5, <2>1 DEF OpenEdit, Exists, ListedRows, Records
  <2>3. PICK f : f = FormState("edit", id, s.type, s, s)
    OBVIOUS
  <2>4. f \in FormStates \ {Closed} /\ \A p \in SecretPaths : f.config[p] = Empty
    BY <2>2, <2>3, FormIsBlank
  <2> QED
    BY <1>1, <1>5, <2>1, <2>3, <2>4, OpeningInv DEF OpenEdit
<1>6. CASE CloseDialog(b)
  <2>1. Closed \in FormStates /\ \A p \in SecretPaths : Closed.config[p] = Empty
    BY DEF FormStates, Closed, Blank
  <2> QED
    BY <1>1, <1>6, <2>1, OpeningInv DEF CloseDialog
<1> QED
  BY <1>3, <1>4, <1>5, <1>6

\* What is typed is counted as typed.
LEMMA TypingInv ==
  ASSUME SourcesInv, NEW b \in Browsers, NEW values \in scope.fills, TypeSecrets(b, values)
  PROVE  SourcesInv'
<1>1. form[b] \in Drafts(TypedValues) /\ (form[b].open = "edit" => form[b].id \in SourceIds)
  BY DEF TypeSecrets, SourcesInv, FormsOK, FormStates, Closed
<1>2. values \in [scope.paths -> TypedValues]
  BY CasesAssumption DEF SourcesInv, TypedValues
<1>3. PICK mine : mine = Module(form[b].type).secrets \cap scope.paths
  OBVIOUS
<1>4. PICK c \in SourceConfigs(TypedValues) : c = [f \in SecretPaths |-> IF f \in mine THEN values[f] ELSE Empty]
  BY <1>2, <1>3 DEF SourceConfigs, TypedValues
<1>5. [form[b] EXCEPT !.config = c] \in FormStates
  BY <1>1 DEF FormStates, Drafts
<1>6. PICK new : new = {values[f] : f \in mine} \cap Secrets
  OBVIOUS
<1>7. form' = [form EXCEPT ![b].config = c] /\ typed' = [typed EXCEPT ![b] = @ \cup new]
  BY <1>3, <1>4, <1>6 DEF TypeSecrets
<1>8. FormsOK'
  BY <1>5, <1>6, <1>7 DEF SourcesInv, FormsOK
<1>9. FormsAreTyped'
  <2> SUFFICES ASSUME NEW a \in Browsers, NEW f \in SecretPaths
               PROVE  form'[a].config[f] \in {Empty, Space} \cup typed'[a]
    BY DEF FormsAreTyped
  <2>1. CASE a # b
    BY <1>7, <2>1 DEF SourcesInv, FormsOK, FormsAreTyped
  <2>2. CASE a = b
    <3>1. form'[b].config = c /\ typed'[b] = typed[b] \cup new
      BY <1>1, <1>7 DEF SourcesInv, FormsOK, Drafts
    <3>2. c[f] \in {Empty, Space} \cup new
      BY <1>2, <1>3, <1>4, <1>6 DEF TypedValues
    <3> QED
      BY <2>2, <3>1, <3>2
  <2> QED
    BY <2>1, <2>2
<1>10. StoredOK' /\ ListsOK' /\ RequestsOK' /\ UNCHANGED <<mode, scope, sourceSteps>>
  BY DEF TypeSecrets, SourcesInv, StoredOK, ListsOK, RequestsOK
<1> QED
  BY <1>8, <1>9, <1>10 DEF SourcesInv

\* TransportConfigSections changes no secret.
LEMMA TunnelInv ==
  ASSUME SourcesInv, NEW b \in Browsers, NEW on \in BOOLEAN, NEW method \in Methods, SetTunnel(b, on, method)
  PROVE  SourcesInv'
<1>1. PICK f \in Drafts(TypedValues) : f = form[b] /\ (f.open = "edit" => f.id \in SourceIds)
  BY DEF SetTunnel, SourcesInv, FormsOK, FormStates, Closed
<1>2. PICK g : g = [f EXCEPT !.ssh = on, !.method = method]
  OBVIOUS
<1>3. g \in FormStates /\ g.config = f.config
  BY <1>1, <1>2 DEF FormStates, Drafts
<1>4. form' = [form EXCEPT ![b] = g]
  BY <1>1, <1>2 DEF SetTunnel, SourcesInv, FormsOK
<1>5. FormsOK'
  BY <1>3, <1>4 DEF SetTunnel, SourcesInv, FormsOK
<1>6. FormsAreTyped'
  BY <1>1, <1>3, <1>4 DEF SetTunnel, SourcesInv, FormsOK, FormsAreTyped
<1>7. StoredOK' /\ ListsOK' /\ RequestsOK' /\ UNCHANGED <<mode, scope, sourceSteps>>
  BY DEF SetTunnel, SourcesInv, StoredOK, ListsOK, RequestsOK
<1> QED
  BY <1>5, <1>6, <1>7 DEF SourcesInv

\* A request carries what the dialog holds.
LEMMA AskingInv ==
  ASSUME SourcesInv, NEW b \in Browsers, Submit(b) \/ \E id \in SourceIds : AskDelete(b, id)
  PROVE  SourcesInv'
<1>1. RequestsOK'
  <2>1. CASE Submit(b)
    <3>1. PICK f \in FormStates : f = form[b]
      BY DEF SourcesInv, FormsOK
    <3>2. PICK p \in SentPatches : p = Payload(f)
      BY <2>1, <3>1, PayloadIsSent DEF Submit
    <3>3. f \in Drafts(TypedValues) /\ (f.open = "edit" => f.id \in SourceIds)
      BY <2>1, <3>1 DEF Submit, FormStates, Closed
    <3>4. [browser |-> b, how |-> f.open, id |-> f.id, patch |-> p] \in Orders
      BY <3>3 DEF Orders, Drafts
    <3> QED
      BY <2>1, <3>1, <3>2, <3>4 DEF Submit, SourcesInv, RequestsOK
  <2>2. ASSUME NEW id \in SourceIds, AskDelete(b, id) PROVE RequestsOK'
    BY <2>2 DEF AskDelete, SourcesInv, RequestsOK, Orders
  <2> QED
    BY <2>1, <2>2
<1>2. StoredOK' /\ ListsOK' /\ FormsOK' /\ FormsAreTyped' /\ UNCHANGED <<mode, scope>>
  BY DEF Submit, AskDelete, SourcesInv, StoredOK, ListsOK, FormsOK, FormsAreTyped
<1>3. sourceSteps' \in 0..MaxSourceSteps
  BY SourcesAssumption DEF Submit, AskDelete, SourcesInv
<1> QED
  BY <1>1, <1>2, <1>3 DEF SourcesInv

\* What the routes write is a configuration of its type, and what the browser
\* lists after it has no secret.
LEMMA AnswerInv ==
  ASSUME SourcesInv, NEW r \in requests, UNCHANGED <<mode, scope, typed, sourceSteps>>,
         requests' = requests \ {r}, StoredOK', Done(r) \/ UNCHANGED <<lists, form>>
  PROVE  SourcesInv'
<1>1. Listed(stored') \in [SourceIds -> ListedRows]
  BY ListedIsSafe DEF StoredOK
<1>2. ListsOK'
  BY <1>1 DEF Done, SourcesInv, ListsOK
<1>3. Closed \in FormStates /\ \A p \in SecretPaths : Closed.config[p] = Empty
  BY DEF FormStates, Closed, Blank
<1>4. \A b \in Browsers : form'[b] \in {form[b], Closed}
  BY DEF Done, SourcesInv, FormsOK
<1>5. FormsOK'
  BY <1>3 DEF Done, SourcesInv, FormsOK
<1>6. FormsAreTyped'
  BY <1>3, <1>4 DEF SourcesInv, FormsAreTyped
<1>7. RequestsOK'
  BY DEF SourcesInv, RequestsOK
<1> QED
  BY <1>2, <1>5, <1>6, <1>7 DEF SourcesInv

\* The routes.
LEMMA SourcesRouteInv ==
  ASSUME SourcesInv, NEW r \in requests, Create(r) \/ Update(r) \/ Delete(r)
  PROVE  SourcesInv'
<1>1. r \in Orders
  BY DEF SourcesInv, RequestsOK
<1>2. CASE Refused
  <2>1. StoredOK'
    BY <1>2 DEF Refused, SourcesInv, StoredOK
  <2> QED
    BY <1>2, <2>1, AnswerInv DEF Refused, Create, Update, Delete
<1>3. CASE Create(r) /\ ~Refused
  <2>1. PICK p \in SentPatches : p = r.patch
    BY <1>1, <1>3 DEF Create, Orders
  <2>2. p \in Drafts(SentValues)
    BY DEF SentPatches
  <2>3. PICK c \in SourceConfigs(TypedValues) : c = [f \in SecretPaths |-> IF p.config[f] = Missing THEN Empty ELSE p.config[f]]
    BY <2>2 DEF Drafts, SourceConfigs, SentValues, TypedValues
  <2>4. PICK asked : asked = [p EXCEPT !.config = c]
    OBVIOUS
  <2>5. /\ asked.name \in Names /\ asked.type \in SourceTypes /\ asked.ssh \in BOOLEAN
        /\ asked.method \in Methods /\ asked.config = c
    BY <2>2, <2>4 DEF Drafts
  <2>6. Normalized(asked) \in StoredRows
    BY <2>3, <2>5, NormalizedIsStored DEF SourceConfigs, TypedValues
  <2>7. asked = [r.patch EXCEPT !.config = [f \in SecretPaths |-> IF @[f] = Missing THEN Empty ELSE @[f]]]
    BY <2>1, <2>2, <2>3, <2>4 DEF Drafts
  <2>8. PICK id \in SourceIds : stored' = [stored EXCEPT ![id] = Normalized(asked)] /\ Done(r)
    BY <1>3, <2>7 DEF Create
  <2>9. StoredOK'
    BY <2>6, <2>8 DEF SourcesInv, StoredOK
  <2> QED
    BY <1>3, <2>8, <2>9, AnswerInv DEF Create
<1>4. CASE Update(r) /\ ~Refused
  <2>1. r.id \in SourceIds /\ r.patch \in SentPatches
    BY <1>1, <1>4 DEF Update, Orders
  <2>2. PICK next : next = Merged(stored[r.id], r.patch)
    OBVIOUS
  <2>3. Exists(stored[r.id]) /\ stored' = [stored EXCEPT ![r.id] = Normalized(next)] /\ Done(r)
    BY <1>4, <2>2 DEF Update
  <2>4. stored[r.id] \in Records(StoredValues)
    BY <2>1, <2>3 DEF SourcesInv, StoredOK, StoredRows, Exists
  <2>5. Normalized(next) \in StoredRows
    <3>1. r.patch \in Drafts(SentValues)
      BY <2>1 DEF SentPatches
    <3>2. \A f \in SecretPaths : stored[r.id].config[f] \in StoredValues /\ r.patch.config[f] \in SentValues
      BY <2>4, <3>1 DEF Records, SourceConfigs, Drafts
    <3>3. \A f \in SecretPaths : next.config[f] \in {Empty, First, Space} \cup Secrets
      BY <2>2, <3>2 DEF Merged, MergedSecret, StoredValues, SentValues, TypedValues
    <3>4. /\ next.name \in Names /\ next.type \in SourceTypes /\ next.ssh \in BOOLEAN
          /\ next.method \in Methods
      BY <2>2, <3>1 DEF Merged, Drafts
    <3> QED
      BY <3>3, <3>4, NormalizedIsStored
  <2>6. StoredOK'
    BY <2>3, <2>5 DEF SourcesInv, StoredOK
  <2> QED
    BY <1>4, <2>3, <2>6, AnswerInv DEF Update
<1>5. CASE Delete(r) /\ ~Refused
  <2>1. stored' = [stored EXCEPT ![r.id] = Gone] /\ Done(r)
    BY <1>5 DEF Delete
  <2>2. StoredOK'
    BY <2>1 DEF SourcesInv, StoredOK, StoredRows
  <2> QED
    BY <1>5, <2>1, <2>2, AnswerInv DEF Delete
<1> QED
  BY <1>2, <1>3, <1>4, <1>5

\* Every step keeps the invariant.
LEMMA SourcesNextInv == SourcesInv /\ [SourcesNext]_sourceVars => SourcesInv'
<1> SUFFICES ASSUME SourcesInv, [SourcesNext]_sourceVars PROVE SourcesInv'
  OBVIOUS
<1>1. CASE UNCHANGED sourceVars
  BY <1>1 DEF sourceVars, SourcesInv, StoredOK, ListsOK, FormsOK, RequestsOK, FormsAreTyped
<1>2. ASSUME NEW b \in Browsers, Refresh(b) PROVE SourcesInv'
  <2>1. Listed(stored) \in [SourceIds -> ListedRows]
    BY ListedIsSafe DEF SourcesInv, StoredOK
  <2>2. ListsOK'
    BY <1>2, <2>1 DEF Refresh, SourcesInv, ListsOK
  <2> QED
    BY <1>2, <2>2 DEF Refresh, SourcesInv, StoredOK, FormsOK, RequestsOK, FormsAreTyped
<1> QED
  BY <1>1, <1>2, DialogInv, TypingInv, TunnelInv, AskingInv, SourcesRouteInv DEF SourcesNext, Methods

-----------------------------------------------------------------------------
(* What follows.                                                           *)

\* No row shows or stores what it should not.
LEMMA InvIsSafe == SourcesInv => SecretsAreSafe
<1> SUFFICES ASSUME SourcesInv PROVE SecretsAreSafe
  OBVIOUS
<1>1. ASSUME NEW s \in StoredRows
      PROVE  /\ s.type \in SourceTypes \cup {"none", "deleted"} /\ DOMAIN s.config = SecretPaths
             /\ \A f \in SecretPaths : s.config[f] \in {Empty, First} \cup Secrets
  <2>1. CASE s \in {NoSource, Gone}
    BY <2>1 DEF NoSource, Gone, Blank
  <2>2. CASE s \in Records(StoredValues)
    BY <2>2 DEF Records, SourceConfigs, StoredValues
  <2> QED
    BY <2>1, <2>2 DEF StoredRows
<1>2. ASSUME NEW s \in ListedRows, NEW f \in SecretPaths PROVE s.config[f] \in {Empty, Marker}
  <2>1. CASE s = NoSource
    BY <2>1 DEF NoSource, Blank
  <2>2. CASE s \in Records(ListedValues)
    BY <2>2 DEF Records, SourceConfigs, ListedValues
  <2> QED
    BY <2>1, <2>2 DEF ListedRows
<1>3. ASSUME NEW f \in FormStates PROVE f.open \in {"no", "create", "edit"} /\ f.redacted \subseteq SecretPaths
  BY DEF FormStates, Drafts, Closed
<1>4. \A r \in requests : r.browser \in Browsers /\ r.how \in {"create", "edit", "delete"}
  BY DEF SourcesInv, RequestsOK, Orders
<1>5. SourcesTypeOK
  BY <1>1, <1>3, <1>4 DEF SourcesInv, StoredOK, ListsOK, FormsOK, SourcesTypeOK
<1>6. SecretsStayHidden
  BY <1>1, <1>2 DEF SourcesInv, StoredOK, ListsOK, FormsAreTyped, SecretsStayHidden
<1> QED
  BY <1>5, <1>6 DEF SecretsAreSafe

\* mergeDataSourceConfig and what is kept of its result: a secret that changed
\* was sent, or is none of the type and method, or was not shown as saved.
LEMMA UpdateKeeps ==
  ASSUME SourcesInv, NEW r \in requests, Update(r), NEW id \in SourceIds, NEW f \in SecretPaths,
         Exists(stored[id]), stored'[id].config[f] # stored[id].config[f]
  PROVE  /\ r.id = id
         /\ \/ r.patch.config[f] \in Secrets \cup {Space} /\ stored'[id].config[f] = Trimmed(r.patch.config[f])
            \/ stored'[id].config[f] = Empty /\ (f \notin KeptPaths(r.patch) \/ f \notin r.patch.redacted)
<1>1. r.id \in SourceIds /\ r.patch \in SentPatches
  BY DEF Update, Orders, SourcesInv, RequestsOK
<1>2. PICK next : next = Merged(stored[r.id], r.patch)
  OBVIOUS
<1>3. stored' = [stored EXCEPT ![r.id] = Normalized(next)]
  BY <1>2 DEF Update, Refused
<1>4. r.id = id /\ stored'[id] = Normalized(next)
  BY <1>1, <1>3 DEF SourcesInv, StoredOK
<1>5. next.type = r.patch.type /\ next.method = r.patch.method
  BY <1>2 DEF Merged
<1>6. KeptPaths(next) = KeptPaths(r.patch)
  BY <1>5 DEF KeptPaths
<1>7. stored'[id].config[f] = IF f \in KeptPaths(r.patch) THEN Trimmed(next.config[f]) ELSE Empty
  BY <1>4, <1>6 DEF Normalized
<1>8. next.config[f] = MergedSecret(stored[id].config[f], r.patch.config[f])
  BY <1>2, <1>4 DEF Merged
<1>9. Trimmed(stored[id].config[f]) = stored[id].config[f]
  <2>1. stored[id] \in Records(StoredValues)
    BY DEF SourcesInv, StoredOK, StoredRows, Exists
  <2>2. stored[id].config[f] # Space
    BY <2>1 DEF Records, SourceConfigs, StoredValues
  <2> QED
    BY <2>2 DEF Trimmed
<1>10. /\ r.patch.config[f] \in {Empty, Space, Missing} \cup Secrets
       /\ f \in r.patch.redacted => r.patch.config[f] # Empty
  BY <1>1 DEF SentPatches, Drafts, SourceConfigs, SentValues, TypedValues
<1>11. CASE f \notin KeptPaths(r.patch)
  BY <1>4, <1>7, <1>11
<1>12. CASE f \in KeptPaths(r.patch)
  <2>1. next.config[f] = r.patch.config[f] /\ r.patch.config[f] # Missing
    BY <1>7, <1>8, <1>9, <1>12 DEF MergedSecret
  <2>2. CASE r.patch.config[f] = Empty
    BY <1>4, <1>7, <1>10, <1>12, <2>1, <2>2, ValuesDiffer DEF Trimmed
  <2>3. CASE r.patch.config[f] # Empty
    BY <1>4, <1>7, <1>10, <1>12, <2>1, <2>3
  <2> QED
    BY <2>2, <2>3
<1> QED
  BY <1>11, <1>12

\* Nothing but an update changes the secrets of a source that goes on to exist.
LEMMA StepKeeps == SourcesInv /\ SourcesNext => SecretsAreKept
<1> SUFFICES ASSUME SourcesInv, SourcesNext, NEW id \in SourceIds, NEW f \in SecretPaths,
                    Exists(stored[id]), stored'[id].config[f] # stored[id].config[f], Exists(stored'[id])
             PROVE  \E r \in requests : r.id = id /\
                      \/ r.patch.config[f] \in Secrets \cup {Space} /\ stored'[id].config[f] = Trimmed(r.patch.config[f])
                      \/ stored'[id].config[f] = Empty /\ (f \notin KeptPaths(r.patch) \/ f \notin r.patch.redacted)
  BY DEF SecretsAreKept
<1>1. PICK r \in requests : Create(r) \/ Update(r) \/ Delete(r)
  BY DEF SourcesNext, OpenCreate, ChooseType, OpenEdit, AskDelete, TypeSecrets, SetTunnel, CloseDialog, Submit,
         Refresh
<1>2. ~Create(r)
  <2> SUFFICES ASSUME Create(r) PROVE FALSE
    OBVIOUS
  <2>1. PICK new \in SourceIds : stored[new] = NoSource /\ \E row : stored' = [stored EXCEPT ![new] = row]
    BY DEF Create, Refused
  <2>2. new # id
    BY <2>1 DEF Exists
  <2> QED
    BY <2>1, <2>2 DEF SourcesInv, StoredOK
<1>3. ~Delete(r)
  BY DEF Delete, Refused, Exists, SourcesInv, StoredOK
<1> QED
  BY <1>1, <1>2, <1>3, UpdateKeeps

\* sanitizeDataSourceRecord and the dialog: nothing secret reaches a browser
\* whose user did not type it, and nothing that is no secret is stored.
THEOREM SecretsAreHidden == SourcesSpec => []SecretsAreSafe
BY SourcesInitInv, SourcesNextInv, InvIsSafe, PTL DEF SourcesSpec

\* mergeDataSourceConfig: no secret of a source is lost or changed because a
\* field shown as saved was left blank.
THEOREM SecretsStayKept == SourcesSpec => [][SecretsAreKept]_sourceVars
<1>1. SourcesInv /\ [SourcesNext]_sourceVars => [SecretsAreKept]_sourceVars
  BY StepKeeps
<1> QED
  BY <1>1, SourcesInitInv, SourcesNextInv, PTL DEF SourcesSpec

-----------------------------------------------------------------------------
(* Sessions, passwords and the identity provider.                          *)

SignInSpec == SignInInit /\ [][SignInNext]_signInVars

SessionRows == [user : Users, expires : Nat, live : BOOLEAN]

-----------------------------------------------------------------------------
(* The inductive invariant.                                                *)

\* A callback that waits has a state, a person and an address.
CallsAreComplete ==
  \A h \in Callbacks : callbacks[h] # IdleCall =>
    /\ callbacks[h].state \in OidcStates
    /\ callbacks[h].subject \in Subjects /\ callbacks[h].email \in Emails

\* A state whose code was exchanged is gone from the table.
ExchangedAreGone == \A s \in exchanged : oidc[s].at = "deleted"

\* Tokens are numbered as they are issued, and the one all tabs share is as
\* new as any that a tab has for itself.
TokensAreIssued ==
  /\ shared <= Len(sessions)
  /\ \A t \in TabIds : own[t] <= Len(sessions) /\ (shared # 0 => own[t] <= shared)

SignInInv ==
  SignInTypeOK /\ CallsAreComplete /\ ExchangedAreGone /\ TokensAreIssued /\ OneAccountPerSubject

\* At first nobody has signed in.
LEMMA SignInInitInv == SignInInit => SignInInv
<1> SUFFICES ASSUME SignInInit PROVE SignInInv
  OBVIOUS
<1> USE SignInAssumption DEF SignInInit
<1>1. SignInTypeOK
  <2>1. members \in [Users -> [email : Emails \cup {"none"}, password : BOOLEAN,
                              subject : Subjects \cup {"none"}, disabled : BOOLEAN]]
    <3>1. NoMember \in [email : Emails \cup {"none"}, password : BOOLEAN,
                       subject : Subjects \cup {"none"}, disabled : BOOLEAN]
      BY DEF NoMember
    <3>2. [email : Emails, password : {TRUE}, subject : {"none"}, disabled : {FALSE}]
            \subseteq [email : Emails \cup {"none"}, password : BOOLEAN,
                       subject : Subjects \cup {"none"}, disabled : BOOLEAN]
      OBVIOUS
    <3> QED
      BY <3>1, <3>2
  <2>2. sessions \in Seq(SessionRows) /\ Len(sessions) <= MaxSessions
    BY DEF SessionRows
  <2>3. oidc \in [OidcStates -> [at : {"unused", "stored", "deleted"}, created : 0..Horizon]]
    OBVIOUS
  <2>4. limits \in [Emails \X Spellings -> [count : Nat, resetAt : Nat]]
    BY DEF NoEntry
  <2>5. callbacks \in [Callbacks -> [state : OidcStates \cup {"none"}, subject : Subjects \cup {"none"},
                                    email : Emails \cup {"none"}, spelled : Spellings]]
    BY DEF IdleCall, Spellings
  <2>6. now \in 0..Horizon /\ shared \in Tokens /\ own \in [TabIds -> Tokens]
    BY DEF Tokens
  <2>7. checks \in [Users -> Seq(0..Horizon)] /\ exchanged \subseteq OidcStates
    OBVIOUS
  <2> QED
    BY <2>1, <2>2, <2>3, <2>4, <2>5, <2>6, <2>7 DEF SignInTypeOK, SessionRows
<1>2. CallsAreComplete /\ ExchangedAreGone
  BY DEF CallsAreComplete, ExchangedAreGone
<1>3. TokensAreIssued
  BY DEF TokensAreIssued
<1>4. OneAccountPerSubject
  <2> SUFFICES ASSUME NEW u \in Members PROVE members[u].subject = "none"
    BY DEF OneAccountPerSubject
  <2> QED
    BY DEF Members
<1> QED
  BY <1>1, <1>2, <1>3, <1>4 DEF SignInInv

-----------------------------------------------------------------------------
(* Facts that several steps use.                                           *)

\* A new session is the newest token.
LEMMA NewestSession ==
  ASSUME SignInTypeOK, NEW u \in Users, HasRoom
  PROVE  /\ NewSession(u) \in Seq(SessionRows)
         /\ Len(NewSession(u)) = Len(sessions) + 1 /\ Len(NewSession(u)) <= MaxSessions
<1>1. SessionRow(u) \in SessionRows
  BY SignInAssumption DEF SessionRow, SessionRows, SignInTypeOK
<1>2. sessions \in Seq(SessionRows)
  BY DEF SignInTypeOK, SessionRows
<1>3. Len(sessions) \in Nat /\ Len(sessions) < MaxSessions
  BY <1>2 DEF HasRoom
<1> QED
  BY <1>1, <1>2, <1>3, SignInAssumption DEF NewSession

\* Storing the newest token, in either storage, makes it the one that is sent.
LEMMA StoreNewest ==
  ASSUME SignInTypeOK, TokensAreIssued, HasRoom, NEW t \in TabIds, NEW how,
         Store(t, Len(sessions) + 1, how), Len(sessions') = Len(sessions) + 1
  PROVE  TokensAreIssued' /\ shared' \in Tokens /\ own' \in [TabIds -> Tokens]
<1>1. Len(sessions) \in Nat /\ Len(sessions) < MaxSessions /\ MaxSessions \in Nat
  BY SignInAssumption DEF SignInTypeOK, HasRoom
<1> DEFINE n == Len(sessions) + 1
<1>2. n \in Tokens /\ 0 \in Tokens /\ n \in Nat
  BY <1>1 DEF Tokens
<1>3. CASE how = "local"
  <2>1. shared' = n /\ own' = [own EXCEPT ![t] = 0]
    BY <1>3 DEF Store
  <2> QED
    BY <1>1, <1>2, <2>1 DEF TokensAreIssued, SignInTypeOK, Tokens
<1>4. CASE how # "local"
  <2>1. shared' = 0 /\ own' = [own EXCEPT ![t] = n]
    BY <1>4 DEF Store
  <2> QED
    BY <1>1, <1>2, <2>1 DEF TokensAreIssued, SignInTypeOK, Tokens
<1> QED
  BY <1>3, <1>4

\* The token that a tab sends is one of the sessions.
LEMMA SentIsIssued ==
  ASSUME SignInTypeOK, TokensAreIssued, NEW t \in TabIds, SentBy(t) # 0
  PROVE  SentBy(t) \in 1..Len(sessions)
BY SignInAssumption DEF SentBy, SignInTypeOK, TokensAreIssued, Tokens

\* Marking a session row deleted leaves a sequence of as many rows.
LEMMA DeletedRow ==
  ASSUME SignInTypeOK, NEW i \in 1..Len(sessions)
  PROVE  Deleted(i) \in Seq(SessionRows) /\ Len(Deleted(i)) = Len(sessions)
<1>1. sessions \in Seq(SessionRows)
  BY DEF SignInTypeOK, SessionRows
<1>2. sessions[i] \in SessionRows
  BY <1>1
<1>3. [sessions[i] EXCEPT !.live = FALSE] \in SessionRows
  BY <1>2 DEF SessionRows
<1> QED
  BY <1>1, <1>3 DEF Deleted

\* The limiter's entries stay counts and times.
LEMMA ConsumedType ==
  ASSUME SignInTypeOK, NEW k \in Emails \X Spellings
  PROVE  Consumed(k) \in [Emails \X Spellings -> [count : Nat, resetAt : Nat]]
<1>1. Fresh \in [Emails \X Spellings -> [count : Nat, resetAt : Nat]]
  BY DEF Fresh, NoEntry, SignInTypeOK
<1>2. now \in Nat /\ Window \in Nat
  BY SignInAssumption DEF SignInTypeOK
<1>3. Fresh[k] \in [count : Nat, resetAt : Nat]
  BY <1>1
<1>4. [Fresh[k] EXCEPT !.count = @ + 1] \in [count : Nat, resetAt : Nat]
  BY <1>3
<1>5. [count |-> 1, resetAt |-> now + Window] \in [count : Nat, resetAt : Nat]
  BY <1>2
<1> QED
  BY <1>1, <1>4, <1>5 DEF Consumed

-----------------------------------------------------------------------------
(* Every step keeps it.                                                    *)

\* A password login, whatever its outcome.
LEMMA LoginInv ==
  ASSUME SignInInv, UNCHANGED theme, NEW t \in TabIds, NEW m \in Emails, NEW spelled \in Spellings,
         NEW right \in BOOLEAN, NEW how, Login(t, m, spelled, right, how)
  PROVE  SignInInv'
<1> DEFINE k == LimitKey(m, spelled)
           somebody == {u \in WithEmail(m) : members[u].password /\ ~members[u].disabled}
<1>1. UNCHANGED <<members, oidc, callbacks, now, exchanged>> /\ HasRoom
  BY DEF Login
<1>2. k \in Emails \X Spellings
  BY DEF LimitKey, Spellings
<1>3. Consumed(k) \in [Emails \X Spellings -> [count : Nat, resetAt : Nat]]
  BY <1>2, ConsumedType DEF SignInInv
<1>4. limits' \in [Emails \X Spellings -> [count : Nat, resetAt : Nat]]
  <2>1. limits' = Consumed(k) \/ limits' = [Consumed(k) EXCEPT ![k] = NoEntry]
    BY DEF Login
  <2> QED
    BY <1>3, <2>1 DEF NoEntry
<1> DEFINE StoresKeepType ==
             /\ sessions' \in Seq(SessionRows) /\ Len(sessions') <= MaxSessions
             /\ TokensAreIssued' /\ shared' \in Tokens /\ own' \in [TabIds -> Tokens]
             /\ checks' \in [Users -> Seq(0..Horizon)]
<1>5. StoresKeepType
  <2>1. CASE UNCHANGED <<sessions, shared, own, checks>>
    BY <2>1 DEF SignInInv, SignInTypeOK, TokensAreIssued, SessionRows
  <2>2. ASSUME NEW u \in somebody, UNCHANGED <<sessions, shared, own>>,
               checks' = [checks EXCEPT ![u] = Append(@, now)]
        PROVE StoresKeepType
    <3>1. u \in Users
      BY DEF WithEmail, Members
    <3>2. checks[u] \in Seq(0..Horizon) /\ now \in 0..Horizon
      BY <3>1 DEF SignInInv, SignInTypeOK
    <3>3. Append(checks[u], now) \in Seq(0..Horizon)
      BY <3>2
    <3>4. checks' \in [Users -> Seq(0..Horizon)]
      BY <2>2, <3>3 DEF SignInInv, SignInTypeOK
    <3> QED
      BY <2>2, <3>4 DEF SignInInv, SignInTypeOK, TokensAreIssued, SessionRows
  <2>3. ASSUME NEW u \in somebody, sessions' = NewSession(u), Store(t, Len(sessions) + 1, how),
               checks' = [checks EXCEPT ![u] = << >>]
        PROVE StoresKeepType
    <3>1. u \in Users
      BY DEF WithEmail, Members
    <3>2. sessions' \in Seq(SessionRows) /\ Len(sessions') = Len(sessions) + 1 /\ Len(sessions') <= MaxSessions
      BY <1>1, <2>3, <3>1, NewestSession DEF SignInInv
    <3>3. << >> \in Seq(0..Horizon)
      OBVIOUS
    <3>4. checks' \in [Users -> Seq(0..Horizon)]
      BY <2>3, <3>3 DEF SignInInv, SignInTypeOK
    <3> QED
      BY <1>1, <2>3, <3>2, <3>4, StoreNewest DEF SignInInv
  <2>4. \/ UNCHANGED <<sessions, shared, own, checks>>
        \/ \E u \in somebody :
             IF right
             THEN /\ sessions' = NewSession(u) /\ Store(t, Len(sessions) + 1, how)
                  /\ checks' = [checks EXCEPT ![u] = << >>]
             ELSE /\ UNCHANGED <<sessions, shared, own>>
                  /\ checks' = [checks EXCEPT ![u] = Append(@, now)]
    BY DEF Login
  <2> QED
    BY <2>1, <2>2, <2>3, <2>4
<1>6. SignInTypeOK'
  BY <1>1, <1>4, <1>5 DEF SignInInv, SignInTypeOK, SessionRows
<1> QED
  BY <1>1, <1>5, <1>6 DEF SignInInv, CallsAreComplete, ExchangedAreGone, OneAccountPerSubject, Members

\* A tab whose session ran out, and signing out.
LEMMA TabInv ==
  ASSUME SignInInv, UNCHANGED theme, NEW t \in TabIds, UseExpired(t) \/ Logout(t)
  PROVE  SignInInv'
<1>1. UNCHANGED <<members, oidc, limits, callbacks, now, checks, exchanged>>
  BY DEF UseExpired, Logout
<1>2. SentBy(t) \in 1..Len(sessions)
  BY SentIsIssued DEF SignInInv, UseExpired, Logout
<1>3. sessions' \in {sessions, Deleted(SentBy(t))}
  BY DEF UseExpired, Logout
<1>4. sessions' \in Seq(SessionRows) /\ Len(sessions') = Len(sessions)
  BY <1>2, <1>3, DeletedRow DEF SignInInv, SignInTypeOK, SessionRows
<1>5. UNCHANGED <<shared, own>> \/ (shared' = 0 /\ own' = [own EXCEPT ![t] = 0])
  BY DEF UseExpired, Logout
<1>6. /\ TokensAreIssued' /\ shared' \in Tokens /\ own' \in [TabIds -> Tokens]
      /\ Len(sessions') <= MaxSessions
  <2>1. Len(sessions) \in Nat /\ MaxSessions \in Nat /\ 0 \in Tokens
    BY SignInAssumption DEF SignInInv, SignInTypeOK, Tokens
  <2>2. CASE UNCHANGED <<shared, own>>
    BY <1>4, <2>1, <2>2 DEF SignInInv, SignInTypeOK, TokensAreIssued
  <2>3. CASE shared' = 0 /\ own' = [own EXCEPT ![t] = 0]
    <3>1. own' \in [TabIds -> Tokens]
      BY <2>1, <2>3 DEF SignInInv, SignInTypeOK
    <3>2. TokensAreIssued'
      BY <1>4, <2>1, <2>3 DEF SignInInv, SignInTypeOK, TokensAreIssued
    <3> QED
      BY <1>4, <2>1, <2>3, <3>1, <3>2 DEF SignInInv, SignInTypeOK
  <2> QED
    BY <1>5, <2>2, <2>3
<1>7. SignInTypeOK'
  BY <1>1, <1>4, <1>6 DEF SignInInv, SignInTypeOK, SessionRows
<1> QED
  BY <1>1, <1>6, <1>7 DEF SignInInv, CallsAreComplete, ExchangedAreGone, OneAccountPerSubject, Members

\* Starting an OpenID login, and its callback up to the exchange of the code.
LEMMA BeforeExchangeInv ==
  ASSUME SignInInv, UNCHANGED theme,
         \/ \E s \in OidcStates : StartOpenId(s)
         \/ \E h \in Callbacks, s \in OidcStates, p \in Subjects, m \in Emails, spelled \in Spellings :
              Callback(h, s, p, m, spelled)
         \/ \E h \in Callbacks : ExchangeFails(h)
  PROVE  SignInInv'
<1> USE DEF SignInInv
<1>1. UNCHANGED <<members, sessions, limits, now, shared, own, checks, exchanged>>
  BY DEF StartOpenId, Callback, ExchangeFails
<1> DEFINE StatesKeepType ==
             /\ oidc' \in [OidcStates -> [at : {"unused", "stored", "deleted"}, created : 0..Horizon]]
             /\ ExchangedAreGone'
           CallsKeepType ==
             /\ callbacks' \in [Callbacks -> [state : OidcStates \cup {"none"}, subject : Subjects \cup {"none"},
                                            email : Emails \cup {"none"}, spelled : Spellings]]
             /\ CallsAreComplete'
<1>2. StatesKeepType /\ CallsKeepType
  <2>1. ASSUME NEW s \in OidcStates, StartOpenId(s)
        PROVE  StatesKeepType /\ CallsKeepType
    <3>1. oidc' = [oidc EXCEPT ![s] = [at |-> "stored", created |-> now]] /\ oidc[s].at = "unused"
      BY <2>1 DEF StartOpenId
    <3>2. StatesKeepType
      BY <1>1, <3>1 DEF SignInTypeOK, ExchangedAreGone
    <3> QED
      BY <2>1, <3>2 DEF StartOpenId, SignInTypeOK, CallsAreComplete
  <2>2. ASSUME NEW h \in Callbacks, NEW s \in OidcStates, NEW p \in Subjects, NEW m \in Emails,
               NEW spelled \in Spellings, Callback(h, s, p, m, spelled)
        PROVE  StatesKeepType /\ CallsKeepType
    <3>1. CASE StateExpired(s)
      <4>1. oidc' = [oidc EXCEPT ![s].at = "deleted"] /\ callbacks' = callbacks
        BY <2>2, <3>1 DEF Callback
      <4>2. oidc[s] \in [at : {"unused", "stored", "deleted"}, created : 0..Horizon]
        BY DEF SignInTypeOK
      <4>3. [oidc[s] EXCEPT !.at = "deleted"] \in [at : {"unused", "stored", "deleted"}, created : 0..Horizon]
        BY <4>2
      <4>4. StatesKeepType
        BY <1>1, <4>1, <4>3 DEF SignInTypeOK, ExchangedAreGone
      <4> QED
        BY <4>1, <4>4 DEF SignInTypeOK, CallsAreComplete
    <3>2. CASE ~StateExpired(s)
      <4>1. /\ callbacks' = [callbacks EXCEPT ![h] = [state |-> s, subject |-> p, email |-> m, spelled |-> spelled]]
            /\ oidc' = oidc
        BY <2>2, <3>2 DEF Callback
      <4>2. CallsKeepType
        BY <4>1 DEF SignInTypeOK, CallsAreComplete
      <4> QED
        BY <1>1, <4>1, <4>2 DEF SignInTypeOK, ExchangedAreGone
    <3> QED
      BY <3>1, <3>2
  <2>3. ASSUME NEW h \in Callbacks, ExchangeFails(h)
        PROVE  StatesKeepType /\ CallsKeepType
    <3>1. callbacks' = [callbacks EXCEPT ![h] = IdleCall] /\ oidc' = oidc
      BY <2>3 DEF ExchangeFails
    <3>2. CallsKeepType
      BY <3>1 DEF SignInTypeOK, CallsAreComplete, IdleCall, Spellings
    <3> QED
      BY <1>1, <3>1, <3>2 DEF SignInTypeOK, ExchangedAreGone
  <2> QED
    BY <2>1, <2>2, <2>3
<1>3. SignInTypeOK'
  BY <1>1, <1>2 DEF SignInTypeOK
<1> QED
  BY <1>1, <1>2, <1>3 DEF TokensAreIssued, OneAccountPerSubject, Members

\* The rest of the callback: the person's account is found, made or refused.
LEMMA ExchangedInv ==
  ASSUME SignInInv, UNCHANGED theme, NEW h \in Callbacks, NEW t \in TabIds, NEW how,
         Exchanged(h, t, how)
  PROVE  SignInInv'
<1> USE DEF SignInInv
<1> DEFINE c == callbacks[h]
           Row == [email : Emails \cup {"none"}, password : BOOLEAN,
                   subject : Subjects \cup {"none"}, disabled : BOOLEAN]
<1>1. /\ c # IdleCall /\ HasRoom
      /\ oidc' = SpentState(c.state) /\ exchanged' = exchanged \cup {c.state}
      /\ callbacks' = [callbacks EXCEPT ![h] = IdleCall]
      /\ UNCHANGED <<limits, now, checks>>
  BY DEF Exchanged
<1>2. c.state \in OidcStates /\ c.subject \in Subjects /\ c.email \in Emails
  BY <1>1 DEF CallsAreComplete
<1>3. /\ oidc' \in [OidcStates -> [at : {"unused", "stored", "deleted"}, created : 0..Horizon]]
      /\ exchanged' \subseteq OidcStates /\ ExchangedAreGone'
  <2>1. oidc[c.state] \in [at : {"unused", "stored", "deleted"}, created : 0..Horizon]
    BY <1>2 DEF SignInTypeOK
  <2>2. [oidc[c.state] EXCEPT !.at = "deleted"] \in [at : {"unused", "stored", "deleted"}, created : 0..Horizon]
    BY <2>1
  <2>3. oidc' = [oidc EXCEPT ![c.state] = [oidc[c.state] EXCEPT !.at = "deleted"]]
    BY <1>1 DEF SpentState
  <2> QED
    BY <1>1, <1>2, <2>2, <2>3 DEF SignInTypeOK, ExchangedAreGone
<1>4. /\ callbacks' \in [Callbacks -> [state : OidcStates \cup {"none"}, subject : Subjects \cup {"none"},
                                     email : Emails \cup {"none"}, spelled : Spellings]]
      /\ CallsAreComplete'
  BY <1>1 DEF SignInTypeOK, CallsAreComplete, IdleCall, Spellings
<1> DEFINE StoresKeepType ==
             /\ sessions' \in Seq(SessionRows) /\ Len(sessions') <= MaxSessions
             /\ TokensAreIssued' /\ shared' \in Tokens /\ own' \in [TabIds -> Tokens]
           PeopleStayApart == members' \in [Users -> Row] /\ OneAccountPerSubject'
<1>5. ASSUME UNCHANGED <<members, sessions, shared, own>>
      PROVE  StoresKeepType /\ PeopleStayApart
  BY <1>5 DEF SignInTypeOK, TokensAreIssued, SessionRows, OneAccountPerSubject, Members
<1>6. ASSUME NEW u \in IF Matched(c) = {} THEN Users \ Members ELSE Matched(c),
             members' = [members EXCEPT ![u] =
               IF @ = NoMember
               THEN [email |-> c.email, password |-> FALSE, subject |-> c.subject, disabled |-> FALSE]
               ELSE IF @.subject = "none" THEN [@ EXCEPT !.subject = c.subject] ELSE @],
             IF members[u].disabled THEN UNCHANGED <<sessions, shared, own>>
             ELSE sessions' = NewSession(u) /\ Store(t, Len(sessions) + 1, how)
      PROVE  StoresKeepType /\ PeopleStayApart
  <2>1. u \in Users /\ members[u] \in Row
    BY DEF Matched, WithSubject, WithEmail, Members, SignInTypeOK
  <2>2. StoresKeepType
    <3>1. CASE members[u].disabled
      BY <1>6, <3>1 DEF SignInTypeOK, TokensAreIssued, SessionRows
    <3>2. CASE ~members[u].disabled
      BY <1>1, <1>6, <2>1, <3>2, NewestSession, StoreNewest
    <3> QED
      BY <3>1, <3>2
  <2>3. \/ members[u].subject # "none" /\ members' = members
        \/ members[u].subject = "none" /\ WithSubject(c.subject) = {}
    <3>1. CASE WithSubject(c.subject) # {}
      <4>1. u \in Members /\ members[u].subject = c.subject
        BY <3>1 DEF Matched, WithSubject
      <4>2. members[u].subject # "none" /\ members[u] # NoMember
        BY <1>2, <4>1, SignInAssumption DEF Members
      <4>3. members' = [members EXCEPT ![u] = members[u]]
        BY <1>6, <4>2
      <4> QED
        BY <4>2, <4>3 DEF SignInTypeOK
    <3>2. CASE WithSubject(c.subject) = {} /\ members[u].subject # "none"
      <4>1. members[u] # NoMember
        BY <3>2 DEF NoMember
      <4>2. members' = [members EXCEPT ![u] = members[u]]
        BY <1>6, <3>2, <4>1
      <4> QED
        BY <3>2, <4>2 DEF SignInTypeOK
    <3> QED
      BY <3>1, <3>2
  <2>4. CASE members' = members
    BY <2>2, <2>4 DEF SignInTypeOK, OneAccountPerSubject, Members
  <2>5. CASE members[u].subject = "none" /\ WithSubject(c.subject) = {}
    <3>1. PICK row \in Row : members' = [members EXCEPT ![u] = row] /\ row.subject = c.subject
      <4>1. [email |-> c.email, password |-> FALSE, subject |-> c.subject, disabled |-> FALSE] \in Row
        BY <1>2
      <4>2. [members[u] EXCEPT !.subject = c.subject] \in Row
            /\ [members[u] EXCEPT !.subject = c.subject].subject = c.subject
        BY <1>2, <2>1
      <4> QED
        BY <1>6, <2>5, <4>1, <4>2
    <3>2. members' \in [Users -> Row]
      BY <3>1 DEF SignInTypeOK
    <3>3. \A v \in Users : v # u => members'[v] = members[v]
      BY <3>1 DEF SignInTypeOK
    <3>4. members'[u].subject = c.subject
      BY <2>1, <3>1 DEF SignInTypeOK
    <3>5. \A v \in Members' : v # u => v \in Members /\ members'[v].subject # c.subject
      BY <2>5, <3>3 DEF Members, WithSubject
    <3>6. OneAccountPerSubject'
      BY <3>3, <3>4, <3>5 DEF OneAccountPerSubject, Members
    <3> QED
      BY <2>2, <3>2, <3>6
  <2> QED
    BY <2>3, <2>4, <2>5
<1>7. StoresKeepType /\ PeopleStayApart
  <2>1. \/ UNCHANGED <<members, sessions, shared, own>>
        \/ \E u \in IF Matched(c) = {} THEN Users \ Members ELSE Matched(c) :
             /\ members' = [members EXCEPT ![u] =
                  IF @ = NoMember
                  THEN [email |-> c.email, password |-> FALSE, subject |-> c.subject, disabled |-> FALSE]
                  ELSE IF @.subject = "none" THEN [@ EXCEPT !.subject = c.subject] ELSE @]
             /\ IF members[u].disabled THEN UNCHANGED <<sessions, shared, own>>
                ELSE sessions' = NewSession(u) /\ Store(t, Len(sessions) + 1, how)
    BY DEF Exchanged
  <2> QED
    BY <1>5, <1>6, <2>1
<1>8. SignInTypeOK'
  BY <1>1, <1>3, <1>4, <1>7 DEF SignInTypeOK, SessionRows
<1> QED
  BY <1>3, <1>4, <1>7, <1>8

\* An administrator disables, enables or removes an account.
LEMMA AdminInv ==
  ASSUME SignInInv, UNCHANGED theme, NEW u \in Users,
         RemoveUser(u) \/ \E b \in BOOLEAN : SetDisabled(u, b)
  PROVE  SignInInv'
<1> USE DEF SignInInv
<1> DEFINE Row == [email : Emails \cup {"none"}, password : BOOLEAN,
                   subject : Subjects \cup {"none"}, disabled : BOOLEAN]
<1>1. /\ UNCHANGED <<oidc, limits, callbacks, now, shared, own, exchanged>>
      /\ members[u] \in Row
  BY DEF RemoveUser, SetDisabled, SignInTypeOK
<1>2. ASSUME NEW b \in BOOLEAN, SetDisabled(u, b)
      PROVE  SignInInv'
  <2>1. [members[u] EXCEPT !.disabled = b] \in Row
        /\ [members[u] EXCEPT !.disabled = b].subject = members[u].subject
    BY <1>1
  <2>2. members' = [members EXCEPT ![u] = [members[u] EXCEPT !.disabled = b]]
    BY <1>2 DEF SetDisabled
  <2>3. members' \in [Users -> Row] /\ u \in Members
    BY <1>2, <2>1, <2>2 DEF SignInTypeOK, SetDisabled
  <2>4. \A v \in Users : members'[v].subject = members[v].subject
    BY <2>1, <2>2 DEF SignInTypeOK
  <2>5. Members' \subseteq Members
    BY <2>2, <2>3 DEF Members, SignInTypeOK
  <2>6. OneAccountPerSubject'
    BY <2>4, <2>5 DEF OneAccountPerSubject, Members
  <2>7. UNCHANGED <<sessions, checks>>
    BY <1>2 DEF SetDisabled
  <2> QED
    BY <1>1, <2>3, <2>6, <2>7 DEF SignInTypeOK, CallsAreComplete, ExchangedAreGone, TokensAreIssued
<1>3. ASSUME RemoveUser(u)
      PROVE  SignInInv'
  <2>1. members' = [members EXCEPT ![u] = NoMember] /\ checks' = [checks EXCEPT ![u] = << >>]
    BY <1>3 DEF RemoveUser
  <2>2. members' \in [Users -> Row] /\ Members' \subseteq Members
        /\ \A v \in Members' : members'[v] = members[v]
    BY <2>1 DEF SignInTypeOK, NoMember, Members
  <2>3. OneAccountPerSubject'
    BY <2>2 DEF OneAccountPerSubject
  <2>4. << >> \in Seq(0..Horizon)
    OBVIOUS
  <2>5. checks' \in [Users -> Seq(0..Horizon)]
    BY <2>1, <2>4 DEF SignInTypeOK
  <2>6. sessions' \in Seq(SessionRows) /\ Len(sessions') = Len(sessions)
    <3>1. sessions \in Seq(SessionRows)
      BY DEF SignInTypeOK, SessionRows
    <3>2. \A i \in 1..Len(sessions) :
            (IF sessions[i].user = u THEN [sessions[i] EXCEPT !.live = FALSE] ELSE sessions[i]) \in SessionRows
      <4> SUFFICES ASSUME NEW i \in 1..Len(sessions)
                   PROVE  [sessions[i] EXCEPT !.live = FALSE] \in SessionRows /\ sessions[i] \in SessionRows
        OBVIOUS
      <4>1. sessions[i] \in SessionRows
        BY <3>1
      <4> QED
        BY <4>1 DEF SessionRows
    <3>3. sessions' = [i \in 1..Len(sessions) |->
                        IF sessions[i].user = u THEN [sessions[i] EXCEPT !.live = FALSE] ELSE sessions[i]]
      BY <1>3, <3>1 DEF RemoveUser
    <3> QED
      BY <3>1, <3>2, <3>3
  <2> QED
    BY <1>1, <2>2, <2>3, <2>5, <2>6
    DEF SignInTypeOK, SessionRows, CallsAreComplete, ExchangedAreGone, TokensAreIssued
<1> QED
  BY <1>2, <1>3

\* The clock goes on to its bound.
LEMMA TickInv == ASSUME SignInInv, UNCHANGED theme, Tick PROVE SignInInv'
<1>1. now' \in 0..Horizon
  BY SignInAssumption DEF Tick, SignInInv, SignInTypeOK
<1> QED
  BY <1>1 DEF Tick, SignInInv, SignInTypeOK, CallsAreComplete, ExchangedAreGone, TokensAreIssued,
              OneAccountPerSubject, Members

\* The invariant is inductive.
LEMMA SignInStepInv == SignInInv /\ [SignInNext]_signInVars => SignInInv'
<1> SUFFICES ASSUME SignInInv, [SignInNext]_signInVars PROVE SignInInv'
  OBVIOUS
<1>1. CASE UNCHANGED signInVars
  BY <1>1 DEF signInVars, SignInInv, SignInTypeOK, CallsAreComplete, ExchangedAreGone, TokensAreIssued,
              OneAccountPerSubject, Members
<1>2. ASSUME SignInNext PROVE SignInInv'
  <2>1. UNCHANGED theme /\ ActiveTabs \subseteq TabIds
    BY <1>2, SignInAssumption DEF SignInNext, ActiveTabs
  <2>2. CASE Tick
    BY <2>1, <2>2, TickInv
  <2>3. CASE \E u \in Users : RemoveUser(u) \/ \E b \in BOOLEAN : SetDisabled(u, b)
    BY <2>1, <2>3, AdminInv
  <2>4. CASE PasswordNext
    BY <2>1, <2>4, LoginInv, TabInv DEF PasswordNext
  <2>5. CASE ProviderNext
    BY <2>1, <2>5, BeforeExchangeInv, ExchangedInv DEF ProviderNext
  <2> QED
    BY <1>2, <2>2, <2>3, <2>4, <2>5 DEF SignInNext
<1> QED
  BY <1>1, <1>2

-----------------------------------------------------------------------------
(* The theorems.                                                           *)

\* Of SignInIsSafe, everything but the count of guesses: however logins, new
\* addresses and deletions come, a person has one account, and a tab sends
\* the last token that was stored where it can see.
THEOREM OnePersonOneAccount ==
  SignInSpec => [](SignInTypeOK /\ OneAccountPerSubject /\ LastTokenIsSent)
<1>1. SignInInv => SignInTypeOK /\ OneAccountPerSubject /\ LastTokenIsSent
  BY SignInAssumption DEF SignInInv, SignInTypeOK, TokensAreIssued, LastTokenIsSent, SentBy, Tokens
<1> QED
  BY <1>1, SignInInitInv, SignInStepInv, PTL DEF SignInSpec

\* A callback takes a state that is stored and in its time.
LEMMA SpentStep == SignInInv /\ [SignInNext]_signInVars => StatesAreSpent
<1> SUFFICES ASSUME SignInInv, [SignInNext]_signInVars, NEW h \in Callbacks, NEW s \in OidcStates,
                    callbacks[h].state # s, callbacks'[h].state = s
             PROVE  s \notin exchanged /\ oidc[s].created + StateTtl >= now
  BY DEF StatesAreSpent
<1>1. ASSUME callbacks' = callbacks
      PROVE  FALSE
  BY <1>1
<1>2. ASSUME NEW g \in Callbacks, callbacks' = [callbacks EXCEPT ![g] = IdleCall]
      PROVE  FALSE
  BY <1>2, SignInAssumption DEF IdleCall, SignInInv, SignInTypeOK
<1>3. ASSUME NEW g \in Callbacks, NEW r \in OidcStates, NEW p \in Subjects, NEW m \in Emails,
             NEW spelled \in Spellings, Callback(g, r, p, m, spelled)
      PROVE  s \notin exchanged /\ oidc[s].created + StateTtl >= now
  <2>1. oidc[r].at = "stored" /\ ~StateExpired(r)
        /\ callbacks' = [callbacks EXCEPT ![g] = [state |-> r, subject |-> p, email |-> m, spelled |-> spelled]]
    BY <1>1, <1>3 DEF Callback
  <2>2. r = s
    BY <2>1 DEF SignInInv, SignInTypeOK
  <2>3. oidc[s].created \in Nat /\ now \in Nat /\ StateTtl \in Nat
    BY SignInAssumption DEF SignInInv, SignInTypeOK
  <2>4. s \notin exchanged
    BY <2>1, <2>2 DEF SignInInv, ExchangedAreGone
  <2> QED
    BY <2>1, <2>2, <2>3, <2>4 DEF StateExpired
<1>4. \/ callbacks' = callbacks
      \/ \E g \in Callbacks : callbacks' = [callbacks EXCEPT ![g] = IdleCall]
      \/ \E g \in Callbacks, r \in OidcStates, p \in Subjects, m \in Emails, spelled \in Spellings :
           Callback(g, r, p, m, spelled)
  BY DEF SignInNext, PasswordNext, ProviderNext, Tick, SetDisabled, RemoveUser, Login, UseExpired, Logout,
         StartOpenId, ExchangeFails, Exchanged, signInVars
<1> QED
  BY <1>1, <1>2, <1>3, <1>4

\* A login state begins the exchange of one code at most, and none after its
\* time (StatesAreSpent, part of ServerKeepsFaith).
THEOREM StatesStaySpent == SignInSpec => [][StatesAreSpent]_signInVars
BY SpentStep, SignInInitInv, SignInStepInv, PTL DEF SignInSpec
-----------------------------------------------------------------------------
(* The guesses at one account and the entry of its address.                *)

Entries == [count : Nat, resetAt : Nat]

Since(c, s) == {i \in DOMAIN c : c[i] >= s}
InSpan(c, s, e) == {i \in DOMAIN c : c[i] >= s /\ c[i] < e}

\* The guesses c lie before now and before the end of the limiter's window
\* that began at a.  In that window there are at most as many as the limit,
\* fewer after its beginning, because it began with an attempt, and fewer in
\* any stretch of the window's length that ends with it.  While the entry
\* lives, it counts them.
InWindow(c, a, n, e) ==
  /\ a <= n /\ \A i \in DOMAIN c : c[i] <= n /\ c[i] < a + Window
  /\ Cardinality(Since(c, a)) <= MaxAttempts
  /\ \A s \in Nat : s > a => Cardinality(Since(c, s)) < MaxAttempts
  /\ \A s \in Nat : s + Window > a => Cardinality(InSpan(c, s, a)) < MaxAttempts
  /\ IF e.resetAt > n
     THEN /\ e.resetAt = a + Window /\ Cardinality(Since(c, a)) <= e.count
          /\ \A s \in Nat : s > a => Cardinality(Since(c, s)) < e.count
     ELSE a + Window <= n

Guesses(c, n, e) == c = << >> \/ \E a \in Nat : InWindow(c, a, n, e)

\* A living entry was made by an attempt in the last window's time.
EntryIsCurrent(e, n) == e.resetAt > n => Window <= e.resetAt /\ e.resetAt <= n + Window /\ e.count >= 1

\* consumeRateLimit on the entry of one key.
Next1(e, n) == IF e.resetAt <= n THEN [count |-> 1, resetAt |-> n + Window] ELSE [e EXCEPT !.count = @ + 1]

-----------------------------------------------------------------------------
\* The window and the limit are at least one.
LEMMA Limits == Window \in Nat /\ Window >= 1 /\ MaxAttempts \in Nat /\ MaxAttempts >= 1
BY SignInAssumption

\* Sets of guesses are finite, so that they can be counted.
LEMMA Countable ==
  ASSUME NEW c \in Seq(Nat), NEW S \in SUBSET DOMAIN c
  PROVE  IsFiniteSet(S) /\ Cardinality(S) \in Nat
<1>1. IsFiniteSet(DOMAIN c)
  BY FS_Interval
<1> QED
  BY <1>1, FS_Subset, FS_CardinalityType

\* More guesses are not fewer.
LEMMA Monotone ==
  ASSUME NEW c \in Seq(Nat), NEW S \in SUBSET DOMAIN c, NEW T \in SUBSET S
  PROVE  Cardinality(T) <= Cardinality(S)
BY Countable, FS_Subset

\* A guess made now adds one to what is counted up to now and nothing to what
\* ended before.
LEMMA OneMore ==
  ASSUME NEW c \in Seq(Nat), NEW n \in Nat
  PROVE  /\ Append(c, n) \in Seq(Nat)
         /\ \A s \in Nat : Cardinality(Since(Append(c, n), s)) <= Cardinality(Since(c, s)) + 1
         /\ \A s \in Nat : s > n => Since(Append(c, n), s) = Since(c, s)
         /\ \A s, e \in Nat : e <= n => InSpan(Append(c, n), s, e) = InSpan(c, s, e)
<1> DEFINE d == Append(c, n)
<1>1. d \in Seq(Nat) /\ DOMAIN d = DOMAIN c \cup {Len(c) + 1} /\ d[Len(c) + 1] = n
      /\ \A i \in DOMAIN c : d[i] = c[i]
  OBVIOUS
<1>2. ASSUME NEW s \in Nat
      PROVE  Cardinality(Since(d, s)) <= Cardinality(Since(c, s)) + 1
  <2>1. Since(d, s) \subseteq Since(c, s) \cup {Len(c) + 1}
    BY <1>1 DEF Since
  <2>2. IsFiniteSet(Since(c, s)) /\ Cardinality(Since(c, s)) \in Nat
    BY Countable DEF Since
  <2>3. IsFiniteSet(Since(c, s) \cup {Len(c) + 1})
        /\ Cardinality(Since(c, s) \cup {Len(c) + 1}) <= Cardinality(Since(c, s)) + 1
        /\ Cardinality(Since(c, s) \cup {Len(c) + 1}) \in Nat
    <3>1. IsFiniteSet(Since(c, s) \cup {Len(c) + 1})
          /\ Cardinality(Since(c, s) \cup {Len(c) + 1}) =
               IF Len(c) + 1 \in Since(c, s) THEN Cardinality(Since(c, s)) ELSE Cardinality(Since(c, s)) + 1
      BY <2>2, FS_AddElement, Zenon
    <3> QED
      BY <2>2, <3>1
  <2>4. Cardinality(Since(d, s)) <= Cardinality(Since(c, s) \cup {Len(c) + 1})
        /\ Cardinality(Since(d, s)) \in Nat
    BY <2>1, <2>3, FS_Subset, FS_CardinalityType
  <2> QED
    BY <2>2, <2>3, <2>4
<1>3. ASSUME NEW s \in Nat, s > n
      PROVE  Since(d, s) = Since(c, s)
  BY <1>1, <1>3 DEF Since
<1>4. ASSUME NEW s \in Nat, NEW e \in Nat, e <= n
      PROVE  InSpan(d, s, e) = InSpan(c, s, e)
  BY <1>1, <1>4 DEF InSpan
<1> QED
  BY <1>1, <1>2, <1>3, <1>4

\* Without guesses every living entry has its window.
LEMMA NoGuesses ==
  ASSUME NEW n \in Nat, NEW e \in Entries, EntryIsCurrent(e, n), e.resetAt > n
  PROVE  \E a \in Nat : InWindow(<< >>, a, n, e)
<1>1. PICK a \in Nat : a <= n /\ e.resetAt = a + Window /\ e.count >= 1 /\ e.count \in Nat
  <2>1. e.resetAt \in Nat /\ e.count \in Nat /\ Window <= e.resetAt /\ e.resetAt <= n + Window /\ e.count >= 1
    BY DEF EntryIsCurrent, Entries
  <2>2. e.resetAt - Window \in Nat /\ e.resetAt - Window <= n /\ e.resetAt = (e.resetAt - Window) + Window
    BY <2>1, Limits
  <2> QED
    BY <2>1, <2>2
<1>2. \A s, t \in Nat : Since(<< >>, s) = {} /\ InSpan(<< >>, s, t) = {}
  BY DEF Since, InSpan
<1>3. \A s, t \in Nat : Cardinality(Since(<< >>, s)) = 0 /\ Cardinality(InSpan(<< >>, s, t)) = 0
  BY <1>2, FS_EmptySet
<1>4. \A i \in DOMAIN << >> : FALSE
  OBVIOUS
<1>5. InWindow(<< >>, a, n, e)
  BY <1>1, <1>3, <1>4, Limits DEF InWindow
<1> QED
  BY <1>5

\* An attempt that opens a new window, with or without a guess.
LEMMA NewWindow ==
  ASSUME NEW c \in Seq(Nat), NEW n \in Nat, NEW e \in Entries, Guesses(c, n, e), e.resetAt <= n
  PROVE  /\ \A s \in Nat : s + Window > n => Cardinality(InSpan(c, s, n)) < MaxAttempts
         /\ \A s \in Nat : s >= n => Since(c, s) = {}
         /\ \A i \in DOMAIN c : c[i] <= n
<1>1. CASE c = << >>
  BY <1>1, FS_EmptySet, Limits DEF InSpan, Since
<1>2. ASSUME NEW a \in Nat, InWindow(c, a, n, e)
      PROVE  /\ \A s \in Nat : s + Window > n => Cardinality(InSpan(c, s, n)) < MaxAttempts
             /\ \A s \in Nat : s >= n => Since(c, s) = {}
             /\ \A i \in DOMAIN c : c[i] <= n
  <2>1. a + Window <= n /\ e.resetAt \in Nat
    BY <1>2 DEF InWindow, Entries
  <2>2. \A i \in DOMAIN c : c[i] \in Nat /\ c[i] < a + Window /\ c[i] <= n
    BY <1>2 DEF InWindow
  <2>3. ASSUME NEW s \in Nat, s + Window > n
        PROVE  Cardinality(InSpan(c, s, n)) < MaxAttempts
    <3>1. s > a
      BY <2>1, <2>3, Limits
    <3>2. Cardinality(Since(c, s)) < MaxAttempts
      BY <1>2, <3>1 DEF InWindow
    <3>3. InSpan(c, s, n) \subseteq Since(c, s) /\ Since(c, s) \subseteq DOMAIN c
      BY DEF InSpan, Since
    <3>4. Cardinality(InSpan(c, s, n)) <= Cardinality(Since(c, s))
      BY <3>3, Monotone
    <3>5. Cardinality(InSpan(c, s, n)) \in Nat /\ Cardinality(Since(c, s)) \in Nat
      BY <3>3, Countable
    <3> QED
      BY <3>2, <3>4, <3>5, Limits
  <2>4. ASSUME NEW s \in Nat, s >= n
        PROVE  Since(c, s) = {}
    BY <2>1, <2>2, <2>4, Limits DEF Since
  <2> QED
    BY <2>2, <2>3, <2>4
<1> QED
  BY <1>1, <1>2 DEF Guesses

\* A guess that opens a window.
LEMMA GuessOpens ==
  ASSUME NEW c \in Seq(Nat), NEW n \in Nat, NEW e \in Entries, NEW f, NEW d,
         Guesses(c, n, e), e.resetAt <= n,
         f.count = 1, f.resetAt = n + Window, d = Append(c, n)
  PROVE  InWindow(d, n, n, f)
<1>1. d \in Seq(Nat) /\ \A i \in DOMAIN d : (i \in DOMAIN c /\ d[i] = c[i]) \/ d[i] = n
  OBVIOUS
<1>2. \A s \in Nat : Since(d, s) \subseteq DOMAIN d /\ Cardinality(Since(d, s)) \in Nat
  BY <1>1, Countable DEF Since
<1>3. f.resetAt > n
  BY Limits
<1>4. Cardinality(Since(d, n)) <= 1
  <2>1. Since(c, n) = {}
    BY NewWindow
  <2>2. Cardinality(Since(c, n)) = 0
    BY <2>1, FS_EmptySet
  <2>3. Cardinality(Since(d, n)) <= Cardinality(Since(c, n)) + 1
    BY OneMore
  <2> QED
    BY <1>2, <2>2, <2>3
<1>5. \A s \in Nat : s > n => Cardinality(Since(d, s)) = 0
  <2> SUFFICES ASSUME NEW s \in Nat, s > n PROVE Cardinality(Since(d, s)) = 0
    OBVIOUS
  <2>1. Since(d, s) = {}
    BY NewWindow, OneMore
  <2> QED
    BY <2>1, FS_EmptySet
<1>6. \A s \in Nat : s + Window > n => Cardinality(InSpan(d, s, n)) < MaxAttempts
  BY NewWindow, OneMore
<1>7. \A i \in DOMAIN d : d[i] <= n /\ d[i] < n + Window
  BY <1>1, NewWindow, Limits
<1>8. \A s \in Nat : s > n => Cardinality(Since(d, s)) < MaxAttempts /\ Cardinality(Since(d, s)) < f.count
  BY <1>5, Limits
<1>9. Cardinality(Since(d, n)) <= MaxAttempts /\ Cardinality(Since(d, n)) <= f.count /\ n <= n
  BY <1>2, <1>4, Limits
<1> QED
  BY <1>2, <1>3, <1>4, <1>5, <1>6, <1>7, <1>8, <1>9, Limits DEF InWindow

\* A guess in a window that is open.
LEMMA GuessCounts ==
  ASSUME NEW c \in Seq(Nat), NEW n \in Nat, NEW a \in Nat, NEW e \in Entries, NEW f, NEW d,
         NEW k \in Nat, k = e.count, InWindow(c, a, n, e), e.resetAt > n, f.resetAt = e.resetAt,
         f.count = k + 1, k + 1 <= MaxAttempts, d = Append(c, n)
  PROVE  InWindow(d, a, n, f)
<1>1. d \in Seq(Nat) /\ \A i \in DOMAIN d : (i \in DOMAIN c /\ d[i] = c[i]) \/ d[i] = n
  OBVIOUS
<1>2. \A s \in Nat : Cardinality(Since(d, s)) \in Nat /\ Cardinality(Since(c, s)) \in Nat
  <2>1. \A s : Since(d, s) \subseteq DOMAIN d /\ Since(c, s) \subseteq DOMAIN c
    BY DEF Since
  <2> QED
    BY <1>1, <2>1, Countable
<1>3. f.resetAt = a + Window /\ f.resetAt > n
  BY DEF InWindow
<1>4. \A s \in Nat : Cardinality(Since(d, s)) <= Cardinality(Since(c, s)) + 1
  BY OneMore
<1>5. Cardinality(Since(c, a)) <= k /\ \A s \in Nat : s > a => Cardinality(Since(c, s)) < k
  BY DEF InWindow
<1>6. Cardinality(Since(d, a)) <= k + 1 /\ Cardinality(Since(d, a)) <= MaxAttempts
  <2>1. Cardinality(Since(d, a)) <= Cardinality(Since(c, a)) + 1
    BY <1>4
  <2>2. Cardinality(Since(d, a)) \in Nat /\ Cardinality(Since(c, a)) \in Nat
    BY <1>2
  <2> QED
    BY <1>5, <2>1, <2>2, Limits
<1>7. ASSUME NEW s \in Nat, s > a
      PROVE  Cardinality(Since(d, s)) < k + 1 /\ Cardinality(Since(d, s)) < MaxAttempts
  <2>1. Cardinality(Since(d, s)) <= Cardinality(Since(c, s)) + 1
    BY <1>4
  <2>2. Cardinality(Since(d, s)) \in Nat /\ Cardinality(Since(c, s)) \in Nat
    BY <1>2
  <2>3. Cardinality(Since(c, s)) < k
    BY <1>5, <1>7
  <2> QED
    BY <2>1, <2>2, <2>3, Limits
<1>8. a <= n /\ \A s \in Nat : s + Window > a => Cardinality(InSpan(d, s, a)) < MaxAttempts
  <2>1. a <= n
    BY DEF InWindow
  <2>2. \A s \in Nat : InSpan(d, s, a) = InSpan(c, s, a)
    BY <2>1, OneMore
  <2> QED
    BY <2>1, <2>2 DEF InWindow
<1>9. \A i \in DOMAIN d : d[i] <= n /\ d[i] < a + Window
  BY <1>1, <1>3 DEF InWindow
<1> QED
  BY <1>3, <1>6, <1>7, <1>8, <1>9 DEF InWindow

\* A guess that the limiter lets through.
LEMMA GuessKeeps ==
  ASSUME NEW c \in Seq(Nat), NEW n \in Nat, NEW e \in Entries,
         Guesses(c, n, e), EntryIsCurrent(e, n), Next1(e, n).count <= MaxAttempts
  PROVE  Guesses(Append(c, n), n, Next1(e, n))
<1>1. CASE e.resetAt <= n
  <2>1. Next1(e, n).count = 1 /\ Next1(e, n).resetAt = n + Window
    BY <1>1 DEF Next1
  <2>2. InWindow(Append(c, n), n, n, Next1(e, n))
    BY <1>1, <2>1, GuessOpens
  <2> QED
    BY <2>2 DEF Guesses
<1>2. CASE e.resetAt > n
  <2>1. PICK a \in Nat : InWindow(c, a, n, e)
    BY <1>2, NoGuesses DEF Guesses
  <2>2. e.count \in Nat /\ e.resetAt \in Nat
    BY DEF Entries
  <2>3. Next1(e, n) = [e EXCEPT !.count = @ + 1]
    BY <1>2, <2>2 DEF Next1
  <2>4. Next1(e, n) \in Entries /\ Next1(e, n).resetAt = e.resetAt /\ Next1(e, n).count = e.count + 1
    BY <2>2, <2>3 DEF Entries
  <2>5. PICK k \in Nat : k = e.count
    BY <2>2
  <2>6. Next1(e, n).resetAt = e.resetAt /\ Next1(e, n).count = k + 1 /\ k + 1 <= MaxAttempts
    BY <2>4, <2>5
  <2>7. InWindow(Append(c, n), a, n, Next1(e, n))
    BY <1>2, <2>1, <2>5, <2>6, GuessCounts
  <2> QED
    BY <2>7 DEF Guesses
<1>3. e.resetAt \in Nat
  BY DEF Entries
<1> QED
  BY <1>1, <1>2, <1>3

\* An attempt that compares no password.
LEMMA AttemptKeeps ==
  ASSUME NEW c \in Seq(Nat), NEW n \in Nat, NEW e \in Entries, Guesses(c, n, e), EntryIsCurrent(e, n)
  PROVE  /\ Guesses(c, n, Next1(e, n))
         /\ Next1(e, n) \in Entries /\ EntryIsCurrent(Next1(e, n), n)
<1>1. e.count \in Nat /\ e.resetAt \in Nat
  BY DEF Entries
<1>2. CASE e.resetAt <= n
  <2>1. Next1(e, n) = [count |-> 1, resetAt |-> n + Window]
    BY <1>2 DEF Next1
  <2>2. Next1(e, n) \in Entries /\ Next1(e, n).count = 1 /\ Next1(e, n).resetAt = n + Window
    BY <2>1, Limits DEF Entries
  <2>3. \A s \in Nat : s >= n => Cardinality(Since(c, s)) = 0
    BY <1>2, NewWindow, FS_EmptySet
  <2>4. \A i \in DOMAIN c : c[i] \in Nat /\ c[i] <= n /\ c[i] < n + Window
    BY <1>2, NewWindow, Limits
  <2>5. \A s \in Nat : s + Window > n => Cardinality(InSpan(c, s, n)) < MaxAttempts
    BY <1>2, NewWindow
  <2>6. InWindow(c, n, n, Next1(e, n))
    BY <2>2, <2>3, <2>4, <2>5, Limits DEF InWindow
  <2> QED
    BY <2>2, <2>6, Limits DEF Guesses, EntryIsCurrent
<1>3. CASE e.resetAt > n
  <2>1. Next1(e, n) \in Entries /\ Next1(e, n).count = e.count + 1 /\ Next1(e, n).resetAt = e.resetAt
    <3>1. Next1(e, n) = [e EXCEPT !.count = @ + 1]
      BY <1>1, <1>3 DEF Next1
    <3> QED
      BY <1>1, <3>1 DEF Entries
  <2>2. EntryIsCurrent(Next1(e, n), n)
    BY <1>1, <1>3, <2>1 DEF EntryIsCurrent
  <2>3. ASSUME NEW a \in Nat, InWindow(c, a, n, e)
        PROVE  InWindow(c, a, n, Next1(e, n))
    <3>1. \A s \in Nat : Cardinality(Since(c, s)) \in Nat
      BY Countable DEF Since
    <3>2. PICK k \in Nat : k = e.count
      BY <1>1
    <3>3. Cardinality(Since(c, a)) <= k /\ \A s \in Nat : s > a => Cardinality(Since(c, s)) < k
      BY <1>3, <2>3, <3>2 DEF InWindow
    <3>4. Cardinality(Since(c, a)) <= k + 1 /\ \A s \in Nat : s > a => Cardinality(Since(c, s)) < k + 1
      <4>1. k \in Nat
        BY <3>2
      <4>2. Cardinality(Since(c, a)) \in Nat /\ Cardinality(Since(c, a)) <= k
        BY <2>3, <3>1, <3>3
      <4>3. ASSUME NEW s \in Nat, s > a PROVE Cardinality(Since(c, s)) < k + 1
        <5>1. Cardinality(Since(c, s)) \in Nat /\ Cardinality(Since(c, s)) < k
          BY <3>1, <3>3, <4>3
        <5> QED
          BY <4>1, <5>1
      <4> QED
        BY <4>1, <4>2, <4>3
    <3>5. Next1(e, n).resetAt > n /\ Next1(e, n).resetAt = a + Window /\ Next1(e, n).count = k + 1
      BY <1>3, <2>1, <2>3, <3>2 DEF InWindow
    <3> QED
      BY <2>3, <3>4, <3>5 DEF InWindow
  <2> QED
    BY <2>1, <2>2, <2>3 DEF Guesses
<1> QED
  BY <1>1, <1>2, <1>3

\* cleanupExpiredEntries drops an entry, which then counts nothing.
LEMMA CleanupKeeps ==
  ASSUME NEW c \in Seq(Nat), NEW n \in Nat, NEW e \in Entries, Guesses(c, n, e), e.resetAt <= n
  PROVE  Guesses(c, n, NoEntry)
<1>1. e.resetAt \in Nat /\ NoEntry.resetAt = 0
  BY DEF Entries, NoEntry
<1>2. ASSUME NEW a \in Nat, InWindow(c, a, n, e)
      PROVE  InWindow(c, a, n, NoEntry)
  <2>1. ~(e.resetAt > n) /\ ~(NoEntry.resetAt > n)
    BY <1>1
  <2> QED
    BY <1>2, <2>1 DEF InWindow
<1> QED
  BY <1>2 DEF Guesses

\* Time goes on by one.
LEMMA TimeKeeps ==
  ASSUME NEW c \in Seq(Nat), NEW n \in Nat, NEW e \in Entries, EntryIsCurrent(e, n)
  PROVE  EntryIsCurrent(e, n + 1) /\ (Guesses(c, n, e) => Guesses(c, n + 1, e))
<1>1. e.count \in Nat /\ e.resetAt \in Nat
  BY DEF Entries
<1>2. EntryIsCurrent(e, n + 1)
  BY <1>1, Limits DEF EntryIsCurrent
<1>3. ASSUME NEW a \in Nat, InWindow(c, a, n, e)
      PROVE  InWindow(c, a, n + 1, e)
  <2>1. a <= n + 1 /\ \A i \in DOMAIN c : c[i] <= n + 1 /\ c[i] < a + Window
    BY <1>3 DEF InWindow
  <2>2. CASE e.resetAt > n + 1
    <3>1. e.resetAt > n
      BY <1>1, <2>2
    <3> QED
      BY <1>3, <2>1, <2>2, <3>1 DEF InWindow
  <2>3. CASE ~(e.resetAt > n + 1)
    <3>1. a + Window <= n + 1
      BY <1>1, <1>3, <2>3, Limits DEF InWindow
    <3> QED
      BY <1>3, <2>1, <2>3, <3>1 DEF InWindow
  <2> QED
    BY <2>2, <2>3
<1> QED
  BY <1>2, <1>3 DEF Guesses

\* In any stretch that ends after the window began there are less than twice
\* as many guesses as the limit.
LEMMA StretchBounded ==
  ASSUME NEW c \in Seq(Nat), NEW a \in Nat, NEW n \in Nat, NEW e, NEW s \in Nat,
         InWindow(c, a, n, e), s + Window > a
  PROVE  Cardinality(InSpan(c, s, s + Window)) < 2 * MaxAttempts
<1> DEFINE B == InSpan(c, s, s + Window)
<1>1. \A S \in SUBSET DOMAIN c : IsFiniteSet(S) /\ Cardinality(S) \in Nat
  BY Countable
<1>2. B \in SUBSET DOMAIN c
  BY DEF InSpan
<1>3. CASE s > a
  <2>1. B \subseteq Since(c, s) /\ Since(c, s) \in SUBSET DOMAIN c
    BY DEF InSpan, Since
  <2>2. Cardinality(B) <= Cardinality(Since(c, s))
    BY <2>1, Monotone
  <2>3. Cardinality(Since(c, s)) < MaxAttempts
    BY <1>3 DEF InWindow
  <2>4. Cardinality(B) \in Nat /\ Cardinality(Since(c, s)) \in Nat
    BY <1>1, <1>2, <2>1
  <2> HIDE DEF B
  <2> QED
    BY <2>2, <2>3, <2>4, Limits DEF B
<1>4. CASE s <= a
  <2>1. InSpan(c, s, a) \in SUBSET DOMAIN c /\ Since(c, a) \in SUBSET DOMAIN c
        /\ InSpan(c, s, a) \cup Since(c, a) \in SUBSET DOMAIN c
    BY DEF InSpan, Since
  <2>2. B \subseteq InSpan(c, s, a) \cup Since(c, a)
    <3>1. \A i \in DOMAIN c : c[i] \in Nat
      OBVIOUS
    <3> QED
      BY <3>1 DEF InSpan, Since
  <2>3. Cardinality(B) <= Cardinality(InSpan(c, s, a) \cup Since(c, a))
    BY <2>1, <2>2, Monotone
  <2>4. Cardinality(InSpan(c, s, a) \cup Since(c, a)) =
          Cardinality(InSpan(c, s, a)) + Cardinality(Since(c, a))
            - Cardinality(InSpan(c, s, a) \cap Since(c, a))
    BY <1>1, <2>1, FS_Union
  <2>5. InSpan(c, s, a) \cap Since(c, a) \in SUBSET DOMAIN c
    BY <2>1
  <2>6. /\ Cardinality(B) \in Nat /\ Cardinality(InSpan(c, s, a)) \in Nat /\ Cardinality(Since(c, a)) \in Nat
        /\ Cardinality(InSpan(c, s, a) \cap Since(c, a)) \in Nat
    BY <1>1, <1>2, <2>1, <2>5
  <2>7. Cardinality(InSpan(c, s, a)) < MaxAttempts /\ Cardinality(Since(c, a)) <= MaxAttempts
    BY DEF InWindow
  <2> HIDE DEF B
  <2> QED
    BY <2>3, <2>4, <2>6, <2>7, Limits DEF B
<1> QED
  BY <1>3, <1>4

-----------------------------------------------------------------------------
(* The invariant, and every step.                                          *)

\* The account of an address is one, an id that is free has no guesses, and
\* the entry of an account's address counts the guesses at it.
GuessInv ==
  /\ \A u \in Users \ Members : checks[u] = << >>
  /\ \A u, v \in Members : members[u].email = members[v].email => u = v
  /\ \A k \in Emails \X Spellings : EntryIsCurrent(limits[k], now)
  /\ \A u \in Members :
       members[u].email \in Emails /\ Guesses(checks[u], now, limits[<<members[u].email, "lower">>])
  /\ GuessesBounded

\* The types that the lemmas need.
LEMMA GuessTypes ==
  ASSUME SignInTypeOK
  PROVE  /\ now \in Nat /\ \A u \in Users : checks[u] \in Seq(Nat)
         /\ \A k \in Emails \X Spellings : limits[k] \in Entries
         /\ \A m \in Emails : <<m, "lower">> \in Emails \X Spellings
         /\ Members \subseteq Users
BY SignInAssumption DEF SignInTypeOK, Entries, Spellings, Members

\* Without guesses nothing is counted.
LEMMA GuessInitInv == SignInInit => GuessInv
<1> SUFFICES ASSUME SignInInit PROVE GuessInv
  OBVIOUS
<1>1. SignInTypeOK
  BY SignInInitInv DEF SignInInv
<1>2. \A u \in Users : checks[u] = << >>
  BY DEF SignInInit
<1>3. \A k \in Emails \X Spellings : limits[k] = NoEntry
  BY DEF SignInInit
<1>4. \A k \in Emails \X Spellings : EntryIsCurrent(limits[k], now)
  BY <1>3 DEF EntryIsCurrent, NoEntry, SignInInit
<1>5. \A u \in Members : members[u].email \in Emails
  BY DEF SignInInit, Members
<1>6. GuessesBounded
  <2> SUFFICES ASSUME NEW u \in Users, NEW start \in 0..Horizon
               PROVE  Cardinality({i \in DOMAIN checks[u] :
                                     checks[u][i] >= start /\ checks[u][i] < start + Window}) < 2 * MaxAttempts
    BY DEF GuessesBounded
  <2>1. {i \in DOMAIN checks[u] : checks[u][i] >= start /\ checks[u][i] < start + Window} = {}
    BY <1>2
  <2>2. Cardinality({}) = 0
    BY FS_EmptySet
  <2>3. 0 < 2 * MaxAttempts
    BY Limits
  <2> QED
    BY <2>1, <2>2, <2>3
<1>7. \A u \in Members : Guesses(checks[u], now, limits[<<members[u].email, "lower">>])
  BY <1>2 DEF Guesses, Members
<1>8. \A u, v \in Members : members[u].email = members[v].email => u = v
  BY DEF SignInInit
<1> QED
  BY <1>2, <1>4, <1>5, <1>6, <1>7, <1>8 DEF GuessInv

\* The limiter's table after an attempt: the entry of the address is counted,
\* the others are cleaned up.
LEMMA ConsumedEntries ==
  ASSUME SignInTypeOK, NEW k \in Emails \X Spellings
  PROVE  \A j \in Emails \X Spellings :
           Consumed(k)[j] = IF j = k THEN Next1(limits[j], now)
                            ELSE IF limits[j].resetAt <= now THEN NoEntry ELSE limits[j]
<1>1. DOMAIN limits = Emails \X Spellings /\ now \in Nat /\ NoEntry.resetAt = 0
  BY SignInAssumption DEF SignInTypeOK, NoEntry
<1>2. Fresh[k] = NoEntry <=> limits[k].resetAt <= now
  BY <1>1 DEF Fresh
<1> QED
  BY <1>1, <1>2 DEF Consumed, Fresh, Next1

\* A wrong guess that was let through.
LEMMA GuessBounded ==
  ASSUME SignInTypeOK, GuessInv, NEW u \in Members, checks' = [checks EXCEPT ![u] = Append(@, now)],
         NEW k, k = <<members[u].email, "lower">>, NEW f,
         Guesses(Append(checks[u], now), now, f)
  PROVE  GuessesBounded'
<1>1. GuessInv /\ now \in Nat /\ u \in Users /\ checks[u] \in Seq(Nat) /\ Horizon \in Nat
  BY GuessTypes, SignInAssumption
<1> DEFINE d == Append(checks[u], now)
<1>2. d \in Seq(Nat) /\ d # << >>
  BY <1>1
<1>3. PICK a \in Nat : InWindow(d, a, now, f)
  BY <1>2 DEF Guesses
<1>4. \A s \in 0..Horizon : Cardinality(InSpan(d, s, s + Window)) < 2 * MaxAttempts
  <2> SUFFICES ASSUME NEW s \in 0..Horizon
               PROVE  Cardinality(InSpan(d, s, s + Window)) < 2 * MaxAttempts
    OBVIOUS
  <2>1. s \in Nat /\ a <= now
    BY <1>3, SignInAssumption DEF InWindow
  <2>2. CASE s + Window > a
    BY <1>1, <1>2, <1>3, <2>1, <2>2, StretchBounded
  <2>3. CASE s + Window <= a
    <3>1. s + Window \in Nat /\ s + Window <= now
      BY <1>1, <1>3, <2>1, <2>3, Limits
    <3>2. InSpan(d, s, s + Window) = InSpan(checks[u], s, s + Window)
      BY <1>1, <2>1, <3>1, OneMore
    <3>3. Cardinality(InSpan(checks[u], s, s + Window)) < 2 * MaxAttempts
      BY <1>1 DEF GuessInv, GuessesBounded, InSpan
    <3> QED
      BY <3>2, <3>3
  <2> QED
    BY <1>3, <2>1, <2>2, <2>3, Limits
<1>5. \A v \in Users : checks'[v] = IF v = u THEN d ELSE checks[v]
  BY DEF SignInTypeOK
<1>6. \A v \in Users : \A s \in 0..Horizon :
        Cardinality(InSpan(checks'[v], s, s + Window)) < 2 * MaxAttempts
  <2> SUFFICES ASSUME NEW v \in Users, NEW s \in 0..Horizon
               PROVE  Cardinality(InSpan(checks'[v], s, s + Window)) < 2 * MaxAttempts
    OBVIOUS
  <2>1. Cardinality(InSpan(checks[v], s, s + Window)) < 2 * MaxAttempts
    BY <1>1 DEF GuessInv, GuessesBounded, InSpan
  <2>2. CASE v = u
    <3>1. checks'[v] = d
      BY <1>5, <2>2
    <3> HIDE DEF d
    <3> QED
      BY <1>4, <3>1
  <2>3. CASE v # u
    BY <1>5, <2>1, <2>3
  <2> QED
    BY <2>2, <2>3
<1> QED
  BY <1>6 DEF GuessesBounded, InSpan

\* Guesses that are forgotten exceed no bound.
LEMMA ForgottenBounded ==
  ASSUME SignInTypeOK, GuessesBounded, \A v \in Users : checks'[v] \in {checks[v], << >>}
  PROVE  GuessesBounded'
<1> SUFFICES ASSUME NEW v \in Users, NEW s \in 0..Horizon
             PROVE  Cardinality(InSpan(checks'[v], s, s + Window)) < 2 * MaxAttempts
  BY DEF GuessesBounded, InSpan
<1>1. CASE checks'[v] = << >>
  <2>1. InSpan(checks'[v], s, s + Window) = {}
    BY <1>1 DEF InSpan
  <2>2. Cardinality(InSpan(checks'[v], s, s + Window)) = 0
    BY <2>1, FS_EmptySet
  <2> QED
    BY <2>2, Limits
<1>2. CASE checks'[v] = checks[v]
  BY <1>2 DEF GuessesBounded, InSpan
<1> QED
  BY <1>1, <1>2

\* A password login, whatever its outcome.
LEMMA LoginGuesses ==
  ASSUME SignInTypeOK, GuessInv, NEW t, NEW m \in Emails, NEW spelled,
         NEW right \in BOOLEAN, NEW how, Login(t, m, spelled, right, how)
  PROVE  GuessInv'
<1> DEFINE k == <<m, "lower">>
           somebody == {u \in WithEmail(m) : members[u].password /\ ~members[u].disabled}
<1>1. UNCHANGED <<members, now>> /\ Members' = Members /\ k \in Emails \X Spellings
  BY GuessTypes DEF Login, Members
<1>2. /\ now \in Nat /\ \A u \in Users : checks[u] \in Seq(Nat)
      /\ \A j \in Emails \X Spellings : limits[j] \in Entries
      /\ \A e \in Emails : <<e, "lower">> \in Emails \X Spellings
      /\ Members \subseteq Users
  BY GuessTypes
<1>3. /\ \A u \in Users \ Members : checks[u] = << >>
      /\ \A u, v \in Members : members[u].email = members[v].email => u = v
      /\ \A j \in Emails \X Spellings : EntryIsCurrent(limits[j], now)
      /\ \A u \in Members :
           members[u].email \in Emails /\ Guesses(checks[u], now, limits[<<members[u].email, "lower">>])
      /\ GuessesBounded
  BY DEF GuessInv
<1>4. \A j \in Emails \X Spellings :
        Consumed(k)[j] = IF j = k THEN Next1(limits[j], now)
                         ELSE IF limits[j].resetAt <= now THEN NoEntry ELSE limits[j]
  BY <1>1, ConsumedEntries
<1>5. EntryIsCurrent(NoEntry, now)
  BY <1>2 DEF EntryIsCurrent, NoEntry
<1>6. \A j \in Emails \X Spellings : EntryIsCurrent(Next1(limits[j], now), now)
  <2> SUFFICES ASSUME NEW j \in Emails \X Spellings
               PROVE  EntryIsCurrent(Next1(limits[j], now), now)
    OBVIOUS
  <2>1. << >> \in Seq(Nat) /\ Guesses(<< >>, now, limits[j])
    BY DEF Guesses
  <2> QED
    BY <1>2, <1>3, <2>1, AttemptKeeps
<1>7. \A j \in Emails \X Spellings : EntryIsCurrent(Consumed(k)[j], now)
  BY <1>3, <1>4, <1>5, <1>6
<1>8. \A u \in Members : Guesses(checks[u], now, Consumed(k)[<<members[u].email, "lower">>])
  <2> SUFFICES ASSUME NEW u \in Members, NEW j, j = <<members[u].email, "lower">>
               PROVE  Guesses(checks[u], now, Consumed(k)[j])
    OBVIOUS
  <2>1. /\ j \in Emails \X Spellings /\ checks[u] \in Seq(Nat) /\ limits[j] \in Entries
        /\ Guesses(checks[u], now, limits[j]) /\ EntryIsCurrent(limits[j], now)
    BY <1>2, <1>3
  <2>2. Guesses(checks[u], now, Next1(limits[j], now))
    BY <1>2, <2>1, AttemptKeeps
  <2>3. limits[j].resetAt <= now => Guesses(checks[u], now, NoEntry)
    BY <1>2, <2>1, CleanupKeeps
  <2> QED
    BY <1>4, <2>1, <2>2, <2>3
<1>9. ASSUME limits' = Consumed(k), checks' = checks
      PROVE  GuessInv'
  <2>1. GuessesBounded'
    BY <1>3, <1>9 DEF GuessesBounded
  <2> QED
    BY <1>1, <1>3, <1>7, <1>8, <1>9, <2>1 DEF GuessInv
<1>10. ASSUME NEW u \in somebody, Allowed(k), limits' = Consumed(k), checks' = [checks EXCEPT ![u] = Append(@, now)]
       PROVE  GuessInv'
  <2>1. u \in Members /\ members[u].email = m
    BY DEF WithEmail
  <2>2. checks[u] \in Seq(Nat) /\ limits[k] \in Entries /\ EntryIsCurrent(limits[k], now)
        /\ Guesses(checks[u], now, limits[k])
    BY <1>1, <1>2, <1>3, <2>1
  <2>3. Next1(limits[k], now).count <= MaxAttempts
    BY <1>1, <1>4, <1>10 DEF Allowed
  <2>4. Guesses(Append(checks[u], now), now, Next1(limits[k], now))
    BY <1>2, <2>2, <2>3, GuessKeeps
  <2>5. GuessesBounded'
    BY <1>10, <2>1, <2>4, GuessBounded
  <2>6. \A v \in Users : checks'[v] = IF v = u THEN Append(checks[u], now) ELSE checks[v]
    BY <1>10 DEF SignInTypeOK
  <2>7. \A v \in Members : Guesses(checks'[v], now, Consumed(k)[<<members[v].email, "lower">>])
    <3> SUFFICES ASSUME NEW v \in Members
                 PROVE  Guesses(checks'[v], now, Consumed(k)[<<members[v].email, "lower">>])
      OBVIOUS
    <3>1. CASE v = u
      BY <1>1, <1>2, <1>4, <2>1, <2>4, <2>6, <3>1
    <3>2. CASE v # u
      BY <1>2, <1>8, <2>6, <3>2
    <3> QED
      BY <3>1, <3>2
  <2>8. \A v \in Users \ Members : checks'[v] = << >>
    BY <1>3, <2>1, <2>6
  <2> QED
    BY <1>1, <1>3, <1>7, <1>10, <2>5, <2>7, <2>8 DEF GuessInv
<1>11. ASSUME NEW u \in somebody, limits' = [Consumed(k) EXCEPT ![k] = NoEntry], checks' = [checks EXCEPT ![u] = << >>]
       PROVE  GuessInv'
  <2>1. u \in Members /\ members[u].email = m
    BY DEF WithEmail
  <2>2. \A v \in Users : checks'[v] = IF v = u THEN << >> ELSE checks[v]
    BY <1>11 DEF SignInTypeOK
  <2>3. GuessesBounded'
    BY <1>3, <2>2, ForgottenBounded
  <2>4. \A j \in Emails \X Spellings : limits'[j] = IF j = k THEN NoEntry ELSE Consumed(k)[j]
    <3>1. DOMAIN Consumed(k) = Emails \X Spellings
      BY <1>1, ConsumedType
    <3> QED
      BY <1>11, <3>1
  <2>5. \A v \in Members : Guesses(checks'[v], now, limits'[<<members[v].email, "lower">>])
    <3> SUFFICES ASSUME NEW v \in Members
                 PROVE  Guesses(checks'[v], now, limits'[<<members[v].email, "lower">>])
      OBVIOUS
    <3>1. CASE v = u
      BY <1>2, <2>2, <3>1 DEF Guesses
    <3>2. CASE v # u
      <4>1. members[v].email # m /\ members[v].email \in Emails
        BY <1>3, <2>1, <3>2
      <4> QED
        BY <1>2, <1>8, <2>2, <2>4, <3>2, <4>1
    <3> QED
      BY <3>1, <3>2
  <2>6. \A v \in Users \ Members : checks'[v] = << >>
    BY <1>3, <2>2
  <2>7. \A j \in Emails \X Spellings : EntryIsCurrent(limits'[j], now)
    BY <1>5, <1>7, <2>4
  <2> QED
    BY <1>1, <1>3, <2>3, <2>5, <2>6, <2>7 DEF GuessInv
<1> QED
  BY <1>9, <1>10, <1>11 DEF Login, LimitKey

\* The rest of an OpenID callback gives an address only to an account that
\* had none, and takes it when nobody else has it.
LEMMA ExchangedGuesses ==
  ASSUME SignInInv, GuessInv, NEW h \in Callbacks, NEW t, NEW how, Exchanged(h, t, how)
  PROVE  GuessInv'
<1> DEFINE c == callbacks[h]
<1>1. UNCHANGED <<limits, now, checks>> /\ c.email \in Emails
  BY DEF Exchanged, SignInInv, CallsAreComplete
<1>2. SignInTypeOK /\ now \in Nat
  BY GuessTypes DEF SignInInv
<1>3. GuessesBounded'
  BY <1>1 DEF GuessInv, GuessesBounded
<1>4. CASE members' = members
  BY <1>1, <1>3, <1>4 DEF GuessInv, Members
<1>5. ASSUME NEW u \in IF Matched(c) = {} THEN Users \ Members ELSE Matched(c),
             Matched(c) # {} \/ WithEmail(c.email) = {},
             members' = [members EXCEPT ![u] =
               IF @ = NoMember
               THEN [email |-> c.email, password |-> FALSE, subject |-> c.subject, disabled |-> FALSE]
               ELSE IF @.subject = "none" THEN [@ EXCEPT !.subject = c.subject] ELSE @]
      PROVE  GuessInv'
  <2>1. u \in Users
    BY DEF Matched, WithSubject, WithEmail, Members
  <2>2. CASE u \in Members
    <3>1. members[u] # NoMember
      BY <2>2 DEF Members
    <3>2. \A v \in Users : members'[v].email = members[v].email
      BY <1>2, <1>5, <2>1, <3>1 DEF SignInTypeOK
    <3>3. Members' \subseteq Users /\ Members \subseteq Users
      BY DEF Members
    <3>4. \A v \in Users : v # u => members'[v] = members[v]
      BY <1>2, <1>5 DEF SignInTypeOK
    <3>5. Members' \subseteq Members
      BY <2>2, <3>4 DEF Members
    <3>6. Members \subseteq Members'
      <4>1. members[u].email # "none"
        BY <2>2, SignInAssumption DEF GuessInv
      <4>2. members'[u] # NoMember
        BY <2>1, <3>2, <4>1 DEF NoMember
      <4> QED
        BY <3>4, <4>2 DEF Members
    <3>7. Members' = Members
      BY <3>5, <3>6
    <3> QED
      BY <1>1, <1>3, <3>2, <3>3, <3>7 DEF GuessInv
  <2>3. CASE u \notin Members
    <3>1. Matched(c) = {} /\ WithEmail(c.email) = {} /\ members[u] = NoMember
      BY <1>5, <2>1, <2>3 DEF Matched, WithSubject, WithEmail, Members
    <3>2. \A v \in Users : v # u => members'[v] = members[v]
      BY <1>2, <1>5 DEF SignInTypeOK
    <3>3. members'[u].email = c.email
      BY <1>2, <1>5, <2>1, <3>1 DEF SignInTypeOK
    <3>4. Members' \subseteq Members \cup {u} /\ Users \ Members' \subseteq Users \ Members
      <4>1. members'[u] # NoMember
        BY <1>1, <3>3, SignInAssumption DEF NoMember
      <4> QED
        BY <3>2, <4>1 DEF Members
    <3>5. \A v \in Members : members[v].email # c.email /\ v # u /\ v \in Users
      BY <2>3, <3>1 DEF WithEmail, Members
    <3>6. checks[u] = << >> /\ u \notin Members
      BY <2>1, <2>3 DEF GuessInv
    <3>7. \A v, w \in Members' : members'[v].email = members'[w].email => v = w
      BY <3>2, <3>3, <3>4, <3>5 DEF GuessInv
    <3>8. \A v \in Members' :
            members'[v].email \in Emails /\ Guesses(checks[v], now, limits[<<members'[v].email, "lower">>])
      <4> SUFFICES ASSUME NEW v \in Members'
                   PROVE  /\ members'[v].email \in Emails
                          /\ Guesses(checks[v], now, limits[<<members'[v].email, "lower">>])
        OBVIOUS
      <4>1. CASE v = u
        BY <1>1, <3>3, <3>6, <4>1 DEF Guesses
      <4>2. CASE v # u
        BY <3>2, <3>4, <3>5, <4>2 DEF GuessInv
      <4> QED
        BY <4>1, <4>2
    <3>9. \A v \in Users \ Members' : checks[v] = << >>
      BY <3>4 DEF GuessInv
    <3> QED
      BY <1>1, <1>3, <3>7, <3>8, <3>9 DEF GuessInv
  <2> QED
    BY <2>2, <2>3
<1>6. \/ members' = members
      \/ \E u \in IF Matched(c) = {} THEN Users \ Members ELSE Matched(c) :
           /\ Matched(c) # {} \/ WithEmail(c.email) = {}
           /\ members' = [members EXCEPT ![u] =
                IF @ = NoMember
                THEN [email |-> c.email, password |-> FALSE, subject |-> c.subject, disabled |-> FALSE]
                ELSE IF @.subject = "none" THEN [@ EXCEPT !.subject = c.subject] ELSE @]
  BY DEF Exchanged
<1> QED
  BY <1>4, <1>5, <1>6

\* An administrator disables, enables or removes an account: its guesses and
\* its address go with it.
LEMMA AdminGuesses ==
  ASSUME SignInTypeOK, GuessInv, NEW u \in Users,
         RemoveUser(u) \/ \E b \in BOOLEAN : SetDisabled(u, b)
  PROVE  GuessInv'
<1>1. UNCHANGED <<limits, now>>
  BY DEF RemoveUser, SetDisabled
<1>2. ASSUME NEW b \in BOOLEAN, SetDisabled(u, b)
      PROVE  GuessInv'
  <2>1. checks' = checks /\ members' = [members EXCEPT ![u].disabled = b] /\ u \in Members
    BY <1>2 DEF SetDisabled
  <2>2. \A v \in Users : members'[v].email = members[v].email
    BY <2>1 DEF SignInTypeOK
  <2>3. \A v \in Users : v # u => members'[v] = members[v]
    BY <2>1 DEF SignInTypeOK
  <2>4. members'[u] # NoMember /\ Members' \subseteq Users /\ Members \subseteq Users
    <3>1. members'[u].email \in Emails
      BY <2>1, <2>2 DEF GuessInv
    <3> QED
      BY <3>1, SignInAssumption DEF NoMember, Members
  <2>5. Members' = Members
    BY <2>1, <2>3, <2>4 DEF Members
  <2>6. GuessesBounded'
    BY <2>1 DEF GuessInv, GuessesBounded
  <2> QED
    BY <1>1, <2>1, <2>2, <2>4, <2>5, <2>6 DEF GuessInv
<1>3. ASSUME RemoveUser(u)
      PROVE  GuessInv'
  <2>1. members' = [members EXCEPT ![u] = NoMember] /\ checks' = [checks EXCEPT ![u] = << >>]
    BY <1>3 DEF RemoveUser
  <2>2. \A v \in Users : checks'[v] = IF v = u THEN << >> ELSE checks[v]
    BY <2>1 DEF SignInTypeOK
  <2>3. Members' = Members \ {u} /\ \A v \in Members' : members'[v] = members[v] /\ v # u /\ v \in Users
    BY <2>1 DEF SignInTypeOK, Members
  <2>4. GuessesBounded'
    BY <2>2, ForgottenBounded DEF GuessInv
  <2> QED
    BY <1>1, <2>2, <2>3, <2>4 DEF GuessInv
<1> QED
  BY <1>2, <1>3

\* The clock goes on.
LEMMA TickGuesses == ASSUME SignInTypeOK, GuessInv, Tick PROVE GuessInv'
<1>1. UNCHANGED <<members, limits, checks>> /\ now' = now + 1 /\ Members' = Members
  BY DEF Tick, Members
<1>2. /\ now \in Nat /\ \A u \in Users : checks[u] \in Seq(Nat)
      /\ \A k \in Emails \X Spellings : limits[k] \in Entries
      /\ \A m \in Emails : <<m, "lower">> \in Emails \X Spellings
      /\ Members \subseteq Users
  BY GuessTypes
<1>3. /\ \A k \in Emails \X Spellings : EntryIsCurrent(limits[k], now)
      /\ \A u \in Members :
           members[u].email \in Emails /\ Guesses(checks[u], now, limits[<<members[u].email, "lower">>])
  BY DEF GuessInv
<1>4. \A k \in Emails \X Spellings : EntryIsCurrent(limits[k], now + 1)
  <2>1. << >> \in Seq(Nat)
    OBVIOUS
  <2> QED
    BY <1>2, <1>3, <2>1, TimeKeeps
<1>5. \A u \in Members : Guesses(checks[u], now + 1, limits[<<members[u].email, "lower">>])
  BY <1>2, <1>3, TimeKeeps
<1>6. GuessesBounded'
  BY <1>1 DEF GuessInv, GuessesBounded
<1> QED
  BY <1>1, <1>4, <1>5, <1>6 DEF GuessInv

\* With the invariant of SignInProofs, this one is inductive.
LEMMA GuessStepInv == SignInInv /\ GuessInv /\ [SignInNext]_signInVars => GuessInv'
<1> SUFFICES ASSUME SignInInv, GuessInv, [SignInNext]_signInVars PROVE GuessInv'
  OBVIOUS
<1>1. SignInTypeOK
  BY DEF SignInInv
<1>2. CASE UNCHANGED <<members, limits, now, checks>>
  <2>1. GuessesBounded' /\ Members' = Members
    BY <1>2 DEF GuessInv, GuessesBounded, Members
  <2> QED
    BY <1>2, <2>1 DEF GuessInv
<1>3. CASE Tick
  BY <1>1, <1>3, TickGuesses
<1>4. CASE \E u \in Users : RemoveUser(u) \/ \E b \in BOOLEAN : SetDisabled(u, b)
  BY <1>1, <1>4, AdminGuesses
<1>5. CASE PasswordNext
  <2>1. CASE \E t \in ActiveTabs : UseExpired(t) \/ Logout(t)
    BY <1>2, <2>1 DEF UseExpired, Logout
  <2> QED
    BY <1>1, <1>5, <2>1, LoginGuesses DEF PasswordNext
<1>6. CASE ProviderNext
  <2>1. CASE \E h \in Callbacks, t \in ActiveTabs, how \in Modes : Exchanged(h, t, how)
    BY <2>1, ExchangedGuesses
  <2> QED
    BY <1>2, <1>6, <2>1 DEF ProviderNext, StartOpenId, Callback, ExchangeFails
<1> QED
  BY <1>2, <1>3, <1>4, <1>5, <1>6 DEF SignInNext, signInVars

-----------------------------------------------------------------------------
\* SignInIsSafe, for any window and limit: no password is compared as often as
\* twice the limit in any stretch as long as the window, however attempts are
\* timed around its end and logins of others, addresses and deletions come;
\* and no person has two accounts and no tab sends an older token.
THEOREM SigningInIsSafe == SignInSpec => []SignInIsSafe
<1>1. SignInInit => SignInInv /\ GuessInv
  BY SignInInitInv, GuessInitInv
<1>2. SignInInv /\ GuessInv /\ [SignInNext]_signInVars => (SignInInv /\ GuessInv)'
  BY SignInStepInv, GuessStepInv
<1>3. GuessInv => GuessesBounded
  BY DEF GuessInv
<1>4. SignInSpec => []GuessInv
  BY <1>1, <1>2, PTL DEF SignInSpec
<1>5. SignInTypeOK /\ OneAccountPerSubject /\ LastTokenIsSent /\ GuessInv => SignInIsSafe
  BY <1>3 DEF SignInIsSafe
<1> QED
  BY <1>4, <1>5, OnePersonOneAccount, PTL

-----------------------------------------------------------------------------
(* Access to workspaces.  A user has, of what a manager may set for a      *)
(* workspace, exactly what was set, and whatever a route asks for the      *)
(* workspace only that answers: the name of the workspace is the third of  *)
(* its path, before any star.                                              *)

\* A permission as getProjectUserAccess and the routes compare it.
Accesses == {"any", "read", "write"}

\* What is matched from a place of the pattern on, with the places after it.
Ends(pattern, path, rest, i) ==
  IF i > Len(pattern) THEN {Len(path) + 1}
  ELSE {j \in 1..Len(path) : IF pattern[i] = "*" THEN \E k \in rest[i + 1] : k > j
                             ELSE pattern[i] = path[j] /\ j + 1 \in rest[i + 1]}

\* The places where the names of a pattern may begin, from the last one up.
LEMMA EndsExist ==
  ASSUME NEW T, NEW pattern \in Seq(T), NEW path \in Seq(T)
  PROVE  \E f : f = [i \in 1..Len(pattern) + 1 |-> Ends(pattern, path, f, i)]
<1> DEFINE n == Len(pattern)
           F == [1..n + 1 -> SUBSET Nat]
           Good(g, m) == \A i \in 1..n + 1 : i >= n + 1 - m => g[i] = Ends(pattern, path, g, i)
           S == {m \in 0..n : \E g \in F : Good(g, m)}
<1>0. n \in Nat /\ Len(path) \in Nat
  OBVIOUS
<1>a. \A g, i : Ends(pattern, path, g, i) \in SUBSET Nat
  BY <1>0 DEF Ends
<1>1. 0 \in S
  <2> DEFINE g == [i \in 1..n + 1 |-> {Len(path) + 1}]
  <2>1. g \in F
    BY <1>0
  <2>2. ASSUME NEW i \in 1..n + 1, i >= n + 1 - 0 PROVE g[i] = Ends(pattern, path, g, i)
    <3>1. i > Len(pattern)
      BY <1>0, <2>2
    <3> QED BY <3>1 DEF Ends
  <2>3. Good(g, 0)
    BY <2>2
  <2> HIDE DEF g, Good
  <2> QED BY <1>0, <2>1, <2>3
<1>2. ASSUME NEW k \in 1..n, k - 1 \in S PROVE k \in S
  <2> DEFINE here == n + 1 - k
  <2>1. PICK g \in F : Good(g, k - 1)
    BY <1>2
  <2>2. here \in 1..n /\ k \in 0..n
    BY <1>0
  <2> DEFINE h == [g EXCEPT ![here] = Ends(pattern, path, g, here)]
  <2>3. h \in F /\ h[here] = Ends(pattern, path, g, here) /\ \A i \in 1..n + 1 : i # here => h[i] = g[i]
    BY <1>0, <1>a, <2>2
  <2> HIDE DEF h
  <2>4. ASSUME NEW i \in 1..n + 1, i >= here PROVE h[i] = Ends(pattern, path, h, i)
    <3>1. i <= n => i + 1 \in 1..n + 1 /\ i + 1 # here
      BY <1>0, <2>2, <2>4
    <3>2. Ends(pattern, path, h, i) = Ends(pattern, path, g, i)
      <4>1. i <= n => h[i + 1] = g[i + 1]
        BY <2>3, <3>1
      <4> HIDE DEF n
      <4>2. i <= n <=> ~(i > n)
        BY <1>0
      <4> QED BY ONLY <4>1, <4>2 DEF Ends, n
    <3>3. CASE i = here
      BY <2>3, <3>2, <3>3
    <3>4. CASE i # here
      <4>1. i >= n + 1 - (k - 1)
        BY <1>0, <2>2, <2>4, <3>4
      <4> QED BY <2>1, <2>3, <3>2, <3>4, <4>1
    <3> QED BY <3>3, <3>4
  <2>5. Good(h, k)
    BY <2>4
  <2> QED BY <2>2, <2>3, <2>5
<1>3. S = 0..n
  <2>1. S \in SUBSET (0..n)
    OBVIOUS
  <2> HIDE DEF S, n
  <2> QED BY <1>0, <1>1, <1>2, <2>1, InductionTo
<1>4. PICK g \in F : Good(g, n)
  <2>1. n \in 0..n
    BY <1>0
  <2>2. n \in S
    BY <1>3, <2>1, Zenon
  <2> HIDE DEF F, Good, n
  <2> QED BY <2>2
<1>5. \A i \in 1..n + 1 : g[i] = Ends(pattern, path, g, i)
  BY <1>0, <1>4
<1>6. g = [i \in 1..n + 1 |-> Ends(pattern, path, g, i)]
  BY <1>5
<1> QED BY <1>6

LEMMA MatchesIs ==
  ASSUME NEW T, NEW pattern \in Seq(T), NEW path \in Seq(T)
  PROVE  \E f : /\ f = [i \in 1..Len(pattern) + 1 |-> Ends(pattern, path, f, i)]
                /\ PathMatches(pattern, path) <=> 1 \in f[1]
<1> DEFINE f == CHOOSE f : f = [i \in 1..Len(pattern) + 1 |-> Ends(pattern, path, f, i)]
<1>1. f = [i \in 1..Len(pattern) + 1 |-> Ends(pattern, path, f, i)]
  BY EndsExist
<1>2. PathMatches(pattern, path) <=> 1 \in f[1]
  BY DEF PathMatches, Ends
<1> HIDE DEF f
<1> QED BY <1>1, <1>2

\* A pattern matches itself: a star stands for the star.
LEMMA MatchesItself ==
  ASSUME NEW T, NEW pattern \in Seq(T)
  PROVE  PathMatches(pattern, pattern)
<1> DEFINE n == Len(pattern)
<1>0. n \in Nat
  OBVIOUS
<1>1. PICK f : /\ f = [i \in 1..n + 1 |-> Ends(pattern, pattern, f, i)]
               /\ PathMatches(pattern, pattern) <=> 1 \in f[1]
  BY MatchesIs
<1>2. \A i \in 1..n + 1 : f[i] = Ends(pattern, pattern, f, i)
  BY <1>1, Zenon
<1> DEFINE S == {m \in 0..n : n + 1 - m \in f[n + 1 - m]}
<1>3. 0 \in S
  <2>1. n + 1 \in f[n + 1]
    <3>1. n + 1 \in 1..n + 1 /\ n + 1 > Len(pattern)
      BY <1>0
    <3>2. f[n + 1] = Ends(pattern, pattern, f, n + 1)
      BY <1>2, <3>1
    <3>3. Ends(pattern, pattern, f, n + 1) = {n + 1}
      BY <3>1 DEF Ends
    <3> QED BY <3>2, <3>3
  <2> QED BY <1>0, <2>1
<1>4. ASSUME NEW k \in 1..n, k - 1 \in S PROVE k \in S
  <2> DEFINE i == n + 1 - k
  <2>1. i \in 1..n /\ i + 1 = n + 1 - (k - 1) /\ i + 1 > i
    BY <1>0
  <2>2. i + 1 \in f[i + 1]
    BY <1>4, <2>1
  <2> HIDE DEF i
  <2>3. i \in Ends(pattern, pattern, f, i)
    BY <1>0, <2>1, <2>2 DEF Ends
  <2>4. i \in f[i]
    BY <1>0, <1>2, <2>1, <2>3
  <2>5. k \in 0..n
    BY <1>0
  <2> QED BY <2>4, <2>5 DEF i
<1>5. S = 0..n
  <2>1. S \in SUBSET (0..n)
    OBVIOUS
  <2> HIDE DEF S, n
  <2> QED BY <1>0, <1>3, <1>4, <2>1, InductionTo
<1>6. n \in S
  <2>1. n \in 0..n
    BY <1>0
  <2> QED BY <1>5, <2>1, Zenon
<1>7. 1 \in f[1]
  <2>1. n + 1 - n = 1
    BY <1>0
  <2> QED BY <1>6, <2>1
<1> QED BY <1>1, <1>7

\* Names before the first star are those of the path.
LEMMA MatchesThird ==
  ASSUME NEW T, NEW pattern \in Seq(T), NEW path \in Seq(T), PathMatches(pattern, path),
         Len(pattern) >= 3, pattern[1] # "*", pattern[2] # "*", pattern[3] # "*"
  PROVE  Len(path) >= 3 /\ path[3] = pattern[3]
<1> DEFINE n == Len(pattern)
<1>0. n \in Nat /\ n >= 3 /\ Len(path) \in Nat
  OBVIOUS
<1>1. PICK f : /\ f = [i \in 1..n + 1 |-> Ends(pattern, path, f, i)]
               /\ PathMatches(pattern, path) <=> 1 \in f[1]
  BY MatchesIs
<1>2. \A i \in 1..n + 1 : f[i] = Ends(pattern, path, f, i)
  BY <1>1, Zenon
<1>3. ASSUME NEW i \in 1..n, pattern[i] # "*", NEW j \in f[i]
      PROVE  j \in 1..Len(path) /\ path[j] = pattern[i] /\ j + 1 \in f[i + 1]
  <2>1. j \in Ends(pattern, path, f, i) /\ ~(i > n)
    BY <1>0, <1>2
  <2> QED BY <1>3, <2>1 DEF Ends
<1>4. 1 \in f[1]
  BY <1>1
<1>5. 2 \in f[2]
  BY <1>0, <1>3, <1>4
<1>6. 3 \in f[3]
  BY <1>0, <1>3, <1>5
<1>7. 3 \in 1..Len(path) /\ path[3] = pattern[3]
  BY <1>0, <1>3, <1>6
<1> QED BY <1>0, <1>7

\* Paths are sequences of names.
LEMMA PathsAre ==
  ASSUME NEW T
  PROVE  /\ << >> \in Seq(T)
         /\ \A a \in T : <<a>> \in Seq(T)
         /\ \A a, b \in T : <<a, b>> \in Seq(T)
         /\ \A a, b, c \in T : <<a, b, c>> \in Seq(T)
         /\ \A a, b, c, d \in T : <<a, b, c, d>> \in Seq(T)
         /\ \A a, b, c, d, e \in T : <<a, b, c, d, e>> \in Seq(T)
OBVIOUS

\* What a workspace's manager sets names the workspace at the third place.
AccessNames ==
  {"project", "datasource", "view", "manage", "users", "query", "table.edit", "datasources", "*"}
    \cup Projects \cup Sources
LEMMA ManagedForm ==
  ASSUME NEW p \in Projects, NEW path \in ManagedBases(p)
  PROVE  /\ path \in Seq(AccessNames) /\ Len(path) >= 3 /\ path[3] = p
         /\ path[1] # "*" /\ path[2] # "*"
<1>1. path \in {<<"project", "view", p>>, <<"project", "manage", p, "datasources", "*">>, <<"datasource", "view", p, "*">>,
               <<"datasource", "query", p, "*">>, <<"project", "manage", p>>, <<"project", "users", p>>,
               <<"datasource", "manage", p, "*">>, <<"datasource", "table.edit", p, "*">>,
               <<"project", "manage", p, "datasources">>}
  BY DEF ManagedBases, ReadGrants, WriteGrants, Perm
<1>2. {"project", "view", "manage", "users", "datasource", "datasources", "query", "table.edit", "*"} \subseteq AccessNames
      /\ p \in AccessNames
  BY DEF AccessNames
<1>3. path \in Seq(AccessNames)
  <2>1. <<"project", "view", p>> \in Seq(AccessNames) /\ <<"project", "manage", p>> \in Seq(AccessNames)
        /\ <<"project", "users", p>> \in Seq(AccessNames)
    BY <1>2, PathsAre
  <2>2. <<"project", "manage", p, "datasources">> \in Seq(AccessNames)
        /\ <<"project", "manage", p, "datasources", "*">> \in Seq(AccessNames)
    BY <1>2, PathsAre
  <2>3. \A word \in {"view", "query", "manage", "table.edit"} : <<"datasource", word, p, "*">> \in Seq(AccessNames)
    BY <1>2, PathsAre
  <2> QED BY ONLY <1>1, <2>1, <2>2, <2>3
<1>4. Len(path) >= 3 /\ path[3] = p /\ path[1] # "*" /\ path[2] # "*"
  BY <1>1
<1> QED BY <1>3, <1>4

\* What the routes ask for a workspace names it or all at the third place.
AsksOf(p, t) == t.path \in Seq(AccessNames) /\ (Len(t.path) >= 3 => t.path[3] \in {p, "*"})

LEMMA ProjectAsks ==
  ASSUME NEW p \in Projects, NEW action \in AccessNames, NEW a, NEW t \in ProjectTargets(p, action, a)
  PROVE  AsksOf(p, t) /\ t.access = a
<1>1. {"project", "manage", "datasource", "datasources", "*"} \subseteq AccessNames /\ p \in AccessNames
  BY DEF AccessNames
<1>2. t \in {Perm(<<"project", action>>, a), Perm(<<"project", action, "*">>, a), Perm(<<"project", action, p>>, a)}
  BY DEF ProjectTargets
<1>3. t.path \in Seq(AccessNames)
  <2>1. /\ <<"project", action>> \in Seq(AccessNames) /\ <<"project", action, "*">> \in Seq(AccessNames)
        /\ <<"project", action, p>> \in Seq(AccessNames)
    BY <1>1, PathsAre
  <2>2. t.path \in {<<"project", action>>, <<"project", action, "*">>, <<"project", action, p>>}
    BY <1>2 DEF Perm
  <2> QED BY ONLY <2>1, <2>2
<1> QED BY <1>2, <1>3 DEF AsksOf, Perm

LEMMA SourceAsks ==
  ASSUME NEW p \in Projects, NEW s \in AccessNames, NEW action \in AccessNames, NEW a, NEW t \in SourceTargets(p, s, action, a)
  PROVE  AsksOf(p, t) /\ t.access = a
<1>1. {"project", "manage", "datasource", "datasources", "*"} \subseteq AccessNames /\ p \in AccessNames
  BY DEF AccessNames
<1> DEFINE base == <<"datasource", action>>
<1>2. PICK rest \in {<< >>, <<"*">>, <<p, "*">>, <<p, s>>} : t = Perm(base \o rest, a)
  BY DEF SourceTargets
<1>3. base \in Seq(AccessNames) /\ Len(base) = 2
  BY <1>1, PathsAre
<1>4. rest \in Seq(AccessNames) /\ Len(rest) \in Nat /\ (Len(rest) >= 1 => rest[1] \in {p, "*"})
  <2>1. /\ << >> \in Seq(AccessNames) /\ <<"*">> \in Seq(AccessNames) /\ <<p, "*">> \in Seq(AccessNames)
        /\ <<p, s>> \in Seq(AccessNames)
    BY <1>1, PathsAre
  <2>2. rest \in Seq(AccessNames)
    BY ONLY <1>2, <2>1
  <2>3. Len(rest) >= 1 => rest[1] \in {p, "*"}
    BY ONLY <1>2
  <2> QED BY <2>2, <2>3
<1> HIDE DEF base
<1> DEFINE whole == base \o rest
<1>5. /\ whole \in Seq(AccessNames) /\ Len(whole) = Len(base) + Len(rest)
      /\ \A i \in 1..Len(base) + Len(rest) : whole[i] = IF i <= Len(base) THEN base[i] ELSE rest[i - Len(base)]
  BY <1>3, <1>4, ConcatProperties, Zenon
<1> HIDE DEF whole
<1>6. Len(whole) >= 3 => whole[3] = rest[1]
  BY <1>3, <1>4, <1>5
<1>7. t.path = whole /\ t.access = a
  BY <1>2 DEF Perm, whole
<1> QED BY <1>3, <1>4, <1>5, <1>6, <1>7 DEF AsksOf

LEMMA ProjectSourceAsks ==
  ASSUME NEW p \in Projects, NEW s \in AccessNames, NEW a, NEW t \in ProjectSourceTargets(p, s, a)
  PROVE  AsksOf(p, t) /\ t.access = a
<1>1. {"project", "manage", "datasource", "datasources", "*"} \subseteq AccessNames /\ p \in AccessNames
  BY DEF AccessNames
<1> DEFINE base == <<"project", "manage", p, "datasources">>
<1>2. PICK rest \in {<< >>, <<"*">>, <<s>>} : t = Perm(base \o rest, a)
  BY DEF ProjectSourceTargets
<1>3. base \in Seq(AccessNames) /\ Len(base) = 4 /\ base[3] = p
  BY <1>1, PathsAre
<1>4. rest \in Seq(AccessNames) /\ Len(rest) \in Nat
  BY <1>1, <1>2, PathsAre
<1> HIDE DEF base
<1> DEFINE whole == base \o rest
<1>5. /\ whole \in Seq(AccessNames) /\ Len(whole) = Len(base) + Len(rest)
      /\ \A i \in 1..Len(base) + Len(rest) : whole[i] = IF i <= Len(base) THEN base[i] ELSE rest[i - Len(base)]
  BY <1>3, <1>4, ConcatProperties, Zenon
<1> HIDE DEF whole
<1>6. whole[3] = p
  BY <1>3, <1>4, <1>5
<1>7. t.path = whole /\ t.access = a
  BY <1>2 DEF Perm, whole
<1> QED BY <1>5, <1>6, <1>7 DEF AsksOf

\* The targets, told apart by what they ask.
LEMMA TargetsAre ==
  ASSUME NEW p, NEW s, NEW t
  PROVE  /\ t \in SourceReadTargets(p, s) <=>
              \/ \E a \in {"read", "write"} : t \in ProjectSourceTargets(p, s, a)
              \/ \E action \in {"query", "manage", "table.edit"} : t \in SourceTargets(p, s, action, "write")
              \/ \E action \in {"view", "query"} : t \in SourceTargets(p, s, action, "read")
              \/ t \in ProjectTargets(p, "manage", "write")
         /\ t \in SourceWriteTargets(p, s) <=>
              \/ t \in ProjectSourceTargets(p, s, "write")
              \/ \E action \in {"query", "manage", "table.edit"} : t \in SourceTargets(p, s, action, "write")
              \/ t \in ProjectTargets(p, "manage", "write")
         /\ t \in SourceConfigTargets(p, s) <=>
              \/ t \in ProjectSourceTargets(p, s, "write")
              \/ t \in SourceTargets(p, s, "manage", "write")
              \/ t \in ProjectTargets(p, "manage", "write")
         /\ t \in ViewProjectTargets(p) <=>
              \/ \E action \in {"view", "manage", "users"} : t \in ProjectTargets(p, action, "any")
              \/ t \in SourceReadTargets(p, "*")
<1>a. t \in UNION {ProjectSourceTargets(p, s, a) : a \in {"read", "write"}} <=>
        \E a \in {"read", "write"} : t \in ProjectSourceTargets(p, s, a)
  OBVIOUS
<1>b. t \in UNION {SourceTargets(p, s, action, "write") : action \in {"query", "manage", "table.edit"}} <=>
        \E action \in {"query", "manage", "table.edit"} : t \in SourceTargets(p, s, action, "write")
  OBVIOUS
<1>c. t \in UNION {SourceTargets(p, s, action, "read") : action \in {"view", "query"}} <=>
        \E action \in {"view", "query"} : t \in SourceTargets(p, s, action, "read")
  OBVIOUS
<1>d. t \in UNION {ProjectTargets(p, action, "any") : action \in {"view", "manage", "users"}} <=>
        \E action \in {"view", "manage", "users"} : t \in ProjectTargets(p, action, "any")
  OBVIOUS
<1>1. t \in SourceReadTargets(p, s) <=>
        \/ t \in UNION {ProjectSourceTargets(p, s, a) : a \in {"read", "write"}}
        \/ t \in UNION {SourceTargets(p, s, action, "write") : action \in {"query", "manage", "table.edit"}}
        \/ t \in UNION {SourceTargets(p, s, action, "read") : action \in {"view", "query"}}
        \/ t \in ProjectTargets(p, "manage", "write")
  <2> DEFINE A0 == UNION {ProjectSourceTargets(p, s, a) : a \in {"read", "write"}}
             A1 == UNION {SourceTargets(p, s, action, "write") : action \in {"query", "manage", "table.edit"}}
             A2 == UNION {SourceTargets(p, s, action, "read") : action \in {"view", "query"}}
             A3 == ProjectTargets(p, "manage", "write")
  <2>1. SourceReadTargets(p, s) = A0 \cup A1 \cup A2 \cup A3
    BY Zenon DEF SourceReadTargets
  <2> HIDE DEF A0, A1, A2, A3
  <2>2. t \in SourceReadTargets(p, s) <=> (t \in A0 \/ t \in A1 \/ t \in A2 \/ t \in A3)
    BY <2>1
  <2> QED BY <2>2 DEF A0, A1, A2, A3
<1>2. t \in SourceWriteTargets(p, s) <=>
        \/ t \in ProjectSourceTargets(p, s, "write")
        \/ t \in UNION {SourceTargets(p, s, action, "write") : action \in {"query", "manage", "table.edit"}}
        \/ t \in ProjectTargets(p, "manage", "write")
  <2> DEFINE A0 == ProjectSourceTargets(p, s, "write")
             A1 == UNION {SourceTargets(p, s, action, "write") : action \in {"query", "manage", "table.edit"}}
             A2 == ProjectTargets(p, "manage", "write")
  <2>1. SourceWriteTargets(p, s) = A0 \cup A1 \cup A2
    BY Zenon DEF SourceWriteTargets
  <2> HIDE DEF A0, A1, A2
  <2>2. t \in SourceWriteTargets(p, s) <=> (t \in A0 \/ t \in A1 \/ t \in A2)
    BY <2>1
  <2> QED BY <2>2 DEF A0, A1, A2
<1>3. t \in SourceConfigTargets(p, s) <=>
        \/ t \in ProjectSourceTargets(p, s, "write")
        \/ t \in SourceTargets(p, s, "manage", "write")
        \/ t \in ProjectTargets(p, "manage", "write")
  <2> DEFINE A0 == ProjectSourceTargets(p, s, "write")
             A1 == SourceTargets(p, s, "manage", "write")
             A2 == ProjectTargets(p, "manage", "write")
  <2>1. SourceConfigTargets(p, s) = A0 \cup A1 \cup A2
    BY Zenon DEF SourceConfigTargets
  <2> HIDE DEF A0, A1, A2
  <2>2. t \in SourceConfigTargets(p, s) <=> (t \in A0 \/ t \in A1 \/ t \in A2)
    BY <2>1
  <2> QED BY <2>2 DEF A0, A1, A2
<1>4. t \in ViewProjectTargets(p) <=>
        \/ t \in UNION {ProjectTargets(p, action, "any") : action \in {"view", "manage", "users"}}
        \/ t \in SourceReadTargets(p, "*")
  <2> DEFINE A0 == UNION {ProjectTargets(p, action, "any") : action \in {"view", "manage", "users"}}
             A1 == SourceReadTargets(p, "*")
  <2>1. ViewProjectTargets(p) = A0 \cup A1
    BY Zenon DEF ViewProjectTargets
  <2> HIDE DEF A0, A1
  <2>2. t \in ViewProjectTargets(p) <=> (t \in A0 \/ t \in A1)
    BY <2>1
  <2> QED BY <2>2 DEF A0, A1
<1>5. t \in SourceReadTargets(p, s) <=>
        \/ \E a \in {"read", "write"} : t \in ProjectSourceTargets(p, s, a)
        \/ \E action \in {"query", "manage", "table.edit"} : t \in SourceTargets(p, s, action, "write")
        \/ \E action \in {"view", "query"} : t \in SourceTargets(p, s, action, "read")
        \/ t \in ProjectTargets(p, "manage", "write")
  BY ONLY <1>1, <1>a, <1>b, <1>c, Zenon
<1>6. t \in SourceWriteTargets(p, s) <=>
        \/ t \in ProjectSourceTargets(p, s, "write")
        \/ \E action \in {"query", "manage", "table.edit"} : t \in SourceTargets(p, s, action, "write")
        \/ t \in ProjectTargets(p, "manage", "write")
  BY ONLY <1>2, <1>b, Zenon
<1>7. t \in ViewProjectTargets(p) <=>
        \/ \E action \in {"view", "manage", "users"} : t \in ProjectTargets(p, action, "any")
        \/ t \in SourceReadTargets(p, "*")
  BY ONLY <1>4, <1>d, Zenon
<1> QED BY ONLY <1>3, <1>5, <1>6, <1>7, Zenon

LEMMA RoutesAsk ==
  ASSUME NEW p \in Projects, NEW s \in AccessNames
  PROVE  /\ \A t \in SourceReadTargets(p, s) \cup ViewProjectTargets(p) : AsksOf(p, t)
         /\ \A t \in SourceWriteTargets(p, s) \cup SourceConfigTargets(p, s) : AsksOf(p, t) /\ t.access = "write"
<1>0. /\ "view" \in AccessNames /\ "manage" \in AccessNames /\ "users" \in AccessNames
      /\ "query" \in AccessNames /\ "table.edit" \in AccessNames /\ "*" \in AccessNames
  BY DEF AccessNames
<1>1. ASSUME NEW z \in AccessNames, NEW t \in SourceReadTargets(p, z) PROVE AsksOf(p, t)
  <2>1. CASE \E a \in {"read", "write"} : t \in ProjectSourceTargets(p, z, a)
    BY <1>0, <2>1, ProjectSourceAsks
  <2>2. CASE \E action \in {"query", "manage", "table.edit"} : t \in SourceTargets(p, z, action, "write")
    BY <1>0, <2>2, SourceAsks
  <2>3. CASE \E action \in {"view", "query"} : t \in SourceTargets(p, z, action, "read")
    BY <1>0, <2>3, SourceAsks
  <2>4. CASE t \in ProjectTargets(p, "manage", "write")
    BY <1>0, <2>4, ProjectAsks
  <2> QED BY <1>1, <2>1, <2>2, <2>3, <2>4, TargetsAre
<1>2. ASSUME NEW t \in ViewProjectTargets(p) PROVE AsksOf(p, t)
  <2>1. CASE \E action \in {"view", "manage", "users"} : t \in ProjectTargets(p, action, "any")
    BY <1>0, <2>1, ProjectAsks
  <2>2. CASE t \in SourceReadTargets(p, "*")
    BY <1>0, <1>1, <2>2
  <2> QED BY <1>2, <2>1, <2>2, TargetsAre
<1>3. ASSUME NEW t \in SourceWriteTargets(p, s) \cup SourceConfigTargets(p, s) PROVE AsksOf(p, t) /\ t.access = "write"
  <2>1. CASE t \in ProjectSourceTargets(p, s, "write")
    BY <1>0, <2>1, ProjectSourceAsks
  <2>2. CASE \E action \in {"query", "manage", "table.edit"} : t \in SourceTargets(p, s, action, "write")
    BY <1>0, <2>2, SourceAsks
  <2>3. CASE t \in ProjectTargets(p, "manage", "write")
    BY <1>0, <2>3, ProjectAsks
  <2> QED BY <1>3, <2>1, <2>2, <2>3, TargetsAre
<1> QED BY <1>0, <1>1, <1>2, <1>3

\* What getProjectUserAccess looks for.
WritesOf(p) ==
  (UNION {ProjectTargets(p, action, "write") : action \in {"manage", "users"}})
    \cup (ProjectSourceTargets(p, "*", "write"))
    \cup (UNION {SourceTargets(p, "*", action, "write") : action \in {"query", "manage", "table.edit"}})
ReadsOf(p) ==
  ProjectTargets(p, "view", "read") \cup ProjectSourceTargets(p, "*", "read")
    \cup (UNION {SourceTargets(p, "*", action, "read") : action \in {"view", "query"}})

LEMMA AccessOfIs ==
  ASSUME NEW perms, NEW p
  PROVE  AccessOf(perms, p) =
           IF HasAny(perms, WritesOf(p)) THEN "write" ELSE IF HasAny(perms, ReadsOf(p)) THEN "read" ELSE "none"
BY DEF AccessOf, WritesOf, ReadsOf

LEMMA AskedAre ==
  ASSUME NEW p, NEW t
  PROVE  /\ t \in WritesOf(p) <=>
              \/ \E action \in {"manage", "users"} : t \in ProjectTargets(p, action, "write")
              \/ t \in ProjectSourceTargets(p, "*", "write")
              \/ \E action \in {"query", "manage", "table.edit"} : t \in SourceTargets(p, "*", action, "write")
         /\ t \in ReadsOf(p) <=>
              \/ t \in ProjectTargets(p, "view", "read")
              \/ t \in ProjectSourceTargets(p, "*", "read")
              \/ \E action \in {"view", "query"} : t \in SourceTargets(p, "*", action, "read")
<1>a. t \in UNION {ProjectTargets(p, action, "write") : action \in {"manage", "users"}} <=>
        \E action \in {"manage", "users"} : t \in ProjectTargets(p, action, "write")
  OBVIOUS
<1>b. t \in UNION {SourceTargets(p, "*", action, "write") : action \in {"query", "manage", "table.edit"}} <=>
        \E action \in {"query", "manage", "table.edit"} : t \in SourceTargets(p, "*", action, "write")
  OBVIOUS
<1>c. t \in UNION {SourceTargets(p, "*", action, "read") : action \in {"view", "query"}} <=>
        \E action \in {"view", "query"} : t \in SourceTargets(p, "*", action, "read")
  OBVIOUS
<1>1. t \in WritesOf(p) <=>
        \/ t \in UNION {ProjectTargets(p, action, "write") : action \in {"manage", "users"}}
        \/ t \in ProjectSourceTargets(p, "*", "write")
        \/ t \in UNION {SourceTargets(p, "*", action, "write") : action \in {"query", "manage", "table.edit"}}
  <2> DEFINE A0 == UNION {ProjectTargets(p, action, "write") : action \in {"manage", "users"}}
             A1 == ProjectSourceTargets(p, "*", "write")
             A2 == UNION {SourceTargets(p, "*", action, "write") : action \in {"query", "manage", "table.edit"}}
  <2>1. WritesOf(p) = A0 \cup A1 \cup A2
    BY Zenon DEF WritesOf
  <2> HIDE DEF A0, A1, A2
  <2>2. t \in WritesOf(p) <=> (t \in A0 \/ t \in A1 \/ t \in A2)
    BY <2>1
  <2> QED BY <2>2 DEF A0, A1, A2
<1>2. t \in ReadsOf(p) <=>
        \/ t \in ProjectTargets(p, "view", "read")
        \/ t \in ProjectSourceTargets(p, "*", "read")
        \/ t \in UNION {SourceTargets(p, "*", action, "read") : action \in {"view", "query"}}
  <2> DEFINE A0 == ProjectTargets(p, "view", "read")
             A1 == ProjectSourceTargets(p, "*", "read")
             A2 == UNION {SourceTargets(p, "*", action, "read") : action \in {"view", "query"}}
  <2>1. ReadsOf(p) = A0 \cup A1 \cup A2
    BY Zenon DEF ReadsOf
  <2> HIDE DEF A0, A1, A2
  <2>2. t \in ReadsOf(p) <=> (t \in A0 \/ t \in A1 \/ t \in A2)
    BY <2>1
  <2> QED BY <2>2 DEF A0, A1, A2
<1>3. t \in WritesOf(p) <=>
        \/ \E action \in {"manage", "users"} : t \in ProjectTargets(p, action, "write")
        \/ t \in ProjectSourceTargets(p, "*", "write")
        \/ \E action \in {"query", "manage", "table.edit"} : t \in SourceTargets(p, "*", action, "write")
  BY ONLY <1>1, <1>a, <1>b, Zenon
<1>4. t \in ReadsOf(p) <=>
        \/ t \in ProjectTargets(p, "view", "read")
        \/ t \in ProjectSourceTargets(p, "*", "read")
        \/ \E action \in {"view", "query"} : t \in SourceTargets(p, "*", action, "read")
  BY ONLY <1>2, <1>c, Zenon
<1> QED BY ONLY <1>3, <1>4, Zenon

LEMMA AccessAsks ==
  ASSUME NEW p \in Projects
  PROVE  /\ \A t \in WritesOf(p) : AsksOf(p, t) /\ t.access = "write"
         /\ \A t \in ReadsOf(p) : AsksOf(p, t)
<1>0. /\ "view" \in AccessNames /\ "manage" \in AccessNames /\ "users" \in AccessNames
      /\ "query" \in AccessNames /\ "table.edit" \in AccessNames /\ "*" \in AccessNames
  BY DEF AccessNames
<1>1. ASSUME NEW t \in WritesOf(p) PROVE AsksOf(p, t) /\ t.access = "write"
  <2>1. CASE \E action \in {"manage", "users"} : t \in ProjectTargets(p, action, "write")
    BY <1>0, <2>1, ProjectAsks
  <2>2. CASE t \in ProjectSourceTargets(p, "*", "write")
    BY <1>0, <2>2, ProjectSourceAsks
  <2>3. CASE \E action \in {"query", "manage", "table.edit"} : t \in SourceTargets(p, "*", action, "write")
    BY <1>0, <2>3, SourceAsks
  <2> QED BY <1>1, <2>1, <2>2, <2>3, AskedAre
<1>2. ASSUME NEW t \in ReadsOf(p) PROVE AsksOf(p, t)
  <2>1. CASE t \in ProjectTargets(p, "view", "read")
    BY <1>0, <2>1, ProjectAsks
  <2>2. CASE t \in ProjectSourceTargets(p, "*", "read")
    BY <1>0, <2>2, ProjectSourceAsks
  <2>3. CASE \E action \in {"view", "query"} : t \in SourceTargets(p, "*", action, "read")
    BY <1>0, <2>3, SourceAsks
  <2> QED BY <1>2, <2>1, <2>2, <2>3, AskedAre
<1> QED BY <1>1, <1>2

\* Of what a manager may set for a workspace, the user has what was set.
Has(perms, p, level) == {g \in perms : g.path \in ManagedBases(p)} = AccessPermissions(p, level)

\* Only what was set for the workspace answers what is asked of it.
LEMMA OnlyItsOwn ==
  ASSUME NEW p \in Projects, NEW perms, NEW level, Has(perms, p, level),
         NEW g \in perms, \E q \in Projects : g.path \in ManagedBases(q),
         NEW t, AsksOf(p, t), PatternMatches(g, t)
  PROVE  g \in AccessPermissions(p, level)
<1>1. PICK q \in Projects : g.path \in ManagedBases(q)
  OBVIOUS
<1>2. /\ g.path \in Seq(AccessNames) /\ Len(g.path) >= 3 /\ g.path[3] = q
      /\ g.path[1] # "*" /\ g.path[2] # "*" /\ q # "*"
  BY <1>1, ManagedForm, AccessAssumption
<1>3. PathMatches(g.path, t.path) /\ t.path \in Seq(AccessNames)
  BY DEF PatternMatches, AsksOf
<1>4. Len(t.path) >= 3 /\ t.path[3] = q
  BY <1>2, <1>3, MatchesThird
<1>5. q = p
  BY <1>2, <1>4 DEF AsksOf
<1> QED BY <1>1, <1>5 DEF Has

LEMMA PermissionsAre ==
  ASSUME NEW p, NEW level \in Levels, NEW g \in AccessPermissions(p, level)
  PROVE  level # "none" /\ (level = "read" => g.access = "read") /\ g.access \in Accesses /\ g.path \in ManagedBases(p)
<1>1. level # "none" /\ g \in ReadGrants(p) \cup WriteGrants(p) /\ (level # "write" => g \in ReadGrants(p))
  BY DEF AccessPermissions, Levels
<1>2. g \in ReadGrants(p) => g.access = "read"
  BY DEF ReadGrants, Perm
<1>3. g \in WriteGrants(p) => g.access = "write"
  BY DEF WriteGrants, Perm
<1> QED BY <1>1, <1>2, <1>3 DEF Accesses, ManagedBases

LEMMA GrantsDecide ==
  ASSUME NEW p \in Projects, NEW perms, NEW level \in Levels, Has(perms, p, level),
         \A g \in perms : \E q \in Projects : g.path \in ManagedBases(q),
         NEW targets, \A t \in targets : AsksOf(p, t)
  PROVE  /\ level = "none" => ~HasAny(perms, targets)
         /\ (level # "write" /\ \A t \in targets : t.access = "write") => ~HasAny(perms, targets)
<1> SUFFICES ASSUME HasAny(perms, targets),
                    level = "none" \/ (level # "write" /\ \A t \in targets : t.access = "write")
             PROVE  FALSE
  OBVIOUS
<1>1. PICK g \in perms, t \in targets : PatternMatches(g, t)
  BY DEF HasAny
<1>2. g \in AccessPermissions(p, level)
  BY <1>1, OnlyItsOwn
<1>3. level # "none" /\ (level = "read" => g.access = "read")
  BY <1>2, PermissionsAre
<1>4. t.access = "write" => g.access \in {"any", "write"}
  BY <1>1 DEF PatternMatches
<1> QED BY <1>3, <1>4 DEF Levels

\* A permission is found where it is asked for itself.
LEMMA AskedItself ==
  ASSUME NEW p \in Projects, NEW perms, NEW level, Has(perms, p, level), NEW g \in AccessPermissions(p, level),
         g.path \in ManagedBases(p), NEW targets, NEW t \in targets, t.path = g.path, t.access \in {"any", g.access}
  PROVE  HasAny(perms, targets)
<1>1. g \in perms
  BY DEF Has
<1>2. PathMatches(g.path, t.path)
  BY ManagedForm, MatchesItself
<1> QED BY <1>1, <1>2 DEF HasAny, PatternMatches

LEMMA PathIs ==
  ASSUME NEW a, NEW b, NEW c, NEW d
  PROVE  <<a, b>> \o <<c, d>> = <<a, b, c, d>>
<1> DEFINE T == {a, b, c, d}
<1>0. a \in T /\ b \in T /\ c \in T /\ d \in T
  OBVIOUS
<1> HIDE DEF T
<1> DEFINE x == <<a, b>>  y == <<c, d>>  z == x \o y  w == <<a, b, c, d>>
<1>1. x \in Seq(T) /\ y \in Seq(T) /\ Len(x) = 2 /\ Len(y) = 2
  BY <1>0
<1> HIDE DEF x, y
<1>2. /\ z \in Seq(T) /\ Len(z) = Len(x) + Len(y)
      /\ \A i \in 1..Len(x) + Len(y) : z[i] = IF i <= Len(x) THEN x[i] ELSE y[i - Len(x)]
  BY <1>1, ConcatProperties, Zenon
<1> HIDE DEF z
<1>3. z \in Seq(T) /\ Len(z) = 4 /\ z[1] = a /\ z[2] = b /\ z[3] = c /\ z[4] = d
  BY <1>1, <1>2 DEF x, y
<1>4. w \in Seq(T) /\ Len(w) = 4 /\ w[1] = a /\ w[2] = b /\ w[3] = c /\ w[4] = d
  BY <1>0
<1> HIDE DEF w
<1>5. z = w
  <2>1. \A i \in 1..4 : i = 1 \/ i = 2 \/ i = 3 \/ i = 4
    OBVIOUS
  <2>2. \A i \in 1..Len(z) : z[i] = w[i]
    BY <1>3, <1>4, <2>1
  <2> QED BY <1>3, <1>4, <2>2, SeqEqual
<1> QED BY <1>5 DEF x, y, z, w

LEMMA ReadersRead ==
  ASSUME NEW p \in Projects, NEW perms, NEW level \in Levels \ {"none"}, Has(perms, p, level), NEW s
  PROVE  HasAny(perms, ReadsOf(p)) /\ HasAny(perms, ViewProjectTargets(p)) /\ HasAny(perms, SourceReadTargets(p, s))
<1> DEFINE v == Perm(<<"project", "view", p>>, "read")
           d == Perm(<<"datasource", "view", p, "*">>, "read")
<1>1. v \in ReadGrants(p) /\ d \in ReadGrants(p)
  BY DEF ReadGrants
<1>2. v \in AccessPermissions(p, level) /\ d \in AccessPermissions(p, level)
  BY <1>1 DEF AccessPermissions
<1>3. v.path \in ManagedBases(p) /\ d.path \in ManagedBases(p)
  BY <1>1 DEF ManagedBases
<1>4. HasAny(perms, ReadsOf(p))
  <2>1. v \in ReadsOf(p)
    BY AskedAre DEF ProjectTargets
  <2> HIDE DEF v
  <2> QED BY <1>2, <1>3, <2>1, AskedItself
<1>5. HasAny(perms, ViewProjectTargets(p))
  <2> DEFINE t == Perm(<<"project", "view", p>>, "any")
  <2>1. t \in ProjectTargets(p, "view", "any")
    BY DEF ProjectTargets
  <2>2. t.path = v.path /\ t.access = "any"
    BY DEF Perm
  <2> HIDE DEF t, v
  <2>3. t \in ViewProjectTargets(p)
    BY <2>1, TargetsAre
  <2> QED BY <1>2, <1>3, <2>2, <2>3, AskedItself
<1>6. HasAny(perms, SourceReadTargets(p, s))
  <2>1. <<"datasource", "view">> \o <<p, "*">> = <<"datasource", "view", p, "*">>
    <3> DEFINE one == "datasource"  two == "view"  four == "*"
    <3> HIDE DEF one, two, four
    <3>2. <<one, two>> \o <<p, four>> = <<one, two, p, four>>
      BY ONLY PathIs, Zenon
    <3> QED BY <3>2 DEF one, two, four
  <2>2. d \in SourceTargets(p, s, "view", "read")
    BY <2>1, Zenon DEF SourceTargets
  <2> HIDE DEF d
  <2>3. d \in SourceReadTargets(p, s)
    BY <2>2, TargetsAre
  <2> QED BY <1>2, <1>3, <2>3, AskedItself
<1> QED BY <1>4, <1>5, <1>6

LEMMA WritersWrite ==
  ASSUME NEW p \in Projects, NEW perms, Has(perms, p, "write"), NEW s
  PROVE  HasAny(perms, WritesOf(p)) /\ HasAny(perms, SourceWriteTargets(p, s)) /\ HasAny(perms, SourceConfigTargets(p, s))
<1> DEFINE m == Perm(<<"project", "manage", p>>, "write")
           level == "write"
<1>1. m \in WriteGrants(p)
  BY DEF WriteGrants
<1>2. m \in AccessPermissions(p, level)
  BY <1>1 DEF AccessPermissions
<1>3. m.path \in ManagedBases(p)
  BY <1>1 DEF ManagedBases
<1>4. m \in ProjectTargets(p, "manage", "write")
  BY DEF ProjectTargets
<1>5. m \in WritesOf(p) /\ m \in SourceWriteTargets(p, s) /\ m \in SourceConfigTargets(p, s)
  BY <1>4, AskedAre, TargetsAre
<1>6. Has(perms, p, level)
  OBVIOUS
<1> HIDE DEF m, level
<1> QED BY <1>2, <1>3, <1>5, <1>6, AskedItself

\* What a manager may set for a workspace is for no other one.
LEMMA BasesDisjoint ==
  ASSUME NEW p \in Projects, NEW q \in Projects, NEW path \in ManagedBases(p), path \in ManagedBases(q)
  PROVE  p = q
BY ManagedForm

LEMMA ApplyHas ==
  ASSUME NEW p \in Projects, NEW level \in Levels, NEW perms
  PROVE  /\ Has(ApplyAccess(perms, p, level), p, level)
         /\ \A q \in Projects : \A l : q # p /\ Has(perms, q, l) => Has(ApplyAccess(perms, p, level), q, l)
<1> DEFINE given == AccessPermissions(p, level)
           after == ApplyAccess(perms, p, level)
<1>1. after = {g \in perms : g.path \notin ManagedBases(p)} \cup given
  BY DEF ApplyAccess
<1>2. \A g \in given : g.path \in ManagedBases(p)
  BY PermissionsAre
<1> HIDE DEF given, after
<1>3. {g \in after : g.path \in ManagedBases(p)} = given
  BY <1>1, <1>2
<1>4. ASSUME NEW q \in Projects, q # p
      PROVE  {g \in after : g.path \in ManagedBases(q)} = {g \in perms : g.path \in ManagedBases(q)}
  <2>1. \A path : ~(path \in ManagedBases(p) /\ path \in ManagedBases(q))
    BY <1>4, BasesDisjoint
  <2> QED BY <1>1, <1>2, <2>1
<1> QED BY <1>3, <1>4 DEF Has, given, after

-----------------------------------------------------------------------------
(* The inductive invariant.  A permission is one that a manager may set or *)
(* one that names no workspace.  With SQLite a PUT writes what it read.  A *)
(* dialog that no answer of another workspace reached waits for its users  *)
(* or shows what the user may do.                                          *)

Manageable(g) ==
  /\ g.access \in Accesses
  /\ (\E q \in Projects : g.path \in ManagedBases(q)) \/ (\A i \in DOMAIN g.path : g.path[i] \notin Projects)
AllManageable(perms) == \A g \in perms : Manageable(g)

IsList(seq) == \E T : seq \in Seq(T)

CallsOK ==
  /\ IsList(calls)
  /\ \A i \in DOMAIN calls :
       /\ calls[i].kind \in {"members", "put", "bootstrap", "saveUser"}
       /\ calls[i].kind \in {"members", "put"} => calls[i].project \in Projects
       /\ calls[i].level \in Levels
       /\ AllManageable(calls[i].perms)
PutsOK ==
  /\ IsList(puts)
  /\ \A i \in DOMAIN puts :
       puts[i].project \in Projects /\ puts[i].level \in Levels /\ AllManageable(puts[i].read)
  /\ driver = "sqlite" => Len(puts) <= 1 /\ \A i \in DOMAIN puts : puts[i].read = direct
UserOK ==
  /\ driver \in {"sqlite", "mysql"}
  /\ AllManageable(direct)
  /\ admin = [loaded |-> admin.loaded, form |-> admin.form]
  /\ admin.loaded = Unloaded \/ AllManageable(admin.loaded)
  /\ admin.form = Unloaded \/ AllManageable(admin.form)
  /\ accessSteps \in 0..MaxAccessSteps
GrantedOK ==
  /\ granted \in [Projects -> Levels \cup {"unset"}]
  /\ driver = "sqlite" => \A p \in Projects : granted[p] # "unset" => Has(direct, p, granted[p])
DialogOK ==
  /\ dlg \in [visible : BOOLEAN, project : Projects \cup {"none"}, shown : Levels \cup {"unknown"}, saving : BOOLEAN]
  /\ crossed \in BOOLEAN
  /\ dlg.visible => dlg.project \in Projects
  /\ dlg.visible /\ ~crossed =>
       \/ \E i \in DOMAIN calls : calls[i].kind = "members" /\ calls[i].project = dlg.project
       \/ /\ dlg.shown # "unknown"
          /\ granted[dlg.project] # "unset" => dlg.shown = AccessOf(Effective, dlg.project)
AccessInv == CallsOK /\ PutsOK /\ UserOK /\ GrantedOK /\ DialogOK

LEMMA AccessOfLevel == \A perms, p : AccessOf(perms, p) \in Levels
BY AccessOfIs DEF Levels

LEMMA AccessInitInv == AccessInit => AccessInv
<1> SUFFICES ASSUME AccessInit PROVE AccessInv
  OBVIOUS
<1> USE DEF AccessInit
<1>1. IsList(<< >>)
  BY PathsAre DEF IsList
<1>2. CallsOK
  BY <1>1 DEF CallsOK
<1>3. PutsOK
  BY <1>1 DEF PutsOK
<1>4. UserOK
  BY AccessAssumption DEF UserOK, AllManageable
<1>5. GrantedOK
  BY DEF GrantedOK
<1>6. DialogOK
  BY DEF DialogOK
<1> QED BY <1>2, <1>3, <1>4, <1>5, <1>6 DEF AccessInv

\* A call added at the end, and a list without one of its elements.
LEMMA ListAppend ==
  ASSUME NEW seq, IsList(seq), NEW e
  PROVE  /\ IsList(Append(seq, e)) /\ Len(seq) \in Nat /\ DOMAIN seq = 1..Len(seq)
         /\ Len(Append(seq, e)) = Len(seq) + 1 /\ DOMAIN Append(seq, e) = 1..Len(seq) + 1
         /\ \A i \in 1..Len(seq) : Append(seq, e)[i] = seq[i]
         /\ Append(seq, e)[Len(seq) + 1] = e
<1>1. PICK T : seq \in Seq(T)
  BY DEF IsList
<1> DEFINE U == T \cup {e}  z == Append(seq, e)
<1>2. seq \in Seq(U) /\ e \in U
  <2>1. T \subseteq U
    OBVIOUS
  <2> HIDE DEF U
  <2>2. seq \in Seq(U)
    BY <1>1, <2>1
  <2> QED BY <2>2 DEF U
<1> HIDE DEF U
<1>3. /\ z \in Seq(U) /\ Len(seq) \in Nat /\ DOMAIN seq = 1..Len(seq)
      /\ Len(z) = Len(seq) + 1 /\ DOMAIN z = 1..Len(seq) + 1
      /\ \A i \in 1..Len(seq) : z[i] = seq[i]
      /\ z[Len(seq) + 1] = e
  BY <1>2
<1> QED BY <1>3 DEF IsList

Dropped(seq, i) == [j \in 1..(Len(seq) - 1) |-> IF j < i THEN seq[j] ELSE seq[j + 1]]
LEMMA ListDrop ==
  ASSUME NEW seq, IsList(seq), NEW i \in DOMAIN seq
  PROVE  /\ IsList(Dropped(seq, i)) /\ Len(seq) \in Nat /\ Len(Dropped(seq, i)) = Len(seq) - 1
         /\ DOMAIN Dropped(seq, i) = 1..Len(seq) - 1
         /\ \A j \in DOMAIN Dropped(seq, i) : \E k \in DOMAIN seq : Dropped(seq, i)[j] = seq[k]
         /\ \A k \in DOMAIN seq : k # i => \E j \in DOMAIN Dropped(seq, i) : Dropped(seq, i)[j] = seq[k]
<1>1. PICK T : seq \in Seq(T)
  BY DEF IsList
<1> DEFINE z == Dropped(seq, i)
<1>2. Len(seq) \in Nat /\ Len(seq) >= 1 /\ DOMAIN seq = 1..Len(seq) /\ i \in 1..Len(seq) /\ \A k \in 1..Len(seq) : seq[k] \in T
  BY <1>1
<1>3. DOMAIN z = 1..Len(seq) - 1 /\ \A j \in 1..Len(seq) - 1 : z[j] = IF j < i THEN seq[j] ELSE seq[j + 1]
  BY DEF Dropped
<1>4. z \in Seq(T) /\ Len(z) = Len(seq) - 1
  <2>1. \A j \in 1..Len(seq) - 1 : z[j] \in T
    BY <1>2, <1>3
  <2>2. z \in [1..Len(seq) - 1 -> T]
    <3>1. z = [j \in 1..Len(seq) - 1 |-> z[j]]
      BY DEF Dropped
    <3> HIDE DEF z
    <3> QED BY <2>1, <3>1
  <2> DEFINE n == Len(seq) - 1
  <2>3. n \in Nat /\ z \in [1..n -> T]
    BY <1>2, <2>2
  <2> HIDE DEF z, n
  <2>4. z \in Seq(T) /\ Len(z) = n
    BY <2>3
  <2> QED BY <2>4 DEF n
<1> HIDE DEF z
<1>5. ASSUME NEW j \in DOMAIN z PROVE \E k \in DOMAIN seq : z[j] = seq[k]
  <2>1. j \in DOMAIN seq /\ j + 1 \in DOMAIN seq
    BY <1>2, <1>3
  <2> QED BY <1>3, <2>1
<1>6. ASSUME NEW k \in DOMAIN seq, k # i PROVE \E j \in DOMAIN z : z[j] = seq[k]
  <2>1. CASE k < i
    <3>1. k \in DOMAIN z /\ z[k] = seq[k]
      BY <1>2, <1>3, <2>1
    <3> QED BY <3>1
  <2>2. CASE k > i
    <3>1. k - 1 \in DOMAIN z /\ z[k - 1] = seq[k]
      BY <1>2, <1>3, <2>2
    <3> QED BY <3>1
  <2> QED BY <1>2, <1>6, <2>1, <2>2
<1>7. IsList(z)
  BY <1>4 DEF IsList
<1> QED BY <1>2, <1>3, <1>4, <1>5, <1>6, <1>7 DEF z

\* A call that is sent after the others.
LEMMA SendInv ==
  ASSUME CallsOK, NEW c, Send(c), c.kind \in {"members", "put", "bootstrap", "saveUser"},
         c.kind \in {"members", "put"} => c.project \in Projects, c.level \in Levels, AllManageable(c.perms)
  PROVE  /\ CallsOK'
         /\ \A i \in DOMAIN calls : i \in DOMAIN calls' /\ calls'[i] = calls[i]
         /\ \E i \in DOMAIN calls' : calls'[i] = c
<1>1. /\ IsList(calls') /\ Len(calls) \in Nat /\ DOMAIN calls = 1..Len(calls)
      /\ DOMAIN calls' = 1..Len(calls) + 1
      /\ \A i \in 1..Len(calls) : calls'[i] = calls[i]
      /\ calls'[Len(calls) + 1] = c
  BY ListAppend DEF CallsOK, Send
<1>2. \A i \in DOMAIN calls : i \in DOMAIN calls' /\ calls'[i] = calls[i]
  BY <1>1
<1>3. \E i \in DOMAIN calls' : calls'[i] = c
  BY <1>1
<1>4. \A i \in DOMAIN calls' : i \in DOMAIN calls \/ calls'[i] = c
  BY <1>1
<1>5. CallsOK'
  BY <1>1, <1>2, <1>4 DEF CallsOK, AllManageable, Manageable
<1> QED BY <1>2, <1>3, <1>5

\* A call that is answered.
LEMMA AnsweredCall ==
  ASSUME CallsOK, NEW i \in DOMAIN calls, calls' = Without(i)
  PROVE  /\ CallsOK'
         /\ \A k \in DOMAIN calls : k # i => \E j \in DOMAIN calls' : calls'[j] = calls[k]
<1>1. /\ IsList(calls')
      /\ \A j \in DOMAIN calls' : \E k \in DOMAIN calls : calls'[j] = calls[k]
      /\ \A k \in DOMAIN calls : k # i => \E j \in DOMAIN calls' : calls'[j] = calls[k]
  BY ListDrop DEF CallsOK, Without, Dropped
<1>2. CallsOK'
  BY <1>1 DEF CallsOK, AllManageable, Manageable
<1> QED BY <1>1, <1>2

LEMMA OpenMembersInv == ASSUME AccessInv, NEW p \in Projects, OpenMembers(p) PROVE AccessInv'
<1> USE DEF AccessInv
<1>1. PICK c : c = Call("members", p, "none", {}) /\ Send(c)
  BY DEF OpenMembers
<1>2. c.kind = "members" /\ c.project = p /\ c.level = "none" /\ c.perms = {}
  BY <1>1 DEF Call
<1>3. CallsOK' /\ \E i \in DOMAIN calls' : calls'[i] = c
  BY <1>1, <1>2, SendInv DEF AllManageable, Levels
<1>4. PutsOK' /\ UserOK' /\ GrantedOK'
  BY AccessAssumption DEF OpenMembers, Begin, PutsOK, UserOK, GrantedOK, AllManageable, Manageable, Has
<1>5. DialogOK'
  BY <1>2, <1>3 DEF OpenMembers, DialogOK, Effective
<1> QED BY <1>3, <1>4, <1>5

LEMMA CloseMembersInv == ASSUME AccessInv, CloseMembers PROVE AccessInv'
<1> USE DEF AccessInv, CloseMembers
<1>1. CallsOK' /\ PutsOK' /\ UserOK' /\ GrantedOK'
  BY DEF CallsOK, PutsOK, UserOK, GrantedOK, AllManageable, Manageable, Has
<1>2. DialogOK'
  BY DEF DialogOK, Effective
<1> QED BY <1>1, <1>2

\* Calls that the dialog does not wait for leave it as it is.
LEMMA DialogStays ==
  ASSUME DialogOK, UNCHANGED <<direct, granted, crossed>>,
         dlg' = dlg \/ dlg' = [dlg EXCEPT !.saving = TRUE],
         \A k \in DOMAIN calls : calls[k].kind = "members" => \E j \in DOMAIN calls' : calls'[j] = calls[k]
  PROVE  DialogOK'
<1>1. /\ dlg' \in [visible : BOOLEAN, project : Projects \cup {"none"}, shown : Levels \cup {"unknown"}, saving : BOOLEAN]
      /\ dlg'.visible = dlg.visible /\ dlg'.project = dlg.project /\ dlg'.shown = dlg.shown
  BY DEF DialogOK
<1>2. (\E i \in DOMAIN calls : calls[i].kind = "members" /\ calls[i].project = dlg.project)
      => \E i \in DOMAIN calls' : calls'[i].kind = "members" /\ calls'[i].project = dlg.project
  OBVIOUS
<1>3. Effective' = Effective
  BY DEF Effective
<1> QED BY <1>1, <1>2, <1>3 DEF DialogOK

LEMMA SetAccessInv == ASSUME AccessInv, NEW level \in Levels, SetAccess(level) PROVE AccessInv'
<1> USE DEF AccessInv
<1>1. PICK c : c = Call("put", dlg.project, level, {}) /\ Send(c)
  BY DEF SetAccess
<1>2. c.kind = "put" /\ c.project = dlg.project /\ c.level = level /\ c.perms = {} /\ dlg.project \in Projects
  BY <1>1 DEF Call, DialogOK, SetAccess
<1>3. CallsOK' /\ \A i \in DOMAIN calls : i \in DOMAIN calls' /\ calls'[i] = calls[i]
  BY <1>1, <1>2, SendInv DEF AllManageable
<1>4. PutsOK' /\ UserOK' /\ GrantedOK'
  BY AccessAssumption DEF SetAccess, Begin, PutsOK, UserOK, GrantedOK, AllManageable, Manageable, Has
<1>5. DialogOK'
  BY <1>3, DialogStays DEF SetAccess
<1> QED BY <1>3, <1>4, <1>5

LEMMA LoadAdminInv == ASSUME AccessInv, LoadAdmin PROVE AccessInv'
<1> USE DEF AccessInv
<1>1. PICK c : c = Call("bootstrap", "none", "none", {}) /\ Send(c)
  BY DEF LoadAdmin
<1>2. c.kind = "bootstrap" /\ c.level = "none" /\ c.perms = {}
  BY <1>1 DEF Call
<1>3. CallsOK' /\ \A i \in DOMAIN calls : i \in DOMAIN calls' /\ calls'[i] = calls[i]
  BY <1>1, <1>2, SendInv DEF AllManageable, Levels
<1>4. PutsOK' /\ UserOK' /\ GrantedOK'
  BY AccessAssumption DEF LoadAdmin, Begin, PutsOK, UserOK, GrantedOK, AllManageable, Manageable, Has
<1>5. DialogOK'
  BY <1>3, DialogStays DEF LoadAdmin
<1> QED BY <1>3, <1>4, <1>5

LEMMA OpenEditUserInv == ASSUME AccessInv, OpenEditUser PROVE AccessInv'
<1> USE DEF AccessInv, OpenEditUser
<1>1. CallsOK' /\ PutsOK' /\ GrantedOK'
  BY DEF CallsOK, PutsOK, GrantedOK, AllManageable, Manageable, Has
<1>2. UserOK'
  BY DEF UserOK, AllManageable, Manageable
<1>3. DialogOK'
  BY DialogStays
<1> QED BY <1>1, <1>2, <1>3

LEMMA EditUserInv ==
  ASSUME AccessInv, NEW pattern, Manageable(pattern), NEW add, EditUser(pattern, add)
  PROVE  AccessInv'
<1> USE DEF AccessInv
<1>1. CallsOK' /\ PutsOK' /\ GrantedOK'
  BY DEF EditUser, CallsOK, PutsOK, GrantedOK, AllManageable, Manageable, Has
<1>2. UserOK'
  <2>1. AllManageable(admin.form)
    BY DEF EditUser, UserOK
  <2>2. AllManageable(admin.form \cup {pattern}) /\ AllManageable(admin.form \ {pattern})
    BY <2>1 DEF AllManageable
  <2>3. admin' = [admin EXCEPT !.form = admin.form \cup {pattern}]
        \/ admin' = [admin EXCEPT !.form = admin.form \ {pattern}]
    BY DEF EditUser
  <2>4. admin'.loaded = admin.loaded /\ (admin'.form = admin.form \/ admin'.form = Unloaded \/ AllManageable(admin'.form))
    BY <2>1, <2>2, <2>3 DEF UserOK
  <2> QED BY <2>4 DEF EditUser, UserOK, AllManageable, Manageable
<1>3. DialogOK'
  BY DialogStays DEF EditUser
<1> QED BY <1>1, <1>2, <1>3

LEMMA SaveUserInv == ASSUME AccessInv, SaveUser PROVE AccessInv'
<1> USE DEF AccessInv
<1>1. PICK c : c = Call("saveUser", "none", "none", admin.form) /\ Send(c)
  BY DEF SaveUser
<1>2. c.kind = "saveUser" /\ c.level = "none" /\ AllManageable(c.perms)
  BY <1>1 DEF Call, SaveUser, UserOK
<1>3. CallsOK' /\ \A i \in DOMAIN calls : i \in DOMAIN calls' /\ calls'[i] = calls[i]
  BY <1>1, <1>2, SendInv DEF Levels
<1>4. PutsOK' /\ UserOK' /\ GrantedOK'
  BY AccessAssumption DEF SaveUser, Begin, PutsOK, UserOK, GrantedOK, AllManageable, Manageable, Has
<1>5. DialogOK'
  BY <1>3, DialogStays DEF SaveUser
<1> QED BY <1>3, <1>4, <1>5

LEMMA AnswerMembersInv == ASSUME AccessInv, NEW i \in DOMAIN calls, AnswerMembers(i) PROVE AccessInv'
<1> USE DEF AccessInv
<1>1. calls[i].project \in Projects
  BY DEF AnswerMembers, CallsOK
<1>2. CallsOK' /\ \A k \in DOMAIN calls : k # i => \E j \in DOMAIN calls' : calls'[j] = calls[k]
  BY AnsweredCall DEF AnswerMembers
<1>3. PutsOK' /\ UserOK' /\ GrantedOK'
  BY DEF AnswerMembers, PutsOK, UserOK, GrantedOK, AllManageable, Manageable, Has
<1>4. DialogOK'
  <2> DEFINE q == calls[i].project
             level == AccessOf(Effective, q)
  <2>1. level \in Levels /\ level # "unknown"
    BY AccessOfLevel DEF Levels
  <2>2. dlg' = [dlg EXCEPT !.shown = level] /\ crossed' = (crossed \/ q # dlg.project)
    BY DEF AnswerMembers, Shows
  <2>3. Effective' = Effective /\ granted' = granted
    BY DEF AnswerMembers, Effective
  <2>4. q = dlg.project => level = AccessOf(Effective, dlg.project)
    OBVIOUS
  <2> HIDE DEF q, level
  <2>5. /\ dlg' \in [visible : BOOLEAN, project : Projects \cup {"none"}, shown : Levels \cup {"unknown"}, saving : BOOLEAN]
        /\ dlg'.visible = dlg.visible /\ dlg'.project = dlg.project /\ dlg'.shown = level
    BY <2>1, <2>2 DEF DialogOK
  <2> QED BY <2>1, <2>2, <2>3, <2>4, <2>5 DEF DialogOK
<1> QED BY <1>2, <1>3, <1>4

LEMMA ReadUserInv == ASSUME AccessInv, NEW i \in DOMAIN calls, ReadUser(i) PROVE AccessInv'
<1> USE DEF AccessInv
<1> DEFINE put == [project |-> calls[i].project, level |-> calls[i].level, read |-> direct]
<1>1. put.project \in Projects /\ put.level \in Levels /\ AllManageable(put.read) /\ put.read = direct
  BY DEF ReadUser, CallsOK, UserOK
<1>2. CallsOK' /\ \A k \in DOMAIN calls : k # i => \E j \in DOMAIN calls' : calls'[j] = calls[k]
  BY AnsweredCall DEF ReadUser
<1>3. UserOK' /\ GrantedOK'
  BY DEF ReadUser, UserOK, GrantedOK, AllManageable, Manageable, Has
<1>4. puts' = Append(puts, put)
  BY DEF ReadUser
<1> HIDE DEF put
<1>5. PutsOK'
  <2>1. /\ IsList(puts') /\ Len(puts) \in Nat /\ Len(puts') = Len(puts) + 1
        /\ DOMAIN puts = 1..Len(puts) /\ DOMAIN puts' = 1..Len(puts) + 1
        /\ \A k \in 1..Len(puts) : puts'[k] = puts[k]
        /\ puts'[Len(puts) + 1] = put
    BY <1>4, ListAppend DEF PutsOK
  <2>2. \A k \in DOMAIN puts' : (k \in DOMAIN puts /\ puts'[k] = puts[k]) \/ puts'[k] = put
    BY <2>1
  <2>3. driver' = driver /\ direct' = direct /\ (driver = "sqlite" => puts = << >>)
    BY DEF ReadUser
  <2>4. \A k \in DOMAIN puts' : puts'[k].project \in Projects /\ puts'[k].level \in Levels /\ AllManageable(puts'[k].read)
    BY <1>1, <2>2 DEF PutsOK
  <2>5. driver = "sqlite" => Len(puts') <= 1 /\ \A k \in DOMAIN puts' : puts'[k].read = direct
    BY <1>1, <2>1, <2>2, <2>3 DEF PutsOK
  <2> QED BY <2>1, <2>3, <2>4, <2>5 DEF PutsOK, AllManageable, Manageable
<1>6. DialogOK'
  <2>1. calls[i].kind # "members"
    BY DEF ReadUser
  <2> QED BY <1>2, <2>1, DialogStays DEF ReadUser
<1> QED BY <1>2, <1>3, <1>5, <1>6

LEMMA AnswerBootstrapInv == ASSUME AccessInv, NEW i \in DOMAIN calls, AnswerBootstrap(i) PROVE AccessInv'
<1> USE DEF AccessInv
<1>1. CallsOK' /\ \A k \in DOMAIN calls : k # i => \E j \in DOMAIN calls' : calls'[j] = calls[k]
  BY AnsweredCall DEF AnswerBootstrap
<1>2. PutsOK' /\ GrantedOK'
  BY DEF AnswerBootstrap, PutsOK, GrantedOK, AllManageable, Manageable, Has
<1>3. UserOK'
  <2>1. admin' = [admin EXCEPT !.loaded = direct]
    BY DEF AnswerBootstrap
  <2>2. admin'.loaded = direct /\ admin'.form = admin.form /\ admin' = [loaded |-> admin'.loaded, form |-> admin'.form]
    BY <2>1 DEF UserOK
  <2> QED BY <2>2 DEF AnswerBootstrap, UserOK, AllManageable, Manageable
<1>4. DialogOK'
  <2>1. calls[i].kind # "members"
    BY DEF AnswerBootstrap
  <2> QED BY <1>1, <2>1, DialogStays DEF AnswerBootstrap
<1> QED BY <1>1, <1>2, <1>3, <1>4

LEMMA AnswerSaveUserInv == ASSUME AccessInv, NEW i \in DOMAIN calls, AnswerSaveUser(i) PROVE AccessInv'
<1> USE DEF AccessInv
<1> DEFINE c == Call("bootstrap", "none", "none", {})
           rest == Without(i)
<1>1. c.kind = "bootstrap" /\ c.level \in Levels /\ AllManageable(c.perms)
  BY DEF Call, Levels, AllManageable
<1>2. /\ IsList(rest)
      /\ \A j \in DOMAIN rest : \E k \in DOMAIN calls : rest[j] = calls[k]
      /\ \A k \in DOMAIN calls : k # i => \E j \in DOMAIN rest : rest[j] = calls[k]
  BY ListDrop DEF CallsOK, Without, Dropped
<1>3. calls' = Append(rest, c)
  BY DEF AnswerSaveUser
<1> HIDE DEF c, rest
<1>4. /\ IsList(calls') /\ Len(rest) \in Nat /\ DOMAIN rest = 1..Len(rest)
      /\ DOMAIN calls' = 1..Len(rest) + 1
      /\ \A k \in 1..Len(rest) : calls'[k] = rest[k]
      /\ calls'[Len(rest) + 1] = c
  BY <1>2, <1>3, ListAppend
<1>5. \A j \in DOMAIN calls' : calls'[j] = c \/ \E k \in DOMAIN rest : calls'[j] = rest[k]
  BY <1>4
<1>6. \A k \in DOMAIN calls : k # i => \E j \in DOMAIN calls' : calls'[j] = calls[k]
  <2>1. \A k \in DOMAIN rest : k \in DOMAIN calls' /\ calls'[k] = rest[k]
    BY <1>4
  <2> QED BY <1>2, <2>1
<1>7. CallsOK'
  <2>1. \A j \in DOMAIN calls' : calls'[j] = c \/ \E k \in DOMAIN calls : calls'[j] = calls[k]
    BY <1>2, <1>5
  <2> QED BY <1>1, <1>4, <2>1 DEF CallsOK, AllManageable, Manageable
<1>8. AllManageable(direct')
  BY DEF AnswerSaveUser, CallsOK
<1>9. UserOK'
  <2>1. admin' = [admin EXCEPT !.form = Unloaded]
    BY DEF AnswerSaveUser
  <2>2. admin'.loaded = admin.loaded /\ admin'.form = Unloaded /\ admin' = [loaded |-> admin'.loaded, form |-> admin'.form]
    BY <2>1 DEF UserOK
  <2> QED BY <1>8, <2>2 DEF AnswerSaveUser, UserOK, AllManageable, Manageable
<1>10. PutsOK'
  <2>1. puts' = puts /\ driver' = driver /\ (driver = "sqlite" => puts = << >>)
    BY DEF AnswerSaveUser
  <2>2. puts = << >> => DOMAIN puts = {}
    OBVIOUS
  <2> QED BY <2>1, <2>2 DEF PutsOK, AllManageable, Manageable
<1>11. granted' = [p \in Projects |-> "unset"]
  BY DEF AnswerSaveUser
<1>12. GrantedOK'
  BY <1>11 DEF GrantedOK
<1>13. DialogOK'
  <2>1. calls[i].kind # "members" /\ dlg' = dlg /\ crossed' = crossed
    BY DEF AnswerSaveUser
  <2>2. (\E k \in DOMAIN calls : calls[k].kind = "members" /\ calls[k].project = dlg.project)
          => \E k \in DOMAIN calls' : calls'[k].kind = "members" /\ calls'[k].project = dlg.project
    BY <1>6, <2>1
  <2> QED BY <1>11, <2>1, <2>2 DEF DialogOK
<1> QED BY <1>7, <1>9, <1>10, <1>12, <1>13

LEMMA WriteAccessInv == ASSUME AccessInv, NEW i \in DOMAIN puts, WriteAccess(i) PROVE AccessInv'
<1> USE DEF AccessInv
<1> DEFINE put == puts[i]  p == put.project  level == put.level
<1>1. p \in Projects /\ level \in Levels /\ AllManageable(put.read) /\ (driver = "sqlite" => put.read = direct)
  BY DEF PutsOK
<1>2. /\ direct' = ApplyAccess(put.read, p, level)
      /\ puts' = Dropped(puts, i)
      /\ granted' = [granted EXCEPT ![p] = level]
      /\ dlg' = [dlg EXCEPT !.saving = FALSE, !.shown = ShownAfter(put, Effective')]
      /\ crossed' = (crossed \/ p # dlg.project)
      /\ UNCHANGED <<driver, calls, admin, accessSteps>>
  BY DEF WriteAccess, Dropped
<1>3. CallsOK'
  BY <1>2 DEF CallsOK, AllManageable, Manageable
<1>4. AllManageable(direct')
  <2>1. \A g \in AccessPermissions(p, level) : Manageable(g)
    BY <1>1, PermissionsAre DEF Manageable
  <2> QED BY <1>1, <1>2, <2>1 DEF ApplyAccess, AllManageable
<1>5. UserOK'
  BY <1>2, <1>4 DEF UserOK, AllManageable, Manageable
<1>6. PutsOK'
  <2>1. /\ IsList(puts') /\ Len(puts) \in Nat /\ Len(puts') = Len(puts) - 1 /\ DOMAIN puts' = 1..Len(puts) - 1
        /\ \A j \in DOMAIN puts' : \E k \in DOMAIN puts : puts'[j] = puts[k]
    BY <1>2, ListDrop DEF PutsOK
  <2>2. driver = "sqlite" => DOMAIN puts' = {} /\ Len(puts') <= 1
    <3>1. driver = "sqlite" => Len(puts) <= 1
      BY DEF PutsOK
    <3> QED BY <2>1, <3>1
  <2>3. \A j \in DOMAIN puts' : puts'[j].project \in Projects /\ puts'[j].level \in Levels /\ AllManageable(puts'[j].read)
    BY <2>1 DEF PutsOK
  <2> QED BY <1>2, <2>1, <2>2, <2>3 DEF PutsOK, AllManageable, Manageable
<1>7. GrantedOK'
  <2>1. granted' \in [Projects -> Levels \cup {"unset"}]
    BY <1>1, <1>2 DEF GrantedOK
  <2>2. ASSUME driver = "sqlite", NEW q \in Projects, granted'[q] # "unset" PROVE Has(direct', q, granted'[q])
    <3>1. direct' = ApplyAccess(direct, p, level)
      BY <1>1, <1>2, <2>2
    <3>2. CASE q = p
      BY <1>1, <1>2, <3>1, <3>2, ApplyHas DEF GrantedOK
    <3>3. CASE q # p
      <4>1. granted'[q] = granted[q]
        BY <1>2, <2>2, <3>3 DEF GrantedOK
      <4>2. Has(direct, q, granted[q])
        BY <2>2, <4>1 DEF GrantedOK
      <4> QED BY <1>1, <2>2, <3>1, <3>3, <4>1, <4>2, ApplyHas
    <3> QED BY <3>2, <3>3
  <2> QED BY <1>2, <2>1, <2>2 DEF GrantedOK, Has
<1>8. DialogOK'
  <2> DEFINE shows == ShownAfter(put, Effective')
  <2>1. shows = IF dlg.shown = "unknown" THEN "unknown" ELSE AccessOf(Effective', p)
    BY DEF ShownAfter
  <2>2. AccessOf(Effective', p) \in Levels /\ AccessOf(Effective', p) # "unknown"
    BY AccessOfLevel DEF Levels
  <2> HIDE DEF shows, put, p, level
  <2>3. /\ dlg' \in [visible : BOOLEAN, project : Projects \cup {"none"}, shown : Levels \cup {"unknown"}, saving : BOOLEAN]
        /\ dlg'.visible = dlg.visible /\ dlg'.project = dlg.project /\ dlg'.shown = shows
    BY <1>2, <2>1, <2>2 DEF DialogOK, shows
  <2>4. ~crossed' => ~crossed /\ p = dlg.project
    BY <1>2
  <2> QED BY <1>2, <2>1, <2>2, <2>3, <2>4 DEF DialogOK
<1> QED BY <1>3, <1>5, <1>6, <1>7, <1>8

LEMMA AccessStepInv ==
  ASSUME \A a \in AdminPatterns : Manageable(a), AccessInv, [AccessNext]_accessVars
  PROVE  AccessInv'
<1>1. ASSUME UNCHANGED accessVars PROVE AccessInv'
  <2> USE <1>1 DEF accessVars, AccessInv
  <2>1. CallsOK' /\ PutsOK' /\ GrantedOK'
    BY DEF CallsOK, PutsOK, GrantedOK, AllManageable, Manageable, Has
  <2>2. UserOK' /\ DialogOK'
    BY DEF UserOK, DialogOK, AllManageable, Manageable, Effective
  <2> QED BY <2>1, <2>2
<1>2. ASSUME NEW p \in Projects, OpenMembers(p) PROVE AccessInv'
  BY <1>2, OpenMembersInv
<1>3. ASSUME NEW level \in Levels, SetAccess(level) PROVE AccessInv'
  BY <1>3, SetAccessInv
<1>4. ASSUME NEW a \in AdminPatterns, NEW add \in BOOLEAN, EditUser(a, add) PROVE AccessInv'
  BY <1>4, EditUserInv
<1>5. ASSUME CloseMembers \/ LoadAdmin \/ OpenEditUser \/ SaveUser PROVE AccessInv'
  BY <1>5, CloseMembersInv, LoadAdminInv, OpenEditUserInv, SaveUserInv
<1>6. ASSUME NEW i \in DOMAIN calls, AnswerMembers(i) \/ ReadUser(i) \/ AnswerBootstrap(i) \/ AnswerSaveUser(i)
      PROVE  AccessInv'
  BY <1>6, AnswerMembersInv, ReadUserInv, AnswerBootstrapInv, AnswerSaveUserInv
<1>7. ASSUME NEW i \in DOMAIN puts, WriteAccess(i) PROVE AccessInv'
  BY <1>7, WriteAccessInv
<1> QED BY <1>1, <1>2, <1>3, <1>4, <1>5, <1>6, <1>7 DEF AccessNext

\* What was set decides what the routes allow.
LEMMA GrantedIsAllowed ==
  ASSUME NEW p \in Projects, NEW perms, NEW level \in Levels, Has(perms, p, level),
         \A g \in perms : \E q \in Projects : g.path \in ManagedBases(q)
  PROVE  /\ AccessOf(perms, p) = level
         /\ HasAny(perms, ViewProjectTargets(p)) <=> level # "none"
         /\ \A s \in Sources :
              /\ HasAny(perms, SourceReadTargets(p, s)) <=> level # "none"
              /\ HasAny(perms, SourceWriteTargets(p, s)) <=> level = "write"
              /\ HasAny(perms, SourceConfigTargets(p, s)) <=> level = "write"
<1>1. level = "none" \/ level = "read" \/ level = "write"
  BY DEF Levels
<1>2. "*" \in AccessNames /\ Sources \subseteq AccessNames
  BY DEF AccessNames
<1>3. ASSUME level = "none", NEW targets, \A t \in targets : AsksOf(p, t) PROVE ~HasAny(perms, targets)
  BY <1>3, GrantsDecide
<1>4. ASSUME level # "write", NEW targets, \A t \in targets : AsksOf(p, t) /\ t.access = "write"
      PROVE  ~HasAny(perms, targets)
  BY <1>4, GrantsDecide
<1>5. /\ level # "write" => ~HasAny(perms, WritesOf(p))
      /\ level = "none" => ~HasAny(perms, ReadsOf(p)) /\ ~HasAny(perms, ViewProjectTargets(p))
  <2>1. /\ \A t \in WritesOf(p) : AsksOf(p, t) /\ t.access = "write"
        /\ \A t \in ReadsOf(p) : AsksOf(p, t)
    BY AccessAsks
  <2>2. \A t \in ViewProjectTargets(p) : AsksOf(p, t)
    BY <1>2, RoutesAsk
  <2> QED BY <1>3, <1>4, <2>1, <2>2
<1>6. /\ level # "none" => HasAny(perms, ReadsOf(p)) /\ HasAny(perms, ViewProjectTargets(p))
      /\ level = "write" => HasAny(perms, WritesOf(p))
  BY ReadersRead, WritersWrite
<1>7. AccessOf(perms, p) = level
  BY <1>1, <1>5, <1>6, AccessOfIs
<1>8. ASSUME NEW s \in Sources
      PROVE  /\ HasAny(perms, SourceReadTargets(p, s)) <=> level # "none"
             /\ HasAny(perms, SourceWriteTargets(p, s)) <=> level = "write"
             /\ HasAny(perms, SourceConfigTargets(p, s)) <=> level = "write"
  <2>1. /\ \A t \in SourceReadTargets(p, s) : AsksOf(p, t)
        /\ \A t \in SourceWriteTargets(p, s) : AsksOf(p, t) /\ t.access = "write"
        /\ \A t \in SourceConfigTargets(p, s) : AsksOf(p, t) /\ t.access = "write"
    BY <1>2, RoutesAsk
  <2>2. /\ level = "none" => ~HasAny(perms, SourceReadTargets(p, s))
        /\ level # "write" => ~HasAny(perms, SourceWriteTargets(p, s)) /\ ~HasAny(perms, SourceConfigTargets(p, s))
    BY <1>3, <1>4, <2>1
  <2>3. level # "none" => HasAny(perms, SourceReadTargets(p, s))
    BY ReadersRead
  <2>4. level = "write" => HasAny(perms, SourceWriteTargets(p, s)) /\ HasAny(perms, SourceConfigTargets(p, s))
    BY WritersWrite
  <2> QED BY <2>2, <2>3, <2>4
<1> QED BY <1>5, <1>6, <1>7, <1>8

\* What two sets of permissions allow together is what either allows.
LEMMA AllowedByEither ==
  \A perms, others, targets :
    HasAny(perms \cup others, targets) <=> HasAny(perms, targets) \/ HasAny(others, targets)
BY DEF HasAny

LEMMA HigherAccess ==
  ASSUME NEW perms, NEW others, NEW p \in Projects
  PROVE  AccessOf(perms \cup others, p) = Higher(AccessOf(perms, p), AccessOf(others, p))
BY AccessOfIs, AllowedByEither DEF Higher

LEMMA InvIsTrue == ASSUME AccessInv PROVE AccessIsTrue
<1> USE DEF AccessInv
<1>1. AccessTypeOK
  <2>1. \A g \in direct : g.access \in {"any", "read", "write"}
    BY DEF UserOK, AllManageable, Manageable, Accesses
  <2> QED BY <2>1 DEF AccessTypeOK, CallsOK, PutsOK, UserOK, GrantedOK, DialogOK
<1>2. AccessIsAsGranted
  <2> SUFFICES ASSUME driver = "sqlite", NamesWorkspaces(direct), NEW p \in Projects, granted[p] # "unset"
               PROVE  /\ AccessOf(Effective, p) = Higher(granted[p], AccessOf(RolePermissions, p))
                      /\ AllowedIff(granted[p] # "none", ViewProjectTargets(p))
                      /\ \A s \in Sources :
                           /\ AllowedIff(granted[p] # "none", SourceReadTargets(p, s))
                           /\ AllowedIff(granted[p] = "write", SourceWriteTargets(p, s))
                           /\ AllowedIff(granted[p] = "write", SourceConfigTargets(p, s))
    BY DEF AccessIsAsGranted
  <2>1. \A g \in direct : \E q \in Projects : g.path \in ManagedBases(q)
    BY DEF NamesWorkspaces, UserOK, AllManageable, Manageable
  <2>2. granted[p] \in Levels /\ Has(direct, p, granted[p])
    BY DEF GrantedOK
  <2>3. /\ AccessOf(direct, p) = granted[p]
        /\ HasAny(direct, ViewProjectTargets(p)) <=> granted[p] # "none"
        /\ \A s \in Sources :
             /\ HasAny(direct, SourceReadTargets(p, s)) <=> granted[p] # "none"
             /\ HasAny(direct, SourceWriteTargets(p, s)) <=> granted[p] = "write"
             /\ HasAny(direct, SourceConfigTargets(p, s)) <=> granted[p] = "write"
    BY <2>1, <2>2, GrantedIsAllowed
  <2>4. AccessOf(Effective, p) = Higher(granted[p], AccessOf(RolePermissions, p))
    BY <2>3, HigherAccess DEF Effective
  <2>5. \A targets : HasAny(Effective, targets) <=> HasAny(direct, targets) \/ HasAny(RolePermissions, targets)
    BY AllowedByEither DEF Effective
  <2> QED BY <2>3, <2>4, <2>5 DEF AllowedIff
<1>3. ShownAccessIsTrue
  <2>1. calls = << >> => DOMAIN calls = {}
    OBVIOUS
  <2> QED BY <2>1 DEF ShownAccessIsTrue, DialogOK
<1> QED BY <1>1, <1>2, <1>3 DEF AccessIsTrue

\* With SQLite, what a workspace's manager sets is what the routes then allow,
\* and the dialog shows it (AccessIsTrue), for any workspaces, sources and
\* answers under way, where an administrator gives what a manager may give or
\* what names no workspace.  (A pattern such as *.p, which names a workspace
\* and which no manager takes away, goes on granting it.)
THEOREM AccessStaysTrue ==
  ASSUME \A a \in AdminPatterns : Manageable(a)
  PROVE  ServerSpec => []AccessIsTrue
<1>1. ServerInit => AccessInv
  BY AccessInitInv DEF ServerInit, AccessRest
<1>2. AccessInv /\ [ServerNext]_serverVars => AccessInv'
  <2>1. [ServerNext]_serverVars => [AccessNext]_accessVars
    BY DEF ServerNext, serverVars
  <2> QED BY <2>1, AccessStepInv
<1>3. AccessInv => AccessIsTrue
  BY InvIsTrue
<1> QED BY <1>1, <1>2, <1>3, PTL DEF ServerSpec

-----------------------------------------------------------------------------
(* The server as a whole.  The parts rest in a first state of theirs while *)
(* a behaviour is about another, so the invariants of all of them hold     *)
(* throughout it.                                                          *)

ServerInv == SignInInv /\ GuessInv /\ SourcesInv /\ StartupInv /\ DesktopInv

LEMMA ServerInitInv == ServerInit => ServerInv
<1>1. ServerInit => SignInInit /\ SourcesInit /\ StartupInit /\ DesktopInit
  BY DEF ServerInit, SignInRest, SourcesRest, SourcesChosen, StartupRest, DesktopRest
<1> QED
  BY <1>1, SignInInitInv, GuessInitInv, SourcesInitInv, StartupInitInv, DesktopInitInv DEF ServerInv

\* Each part takes a step of its own or none.
LEMMA PartsStep ==
  [ServerNext]_serverVars =>
    /\ [SignInNext]_signInVars /\ [SourcesNext]_sourceVars
    /\ [StartupNext]_startupVars /\ [DesktopNext]_desktopVars
BY DEF ServerNext, serverVars

LEMMA ServerStepInv == ServerInv /\ [ServerNext]_serverVars => ServerInv'
BY PartsStep, SignInStepInv, GuessStepInv, SourcesNextInv, StartupNextInv, DesktopStepInv DEF ServerInv

\* Whichever part a behaviour is about: guesses are bounded, people have one
\* account, tabs send their newest token, secrets stay hidden, a start that
\* is over has applied its file, and a URL that was given is served
\* (auth-routes.ts, secrets.ts, server.ts, main.js).
THEOREM ServerStaysSafe ==
  ServerSpec => [](SignInIsSafe /\ SecretsAreSafe /\ StoreIsRestored /\ BackendIsSafe)
<1>1. SignInInv => SignInTypeOK /\ OneAccountPerSubject /\ LastTokenIsSent
  BY SignInAssumption DEF SignInInv, SignInTypeOK, TokensAreIssued, LastTokenIsSent, SentBy, Tokens
<1>2. SignInInv /\ GuessInv => SignInIsSafe
  BY <1>1 DEF GuessInv, SignInIsSafe
<1>3. DesktopInv => BackendIsSafe
  BY DEF DesktopInv, BackendIsSafe
<1>4. ServerInv => SignInIsSafe /\ SecretsAreSafe /\ StoreIsRestored /\ BackendIsSafe
  BY <1>2, <1>3, InvIsSafe, InvIsRestored DEF ServerInv
<1> QED
  BY <1>4, ServerInitInv, ServerStepInv, PTL DEF ServerSpec

\* Whichever part a behaviour is about, no login state begins two exchanges
\* and no secret changes but as a dialog says (ServerKeepsFaith).
THEOREM FaithIsKept == ServerSpec => ServerKeepsFaith
<1>1. ServerInv /\ [ServerNext]_serverVars => StatesAreSpent
  BY PartsStep, SpentStep DEF ServerInv
<1>2. ServerInv /\ [ServerNext]_serverVars => SecretsAreKept
  <2>1. sourceVars' = sourceVars => SecretsAreKept
    BY DEF sourceVars, SecretsAreKept
  <2> QED
    BY <2>1, PartsStep, StepKeeps DEF ServerInv
<1>3. ServerInv /\ [ServerNext]_serverVars => [StatesAreSpent /\ SecretsAreKept]_serverVars
  BY <1>1, <1>2
<1> QED
  BY <1>3, ServerInitInv, ServerStepInv, PTL DEF ServerSpec, ServerKeepsFaith

==============================================================================
