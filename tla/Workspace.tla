----------------------------- MODULE Workspace -----------------------------
(***************************************************************************)
(* The frontend's idea of where it is: which server is selected, which     *)
(* workspace (project) of it, what the sidebar lists and who is signed in. *)
(* workspace-store.ts and auth-store.ts load these with chains of requests *)
(* that other chains overtake, App.vue starts a chain of its own whenever  *)
(* the selected server changes, the browser's storage keeps the selection  *)
(* and the session tokens over a page load, and the servers may be changed *)
(* by somebody else meanwhile.                                             *)
(*                                                                         *)
(* A running async function is a record in calls: todo holds what it has   *)
(* still to do, one entry per await, and its head is under way.  Modelled  *)
(* is the production browser build, where the default hosted server makes  *)
(* sure that there is a server and saving the selection is synchronous.    *)
(***************************************************************************)
EXTENDS Naturals, FiniteSets, Sequences, SequencesExt

CONSTANTS
  Profiles,   \* entries of the server list
  Hosted,     \* the profile of the default hosted server
  HostedUrl,  \* the backend it stands for
  FirstServers, FirstUrl,      \* the server list saved at first
  FirstProjects, FirstSources, \* what the backends hold at first
  Backends,   \* a profile's url names one of them
  Secured,    \* the backends with authentication enabled
  Projects,   \* project ids: numbers in the order a backend lists them in
  Home,       \* project -> its backend; ids are UUIDs, no two backends share one
  Sources,    \* data source ids
  Parent,     \* data source -> its project
  Tokens,     \* session tokens the backends may issue
  Calls,      \* bound: async functions under way at once
  MaxOps,     \* bound: what the user and other clients do
  Features,   \* what the environment may do, see below
  None

(***************************************************************************)
(* overlap  the user acts while a chain of requests is under way           *)
(* failure  a request fails, carried out or not                            *)
(* other    another client deletes a project or ends a session             *)
(* reload   the page is loaded anew                                        *)
(***************************************************************************)
AllFeatures == {"overlap", "failure", "other", "reload"}

ASSUME WorkspaceAssumption ==
  /\ Hosted \in Profiles /\ HostedUrl \in Backends /\ Secured \subseteq Backends
  /\ FirstServers \in Seq(Profiles) /\ IsInjective(FirstServers)
  /\ FirstUrl \in [Profiles -> Backends]
  /\ FirstProjects \subseteq Projects /\ FirstSources \subseteq Sources
  /\ Projects \subseteq Nat /\ Home \in [Projects -> Backends]
  /\ Parent \in [Sources -> Projects]
  /\ Calls \subseteq Nat /\ Calls # {} /\ MaxOps \in Nat
  /\ Features \subseteq AllFeatures
  /\ None \notin Profiles \cup Backends \cup Projects \cup Sources \cup Tokens

VARIABLES
  servers, url, currentServerId,  \* the list, profile -> backend, the selection
  shown,    \* the stores' other refs, see TypeOK
  saved,    \* the selection kept in localStorage
  tokens,   \* the token kept for each backend, or None
  stored,   \* the backends: projects, data sources, sessions
  calls,    \* slot -> the async function under way there, or Over
  ops,      \* how often they have acted
  trouble   \* history: which of the above has happened since the page load

place == <<servers, url, currentServerId>>
vars == <<servers, url, currentServerId, shown, saved, tokens, stored, calls,
          ops, trouble>>

Requests == {"info", "projects", "sources", "status", "syncStatus", "login",
             "logout", "create", "rename", "delete", "addSource",
             "changeSource", "dropSource"}
Steps == Requests \cup {"load", "loaded", "select", "sourcesIfSame", "save"}
Start(todo, arg) ==
  [todo |-> todo, arg |-> arg, at |-> "ready", sent |-> None, answer |-> None]
Over == Start(<<>>, None)
Sent == [to : Backends, token : Tokens \cup {None}, project : Projects \cup {None}]
Selection == [servers : Seq(Profiles), url : [Profiles -> Backends],
              current : Profiles, project : Projects \cup {None}]
ShownType ==
  [serverInfo : Backends \cup {None}, serverError : BOOLEAN,
   projects : SUBSET Projects, currentProjectId : Projects \cup {None},
   dataSources : SUBSET Sources,
   status : [enabled : BOOLEAN, user : Backends \cup {None}]]
StoredType ==
  [projects : SUBSET Projects, unborn : SUBSET Projects,
   sources : SUBSET Sources, unbornSources : SUBSET Sources,
   issuer : [Tokens -> Backends \cup {None}], live : SUBSET Tokens]

\* Type correctness: what each store ref, the browser's storage and the
\* backends hold; a chain that has ended left its slot, one that waits for a
\* request says where it went.
TypeOK ==
  /\ servers \in Seq(Profiles) /\ IsInjective(servers)
  /\ url \in [Profiles -> Backends]
  /\ currentServerId \in ToSet(servers)
  /\ shown \in ShownType /\ saved \in Selection /\ stored \in StoredType
  /\ tokens \in [Backends -> Tokens \cup {None}]
  /\ DOMAIN calls = Calls
  /\ \A c \in {d \in Calls : calls[d] # Over} :
       /\ calls[c].todo \in Seq(Steps) \ {<<>>}
       /\ calls[c].at \in {"ready", "sent", "answered", "orphan"}
       /\ calls[c].at # "ready" => /\ Head(calls[c].todo) \in Requests
                                   /\ calls[c].sent \in Sent
  /\ ops \in 0..MaxOps /\ trouble \subseteq AllFeatures \cup {"readdressed"}

-----------------------------------------------------------------------------
(* The selection.                                                          *)

ServerOf(id, list) == IF id \in ToSet(list) THEN id ELSE list[1]
currentServer == ServerOf(currentServerId, servers)
currentServerUrl == url[currentServer]

First(ps) ==  \* projects.value[0]?.id ?? null
  IF ps = {} THEN None ELSE CHOOSE p \in ps : \A q \in ps : p <= q

persistServers(list, urls, server, project) ==
  saved' = [servers |-> list, url |-> urls, current |-> server, project |-> project]

Blank(project) ==
  [serverInfo |-> None, serverError |-> FALSE, projects |-> {},
   currentProjectId |-> project, dataSources |-> {},
   status |-> [enabled |-> FALSE, user |-> None]]

-----------------------------------------------------------------------------
(* Chains of requests.                                                     *)

Free == {c \in Calls : calls[c] = Over}
Quiet == \A c \in Calls : calls[c] # Over => calls[c].at = "orphan"

syncCurrentServerAuth == Start(<<"syncStatus", "load">>, None)

\* New chains take the lowest free slots; without enough of them they wait.
Lowest(slots) == CHOOSE c \in slots : \A d \in slots : c <= d
Begin(new) ==
  /\ Cardinality(Free) >= Len(new)
  /\ LET one == Lowest(Free)
         two == Lowest(Free \ {one})
     IN  calls' = CASE Len(new) = 0 -> calls
                    [] Len(new) = 1 -> [calls EXCEPT ![one] = new[1]]
                    [] Len(new) = 2 -> [calls EXCEPT ![one] = new[1], ![two] = new[2]]

\* The user acts: at once, or while an earlier chain is still under way.
UserActs(new, extra) ==
  /\ ops < MaxOps /\ ops' = ops + 1
  /\ Quiet \/ "overlap" \in Features
  /\ trouble' = trouble \cup extra \cup (IF Quiet THEN {} ELSE {"overlap"})
  /\ Begin(new)

\* A chain goes on with todo; one with nothing left to do is over.
GoOn(c, todo, arg) ==
  calls' = [calls EXCEPT ![c] = IF todo = <<>> THEN Over ELSE Start(todo, arg)]

-----------------------------------------------------------------------------
(* What the user does.  Each starts a chain; App.vue's watcher starts one  *)
(* more when the selected server has changed.                              *)

Watched(server, chain) ==
  IF server = currentServerId THEN <<chain>> ELSE <<chain, syncCurrentServerAuth>>

Selects(list, urls, server) ==
  /\ servers' = list /\ url' = urls /\ currentServerId' = server
  /\ shown' = [shown EXCEPT !.currentProjectId = None, !.dataSources = {}]
  /\ persistServers(list, urls, server, None)
  /\ UserActs(Watched(server, Start(<<"load">>, None)), {})
  /\ UNCHANGED <<tokens, stored>>

setCurrentServer(s) == s \in ToSet(servers) /\ Selects(servers, url, s)

addServer(s, b) ==
  s \notin ToSet(servers) /\ Selects(Append(servers, s), [url EXCEPT ![s] = b], s)

updateServer(s, b) ==
  /\ s \in ToSet(servers)
  /\ url' = [url EXCEPT ![s] = b]
  /\ persistServers(servers, url', currentServerId, shown.currentProjectId)
  /\ IF s = currentServerId
     THEN UserActs(<<Start(<<"load">>, None)>>,
                   IF b = url[s] THEN {} ELSE {"readdressed"})
     ELSE UserActs(<<>>, {})
  /\ UNCHANGED <<servers, currentServerId, shown, tokens, stored>>

\* The list that servers.filter leaves; each server is in it once.
Without(s) == RemoveAt(servers, CHOOSE i \in DOMAIN servers : servers[i] = s)

removeServer_KeepsSelection(s) ==  \* mutant: the selection may be of no server
  /\ s \in ToSet(servers) /\ Len(servers) > 1
  /\ servers' = Without(s)
  /\ persistServers(servers', url, currentServerId, shown.currentProjectId)
  /\ UserActs(<<Start(<<"load">>, None)>>, {})
  /\ UNCHANGED <<url, currentServerId, shown, tokens, stored>>

removeServer(s) ==
  /\ s \in ToSet(servers) /\ Len(servers) > 1
  /\ servers' = Without(s)
  /\ currentServerId' = ServerOf(currentServerId, servers')
  /\ persistServers(servers', url, currentServerId', shown.currentProjectId)
  /\ UserActs(Watched(currentServerId', Start(<<"load">>, None)), {})
  /\ UNCHANGED <<url, shown, tokens, stored>>

setCurrentProject(p) ==
  /\ p \in shown.projects
  /\ shown' = [shown EXCEPT !.currentProjectId = p]
  /\ persistServers(servers, url, currentServerId, p)
  /\ UserActs(<<Start(<<"sources">>, None)>>, {})
  /\ UNCHANGED <<place, tokens, stored>>

\* The operations whose first await is their own request.
Asks(todo, arg) ==
  UserActs(<<Start(todo, arg)>>, {}) /\ UNCHANGED <<place, shown, saved, tokens, stored>>

createProject == Asks(<<"create", "projects", "select", "sources">>, None)
updateProject(p) ==
  p \in shown.projects /\ Asks(<<"rename", "projects", "sourcesIfSame">>, p)
deleteProject_NoSources(p) ==  \* mutant: the data sources are not asked for again
  p \in shown.projects /\ Asks(<<"delete", "projects", "save">>, p)

deleteProject(p) ==
  p \in shown.projects /\ Asks(<<"delete", "projects", "sources", "save">>, p)
createDataSource ==
  shown.currentProjectId # None /\ Asks(<<"addSource", "sources">>, None)
updateDataSource(x) ==
  /\ x \in shown.dataSources /\ shown.currentProjectId # None
  /\ Asks(<<"changeSource", "sources">>, x)
deleteDataSource(x) ==
  /\ x \in shown.dataSources /\ shown.currentProjectId # None
  /\ Asks(<<"dropSource", "sources">>, x)
login ==
  /\ shown.status.enabled /\ shown.status.user = None
  /\ Asks(<<"login", "status", "load">>, None)
logout == shown.status.user # None /\ Asks(<<"logout", "status", "load">>, None)

\* The page is loaded anew: hydrate restores the selection (ensureDefaultServer
\* completes it) and loads it, then App.vue's onMounted asks for the status and
\* loads once more.  Tokens kept for the session only may be gone; requests
\* that were sent are still carried out.
Restored(sel) ==
  LET list == IF sel.servers = <<>> THEN <<Hosted>> ELSE sel.servers
  IN  [servers |-> list,
       url |-> IF Hosted \in ToSet(list) THEN [sel.url EXCEPT ![Hosted] = HostedUrl]
                                         ELSE sel.url,
       current |-> ServerOf(sel.current, list), project |-> sel.project]

Opened(sent, c) ==
  [d \in Calls |-> IF d = c THEN Start(<<"load", "syncStatus", "load">>, None)
                   ELSE IF d \in sent THEN [calls[d] EXCEPT !.at = "orphan"] ELSE Over]

Reload(kept) ==
  /\ "reload" \in Features /\ ops < MaxOps /\ ops' = ops + 1
  /\ saved' = Restored(saved)
  /\ servers' = saved'.servers /\ url' = saved'.url /\ currentServerId' = saved'.current
  /\ shown' = Blank(saved'.project)
  /\ tokens' = [b \in Backends |-> IF b \in kept THEN tokens[b] ELSE None]
  /\ LET sent == {c \in Calls : calls[c] # Over /\ calls[c].at \in {"sent", "orphan"}}
     IN  Calls \ sent # {} /\ calls' = Opened(sent, Lowest(Calls \ sent))
  /\ trouble' = {}
  /\ UNCHANGED stored

-----------------------------------------------------------------------------
(* The steps of a chain.                                                   *)

\* Code between two awaits that sends nothing.
Proceed(c) ==
  /\ calls[c] # Over /\ calls[c].at = "ready"
  /\ LET step == Head(calls[c].todo)
         rest == Tail(calls[c].todo)
         arg  == calls[c].arg
     IN  \/ /\ step = "load"
            /\ GoOn(c, <<"info", "projects", "sources", "loaded">> \o rest, arg)
            /\ UNCHANGED <<shown, saved>>
         \/ /\ step = "loaded"
            /\ shown' = [shown EXCEPT !.serverError = FALSE]
            /\ GoOn(c, rest, arg) /\ UNCHANGED saved
         \/ /\ step = "select"
            /\ shown' = [shown EXCEPT !.currentProjectId = arg]
            /\ persistServers(servers, url, currentServerId, arg)
            /\ GoOn(c, rest, arg)
         \/ /\ step = "sourcesIfSame"
            /\ GoOn(c, IF shown.currentProjectId = arg THEN <<"sources">> ELSE <<>>, arg)
            /\ UNCHANGED <<shown, saved>>
         \/ /\ step = "save"
            /\ persistServers(servers, url, currentServerId, shown.currentProjectId)
            /\ GoOn(c, rest, arg) /\ UNCHANGED shown
         \/ /\ step = "sources" /\ shown.currentProjectId = None
            /\ shown' = [shown EXCEPT !.dataSources = {}]
            /\ GoOn(c, rest, arg) /\ UNCHANGED saved
  /\ UNCHANGED <<place, tokens, stored, ops, trouble>>

\* A request leaves for the server selected now, with the token kept for it and
\* the project selected now.
Send(c) ==
  /\ calls[c] # Over /\ calls[c].at = "ready"
  /\ Head(calls[c].todo) \in Requests
  /\ Head(calls[c].todo) = "sources" => shown.currentProjectId # None
  /\ calls' = [calls EXCEPT ![c].at = "sent",
                 ![c].sent = [to |-> currentServerUrl, token |-> tokens[currentServerUrl],
                              project |-> shown.currentProjectId]]
  /\ UNCHANGED <<place, shown, saved, tokens, stored, ops, trouble>>

\* What the backend does with a request (ids and tokens it has none left to
\* hand out for: the request stays unanswered, a bound): the outcomes are the answers it may
\* give, each with the backends' state after it.
Authorised(r) ==
  r.to \notin Secured \/ (r.token \in stored.live /\ stored.issuer[r.token] = r.to)
ProjectsAt(b) == {p \in stored.projects : Home[p] = b}
SourcesIn(p) == {x \in stored.sources : Parent[x] = p}
StatusAt(r) ==
  [enabled |-> r.to \in Secured,
   user |-> IF r.to \in Secured /\ Authorised(r) THEN r.to ELSE None]

Is(code, data) == [code |-> code, data |-> data, after |-> stored]
Done(data, after) == [code |-> "ok", data |-> data, after |-> after]
Guarded(r, found, outcomes) ==
  IF ~found THEN {Is("missing", None)}
  ELSE IF ~Authorised(r) THEN {Is("denied", None)} ELSE outcomes

Outcomes(request, r, arg) ==
  LET here == r.project \in ProjectsAt(r.to)
      mine == arg \in ProjectsAt(r.to)
      item == here /\ arg \in SourcesIn(r.project)
  IN CASE request = "info" -> {Is("ok", r.to)}
       [] request \in {"status", "syncStatus"} -> {Is("ok", StatusAt(r))}
       [] request = "projects" -> Guarded(r, TRUE, {Is("ok", ProjectsAt(r.to))})
       [] request = "sources" ->
            IF ~Authorised(r) THEN {Is("denied", None)}
            ELSE IF here THEN {Is("ok", SourcesIn(r.project))} ELSE {Is("missing", None)}
       [] request = "login" ->
            IF r.to \in Secured
            THEN {Done(t, [stored EXCEPT !.issuer[t] = r.to, !.live = @ \cup {t}]) :
                    t \in {u \in Tokens : stored.issuer[u] = None}}
            ELSE {Is("failed", None)}
       [] request = "logout" ->
            {Done(None, [stored EXCEPT !.live = IF Authorised(r) THEN @ \ {r.token} ELSE @])}
       [] request = "create" ->
            Guarded(r, TRUE, {Done(p, [stored EXCEPT !.projects = @ \cup {p},
                                                     !.unborn = @ \ {p}]) :
                                p \in {q \in stored.unborn : Home[q] = r.to}})
       [] request = "rename" -> Guarded(r, mine, {Is("ok", None)})
       [] request = "delete" ->
            Guarded(r, mine, {Done(None, [stored EXCEPT !.projects = @ \ {arg},
                                            !.sources = @ \ SourcesIn(arg)])})
       [] request = "addSource" ->
            Guarded(r, here, {Done(x, [stored EXCEPT !.sources = @ \cup {x},
                                                     !.unbornSources = @ \ {x}]) :
                                x \in {y \in stored.unbornSources : Parent[y] = r.project}})
       [] request = "changeSource" -> Guarded(r, item, {Is("ok", None)})
       [] request = "dropSource" ->
            Guarded(r, item, {Done(None, [stored EXCEPT !.sources = @ \ {arg}])})

\* A request is served; an orphan's answer reaches nobody, and what it does is
\* somebody else's doing for the page that is open now.
Answered(c, code, data) ==
  calls' = [calls EXCEPT ![c] =
              IF calls[c].at = "orphan" THEN Over
              ELSE [@ EXCEPT !.at = "answered", !.answer = [code |-> code, data |-> data]]]

Serve(c) ==
  /\ calls[c] # Over /\ calls[c].at \in {"sent", "orphan"}
  /\ \E o \in Outcomes(Head(calls[c].todo), calls[c].sent, calls[c].arg) :
       /\ stored' = o.after
       /\ Answered(c, o.code, o.data)
       /\ trouble' = IF calls[c].at = "orphan" THEN trouble \cup {"other"} ELSE trouble
  /\ UNCHANGED <<place, shown, saved, tokens, ops>>

\* The request, or its answer, is lost: axios rejects without a response.
Lose(c) ==
  /\ "failure" \in Features
  /\ calls[c] # Over /\ calls[c].at = "sent"
  /\ \/ UNCHANGED stored
     \/ \E o \in Outcomes(Head(calls[c].todo), calls[c].sent, calls[c].arg) :
          stored' = o.after
  /\ Answered(c, "failed", None)
  /\ trouble' = trouble \cup {"failure"}
  /\ UNCHANGED <<place, shown, saved, tokens, ops>>

\* refreshProjects keeps the selected project or takes the first, and saves it.
ProjectsArrive_NoSave(ps) ==  \* mutant: the choice is not saved
  /\ shown' = [shown EXCEPT !.projects = ps,
                 !.currentProjectId = IF @ \in ps THEN @ ELSE First(ps)]
  /\ UNCHANGED saved

ProjectsArrive(ps) ==
  LET kept == shown.currentProjectId \in ps
  IN  /\ shown' = [shown EXCEPT !.projects = ps,
                     !.currentProjectId = IF kept THEN @ ELSE First(ps)]
      /\ IF kept THEN UNCHANGED saved
         ELSE persistServers(servers, url, currentServerId, First(ps))

\* The code after an await whose request has succeeded.
Arrives(c, data) ==
  LET request == Head(calls[c].todo)
      rest == Tail(calls[c].todo)
      arg == calls[c].arg
  IN  /\ CASE request = "info" ->
                /\ shown' = [shown EXCEPT !.serverInfo = data, !.serverError = FALSE]
                /\ UNCHANGED <<saved, tokens>>
           [] request \in {"status", "syncStatus"} ->
                shown' = [shown EXCEPT !.status = data] /\ UNCHANGED <<saved, tokens>>
           [] request = "projects" -> ProjectsArrive(data) /\ UNCHANGED tokens
           [] request = "sources" ->
                shown' = [shown EXCEPT !.dataSources = data] /\ UNCHANGED <<saved, tokens>>
           [] request \in {"login", "logout"} ->
                /\ tokens' = [tokens EXCEPT ![currentServerUrl] = data]
                /\ UNCHANGED <<shown, saved>>
           [] request = "delete" ->
                /\ shown' = [shown EXCEPT !.currentProjectId = IF @ = arg THEN None ELSE @]
                /\ UNCHANGED <<saved, tokens>>
           [] OTHER -> UNCHANGED <<shown, saved, tokens>>
      /\ GoOn(c, rest, IF request = "create" THEN data ELSE arg)

\* The code after an await whose request has failed: loadWorkspaceFromServer
\* catches it, the watcher and logout go on, everything else ends.
AfterLoad(todo) ==
  LET end == CHOOSE i \in DOMAIN todo :
               todo[i] = "loaded" /\ \A j \in 1..(i - 1) : todo[j] # "loaded"
  IN  SubSeq(todo, end + 1, Len(todo))

Denied(screen) == [screen EXCEPT !.projects = {}, !.dataSources = {}, !.serverError = FALSE]
Unreachable_OldList(screen) ==  \* mutant: the last server's list stays
  [screen EXCEPT !.serverInfo = None, !.serverError = TRUE]
Unreachable(screen) ==
  [screen EXCEPT !.serverInfo = None, !.projects = {}, !.currentProjectId = None,
                 !.dataSources = {}, !.serverError = TRUE]

LoadFails(c, code) ==
  /\ shown' = IF code = "denied" THEN Denied(shown) ELSE Unreachable(shown)
  /\ GoOn(c, AfterLoad(calls[c].todo), calls[c].arg)
  /\ UNCHANGED tokens

Fails(c, code) ==
  LET request == Head(calls[c].todo)
      rest == Tail(calls[c].todo)
  IN  /\ UNCHANGED saved
      /\ \/ "loaded" \in ToSet(rest) /\ LoadFails(c, code)
         \/ /\ request = "logout"
            /\ tokens' = [tokens EXCEPT ![currentServerUrl] = None]
            /\ GoOn(c, rest, calls[c].arg) /\ UNCHANGED shown
         \/ /\ request = "syncStatus"
            /\ GoOn(c, rest, calls[c].arg) /\ UNCHANGED <<shown, tokens>>
         \/ /\ "loaded" \notin ToSet(rest) /\ request \notin {"logout", "syncStatus"}
            /\ GoOn(c, <<>>, None) /\ UNCHANGED <<shown, tokens>>

Receive(c) ==
  /\ calls[c] # Over /\ calls[c].at = "answered"
  /\ LET a == calls[c].answer
     IN  IF a.code = "ok" THEN Arrives(c, a.data) ELSE Fails(c, a.code)
  /\ UNCHANGED <<place, stored, ops, trouble>>

-----------------------------------------------------------------------------
(* Somebody else.                                                          *)

OtherClient ==
  /\ "other" \in Features /\ ops < MaxOps /\ ops' = ops + 1
  /\ \/ \E p \in stored.projects :
          stored' = [stored EXCEPT !.projects = @ \ {p}, !.sources = @ \ SourcesIn(p)]
     \/ \E t \in stored.live : stored' = [stored EXCEPT !.live = @ \ {t}]
  /\ trouble' = trouble \cup {"other"}
  /\ UNCHANGED <<place, shown, saved, tokens, calls>>

\* A browser opens the page: with a selection saved earlier, maybe of a project
\* that is gone, and with a session kept for a secured backend or none.
Init ==
  /\ \E project \in FirstProjects \cup {None}, s \in ToSet(FirstServers) :
       saved = [servers |-> FirstServers, url |-> FirstUrl, current |-> s,
                project |-> project]
  /\ servers = Restored(saved).servers /\ url = Restored(saved).url
  /\ currentServerId = Restored(saved).current
  /\ shown = Blank(saved.project)
  /\ \E t \in Tokens, b \in Secured, on \in BOOLEAN :
       /\ tokens = [c \in Backends |-> IF on /\ c = b THEN t ELSE None]
       /\ stored = [projects |-> FirstProjects, unborn |-> Projects \ FirstProjects,
                    sources |-> FirstSources, unbornSources |-> Sources \ FirstSources,
                    issuer |-> [u \in Tokens |-> IF on /\ u = t THEN b ELSE None],
                    live |-> IF on THEN {t} ELSE {}]
  /\ calls = [c \in Calls |-> IF c = Lowest(Calls)
                             THEN Start(<<"load", "syncStatus", "load">>, None) ELSE Over]
  /\ ops = 0 /\ trouble = {}

Act ==
  \/ \E s \in Profiles : setCurrentServer(s) \/ removeServer(s)
  \/ \E s \in Profiles, b \in Backends : addServer(s, b) \/ updateServer(s, b)
  \/ \E p \in Projects : setCurrentProject(p) \/ updateProject(p) \/ deleteProject(p)
  \/ \E x \in Sources : updateDataSource(x) \/ deleteDataSource(x)
  \/ createProject \/ createDataSource \/ login \/ logout
  \/ \E kept \in SUBSET Backends : Reload(kept)

Next ==
  \/ Act
  \/ \E c \in Calls : Proceed(c) \/ Send(c) \/ Serve(c) \/ Lose(c) \/ Receive(c)
  \/ OtherClient

Spec == Init /\ [][Next]_vars

-----------------------------------------------------------------------------
(* What the user may rely on.                                              *)

Now == [to |-> currentServerUrl, token |-> tokens[currentServerUrl], project |-> None]
Visible == IF Authorised(Now) THEN ProjectsAt(currentServerUrl) ELSE {}

\* Once every chain has ended the sidebar shows what the selected server holds:
\* all its workspaces that the user may see, one of them selected, and that
\* one's data sources.  The double load of a server switch (the store's own and
\* the watcher's) and every create, rename and delete must end there.
ScreenIsTrue ==
  Quiet /\ trouble \subseteq {"readdressed"} =>
    /\ shown.serverInfo = currentServerUrl /\ ~shown.serverError
    /\ shown.projects = Visible
    /\ Authorised(Now) => IF Visible = {} THEN shown.currentProjectId = None
                          ELSE shown.currentProjectId \in Visible
    /\ shown.dataSources = IF Authorised(Now) THEN SourcesIn(shown.currentProjectId) ELSE {}

\* ... and who is signed in is what the selected server would say.  An edit of
\* the selected server's address reloads the workspace but asks for no status.
StatusIsTrue == Quiet /\ trouble = {} => shown.status = StatusAt(Now)

\* Both: a settled screen is the selected server's.
SettledIsTrue == ScreenIsTrue /\ StatusIsTrue

\* Whatever failed or changed behind its back, a settled screen never lists
\* another server's workspaces or data sources.
NothingForeign ==
  Quiet /\ "overlap" \notin trouble =>
    /\ \A p \in shown.projects : Home[p] = currentServerUrl
    /\ \A x \in shown.dataSources : Home[Parent[x]] = currentServerUrl

\* Nobody signed in, as the frontend knows: nothing shown, also when requests
\* have failed in between.
SignedOutSeesNothing ==
  /\ Quiet /\ trouble \subseteq {"failure"}
  /\ ~Authorised(Now) /\ shown.status.enabled /\ shown.status.user = None
  => shown.projects = {} /\ shown.dataSources = {}

\* Both: a settled screen shows nobody what is not theirs.
NothingLeaks == NothingForeign /\ SignedOutSeesNothing

\* Loading a settled page anew restores the selected server, and its workspace.
ReloadKeepsPlace ==
  [][\A kept \in SUBSET Backends : Reload(kept) =>
       /\ currentServerId' = currentServerId
       /\ Quiet /\ trouble = {} => shown'.currentProjectId = shown.currentProjectId]_vars
=============================================================================
