# StarQuery: a verification project

StarQuery is a database client: a Vue frontend, an Express backend with a meta
store of its own (SQLite or MySQL), and an Electron shell that runs both. This
directory holds TLA+ models of its parts, the TLC configurations that check them,
and TLAPS proofs about all but the SQL ones and the consoles. Everything is written from the source under
`src/`; where a definition stands for code, `PROJECT.json` names the lines.

Contents

1. [The system](#1-the-system): components, state, interactions, what is hard
2. [Modules](#2-modules): which module models what, and how it corresponds
3. [Runs](#3-runs): what each run checks, its bounds, what it shows and assumes
4. [Fairness](#4-fairness)
5. [Proofs](#5-proofs)
6. [Where code and intention differ](#6-where-code-and-intention-differ)
7. [Not modelled, and only model-checked](#7-not-modelled-and-only-model-checked)
8. [Plan](#8-plan)

## 1. The system

### Components

Paths are relative to `src/packages/`; "hard" names the behaviour a unit test
would hardly reach, "correct when" what the properties are about.

**SSH tunnel manager** (`backend/src/datasources/shared/ssh-tunnel-manager.ts`;
callers in `shared-sql/adapter.ts`, `shared-resource/`,
`shared-object-storage/routes.ts`).
*State*: a map from tunnel keys to entries; per entry a promise (`ready`), an
ssh2 client, a local listener, a reference count and an idle timer.
*Hard*: the callbacks of ssh2, the listener and the timers come between the
awaits of requests that share an entry; the timer's callback does not look at the
count again. *Correct when* the count is exact, no tunnel is closed under its
users by the timer, no request joins a dead tunnel, nothing is left listening.

**Accounts** (`backend/src/routes/admin-routes.ts`, the onboarding route of
`auth-routes.ts`, `meta/repositories/users-repository.ts`,
`meta/default-content.ts`). *State*: the tables `users`, `roles`, `user_roles`.
*Hard*: handlers are sequences of statements without a transaction, which
interleave with the MySQL meta store and which a crash cuts anywhere.
*Correct when* an enabled admin remains, links join rows that exist, only the
first account is onboarded, and a started server has its seed admin.

**Sign-in** (`backend/src/routes/auth-routes.ts`, `auth/`,
`frontend/src/services/auth-storage.ts`). *State*: session tokens, OpenID states,
the rate limiter's windows, the tokens tabs keep. *Hard*: the OpenID callback's
read, use and delete over several awaits; expiry; a window's edges; an address
spelled differently. *Correct when* guesses are bounded, a state opens no session
after it was spent, one person has one account, a tab sends its newest token.

**Permissions and project access** (`backend/src/auth/permissions.ts`,
`routes/project-user-access.ts`, `projects-routes.ts`,
`frontend/.../ManageProjectUsersDialog.vue`, `useAdminView.ts`). *State*: a list of
permission patterns per user. *Hard*: two dialogs write the same list as a whole
from what they read before. *Correct when* what a manager set is what routes allow
and what the dialog shows.

**Data source routes and secrets** (`backend/src/routes/sources/crud-routes.ts`,
`datasources/shared/secrets.ts`, both registries,
`frontend/.../CreateDataSourceDialog.vue`). *State*: `data_sources` with their
secrets; each dialog's copy. *Hard*: a blank, a marker or a new secret arrives from
a dialog opened before others changed the source. *Correct when* secrets leave the
store never and change only when somebody typed a new one.

**Meta store lifecycle** (`backend/src/meta/`, `server.ts`). *State*: the store's
tables, the process's phase. *Hard*: a start that fails or is killed between any two
statements, a bootstrap file applied again on every start. *Correct when* a start that
is over leaves what the file says, and a store that served is never refused.

**Electron main process** (`electron/src/main.js`). *State*: the configuration file,
the embedded backend. *Hard*: starts that overlap, kills in the middle of a write.
*Correct when* a URL a window was given stays served until the app quits.

**SQL adapters and routes** (`backend/src/datasources/shared-sql/` and one directory
per driver). Created per request, so their state is the database's. *Hard*: a batch
of edits whose statements fail in the middle, placeholders that continue from one
clause to the next, pages of a table in some order. *Correct when* a save writes what was asked
or nothing, pages are a partition, a created table is described as asked.

**Table schema editor and dialects** (`frontend/.../TableSchemaDialog.vue`,
`datasources/shared-sql/schema/`, one dialect per driver). *State*: the drawn schema
and the loaded one. *Hard*: entries are matched by old names and signatures; the
statements have no transaction. *Correct when* what is reported as applied is what was
drawn, and a failed apply loses nothing that was kept.

**SQL table page** (`frontend/src/datasources/shared-sql/views/SQLTableView.vue`,
`frontend/src/components/table/ExtendedDataTable.vue`). *State*: the grid of
drafts, page, filter, total, `isLoading`, `isSaving`. *Hard*: answers replace
the grid the user edits; a save is a request followed by a reload, either of
which can fail. *Correct when* no edit is lost or applied twice, the page shows
what it says, and the grid comes back.

**Document editors** (the MongoDB and Elasticsearch views, routes and adapters). As the
table page, but a save is one request per document (MongoDB) or one bulk request whose items
fail each on its own (Elasticsearch), never a transaction, and it replaces whole
documents. *Correct when* a save that reports success did everything, once, and nothing but
what was edited changes.

**Browsers** (S3/MinIO, Redis, Convex: views and adapters). *State*: path, listing,
selection, cursors. *Hard*: loads that overtake one another, pages over data that others
change. *Correct when* a listing is the folder it names, whole and once; a preview is of
the selected object; a deletion takes what was confirmed.

**Query consoles** (SQL, Redis, Convex). *State*: text, runs, results, logs. *Hard*: the
server and the window each cut the text and match by place; runs overlap. *Correct when*
what is shown and logged is what ran.

**Tabs and sidebar** (`frontend/src/stores/tabs-store.ts`, `WorkspaceTabsBar.vue`,
`SidebarSQLSource.vue`, `SidebarResourceSource.vue`). *State*: tabs by position, the
current one, the sidebar's lists. *Hard*: deletions close tabs when an answer comes,
whatever was opened, closed or moved meanwhile. *Correct when* each tab is one page, the one
in front stays in front, and a deletion closes the tabs of what was deleted and no others.

**Workspace and auth stores** (`frontend/src/stores/workspace-store.ts`,
`auth-store.ts`, the watcher in `App.vue`). *State*: server list and selection, the lists
of the sidebar, auth status, what `localStorage` keeps. *Hard*: each operation is a chain
of requests, a server switch starts two of them at once, and every request reads the
selected server when it is sent. *Correct when* a settled screen shows the selected server's
workspaces, data sources and user, and never another's.

### How they interact

    browser page                      backend process                outside
    ------------                      ---------------                -------
    workspace/auth stores --HTTP-->   auth, admin, project routes --> meta store
       |  selected server, token        |                             (SQLite: synchronous
       v                                |                              MySQL: awaited)
    sidebar -> tabs -> pages --HTTP-> data source routes
                                        | withSqlAdapter, withResourceAdapter
                                        v
                                      adapters --via a shared SSH tunnel--> databases
    Electron main --starts, closes--> backend process

The backend is one Node process. Code between two awaits runs without
interruption, and a callback (timer, socket event) starts only when no promise
continuation is pending. With the SQLite meta store a statement does not wait,
so a whole handler is one uninterrupted piece; with MySQL (a pool of ten
connections) every statement is a point where another handler may run. The
frontend has the same event loop, but every answer arrives on its own, in any
order, and most components keep no record of which request an answer belongs to.

## 2. Modules

| Module | Models | Composed by |
|---|---|---|
| `TunnelPool` | the abstract pool the tunnel manager promises | instantiated by `SshTunnel` |
| `SshTunnel` | the tunnel manager and its callers | `MCSshTunnel`, `SshTunnelProofs` |
| `Accounts` | onboarding, admin routes, seeding, on both drivers | `MCAccounts`, `AccountsProofs` |
| `TableEditor` | the table page, its requests, the transaction | `MCTableEditor`, `TableEditorProofs` |
| `DocumentEditor` | the MongoDB and Elasticsearch pages, routes and adapters | `MCDocumentEditor`, `DocumentEditorProofs` |
| `Positions` | what is at chosen positions of a sequence: filters and sorted lists | both editors, `Tabs`, `ObjectBrowser`, `ListBrowsers`; `PositionsProofs` |
| `Workspace` | workspace and auth stores, watcher, storage, backends | `MCWorkspace`, `MCWindow`, `WorkspaceProofs` |
| `SqlAdapters` | eight SQL adapters as operators: details, pages, create, save | `SqlRows`, `SqlDialects` |
| `SqlDialects` | seven schema dialects as operators on statements | `SchemaEditor` |
| `SqlRows` | a client of the row and table routes | `MCSql`, `MCWindow` |
| `SchemaEditor` | the schema dialog and the server that runs its statements | `MCSql`, `MCWindow` |
| `SignIn`, `Access`, `Sources`, `Startup`, `Desktop` | the five parts of the server named above | `MCServer`, `ServerProofs` |
| `Tabs`, `ObjectBrowser`, `QueryConsole`, `ListBrowsers` | the window and its pages | `MCPages`, `PagesProofs` |

`MCSql`, `MCWindow`, `MCServer` and `MCPages` put parts side by side whose code shares no variable:
a behaviour is about one part (`scene`, `view`) and the others rest in one first
state. This is no interleaving of the parts; it checks each of them in one run, and where two
parts do meet, one module holds both (the dialog and the routes in `Sources` and `Access`, the
sidebar and the tabs in `Tabs`, pages and adapters in the browsers, requests and tunnels in
`SshTunnel`).

An operator named `X_Something` (or `SignatureOfName`, `DropRenamedColumns`) directly
before `X` is a faulty variant of `X`; no action uses it. The project puts one in the place of
`X` to show that a property notices.

### SshTunnel

Variables are the fields of a `TunnelEntry` (`phase` is the state of the promise
`ready`, `armed` says that `closeTimer` refers to a pending timer), the manager's
`map`, and for each request where it is (`pc`) and which entry its closure
captured (`on`).

| Code | Action |
|---|---|
| `acquireTunnel`, key known / not known | `AcquireShared` / `AcquireNew` |
| after `await entry.ready` | `Resume` |
| `release`, in the `finally` of `withSqlAdapter` and `withResourceAdapter` | `Finish`, `FinishAtOnce` |
| the download route: subscribe to `finish` and `close`, then release | `StreamObject`, `ResponseEnds`, `ResponseLost` |
| `createTunnel` succeeds / fails | `ClientReady` / `TunnelFails` |
| `client.on('close')`, `server.on('error')` | `ClientClose`, `ListenerFails` |
| the `setTimeout` callback | `IdleTimer` |
| `closeAll` | `CloseAll` |

The event loop is in the guards: a callback needs `Drained`, which says that no
continuation is queued, so the await between `clearTimeout` and `refCount += 1`
is a step of its own that other continuations, and only those, may precede. A
request that fails without waiting for I/O releases in the same drain
(`unwinding`): this is the interleaving that a careless reading would miss.
ssh2 and net are external: `client` and `listener` are what the code's calls and
subscriptions can tell about them. The request's own work is one step.

`TunnelPool` is the promise: one live tunnel per key; users join open tunnels
only; a pool retires a tunnel only when nobody uses it, except at shutdown; a
lost connection loses the tunnel at any time. `ImplementsPool` maps an entry's
fields to one of five statuses and its holders to the users.

### Accounts

`server` is the kind of server a behaviour is about: its driver, its configured seed
admin, how many clients call it, what their patches change, and whether it crashes.
One step is at most one statement that writes. A handler's local variables are
in its record in `req`, with `at` saying which statement comes next: `updateUser`
is `Read` then `Write` of the whole row, `setUserRoleIds` is `Unlink` then `Link`,
and the guards (`AdminLeft`, `RoleNeeded`) are evaluated where the route evaluates
them, before the first write. The driver decides whether another handler may step
in between. Foreign keys and unique indexes act as the schema declares them. The
startup is the same: `EnsureAdminRole`, `SeedUser`, `SeedUnlink`, `SeedLink`.
Permissions are reduced to the one question the guards ask, whether they grant
admin access.

### TableEditor

The grid is a sequence of drafts `[id, uid, val, orig, state]`, the table a
function from keys to values, a request a record in `calls` that is sent, served
and answered in three separate steps. The page begins as `onMounted` does, loading and with a request for the
details (`detailed` says whether they are there); when that one fails, `loadRows` is never called. The edits are the functions of
`ExtendedDataTable.vue` with their names; `Toggled`, `Restored` and `Recomputed`
are how it changes a draft's state. `saveTableChanges` folds the batch, inserts
then updates then deletes, over a transaction that an error rolls back.
Two columns are enough for what the properties tell apart: a key the database
fills and a column the user edits; `Refused` values stand for any constraint.
An edit that is open in a cell commits on blur before any button is pressed,
so it is one step with the value's commit. Two histories name what the code gets wrong,
so that properties can say that it gets nothing else wrong: `revived` marks a draft that was edited, deleted and restored, which the grid counts as clean, and
`unsure` has the added rows that a save inserted without the page seeing it. How each driver binds and compares several columns is
in `SqlAdapters` and `SqlRows`.

### DocumentEditor

One module for the two pages, which differ in a few lines: `kind` says which it is.
A draft has the cells of a row and, for the MongoDB page, the document behind it,
both in `vals`: a field without a column is what only the document has.
`DocumentOf` is what a row is saved as. The grid's operations take one row here, as
`TableEditor` has the ranges.

| Code | Definition |
|---|---|
| the grid's context menu and cells, `addRow`, the document viewer's watcher | `Edit` and its disjuncts |
| `runQuery` / `runSearchForIndex` and who calls them | `runQuery` from `Run`, `Refresh`, `changePage`, `discardChanges`, `SaveArrives` |
| the early return on a text that is no JSON | the `ELSE` of `runQuery` |
| `saveChanges` / `saveDocuments`, up to the first await | `saveChanges`, which fixes `SaveRequests` |
| the routes and adapters, one request | `ServeSave`, `ServeRows` |
| the code after the await | `SaveArrives`, `RowsArrive` |

A save is one sequence of `writes`, beside the `batch` of drafts they were made of; `done` counts
those of the requests that were answered, and `Sent` is where the request under way ends: one document
for each replacement and insert of MongoDB, all deletions together, everything for Elasticsearch.

`Applied` is one write by either database: MongoDB refuses to replace a document
that is gone, Elasticsearch's bulk `index` creates it again. `ServeSave` lets the
database refuse any set of the writes of a request, which covers a validator, a
mapping, a unique index and a connection that breaks. `astray` is a history variable:
whether a save has failed, or a query was not sent, and whether the grid was filled
again since.

### Workspace

A running async function is a record in `calls` whose `todo` lists its awaits in
order; `Send` reads the selected server, its token and the selected workspace
exactly when the code does, `Serve` is the backend, `Receive` the code after the
await, `Lose` a rejection with the request carried out or not. A load is the steps
`info, projects, sources, loaded`, and its `catch` is `Fails`, which tells a 401
from the rest as `loadWorkspaceFromServer` does. `Watched` adds the watcher's
chain to an operation that changes the selected server. `Reload` is a page load:
`hydrate` from `saved`, session tokens maybe gone, requests already sent still
carried out by the backends. `trouble` is a history variable: which environment events
have happened since the page was loaded. Properties name the events under which they
are stated.

### SqlAdapters, SqlRows, SqlDialects, SchemaEditor

These are mostly pure operators, one per driver where drivers differ. A statement is a
record whose `op` says what it does; its text, quoting and the rendering of types are left
out, while placeholders are kept, as indices into the parameters, with the way each driver
numbers them. `SqlRows` runs them as a route does: `RunSaveStatement` statement by
statement in a transaction, `Rollback`, `Commit`, a COMMIT whose answer is lost
(`CommitUnacknowledged`, where it goes over a connection), or the end of the process; `ReadPage`;
`CreateAndDescribe`. What the database does with a statement is external (`Executed`,
`Hit`, `Accepted`). The reference for a save is `Asked`, the request's effect row by row.

`SqlDialects` has the sections each dialect shows and writes, the definition and the drop of
each kind of entry, the changes of a column, the comparison by old name and `Signature`, and
the order in which drops, alterations and additions are sent. A builder that throws yields
`Throw`. `SchemaEditor` is the dialog: loading (an answer per table, in any order), every
section's edits, the preview, `ApplySchema`, and a server (`Refused`, `After`) that runs the
statements one by one, any of which may fail. `sent` remembers the dialog as it was when Apply
was pressed, so that properties can compare what was drawn with what is stored.

### SignIn, Access, Sources, Startup, Desktop

`SignIn`: with SQLite, handlers wait only for the identity provider; `Callback` is
everything before the exchange of the code, `Exchanged` or `ExchangeFails` everything after.
Time is discrete; `limits` is the limiter's table with its cleanup, `sessions` the token rows,
`shared` and `own` what `localStorage` and each tab's `sessionStorage` hold. `theme` keeps a
behaviour to passwords, the provider or tabs, which share only the token rows.

`Access`: one user's patterns, split at the dots, its own and those of its roles (`RolePermissions`), which count beside
them and keep their permissions (`Accounts` has the editing of roles). The targets a route
requires (`ViewProjectTargets`, `SourceReadTargets`, `SourceConfigTargets`) are translated from
`permissions.ts` one by one, and `PathMatches` is the matcher as the places of a path where the names of a pattern may begin, a star
standing for any names; `ReadUser` and `WriteAccess` are the two
statements of the PUT, between which MySQL lets others write. The members dialog and the admin
view are the browser's side; an answer is applied whichever workspace the dialog then shows.

`Sources`: the 16 types with the fields their modules declare as secret, what each dialog form
requires, `Normalized`, `Merged` and `Sanitized` as the server does them, and two browsers whose
dialogs stay open while requests are handled in any order.

`Startup`: one step per writing statement of migration, default content and bootstrap file; the
process may end between any two (`Exit`), the file may be another one at the next start, and the
routes change the same rows while it serves.

`Desktop`: callers of `startLocalBackend` stop at each of its awaits; `CopyLegacy` and
`SaveConfig` leave a half-done file when the app is killed.

### Tabs, ObjectBrowser, QueryConsole, ListBrowsers

`Tabs`: the store's functions with their names over positions; the strip's menu remembers a
position, pages find theirs by id. The sidebar waits for one request (`awaiting`) while the strip
is used; on the desktop, openings wait for the server's address (`opening`).

`ObjectBrowser`: a request is a member of `flights`, answered by the adapter (`Read`,
`PutObject`, `Delete`) and applied by the page in two separate steps, with other clients
(`Elsewhere`) between. `Listing` carries history: `always` and `ever`, the entries that were in the
folder all the time since its first page, and at some time. A cursor is a number, the rank of an entry's name and
kind (`NameRank`), for a folder `d/` and an object `d` may lie side by side. `listBucketPath` is a loop: `Read` takes one batch of
at most `BATCH_SIZE` entries per step (`ListObjectsV2Query`: cut in the order of keys, then its objects before its folders), and
others may write between two of them. `Batch` walks it up to the entry that fills the page and makes that entry, or the
last one, the cursor; `stops` is history, the entries where a walk ended before the end of its batch, or at a folder. That a
store asked to go on after its own folder does not give that folder again is an assumption about it: S3 and MinIO compare the
common prefix with `start-after`. The store may refuse a write, and a deletion that fails leaves the paths before the failing one deleted.

`QueryConsole`: `SplitSqlStatements` and `ParseRedisCommand` fold over the characters of a
text; the reference is `StatementsRead`, which says where a lexeme ends and which positions
begin one. A run is started, executed statement by statement, answered, and shown.

`ListBrowsers`: Redis scans in batches with other clients between; Convex keeps every snapshot
and a cursor names one. The reference for a page is `PartsOf`, the parts of one snapshot.

## 3. Runs

| Run | Config | Expect | Question |
|---|---|---|---|
| `ssh_tunnel` | `MCSshTunnel.cfg` | pass | does sharing tunnels keep counts, timers and the map consistent, is the manager the abstract pool, are idle tunnels closed, and waiting requests answered, through quiet closes and a shutdown? |
| `accounts` | `Accounts.cfg` | pass | does any sequence of requests lose the last admin, onboard twice or enable an account by accident (SQLite)? does a completed start repair what a crash left (MySQL)? |
| `accounts_role_edit` | `AccountsRoleEdit.cfg` | violation | may a role edit remove the last admin? |
| `table_editor` | `TableEditor.cfg` | pass | one request at a time, failing loads, deletions taken back: are edits kept, saved exactly, the page true, and "everything saved"? |
| `table_editor_busy` | `TableEditorBusy.cfg` | pass | refused saves, lost answers, failed reloads, two requests in flight, and saving again: which added rows can be inserted twice, do saving and loading end? |
| `table_editor_footer` | `TableEditorFooter.cfg` | violation | is "Everything saved" true after a deletion was taken back? |
| `window` | `Window.cfg` | pass | stores: does a settled screen show the selected server, and nothing that is not the user's? SQL clients: is what the schema dialog reports as applied what was drawn? do saves, pages and created tables match their requests on eight adapters? |
| `documents` | `Documents.cfg` | pass | saves whose writes fail in any combination: is a success complete, is only what was edited changed, is the page never busy for good? |
| `clickhouse_create` | `ClickHouseCreate.cfg` | violation | can a ClickHouse table be created? |
| `server` | `Server.cfg` | pass | do limits, tokens, access, secrets, the store and the backend's URL stay right? |
| `pages` | `Pages.cfg` | pass | do tabs, listings, previews, results and deletions stay true? |
| `pages_end_of_list` | `PagesEndOfList.cfg` | violation | is a list whole when the table says "End of list"? |

Some properties of a run are conjunctions, named for what they say together; the
parts are named in the modules. `SignInIsSafe` is `GuessesBounded`,
`OneAccountPerSubject` and `LastTokenIsSent`; `ServerKeepsFaith` is `StatesAreSpent` and
`SecretsAreKept`; `RowsAreTrue` is `SavedIsAsked`, `PagesPartition` and `CreatedIsAsked`;
`ConsoleIsTrue` is `CutAsWritten` and `ShownIsWhatRan`; `ListsAreTrue` is `KeysAreListed` and
`PagesAreOfOneSnapshot`; `RemovalsAreExact` is `FrontStays`, `ClosesTheDeleted` and
`TakesTheConfirmed`. In the composed runs each also has its part's type invariant.

### Bounds, and why they are enough

* **ssh_tunnel**: one key, two entries of it, two requests of which one is a
  download. Two entries of one key are what "by key, not by identity" can
  confuse, a predecessor and its successor. Keys interact nowhere in
  the code, so a second one adds nothing to a state; the safety properties are proved for any
  number of keys, entries and requests. `QuietClose` lets ssh2
  close without an error before it was ready, which settles nothing, and the manager may be shut down.
* **accounts**: two ids, roles, addresses and handlers. The guards speak of "another
  admin" and "a role other than this one": two of each are the smallest instance in
  which both answers occur. Ids are given out once, which bounds the run. The MySQL server has
  one client, a crash before any statement and a seed admin. `accounts_role_edit` has one id.
* **table_editor**: three rows, pages of two, one added row, three values of which
  one is refused and one filtered by. Two pages, a filter that leaves one and a
  total that changes under a page are all reachable.
* **table_editor_busy**: an empty table, one added row, two keys, which leave room to insert it
  twice; two requests in flight, the least that can overtake one another; a value that the table refuses.
  Once it is inserted the row is also one to edit and to delete. **table_editor_footer** has one row and one
  request at a time, which is all its trace needs.
* **documents**: no or one document at first, two ids, two rows of which one added,
  pages of one, two fields that may be absent, null or have a value. A replace, an
  insert and their partial failure meet in one save; a page beyond the first exists
  once a document was inserted; a second insert of the same draft has an id left.
* **window**, *stores*: an open server with a workspace that exists and one still to be
  created, a secured one with a workspace; three data sources; two tokens; two
  chains at once, as many as a server switch starts; two acts of the user or of
  others after the page load, each with every answer order. `MaxOps` bounds acts,
  not requests: an act is at most seven requests.
  *SQL clients*: every dialect with a table that has an entry in each section and one to create;
  three edits of one section, the number that a rename, an alteration and a replacement take;
  sections are compared and written apart from one another (`focus`). Eight adapters;
  requests that update, delete and insert with a NULL anywhere, which is what moves
  placeholders; three page reads, as
  many as the pages of one of a table's three rows.
* **clickhouse_create**: one dialog and one step; the violation needs no more.
* **server**, *sign-in*: two accounts, addresses (in two spellings), subjects, callbacks and
  tabs; three ticks with a window of two ticks and two attempts, so that a stretch as long as the
  window lies over the end of one. *Access*: two workspaces, a source, a role that shows one of them, four acts: open, set, close
  and open the other leaves each answer to come late. *Sources*: seven
  cases that between them have every type with secrets, two types where a type
  change matters; two browsers, two acts, one request under way. *Startup*: three starts with any of
  three files, one with each of the oddities (an unknown role, an address, project or source
  twice); two route calls; a migration of two statements. *Desktop*: the ready handler and two windows, three
  backends, two launches, as a kill matters to the next launch only.
* **pages**, *tabs*: two sources (an SQL and a resource one) with one item each, three tabs, four
  steps: two tabs, a deletion and an act during it. *Objects*: six objects, one beside a folder of its own
  name, two in folders of which one's name begins like the other's, with objects before, between and behind the folders; batches of
  four and pages of two, so that pages end inside a batch, at its end and behind it, folders are skipped and objects repeated; a
  tab that opens at the source's bucket or at one in the sidebar; three steps, one write by others, two requests under way.
  *Console*: every text of up to four characters of nine kinds, enough for a comment or quote to open and close around a
  semicolon; two runs. *Lists*: three keys with a limit of two; five documents in chunks of
  two, three pages of which a search leaves two; three steps, one change by others.

No passing run checks deadlock but `table_editor`, `table_editor_busy` and `documents`: in the others the
acts of users, ids or entries are bounded, so the model stops where the program waits.

### What the passing runs show

`PROJECT.json` lists the properties by hazard. The ones that took most to state:

* `IdleTimerIsSafe`: the timer closes without looking, so it must never be pending
  on a tunnel that someone holds *or is about to hold*. It rests on the order of
  `clearTimeout` and `await` in `acquireTunnel`.
* `PortsAreServed`: until the manager is closed, whoever was given a port has a listener
  behind it, and a listener whose tunnel is not in the map is being closed.
* `SeedAdminAfterStart`: links and users are written by two statements, a crash
  may fall between; the next start repairs it because it recomputes the roles.
* `InsertedOnce`, `EverythingSaved` and `SaveEnds` of the table page each exempt one thing by name: rows whose
  insertion the page did not see, restored drafts (the run `table_editor_footer` shows that this one is real) and `onMounted` whose
  details request fails. What the passing runs add is that nothing else goes wrong, with
  every event that the page can meet.
* `EditsAreKept`: an answer that replaces the grid takes only what was discarded or
  saved with it, and a batch does exactly its edits, each to its own row, or
  nothing. For documents it allows exactly what the code does besides the edits: an
  absent field becomes null, a value read before a failed save comes back, and
  Elasticsearch creates a deleted document again.
* `SettledIsTrue`, `NothingLeaks`: the two loads of a server switch may interleave
  in any way and still end with the selected server's content and user; with failures
  the screen may be emptier than the server but never shows another's content.
* `SchemaIsApplied` and `KeptStays`: the statements that a comparison of two drawings yields,
  run one by one against a database that may refuse any, against the drawing itself.
* `GuessesBounded`: windows are fixed, so the bound in a stretch as long as one is less than twice
  the limit, not the limit.
* `SecretsAreKept`: with a blank, the marker and a stale dialog all in play, a secret changes only to
  one that was typed, or goes with the field that had it.
* `StoreIsRestored`: whatever ended the starts before, the next that listens has applied its
  file, and a store that was served from is not refused.
* `ListingIsWhole`: an entry that was in the folder during the whole listing is on a loaded page or
  behind the cursor, whatever others wrote between the pages, but for folders that sort before an object at which a page
  ended (`IsSkipped`); and only objects that sort behind a folder at which a batch ended are listed twice (`MayRepeat`). The run
  `pages_end_of_list` shows that the exception is real.
* `CutAsWritten`: the splitter, a fold with a state, against a definition that says where each
  lexeme ends.

Every property of a passing run has a mutant in `PROJECT.json`: a plausible bug of
one mapped definition under which TLC finds the property violated.

### What the passing runs assume

A property is stated under the environment in which the code keeps it. Outside:

* `AdminRemains` and `AccountsChangeAsAsked` speak of SQLite without crashes and stale role ids
  (`IsOrderly`); with MySQL two handlers may both pass a check and both write.
* `PageIsTrue` and `EditsAreKept` of the table page are checked without requests that
  overlap (`"overlap"`) and edits made while saving or before a refresh (`"editWhileSaving"`,
  `"dirtyRefresh"`), which are lost with the old grid, without lost answers and failed reloads, and without other clients.
  Without a primary key (`Keyed = FALSE`) one edit may change several rows.
* `InsertedOnce` of the table page assumes nothing and exempts rows in `unsure`; `EverythingSaved` exempts drafts that are
  `revived`. `SaveEnds` promises the end of loading once rows were asked for or the details are there (`RowsAsked`).
* The same holds on the document pages for `"overlap"`, `"editWhileBusy"` (the viewer stays editable
  during a query) and `"dirtyRun"` (Run asks nothing). A projection (`"projection"`) makes a save drop
  the fields that were not read. After a save that failed in part, or one whose reload
  was not sent, the drafts stay pending and the next save inserts them again:
  `InsertedOnce` and `PageIsTrue` exempt what `astray` names.
* `Workspace`: the user acts again only when the last chain has ended (`"overlap"`).
* `SchemaIsApplied` and `KeptStays` need `WellDrawn`: the dialog had loaded the table it writes to,
  no new entry has the old name of a renamed one, and ClickHouse is not asked to clear a default.
* `SavedIsAsked` needs `RowsTellApart`, `CreatedIsAsked` exempts the columns no driver can report
    (`Reportable`). A save that is answered with an error changed nothing or, with MySQL, Postgres and SQL Server, everything.
* `AccessIsTrue`: what is granted, together with what roles grant, is what holds with SQLite, where the PUT's read and write are one
  step, until an administrator saves the user as a whole; permissions for all workspaces stay outside.
* `ListingIsWhole`, `PreviewIsOfSelected` and `ListsAreTrue`: while the user lets each load end and none
  fails (`calm`, `undisturbed`), with other clients at any time. `TakesTheConfirmed` and
  `ShownIsWhatRan` hold with every overlap.
* `ClosesTheDeleted` speaks of the step that ends a deletion: in the desktop app an opening that is
  still waiting for the server's address opens its tab afterwards (section 6).

## 4. Fairness

Safety runs assume none.

`SshTunnel!FairSpec`: weak fairness for continuations, which the event loop runs
before anything else; strong fairness for timers, the end of a request's work and
the outcome of a connection attempt, because `Drained` disables them again and
again while other requests come and go, and Node serves due callbacks in turn.
Requests end because queries and transfers do (the code sets no timeout of its
own, so this is an assumption about drivers). An attempt to connect comes to an end because ssh2
has a handshake timeout, but nothing is assumed on which (`AttemptEnds`): `ready`, an error, or a `close` alone, after which
`entry.ready` stays pending for good. `WaitersAreAnswered` therefore promises an answer *unless* the request's attempt ended
that way (`Stranded`), by itself or because `closeAll` ended its client, and says that such an entry is out of the map, so
that no later request joins the wait. No fairness is assumed for arriving requests, lost connections
or responses, or the shutdown.

`TableEditor!LiveSpec`: weak fairness for each slot's `Progress`: the browser ends
every request, with an answer or an error, and the code that awaits it goes on. No
fairness for the user, who may never act again.

The other pages have no liveness property of their own: a chain of theirs is finite and each
step of it is enabled until it is taken. That a busy flag is up only while a request is under
way whose answer takes it down is a conjunct of their type invariants (`BusyEnds`, `BrowserTypeOK`,
`ConsoleTypeOK`, `ListTypeOK`).

## 5. Proofs

Each proof module extends the module it is about and states its theorems for every value of the
constants that the module's named assumption admits. The runs evaluate these assumptions on their
instances and nothing else is assumed, but where a theorem has a hypothesis of its own. The shape is
always the same: an invariant that implies the property, a lemma that the initial states have it, one
lemma per action or group of actions that it is kept, and a temporal step at the end.

### SshTunnelProofs

From `ConstantsAssumption`, for every finite set of requests, every set of keys and entries and every
`KeyOf`, with or without a shutdown:

| Theorem | Says |
|---|---|
| `TypeCorrect` | `Spec => []TypeOK` |
| `NoDeadEntryIsMapped` | `Spec => []MappedIsAlive` |
| `ReferencesAreCounted` | `Spec => []RefCountExact` |
| `TimerSparesUsers` | `Spec => []IdleTimerIsSafe` |
| `OpenPortsAreServed` | `Spec => []PortsAreServed` |
| `ManagerIsAPool` | `Spec => ImplementsPool` |

Requests are finite because the count is compared with a cardinality.

`IInv` is the conjunction of `TypeOK`, `LinksConsistent` and the first three properties;
none is inductive alone. `RefCountExact` needs `IdleTimerIsSafe` nowhere, but
`IdleTimerIsSafe` needs the count: `release` arms the timer when the count reaches
zero, and only an exact count says that the last holder has left. It also needs
the drain: `FinishAtOnce` runs behind every queued continuation, so that when the
last reference is returned nobody is about to take one. And it needs
`MappedIsAlive` with `LinksConsistent` to know that a request that resumes does so
on an entry that connected. `LinksConsistent` is the strengthening: it ties where a
request is to the state of the promise it waited for. For each conjunct there is one
lemma with a step for every action; the count's lemma turns adding and removing a
holder into adding and removing an element of a finite set.

`PlacesConsistent` adds what `closeEntry` does: an entry's promise, client, listener and `closed` agree
(`EndsAgree`), and until a shutdown an open entry is the one its key maps to (`OpenIsMapped`). With it
the refinement goes action by action: `ClientReady` opens a pool's tunnel, `Resume` lets a user join,
each closing event retires or loses one tunnel, `CloseAll` all of them, and the rest are stutters. That a
timer's close is a retirement, and no loss, is `IdleTimerIsSafe`; that a new entry is
the only live one of its key is `OpenIsMapped`.

### AccountsProofs

From `AccountsAssumption`, for any ids, addresses, roles, handlers and servers:

| Theorem | Says |
|---|---|
| `AccountsTyped` | `Spec => []TypeOK` |
| `SeedAdminIsMade` | `Spec => SeedAdminAfterStart` |
| `AnAdminRemains` | `Spec => []AdminRemains` |
| `AccountsChangeOnlyAsAsked` | `Spec => AccountsChangeAsAsked` |

All but the first have the hypothesis that no server of `Servers` has `"roleEdits"`: editing a
role checks nothing (section 6), and the run `accounts` is made without it too. The last two speak of
`IsOrderly` servers, as their properties do, while `SeedAdminIsMade` covers both drivers and
a crash before any statement.

`TypedState` adds to the types that the seeding's account and roles exist, since no handler
runs until it is over. `AdminRoleGrants` and `SeedIsReady` say that the admin role grants admin access, also after
the writes handlers have decided on. For orderly servers, `KeepsAnAdmin` says per statement what a
handler has made sure of: that an admin is left when it is done, whichever of its statements are
still to come. `OneAtATime` makes what `assertAdminUserRemains` found still true when the handler
writes; with MySQL that is what fails. Between `Unlink` and `Link` there may be no admin, which is why
`AdminsStay` speaks of quiet states.

### PositionsProofs

What the filters and sorted lists of the code return. The library's induction theorems take an
operator as a parameter, which the installed provers cannot instantiate, so induction over numbers is done with sets:
`LeastExists` says that a set of naturals that is not empty has a least member (from `FS_Subset` and
well-foundedness), and `InductionTo` and `InductionFrom` that a set which has the first number and with each
the next has them all. On these rest `Ranks` and `NthIs` (each member of a finite set of numbers is the k-th for
exactly one k), `InOrderIs` (a set in order is a sequence of its members, once each), `AtIs` (what is at chosen positions of
a sequence is there once for each of them), `ThreeParts` and `Between` (a batch of inserts, updates and deletions, one after the
other). A recursive function of the model is unfolded the same way, one step at a time (`Steps` of the editors).

### TableEditorProofs

From `EditorAssumption`, for any table, values, page size, drafts and number of requests:

| Theorem | Says | Without the features |
|---|---|---|
| `TypeCorrect` | `Spec => []TypeOK` | |
| `RowsInsertedOnce` | `Spec => []InsertedOnce` | |
| `PageAlwaysTrue` | `Spec => []PageIsTrue` | `overlap`, `failedReload`, `lostReply`, `otherClient` |
| `FooterIsTrue` | `Spec => []EverythingSaved` | |
| `NoEditIsLost` | `Spec => EditsAreKept` | `overlap`, `editWhileSaving`, `dirtyRefresh`, `failedReload`, `lostReply`, `otherClient`, and without a key |

The third column is the theorem's hypothesis on `Features`: each of these events breaks the property, as section 3 says.
The theorems allow more than the runs: `RowsInsertedOnce` and `FooterIsTrue` hold with every event of the environment, and so
say of every row but those in `unsure` and every draft but the `revived` that the code is right.

* `Sound` has the types of drafts, table and requests (`TableOK`, `Calls`), that one save is under way at most
  (`OneSave`), and that keys are left for what it will insert (`Room`).
* `Once` follows an added row by its `uid`: in the grid, in a batch not yet carried out or in the table it
  is in one place, *or* the save that inserted it has been served and its answer and reload will drop the draft,
  *or* it is in `unsure` (`Excused`): an answer that is lost and a reload that fails put it there in the step that leaves the draft.
* `Paged`: with nothing under way the grid is true of the table (`GridTrue`), and until then the answer under
  way is (`AnswerTrue`), or a save was served whose reload will be.
* `CleanIsTold`: a draft marked clean has the values that were read or is `revived`. `Still` and `Apart` keep pending drafts in the batch that
  is under way, and its rows apart from one another.
* What a transaction does to the table is proved over the statements of the batch (`Did`, `Kept`): those so
  far have done exactly their edits, each to its own row. An error rolls all of it back.

### DocumentEditorProofs

From `DocumentAssumption`, for both kinds of page, any collection, page size, fields and number of requests:

| Theorem | Says | Without the features |
|---|---|---|
| `TypeCorrect` | `Spec => []TypeOK` | |
| `SavedIsStoredOnce` | `Spec => []SavedOnce` | |
| `PageAlwaysTrue` | `Spec => []PageIsTrue` | `overlap`, `projection` |
| `NoEditIsLost` | `Spec => EditsAreKept` | `overlap`, `editWhileBusy`, `dirtyRun`, `projection` |

Failures of any writes, lost answers and texts that are no query are allowed in all four, as `astray` says what they
leave behind. `Sound` ties a save's writes to its batch and says that the database has an id left for each insert to come.
`StoredSoFar` and `NumberedOnce` follow a save write by write, by induction on their number in each request
(`Steps`, `Kept`): what was carried out is stored, and no draft got two ids. `Alone` says that one query is under way, for all fields;
`Asking` that an answer not yet taken is what the collection still holds; `Truth` is the page's half. `Held` keeps pending drafts in
the batch that replaces them, and `Unwritten` says that what is still to be replaced is as it was
read, so that a replacement of a whole document changes nothing but the edit.

### ServerProofs

From the assumptions of the five parts, for any numbers of everything they name. Theorems about a part alone are of its own initial
states and steps (`SignInSpec`, `SourcesSpec`, `StartupSpec`, `DesktopSpec`); the last three are of `ServerSpec`:

| Theorem | Says |
|---|---|
| `UrlsStayServed` | `DesktopSpec => []BackendIsSafe` |
| `StoreIsAlwaysRestored` | `StartupSpec => []StoreIsRestored` |
| `SecretsAreHidden` | `SourcesSpec => []SecretsAreSafe` |
| `SecretsStayKept` | `SourcesSpec => [][SecretsAreKept]_sourceVars` |
| `SigningInIsSafe` | `SignInSpec => []SignInIsSafe` |
| `StatesStaySpent` | `SignInSpec => [][StatesAreSpent]_signInVars` |
| `AccessStaysTrue` | `ServerSpec => []AccessIsTrue`, if the admin view writes only patterns that a manager's save takes away |
| `ServerStaysSafe` | `ServerSpec => []` of the four invariants of the other parts |
| `FaithIsKept` | `ServerSpec => ServerKeepsFaith` |

* *Desktop*. `DesktopInv` says where the calls of `startLocalBackend` stand towards the backends: a call that starts one starts one of its own, and
  until the app quits the backend it refers to is up. So no call ever closes one before, which is why
  no URL goes dead.
* *Startup*. A file may name an address, a project or a source twice, and then the last entry that gives a value wins.
  `StartupInv` therefore says of a start under way what the entries *before* the one it is at have left:
  each user exists, has the password and roles of the last entry so far that gave some, each project the name and
  place of its last, and each source that no later entry so far has overwritten (`Overwritten`) its
  configuration. When the file is through, that is the property. Nothing needs to be said of the starts
  before, as everything is written again; what lasts is that a store that was served from has its migration's entry,
  so that it is never refused.
* *Sources*. `SourcesInv` says what may be where: a stored row has no secret its type has not, a listed row has blanks
  and markers only, a dialog has what its user typed (`FormsAreTyped`), and a
  request sends no blank for a field that was shown as saved. The last is what makes `Merged` keep a secret:
  it arrives as missing, never as blank. The stale dialog needs no conjunct of its own, because what `Merged` keeps it
  takes from the row as it is then.
* *Sign-in*. `SignInInv` adds to the types that tokens are numbered as they are issued (`TokensAreIssued`: a shared
  token is newer than any a tab has of its own, because every login clears the other storage), that a waiting
  callback is complete and that exchanged states are gone. One account per person follows from the lookup
  by subject in the same step as the insert or the link.
  `GuessInv` relates the guesses at an account to the limiter's entry for its address. `InWindow` is the
  heart: with `a` the beginning of the last window, at most `MaxAttempts` guesses lie in it and fewer before
  its beginning in any stretch that reaches into it. The strict half is what makes the bound
  *less than* twice the limit: the window began with an attempt, so guesses later in it are one fewer
  than the entry counts. It needs that every living entry's window lies around now (`EntryIsCurrent`),
  that addresses of accounts differ (a right password of one must not clear the count of another) and that a
  free id has no guesses.
* *Access*. Until an administrator saves the user as a whole, the user has of the patterns that a dialog manages for a workspace
  exactly those of what was set (`Has`, `OnlyItsOwn`); every target a route asks for has the workspace as its third name
  (`MatchesThird`), so that what is granted is decided by these patterns alone (`GrantsDecide`). What roles grant
  comes beside it: a target is allowed by one of two sets of patterns or by the other (`AllowedByEither`, `HigherAccess`). The hypothesis is
  needed: a pattern such as `*.p`, which the admin view accepts and no dialog takes away, goes on granting whatever the dialog says. The
  run's patterns satisfy it. `AccessAssumption` says that `"*"` is no workspace: ids are `crypto.randomUUID()`.
* *Together*. A step of `ServerSpec` is a step of one part and leaves the others' variables alone.

### PagesProofs

From the assumptions of the pages' modules, for any workspaces, sources, tabs, objects, keys, documents, orders of
names, page sizes and limits:

| Theorem | Says |
|---|---|
| `TabsStayTrue` | `PagesSpec => []TabsAreTrue` |
| `RemovalsStayExact` | `PagesSpec => RemovalsAreExact` |
| `BrowserStaysTrue` | `PagesSpec => []BrowserIsTrue` |
| `ListsStayTrue` | `PagesSpec => []ListsAreTrue`, if one request of a search may read as many pages as a table has |

* `TabsInv`: ids differ, the position is a tab's, a mark is of a tab whose page has changes (`BarOK`); there is room for what
  is being opened (`RoomOK`), and the sidebar lists and asks for what exists (`SideOK`). A tab shows what its kind of source has
  (`ShowsItsSource`), so that closing the table tabs of a source, which compares less than source and table, closes what was dropped. Closing
  leaves some positions, each of an earlier tab (`Remains`), and finds the one in front by its id (`FrontPlace`).
* `StoreInv`: requests keep their form (`IsFlight`), and only a deletion takes objects, those its paths name.
* `BrowserInv`: what each request carries and answers (`Carries`, `PlaceOK`), that a flag on the page has its request (`BusyOK`),
  and what a calm page has got to (`CalmOK`). Calm pages have at most one request under way, and it is *in step*: it asks for
  what the page shows, and its answer is still true of the store and of the listing it continues, though other
  clients wrote since it was given (`InStep`, `WholeStays`, `NextPageStays`). Unless the folder is being loaded, the listing is
  *whole* (`Whole`). What is walked of a batch *covers* what lies between its cursor and the next, but for the folders that it skips, and repeats
  nothing but objects (`Covers`): `QueryIs` says what the store gives, `BatchLists` and
  `BucketsAreListed` that the adapter's answers cover, `AppendedCovers` and `AppendedIsWhole` that two that meet are one. An
  entry where a walk stopped is of the folder, so that its rank is that of one entry only. This is more than the
  property says: it must know that the last entry of a page has the cursor's rank, or a next page could
  begin anywhere; and that the root's entries are the buckets all along, for `listBuckets` begins anew
  when it does not find its cursor, which would list every bucket twice.
* `ListInv` follows a load to the page. Of a scan: the keys found so far are of those already passed, once each, and all that
  stayed are among them (`ScanOK`). Of a table: a cursor leads on from a chunk of one snapshot, with as many pages before it as there are
  chunks with a match (`Leads`), the load either begins a listing or goes on with the one on the page (`Begins`, `GoesOn`), and what is
  shown is a part (`ShowsPart`, `TableOK`). `DocumentsAre` is the search itself: reading on while a chunk holds no
  match, it ends at the next part or behind the last. The hypothesis `GuardSuffices` is needed: a request gives up after
  `SCAN_GUARD` pages without a match and answers an empty page that leads on.

### WorkspaceProofs

From `WorkspaceAssumption`, for any backends, profiles, workspaces, data sources and tokens, any number
of chains at once, and every subset of the environment's events, overlapping acts of the user included:

| Theorem | Says |
|---|---|
| `WorkspaceTyped` | `Spec => []TypeOK` |
| `NothingIsLeaked` | `Spec => []NothingLeaks` |
| `SettledScreenIsTrue` | `Spec => []SettledIsTrue` |
| `ReloadsKeepPlace` | `Spec => ReloadKeepsPlace` |

Four invariants, each proved with those before it:

* `Typed` (`AlwaysTyped`). What a chain has still to do is one of 28 sequences, and each step leads from one to
  another; an answer fits the request it answers; a token that is kept or on its way was issued. The server list
  names every server once, which is why removing one leaves the others.
* `Undisturbed` (`AlwaysUndisturbed`). While the user waits for each chain, whatever else fails or
  interferes: of two chains under way each is a load (`Alone`); each request under way went to the server
  that is still selected, with its token (`SentHere`); and the lists are of that server, or a load is under way that will
  replace them. So the two loads of a server switch overlap with each other only.
* `Guarding` (`AlwaysGuarding`). Requests may fail as well: a guarded answer was given to somebody who is still signed in,
  a login's token is alive, and a screen that says "signed out" is empty or about to be emptied by a load.
* `Clean` (`AlwaysClean`). When nothing failed or interfered since the page was loaded, each of three parts of the
  screen is what the server holds for this user *or* a chain is under way that will bring it
  (`Awaited`: some chains will in any case, others, a creation or a deletion, once their request was carried out). This needs that
  an answer not yet taken is what the server would still say (`Fresh1`): two loads may take their
  answers in any order because both are fresh. It also needs that a chain that goes on to select or
  to list data sources does so with a workspace that exists (`Prepared`). `SavedTrue` and `StatusTrue` say the same of
  `localStorage` and the status. The status is exempted once the selected server's
  address was edited, as the property is.

A settled state has no chain under way, so what is there or awaited is there: this gives the three properties.

## 6. Where code and intention differ

Four runs are expected to find a violation; each finding is a trace of the code's
own steps against a sentence of the repository.

* `accounts_role_edit`: `PUT /api/admin/roles/:roleId` checks nothing, so emptying
  the admin role leaves no admin, against "At least one enabled admin user must
  remain" (`admin-routes.ts:29`), which the other routes enforce.
* `table_editor_footer`: a row that is edited, marked deleted and restored becomes clean and keeps its edit
  (`ExtendedDataTable.vue:664`); the footer says "Everything saved" (`GenericTableView.vue:296`) and Save skips the row.
* `pages_end_of_list`: the last entry that fills a page becomes the cursor (`s3/adapter.ts:281-306`), but a batch gives
  its objects before its folders: a folder whose name sorts before that of the object is skipped, and the table ends with "End of list"
  (`ObjectStorageResourceTable.vue:202`).
* `clickhouse_create`: `createDefaultTableSchema` of the ClickHouse dialect puts a primary key
  into a new table's drawing, which the dialog does not show and `buildKeyDefinition` refuses,
  against "Create a simple ClickHouse table from columns only" (`sql-dialect.ts:53`).

The following came up while modelling. Each is in the models, or in the assumptions of section 3;
many are at a line of `hazards` in `PROJECT.json`.

*Server.* With MySQL two handlers may both pass the check for a remaining admin and together remove
the last two. The OpenID callback with an existing account's address in mixed case fails, though
`docs/deploy/oidc.md` says that it matches by email; another subject with a linked account's
address signs in to it without linking. The admin view that saves a user overwrites the workspace
access given meanwhile; "none" leaves grants for single sources and for all workspaces. A secret
can be cleared only by typing a space; a MongoDB uri with credentials is not redacted. A crash
during the first migration makes the store refused for good; a source named twice in the bootstrap file
fails the first start but not the next; a project whose slug was changed is created again. `close`
ends the store before the listener. Desktop: two windows after a failed start leak a backend, an
interrupted copy of the legacy folder is never resumed, a torn configuration reads as defaults.

*SQL.* `diffNamedItems` loses a new entry named like a renamed one; toggling
auto increment or primary key of an existing column gives "No changes"; edits in sections that are shown but not
written are dropped; a retry after a failed apply repeats the statements that ran; a
failed or overtaken load leaves another table's schema and Apply alters the wrong one. Swapped names fail, as does
replacing the only column. Oracle looks a lower-case table up in upper case; MySQL's
unquoted `COLUMN_DEFAULT` is sent back as it is; a changed default of SQL Server is one script of three statements
(`mssql/table-schema-dialect.ts:220-223`), which the query route cuts at its semicolons and runs apart, so that Apply fails; ClickHouse keeps a cleared default; the
default key name collides for a second table on Postgres, MSSQL and Oracle. A save whose COMMIT is not acknowledged is reported as failed although it was written. Saves in
a table without a key may hit both of two equal rows; an update of no row counts as a success; pages ordered by
a column that is not unique may repeat rows.

*Pages.* When the first request for a table's details fails, the page stays loading until the user asks for rows by page or
filter (`SQLTableView.vue:625-638`). `saveChanges` logs "Changes saved"
and ignores that its `loadRows` failed (`:453-458`); then, and when its answer is lost, the inserted rows stay new
("Unsaved changes on current page", `GenericTableView.vue:294`) and the next save inserts them again. A field typed in the MongoDB viewer that is no column is not saved, a field
removed there is saved as null, and `discardChanges` logs "Changes discarded" when its query was not sent.

*Window.* The token of a login and the clearing of a logout go to the server that is selected when the
answer arrives (`auth-store.ts:95`). Opening a source while the list is stale gives a tab with the wrong
workspace; an opening under way during a deletion opens a tab of the deleted source; the strip's menu acts on the
position it was opened at; closing a changed tab asks nothing. Members and edit dialogs
take late answers of another workspace or source.

*Browsers and consoles.* A next page is appended to another folder's listing when answers overlap; picks outlive a new
object's folder, and Delete then removes what is not on the screen; a failed or late preview stays under a
new selection; a tab that opens at a bucket takes its name for an object (`trimSlashes` in `resolveObjectStorageInitialState`), shows
the source's buckets as its preview, and offers to delete what the adapter then refuses; a failed deletion leaves a part deleted and the listing old. Redis: a search with `*` finds nothing,
keys beyond the limit are dropped, `""` arguments too, GETDEL and GETEX count as reading. Convex: after a failed
search the next page is the first again. SQL: MySQL's backslash quotes, Postgres' `$$` bodies and triggers are cut
wrongly; MSSQL shows only the first recordset; after a failure the earlier statements stay applied and their
results are not shown; the first answer of two runs takes the running flag down.

## 7. Not modelled, and only model-checked

Only model-checked:

* liveness (`IdleTunnelCloses`, `WaitersAreAnswered`, `SaveEnds`), for which the prover has no rules;
* `SchemaIsApplied` and `KeptStays`: the comparison of two drawings and the order of statements are operators over seven dialects,
  and the property compares a whole database with a whole drawing;
* `RowsAreTrue`: the statements of eight adapters, placeholders and all, against the request row by row;
* `ConsoleIsTrue`: the splitter and the parser are folds over texts, compared with a reference over all positions.

Not modelled at all: UI components, styles, static assets and the documentation site, which have no state a
property could speak of; likewise the export of results, the generic data source view, the parts of the admin
view that edit names, roles' labels and API keys, and the routing of `App.vue`.

Left out of the components that are modelled:

* `SshTunnel`: bytes forwarded through a tunnel, host key fingerprints, the
  parsing of SSH settings; two settings with the same key are the same key.
* `Accounts`: names, passwords, API keys. No guard of these handlers depends on them.
* `TableEditor`: a reader's page, which has no edits to save, selection and keyboard movement, several editable columns, sort
  clauses (they change as filters do), query text, the open cell editor.
* `DocumentEditor`: a change of collection, index or page size, the boxes that set skip,
  limit, from and size directly, filters (a query is or is no JSON and selects fields),
  nested values, text in a cell that does not parse, the list of collections.
* `Workspace`: the desktop build's IPC (its backend is `Desktop`), a locked server, onboarding and the
  OpenID redirect as the page sees them (`SignIn` has the server's side), route changes.
* `Access`: one user is followed, whose roles stay as they are; API keys. `Sources`: of a configuration only secrets and the tunnel.
* `SqlAdapters`, `SqlDialects`, `SchemaEditor`: quoting, the text of statements, the rendering of types. A database is what
  its statements do to one table's columns and entries, not their dependencies on one another.
* `QueryConsole`: values, completion, the export menu, the text's meaning beyond where it is cut.
* `ObjectBrowser`, `ListBrowsers`: contents, sizes, types, time to live, the tables built of values.
* `Desktop`: menus, icons, the file picker.

## 8. Plan

What is left is mostly to prove. No module has a RECURSIVE operator, so each can carry theorems. In this order:

1. `QueryConsole`: `ShownIsWhatRan`, whose invariant relates runs under way to what is shown, as `Asking` does in `DocumentEditorProofs`.
2. `SqlRows`: that a save is done as a whole or not at all (`RunSaveStatement`, `Rollback`, `Commit`), whatever the statements.
3. `SchemaEditor`: that a failed apply loses nothing that was kept, dialect by dialect.

Then a meta store on MySQL in `Startup` and `SignIn`, whose handlers interleave, and several editable columns in
`TableEditor` with the statements of `SqlAdapters` behind it.
