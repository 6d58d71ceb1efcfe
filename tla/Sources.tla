-------------------------------- MODULE Sources --------------------------------
(***************************************************************************)
(* The data sources of a workspace and their secrets: the routes that      *)
(* list, create, change and delete them, what the server keeps of a        *)
(* configuration, and the dialog in which two browsers edit them.          *)
(*                                                                         *)
(* A list shows a stored secret as Marker.  The dialog shows it blank, and *)
(* a field left blank is not sent, so the server keeps what it has by then.*)
(* Of a configuration only secrets and the tunnel's switch and method are  *)
(* followed (its passphrase and the keys of TLS are treated like these).   *)
(* The server handles a request at one point (SQLite) and the answer       *)
(* arrives with it; requests are handled in any order.                     *)
(***************************************************************************)
EXTENDS Naturals, FiniteSets

CONSTANTS
  Browsers,
  SourceIds,       \* also the names that may be entered
  Secrets,         \* what may be typed into a secret's field
  Cases,           \* what a behaviour is about: some types, some secrets, and
                   \* how their fields may be filled: [types, paths, fills]
  First,           \* the secret that a source had before
  MaxSourceSteps,  \* bound: dialogs opened and sources deleted
  MaxRequests      \* bound: requests under way

Empty == ""
Marker == "__STARQUERY_REDACTED__"
Missing == "missing"
Space == " "

ASSUME SourcesAssumption == MaxSourceSteps \in Nat /\ MaxRequests \in Nat /\ First \notin Secrets

VARIABLES
  mode,        \* of the server: local or server
  scope,       \* the case of this behaviour
  stored,      \* data_sources
  lists,       \* what each browser's workspace store last loaded
  form,        \* CreateDataSourceDialog of each browser
  requests,    \* on their way to the server
  typed,       \* history: the secrets each browser's user typed
  sourceSteps

sourceVars == <<mode, scope, stored, lists, form, requests, typed, sourceSteps>>

-----------------------------------------------------------------------------
(* The types, as each module of the two registries declares them: the      *)
(* fields that are secret, those without which the server refuses.         *)

SshSecrets == {"ssh.password", "ssh.privateKey"}
Kind(secretFields, needs, tunnel, localOnly) ==
  [secrets |-> secretFields \cup (IF tunnel THEN SshSecrets ELSE {}), needs |-> needs,
   tunnel |-> tunnel, localOnly |-> localOnly]

MysqlSource == Kind({"password"}, {"password"}, TRUE, FALSE)
MariaDbSource == Kind({"password"}, {"password"}, TRUE, FALSE)
PostgresSource == Kind({"password"}, {"password"}, TRUE, FALSE)
CockroachDbSource == Kind({"password"}, {"password"}, TRUE, FALSE)
MssqlSource == Kind({"password"}, {"password"}, TRUE, FALSE)
OracleSource == Kind({"password"}, {"password"}, TRUE, FALSE)
ClickHouseSource == Kind({"password"}, {}, TRUE, FALSE)
CassandraSource == Kind({"password"}, {}, TRUE, FALSE)
RedisSource == Kind({"password"}, {}, TRUE, FALSE)
MongoDbSource == Kind({"password"}, {}, TRUE, FALSE)
ElasticsearchSource == Kind({"password", "apiKey"}, {}, TRUE, FALSE)
S3Source == Kind({"secretKey", "sessionToken"}, {"secretKey"}, TRUE, FALSE)
MinioSource == Kind({"secretKey", "sessionToken"}, {"secretKey"}, TRUE, FALSE)
ConvexSource == Kind({"adminKey", "authToken"}, {}, FALSE, FALSE)
SqliteSource == Kind({}, {}, FALSE, TRUE)
DuckDbSource == Kind({}, {}, FALSE, TRUE)

SecretPaths == {"password", "apiKey", "secretKey", "sessionToken", "adminKey", "authToken"} \cup SshSecrets

Modules ==
  [mysql |-> MysqlSource, mariadb |-> MariaDbSource, postgres |-> PostgresSource,
   cockroachdb |-> CockroachDbSource, mssql |-> MssqlSource, oracle |-> OracleSource,
   clickhouse |-> ClickHouseSource, cassandra |-> CassandraSource, redis |-> RedisSource,
   mongodb |-> MongoDbSource, elasticsearch |-> ElasticsearchSource, s3 |-> S3Source,
   minio |-> MinioSource, convex |-> ConvexSource, sqlite |-> SqliteSource, duckdb |-> DuckDbSource]

SourceTypes == DOMAIN Modules

ASSUME CasesAssumption ==
  \A c \in Cases : c.types \subseteq SourceTypes /\ c.fills \subseteq [c.paths -> {Empty, Space} \cup Secrets]

Module(type) == Modules[type]

IsAvailable(type) == Module(type).localOnly => mode = "local"

Blank == [f \in SecretPaths |-> Empty]
NoSource == [name |-> Empty, type |-> "none", config |-> Blank, ssh |-> FALSE, method |-> "password"]
Gone == [NoSource EXCEPT !.type = "deleted"]
Exists(s) == s \notin {NoSource, Gone}
Closed == [open |-> "no", id |-> "none", name |-> Empty, type |-> "none", config |-> Blank,
           ssh |-> FALSE, method |-> "password", redacted |-> {}, source |-> NoSource]

Trimmed(v) == IF v = Space THEN Empty ELSE v

-----------------------------------------------------------------------------
(* The server.                                                             *)

\* normalizeSshTunnelConfig: the secret of the other method is dropped.
TunnelSecret(method) == IF method = "password" THEN "ssh.password" ELSE "ssh.privateKey"
TunnelAccepted(r) == r.ssh => Trimmed(r.config[TunnelSecret(r.method)]) # Empty

\* normalizeDataSourceConfig: only the fields of the type are kept.
KeptPaths(r) ==
  IF Module(r.type).tunnel THEN Module(r.type).secrets \ (SshSecrets \ {TunnelSecret(r.method)})
  ELSE Module(r.type).secrets
MayBeStored(r) ==
  /\ \A f \in Module(r.type).needs : Trimmed(r.config[f]) # Empty
  /\ Module(r.type).tunnel => TunnelAccepted(r)

Normalized_Whole(r) ==
  [r EXCEPT !.config = [f \in SecretPaths |-> Trimmed(r.config[f])]]
Normalized(r) ==
  [name |-> r.name, type |-> r.type,
   config |-> [f \in SecretPaths |-> IF f \in KeptPaths(r) THEN Trimmed(r.config[f]) ELSE Empty],
   ssh |-> Module(r.type).tunnel /\ r.ssh,
   method |-> IF Module(r.type).tunnel THEN r.method ELSE "password"]

\* sanitizeDataSourceRecord.
Sanitized(s) ==
  IF ~Exists(s) THEN NoSource
  ELSE [s EXCEPT !.config = [f \in SecretPaths |->
          IF f \in Module(s.type).secrets /\ s.config[f] # Empty THEN Marker ELSE s.config[f]]]

Listed(records) ==
  [id \in SourceIds |-> IF Exists(records[id]) /\ ~IsAvailable(records[id].type) THEN NoSource
                        ELSE Sanitized(records[id])]

\* mergeDataSourceConfig: a secret that is missing, or sent as it was shown,
\* stays as it is stored now.
MergedSecret_Cleared(current, patch) == IF patch \in {Missing, Marker} THEN Empty ELSE patch
MergedSecret(current, patch) == IF patch \in {Missing, Marker} THEN current ELSE patch
Merged(source, patch) ==
  [name |-> patch.name, type |-> patch.type, ssh |-> patch.ssh, method |-> patch.method,
   config |-> [f \in SecretPaths |-> MergedSecret(source.config[f], patch.config[f])]]

\* The unique index on project and name.
NameIsFree(name, id) == \A other \in SourceIds \ {id} : stored[other].name # name

-----------------------------------------------------------------------------
(* The dialog.                                                             *)

\* createDataSourceFormState: what is redacted is shown blank.
FormState(how, id, type, s, edited) ==
  [open |-> how, id |-> id, type |-> type, source |-> edited,
   name |-> s.name, ssh |-> s.ssh, method |-> s.method, config |-> Blank,
   redacted |-> {f \in SecretPaths : s.config[f] = Marker}]

\* buildDataSourcePayload with stripRedactedSecrets: a redacted field that is
\* blank is left out, any other blank field of the type is sent blank.
Payload(f) == [f EXCEPT !.config = [p \in SecretPaths |->
  IF p \notin Module(f.type).secrets \/ (p \in f.redacted /\ f.config[p] = Empty) THEN Missing ELSE f.config[p]]]

Filled(f, path) == Trimmed(f.config[path]) # Empty \/ path \in f.redacted

\* canSubmit of the definitions, and of the tunnel's section.
TunnelCanSubmit(f) == f.ssh => Filled(f, TunnelSecret(f.method))
SqlCanSubmit(f) ==
  (f.type \in {"clickhouse", "cassandra"} \/ Filled(f, "password")) /\ TunnelCanSubmit(f)
RedisCanSubmit(f) == TunnelCanSubmit(f)
MongoDbCanSubmit(f) == TunnelCanSubmit(f)
ElasticsearchCanSubmit(f) == TunnelCanSubmit(f)
S3CanSubmit(f) == Filled(f, "secretKey") /\ TunnelCanSubmit(f)
MinioCanSubmit(f) == Filled(f, "secretKey") /\ TunnelCanSubmit(f)
ConvexCanSubmit(f) == Filled(f, "adminKey")

CanSubmit(f) ==
  f.name # Empty /\ CASE f.type = "redis" -> RedisCanSubmit(f) [] f.type = "mongodb" -> MongoDbCanSubmit(f)
    [] f.type = "elasticsearch" -> ElasticsearchCanSubmit(f) [] f.type = "s3" -> S3CanSubmit(f)
    [] f.type = "minio" -> MinioCanSubmit(f) [] f.type = "convex" -> ConvexCanSubmit(f)
    [] Module(f.type).localOnly -> TRUE [] OTHER -> SqlCanSubmit(f)

-----------------------------------------------------------------------------
SourcesTypeOK ==
  /\ mode \in {"local", "server"} /\ scope \in Cases
  /\ \A id \in SourceIds : stored[id].type \in SourceTypes \cup {"none", "deleted"} /\ DOMAIN stored[id].config = SecretPaths
  /\ \A b \in Browsers :
       /\ DOMAIN lists[b] = SourceIds /\ typed[b] \subseteq Secrets
       /\ form[b].open \in {"no", "create", "edit"} /\ form[b].redacted \subseteq SecretPaths
  /\ \A r \in requests : r.browser \in Browsers /\ r.how \in {"create", "edit", "delete"}
  /\ sourceSteps \in 0..MaxSourceSteps

\* Somebody created a source with all its secrets.
FirstSource(id, type) ==
  Normalized([name |-> id, type |-> type, config |-> [f \in SecretPaths |-> First], ssh |-> FALSE,
              method |-> "password"])

FirstId == CHOOSE id \in SourceIds : TRUE

SourcesInit ==
  /\ mode \in {"local", "server"} /\ scope \in Cases
  /\ \E type \in {t \in scope.types : IsAvailable(t)} :
       stored = [[i \in SourceIds |-> NoSource] EXCEPT ![FirstId] = FirstSource(FirstId, type)]
  /\ lists = [b \in Browsers |-> Listed(stored)]
  /\ form = [b \in Browsers |-> Closed]
  /\ requests = {} /\ typed = [b \in Browsers |-> {}] /\ sourceSteps = 0

MayOpen(b) == form[b].open = "no" /\ sourceSteps < MaxSourceSteps /\ sourceSteps' = sourceSteps + 1

OpenCreate(b, type, name) ==
  /\ MayOpen(b) /\ type \in scope.types /\ IsAvailable(type)
  /\ form' = [form EXCEPT ![b] = [FormState("create", "none", type, NoSource, NoSource) EXCEPT !.name = name]]
  /\ UNCHANGED <<mode, scope, stored, lists, requests, typed>>

OpenEdit(b, id) ==
  /\ MayOpen(b) /\ Exists(lists[b][id])
  /\ form' = [form EXCEPT ![b] = FormState("edit", id, lists[b][id].type, lists[b][id], lists[b][id])]
  /\ UNCHANGED <<mode, scope, stored, lists, requests, typed>>

CloseDialog(b) ==
  /\ form[b].open # "no"
  /\ form' = [form EXCEPT ![b] = Closed]
  /\ UNCHANGED <<mode, scope, stored, lists, requests, typed, sourceSteps>>

\* The watch on the type: the form starts again, from the source when it has
\* that type.
ChooseType(b, type) ==
  LET f == form[b]  from == IF f.source.type = type THEN f.source ELSE NoSource IN
  /\ f.open # "no" /\ type \in scope.types \ {f.type} /\ IsAvailable(type)
  /\ form' = [form EXCEPT ![b] = [FormState(f.open, f.id, type, from, f.source)
                                    EXCEPT !.name = f.name]]
  /\ UNCHANGED <<mode, scope, stored, lists, requests, typed, sourceSteps>>

\* The fields of the type's form, filled in one step.
TypeSecrets(b, values) ==
  LET mine == Module(form[b].type).secrets \cap scope.paths IN
  /\ form[b].open # "no" /\ form[b].config = Blank
  /\ \E f \in mine : values[f] # Empty
  /\ form' = [form EXCEPT ![b].config = [f \in SecretPaths |-> IF f \in mine THEN values[f] ELSE Empty]]
  /\ typed' = [typed EXCEPT ![b] = @ \cup ({values[f] : f \in mine} \cap Secrets)]
  /\ UNCHANGED <<mode, scope, stored, lists, requests, sourceSteps>>

\* TransportConfigSections.
SetTunnel(b, on, method) ==
  /\ form[b].open # "no" /\ Module(form[b].type).tunnel /\ scope.paths \cap SshSecrets # {}
  /\ <<on, method>> # <<form[b].ssh, form[b].method>>
  /\ form' = [form EXCEPT ![b].ssh = on, ![b].method = method]
  /\ UNCHANGED <<mode, scope, stored, lists, requests, typed, sourceSteps>>

\* The button stays enabled while a request is under way.
Submit(b) ==
  /\ form[b].open # "no" /\ CanSubmit(form[b]) /\ Cardinality(requests) < MaxRequests
  /\ requests' = requests \cup 
       {[browser |-> b, how |-> form[b].open, id |-> form[b].id, patch |-> Payload(form[b])]}
  /\ UNCHANGED <<mode, scope, stored, lists, form, typed, sourceSteps>>

\* deleteDatasource of the sidebar.
AskDelete(b, id) ==
  /\ sourceSteps < MaxSourceSteps /\ sourceSteps' = sourceSteps + 1
  /\ Exists(lists[b][id]) /\ Cardinality(requests) < MaxRequests
  /\ requests' = requests \cup {[browser |-> b, how |-> "delete", id |-> id, patch |-> Closed]}
  /\ UNCHANGED <<mode, scope, stored, lists, form, typed>>

-----------------------------------------------------------------------------
(* The routes; after a success the browser lists the sources again, and    *)
(* closes the dialog of that kind, whichever source it is then about.      *)

Done(r) ==
  /\ lists' = [lists EXCEPT ![r.browser] = Listed(stored')]
  /\ form' = [form EXCEPT ![r.browser] = IF @.open = r.how THEN Closed ELSE @]

Refused == UNCHANGED <<stored, lists, form>>
Writable(r) == MayBeStored(r) /\ IsAvailable(r.type)

Create(r) ==
  LET asked == [r.patch EXCEPT !.config = [f \in SecretPaths |-> IF @[f] = Missing THEN Empty ELSE @[f]]] IN
  /\ r.how = "create"
  /\ \/ /\ Writable(asked) /\ NameIsFree(asked.name, "none")
        /\ \E id \in SourceIds : stored[id] = NoSource /\ stored' = [stored EXCEPT ![id] = Normalized(asked)]
        /\ Done(r)
     \/ ~(Writable(asked) /\ NameIsFree(asked.name, "none")) /\ Refused
  /\ requests' = requests \ {r}
  /\ UNCHANGED <<mode, scope, typed, sourceSteps>>

Update(r) ==
  LET next == Merged(stored[r.id], r.patch)
      allowed == Exists(stored[r.id]) /\ Writable(next) /\ NameIsFree(next.name, r.id) IN
  /\ r.how = "edit"
  /\ \/ allowed /\ stored' = [stored EXCEPT ![r.id] = Normalized(next)] /\ Done(r)
     \/ ~allowed /\ Refused
  /\ requests' = requests \ {r}
  /\ UNCHANGED <<mode, scope, typed, sourceSteps>>

Delete(r) ==
  /\ r.how = "delete"
  /\ \/ Exists(stored[r.id]) /\ stored' = [stored EXCEPT ![r.id] = Gone] /\ Done(r)
     \/ ~Exists(stored[r.id]) /\ Refused
  /\ requests' = requests \ {r}
  /\ UNCHANGED <<mode, scope, typed, sourceSteps>>

\* refreshDataSources, for any other reason.
Refresh(b) ==
  /\ lists' = [lists EXCEPT ![b] = Listed(stored)]
  /\ UNCHANGED <<mode, scope, stored, form, requests, typed, sourceSteps>>

SourcesNext ==
  \/ \E b \in Browsers, type \in SourceTypes, name \in SourceIds : OpenCreate(b, type, name)
  \/ \E b \in Browsers, type \in SourceTypes : ChooseType(b, type)
  \/ \E b \in Browsers, id \in SourceIds : OpenEdit(b, id) \/ AskDelete(b, id)
  \/ \E b \in Browsers, values \in scope.fills : TypeSecrets(b, values)
  \/ \E b \in Browsers, on \in BOOLEAN, m \in {"password", "privateKey"} : SetTunnel(b, on, m)
  \/ \E b \in Browsers : CloseDialog(b) \/ Submit(b) \/ Refresh(b)
  \/ \E r \in requests : Create(r) \/ Update(r) \/ Delete(r)

-----------------------------------------------------------------------------
\* A browser never holds a stored secret its user did not type, in a list or
\* in the dialog, whatever types a source had before; and the marker is never
\* stored or sent as if it were a secret.
SecretsStayHidden ==
  /\ \A b \in Browsers, f \in SecretPaths :
       /\ \A id \in SourceIds : lists[b][id].config[f] \in {Empty, Marker}
       /\ form[b].config[f] \in {Empty, Space} \cup typed[b]
  /\ \A id \in SourceIds, f \in SecretPaths : stored[id].config[f] \in {Empty, First} \cup Secrets

\* A stored secret changes only into one that was typed for it, and goes only
\* when the source goes, its type or tunnel method no longer has it, or the
\* dialog that was submitted did not show it as saved: never because a field
\* shown as saved was left blank, however long ago the dialog was opened.
SecretsAreKept ==
  \A id \in SourceIds, f \in SecretPaths :
    (Exists(stored[id]) /\ stored'[id].config[f] # stored[id].config[f]) =>
      \/ ~Exists(stored'[id])
      \/ \E r \in requests : r.id = id /\
            \/ r.patch.config[f] \in Secrets \cup {Space} /\ stored'[id].config[f] = Trimmed(r.patch.config[f])
            \/ stored'[id].config[f] = Empty /\ (f \notin KeptPaths(r.patch) \/ f \notin r.patch.redacted)

\* Nothing secret leaves the store that was not typed in that browser, and
\* nothing that is no secret enters it.
SecretsAreSafe == SourcesTypeOK /\ SecretsStayHidden
=============================================================================
