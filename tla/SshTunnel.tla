----------------------------- MODULE SshTunnel -----------------------------
(***************************************************************************)
(* The SSH tunnel manager of the backend (SshTunnelManager, in             *)
(* datasources/shared/ssh-tunnel-manager.ts), with the callers that take   *)
(* and return its tunnels: withSqlAdapter, withResourceAdapter and the     *)
(* object-download route.                                                  *)
(*                                                                         *)
(* Data-source requests share one tunnel per key.  An entry is created by  *)
(* the first acquireTunnel of a key, becomes ready when the ssh2 client    *)
(* connects and the local listener is bound, counts its users in refCount, *)
(* and is closed 30 seconds after the last of them released it, or when    *)
(* the connection is lost, or by closeAll when the server shuts down.      *)
(*                                                                         *)
(* Node's event loop decides which steps may interleave: a callback (a     *)
(* timer, an I/O event) starts only when no promise continuation is        *)
(* pending.  The continuations this code can have pending are those of     *)
(* `await entry.ready' (pc = "resuming") and, queued behind them, the      *)
(* release of a request that failed without waiting for I/O                *)
(* (pc = "unwinding").  Drained says that there is none.                   *)
(***************************************************************************)
EXTENDS Integers, FiniteSets

CONSTANTS
  Keys,          \* tunnel keys: the JSON of the SSH settings and the target
  Entries,       \* TunnelEntry objects; each is allocated at most once
  KeyOf,         \* entry.key, which never changes
  NoEntry,       \* `undefined', where an entry is looked up or captured
  Requests,      \* request handlers that use a data source over SSH
  Downloads,     \* those that run the object-download route
  WithShutdown,  \* whether the server may be asked to close
  QuietClose     \* whether ssh2 may emit 'close' with no 'error' before 'ready'

ASSUME ConstantsAssumption ==
  /\ NoEntry \notin Entries
  /\ KeyOf \in [Entries -> Keys]
  /\ IsFiniteSet(Requests)
  /\ Downloads \subseteq Requests
  /\ WithShutdown \in BOOLEAN
  /\ QuietClose \in BOOLEAN

VARIABLES
  map,        \* the manager's Map from keys to entries
  phase,      \* the promise entry.ready: not created, pending, settled
  refCount,   \* entry.refCount
  armed,      \* the timer entry.closeTimer refers to is pending
  closed,     \* entry.closed
  listener,   \* entry.server, the local listener
  client,     \* the ssh2 client of the entry
  pc,         \* where each request is
  on,         \* the entry captured by the request's acquireTunnel call
  gone,       \* the request's response has emitted 'close'
  closing     \* server.close() has run closeAll

entryVars == <<map, phase, refCount, armed, closed, listener, client>>
requestVars == <<pc, on, gone>>
vars == <<entryVars, requestVars, closing>>

Phases == {"unborn", "pending", "resolved", "rejected"}
ListenerStates == {"none", "bound", "closed", "failed"}
ClientStates == {"none", "connecting", "up", "ending", "gone"}
PCs == {"idle", "waiting", "resuming", "using", "unwinding", "streaming", "stuck"}

\* The requests that hold a tunnel: past `refCount += 1', not yet released.
Holding == {"using", "unwinding", "streaming", "stuck"}
Holders(e) == {r \in Requests : on[r] = e /\ pc[r] \in Holding}
Waiters(e) == {r \in Requests : on[r] = e /\ pc[r] = "waiting"}

Drained == \A r \in Requests : pc[r] \notin {"resuming", "unwinding"}

EntriesTypeOK ==
  /\ map \in [Keys -> Entries \cup {NoEntry}]
  /\ phase \in [Entries -> Phases]
  /\ armed \in [Entries -> BOOLEAN]
  /\ closed \in [Entries -> BOOLEAN]
  /\ listener \in [Entries -> ListenerStates]
  /\ client \in [Entries -> ClientStates]

RequestsTypeOK ==
  /\ pc \in [Requests -> PCs]
  /\ on \in [Requests -> Entries \cup {NoEntry}]
  /\ gone \in [Requests -> BOOLEAN]

TypeOK ==
  /\ EntriesTypeOK
  /\ refCount \in [Entries -> Nat]
  /\ RequestsTypeOK
  /\ closing \in BOOLEAN

Init ==
  /\ map = [k \in Keys |-> NoEntry]
  /\ phase = [e \in Entries |-> "unborn"]
  /\ refCount = [e \in Entries |-> 0]
  /\ armed = [e \in Entries |-> FALSE]
  /\ closed = [e \in Entries |-> FALSE]
  /\ listener = [e \in Entries |-> "none"]
  /\ client = [e \in Entries |-> "none"]
  /\ pc = [r \in Requests |-> "idle"]
  /\ on = [r \in Requests |-> NoEntry]
  /\ gone = [r \in Requests |-> FALSE]
  /\ closing = FALSE

-----------------------------------------------------------------------------
(* closeEntry, and what it shares with the failure path of acquireTunnel.  *)

\* (Each operator named X_... is a faulty variant of X: the project's mutants
\* put one in the place of X to show that a property notices.)

\* `entries.delete(key)': by key, whatever entry the key maps to now.
Unmap_Forgotten(S) == UNCHANGED map
Unmap(S) == map' = [k \in Keys |-> IF \E e \in S : KeyOf[e] = k THEN NoEntry ELSE map[k]]

\* The synchronous part of closeEntry, for the entries of S not yet closed.
CloseEntries(S) ==
  LET T == {e \in S : ~closed[e]}
  IN  /\ closed' = [e \in Entries |-> closed[e] \/ e \in T]
      /\ armed' = [e \in Entries |-> armed[e] /\ e \notin T]
      /\ Unmap(T)

\* What it then does with entry.server and entry.client of the same entries.
CloseListeners_Forgotten(S, how) == UNCHANGED listener
CloseListeners(S, how) ==
  listener' = [e \in Entries |->
                 IF e \in S /\ ~closed[e] /\ listener[e] = "bound" THEN how ELSE listener[e]]

EndClients(S) ==
  client' = [e \in Entries |->
               IF e \in S /\ ~closed[e] /\ client[e] \in {"connecting", "up"}
               THEN "ending" ELSE client[e]]

\* The requests waiting for e.ready continue, or fail and answer an error.
Wake(e) == pc' = [r \in Requests |-> IF r \in Waiters(e) THEN "resuming" ELSE pc[r]]
Reject_Forgotten(e) == UNCHANGED <<pc, on>>
Reject(e) == /\ pc' = [r \in Requests |-> IF r \in Waiters(e) THEN "idle" ELSE pc[r]]
             /\ on' = [r \in Requests |-> IF r \in Waiters(e) THEN NoEntry ELSE on[r]]

-----------------------------------------------------------------------------
(* The handlers that take a tunnel.                                        *)

\* `clearTimeout(entry.closeTimer)'.
Disarm_Forgotten(e) == UNCHANGED armed
Disarm(e) == armed' = [armed EXCEPT ![e] = FALSE]

\* acquireTunnel when the key has an entry: join it, and disarm its timer.
AcquireShared(r, k) ==
  LET e == map[k]
  IN  /\ Drained /\ pc[r] = "idle"
      /\ e # NoEntry
      /\ Disarm(e)
      /\ on' = [on EXCEPT ![r] = e]
      /\ pc' = [pc EXCEPT ![r] = IF phase[e] = "pending" THEN "waiting" ELSE "resuming"]
      /\ gone' = [gone EXCEPT ![r] = FALSE]
      /\ UNCHANGED <<map, phase, refCount, closed, listener, client, closing>>

\* acquireTunnel when it has none: create one and start to connect.
AcquireNew(r, e) ==
  LET k == KeyOf[e]
  IN  /\ Drained /\ pc[r] = "idle"
      /\ map[k] = NoEntry
      /\ phase[e] = "unborn"
      /\ map' = [map EXCEPT ![k] = e]
      /\ phase' = [phase EXCEPT ![e] = "pending"]
      /\ client' = [client EXCEPT ![e] = "connecting"]
      /\ on' = [on EXCEPT ![r] = e]
      /\ pc' = [pc EXCEPT ![r] = "waiting"]
      /\ gone' = [gone EXCEPT ![r] = FALSE]
      /\ UNCHANGED <<refCount, armed, closed, listener, closing>>

\* The continuation of `await entry.ready'.  The handler then waits for I/O,
\* or fails at once (its adapter could not even start to connect).
Resume(r) ==
  /\ pc[r] = "resuming"
  /\ refCount' = [refCount EXCEPT ![on[r]] = @ + 1]
  /\ \/ pc' = [pc EXCEPT ![r] = "using"]
     \/ r \notin Downloads /\ pc' = [pc EXCEPT ![r] = "unwinding"]
  /\ UNCHANGED <<map, phase, armed, closed, listener, client,
                 on, gone, closing>>

\* The references left once one is returned.
Left_Same(e) == refCount[e]
Left_Two(e) == refCount[e] - 2
Left(e) == IF refCount[e] = 0 THEN 0 ELSE refCount[e] - 1

\* The `release' of the tunnel r holds, and the end of r.
Release(r) ==
  LET e == on[r]
  IN  /\ IF closed[e]
         THEN UNCHANGED <<refCount, armed>>
         ELSE /\ refCount' = [refCount EXCEPT ![e] = Left(e)]
              /\ armed' = [armed EXCEPT ![e] = @ \/ Left(e) <= 0]
      /\ pc' = [pc EXCEPT ![r] = "idle"]
      /\ on' = [on EXCEPT ![r] = NoEntry]
      /\ UNCHANGED <<map, phase, closed, listener, client, gone, closing>>

\* withSqlAdapter and withResourceAdapter: the callback settled, `finally'.
Finish(r) == Drained /\ pc[r] = "using" /\ r \notin Downloads /\ Release(r)

\* The same, without I/O: behind every continuation already queued.
FinishAtOnce(r) ==
  /\ pc[r] = "unwinding"
  /\ \A s \in Requests : pc[s] # "resuming"
  /\ Release(r)

\* The download route subscribes to 'finish' and 'close' of the response only
\* after it awaited the adapter: a response closed by then never releases.
StreamObject(r) ==
  /\ Drained /\ pc[r] = "using" /\ r \in Downloads
  /\ pc' = [pc EXCEPT ![r] = IF gone[r] THEN "stuck" ELSE "streaming"]
  /\ UNCHANGED <<entryVars, on, gone, closing>>

ResponseEnds(r) == Drained /\ pc[r] = "streaming" /\ Release(r)

ResponseLost(r) ==
  /\ Drained /\ r \in Downloads /\ ~gone[r]
  /\ pc[r] \in {"waiting", "using"}
  /\ gone' = [gone EXCEPT ![r] = TRUE]
  /\ UNCHANGED <<entryVars, pc, on, closing>>

-----------------------------------------------------------------------------
(* Events of the ssh2 client, of the local listener and of the timers.     *)

\* `server.listen', awaited before entry.ready resolves.
Bind(e) == listener' = [listener EXCEPT ![e] = "bound"]

\* 'ready': createTunnel binds the listener and entry.ready resolves, all
\* before the next callback.  Authentication may have succeeded just before
\* a client.end() that closeEntry issued, so a closed entry can get here.
ClientReady(e) ==
  /\ Drained
  /\ phase[e] = "pending" /\ client[e] \in {"connecting", "ending"}
  /\ phase' = [phase EXCEPT ![e] = "resolved"]
  /\ Bind(e)
  /\ client' = [client EXCEPT ![e] = IF @ = "connecting" THEN "up" ELSE @]
  /\ Wake(e)
  /\ UNCHANGED <<map, refCount, armed, closed, on, gone, closing>>

\* 'error' before 'ready', or 'error' of the listener while it binds: the
\* promise rejects and its catch handler drops the key and closes the entry.
TunnelFails(e) ==
  /\ Drained
  /\ phase[e] = "pending" /\ client[e] \in {"connecting", "ending"}
  /\ phase' = [phase EXCEPT ![e] = "rejected"]
  /\ closed' = [closed EXCEPT ![e] = TRUE]
  /\ client' = [client EXCEPT ![e] = "ending"]
  /\ Unmap({e})
  /\ Reject(e)
  /\ UNCHANGED <<refCount, armed, listener, gone, closing>>

\* 'close' of the client.
ClientClose(e) ==
  /\ Drained
  /\ \/ client[e] \in {"up", "ending"}
     \/ QuietClose /\ client[e] = "connecting"
  /\ client' = [client EXCEPT ![e] = "gone"]
  /\ CloseEntries({e}) /\ CloseListeners({e}, "closed")
  /\ UNCHANGED <<phase, refCount, requestVars, closing>>

\* 'error' of the bound listener.
ListenerFails(e) ==
  /\ Drained /\ listener[e] = "bound"
  /\ CloseEntries({e}) /\ CloseListeners({e}, "failed") /\ EndClients({e})
  /\ UNCHANGED <<phase, refCount, requestVars, closing>>

\* The idle timer: the callback does not look at refCount again.
IdleTimer(e) ==
  /\ Drained /\ armed[e]
  /\ CloseEntries({e}) /\ CloseListeners({e}, "closed") /\ EndClients({e})
  /\ UNCHANGED <<phase, refCount, requestVars, closing>>

\* server.close(): closeAll, for every entry of the map.
CloseAll ==
  /\ Drained /\ WithShutdown /\ ~closing
  /\ closing' = TRUE
  /\ LET S == {e \in Entries : \E k \in Keys : map[k] = e}
     IN  CloseEntries(S) /\ CloseListeners(S, "closed") /\ EndClients(S)
  /\ UNCHANGED <<phase, refCount, requestVars>>

-----------------------------------------------------------------------------
RequestStep(r) ==
  \/ \E k \in Keys : AcquireShared(r, k)
  \/ \E e \in Entries : AcquireNew(r, e)
  \/ Resume(r) \/ Finish(r) \/ FinishAtOnce(r)
  \/ StreamObject(r) \/ ResponseEnds(r) \/ ResponseLost(r)

EntryStep(e) ==
  \/ ClientReady(e) \/ TunnelFails(e) \/ ClientClose(e)
  \/ ListenerFails(e) \/ IdleTimer(e)

Next ==
  \/ \E r \in Requests : RequestStep(r)
  \/ \E e \in Entries : EntryStep(e)
  \/ CloseAll

Spec == Init /\ [][Next]_vars

(***************************************************************************)
(* Fairness.  The event loop runs queued continuations (Resume,            *)
(* FinishAtOnce) and due timers; a timer can only be kept waiting by       *)
(* callbacks that come first, hence SF.  Queries and transfers end.  Every *)
(* attempt of ssh2 to connect comes to an end (it has a handshake timeout, *)
(* and a client that is ended closes), but nothing says to which one:      *)
(* 'ready', 'error', or 'close' alone, which settles no promise.           *)
(***************************************************************************)
AttemptEnds(e) ==
  \/ ClientReady(e) \/ TunnelFails(e)
  \/ phase[e] = "pending" /\ ClientClose(e)

Fairness ==
  /\ \A r \in Requests :
       /\ WF_vars(Resume(r)) /\ WF_vars(FinishAtOnce(r))
       /\ SF_vars(Finish(r)) /\ SF_vars(StreamObject(r)) /\ SF_vars(ResponseEnds(r))
  /\ \A e \in Entries :
       SF_vars(IdleTimer(e)) /\ SF_vars(AttemptEnds(e))

FairSpec == Spec /\ Fairness

-----------------------------------------------------------------------------
(* Properties.                                                             *)

\* A request waits only for an entry that is still connecting, and holds or is
\* about to hold only one that connected; an entry nobody acquired has no
\* client, listener or user.  (What the other invariants rest on.)
LinksConsistent ==
  /\ \A r \in Requests :
       /\ on[r] = NoEntry <=> pc[r] = "idle"
       /\ pc[r] = "waiting" => phase[on[r]] = "pending"
       /\ pc[r] \in (Holding \cup {"resuming"}) => phase[on[r]] = "resolved"
  /\ \A e \in Entries : phase[e] = "unborn" =>
       ~closed[e] /\ client[e] = "none" /\ listener[e] = "none"

\* The map never holds an entry that is closed or that could not connect: a
\* request never joins a dead tunnel, whatever order the events come in.
MappedIsAlive ==
  \A k \in Keys : map[k] # NoEntry =>
    ~closed[map[k]] /\ KeyOf[map[k]] = k /\ phase[map[k]] \in {"pending", "resolved"}

\* refCount is the number of requests that hold the tunnel and have not yet
\* released it, at every point where another callback can see it.
RefCountExact ==
  \A e \in Entries : ~closed[e] => refCount[e] = Cardinality(Holders(e))

\* The idle timer never runs on a tunnel that is in use or about to be: its
\* callback closes the tunnel without looking at refCount, so it must be the
\* case that an acquire between its start and its end disarms it.  So no
\* release can overwrite closeTimer while the timer it refers to is pending.
IdleTimerIsSafe ==
  \A e \in Entries : armed[e] =>
    /\ ~closed[e] /\ phase[e] = "resolved"
    /\ \A r \in Requests : on[r] = e => pc[r] \notin (Holding \cup {"resuming"})

\* As long as the server is not shutting down: a listener that accepts
\* connections belongs to the entry its key maps to, so nothing is left
\* listening that no one can find, and a request that is about to be handed
\* the local port of a tunnel is handed one that is listening.
ListenersAreMapped == \A e \in Entries : listener[e] = "bound" => map[KeyOf[e]] = e
HandedPortIsOpen == \A r \in Requests : pc[r] = "resuming" => listener[on[r]] = "bound"
PortsAreServed == ~closing => ListenersAreMapped /\ HandedPortIsOpen

\* The manager is a pool of shared tunnels (TunnelPool):
\* it opens one tunnel per key, lends only open ones, and gives one up while
\* requests use it only when the connection itself was lost or at shutdown.
PoolStatus(e) ==
  IF phase[e] = "unborn" THEN "none"
  ELSE IF client[e] = "gone" \/ listener[e] = "failed" \/ phase[e] = "rejected" THEN "lost"
  ELSE IF closed[e] THEN "retired"
  ELSE IF phase[e] = "pending" THEN "opening"
  ELSE "open"

Pool == INSTANCE TunnelPool WITH
  Tunnels <- Entries, Users <- Requests, Place <- KeyOf,
  status <- [e \in Entries |-> PoolStatus(e)],
  users <- [e \in Entries |-> Holders(e)],
  down <- closing

ImplementsPool == Pool!PoolSpec

\* A tunnel without users is closed by its timer, unless it is used again.
IdleTunnelCloses ==
  \A e \in Entries :
    (phase[e] = "resolved" /\ ~closed[e] /\ Holders(e) = {})
      ~> (closed[e] \/ Holders(e) # {})

\* The attempt r waits for is over and left entry.ready as it was: the client
\* closed without an error before it was ready (the 'close' handler of
\* createTunnel closes the entry and settles nothing).
Stranded(r) ==
  LET e == on[r]
  IN  /\ pc[r] = "waiting" /\ phase[e] = "pending" /\ client[e] = "gone"
      /\ closed[e] /\ map[KeyOf[e]] # e

\* A request that waits for a tunnel gets it, or an error, whatever else
\* happens to the entry, a shutdown included.  One outcome of an attempt does
\* leave its waiters without an answer, and only that one: a 'close' with no
\* 'error' before 'ready'.  It strands nobody else: the entry is out of the
\* map, so that the next request for the key opens a tunnel of its own.
WaitersAreAnswered ==
  \A r \in Requests : (pc[r] = "waiting") ~> (pc[r] # "waiting" \/ Stranded(r))
=============================================================================
