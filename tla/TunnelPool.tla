----------------------------- MODULE TunnelPool -----------------------------
(***************************************************************************)
(* What the SSH tunnel manager promises the requests that share tunnels,   *)
(* with no entries, timers, promises or counters: until a shutdown at most *)
(* one live tunnel per key, users only of tunnels that are open, and a     *)
(* tunnel that has users goes away only because its connection did, or in  *)
(* a shutdown.                                                             *)
(***************************************************************************)
CONSTANTS
  Tunnels,  \* tunnels, each opened at most once
  Users,    \* the requests
  Place     \* the key of each tunnel

VARIABLES
  status,   \* of each tunnel
  users,    \* of each tunnel
  down      \* whether the pool was shut down

poolVars == <<status, users, down>>

Statuses == {"none", "opening", "open", "retired", "lost"}
Live(t) == status[t] \in {"opening", "open"}

PoolTypeOK ==
  /\ status \in [Tunnels -> Statuses]
  /\ users \in [Tunnels -> SUBSET Users]
  /\ down \in BOOLEAN

PoolInit ==
  /\ status = [t \in Tunnels |-> "none"]
  /\ users = [t \in Tunnels |-> {}]
  /\ down = FALSE

\* After a shutdown the pool no longer knows what it opened: an attempt given
\* up while it was opening may take another tunnel's place in the pool along.
Open(t) ==
  /\ status[t] = "none"
  /\ down \/ \A s \in Tunnels : Place[s] = Place[t] => ~Live(s)
  /\ status' = [status EXCEPT ![t] = "opening"]
  /\ UNCHANGED <<users, down>>

Opened(t) ==
  /\ status[t] = "opening"
  /\ status' = [status EXCEPT ![t] = "open"]
  /\ UNCHANGED <<users, down>>

Join(t, u) ==
  /\ status[t] = "open" \/ down
  /\ \A s \in Tunnels : u \notin users[s]
  /\ users' = [users EXCEPT ![t] = @ \cup {u}]
  /\ UNCHANGED <<status, down>>

Leave(t, u) ==
  /\ u \in users[t]
  /\ users' = [users EXCEPT ![t] = @ \ {u}]
  /\ UNCHANGED <<status, down>>

Retire(t) ==
  /\ status[t] = "open" /\ users[t] = {}
  /\ status' = [status EXCEPT ![t] = "retired"]
  /\ UNCHANGED <<users, down>>

\* The connection is gone, before or after the pool gave the tunnel up.
Lose(t) ==
  /\ status[t] \in {"opening", "open", "retired"}
  /\ status' = [status EXCEPT ![t] = "lost"]
  /\ UNCHANGED <<users, down>>

\* Every live tunnel is given up, used or not; a request that was waiting for
\* one may still be handed it.
ShutDown ==
  /\ ~down /\ down' = TRUE
  /\ status' = [t \in Tunnels |-> IF Live(t) THEN "retired" ELSE status[t]]
  /\ UNCHANGED users

PoolNext ==
  \/ ShutDown
  \/ \E t \in Tunnels :
       \/ Open(t) \/ Opened(t) \/ Retire(t) \/ Lose(t)
       \/ \E u \in Users : Join(t, u) \/ Leave(t, u)

PoolSpec == PoolInit /\ [][PoolNext]_poolVars
=============================================================================
