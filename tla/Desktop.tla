-------------------------------- MODULE Desktop --------------------------------
(***************************************************************************)
(* Electron's main process: the user data folder taken over from an older  *)
(* version, the configuration file, the local backend that the windows are *)
(* given the URL of, and quitting.                                         *)
(*                                                                         *)
(* startLocalBackend awaits before it assigns localBackend, so its callers *)
(* (the start of the app, and one call for each window that asks) overlap. *)
(* The app may be killed at any time; what is on disk stays.               *)
(***************************************************************************)
EXTENDS Naturals, FiniteSets

CONSTANTS
  Callers,       \* "ready" and the windows' calls
  WindowConfigs, \* what a window may save
  MaxBackends,   \* bound: backends started by one process
  MaxLaunches    \* bound

ASSUME DesktopAssumption == "ready" \in Callers /\ {MaxBackends, MaxLaunches} \subseteq Nat

Backends == 1..MaxBackends
None == 0

VARIABLES
  running, launches,
  userData,      \* the folder: none, copying (a copy that did not end), there
  legacy,        \* the older version's folder and the file in it
  disk,          \* the configuration file: none, torn or what was saved
  writing,       \* a write of the file that did not end
  loaded,        \* what a window read of it
  localBackend, backends,
  callers,       \* where each call of startLocalBackend is, and the backend it closes or starts
  handed,        \* backends whose URL a window was given
  quitting

desktopVars == <<running, launches, userData, legacy, disk, writing, loaded,
                 localBackend, backends, callers, handed, quitting>>
files == <<userData, legacy, disk, writing, loaded>>
process == <<localBackend, backends, callers, handed, quitting>>

Idle == [at |-> "idle", starts |-> None]
\* The app asks once; a window may ask again.
Asked(c) == [at |-> IF c = "ready" THEN "done" ELSE "idle", starts |-> None]

DesktopTypeOK ==
  /\ running \in BOOLEAN /\ launches \in 0..MaxLaunches
  /\ userData \in {"none", "copying", "there"} /\ legacy \in {"absent"} \cup WindowConfigs
  /\ disk \in {"none", "torn"} \cup WindowConfigs /\ writing \in {"no"} \cup WindowConfigs
  /\ loaded \in {"nothing", "defaults"} \cup WindowConfigs
  /\ localBackend \in {None} \cup Backends
  /\ backends \in [Backends -> {"unused", "starting", "up", "down"}]
  /\ callers \in [Callers -> [at : {"idle", "closing", "starting", "done"}, starts : {None} \cup Backends]]
  /\ handed \subseteq Backends /\ quitting \in {"no", "closing"}

NoProcess ==
  /\ localBackend = None /\ backends = [b \in Backends |-> "unused"]
  /\ callers = [c \in Callers |-> Idle] /\ handed = {} /\ quitting = "no"

DesktopInit ==
  /\ running = FALSE /\ launches = 0
  /\ userData = "none" /\ legacy \in {"absent"} \cup WindowConfigs
  /\ disk = "none" /\ writing = "no" /\ loaded = "nothing"
  /\ NoProcess

-----------------------------------------------------------------------------
\* The folder is taken over only when the new one does not exist.
Launch ==
  /\ ~running /\ launches < MaxLaunches
  /\ running' = TRUE /\ launches' = launches + 1
  /\ userData' = IF userData = "none" /\ legacy # "absent" THEN "copying" ELSE "there"
  /\ UNCHANGED <<legacy, disk, writing, loaded, process>>

CopyLegacy ==
  /\ running /\ userData = "copying"
  /\ userData' = "there" /\ disk' = IF disk = "none" THEN legacy ELSE disk
  /\ UNCHANGED <<running, launches, legacy, writing, loaded, process>>

ProcessEnds ==
  /\ running' = FALSE /\ localBackend' = None /\ backends' = [b \in Backends |-> "unused"]
  /\ callers' = [c \in Callers |-> Idle] /\ handed' = {} /\ quitting' = "no"
  /\ loaded' = "nothing" /\ writing' = "no"

\* Killed: a file being written stays torn, a copy is not taken up again.
Kill ==
  /\ running /\ ProcessEnds
  /\ disk' = IF writing = "no" THEN disk ELSE "torn"
  /\ UNCHANGED <<launches, userData, legacy>>

\* The windows' calls are registered once the first start has ended.
Working == running /\ userData = "there" /\ callers["ready"].at = "done"
IsListening(b) == b # None /\ backends[b] = "up"

-----------------------------------------------------------------------------
(* startLocalBackend.                                                      *)

MustStart_Always == TRUE
MustStart == ~IsListening(localBackend)

IsFresh(b) == \A other \in Backends : other < b <=> backends[other] # "unused"

StartAnother(c) ==
  \E b \in Backends :
    /\ IsFresh(b)
    /\ backends' = [backends EXCEPT ![b] = "starting"]
    /\ callers' = [callers EXCEPT ![c] = [at |-> "starting", starts |-> b]]

\* Called by the app when it is ready, and by a window.
AskBackend(c) ==
  /\ running /\ userData = "there" /\ callers[c] = Idle
  /\ c # "ready" => Working
  /\ IF ~MustStart
     THEN handed' = (IF c = "ready" THEN handed ELSE handed \cup {localBackend})
          /\ UNCHANGED <<backends, callers>>
     ELSE IF localBackend # None
     THEN /\ callers' = [callers EXCEPT ![c] = [at |-> "closing", starts |-> localBackend]]
          /\ UNCHANGED <<backends, handed>>
     ELSE StartAnother(c) /\ UNCHANGED handed
  /\ UNCHANGED <<running, launches, files, localBackend, quitting>>

\* The backend found stale was closed: whatever the reference names by now is
\* dropped, and a new one starts.
StaleClosed(c) ==
  /\ running /\ callers[c].at = "closing"
  /\ \E b \in Backends :
       /\ IsFresh(b)
       /\ backends' = [backends EXCEPT ![callers[c].starts] = "down", ![b] = "starting"]
       /\ callers' = [callers EXCEPT ![c] = [at |-> "starting", starts |-> b]]
  /\ localBackend' = None
  /\ UNCHANGED <<running, launches, files, handed, quitting>>

\* The backend listens; the window gets the URL of localBackend, which the
\* call has just assigned.
Started(c) ==
  LET b == callers[c].starts IN
  /\ running /\ callers[c].at = "starting"
  /\ backends' = [backends EXCEPT ![b] = "up"]
  /\ localBackend' = b
  /\ handed' = IF c = "ready" THEN handed ELSE handed \cup {b}
  /\ callers' = [callers EXCEPT ![c] = Asked(c)]
  /\ UNCHANGED <<running, launches, files, quitting>>

StartFails(c) ==
  /\ running /\ callers[c].at = "starting"
  /\ backends' = [backends EXCEPT ![callers[c].starts] = "down"]
  /\ callers' = [callers EXCEPT ![c] = Asked(c)]
  /\ UNCHANGED <<running, launches, files, localBackend, handed, quitting>>

-----------------------------------------------------------------------------
(* before-quit: the first asks the backend to close, which ends its store  *)
(* and then its listener; then the app quits.                              *)

BeforeQuit ==
  /\ running /\ userData = "there" /\ quitting = "no" /\ writing = "no"
  /\ quitting' = "closing"
  /\ UNCHANGED <<running, launches, files, localBackend, backends, callers, handed>>

StopListening ==
  /\ quitting = "closing" /\ IsListening(localBackend)
  /\ backends' = [backends EXCEPT ![localBackend] = "down"]
  /\ UNCHANGED <<running, launches, files, localBackend, callers, handed, quitting>>

Quit ==
  /\ quitting = "closing" /\ ProcessEnds
  /\ UNCHANGED <<launches, userData, legacy, disk>>

-----------------------------------------------------------------------------
(* The configuration file, through the preload script's calls.             *)

LoadConfig ==
  /\ Working /\ writing = "no"
  /\ loaded' = IF disk \in WindowConfigs THEN disk ELSE "defaults"
  /\ UNCHANGED <<running, launches, userData, legacy, disk, writing, process>>

\* writeFileSync empties the file before it writes.
SaveConfig(config) ==
  /\ Working /\ loaded # "nothing" /\ writing = "no"
  /\ writing' = config
  /\ UNCHANGED <<running, launches, userData, legacy, disk, loaded, process>>

Saved ==
  /\ running /\ writing # "no"
  /\ disk' = writing /\ writing' = "no" /\ loaded' = writing
  /\ UNCHANGED <<running, launches, userData, legacy, process>>

DesktopNext ==
  \/ Launch \/ CopyLegacy \/ Kill \/ BeforeQuit \/ StopListening \/ Quit \/ LoadConfig \/ Saved
  \/ \E c \in Callers : AskBackend(c) \/ StaleClosed(c) \/ Started(c) \/ StartFails(c)
  \/ \E config \in WindowConfigs : SaveConfig(config)

-----------------------------------------------------------------------------
\* A URL that a window was given is served until the app quits: two windows
\* that ask at once, a start that failed before or a second start do not take
\* it away.
HandedUrlIsServed == quitting = "no" => \A b \in handed : backends[b] = "up"

\* The windows' URLs stay good, and the app has at most the backends it
\* started.
BackendIsSafe == DesktopTypeOK /\ HandedUrlIsServed
=============================================================================
