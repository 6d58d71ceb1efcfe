--------------------------- MODULE SshTunnelProofs ---------------------------
(***************************************************************************)
(* The SSH tunnel manager for any sets of keys, entries and requests, with *)
(* or without a shutdown: the reference count is exact, the idle timer     *)
(* never closes a tunnel in use, open ports are served, and the manager    *)
(* implements the pool of shared tunnels.                                  *)
(***************************************************************************)
EXTENDS SshTunnel, FiniteSetTheorems, TLAPS

\* The initial state, and then every step, has the declared types.
LEMMA InitTypeOK == Init => TypeOK
<1> SUFFICES ASSUME Init PROVE TypeOK
  OBVIOUS
<1> USE ConstantsAssumption
    DEF Init, Phases, PCs, ClientStates, ListenerStates
<1>1. EntriesTypeOK
  BY DEF EntriesTypeOK
<1>2. RequestsTypeOK
  BY DEF RequestsTypeOK
<1>3. refCount \in [Entries -> Nat] /\ closing \in BOOLEAN
  OBVIOUS
<1> QED
  BY <1>1, <1>2, <1>3 DEF TypeOK

\* Every step, of a request, of an entry's client, listener or timer, or of the
\* shutdown, keeps the types.
LEMMA NextTypeOK == TypeOK /\ [Next]_vars => TypeOK'
<1> USE ConstantsAssumption
    DEF TypeOK, EntriesTypeOK, RequestsTypeOK, Phases, PCs, ClientStates, ListenerStates, Waiters
<1> SUFFICES ASSUME TypeOK, [Next]_vars PROVE TypeOK'
  OBVIOUS
<1>1. ASSUME NEW r \in Requests, RequestStep(r) PROVE TypeOK'
  <2>1. ASSUME NEW k \in Keys, AcquireShared(r, k) PROVE TypeOK'
    BY <2>1 DEF AcquireShared, Disarm
  <2>2. ASSUME NEW e \in Entries, AcquireNew(r, e) PROVE TypeOK'
    BY <2>2 DEF AcquireNew
  <2>3. CASE Resume(r)
    <3>1. EntriesTypeOK' /\ closing' \in BOOLEAN
      BY <2>3 DEF Resume
    <3>2. RequestsTypeOK'
      BY <2>3 DEF Resume
    <3>3. refCount' \in [Entries -> Nat]
      <4>1. refCount' = [e \in Entries |-> IF e = on[r] THEN refCount[e] + 1 ELSE refCount[e]]
        BY <2>3, Zenon DEF Resume
      <4> QED
        BY <4>1
    <3> QED
      BY <3>1, <3>2, <3>3
  <2>4. ASSUME Release(r) PROVE TypeOK'
    <3>1. EntriesTypeOK' /\ closing' \in BOOLEAN
      BY <2>4 DEF Release, Left
    <3>2. RequestsTypeOK'
      BY <2>4 DEF Release, Left
    <3>3. refCount' \in [Entries -> Nat]
      <4>1. \A e \in Entries : Left(e) \in Nat
        BY DEF Left
      <4>2. CASE closed[on[r]]
        BY <2>4, <4>2 DEF Release
      <4>3. CASE ~closed[on[r]]
        <5>1. refCount' = [e \in Entries |-> IF e = on[r] THEN Left(e) ELSE refCount[e]]
          BY <2>4, <4>3, Zenon DEF Release
        <5> QED
          BY <4>1, <5>1
      <4> QED
        BY <4>2, <4>3
    <3> QED
      BY <3>1, <3>2, <3>3
  <2>5. CASE StreamObject(r)
    BY <2>5 DEF StreamObject, entryVars
  <2>6. CASE ResponseLost(r)
    BY <2>6 DEF ResponseLost, entryVars
  <2> QED
    BY <1>1, <2>1, <2>2, <2>3, <2>4, <2>5, <2>6
    DEF RequestStep, Finish, FinishAtOnce, ResponseEnds
<1>2. ASSUME NEW e \in Entries, EntryStep(e) PROVE TypeOK'
  <2> USE DEF CloseEntries, CloseListeners, EndClients, Unmap, requestVars
  <2>1. CASE ClientReady(e)
    BY <2>1 DEF ClientReady, Bind, Wake
  <2>2. CASE TunnelFails(e)
    BY <2>2 DEF TunnelFails, Reject
  <2>3. CASE ClientClose(e)
    BY <2>3 DEF ClientClose
  <2>4. CASE ListenerFails(e)
    BY <2>4 DEF ListenerFails
  <2>5. CASE IdleTimer(e)
    BY <2>5 DEF IdleTimer
  <2> QED
    BY <1>2, <2>1, <2>2, <2>3, <2>4, <2>5 DEF EntryStep
<1>3. CASE CloseAll
  BY <1>3 DEF CloseAll, CloseEntries, CloseListeners, EndClients, Unmap, requestVars
<1>4. CASE UNCHANGED vars
  BY <1>4 DEF vars, entryVars, requestVars
<1> QED
  BY <1>1, <1>2, <1>3, <1>4 DEF Next

\* Type correctness of the manager's entries and of the requests' captures.
THEOREM TypeCorrect == Spec => []TypeOK
BY InitTypeOK, NextTypeOK, PTL DEF Spec

-----------------------------------------------------------------------------
(* The inductive invariant.                                                *)

IInv ==
  /\ TypeOK
  /\ LinksConsistent
  /\ MappedIsAlive
  /\ RefCountExact
  /\ IdleTimerIsSafe

\* The manager starts with no entries and no users.
LEMMA InitIInv == Init => IInv
<1> SUFFICES ASSUME Init PROVE IInv
  OBVIOUS
<1> USE ConstantsAssumption DEF Init
<1>1. TypeOK
  BY InitTypeOK
<1>2. LinksConsistent
  BY DEF LinksConsistent, Holding
<1>3. MappedIsAlive
  BY DEF MappedIsAlive
<1>4. RefCountExact
  <2> SUFFICES ASSUME NEW e \in Entries PROVE refCount[e] = Cardinality(Holders(e))
    BY DEF RefCountExact
  <2>1. Holders(e) = {}
    BY DEF Holders, Holding
  <2> QED
    BY <2>1, FS_EmptySet
<1>5. IdleTimerIsSafe
  BY DEF IdleTimerIsSafe
<1> QED
  BY <1>1, <1>2, <1>3, <1>4, <1>5 DEF IInv

-----------------------------------------------------------------------------
(* Each conjunct of the invariant is preserved by every step.              *)

\* A request keeps waiting only while its entry is pending, and an entry is
\* settled before anyone counts as its user.
LEMMA NextLinks == IInv /\ [Next]_vars => LinksConsistent'
<1> SUFFICES ASSUME IInv, [Next]_vars PROVE LinksConsistent'
  OBVIOUS
<1> USE ConstantsAssumption
    DEF IInv, LinksConsistent, TypeOK, EntriesTypeOK, RequestsTypeOK, Holding, Phases, PCs
<1>1. ASSUME NEW r \in Requests, RequestStep(r) PROVE LinksConsistent'
  <2>1. ASSUME NEW k \in Keys, AcquireShared(r, k) PROVE LinksConsistent'
    BY <2>1 DEF AcquireShared, Disarm, MappedIsAlive
  <2>2. ASSUME NEW e \in Entries, AcquireNew(r, e) PROVE LinksConsistent'
    BY <2>2 DEF AcquireNew
  <2>3. CASE Resume(r)
    BY <2>3 DEF Resume
  <2>4. ASSUME Release(r), pc[r] \in Holding PROVE LinksConsistent'
    BY <2>4 DEF Release, Left
  <2>5. CASE StreamObject(r)
    BY <2>5 DEF StreamObject, entryVars
  <2>6. CASE ResponseLost(r)
    BY <2>6 DEF ResponseLost, entryVars
  <2> QED
    BY <1>1, <2>1, <2>2, <2>3, <2>4, <2>5, <2>6
    DEF RequestStep, Finish, FinishAtOnce, ResponseEnds
<1>2. ASSUME NEW e \in Entries, EntryStep(e) PROVE LinksConsistent'
  <2> USE DEF CloseEntries, CloseListeners, EndClients, Unmap, requestVars
  <2>1. CASE ClientReady(e)
    BY <2>1 DEF ClientReady, Bind, Wake, Waiters
  <2>2. CASE TunnelFails(e)
    BY <2>2 DEF TunnelFails, Reject, Waiters
  <2>3. CASE ClientClose(e)
    BY <2>3 DEF ClientClose
  <2>4. CASE ListenerFails(e)
    BY <2>4 DEF ListenerFails
  <2>5. CASE IdleTimer(e)
    BY <2>5 DEF IdleTimer, IdleTimerIsSafe
  <2> QED
    BY <1>2, <2>1, <2>2, <2>3, <2>4, <2>5 DEF EntryStep
<1>3. CASE CloseAll
  BY <1>3 DEF CloseAll, CloseEntries, CloseListeners, EndClients, Unmap, requestVars, MappedIsAlive
<1>4. CASE UNCHANGED vars
  BY <1>4 DEF vars, entryVars, requestVars
<1> QED
  BY <1>1, <1>2, <1>3, <1>4 DEF Next

\* Whatever closes an entry takes it out of the map, and only an entry that was
\* never used before enters it.
LEMMA NextMapped == IInv /\ [Next]_vars => MappedIsAlive'
<1> SUFFICES ASSUME IInv, [Next]_vars PROVE MappedIsAlive'
  OBVIOUS
<1> USE ConstantsAssumption
    DEF IInv, LinksConsistent, MappedIsAlive, TypeOK, EntriesTypeOK, Phases
<1>1. ASSUME NEW r \in Requests, RequestStep(r) PROVE MappedIsAlive'
  <2>1. ASSUME NEW k \in Keys, AcquireShared(r, k) PROVE MappedIsAlive'
    BY <2>1 DEF AcquireShared, Disarm
  <2>2. ASSUME NEW e \in Entries, AcquireNew(r, e) PROVE MappedIsAlive'
    BY <2>2 DEF AcquireNew
  <2>3. CASE Resume(r)
    BY <2>3 DEF Resume
  <2>4. ASSUME Release(r) PROVE MappedIsAlive'
    BY <2>4 DEF Release, Left
  <2>5. CASE StreamObject(r)
    BY <2>5 DEF StreamObject, entryVars
  <2>6. CASE ResponseLost(r)
    BY <2>6 DEF ResponseLost, entryVars
  <2> QED
    BY <1>1, <2>1, <2>2, <2>3, <2>4, <2>5, <2>6
    DEF RequestStep, Finish, FinishAtOnce, ResponseEnds
<1>2. ASSUME NEW e \in Entries, EntryStep(e) PROVE MappedIsAlive'
  <2> USE DEF CloseEntries, Unmap, requestVars
  <2>1. CASE ClientReady(e)
    BY <2>1 DEF ClientReady, Bind, Wake
  <2>2. CASE TunnelFails(e)
    BY <2>2 DEF TunnelFails, Reject
  <2>3. CASE ClientClose(e)
    BY <2>3 DEF ClientClose
  <2>4. CASE ListenerFails(e)
    BY <2>4 DEF ListenerFails
  <2>5. CASE IdleTimer(e)
    BY <2>5 DEF IdleTimer
  <2> QED
    BY <1>2, <2>1, <2>2, <2>3, <2>4, <2>5 DEF EntryStep
<1>3. CASE CloseAll
  BY <1>3 DEF CloseAll, CloseEntries, Unmap, requestVars
<1>4. CASE UNCHANGED vars
  BY <1>4 DEF vars, entryVars, requestVars
<1> QED
  BY <1>1, <1>2, <1>3, <1>4 DEF Next

\* The users of a tunnel can be counted.
LEMMA HoldersFinite ==
  ASSUME NEW e PROVE IsFiniteSet(Holders(e)) /\ Cardinality(Holders(e)) \in Nat
<1>1. Holders(e) \in SUBSET Requests
  BY DEF Holders
<1>2. IsFiniteSet(Requests)
  BY ConstantsAssumption DEF ConstantsAssumption
<1>3. IsFiniteSet(Holders(e))
  BY <1>1, <1>2, FS_Subset
<1> QED
  BY <1>3, FS_CardinalityType

\* A release that leaves the count of an open tunnel at zero leaves no user.
LEMMA LastRelease ==
  ASSUME IInv, NEW r \in Requests, pc[r] \in Holding, ~closed[on[r]],
         ~ refCount[on[r]] - 1 > 0
  PROVE  Holders(on[r]) = {r}
<1> DEFINE H == Holders(on[r])
<1>1. on[r] \in Entries
  BY ConstantsAssumption DEF IInv, TypeOK, RequestsTypeOK, LinksConsistent, Holding
<1>2. r \in H
  BY DEF Holders
<1>3. IsFiniteSet(H) /\ Cardinality(H) \in Nat
  BY HoldersFinite
<1>4. IsFiniteSet(H \ {r}) /\ Cardinality(H \ {r}) = Cardinality(H) - 1
  BY <1>2, <1>3, FS_RemoveElement
<1>5. Cardinality(H \ {r}) \in Nat
  BY <1>4, FS_CardinalityType
<1>6. refCount[on[r]] = Cardinality(H)
  BY <1>1 DEF IInv, RefCountExact
<1>7. Cardinality(H \ {r}) = 0
  BY <1>3, <1>4, <1>5, <1>6
<1>8. H \ {r} = {}
  BY <1>4, <1>7, FS_EmptySet
<1> QED
  BY <1>2, <1>8

\* The last release arms the timer when nobody is left, not even a request whose
\* continuation is queued; the next acquire disarms it before it counts.
LEMMA NextTimer == IInv /\ [Next]_vars => IdleTimerIsSafe'
<1> SUFFICES ASSUME IInv, [Next]_vars PROVE IdleTimerIsSafe'
  OBVIOUS
<1> USE ConstantsAssumption
    DEF IInv, LinksConsistent, MappedIsAlive, IdleTimerIsSafe, TypeOK, EntriesTypeOK,
        RequestsTypeOK, Phases, PCs, Holding
<1>1. ASSUME NEW r \in Requests, RequestStep(r) PROVE IdleTimerIsSafe'
  <2>1. ASSUME NEW k \in Keys, AcquireShared(r, k) PROVE IdleTimerIsSafe'
    BY <2>1 DEF AcquireShared, Disarm
  <2>2. ASSUME NEW e \in Entries, AcquireNew(r, e) PROVE IdleTimerIsSafe'
    BY <2>2 DEF AcquireNew
  <2>3. CASE Resume(r)
    BY <2>3 DEF Resume
  <2>4. ASSUME Release(r), pc[r] \in Holding, \A s \in Requests : pc[s] # "resuming"
        PROVE IdleTimerIsSafe'
    <3>1. on[r] \in Entries /\ phase[on[r]] = "resolved"
      BY <2>4
    <3>2. SUFFICES ASSUME NEW e \in Entries, armed'[e], NEW s \in Requests, on'[s] = e
                   PROVE ~closed[e] /\ phase[e] = "resolved"
                         /\ pc'[s] \notin (Holding \cup {"resuming"})
      <4>1. ASSUME NEW e \in Entries, armed'[e] PROVE ~closed[e] /\ phase[e] = "resolved"
        BY <2>4, <3>1, <4>1 DEF Release, Left
      <4> QED
        BY <2>4, <3>2, <4>1 DEF Release, Left
    <3>3. ~closed[e] /\ phase[e] = "resolved"
      BY <2>4, <3>1, <3>2 DEF Release, Left
    <3>4. s # r /\ on[s] = e /\ pc'[s] = pc[s]
      <4>1. on' = [on EXCEPT ![r] = NoEntry] /\ pc' = [pc EXCEPT ![r] = "idle"]
        BY <2>4, Zenon DEF Release, Left
      <4> QED
        BY <3>2, <4>1 DEF ConstantsAssumption
    <3>5. CASE armed[e]
      BY <3>4, <3>5
    <3>6. CASE ~armed[e]
      <4>1. e = on[r] /\ ~closed[on[r]] /\ ~(refCount[on[r]] - 1 > 0)
        BY <2>4, <3>1, <3>2, <3>6 DEF Release, Left
      <4>2. Holders(on[r]) = {r}
        BY <2>4, <4>1, LastRelease
      <4> QED
        BY <2>4, <3>4, <4>1, <4>2 DEF Holders
    <3> QED
      BY <3>3, <3>5, <3>6
  <2>5. CASE StreamObject(r)
    BY <2>5 DEF StreamObject, entryVars
  <2>6. CASE ResponseLost(r)
    BY <2>6 DEF ResponseLost, entryVars
  <2> QED
    BY <1>1, <2>1, <2>2, <2>3, <2>4, <2>5, <2>6
    DEF RequestStep, Finish, FinishAtOnce, ResponseEnds, Drained
<1>2. ASSUME NEW e \in Entries, EntryStep(e) PROVE IdleTimerIsSafe'
  <2> USE DEF CloseEntries, requestVars
  <2>1. CASE ClientReady(e)
    BY <2>1 DEF ClientReady, Bind, Wake, Waiters
  <2>2. CASE TunnelFails(e)
    BY <2>2 DEF TunnelFails, Reject, Waiters
  <2>3. CASE ClientClose(e)
    BY <2>3 DEF ClientClose
  <2>4. CASE ListenerFails(e)
    BY <2>4 DEF ListenerFails
  <2>5. CASE IdleTimer(e)
    BY <2>5 DEF IdleTimer
  <2> QED
    BY <1>2, <2>1, <2>2, <2>3, <2>4, <2>5 DEF EntryStep
<1>3. CASE CloseAll
  BY <1>3 DEF CloseAll, CloseEntries, requestVars
<1>4. CASE UNCHANGED vars
  BY <1>4 DEF vars, entryVars, requestVars
<1> QED
  BY <1>1, <1>2, <1>3, <1>4 DEF Next

\* A step that changes neither the counts nor the users keeps the counts exact.
LEMMA SameUsers ==
  ASSUME IInv, UNCHANGED refCount,
         \A e \in Entries : ~closed'[e] => ~closed[e],
         \A e \in Entries : Holders(e)' = Holders(e)
  PROVE  RefCountExact'
BY DEF IInv, RefCountExact

\* Only a continuation of acquireTunnel and a release change the users of an
\* entry that stays open, and each changes its count by one.
LEMMA NextRefCount == IInv /\ [Next]_vars => RefCountExact'
<1> SUFFICES ASSUME IInv, [Next]_vars PROVE RefCountExact'
  OBVIOUS
<1> USE ConstantsAssumption DEF Holders, Holding
<1>0. TypeOK /\ LinksConsistent
  BY DEF IInv
<1> DEFINE Same == \A e \in Entries : Holders(e)' = Holders(e)
<1>1. ASSUME NEW r \in Requests, RequestStep(r) PROVE RefCountExact'
  <2>1. ASSUME NEW k \in Keys, AcquireShared(r, k) PROVE RefCountExact'
    <3>1. Same
      BY <1>0, <2>1 DEF AcquireShared, TypeOK, RequestsTypeOK
    <3> QED
      BY <2>1, <3>1, SameUsers DEF AcquireShared, Disarm
  <2>2. ASSUME NEW e \in Entries, AcquireNew(r, e) PROVE RefCountExact'
    <3>1. Same
      BY <1>0, <2>2 DEF AcquireNew, TypeOK, RequestsTypeOK
    <3> QED
      BY <2>2, <3>1, SameUsers DEF AcquireNew
  <2>3. CASE Resume(r)
    <3> SUFFICES ASSUME NEW e \in Entries, ~closed'[e]
                 PROVE refCount'[e] = Cardinality(Holders(e)')
      BY DEF RefCountExact
    <3>1. refCount[e] = Cardinality(Holders(e)) /\ refCount[e] \in Nat
      BY <1>0, <2>3 DEF IInv, RefCountExact, Resume, TypeOK
    <3>2. CASE e = on[r]
      <4>1. Holders(e)' = Holders(e) \cup {r} /\ r \notin Holders(e)
        BY <1>0, <2>3, <3>2 DEF Resume, TypeOK, RequestsTypeOK
      <4>2. Cardinality(Holders(e)') = Cardinality(Holders(e)) + 1
        <5> HIDE DEF Holders
        <5> QED
          BY <4>1, HoldersFinite, FS_AddElement
      <4>3. refCount'[e] = refCount[e] + 1
        BY <1>0, <2>3, <3>2 DEF Resume, TypeOK
      <4> QED
        BY <3>1, <4>2, <4>3
    <3>3. CASE e # on[r]
      <4>1. Holders(e)' = Holders(e)
        BY <1>0, <2>3, <3>3 DEF Resume, TypeOK, RequestsTypeOK
      <4>2. refCount'[e] = refCount[e]
        BY <1>0, <2>3, <3>3 DEF Resume, TypeOK
      <4> QED
        BY <3>1, <4>1, <4>2
    <3> QED
      BY <3>2, <3>3
  <2>4. ASSUME Release(r), pc[r] \in Holding PROVE RefCountExact'
    <3> SUFFICES ASSUME NEW e \in Entries, ~closed'[e]
                 PROVE refCount'[e] = Cardinality(Holders(e)')
      BY DEF RefCountExact
    <3>1. refCount[e] = Cardinality(Holders(e)) /\ refCount[e] \in Nat
      BY <1>0, <2>4 DEF IInv, RefCountExact, Release, TypeOK
    <3>2. CASE e = on[r]
      <4>1. Holders(e)' = Holders(e) \ {r} /\ r \in Holders(e)
        BY <1>0, <2>4, <3>2 DEF Release, Left, TypeOK, RequestsTypeOK
      <4>2. Cardinality(Holders(e)') = Cardinality(Holders(e)) - 1
        <5> HIDE DEF Holders
        <5> QED
          BY <4>1, HoldersFinite, FS_RemoveElement
      <4>3. refCount[e] # 0
        BY <3>1, <4>1, HoldersFinite, FS_EmptySet
      <4>4. refCount'[e] = refCount[e] - 1
        BY <1>0, <2>4, <3>2, <4>3 DEF Release, Left, TypeOK
      <4> QED
        BY <3>1, <4>2, <4>4
    <3>3. CASE e # on[r]
      <4>1. Holders(e)' = Holders(e)
        BY <1>0, <2>4, <3>3 DEF Release, Left, TypeOK, RequestsTypeOK
      <4>2. refCount'[e] = refCount[e]
        BY <1>0, <2>4, <3>3 DEF Release, Left, TypeOK
      <4> QED
        BY <3>1, <4>1, <4>2
    <3> QED
      BY <3>2, <3>3
  <2>5. CASE StreamObject(r)
    <3>1. Same
      BY <1>0, <2>5 DEF StreamObject, entryVars, TypeOK, RequestsTypeOK
    <3> QED
      BY <2>5, <3>1, SameUsers DEF StreamObject, entryVars
  <2>6. CASE ResponseLost(r)
    BY <2>6, SameUsers DEF ResponseLost, entryVars
  <2> QED
    BY <1>1, <2>1, <2>2, <2>3, <2>4, <2>5, <2>6
    DEF RequestStep, Finish, FinishAtOnce, ResponseEnds
<1>2. ASSUME NEW e \in Entries, EntryStep(e) PROVE RefCountExact'
  <2> USE DEF CloseEntries, requestVars, TypeOK, EntriesTypeOK, RequestsTypeOK
  <2>1. CASE ClientReady(e)
    <3>1. Same
      BY <1>0, <2>1 DEF ClientReady, Bind, Wake, Waiters
    <3> QED
      BY <2>1, <3>1, SameUsers DEF ClientReady, Bind
  <2>2. CASE TunnelFails(e)
    <3>1. Same
      BY <1>0, <2>2 DEF TunnelFails, Reject, Waiters
    <3> QED
      BY <1>0, <2>2, <3>1, SameUsers DEF TunnelFails
  <2>3. CASE ClientClose(e)
    BY <1>0, <2>3, SameUsers DEF ClientClose
  <2>4. CASE ListenerFails(e)
    BY <1>0, <2>4, SameUsers DEF ListenerFails
  <2>5. CASE IdleTimer(e)
    BY <1>0, <2>5, SameUsers DEF IdleTimer
  <2> QED
    BY <1>2, <2>1, <2>2, <2>3, <2>4, <2>5 DEF EntryStep
<1>3. CASE CloseAll
  BY <1>0, <1>3, SameUsers DEF CloseAll, CloseEntries, requestVars, TypeOK, EntriesTypeOK
<1>4. CASE UNCHANGED vars
  BY <1>0, <1>4, SameUsers DEF vars, entryVars, requestVars
<1> QED
  BY <1>1, <1>2, <1>3, <1>4 DEF Next

-----------------------------------------------------------------------------
(* The theorems.                                                           *)

\* The invariant holds in every reachable state.
THEOREM Inductive == Spec => []IInv
<1>1. IInv /\ [Next]_vars => IInv'
  <2> SUFFICES ASSUME IInv, [Next]_vars PROVE IInv'
    OBVIOUS
  <2>1. TypeOK'
    BY NextTypeOK DEF IInv
  <2> QED
    BY <2>1, NextLinks, NextMapped, NextRefCount, NextTimer DEF IInv
<1> QED
  BY InitIInv, <1>1, PTL DEF Spec

\* A request never joins a tunnel that is closed or failed to connect.
THEOREM NoDeadEntryIsMapped == Spec => []MappedIsAlive
<1>1. IInv => MappedIsAlive
  BY DEF IInv
<1> QED
  BY <1>1, Inductive, PTL

\* refCount of an open tunnel is the number of requests using it.
THEOREM ReferencesAreCounted == Spec => []RefCountExact
<1>1. IInv => RefCountExact
  BY DEF IInv
<1> QED
  BY <1>1, Inductive, PTL

\* The idle timer is pending only on an open tunnel without users.
THEOREM TimerSparesUsers == Spec => []IdleTimerIsSafe
<1>1. IInv => IdleTimerIsSafe
  BY DEF IInv
<1> QED
  BY <1>1, Inductive, PTL

-----------------------------------------------------------------------------
(* Listeners, clients and the map: what PortsAreServed and the refinement  *)
(* need besides IInv.                                                      *)

\* How an entry's promise, its client, its listener and its `closed' agree.
EndsAgree ==
  \A e \in Entries :
    /\ client[e] = "none" <=> phase[e] = "unborn"
    /\ listener[e] = "none" <=> phase[e] # "resolved"
    /\ phase[e] = "rejected" \/ client[e] \in {"ending", "gone"} => closed[e]
    /\ listener[e] \in {"closed", "failed"} => closed[e]

\* Until the server shuts down, an open entry is the one its key maps to, an
\* open listener belongs to an open entry, and an attempt to connect that was
\* given up is over.
OpenIsMapped ==
  ~closing => \A e \in Entries :
    /\ phase[e] # "unborn" /\ ~closed[e] => map[KeyOf[e]] = e
    /\ listener[e] = "bound" => ~closed[e]
    /\ phase[e] = "pending" /\ closed[e] => client[e] = "gone"

PlacesConsistent == EndsAgree /\ OpenIsMapped /\ (~closing => HandedPortIsOpen)

\* closeEntry of one entry, entry by entry: it closes that one, and leaves the
\* map alone when the entry was closed before.
LEMMA ClosingOne ==
  ASSUME TypeOK, NEW e \in Entries, CloseEntries({e})
  PROVE  /\ \A f \in Entries : closed'[f] <=> closed[f] \/ f = e
         /\ \A k \in Keys : map'[k] = IF ~closed[e] /\ KeyOf[e] = k THEN NoEntry ELSE map[k]
BY DEF CloseEntries, Unmap, TypeOK, EntriesTypeOK

\* The same of its listener: an open entry's is closed, or has failed.
LEMMA ClosingListener ==
  ASSUME TypeOK, NEW e \in Entries, NEW how, CloseListeners({e}, how)
  PROVE  \A f \in Entries :
           listener'[f] = IF f = e /\ ~closed[e] /\ listener[e] = "bound" THEN how ELSE listener[f]
BY DEF CloseListeners, TypeOK, EntriesTypeOK

\* The same of its client: an open entry's is ended, unless it is gone.
LEMMA ClosingClient ==
  ASSUME TypeOK, NEW e \in Entries, EndClients({e})
  PROVE  \A f \in Entries :
           client'[f] = IF f = e /\ ~closed[e] /\ client[e] \in {"connecting", "up"}
                        THEN "ending" ELSE client[f]
BY DEF EndClients, TypeOK, EntriesTypeOK

\* What the three events that close one entry do to that entry and its key, and
\* that they leave the others alone.
LEMMA ClosingEvents ==
  ASSUME TypeOK, NEW e \in Entries, ClientClose(e) \/ ListenerFails(e) \/ IdleTimer(e)
  PROVE  /\ Drained /\ UNCHANGED <<phase, refCount, pc, on, gone, closing>>
         /\ \A f \in Entries : closed'[f] <=> closed[f] \/ f = e
         /\ \A k \in Keys : map'[k] = IF ~closed[e] /\ KeyOf[e] = k THEN NoEntry ELSE map[k]
         /\ \A f \in Entries \ {e} : listener'[f] = listener[f] /\ client'[f] = client[f]
         /\ IF closed[e] \/ listener[e] # "bound" THEN listener'[e] = listener[e]
            ELSE listener'[e] \in {"closed", "failed"}
         /\ client'[e] = client[e] \/ (client[e] # "none" /\ client'[e] \in {"ending", "gone"})
         /\ ClientClose(e) => client[e] # "none" /\ client'[e] = "gone"
<1>1. Drained /\ UNCHANGED <<phase, refCount, pc, on, gone, closing>> /\ CloseEntries({e})
  BY DEF ClientClose, ListenerFails, IdleTimer, requestVars
<1>2. \A f \in Entries : closed'[f] <=> closed[f] \/ f = e
  BY <1>1, ClosingOne
<1>3. \A k \in Keys : map'[k] = IF ~closed[e] /\ KeyOf[e] = k THEN NoEntry ELSE map[k]
  BY <1>1, ClosingOne
<1>4. PICK how \in {"closed", "failed"} : CloseListeners({e}, how)
  BY DEF ClientClose, ListenerFails, IdleTimer
<1>5. \A f \in Entries :
        listener'[f] = IF f = e /\ ~closed[e] /\ listener[e] = "bound" THEN how ELSE listener[f]
  BY <1>4, ClosingListener
<1>6. CASE ClientClose(e)
  <2>1. client[e] # "none" /\ \A f \in Entries : client'[f] = IF f = e THEN "gone" ELSE client[f]
    BY <1>6 DEF ClientClose, TypeOK, EntriesTypeOK
  <2> QED
    BY <1>1, <1>2, <1>3, <1>4, <1>5, <2>1
<1>7. CASE ~ClientClose(e)
  <2>1. EndClients({e})
    BY <1>7 DEF ListenerFails, IdleTimer
  <2>2. \A f \in Entries :
          client'[f] = IF f = e /\ ~closed[e] /\ client[e] \in {"connecting", "up"}
                       THEN "ending" ELSE client[f]
    BY <2>1, ClosingClient
  <2> QED
    BY <1>1, <1>2, <1>3, <1>4, <1>5, <1>7, <2>2
<1> QED
  BY <1>6, <1>7

\* The manager starts without entries.
LEMMA InitPlaces == Init => PlacesConsistent
BY ConstantsAssumption DEF Init, PlacesConsistent, EndsAgree, OpenIsMapped, HandedPortIsOpen

\* A step of a request binds or closes nothing; it is handed a port only of the
\* entry its key maps to, or of the one it created.
LEMMA RequestPlaces ==
  ASSUME IInv, PlacesConsistent, NEW r \in Requests, RequestStep(r)
  PROVE  PlacesConsistent'
<1> USE ConstantsAssumption
    DEF IInv, LinksConsistent, MappedIsAlive, TypeOK, EntriesTypeOK, RequestsTypeOK, Phases, PCs,
        ListenerStates, ClientStates, PlacesConsistent, EndsAgree, OpenIsMapped, HandedPortIsOpen,
        Holding
<1>1. ASSUME NEW k \in Keys, AcquireShared(r, k) PROVE PlacesConsistent'
  BY <1>1 DEF AcquireShared, Disarm
<1>2. ASSUME NEW e \in Entries, AcquireNew(r, e) PROVE PlacesConsistent'
  BY <1>2 DEF AcquireNew
<1>3. CASE Resume(r)
  BY <1>3 DEF Resume
<1>4. ASSUME Release(r) PROVE PlacesConsistent'
  BY <1>4 DEF Release, Left
<1>5. CASE StreamObject(r)
  BY <1>5 DEF StreamObject, entryVars
<1>6. CASE ResponseLost(r)
  BY <1>6 DEF ResponseLost, entryVars
<1> QED
  BY <1>1, <1>2, <1>3, <1>4, <1>5, <1>6 DEF RequestStep, Finish, FinishAtOnce, ResponseEnds

\* An event of an entry closes its listener, its client and its place in the
\* map together, when no request is about to be handed its port.
LEMMA EntryPlaces ==
  ASSUME IInv, PlacesConsistent, NEW e \in Entries, EntryStep(e)
  PROVE  PlacesConsistent'
<1>0. /\ TypeOK /\ LinksConsistent /\ MappedIsAlive /\ IdleTimerIsSafe
      /\ EndsAgree /\ OpenIsMapped /\ (~closing => HandedPortIsOpen)
  BY DEF IInv, PlacesConsistent
<1>1. CASE ClientReady(e)
  <2> USE <1>0, <1>1
      DEF ClientReady, Bind, Wake, Waiters, TypeOK, EntriesTypeOK, RequestsTypeOK, LinksConsistent
  <2>1. EndsAgree'
    BY DEF EndsAgree
  <2>2. OpenIsMapped'
    BY DEF OpenIsMapped, EndsAgree
  <2>3. (~closing => HandedPortIsOpen)'
    BY DEF HandedPortIsOpen, Drained
  <2> QED
    BY <2>1, <2>2, <2>3 DEF PlacesConsistent
<1>2. CASE TunnelFails(e)
  <2> USE <1>0, <1>2
      DEF TunnelFails, Unmap, Reject, Waiters, TypeOK, EntriesTypeOK, RequestsTypeOK
  <2>1. EndsAgree'
    BY DEF EndsAgree
  <2>2. OpenIsMapped'
    BY ConstantsAssumption DEF OpenIsMapped, EndsAgree
  <2>3. (~closing => HandedPortIsOpen)'
    BY DEF HandedPortIsOpen, Drained, LinksConsistent
  <2> QED
    BY <2>1, <2>2, <2>3 DEF PlacesConsistent
<1>3. ASSUME ClientClose(e) \/ ListenerFails(e) \/ IdleTimer(e) PROVE PlacesConsistent'
  <2>1. phase[e] = "pending" => client'[e] = "gone"
    BY <1>0, <1>3, ClosingEvents DEF ListenerFails, IdleTimer, IdleTimerIsSafe, EndsAgree
  <2>2. phase[e] # "unborn"
    BY <1>0, <1>3, ClosingEvents DEF ListenerFails, IdleTimer, IdleTimerIsSafe, EndsAgree
  <2>3. \A f \in Entries \ {e} :
          phase'[f] = phase[f] /\ (closed'[f] <=> closed[f]) /\ listener'[f] = listener[f]
          /\ client'[f] = client[f]
    BY <1>0, <1>3, ClosingEvents
  <2>4. phase'[e] = phase[e] /\ closed'[e] /\ closing' = closing
    BY <1>0, <1>3, ClosingEvents
  <2>5. /\ listener'[e] = listener[e] \/ (listener[e] = "bound" /\ listener'[e] \in {"closed", "failed"})
        /\ ~closed[e] => listener'[e] # "bound"
        /\ client'[e] = client[e] \/ (client[e] # "none" /\ client'[e] \in {"ending", "gone"})
    BY <1>0, <1>3, ClosingEvents
  <2>6. EndsAgree'
    BY <1>0, <2>3, <2>4, <2>5 DEF EndsAgree
  <2>7. OpenIsMapped'
    <3> SUFFICES ASSUME ~closing, NEW f \in Entries
                 PROVE  /\ phase[f] # "unborn" /\ ~closed'[f] => map'[KeyOf[f]] = f
                        /\ listener'[f] = "bound" => ~closed'[f]
                        /\ phase[f] = "pending" /\ closed'[f] => client'[f] = "gone"
      BY <1>0, <1>3, <2>4, ClosingEvents DEF OpenIsMapped
    <3>1. ASSUME f # e, phase[f] # "unborn", ~closed[f] PROVE map'[KeyOf[f]] = f
      <4>1. map[KeyOf[f]] = f /\ KeyOf[f] \in Keys
        BY <1>0, <3>1, ConstantsAssumption DEF OpenIsMapped
      <4>2. ~closed[e] => map[KeyOf[e]] = e
        BY <1>0, <2>2 DEF OpenIsMapped
      <4> QED
        BY <1>0, <1>3, <3>1, <4>1, <4>2, ClosingEvents
    <3> QED
      BY <1>0, <2>1, <2>3, <2>4, <2>5, <3>1 DEF OpenIsMapped
  <2>8. (~closing => HandedPortIsOpen)'
    BY <1>0, <1>3, ClosingEvents DEF HandedPortIsOpen, Drained
  <2> QED
    BY <2>6, <2>7, <2>8 DEF PlacesConsistent
<1> QED
  BY <1>1, <1>2, <1>3 DEF EntryStep

\* A shutdown closes what the map holds, and ends the conditional part.
LEMMA ShutdownPlaces ==
  ASSUME IInv, PlacesConsistent, CloseAll
  PROVE  PlacesConsistent'
BY ConstantsAssumption
DEF CloseAll, CloseEntries, CloseListeners, EndClients, Unmap, requestVars, IInv, LinksConsistent,
    MappedIsAlive, TypeOK, EntriesTypeOK, Phases, ListenerStates, ClientStates, PlacesConsistent,
    EndsAgree, OpenIsMapped

\* Both invariants together.
SafeState == IInv /\ PlacesConsistent

\* Both hold in every reachable state.
THEOREM SafeAlways == Spec => []SafeState
<1>1. SafeState /\ [Next]_vars => PlacesConsistent'
  <2> SUFFICES ASSUME IInv, PlacesConsistent, [Next]_vars PROVE PlacesConsistent'
    BY DEF SafeState
  <2>1. CASE UNCHANGED vars
    BY <2>1 DEF vars, entryVars, requestVars, PlacesConsistent, EndsAgree, OpenIsMapped,
                HandedPortIsOpen
  <2> QED
    BY <2>1, RequestPlaces, EntryPlaces, ShutdownPlaces DEF Next
<1> QED
  BY InitPlaces, <1>1, Inductive, PTL DEF SafeState, Spec

\* Until the server shuts down, an open listener belongs to the entry of its
\* key, and a request is handed only ports that are open.
THEOREM OpenPortsAreServed == Spec => []PortsAreServed
<1>1. SafeState => PortsAreServed
  BY DEF SafeState, IInv, LinksConsistent, PlacesConsistent, EndsAgree, OpenIsMapped,
         PortsAreServed, ListenersAreMapped
<1> QED
  BY <1>1, SafeAlways, PTL

-----------------------------------------------------------------------------
(* The manager implements the pool of shared tunnels.                      *)

\* The state of the pool that a state of the manager stands for.
StatusMap == [e \in Entries |-> PoolStatus(e)]
UsersMap == [e \in Entries |-> Holders(e)]

\* A step that changes the status of one tunnel.
LEMMA StatusChange ==
  ASSUME NEW t \in Entries, NEW x, PoolStatus(t)' = x,
         \A e \in Entries \ {t} : PoolStatus(e)' = PoolStatus(e)
  PROVE  StatusMap' = [StatusMap EXCEPT ![t] = x]
BY DEF StatusMap

\* A step that changes the status of no tunnel.
LEMMA StatusKept ==
  ASSUME \A e \in Entries : PoolStatus(e)' = PoolStatus(e) PROVE StatusMap' = StatusMap
BY DEF StatusMap

\* A step that leaves promises, clients, listeners and `closed' alone.
LEMMA EntriesKept ==
  ASSUME UNCHANGED <<phase, client, listener, closed>> PROVE StatusMap' = StatusMap
BY DEF StatusMap, PoolStatus

\* A step that changes the users of one tunnel.
LEMMA UsersChange ==
  ASSUME NEW t \in Entries, NEW S, Holders(t)' = S,
         \A e \in Entries \ {t} : Holders(e)' = Holders(e)
  PROVE  UsersMap' = [UsersMap EXCEPT ![t] = S]
BY DEF UsersMap

\* A step in which no request starts or stops to hold a tunnel.
LEMMA UsersKept ==
  ASSUME \A e \in Entries : Holders(e)' = Holders(e) PROVE UsersMap' = UsersMap
BY DEF UsersMap

\* The manager starts as an empty pool.
LEMMA PoolInitial == Init => Pool!PoolInit
<1> SUFFICES ASSUME Init PROVE Pool!PoolInit
  OBVIOUS
<1>1. \A e \in Entries : PoolStatus(e) = "none"
  BY DEF Init, PoolStatus
<1>2. \A e \in Entries : Holders(e) = {}
  BY DEF Init, Holders, Holding
<1> QED
  BY <1>1, <1>2 DEF Pool!PoolInit, Init

\* Taking a shared tunnel changes nothing in the pool yet.
LEMMA AcquireSharedStep ==
  ASSUME TypeOK, NEW r \in Requests, NEW k \in Keys, AcquireShared(r, k)
  PROVE  UNCHANGED Pool!poolVars
<1>1. StatusMap' = StatusMap
  BY EntriesKept DEF AcquireShared, Disarm
<1>2. \A e \in Entries : Holders(e)' = Holders(e)
  BY DEF AcquireShared, TypeOK, RequestsTypeOK, Holders, Holding
<1> QED
  BY <1>1, <1>2, UsersKept DEF Pool!poolVars, StatusMap, UsersMap, AcquireShared

\* A new entry opens a tunnel in a place where none is live, or after a shutdown.
LEMMA AcquireNewStep ==
  ASSUME SafeState, NEW r \in Requests, NEW e \in Entries, AcquireNew(r, e)
  PROVE  Pool!Open(e)
<1> USE DEF SafeState, IInv, PlacesConsistent
<1>1. PoolStatus(e) = "none"
  BY DEF AcquireNew, PoolStatus
<1>2. PoolStatus(e)' = "opening"
  BY DEF AcquireNew, PoolStatus, LinksConsistent, TypeOK, EntriesTypeOK
<1>3. \A f \in Entries \ {e} : PoolStatus(f)' = PoolStatus(f)
  BY DEF AcquireNew, PoolStatus, TypeOK, EntriesTypeOK
<1>4. StatusMap' = [StatusMap EXCEPT ![e] = "opening"]
  BY <1>2, <1>3, StatusChange
<1>5. \A f \in Entries : Holders(f)' = Holders(f)
  BY DEF AcquireNew, TypeOK, RequestsTypeOK, Holders, Holding
<1>6. UsersMap' = UsersMap
  BY <1>5, UsersKept
<1>7. ASSUME ~closing, NEW f \in Entries, KeyOf[f] = KeyOf[e]
      PROVE  PoolStatus(f) \notin {"opening", "open"}
  <2>1. map[KeyOf[f]] # f
    BY <1>7, ConstantsAssumption DEF AcquireNew
  <2>2. phase[f] = "unborn" \/ closed[f]
    BY <1>7, <2>1 DEF OpenIsMapped
  <2> QED
    BY <2>2 DEF PoolStatus
<1>8. closing \/ \A f \in Entries : KeyOf[f] = KeyOf[e] => PoolStatus(f) \notin {"opening", "open"}
  BY <1>7
<1> QED
  BY <1>1, <1>4, <1>6, <1>8 DEF Pool!Open, Pool!Live, StatusMap, UsersMap, AcquireNew

\* A request is handed a tunnel that is open, or after a shutdown.
LEMMA ResumeStep ==
  ASSUME SafeState, NEW r \in Requests, Resume(r), NEW t \in Entries, t = on[r]
  PROVE  Pool!Join(t, r)
<1> USE DEF SafeState, IInv, PlacesConsistent, TypeOK, RequestsTypeOK
<1>1. pc[r] = "resuming" /\ phase[t] = "resolved"
  BY ConstantsAssumption DEF Resume, LinksConsistent
<1>2. StatusMap' = StatusMap
  BY EntriesKept DEF Resume
<1>3. Holders(t)' = Holders(t) \cup {r}
  BY <1>1 DEF Resume, Holders, Holding
<1>4. \A e \in Entries \ {t} : Holders(e)' = Holders(e)
  BY <1>1 DEF Resume, Holders, Holding
<1>5. UsersMap' = [UsersMap EXCEPT ![t] = Holders(t) \cup {r}]
  BY <1>1, <1>3, <1>4, UsersChange
<1>6. \A e \in Entries : r \notin Holders(e)
  BY <1>1 DEF Holders, Holding
<1>7. closing \/ PoolStatus(t) = "open"
  BY <1>1 DEF HandedPortIsOpen, OpenIsMapped, EndsAgree, PoolStatus
<1> QED
  BY <1>1, <1>2, <1>5, <1>6, <1>7 DEF Pool!Join, StatusMap, UsersMap, Resume

\* A release, in time or not, is a user leaving the tunnel it held.
LEMMA ReleaseStep ==
  ASSUME SafeState, NEW r \in Requests, pc[r] \in Holding, Release(r), NEW t \in Entries, t = on[r]
  PROVE  Pool!Leave(t, r)
<1> USE DEF SafeState, IInv, TypeOK, RequestsTypeOK
<1>1. StatusMap' = StatusMap
  BY EntriesKept DEF Release
<1>2. \A s \in Requests : /\ on'[s] = IF s = r THEN NoEntry ELSE on[s]
                          /\ s # r => pc'[s] = pc[s]
  BY DEF Release
<1>3. Holders(t)' = Holders(t) \ {r}
  BY <1>2, ConstantsAssumption DEF Holders
<1>4. \A e \in Entries \ {t} : Holders(e)' = Holders(e)
  BY <1>2, ConstantsAssumption DEF Holders
<1>5. UsersMap' = [UsersMap EXCEPT ![t] = Holders(t) \ {r}]
  BY <1>3, <1>4, UsersChange
<1>6. r \in Holders(t)
  BY DEF Holders
<1> QED
  BY <1>1, <1>5, <1>6 DEF Pool!Leave, StatusMap, UsersMap, Release

\* What happens to a download's response is no step of the pool.
LEMMA DownloadStep ==
  ASSUME TypeOK, NEW r \in Requests, StreamObject(r) \/ ResponseLost(r)
  PROVE  UNCHANGED Pool!poolVars
<1>1. StatusMap' = StatusMap
  BY EntriesKept DEF StreamObject, ResponseLost, entryVars
<1>2. \A e \in Entries : Holders(e)' = Holders(e)
  BY DEF StreamObject, ResponseLost, TypeOK, RequestsTypeOK, Holders, Holding
<1> QED
  BY <1>1, <1>2, UsersKept
  DEF Pool!poolVars, StatusMap, UsersMap, StreamObject, ResponseLost

\* 'ready' opens the tunnel, unless it was given up in a shutdown.
LEMMA ClientReadyStep ==
  ASSUME SafeState, NEW e \in Entries, ClientReady(e)
  PROVE  Pool!Opened(e) \/ UNCHANGED Pool!poolVars
<1> USE DEF SafeState, IInv, PlacesConsistent, EndsAgree, TypeOK, EntriesTypeOK
<1>1. \A f \in Entries \ {e} : PoolStatus(f)' = PoolStatus(f)
  BY DEF ClientReady, Bind, PoolStatus
<1>2. \A f \in Entries : Holders(f)' = Holders(f)
  BY DEF ClientReady, Wake, Waiters, Holders, Holding, RequestsTypeOK
<1>3. UsersMap' = UsersMap
  BY <1>2, UsersKept
<1>4. CASE closed[e]
  <2>1. PoolStatus(e)' = PoolStatus(e)
    BY <1>4 DEF ClientReady, Bind, PoolStatus
  <2>2. StatusMap' = StatusMap
    BY <1>1, <2>1, StatusKept
  <2> QED
    BY <1>3, <2>2 DEF Pool!poolVars, StatusMap, UsersMap, ClientReady
<1>5. CASE ~closed[e]
  <2>1. PoolStatus(e) = "opening" /\ PoolStatus(e)' = "open"
    BY <1>5 DEF ClientReady, Bind, PoolStatus
  <2>2. StatusMap' = [StatusMap EXCEPT ![e] = "open"]
    BY <1>1, <2>1, StatusChange
  <2> QED
    BY <1>3, <2>1, <2>2 DEF Pool!Opened, StatusMap, UsersMap, ClientReady
<1> QED
  BY <1>4, <1>5

\* An attempt that fails is a tunnel lost, one given up in a shutdown too.
LEMMA TunnelFailsStep ==
  ASSUME SafeState, NEW e \in Entries, TunnelFails(e)
  PROVE  Pool!Lose(e)
<1> USE DEF SafeState, IInv, PlacesConsistent, EndsAgree, TypeOK, EntriesTypeOK
<1>1. \A f \in Entries \ {e} : PoolStatus(f)' = PoolStatus(f)
  BY DEF TunnelFails, PoolStatus
<1>2. PoolStatus(e) \in {"opening", "retired"} /\ PoolStatus(e)' = "lost"
  BY DEF TunnelFails, PoolStatus
<1>3. StatusMap' = [StatusMap EXCEPT ![e] = "lost"]
  BY <1>1, <1>2, StatusChange
<1>4. \A f \in Entries : Holders(f)' = Holders(f)
  BY DEF TunnelFails, Reject, Waiters, Holders, Holding, RequestsTypeOK
<1>5. UsersMap' = UsersMap
  BY <1>4, UsersKept
<1> QED
  BY <1>2, <1>3, <1>5 DEF Pool!Lose, StatusMap, UsersMap, TunnelFails

\* 'close' of a client and 'error' of a listener lose the tunnel, if it was not
\* lost before; the idle timer retires one without users.
LEMMA ClosingStep ==
  ASSUME SafeState, NEW e \in Entries, ClientClose(e) \/ ListenerFails(e) \/ IdleTimer(e)
  PROVE  Pool!Lose(e) \/ Pool!Retire(e) \/ UNCHANGED Pool!poolVars
<1>1. \A f \in Entries \ {e} : PoolStatus(f)' = PoolStatus(f)
  BY ClosingEvents DEF SafeState, IInv, PoolStatus
<1>2. \A f \in Entries : Holders(f)' = Holders(f)
  BY DEF ClientClose, ListenerFails, IdleTimer, requestVars, Holders
<1>3. UsersMap' = UsersMap
  BY <1>2, UsersKept
<1>4. closing' = closing
  BY DEF ClientClose, ListenerFails, IdleTimer
<1>5. phase[e] # "unborn" /\ phase'[e] = phase[e] /\ closed'[e]
  BY ClosingEvents
  DEF SafeState, IInv, PlacesConsistent, EndsAgree, ListenerFails, IdleTimer, IdleTimerIsSafe
<1>6. CASE PoolStatus(e)' = PoolStatus(e)
  <2>1. StatusMap' = StatusMap
    BY <1>1, <1>6, StatusKept
  <2> QED
    BY <1>3, <1>4, <2>1 DEF Pool!poolVars, StatusMap, UsersMap
<1>7. CASE PoolStatus(e) \in {"opening", "open", "retired"} /\ PoolStatus(e)' = "lost"
  <2>1. StatusMap' = [StatusMap EXCEPT ![e] = "lost"]
    BY <1>1, <1>7, StatusChange
  <2> QED
    BY <1>3, <1>4, <1>7, <2>1 DEF Pool!Lose, StatusMap, UsersMap
<1>8. CASE /\ PoolStatus(e) = "open" /\ Holders(e) = {}
           /\ PoolStatus(e)' = "retired"
  <2>1. StatusMap' = [StatusMap EXCEPT ![e] = "retired"]
    BY <1>1, <1>8, StatusChange
  <2> QED
    BY <1>3, <1>4, <1>8, <2>1 DEF Pool!Retire, StatusMap, UsersMap
<1>9. CASE ClientClose(e)
  <2>1. PoolStatus(e)' = "lost"
    BY <1>5, <1>9, ClosingEvents DEF SafeState, IInv, PoolStatus
  <2> QED
    BY <1>5, <1>6, <1>7, <2>1 DEF PoolStatus
<1>10. CASE ListenerFails(e)
  <2>1. CASE closed[e]
    <3>1. client'[e] = client[e] /\ listener'[e] = listener[e]
      BY <1>10, <2>1, ClosingListener, ClosingClient DEF ListenerFails, SafeState, IInv
    <3>2. PoolStatus(e)' = PoolStatus(e)
      BY <1>5, <2>1, <3>1 DEF PoolStatus
    <3> QED
      BY <1>6, <3>2
  <2>2. CASE ~closed[e]
    <3>1. listener'[e] = "failed"
      BY <1>10, <2>2, ClosingListener DEF ListenerFails, SafeState, IInv
    <3>2. PoolStatus(e)' = "lost"
      BY <1>5, <3>1 DEF PoolStatus
    <3> QED
      BY <1>5, <1>6, <1>7, <3>2 DEF PoolStatus
  <2> QED
    BY <2>1, <2>2
<1>11. CASE IdleTimer(e)
  <2>1. ~closed[e] /\ phase[e] = "resolved"
    BY <1>11 DEF IdleTimer, SafeState, IInv, IdleTimerIsSafe
  <2>2. Holders(e) = {}
    BY <1>11 DEF IdleTimer, SafeState, IInv, IdleTimerIsSafe, Holders
  <2>3. listener[e] = "bound" /\ client[e] \notin {"gone", "ending"}
    BY <2>1 DEF SafeState, IInv, TypeOK, EntriesTypeOK, ListenerStates, PlacesConsistent, EndsAgree
  <2>4. listener'[e] = "closed"
    BY <1>11, <2>1, <2>3, ClosingListener DEF IdleTimer, SafeState, IInv
  <2>5. client'[e] # "gone"
    BY <1>11, <2>1, <2>3, ClosingClient DEF IdleTimer, SafeState, IInv
  <2>6. PoolStatus(e) = "open" /\ PoolStatus(e)' = "retired"
    BY <1>5, <2>1, <2>3, <2>4, <2>5 DEF PoolStatus
  <2> QED
    BY <1>8, <2>2, <2>6
<1> QED
  BY <1>9, <1>10, <1>11

\* closeAll retires every tunnel that is live.
LEMMA CloseAllStep ==
  ASSUME SafeState, CloseAll
  PROVE  Pool!ShutDown
<1> DEFINE S == {e \in Entries : \E k \in Keys : map[k] = e}
<1>1. ~closing /\ closing' /\ UNCHANGED <<phase, pc, on>>
  BY DEF CloseAll, requestVars
<1>2. CloseEntries(S) /\ CloseListeners(S, "closed") /\ EndClients(S)
  BY DEF CloseAll
<1>3. ASSUME NEW e \in Entries
      PROVE  PoolStatus(e)' = IF PoolStatus(e) \in {"opening", "open"} THEN "retired" ELSE PoolStatus(e)
  <2>1. closed'[e] <=> closed[e] \/ e \in S
    BY <1>2 DEF CloseEntries
  <2>2. listener'[e] = IF e \in S /\ ~closed[e] /\ listener[e] = "bound" THEN "closed" ELSE listener[e]
    BY <1>2 DEF CloseListeners
  <2>3. client'[e] = IF e \in S /\ ~closed[e] /\ client[e] \in {"connecting", "up"}
                     THEN "ending" ELSE client[e]
    BY <1>2 DEF EndClients
  <2>4. phase[e] # "unborn" /\ ~closed[e] => e \in S
    BY <1>1, ConstantsAssumption DEF SafeState, PlacesConsistent, OpenIsMapped
  <2>5. e \in S => phase[e] # "unborn"
    BY ConstantsAssumption DEF SafeState, IInv, MappedIsAlive
  <2> HIDE DEF S
  <2> QED
    BY <1>1, <2>1, <2>2, <2>3, <2>4, <2>5 DEF PoolStatus
<1>4. \A e \in Entries : Holders(e)' = Holders(e)
  BY <1>1 DEF Holders
<1>5. UsersMap' = UsersMap
  BY <1>4, UsersKept
<1>6. StatusMap' = [e \in Entries |-> IF PoolStatus(e) \in {"opening", "open"}
                                      THEN "retired" ELSE PoolStatus(e)]
  BY <1>3 DEF StatusMap
<1>7. \A e \in Entries : StatusMap[e] = PoolStatus(e)
  BY DEF StatusMap
<1> QED
  BY <1>1, <1>5, <1>6, <1>7 DEF Pool!ShutDown, Pool!Live, StatusMap, UsersMap

\* Every step of the manager is a step of the pool or leaves it as it is.
LEMMA PoolStep == SafeState /\ [Next]_vars => [Pool!PoolNext]_(Pool!poolVars)
<1> SUFFICES ASSUME SafeState, [Next]_vars PROVE Pool!PoolNext \/ UNCHANGED Pool!poolVars
  OBVIOUS
<1>0. TypeOK /\ LinksConsistent
  BY DEF SafeState, IInv
<1>1. ASSUME NEW r \in Requests, RequestStep(r) PROVE Pool!PoolNext \/ UNCHANGED Pool!poolVars
  <2>1. ASSUME NEW k \in Keys, AcquireShared(r, k) PROVE UNCHANGED Pool!poolVars
    BY <1>0, <2>1, AcquireSharedStep
  <2>2. ASSUME NEW e \in Entries, AcquireNew(r, e) PROVE Pool!PoolNext
    BY <2>2, AcquireNewStep DEF Pool!PoolNext
  <2>3. pc[r] \in Holding \cup {"resuming"} => on[r] \in Entries
    BY <1>0, ConstantsAssumption DEF TypeOK, RequestsTypeOK, LinksConsistent, Holding
  <2>4. CASE Resume(r)
    <3>1. PICK t \in Entries : t = on[r]
      BY <2>3, <2>4 DEF Resume
    <3> QED
      BY <2>4, <3>1, ResumeStep DEF Pool!PoolNext
  <2>5. ASSUME Release(r), pc[r] \in Holding PROVE Pool!PoolNext
    <3>1. PICK t \in Entries : t = on[r]
      BY <2>3, <2>5
    <3> QED
      BY <2>5, <3>1, ReleaseStep DEF Pool!PoolNext
  <2>6. CASE StreamObject(r) \/ ResponseLost(r)
    BY <1>0, <2>6, DownloadStep
  <2> QED
    BY <1>1, <2>1, <2>2, <2>4, <2>5, <2>6
    DEF RequestStep, Finish, FinishAtOnce, ResponseEnds, Holding
<1>2. ASSUME NEW e \in Entries, EntryStep(e) PROVE Pool!PoolNext \/ UNCHANGED Pool!poolVars
  BY <1>2, ClientReadyStep, TunnelFailsStep, ClosingStep DEF EntryStep, Pool!PoolNext
<1>3. CASE CloseAll
  BY <1>3, CloseAllStep DEF Pool!PoolNext
<1>4. CASE UNCHANGED vars
  <2>1. StatusMap' = StatusMap
    BY <1>4, EntriesKept DEF vars, entryVars
  <2>2. \A e \in Entries : Holders(e)' = Holders(e)
    BY <1>4 DEF vars, requestVars, Holders
  <2> QED
    BY <1>4, <2>1, <2>2, UsersKept DEF Pool!poolVars, StatusMap, UsersMap, vars
<1> QED
  BY <1>1, <1>2, <1>3, <1>4 DEF Next

\* The manager is a pool of shared tunnels: until a shutdown one live tunnel
\* per key, users only of open ones, and none given up while it is used.
THEOREM ManagerIsAPool == Spec => ImplementsPool
BY PoolInitial, PoolStep, SafeAlways, PTL DEF Spec, ImplementsPool, Pool!PoolSpec
=============================================================================
