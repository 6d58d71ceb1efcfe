-------------------------------- MODULE SignIn --------------------------------
(***************************************************************************)
(* Signing in to a hosted backend: password logins and their rate limit,   *)
(* OpenID logins with their stored state, the sessions both create, and    *)
(* where the tabs of one browser keep the tokens.                          *)
(*                                                                         *)
(* The meta store is SQLite, whose statements are synchronous: these       *)
(* handlers really wait only for the identity provider, and everything     *)
(* between two of those waits is one step.  All requests come from one     *)
(* address, because limits are kept per address; the answer to a login is  *)
(* stored when it is given.  The clock is discrete.                        *)
(*                                                                         *)
(* Passwords, the provider and the tabs share little, so a behaviour is    *)
(* about one of them (theme): guessing and logging in, OpenID callbacks,   *)
(* or two tabs that sign in and out by password.                           *)
(***************************************************************************)
EXTENDS Naturals, Sequences, FiniteSets

CONSTANTS
  Users,        \* ids of accounts
  Emails,       \* addresses in lower case
  Subjects,     \* people, as the identity provider names them
  OidcStates,   \* random states, each drawn once
  Callbacks,    \* handlers of GET /api/auth/openid/callback
  TabIds,       \* tabs of one browser on one server
  Window,       \* rateLimitWindowMs
  MaxAttempts,  \* rateLimitMaxAttempts
  StateTtl,     \* oidcStateTtlMinutes
  SessionTtl,   \* sessionTtlHours
  Horizon,      \* bound: the last moment of the clock
  MaxSessions   \* bound: sessions ever created

ASSUME SignInAssumption ==
  /\ Window \in Nat \ {0} /\ MaxAttempts \in Nat \ {0}
  /\ StateTtl \in Nat /\ SessionTtl \in Nat /\ Horizon \in Nat /\ MaxSessions \in Nat
  /\ "none" \notin Emails \cup Subjects \cup OidcStates /\ TabIds # {}

Spellings == {"lower", "mixed"}   \* how a person or a provider writes an address

VARIABLES
  theme,     \* bound: what the behaviour is about
  members,   \* table users
  sessions,  \* table auth_tokens, as a sequence; a deleted row is not live
  oidc,      \* table oidc_states
  limits,    \* authRateLimitState
  callbacks, \* OpenID callbacks that wait for the identity provider
  now,
  shared,    \* localStorage: a session, or 0
  own,       \* sessionStorage of each tab
  checks,    \* history: when the password of an account was compared, since it last matched
  exchanged  \* history: states whose code was exchanged

signInVars == <<theme, members, sessions, oidc, limits, callbacks, now, shared, own, checks, exchanged>>

NoMember == [email |-> "none", password |-> FALSE, subject |-> "none", disabled |-> FALSE]
NoEntry == [count |-> 0, resetAt |-> 0]
IdleCall == [state |-> "none", subject |-> "none", email |-> "none", spelled |-> "lower"]

ActiveTabs == IF theme = "tabs" THEN TabIds ELSE {CHOOSE t \in TabIds : TRUE}
Modes == IF theme = "tabs" THEN {"local", "session"} ELSE {"local"}

Members == {u \in Users : members[u] # NoMember}
Tokens == 0..MaxSessions

SignInTypeOK ==
  /\ theme \in {"passwords", "provider", "tabs"}
  /\ members \in [Users -> [email : Emails \cup {"none"}, password : BOOLEAN,
                            subject : Subjects \cup {"none"}, disabled : BOOLEAN]]
  /\ sessions \in Seq([user : Users, expires : Nat, live : BOOLEAN]) /\ Len(sessions) <= MaxSessions
  /\ oidc \in [OidcStates -> [at : {"unused", "stored", "deleted"}, created : 0..Horizon]]
  /\ limits \in [Emails \X Spellings -> [count : Nat, resetAt : Nat]]
  /\ callbacks \in [Callbacks -> [state : OidcStates \cup {"none"}, subject : Subjects \cup {"none"},
                              email : Emails \cup {"none"}, spelled : Spellings]]
  /\ now \in 0..Horizon /\ shared \in Tokens /\ own \in [TabIds -> Tokens]
  /\ checks \in [Users -> Seq(0..Horizon)] /\ exchanged \subseteq OidcStates

SignInInit ==
  /\ theme \in {"passwords", "provider", "tabs"}
  /\ members \in [Users -> {NoMember} \cup
                   [email : Emails, password : {TRUE}, subject : {"none"}, disabled : {FALSE}]]
  /\ \A u, v \in Members : u # v => members[u].email # members[v].email
  /\ theme = "passwords" => Cardinality(Members) = 1
  /\ sessions = << >>
  /\ oidc = [s \in OidcStates |-> [at |-> "unused", created |-> 0]]
  /\ limits = [k \in Emails \X Spellings |-> NoEntry]
  /\ callbacks = [h \in Callbacks |-> IdleCall]
  /\ now = 0 /\ shared = 0 /\ own = [t \in TabIds |-> 0]
  /\ checks = [u \in Users |-> << >>]
  /\ exchanged = {}

-----------------------------------------------------------------------------
(* Sessions.                                                               *)

WithEmail(m) == {u \in Members : members[u].email = m}
WithSubject(s) == {u \in Members : members[u].subject = s}

HasRoom == Len(sessions) < MaxSessions
SessionRow(u) == [user |-> u, expires |-> now + SessionTtl, live |-> TRUE]
NewSession(u) == Append(sessions, SessionRow(u))

\* authenticateRequest finds the account of a token; an expired row is deleted.
Expired(i) == sessions[i].expires < now
Accepted(i) == i \in DOMAIN sessions /\ sessions[i].live /\ ~Expired(i)
               /\ sessions[i].user \in Members /\ ~members[sessions[i].user].disabled
Deleted(i) == [sessions EXCEPT ![i].live = FALSE]

\* storeAuthTokenForUrl: the other storage forgets its token.
Store(t, i, mode) ==
  IF mode = "local" THEN shared' = i /\ own' = [own EXCEPT ![t] = 0]
  ELSE shared' = 0 /\ own' = [own EXCEPT ![t] = i]

\* getStoredAuthTokenForUrl.
SentBy(t) == IF shared # 0 THEN shared ELSE own[t]

\* Any request of a tab whose token has expired makes the backend delete it.
UseExpired(t) ==
  /\ SentBy(t) # 0 /\ sessions[SentBy(t)].live /\ Expired(SentBy(t))
  /\ sessions' = Deleted(SentBy(t))
  /\ UNCHANGED <<members, oidc, limits, callbacks, now, shared, own, checks, exchanged>>

\* POST /api/auth/logout, and clearStoredAuthTokenForUrl whatever it answered.
Logout(t) ==
  /\ SentBy(t) # 0
  /\ sessions' = IF sessions[SentBy(t)].live /\ (Accepted(SentBy(t)) \/ Expired(SentBy(t)))
                 THEN Deleted(SentBy(t)) ELSE sessions
  /\ shared' = 0 /\ own' = [own EXCEPT ![t] = 0]
  /\ UNCHANGED <<members, oidc, limits, callbacks, now, checks, exchanged>>

-----------------------------------------------------------------------------
(* Passwords.                                                              *)

\* getAuthRateLimitKey: the address is counted in lower case.
LimitKey(m, spelled) == <<m, "lower">>

\* consumeRateLimit, cleanupExpiredEntries included.
Fresh == [k \in DOMAIN limits |-> IF limits[k].resetAt <= now THEN NoEntry ELSE limits[k]]
Consumed(k) ==
  [Fresh EXCEPT ![k] = IF Fresh[k] = NoEntry THEN [count |-> 1, resetAt |-> now + Window]
                       ELSE [Fresh[k] EXCEPT !.count = @ + 1]]
Allowed(k) == Consumed(k)[k].count <= MaxAttempts

\* POST /api/auth/login by someone who writes the address in some spelling.
Login(t, m, spelled, right, mode) ==
  LET k == LimitKey(m, spelled)
      known == {u \in WithEmail(m) : members[u].password /\ ~members[u].disabled}
  IN /\ HasRoom
     /\ Fresh[k].count <= MaxAttempts   \* bound: a refused attempt is not counted twice
     /\ \/ /\ ~Allowed(k) \/ known = {}
           /\ limits' = Consumed(k)
           /\ UNCHANGED <<sessions, shared, own, checks>>
        \/ \E u \in known :
             /\ Allowed(k)
             /\ IF right
                THEN /\ limits' = [Consumed(k) EXCEPT ![k] = NoEntry]
                     /\ sessions' = NewSession(u)
                     /\ Store(t, Len(sessions) + 1, mode)
                     /\ checks' = [checks EXCEPT ![u] = << >>]
                ELSE /\ limits' = Consumed(k)
                     /\ checks' = [checks EXCEPT ![u] = Append(@, now)]
                     /\ UNCHANGED <<sessions, shared, own>>
     /\ UNCHANGED <<members, oidc, callbacks, now, exchanged>>

-----------------------------------------------------------------------------
(* OpenID.                                                                 *)

\* GET /api/auth/openid/start.
StartOpenId(s) ==
  /\ oidc[s].at = "unused"
  /\ oidc' = [oidc EXCEPT ![s] = [at |-> "stored", created |-> now]]
  /\ UNCHANGED <<members, sessions, limits, callbacks, now, shared, own, checks, exchanged>>

StateExpired(s) == oidc[s].created + StateTtl < now

\* GET /api/auth/openid/callback up to the exchange: the person has signed in
\* at the provider, which spells the address as it likes.
Callback(h, s, p, m, spelled) ==
  /\ callbacks[h] = IdleCall
  /\ oidc[s].at = "stored"
  /\ IF StateExpired(s)
     THEN oidc' = [oidc EXCEPT ![s].at = "deleted"] /\ UNCHANGED callbacks
     ELSE /\ callbacks' = [callbacks EXCEPT ![h] = [state |-> s, subject |-> p, email |-> m, spelled |-> spelled]]
          /\ UNCHANGED oidc
  /\ UNCHANGED <<members, sessions, limits, now, shared, own, checks, exchanged>>

\* The provider refuses the code, or cannot be reached: the state stays.
ExchangeFails(h) ==
  /\ callbacks[h] # IdleCall
  /\ callbacks' = [callbacks EXCEPT ![h] = IdleCall]
  /\ UNCHANGED <<members, sessions, oidc, limits, now, shared, own, checks, exchanged>>

\* The account of the answer: by subject, else by the address as it is spelled
\* (addresses are stored in lower case).
Matched_EmailFirst(c) ==
  IF c.spelled = "lower" /\ WithEmail(c.email) # {} THEN WithEmail(c.email) ELSE WithSubject(c.subject)
Matched(c) ==
  IF WithSubject(c.subject) # {} THEN WithSubject(c.subject)
  ELSE IF c.spelled = "lower" THEN WithEmail(c.email) ELSE {}

SpentState(s) == [oidc EXCEPT ![s].at = "deleted"]

\* The rest of the callback once the code was exchanged.  It ends with an error
\* when createUser meets an address that is taken.
Exchanged(h, t, mode) ==
  LET c == callbacks[h] IN
  /\ c # IdleCall /\ HasRoom
  /\ oidc' = SpentState(c.state)
  /\ exchanged' = exchanged \cup {c.state}
  /\ callbacks' = [callbacks EXCEPT ![h] = IdleCall]
  /\ \/ /\ Matched(c) = {} /\ WithEmail(c.email) # {}
        /\ UNCHANGED <<members, sessions, shared, own>>
     \/ \E u \in IF Matched(c) = {} THEN Users \ Members ELSE Matched(c) :
          /\ Matched(c) # {} \/ WithEmail(c.email) = {}
          /\ members' = [members EXCEPT ![u] =
               IF @ = NoMember
               THEN [email |-> c.email, password |-> FALSE, subject |-> c.subject, disabled |-> FALSE]
               ELSE IF @.subject = "none" THEN [@ EXCEPT !.subject = c.subject] ELSE @]
          /\ IF members[u].disabled THEN UNCHANGED <<sessions, shared, own>>
             ELSE sessions' = NewSession(u) /\ Store(t, Len(sessions) + 1, mode)
  /\ UNCHANGED <<limits, now, checks>>

-----------------------------------------------------------------------------
(* What else happens: an administrator, and time.                          *)

SetDisabled(u, b) ==
  /\ u \in Members /\ members[u].disabled # b
  /\ members' = [members EXCEPT ![u].disabled = b]
  /\ UNCHANGED <<sessions, oidc, limits, callbacks, now, shared, own, checks, exchanged>>

\* The row's tokens go with it.
RemoveUser(u) ==
  /\ u \in Members
  /\ members' = [members EXCEPT ![u] = NoMember]
  /\ sessions' = [i \in DOMAIN sessions |->
                    IF sessions[i].user = u THEN [sessions[i] EXCEPT !.live = FALSE] ELSE sessions[i]]
  /\ checks' = [checks EXCEPT ![u] = << >>]
  /\ UNCHANGED <<oidc, limits, callbacks, now, shared, own, exchanged>>

Tick ==
  /\ now < Horizon /\ now' = now + 1
  /\ UNCHANGED <<members, sessions, oidc, limits, callbacks, shared, own, checks, exchanged>>

PasswordNext ==
  \/ \E t \in ActiveTabs, m \in Emails, spelled \in Spellings, right \in BOOLEAN, mode \in Modes :
       /\ theme = "tabs" => right /\ spelled = "lower"
       /\ Login(t, m, spelled, right, mode)
  \/ theme = "tabs" /\ \E t \in ActiveTabs : UseExpired(t) \/ Logout(t)

ProviderNext ==
  \/ \E s \in OidcStates : StartOpenId(s)
  \/ \E h \in Callbacks, s \in OidcStates, p \in Subjects, m \in Emails, spelled \in Spellings :
       Callback(h, s, p, m, spelled)
  \/ \E h \in Callbacks : ExchangeFails(h)
  \/ \E h \in Callbacks, t \in ActiveTabs, mode \in Modes : Exchanged(h, t, mode)

SignInNext ==
  /\ UNCHANGED theme
  /\ \/ Tick
     \/ theme # "tabs" /\ \E u \in Users, b \in BOOLEAN : SetDisabled(u, b)
     \/ theme = "provider" /\ \E u \in Users : RemoveUser(u)
     \/ theme # "provider" /\ PasswordNext
     \/ theme = "provider" /\ ProviderNext

-----------------------------------------------------------------------------
(* Safety.                                                                 *)

\* However attempts are timed around the end of a fixed window, and however
\* the address is spelled, a password is compared less than twice the limit in
\* any stretch as long as the window, unless one of the attempts was right.
GuessesBounded ==
  \A u \in Users : \A start \in 0..Horizon :
    Cardinality({i \in DOMAIN checks[u] : checks[u][i] >= start /\ checks[u][i] < start + Window})
      < 2 * MaxAttempts

\* Two accounts never answer to one person at the identity provider, in
\* whatever order logins, new addresses and deletions come.
OneAccountPerSubject ==
  \A u, v \in Members : (members[u].subject = members[v].subject /\ members[u].subject # "none") => u = v

\* A stored login state opens a session for no callback that arrives after the
\* state was used, or after its time: only callbacks already waiting finish.
StatesAreSpent ==
  \A h \in Callbacks : \A s \in OidcStates :
    (callbacks[h].state # s /\ callbacks'[h].state = s) => (s \notin exchanged /\ oidc[s].created + StateTtl >= now)

\* Whatever tabs sign in and out in, a tab sends the last token stored where it
\* can see: an older one never hides it.
LastTokenIsSent == \A t \in TabIds : SentBy(t) >= own[t] /\ SentBy(t) >= shared

\* The invariants of signing in together: no password is guessed faster than
\* the limit, no subject has two accounts, no tab sends an older token.
SignInIsSafe == SignInTypeOK /\ GuessesBounded /\ OneAccountPerSubject /\ LastTokenIsSent
=============================================================================
