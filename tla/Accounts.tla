------------------------------ MODULE Accounts ------------------------------
(***************************************************************************)
(* The platform database's users, sessions and API keys, and the requests  *)
(* that create, check and revoke them.  A handler runs several statements, *)
(* each its own transaction, and other handlers run between them.  When a  *)
(* key was last used is written at most once per interval: a map in memory *)
(* remembers the last time, and is changed before the table is.            *)
(***************************************************************************)
EXTENDS Integers, Sequences, FiniteSets, Functions

CONSTANTS
  Name,        \* user names as create_user stores them: trimmed, lower case
  AdminKey,    \* key ids and secrets the operator chooses
  Proc,        \* requests in flight at once
  TTL,         \* SESSION_TTL_SECONDS
  Interval,    \* KEY_TOUCH_INTERVAL
  MaxUser, MaxSession, MaxKey, \* bounds on the rows ever inserted
  MaxTime, MaxOps              \* bounds on the time and on the requests

VARIABLES
  time,
  users,      \* the user names in the order of their ids
  sessions,   \* token |-> user and expiry
  apiKeys,    \* key id |-> row
  touched,    \* key_touched: key id |-> time
  minted,     \* the session tokens and the API keys created so far
  proc,
  ops,
  granted,    \* history: what logins and logouts say of each token
  revoked,    \* history: the requests that started with a revoked secret
  failed      \* history: the keys whose last use was last written in vain

vars == <<time, users, sessions, apiKeys, touched, minted, proc, ops, granted, revoked, failed>>

UserId == 1..MaxUser
TokenId == 1..MaxSession
KeyId == 1..MaxKey \union AdminKey
Never == -1
NoUser == 0
Idle == [pc |-> "idle"]

\* The key ids and secrets there are: the operator cannot guess one to come.
Known == 1..minted.key \union AdminKey

NoRows == [x \in {} |-> x]

Without(f, S) == Restrict(f, DOMAIN f \ S)
Put(f, x, v) == [y \in DOMAIN f \union {x} |-> IF y = x THEN v ELSE f[y]]

KeyRow(u, raw, cluster) ==
  [user |-> u, raw |-> raw, created |-> time, lastUsed |-> Never, disabled |-> FALSE,
   cluster |-> cluster]

Init ==
  /\ time = 0 /\ users = <<>> /\ ops = 0
  /\ minted = [session |-> 0, key |-> 0]
  /\ sessions = NoRows /\ apiKeys = NoRows /\ touched = NoRows /\ granted = NoRows
  /\ proc = [p \in Proc |-> Idle]
  /\ revoked = {} /\ failed = {}

Begin(p, state) ==
  /\ proc[p].pc = "idle" /\ ops < MaxOps /\ ops' = ops + 1
  /\ proc' = [proc EXCEPT ![p] = state]

Goto(p, state) ==
  /\ proc' = [proc EXCEPT ![p] = state]
  /\ revoked' = IF state.pc = "idle" THEN revoked \ {p} ELSE revoked
  /\ UNCHANGED ops

-----------------------------------------------------------------------------
\* platform_signup_handler: create_user, which a taken name ends.
Signup(p, n) ==
  /\ Begin(p, [pc |-> "session", user |-> Len(users) + 1])
  /\ n \notin Range(users) /\ Len(users) < MaxUser
  /\ users' = Append(users, n)
  /\ UNCHANGED <<time, sessions, apiKeys, touched, minted, granted, revoked, failed>>

\* platform_login_handler: the right password of a user who is there.
Login(p, u) ==
  /\ u \in DOMAIN users
  /\ Begin(p, [pc |-> "session", user |-> u])
  /\ UNCHANGED <<time, users, sessions, apiKeys, touched, minted, granted, revoked, failed>>

\* create_session, the second statement of both.
CreateSession(p) ==
  /\ proc[p].pc = "session" /\ minted.session < MaxSession
  /\ LET token == minted.session + 1
         row == [user |-> proc[p].user, expires |-> time + TTL]
     IN  /\ sessions' = Put(sessions, token, row)
         /\ granted' = Put(granted, token, row)
         /\ minted' = [minted EXCEPT !.session = token]
  /\ Goto(p, Idle)
  /\ UNCHANGED <<time, users, apiKeys, touched, failed>>

\* resolve_session: the user of a token that has not expired.
Resolved(t) ==
  IF t \in DOMAIN sessions /\ sessions[t].user \in DOMAIN users /\ time < sessions[t].expires
  THEN sessions[t].user ELSE NoUser

\* platform_logout_handler.
Logout(p, t) ==
  /\ Begin(p, Idle)
  /\ sessions' = Without(sessions, {t})
  /\ granted' = Without(granted, {t})
  /\ UNCHANGED <<time, users, apiKeys, touched, minted, revoked, failed>>

\* As if the purge took the sessions that will be over by the next tick.
ExpiredEarly(now) == {t \in DOMAIN sessions : sessions[t].expires <= now + 1}

\* purge_expired_sessions on the maintenance tick.
Expired(now) == {t \in DOMAIN sessions : sessions[t].expires <= now}

Purge ==
  /\ Expired(time) # {}
  /\ sessions' = Without(sessions, Expired(time))
  /\ UNCHANGED <<time, users, apiKeys, touched, minted, proc, ops, granted, revoked, failed>>

\* The handlers a session opens: session_user_from_headers, and then ...
SessionRequest(p, t, next) ==
  /\ Resolved(t) # NoUser
  /\ Begin(p, [pc |-> next, user |-> Resolved(t)])
  /\ UNCHANGED <<time, users, sessions, apiKeys, touched, minted, granted, revoked, failed>>

\* ... create_api_key, which gives the key no cluster, ...
CreateKey(p) ==
  /\ proc[p].pc = "create" /\ minted.key < MaxKey
  /\ LET id == minted.key + 1
     IN  /\ apiKeys' = Put(apiKeys, id, KeyRow(proc[p].user, id, FALSE))
         /\ minted' = [minted EXCEPT !.key = id]
  /\ Goto(p, Idle)
  /\ UNCHANGED <<time, users, sessions, touched, granted, failed>>

\* ... or revoke_api_key, which finds only the user's own key.
RevokedBy(u, k) ==
  IF k \in DOMAIN apiKeys /\ apiKeys[k].user = u
  THEN [apiKeys EXCEPT ![k].disabled = TRUE] ELSE apiKeys

RevokeKey(p, k) ==
  /\ proc[p].pc = "revoke"
  /\ apiKeys' = RevokedBy(proc[p].user, k)
  /\ Goto(p, Idle)
  /\ UNCHANGED <<time, users, sessions, touched, minted, granted, failed>>

\* As if the replacement went by the key id alone.
InjectedById(k, u, raw) == Put(apiKeys, k, KeyRow(u, raw, TRUE))

\* inject_api_key: INSERT OR REPLACE drops the row of the id and the row of
\* the secret, whose hash is unique.
Injected(k, u, raw) ==
  Put(Without(apiKeys, {j \in DOMAIN apiKeys : apiKeys[j].raw = raw}), k, KeyRow(u, raw, TRUE))

\* The operator's handlers: admin_inject_api_key_handler ...
Inject(p, k, u, raw) ==
  /\ Begin(p, Idle)
  /\ apiKeys' = Injected(k, u, raw)
  /\ revoked' = {q \in revoked : proc[q].raw # raw}
  /\ UNCHANGED <<time, users, sessions, touched, minted, granted, failed>>

\* ... and admin_revoke_api_key_handler.
AdminRevoke(p, k) ==
  /\ k \in DOMAIN apiKeys
  /\ Begin(p, Idle)
  /\ apiKeys' = [apiKeys EXCEPT ![k].disabled = TRUE]
  /\ UNCHANGED <<time, users, sessions, touched, minted, granted, revoked, failed>>

-----------------------------------------------------------------------------
\* As if a disabled key were told apart only in lists.
MatchAny(raw) == {k \in DOMAIN apiKeys : apiKeys[k].raw = raw}

\* The rows authenticate_api_key selects.
Match(raw) == {k \in DOMAIN apiKeys : apiKeys[k].raw = raw /\ ~apiKeys[k].disabled}

\* authorize_request with a user's key: authenticate_api_key finds its row ...
Present(p, raw) ==
  /\ Begin(p, [pc |-> "present", raw |-> raw])
  /\ revoked' = IF \E k \in DOMAIN apiKeys : apiKeys[k].raw = raw /\ apiKeys[k].disabled
                THEN revoked \union {p} ELSE revoked
  /\ UNCHANGED <<time, users, sessions, apiKeys, touched, minted, granted, failed>>

Authenticate(p) ==
  /\ proc[p].pc = "present"
  /\ IF Match(proc[p].raw) = {} THEN Goto(p, Idle)
     ELSE \E k \in Match(proc[p].raw) :
            Goto(p, [pc |-> "touch", raw |-> proc[p].raw, key |-> k,
                     user |-> apiKeys[k].user, cluster |-> apiKeys[k].cluster])
  /\ UNCHANGED <<time, users, sessions, apiKeys, touched, minted, granted, failed>>

\* What follows touch_key: a key without a cluster is FORBIDDEN.
Answered(r) ==
  IF r.cluster THEN [pc |-> "accepted", raw |-> r.raw, user |-> r.user, key |-> r.key] ELSE Idle

\* ... touch_key looks at the map, and marks the key in it ...
Touch(p) ==
  /\ proc[p].pc = "touch"
  /\ LET k == proc[p].key IN
     IF k \in DOMAIN touched /\ time - touched[k] < Interval
     THEN Goto(p, Answered(proc[p])) /\ UNCHANGED touched
     ELSE /\ touched' = Put(touched, k, time)
          /\ Goto(p, [proc[p] EXCEPT !.pc = "update"])
  /\ UNCHANGED <<time, users, sessions, apiKeys, minted, granted, failed>>

\* ... and updates the row, if there is one by now.
LastUsedNow(p) == [apiKeys EXCEPT ![proc[p].key].lastUsed = time]

UpdateLastUsed(p) ==
  /\ proc[p].pc = "update"
  /\ apiKeys' = IF proc[p].key \in DOMAIN apiKeys THEN LastUsedNow(p) ELSE apiKeys
  /\ failed' = failed \ {proc[p].key}
  /\ Goto(p, Answered(proc[p]))
  /\ UNCHANGED <<time, users, sessions, touched, minted, granted>>

\* The update fails: the request is answered with an error.
UpdateFails(p) ==
  /\ proc[p].pc = "update"
  /\ failed' = failed \union {proc[p].key}
  /\ Goto(p, Idle)
  /\ UNCHANGED <<time, users, sessions, apiKeys, touched, minted, granted>>

\* The handler of an accepted request is done.
Answer(p) ==
  /\ proc[p].pc = "accepted"
  /\ Goto(p, Idle)
  /\ UNCHANGED <<time, users, sessions, apiKeys, touched, minted, granted, failed>>

\* The process ends and starts again: what is in memory is gone.
Restart ==
  /\ touched # NoRows
  /\ proc' = [p \in Proc |-> Idle]
  /\ revoked' = {} /\ failed' = {}
  /\ touched' = NoRows
  /\ UNCHANGED <<time, users, sessions, apiKeys, minted, ops, granted>>

Tick ==
  /\ time < MaxTime
  /\ time' = time + 1
  /\ UNCHANGED <<users, sessions, apiKeys, touched, minted, proc, ops, granted, revoked, failed>>

SessionStep(p) ==
  \/ \E n \in Name : Signup(p, n)
  \/ \E u \in UserId : Login(p, u)
  \/ CreateSession(p)
  \/ \E t \in TokenId : Logout(p, t) \/ \E next \in {"create", "revoke"} : SessionRequest(p, t, next)
  \/ CreateKey(p)
  \/ \E k \in KeyId : RevokeKey(p, k)

KeyStep(p) ==
  \/ \E k \in KeyId :
       \/ AdminRevoke(p, k) \/ Present(p, k)
       \/ \E u \in DOMAIN users, raw \in Known : k \in Known /\ Inject(p, k, u, raw)
  \/ Authenticate(p) \/ Touch(p) \/ UpdateLastUsed(p) \/ UpdateFails(p) \/ Answer(p)

Next == Purge \/ Restart \/ Tick \/ \E p \in Proc : SessionStep(p) \/ KeyStep(p)

Spec == Init /\ [][Next]_vars

-----------------------------------------------------------------------------
\* A session lasts from the login to the logout or its expiry, whatever is
\* purged in between: resolve_session and the purge agree on the last instant.
SessionsUntilExpiry ==
  \A t \in TokenId :
    Resolved(t) = IF t \in DOMAIN granted /\ time < granted[t].expires
                  THEN granted[t].user ELSE NoUser

\* No request gets through with a secret that was revoked before it came and
\* has not been injected again, though another row may have had the secret.
RevokedStaysOut ==
  \A p \in revoked : proc[p].pc \notin {"touch", "update", "accepted"}

\* A key that key_touched takes for written is written, or is about to be, or
\* its row is a newer one: but for a failed write, requests that overlap never
\* leave a key they used without its last use.
TouchedIsWritten ==
  \A k \in DOMAIN touched \intersect DOMAIN apiKeys :
    \/ apiKeys[k].lastUsed >= touched[k] \/ apiKeys[k].created >= touched[k]
    \/ k \in failed \/ \E p \in Proc : proc[p].pc = "update" /\ proc[p].key = k

\* One secret opens the keys of one user only.
OneKeyPerSecret ==
  \A j, k \in DOMAIN apiKeys : apiKeys[j].raw = apiKeys[k].raw => j = k

=============================================================================
