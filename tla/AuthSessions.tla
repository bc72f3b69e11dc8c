---------------------------- MODULE AuthSessions ----------------------------
(***************************************************************************)
(* The authentication sessions of one user: AuthService.login, refresh,    *)
(* logout and revoke_device as database transactions on the rows of        *)
(* devices, auth_sessions and refresh_token_history.                       *)
(*                                                                         *)
(* As in MessageDelivery a step is one statement of a READ COMMITTED       *)
(* transaction.  SELECT ... FOR UPDATE waits for the row and then tests    *)
(* the row again as it is after the wait, so a statement looks for its row *)
(* when the lock is free.  Two transactions that wait for each other are   *)
(* found by PostgreSQL, which aborts one of them.                          *)
(*                                                                         *)
(* A session is named by the login that created it, a refresh token by the *)
(* login or refresh that issued it.                                        *)
(***************************************************************************)
EXTENDS Naturals, FiniteSets

CONSTANTS
    Requests,       \* requests, each handled at most once
    Kind,           \* Kind[r]: "login", "refresh", "logout" or "revoke"
    Devices,        \* device ids of the user
    OldSessions,    \* sessions of earlier logins
    OldDevice,      \* OldDevice[s]: the device of an earlier session
    Free,           \* marks a row that nobody has locked
    None            \* marks a session that does not exist

ASSUME AuthAssumption ==
    /\ Kind \in [Requests -> {"login", "refresh", "logout", "revoke"}]
    /\ OldDevice \in [OldSessions -> Devices]
    /\ OldSessions \cap Requests = {}
    /\ Free \notin Requests
    /\ None \notin Devices \cup OldSessions \cup Requests
    /\ OldSessions # {} /\ Devices # {}

Sessions == OldSessions \cup Requests
Tokens == Sessions

VARIABLES
    registered,     \* the devices with a row
    revoked,        \* the devices whose revoked_at is set
    device,         \* device[s]: auth_sessions.device_id, None without a row
    current,        \* current[s]: refresh_token_hash
    ended,          \* the sessions whose revoked_at is set
    expired,        \* the sessions whose refresh_expires_at has passed
    history,        \* refresh_token_history: pairs of a token and its session
    userLock,       \* the request that holds the user's row FOR UPDATE
    deviceLock,     \* deviceLock[d]: the request that has updated d's row
    sessionLock,    \* sessionLock[s]: the request that has locked s's row
    pc,             \* pc[r]: the statement that request r executes next
    arg,            \* arg[r]: the device or the token that r names
    result          \* result[r]: the answer to request r

store == <<registered, revoked, device, current, ended, history>>
locks == <<userLock, deviceLock, sessionLock>>
vars == <<store, expired, locks, pc, arg, result>>

Goto(r, label) == pc' = [pc EXCEPT ![r] = label]

\* Commit or rollback: all locks of the transaction are released.
Finish(r, answer) ==
    /\ userLock' = IF userLock = r THEN Free ELSE userLock
    /\ deviceLock' = [d \in Devices |-> IF deviceLock[d] = r THEN Free ELSE deviceLock[d]]
    /\ sessionLock' = [s \in Sessions |->
                          IF sessionLock[s] = r THEN Free ELSE sessionLock[s]]
    /\ Goto(r, "end")
    /\ result' = [result EXCEPT ![r] = answer]
    /\ UNCHANGED arg

\* The sessions whose current token is t, and those that have used it before.
CurrentSession(t) == {s \in Sessions : device[s] # None /\ current[s] = t}
ConsumedSession(t) == {s \in Sessions : <<t, s>> \in history}

\* Every token that a login or a refresh has issued.
Issued == {current[s] : s \in {x \in Sessions : device[x] # None}}
          \cup {h[1] : h \in history}

\* is_session_active.
SessionActive(s) == device[s] \notin revoked /\ s \notin ended /\ s \notin expired

----------------------------------------------------------------------------
(* login *)

LoginStart(r) ==
    /\ Kind[r] = "login"
    /\ pc[r] = "start"
    /\ \E d \in Devices : arg' = [arg EXCEPT ![r] = d]
    /\ Goto(r, "user")
    /\ UNCHANGED <<store, expired, locks, result>>

\* Mutant: the login does not lock the user.
UserUnlocked(r) ==
    /\ pc[r] = "user"
    /\ Goto(r, "device")
    /\ UNCHANGED <<store, expired, locks, arg, result>>

\* The user's row, by login and by revoke_device.
LockUser(r) ==
    /\ pc[r] = "user"
    /\ userLock = Free
    /\ userLock' = r
    /\ Goto(r, "device")
    /\ UNCHANGED <<store, expired, deviceLock, sessionLock, arg, result>>

\* _register_or_update_device: the device is read under the user's lock.
LoginDevice(r) ==
    /\ Kind[r] = "login"
    /\ pc[r] = "device"
    /\ \/ /\ arg[r] \in revoked
          /\ Finish(r, "forbidden")
       \/ /\ arg[r] \notin revoked
          /\ Goto(r, "commit")
          /\ UNCHANGED <<locks, arg, result>>
    /\ UNCHANGED <<store, expired>>

\* The device is inserted or updated, and a session with a new token inserted.
LoginCommit(r) ==
    /\ Kind[r] = "login"
    /\ pc[r] = "commit"
    /\ deviceLock[arg[r]] = Free
    /\ registered' = registered \cup {arg[r]}
    /\ device' = [device EXCEPT ![r] = arg[r]]
    /\ current' = [current EXCEPT ![r] = r]
    /\ Finish(r, "issued")
    /\ UNCHANGED <<revoked, ended, history, expired>>

----------------------------------------------------------------------------
(* refresh and logout *)

\* A browser presents a token that was issued at some time.
TokenStart(r) ==
    /\ Kind[r] \in {"refresh", "logout"}
    /\ pc[r] = "start"
    /\ \E t \in Issued : arg' = [arg EXCEPT ![r] = t]
    /\ Goto(r, "token")
    /\ UNCHANGED <<store, expired, locks, result>>

\* _lock_current_session of refresh.
RefreshLock(r) ==
    LET found == CurrentSession(arg[r])
    IN /\ Kind[r] = "refresh"
       /\ pc[r] = "token"
       /\ \A s \in found : sessionLock[s] = Free
       /\ sessionLock' = [s \in Sessions |-> IF s \in found THEN r ELSE sessionLock[s]]
       /\ Goto(r, IF found = {} THEN "consumed" ELSE "identity")
       /\ UNCHANGED <<store, expired, userLock, deviceLock, arg, result>>

\* Mutant: the early return leaves the transaction open.
RefreshIdentityKeepingLock(r) ==
    /\ Kind[r] = "refresh"
    /\ pc[r] = "identity"
    /\ LET active == \A s \in CurrentSession(arg[r]) : SessionActive(s)
       IN Goto(r, IF active THEN "commit" ELSE "end")
    /\ UNCHANGED <<store, expired, locks, arg, result>>

\* The device and the user are loaded after that, without a lock.
RefreshIdentity(r) ==
    /\ Kind[r] = "refresh"
    /\ pc[r] = "identity"
    /\ LET active == \A s \in CurrentSession(arg[r]) : SessionActive(s)
       IN \/ active /\ Goto(r, "commit") /\ UNCHANGED <<locks, arg, result>>
          \/ ~active /\ Finish(r, "invalid")
    /\ UNCHANGED <<store, expired>>

\* The session that was loaded with token t.
SessionOf(t) == CurrentSession(t) \cup ConsumedSession(t)

\* The token moves to the history and a new one takes its place; last_seen_at
\* is written to the device's row, which may have to be waited for.
RefreshCommit(r) ==
    /\ Kind[r] = "refresh"
    /\ pc[r] = "commit"
    /\ \E s \in SessionOf(arg[r]) :
        /\ deviceLock[device[s]] = Free
        /\ history' = history \cup {<<arg[r], s>>}
        /\ current' = [current EXCEPT ![s] = r]
    /\ Finish(r, "rotated")
    /\ UNCHANGED <<registered, revoked, device, ended, expired>>

\* Mutant: the revocation is rolled back with the failing request.
RefreshConsumedUncommitted(r) ==
    /\ Kind[r] = "refresh"
    /\ pc[r] = "consumed"
    /\ Finish(r, "reuse")
    /\ UNCHANGED <<store, expired>>

\* _lock_consumed_session of refresh: the session is revoked, and the
\* revocation committed although the request fails.
RefreshConsumed(r) ==
    LET reused == ConsumedSession(arg[r])
    IN /\ Kind[r] = "refresh"
       /\ pc[r] = "consumed"
       /\ \A s \in reused : sessionLock[s] = Free
       /\ ended' = ended \cup reused
       /\ Finish(r, IF reused = {} THEN "invalid" ELSE "reuse")
       /\ UNCHANGED <<registered, revoked, device, current, history, expired>>

\* Mutant: logout only knows the current token.
LogoutCurrentOnly(r) ==
    /\ Kind[r] = "logout"
    /\ pc[r] = "token"
    /\ \A s \in CurrentSession(arg[r]) : sessionLock[s] = Free
    /\ ended' = ended \cup CurrentSession(arg[r])
    /\ Finish(r, "done")
    /\ UNCHANGED <<registered, revoked, device, current, history, expired>>

Logout(r) ==
    LET found == CurrentSession(arg[r])
    IN /\ Kind[r] = "logout"
       /\ pc[r] = "token"
       /\ \A s \in found : sessionLock[s] = Free
       /\ \/ /\ found # {}
             /\ ended' = ended \cup found
             /\ Finish(r, "done")
          \/ /\ found = {}
             /\ Goto(r, "consumed")
             /\ UNCHANGED <<ended, locks, arg, result>>
       /\ UNCHANGED <<registered, revoked, device, current, history, expired>>

LogoutConsumed(r) ==
    LET found == ConsumedSession(arg[r])
    IN /\ Kind[r] = "logout"
       /\ pc[r] = "consumed"
       /\ \A s \in found : sessionLock[s] = Free
       /\ ended' = ended \cup found
       /\ Finish(r, "done")
       /\ UNCHANGED <<registered, revoked, device, current, history, expired>>

----------------------------------------------------------------------------
(* revoke_device *)

RevokeStart(r) ==
    /\ Kind[r] = "revoke"
    /\ pc[r] = "start"
    /\ \E s \in Sessions : device[s] # None /\ SessionActive(s)
    /\ \E d \in Devices : arg' = [arg EXCEPT ![r] = d]
    /\ Goto(r, "user")
    /\ UNCHANGED <<store, expired, locks, result>>

\* The device is read under the user's lock.
RevokeRead(r) ==
    /\ Kind[r] = "revoke"
    /\ pc[r] = "device"
    /\ \/ /\ arg[r] \notin registered
          /\ Finish(r, "not_found")
       \/ /\ arg[r] \in registered \cap revoked
          /\ Finish(r, "done")
       \/ /\ arg[r] \in registered \ revoked
          /\ Goto(r, "flush")
          /\ UNCHANGED <<locks, arg, result>>
    /\ UNCHANGED <<store, expired>>

\* The UPDATE of auth_sessions first flushes the one of the device.
RevokeFlush(r) ==
    /\ Kind[r] = "revoke"
    /\ pc[r] = "flush"
    /\ deviceLock[arg[r]] = Free
    /\ deviceLock' = [deviceLock EXCEPT ![arg[r]] = r]
    /\ Goto(r, "sessions")
    /\ UNCHANGED <<store, expired, userLock, sessionLock, arg, result>>

\* The sessions of the device that are not revoked yet.
OpenSessions(d) == {s \in Sessions : device[s] = d /\ s \notin ended}

\* The UPDATE of auth_sessions, which waits for locked rows, and the commit.
RevokeCommit(r) ==
    /\ Kind[r] = "revoke"
    /\ pc[r] = "sessions"
    /\ \A s \in OpenSessions(arg[r]) : sessionLock[s] = Free
    /\ ended' = ended \cup OpenSessions(arg[r])
    /\ revoked' = revoked \cup {arg[r]}
    /\ Finish(r, "done")
    /\ UNCHANGED <<registered, device, current, history, expired>>

----------------------------------------------------------------------------
\* The requests that r waits for.
WaitsFor(r) ==
    (CASE pc[r] = "user" -> {userLock}
       [] pc[r] = "token" -> {sessionLock[s] : s \in CurrentSession(arg[r])}
       [] pc[r] = "consumed" -> {sessionLock[s] : s \in ConsumedSession(arg[r])}
       [] pc[r] = "commit" /\ Kind[r] = "refresh" ->
              {deviceLock[device[s]] : s \in CurrentSession(arg[r])}
       [] pc[r] \in {"flush", "commit"} /\ Kind[r] # "refresh" -> {deviceLock[arg[r]]}
       [] pc[r] = "sessions" -> {sessionLock[s] : s \in OpenSessions(arg[r])}
       [] OTHER -> {}) \ {Free, r}

\* A refresh holds its session and waits for the device, while a revocation
\* holds the device and waits for the session.  PostgreSQL aborts one.
DeadlockDetected(r) ==
    /\ \E q \in WaitsFor(r) : r \in WaitsFor(q)
    /\ Finish(r, "aborted")
    /\ UNCHANGED <<store, expired>>

\* A lost connection or a stopped server process.
Rollback(r) ==
    /\ pc[r] \notin {"start", "end"}
    /\ Finish(r, "aborted")
    /\ UNCHANGED <<store, expired>>

Expire(s) ==
    /\ device[s] # None
    /\ expired' = expired \cup {s}
    /\ UNCHANGED <<store, locks, pc, arg, result>>

AllEnded == (\A r \in Requests : pc[r] = "end") /\ UNCHANGED vars

Init ==
    /\ registered = {OldDevice[s] : s \in OldSessions}
    /\ revoked = {}
    /\ device = [s \in Sessions |-> IF s \in OldSessions THEN OldDevice[s] ELSE None]
    /\ current = [s \in Sessions |-> s]
    /\ ended = {}
    /\ expired = {}
    /\ history = {}
    /\ userLock = Free
    /\ deviceLock = [d \in Devices |-> Free]
    /\ sessionLock = [s \in Sessions |-> Free]
    /\ pc = [r \in Requests |-> "start"]
    /\ arg = [r \in Requests |-> None]
    /\ result = [r \in Requests |-> "none"]

Step(r) ==
    \/ LockUser(r) \/ LoginDevice(r) \/ LoginCommit(r)
    \/ RefreshLock(r) \/ RefreshIdentity(r) \/ RefreshCommit(r) \/ RefreshConsumed(r)
    \/ Logout(r) \/ LogoutConsumed(r)
    \/ RevokeRead(r) \/ RevokeFlush(r) \/ RevokeCommit(r)

Next ==
    \/ \E r \in Requests :
        \/ LoginStart(r) \/ TokenStart(r) \/ RevokeStart(r)
        \/ Step(r) \/ DeadlockDetected(r) \/ Rollback(r)
    \/ \E s \in Sessions : Expire(s)
    \/ AllEnded

Spec == Init /\ [][Next]_vars

\* A row lock that becomes free again and again is granted to who waits for it,
\* and PostgreSQL looks for deadlocks after deadlock_timeout.
FairSpec ==
    /\ Spec
    /\ \A r \in Requests : SF_vars(Step(r))
    /\ WF_vars(\E r \in Requests : DeadlockDetected(r))

----------------------------------------------------------------------------
(* Properties *)

TypeOK ==
    /\ registered \subseteq Devices
    /\ revoked \subseteq registered
    /\ device \in [Sessions -> Devices \cup {None}]
    /\ current \in [Sessions -> Tokens]
    /\ ended \subseteq Sessions
    /\ expired \subseteq Sessions
    /\ history \subseteq Tokens \X Sessions
    /\ userLock \in Requests \cup {Free}
    /\ deviceLock \in [Devices -> Requests \cup {Free}]
    /\ sessionLock \in [Sessions -> Requests \cup {Free}]
    /\ pc \in [Requests -> {"start", "user", "device", "commit", "token", "identity",
                            "consumed", "flush", "sessions", "end"}]
    /\ arg \in [Requests -> Devices \cup Tokens \cup {None}]
    /\ result \in [Requests -> {"none", "issued", "rotated", "reuse", "invalid", "done",
                                "forbidden", "not_found", "aborted"}]

\* A revoked device has no session left that is not revoked: no login and no
\* refresh that overlaps the revocation leaves one behind.
RevokedDeviceLoggedOut ==
    \A s \in Sessions : device[s] \in revoked => s \in ended

\* "Reuse of any rotated token revokes its authentication session": of all the
\* refreshes that present one token at most one gets a new token, and one that
\* comes after it ends the session, which it then can no longer refresh.
ReuseRevokes ==
    /\ \A r, q \in Requests :
        result[r] = "rotated" /\ result[q] = "rotated" /\ arg[r] = arg[q] => r = q
    /\ \A r \in Requests :
        /\ result[r] = "reuse" => ConsumedSession(arg[r]) # {}
        /\ result[r] = "reuse" => ConsumedSession(arg[r]) \subseteq ended

\* A logout ends the session of its token, though a refresh may rotate the
\* token at the same time.
LogoutEnds ==
    \A r \in Requests : Kind[r] = "logout" /\ result[r] = "done" =>
        CurrentSession(arg[r]) \cup ConsumedSession(arg[r]) \subseteq ended

\* Every request that was started is answered, although refresh and
\* revoke_device lock the device and the session in opposite orders: again and
\* again there is a moment when none is under way.
EveryRequestEnds == []<>(\A r \in Requests : pc[r] \in {"start", "end"})
=============================================================================
