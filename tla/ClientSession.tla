--------------------------- MODULE ClientSession ----------------------------
(***************************************************************************)
(* The signed-in state of the tabs of one browser: ApiClient (the access   *)
(* token, its refresh timer and the Web Lock round the shared refresh      *)
(* cookie) under SessionStore (restore, login, register, logout, revoking  *)
(* the own device).                                                        *)
(*                                                                         *)
(* The tabs share one cookie.  A refresh rotates it, and a cookie that was *)
(* rotated away is taken for stolen when it is presented again: the server *)
(* then revokes the session.  So the calls that read and write the cookie  *)
(* run one at a time, under a lock that waits at most 15 s, each with a    *)
(* deadline of its own of 15 s.                                            *)
(*                                                                         *)
(* A session is a number, a refresh token the pair of its session and its  *)
(* rotation, an access token its session (and 0).  The two counters that tell late *)
(* answers apart are flags of a call: "current" says that sessionRevision  *)
(* is still the one the call read, "mine" that generation still is.  A tab *)
(* runs at most one call of each kind at a time; in the code a second one  *)
(* can start while an abandoned one is still waiting for its deadline.     *)
(***************************************************************************)
EXTENDS Naturals, FiniteSets

CONSTANTS
    Tabs,           \* the tabs of the browser
    MaxSessions,    \* bound: sessions that the server creates
    MaxRotations,   \* bound: refresh tokens that a session issues
    Registers,      \* whether the visitor also registers
    Errands,        \* bound: what the other requests of a tab are for
    Leaving,        \* how a tab is left: its page unmounted, or reloaded
    Returning,      \* whether the browser comes with a session
    MaxOrphans,     \* bound: requests given up that the server still handles
    None            \* no cookie, no session

ASSUME SessionAssumption ==
    /\ MaxSessions \in Nat \ {0} /\ MaxRotations \in Nat \ {0}
    /\ Registers \in BOOLEAN /\ Leaving \subseteq {"unmount", "reload"} /\ MaxOrphans \in Nat
    /\ Errands \subseteq {"fetch", "revoke"} /\ Returning \subseteq BOOLEAN
    /\ None \notin (1..MaxSessions) \cup ((1..MaxSessions) \X (0..MaxRotations))

Sessions == 1..MaxSessions
RefreshTokens == Sessions \X (1..MaxRotations)
Locking == {"refresh", "login", "logout"}
Requests == {"account", "other"}
Kinds == Locking \cup Requests
Lockers == Tabs \X Locking

VARIABLES
    live,           \* the sessions that the server accepts
    rotation,       \* rotation[s]: the rotation of its token, 0: no session yet
    reused,         \* the sessions revoked because a consumed token came back
    cookie,         \* the refresh token of the browser, or None
    lost,           \* the sessions one of whose tokens never reached the browser
    orphans,        \* requests that the browser gave up and the server may handle
    queue,          \* the Web Lock: queue[c] are the calls that asked before call c
    tab             \* tab[t]: ApiClient and SessionStore of tab t

server == <<live, rotation, reused>>
browser == <<cookie, lost>>
vars == <<server, browser, orphans, queue, tab>>

Idle == [at |-> "idle", current |-> FALSE, mine |-> FALSE, errand |-> None,
         again |-> FALSE, renewed |-> FALSE, presents |-> None, answer |-> None, sets |-> {}]

Fresh == [active |-> FALSE, phase |-> "restoring", submitting |-> FALSE,
          signingOut |-> FALSE, busy |-> FALSE, token |-> None,
          timer |-> "off", notify |-> FALSE, waiters |-> {},
          call |-> [k \in Kinds |-> Idle]]

----------------------------------------------------------------------------
(* The parts of ApiClient and SessionStore that a step calls; b is a tab. *)

\* generation += 1: no call belongs to the operation that the store runs.
Disown(b) ==
    [b EXCEPT !.waiters = @ \ {"restore"},
              !.call = [k \in Kinds |-> [b.call[k] EXCEPT !.mine = FALSE]]]

ClearAuthenticatedState(b) ==
    [Disown(b) EXCEPT !.phase = "anonymous", !.submitting = FALSE,
                      !.signingOut = FALSE, !.busy = FALSE]

\* sessionRevision += 1; an active store listens to onSessionExpired.
ClearSession(b, notify) ==
    LET c == [b EXCEPT !.token = None, !.timer = "off",
                       !.call = [k \in Kinds |-> [b.call[k] EXCEPT !.current = FALSE]]]
    IN IF notify /\ b.active THEN ClearAuthenticatedState(c) ELSE c

AcceptTokens(b, s) == [b EXCEPT !.token = s, !.timer = "armed"]

\* A call starts and asks for the lock.
Asks(b, k, again) ==
    [b EXCEPT !.call[k] = [Idle EXCEPT !.at = "lock", !.current = k # "logout",
                                       !.mine = k # "refresh", !.again = again]]

Refreshing(b) == b.call["refresh"].at # "idle"

\* refreshAccessToken: one refresh at a time, joined by whoever needs it.
RefreshAccessToken(b, notify, who) ==
    IF Refreshing(b)
    THEN [b EXCEPT !.waiters = @ \cup who]
    ELSE [Asks(b, "refresh", FALSE) EXCEPT !.notify = notify, !.waiters = who]

\* logout forgets the session at once, then asks the server to end it.
Logout(b) == Asks(ClearSession(b, FALSE), "logout", FALSE)

\* The calls that wait for the lock or run under it.
Queued == {c \in Lockers : tab[c[1]].call[c[2]].at \in {"lock", "sent", "answered"}}

\* The lock queue after tab t has become b: a call that asks comes last.
Joined(t, k, b) ==
    IF tab[t].call[k].at # "lock" /\ b.call[k].at = "lock"
    THEN [queue EXCEPT ![<<t, k>>] = Queued]
    ELSE queue

\* The calls in gone stop waiting, or give the lock back.
Without(gone) == [c \in Lockers |-> IF c \in gone THEN {} ELSE queue[c] \ gone]

Leave(t, k) == Without({<<t, k>>})

Becomes(t, b) == tab' = [tab EXCEPT ![t] = b]

\* The store's operation that waits for call k fails, or its
\* sign-out is over: signOut and restore end anonymous, login, register and
\* revokeDevice end where they started.
OperationEnds(b, k) ==
    LET c == [b EXCEPT !.call[k] = Idle]
    IN IF ~b.call[k].mine THEN c
       ELSE IF k = "other" THEN [c EXCEPT !.busy = @ /\ b.call[k].errand # "revoke"]
       ELSE IF b.signingOut \/ b.phase = "restoring" THEN ClearAuthenticatedState(c)
       ELSE [c EXCEPT !.submitting = FALSE]

\* loadAccount starts with requests for the user and the devices.
LoadsAccount(b) ==
    [b EXCEPT !.call["account"] = [Idle EXCEPT !.at = "ready", !.mine = TRUE]]

\* Mutant: tokens are accepted whatever happened since the refresh started.
AcceptLate(b, outcome, s) ==
    LET c == IF outcome = "ok" THEN AcceptTokens(b, s) ELSE b
    IN [c EXCEPT !.waiters = {}, !.notify = FALSE, !.call =
           [k \in Kinds |->
               CASE k = "refresh" -> Idle
                 [] k \in b.waiters -> [b.call[k] EXCEPT !.at = "ready"]
                 [] OTHER -> b.call[k]]]

\* Mutant: a late answer is dropped with those who wait for it.
DropLate(b, outcome, s) ==
    IF outcome = "ok" /\ b.call["refresh"].current
    THEN AcceptLate(b, outcome, s)
    ELSE [b EXCEPT !.call["refresh"] = Idle, !.waiters = {}, !.notify = FALSE]

\* restoreSession ends: with a token restore loads the account.
RestoreEnds(b, error) ==
    IF error \/ b.token = None THEN ClearAuthenticatedState(b) ELSE LoadsAccount(b)

\* The refresh ends and those who wait for it go on.  A late answer is no
\* error and changes nothing; only a refusal ends the session.
RefreshSettles(b, outcome, s) ==
    LET current == b.call["refresh"].current
        error == outcome # "ok" /\ current
        c == CASE outcome = "ok" /\ current -> AcceptTokens(b, s)
               [] outcome = "denied" /\ current -> ClearSession(b, b.notify)
               [] OTHER -> b
        resumed == [k \in Kinds |->
            CASE k = "refresh" -> Idle
              [] k \in c.waiters -> [c.call[k] EXCEPT !.at = IF error THEN "failed" ELSE "ready"]
              [] OTHER -> c.call[k]]
        retry == "timer" \in c.waiters /\ error /\ outcome = "failed" /\ c.token # None
        d == [c EXCEPT !.waiters = {}, !.notify = FALSE, !.call = resumed,
                       !.timer = IF retry THEN "retry" ELSE @]
    IN IF "restore" \in c.waiters THEN RestoreEnds(d, error) ELSE d

\* A login ends; a revoked device is replaced once and the login repeated.
LoginSettles(b, outcome, s) ==
    LET c == b.call["login"]
        accepted == AcceptTokens(ClearSession(b, FALSE), s)
    IN IF outcome = "ok" /\ c.current
       THEN IF c.mine THEN [LoadsAccount(accepted) EXCEPT !.call["login"] = Idle]
            ELSE [accepted EXCEPT !.call["login"] = Idle]
       ELSE IF outcome = "revoked" /\ c.mine /\ ~c.again
       THEN [b EXCEPT !.call["login"] = [@ EXCEPT !.at = "replace"]]
       ELSE OperationEnds(b, "login")

\* A request of authenticatedRequest ends: refused once, it waits for a
\* refresh; refused twice, the session is over.
RequestSettles(b, k, outcome) ==
    LET c == b.call[k]
        waiting == [b EXCEPT !.call[k] = [@ EXCEPT !.at = "await", !.again = TRUE,
                                                !.renewed = FALSE]]
    IN IF outcome = "denied" /\ ~c.again THEN RefreshAccessToken(waiting, TRUE, {k})
       ELSE IF outcome = "denied" THEN OperationEnds(ClearSession(b, TRUE), k)
       ELSE IF outcome = "failed" THEN OperationEnds(b, k)
       ELSE IF c.mine /\ (k = "account" \/ c.errand = "revoke")
       THEN [b EXCEPT !.call[k] = [@ EXCEPT !.at = "done"]]
       ELSE [b EXCEPT !.call[k] = Idle]

Settled(b, k, outcome, s) ==
    CASE k = "refresh" -> RefreshSettles(b, outcome, s)
      [] k = "login" -> LoginSettles(b, outcome, s)
      [] k = "logout" -> OperationEnds(b, "logout")
      [] OTHER -> RequestSettles(b, k, outcome)

----------------------------------------------------------------------------
(* SessionStore: what the visitor and the page do *)

Init ==
    /\ live \in {IF back THEN {1} ELSE {} : back \in Returning}
    /\ rotation = [s \in Sessions |-> IF s \in live THEN 1 ELSE 0]
    /\ cookie = IF live = {} THEN None ELSE <<1, 1>>
    /\ reused = {} /\ lost = {} /\ orphans = {}
    /\ queue = [c \in Lockers |-> {}]
    /\ tab = [t \in Tabs |-> Fresh]

\* restore, when the page mounts; local storage may fail to give the identity.
Restore(t) ==
    LET b == [Disown(tab[t]) EXCEPT !.active = TRUE, !.phase = "restoring",
                 !.submitting = FALSE, !.signingOut = FALSE, !.busy = FALSE]
        c == RefreshAccessToken(b, FALSE, {"restore"})
    IN /\ ~tab[t].active
       /\ tab[t].call["account"].at = "idle"
       /\ \/ Becomes(t, c) /\ queue' = Joined(t, "refresh", c)
          \/ Becomes(t, ClearAuthenticatedState(b)) /\ UNCHANGED queue
       /\ UNCHANGED <<server, browser, orphans>>

Dispose(t) ==
    /\ "unmount" \in Leaving
    /\ tab[t].active
    /\ Becomes(t, [Disown(tab[t]) EXCEPT !.active = FALSE])
    /\ UNCHANGED <<server, browser, orphans, queue>>

\* login and register start when the store is anonymous and idle.
Authenticate(t) ==
    LET b == [Disown(tab[t]) EXCEPT !.submitting = TRUE]
        c == Asks(b, "login", FALSE)
    IN /\ tab[t].active /\ tab[t].phase = "anonymous"
       /\ ~tab[t].submitting /\ ~tab[t].signingOut
       /\ tab[t].call["login"].at = "idle" /\ tab[t].call["account"].at = "idle"
       /\ \/ Becomes(t, c) /\ queue' = Joined(t, "login", c)
          \/ /\ Registers
             /\ Becomes(t, [b EXCEPT !.call["login"] =
                                [Idle EXCEPT !.at = "register", !.mine = TRUE]])
             /\ UNCHANGED queue
       /\ UNCHANGED <<server, browser, orphans>>

\* The registration is answered, or fails.
Registered(t) ==
    LET b == tab[t]
        c == IF b.call["login"].mine THEN Asks(b, "login", FALSE)
             ELSE [b EXCEPT !.call["login"] = Idle]
    IN /\ b.call["login"].at = "register"
       /\ \/ Becomes(t, c) /\ queue' = Joined(t, "login", c)
          \/ Becomes(t, OperationEnds(b, "login")) /\ UNCHANGED queue
       /\ UNCHANGED <<server, browser, orphans>>

\* The revoked device has a new identity (or local storage fails): log in again.
ReplaceDevice(t) ==
    LET b == tab[t]
        c == IF b.call["login"].mine THEN Asks(b, "login", TRUE)
             ELSE [b EXCEPT !.call["login"] = Idle]
    IN /\ b.call["login"].at = "replace"
       /\ \/ Becomes(t, c) /\ queue' = Joined(t, "login", c)
          \/ Becomes(t, OperationEnds(b, "login")) /\ UNCHANGED queue
       /\ UNCHANGED <<server, browser, orphans>>

\* The session's device is not the one of this browser's storage: sign out.
Mismatch(t) ==
    LET b == [tab[t] EXCEPT !.call["account"] = Idle]
        c == Logout(b)
    IN /\ tab[t].call["account"].at = "done" /\ tab[t].call["account"].mine
       /\ b.call["logout"].at = "idle"
       /\ Becomes(t, c)
       /\ queue' = Joined(t, "logout", c)
       /\ UNCHANGED <<server, browser, orphans>>

SignedIn(b) ==
    IF b.call["account"].mine
    THEN [b EXCEPT !.phase = "authenticated", !.submitting = FALSE]
    ELSE b

\* prepareInbox ends, or fails.
AccountLoaded(t) ==
    /\ tab[t].call["account"].at = "done"
    /\ \/ Becomes(t, [SignedIn(tab[t]) EXCEPT !.call["account"] = Idle])
       \/ Becomes(t, OperationEnds(tab[t], "account"))
    /\ UNCHANGED <<server, browser, orphans, queue>>

\* signOut, by the visitor or after revokeDevice of the own device.
SignOut(t) ==
    LET b == [Disown(tab[t]) EXCEPT !.signingOut = TRUE, !.submitting = FALSE,
                                    !.busy = FALSE]
        revoked == b.call["other"].at = "done"
        c == Logout(b)
        d == IF revoked THEN [c EXCEPT !.call["other"] = Idle] ELSE c
    IN /\ tab[t].active /\ ~tab[t].signingOut
       /\ revoked => tab[t].call["other"].mine
       /\ tab[t].call["logout"].at = "idle"
       /\ Becomes(t, d)
       /\ queue' = Joined(t, "logout", d)
       /\ UNCHANGED <<server, browser, orphans>>

\* The device is revoked, but the store has gone on meanwhile.
RevokedLate(t) ==
    /\ tab[t].call["other"].at = "done" /\ ~tab[t].call["other"].mine
    /\ Becomes(t, [tab[t] EXCEPT !.call["other"] = Idle])
    /\ UNCHANGED <<server, browser, orphans, queue>>

\* Another request of a signed-in tab: a fetch, or revokeDevice.
StartRequest(t) ==
    \E e \in Errands :
        /\ tab[t].active /\ tab[t].phase = "authenticated" /\ ~tab[t].signingOut
        /\ e = "revoke" => ~tab[t].busy
        /\ tab[t].call["other"].at = "idle"
        /\ Becomes(t, [tab[t] EXCEPT !.busy = @ \/ e = "revoke",
               !.call["other"] = [Idle EXCEPT !.at = "ready", !.mine = TRUE, !.errand = e]])
        /\ UNCHANGED <<server, browser, orphans, queue>>

----------------------------------------------------------------------------
(* ApiClient: timers, requests and the lock *)

\* The timer of scheduleRefresh, and the one retry after a failure.
TimerFires(t) ==
    LET b == [tab[t] EXCEPT !.timer = "off"]
        c == RefreshAccessToken(b, TRUE, IF tab[t].timer = "armed" THEN {"timer"} ELSE {})
    IN /\ tab[t].timer # "off"
       /\ Becomes(t, c)
       /\ queue' = Joined(t, "refresh", c)
       /\ UNCHANGED <<server, browser, orphans>>

\* getAccessToken(true) of a connection that the server closed with 4401.
GetAccessToken(t) ==
    LET c == RefreshAccessToken(tab[t], TRUE, {})
    IN /\ tab[t].active /\ tab[t].phase = "authenticated" /\ ~tab[t].signingOut
       /\ ~Refreshing(tab[t])
       /\ Becomes(t, c)
       /\ queue' = Joined(t, "refresh", c)
       /\ UNCHANGED <<server, browser, orphans>>

\* authenticatedRequest sends the request, after one refresh if there is no token;
\* a late refresh has brought none, and the request goes without.  The token may
\* have expired, unless the request is repeated after a refresh.
SendRequest(t, k) ==
    LET b == tab[t]
        valid == IF b.token = None THEN {None}
                 ELSE {<<b.token, 0>>} \cup (IF b.call[k].again THEN {} ELSE {None})
        sent == {[b EXCEPT !.call[k] = [@ EXCEPT !.at = "sent", !.presents = x]] : x \in valid}
        waits == [b EXCEPT !.call[k] = [@ EXCEPT !.at = "await", !.renewed = TRUE]]
        waiting == RefreshAccessToken(waits, TRUE, {k})
    IN /\ k \in Requests /\ b.call[k].at = "ready"
       /\ \E c \in IF b.token = None /\ ~b.call[k].renewed THEN {waiting} ELSE sent :
             /\ Becomes(t, c)
             /\ queue' = Joined(t, "refresh", c)
       /\ UNCHANGED <<server, browser, orphans>>

\* The refresh that a request waits for has failed.
RequestFails(t, k) ==
    /\ k \in Requests /\ tab[t].call[k].at = "failed"
    /\ Becomes(t, OperationEnds(tab[t], k))
    /\ UNCHANGED <<server, browser, orphans, queue>>

\* The cookie that the browser sends along; a login makes no use of it.
Attached(k) == IF k = "login" THEN None ELSE cookie

\* Mutant: no lock; whoever asks goes on.
Unlocked(t, k) ==
    /\ k \in Locking /\ tab[t].call[k].at = "lock"
    /\ \/ /\ k = "login" /\ ~tab[t].call[k].current
          /\ Becomes(t, OperationEnds(tab[t], k))
          /\ queue' = Leave(t, k)
       \/ /\ k = "login" => tab[t].call[k].current
          /\ Becomes(t, [tab[t] EXCEPT !.call[k] =
                            [@ EXCEPT !.at = "sent", !.presents = Attached(k)]])
          /\ UNCHANGED queue
    /\ UNCHANGED <<server, browser, orphans>>

\* The lock is granted: the request goes out with the cookie of this moment.
\* A login whose revision has gone by gives up.
Granted(t, k) ==
    /\ k \in Locking /\ tab[t].call[k].at = "lock"
    /\ queue[<<t, k>>] = {}
    /\ \/ /\ k = "login" /\ ~tab[t].call[k].current
          /\ Becomes(t, OperationEnds(tab[t], k))
          /\ queue' = Leave(t, k)
       \/ /\ k = "login" => tab[t].call[k].current
          /\ Becomes(t, [tab[t] EXCEPT !.call[k] =
                            [@ EXCEPT !.at = "sent", !.presents = Attached(k)]])
          /\ UNCHANGED queue
    /\ UNCHANGED <<server, browser, orphans>>

\* The lock was not granted in time.
LockTimeout(t, k) ==
    /\ k \in Locking /\ tab[t].call[k].at = "lock"
    /\ Becomes(t, Settled(tab[t], k, "failed", None))
    /\ queue' = Leave(t, k)
    /\ UNCHANGED <<server, browser, orphans>>

----------------------------------------------------------------------------
(* The server *)

\* The token names a session that has not ended.
OfLiveSession(x) == IF x = None THEN FALSE ELSE x[1] \in live

\* refresh: the current token is rotated, a consumed one ends its session.
\* Every refusal clears the cookie.
ServeRefresh(x, answer, sets) ==
    \/ /\ ~OfLiveSession(x)
       /\ answer = "denied" /\ sets = {None}
       /\ UNCHANGED server
    \/ /\ OfLiveSession(x) /\ x[2] = rotation[x[1]]
       /\ x[2] < MaxRotations
       /\ rotation' = [rotation EXCEPT ![x[1]] = @ + 1]
       /\ answer = "ok" /\ sets = {<<x[1], x[2] + 1>>}
       /\ UNCHANGED <<live, reused>>
    \/ /\ OfLiveSession(x) /\ x[2] # rotation[x[1]]
       /\ live' = live \ {x[1]}
       /\ reused' = reused \cup {x[1]}
       /\ answer = "denied" /\ sets = {None}
       /\ UNCHANGED rotation

\* login: a new session, a refusal, or the device has been revoked.
ServeLogin(answer, sets) ==
    \/ /\ answer \in {"denied", "revoked"} /\ sets = {}
       /\ UNCHANGED server
    \/ \E s \in Sessions :
          /\ rotation[s] = 0 /\ \A r \in 1..(s - 1) : rotation[r] # 0
          /\ live' = live \cup {s}
          /\ rotation' = [rotation EXCEPT ![s] = 1]
          /\ answer = "ok" /\ sets = {<<s, 1>>}
          /\ UNCHANGED reused

\* logout ends the session of a current or consumed token.
ServeLogout(x, answer, sets) ==
    /\ live' = IF x = None THEN live ELSE live \ {x[1]}
    /\ answer = "ok" /\ sets = {None}
    /\ UNCHANGED <<rotation, reused>>

\* Any other request needs an access token of a live session.
ServeRequest(x, revoke, answer, sets) ==
    /\ \/ /\ OfLiveSession(x)
          /\ answer = "ok"
          /\ live' = IF revoke THEN live \ {x[1]} ELSE live
       \/ /\ ~OfLiveSession(x)
          /\ answer = "denied"
          /\ UNCHANGED live
    /\ sets = {}
    /\ UNCHANGED <<rotation, reused>>

Answers == {"ok", "denied", "revoked"}
Cookies == {{}, {None}} \cup {{x} : x \in RefreshTokens}

Serve(k, c, answer, sets) ==
    CASE k = "refresh" -> ServeRefresh(c.presents, answer, sets)
      [] k = "login" -> ServeLogin(answer, sets)
      [] k = "logout" -> ServeLogout(c.presents, answer, sets)
      [] OTHER -> ServeRequest(c.presents, c.errand = "revoke", answer, sets)

\* The server handles a request.
Handle(t, k) ==
    /\ tab[t].call[k].at = "sent"
    /\ \E answer \in Answers, sets \in Cookies :
          /\ Serve(k, tab[t].call[k], answer, sets)
          /\ Becomes(t, [tab[t] EXCEPT !.call[k] = [@ EXCEPT
                 !.at = "answered", !.presents = None, !.answer = answer, !.sets = sets]])
    /\ UNCHANGED <<browser, orphans, queue>>

\* The server handles a request that the browser has given up.
HandleOrphan(o) ==
    /\ o \in orphans
    /\ \E answer \in Answers, sets \in Cookies : Serve(o.kind, o.call, answer, sets)
    /\ orphans' = orphans \ {o}
    /\ UNCHANGED <<browser, queue, tab>>

\* The session ends elsewhere: its device is revoked by another device.
RevokedElsewhere(s) ==
    /\ s \in live
    /\ live' = live \ {s}
    /\ UNCHANGED <<rotation, reused, browser, orphans, queue, tab>>

----------------------------------------------------------------------------
(* The network and the browser *)

\* The session of the tokens that an answer brings.
SessionOf(sets) == (CHOOSE x \in sets : TRUE)[1]

\* The browser stores the cookie of the answer, then the tab reads the answer.
Deliver(t, k) ==
    LET c == tab[t].call[k]
        b == Settled(tab[t], k, c.answer,
                     IF c.answer = "ok" /\ k \in {"refresh", "login"} THEN SessionOf(c.sets)
                     ELSE None)
    IN /\ c.at = "answered"
       /\ Becomes(t, b)
       /\ \E x \in IF c.sets = {} THEN {cookie} ELSE c.sets : cookie' = x
       /\ queue' = IF k \in Locking THEN Leave(t, k) ELSE Joined(t, "refresh", b)
       /\ UNCHANGED <<server, lost, orphans>>

\* A request given up while it is sent reaches the server later, or never.
GiveUp(calls) ==
    \/ orphans' = orphans
    \/ \E o \in [kind : {"refresh", "login", "logout", "other"}, call : {calls[k] : k \in Kinds}] :
          /\ o.call = calls[o.kind] /\ o.call.at = "sent"
          /\ o.kind = "other" => o.call.errand = "revoke"
          /\ Cardinality(orphans) < MaxOrphans
          /\ orphans' = orphans \cup {[o EXCEPT !.call =
                 [Idle EXCEPT !.presents = o.call.presents, !.errand = o.call.errand]]}

\* The sessions whose rotation the browser may never learn of.
Unlearned(c) ==
    {x[1] : x \in IF c.at = "sent" THEN {c.presents} \ {None}
                  ELSE IF c.answer = "ok" THEN c.sets ELSE {}}

\* fetchApi fails or its deadline passes, before the answer or, with the
\* cookie of the headers already stored, in the middle of the body.
RequestTimeout(t, k) ==
    LET c == tab[t].call[k]
        b == Settled(tab[t], k, "failed", None)
    IN /\ c.at \in {"sent", "answered"}
       /\ Becomes(t, b)
       /\ \/ /\ UNCHANGED cookie
             /\ lost' = IF k = "refresh" THEN lost \cup Unlearned(c) ELSE lost
          \/ /\ c.at = "answered"
             /\ c.sets # {} /\ cookie' \in c.sets
             /\ UNCHANGED lost
       /\ GiveUp([j \in Kinds |-> IF j = k THEN c ELSE Idle])
       /\ queue' = IF k \in Locking THEN Leave(t, k) ELSE queue
       /\ UNCHANGED server

\* The visitor reloads the tab: its calls are given up, its locks released.
Reload(t) ==
    /\ "reload" \in Leaving
    /\ tab[t].active
    /\ Becomes(t, Fresh)
    /\ lost' = lost \cup Unlearned(tab[t].call["refresh"])
    /\ GiveUp(tab[t].call)
    /\ queue' = Without({t} \X Locking)
    /\ UNCHANGED <<server, cookie>>

----------------------------------------------------------------------------
\* The promises that a settled call resolves run on before any other event of
\* the tab.
Resuming(t) == \E k \in Requests : tab[t].call[k].at \in {"ready", "failed"}

Next ==
    \/ \E t \in Tabs :
          /\ ~Resuming(t)
          /\ \/ Restore(t) \/ Dispose(t) \/ Authenticate(t) \/ Registered(t)
             \/ ReplaceDevice(t) \/ Mismatch(t) \/ AccountLoaded(t) \/ SignOut(t)
             \/ RevokedLate(t) \/ StartRequest(t) \/ TimerFires(t)
             \/ GetAccessToken(t) \/ Reload(t)
    \/ \E t \in Tabs, k \in Kinds :
          /\ ~Resuming(t)
          /\ Granted(t, k) \/ LockTimeout(t, k) \/ Deliver(t, k) \/ RequestTimeout(t, k)
    \/ \E t \in Tabs, k \in Kinds :
          SendRequest(t, k) \/ RequestFails(t, k) \/ Handle(t, k)
    \/ \E o \in orphans : HandleOrphan(o)
    \/ \E s \in Sessions : RevokedElsewhere(s)

Spec == Init /\ [][Next]_vars

----------------------------------------------------------------------------
Calls ==
    [at : {"idle", "register", "replace", "lock", "ready", "await", "failed",
           "sent", "answered", "done"},
     current : BOOLEAN, mine : BOOLEAN, again : BOOLEAN, renewed : BOOLEAN,
     errand : {"fetch", "revoke", None},
     presents : (Sessions \X (0..MaxRotations)) \cup {None},
     answer : Answers \cup {None}, sets : Cookies]

TabRecords ==
    [active : BOOLEAN, phase : {"restoring", "anonymous", "authenticated"},
     submitting : BOOLEAN, signingOut : BOOLEAN, busy : BOOLEAN,
     token : Sessions \cup {None}, timer : {"off", "armed", "retry"}, notify : BOOLEAN,
     waiters : SUBSET ({"restore", "timer"} \cup Requests), call : [Kinds -> Calls]]

\* The variables have their types.
TypeOK ==
    /\ live \subseteq Sessions /\ reused \subseteq Sessions /\ lost \subseteq Sessions
    /\ rotation \in [Sessions -> 0..MaxRotations]
    /\ cookie \in RefreshTokens \cup {None}
    /\ orphans \subseteq [kind : Locking \cup {"other"}, call : Calls]
    /\ queue \in [Lockers -> SUBSET Lockers]
    /\ tab \in [Tabs -> TabRecords]

\* A tab that shows a signed-in account holds an access token: whatever ends
\* the session in ApiClient (a refused refresh of a timer, of a request or of
\* a connection, a request refused twice) also ends it in SessionStore, and no
\* operation that was overtaken signs in afterwards.  And from the moment the
\* visitor signs out until the sign-out is over the tab holds none: the answers
\* of a refresh or a login that were on their way are thrown away
\* (sessionRevision), and a refresh that a late request starts afterwards waits
\* behind the sign-out for the lock.
TokenFollowsPhase ==
    \A t \in Tabs : tab[t].active =>
        /\ tab[t].phase = "authenticated" /\ ~tab[t].signingOut => tab[t].token # None
        /\ tab[t].signingOut => tab[t].token = None

\* The tabs of one browser never make the server take a rotated token for
\* stolen, unless the answer of a refresh never reached the browser: the Web
\* Lock keeps a tab from presenting a cookie that another is rotating.
NoFalseReuse == reused \subseteq lost

Runs(b, k) == b.call[k].at # "idle" /\ b.call[k].mine

\* Nothing waits for what is not coming: whoever has joined refreshPromise waits
\* for a refresh that is under way, and while the page shows that it restores,
\* signs in, signs out or revokes, a call that this operation still owns is
\* under way and will end it.
NoOperationStuck ==
    \A t \in Tabs :
        LET b == tab[t]
        IN /\ b.waiters # {} => Refreshing(b)
           /\ \A k \in Requests : b.call[k].at = "await" <=> k \in b.waiters
           /\ b.active =>
                /\ b.phase = "restoring" => \/ "restore" \in b.waiters
                                            \/ Runs(b, "account") \/ Runs(b, "logout")
                /\ b.submitting => \E k \in {"login", "account", "logout"} : Runs(b, k)
                /\ b.signingOut => Runs(b, "logout")
                /\ b.busy => Runs(b, "other") /\ b.call["other"].errand = "revoke"

============================================================================
