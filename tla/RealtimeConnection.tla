-------------------------- MODULE RealtimeConnection --------------------------
(***************************************************************************)
(* The realtime connection of one device: WebSocketManager in each browser *)
(* tab, the /ws endpoint, the ConnectionRegistry and the event bus of one  *)
(* server process.                                                         *)
(*                                                                         *)
(* A tab opens a socket; the endpoint of the socket authenticates it,      *)
(* registers it in the place of the device's previous connection, and then *)
(* handles commands.  Events for the device are delivered to the           *)
(* registered connection by tasks of their own.  A socket has frames on    *)
(* the way to the tab (down) and commands on the way to the server (up).   *)
(* Events and commands are told apart by one thing: whether they were      *)
(* published or sent before or after the session was revoked.              *)
(***************************************************************************)
EXTENDS Naturals, Sequences, FiniteSets

CONSTANTS
    Tabs,           \* browser tabs of the device
    Sockets,        \* WebSockets; one that is over may be used again
    None,           \* no tab, no socket
    Traffic,        \* what goes over the connections: "commands", "events"
    MaxCalls,       \* bound on a tab's unfinished calls of connect
    MaxFrames,      \* frames that a socket takes before a send stalls
    MaxDeliveries   \* MAX_PENDING_DELIVERIES, 256 in the code

ASSUME ConnectionAssumption ==
    /\ None \notin Tabs \cup Sockets
    /\ Traffic \subseteq {"commands", "events"}
    /\ MaxCalls \in Nat \ {0}
    /\ MaxFrames \in Nat \ {0}
    /\ MaxDeliveries \in Nat

Stamps == {"before", "after"}
Codes == {"open", "1000", "4001", "4401"}
Frames == {"auth.ok", "answer"} \cup Stamps
Calls == [refresh : BOOLEAN, stale : BOOLEAN]
Timers == {"none", "plain", "refresh"}
Stages == {"none", "accepted", "authenticated", "replacing", "hello", "loop",
           "command", "handling", "over"}

VARIABLES
    active,     \* the tabs whose manager is started
    calls,      \* calls[t]: unfinished calls of connect, stale if superseded
    timer,      \* timer[t]: the reconnect timer
    socket,     \* socket[t]: the current socket
    authed,     \* the tabs whose current socket has received auth.ok
    pending,    \* the tabs with an unanswered command
    owner,      \* owner[s]: the tab that has yet to see s close
    gone,       \* the sockets that are closed on the client's side
    code,       \* code[s]: how the server closed s
    up, down,   \* up[s], down[s]: commands and frames on the way
    expired,    \* the sockets whose access token has expired
    ep,         \* ep[s]: the next step of the endpoint of s
    prior,      \* prior[s]: the connection that s is replacing
    cmd,        \* cmd[s]: the stamp of the command that s is handling
    registry,   \* the registered connection of the device
    ousted,     \* history: sockets replaced or given up by a delivery
    revoked,    \* the session of the device is revoked
    bus,        \* stamps of events on the bus
    deliveries  \* delivery tasks

tab == <<active, calls, timer, socket, authed, pending>>
wire == <<owner, gone, code, up, down, expired>>
endpoint == <<ep, prior, cmd>>
server == <<registry, ousted, revoked, bus, deliveries>>
vars == <<tab, wire, endpoint, server>>

Now == IF revoked THEN "after" ELSE "before"
Authorized(s) == ~revoked /\ s \notin expired
Open(s) == s \notin gone /\ code[s] = "open"

----------------------------------------------------------------------------
(* WebSocketManager *)

\* connect and stop make the earlier calls of connect stale.
Superseded(t) == {[c EXCEPT !.stale = TRUE] : c \in calls[t]}

\* Mutant: every callback of an active manager counts.
CurrentAny(t, s) == t \in active

Current(t, s) == t \in active /\ socket[t] = s

Connect(t, refresh) ==
    calls' = [calls EXCEPT ![t] = Superseded(t) \cup {[refresh |-> refresh, stale |-> FALSE]}]

\* start
Start(t) ==
    /\ t \notin active
    /\ Cardinality(calls[t]) < MaxCalls
    /\ active' = active \cup {t}
    /\ Connect(t, FALSE)
    /\ UNCHANGED <<timer, socket, authed, pending, wire, endpoint, server>>

\* stop, with the other calls of connect; rejectPending fails the commands.
Halt(t, others) ==
    /\ active' = active \ {t}
    /\ calls' = [others EXCEPT ![t] = {[c EXCEPT !.stale = TRUE] : c \in others[t]}]
    /\ timer' = [timer EXCEPT ![t] = "none"]
    /\ socket' = [socket EXCEPT ![t] = None]
    /\ authed' = authed \ {t}
    /\ pending' = pending \ {t}
    /\ gone' = gone \cup ({socket[t]} \ {None})
    /\ down' = [s \in Sockets |-> IF s = socket[t] THEN <<>> ELSE down[s]]

\* The user signs out, or the page unmounts the client.
Stop(t) ==
    /\ t \in active
    /\ Halt(t, calls)
    /\ UNCHANGED <<owner, code, up, expired, endpoint, server>>

CallsWithout(t, c) == [calls EXCEPT ![t] = @ \ {c}]

\* connect returns without effect once it was superseded.
StaleCall(t) ==
    \E c \in calls[t] :
        /\ c.stale
        /\ calls' = CallsWithout(t, c)
        /\ UNCHANGED <<active, timer, socket, authed, pending, wire, endpoint, server>>

\* Nothing refers to s any more.
Unused(s) ==
    /\ ep[s] \in {"none", "over"} /\ owner[s] = None
    /\ \A x \in Sockets : prior[x] # s
    /\ \A d \in deliveries : d.to # s

\* connect has an access token: a refreshed one is good, another one may have
\* expired.  After a revocation only an old token is left.
OpenSocket(t) ==
    \E c \in calls[t], s \in Sockets :
        /\ ~c.stale
        /\ ~(c.refresh /\ revoked)
        /\ Unused(s)
        /\ calls' = CallsWithout(t, c)
        /\ socket' = [socket EXCEPT ![t] = s]
        /\ owner' = [owner EXCEPT ![s] = t]
        /\ gone' = gone \ {s}
        /\ code' = [code EXCEPT ![s] = "open"]
        /\ \/ expired' = expired \ {s}
           \/ ~c.refresh /\ expired' = expired \cup {s}
        /\ ep' = [ep EXCEPT ![s] = "accepted"]
        /\ ousted' = ousted \ {s}
        /\ UNCHANGED <<active, timer, authed, pending, up, down, prior, cmd, registry, revoked, bus,
                       deliveries>>

\* The refresh of the token is refused, and the manager stops.
TokenRefused(t) ==
    \E c \in calls[t] :
        /\ ~c.stale /\ c.refresh /\ revoked
        /\ Halt(t, CallsWithout(t, c))
        /\ UNCHANGED <<owner, code, up, expired, endpoint, server>>

\* Another failure of getAccessToken: connect again later.
TokenFails(t) ==
    \E c \in calls[t] :
        /\ ~c.stale
        /\ calls' = CallsWithout(t, c)
        /\ timer' = [timer EXCEPT ![t] = IF c.refresh THEN "refresh" ELSE "plain"]
        /\ UNCHANGED <<active, socket, authed, pending, wire, endpoint, server>>

Reconnect(t) ==
    /\ timer[t] # "none" /\ t \in active
    /\ Cardinality(calls[t]) < MaxCalls
    /\ timer' = [timer EXCEPT ![t] = "none"]
    /\ Connect(t, timer[t] = "refresh")
    /\ UNCHANGED <<active, socket, authed, pending, wire, endpoint, server>>

\* The connection breaks, or no auth.ok has come for 10 seconds.
Break(s) ==
    /\ owner[s] # None /\ s \notin gone
    /\ gone' = gone \cup {s}
    /\ down' = [down EXCEPT ![s] = <<>>]
    /\ UNCHANGED <<tab, owner, code, up, expired, endpoint, server>>

\* Mutant: a replaced connection is opened again.
FinalReconnecting(k) == FALSE

\* The close codes after which the client does not come back.
Final(k) == k = "4001"

\* onclose: frames that came before it have been handled.
OnClose(t) ==
    \E s \in Sockets :
        /\ owner[s] = t
        /\ s \in gone \/ (code[s] # "open" /\ down[s] = <<>>)
        /\ owner' = [owner EXCEPT ![s] = None]
        /\ UNCHANGED <<code, up, expired, endpoint, server>>
        /\ \/ /\ ~Current(t, s)
              /\ gone' = gone \cup {s}
              /\ UNCHANGED <<tab, down>>
           \/ /\ Current(t, s) /\ s \notin gone /\ Final(code[s])
              /\ Halt(t, calls)
           \/ /\ Current(t, s) /\ (s \in gone \/ ~Final(code[s]))
              /\ socket' = [socket EXCEPT ![t] = None]
              /\ authed' = authed \ {t}
              /\ pending' = pending \ {t}
              /\ gone' = gone \cup {s}
              /\ timer' = [timer EXCEPT ![t] =
                            IF s \notin gone /\ code[s] = "4401" THEN "refresh" ELSE "plain"]
              /\ UNCHANGED <<active, calls, down>>

\* onmessage and handleFrame: a frame before auth.ok is dropped, and so is any
\* frame of a socket that is not the current one.
OnMessage(t) ==
    \E s \in Sockets :
        /\ owner[s] = t /\ s \notin gone /\ down[s] # <<>>
        /\ down' = [down EXCEPT ![s] = Tail(@)]
        /\ authed' = IF Current(t, s) /\ Head(down[s]) = "auth.ok" THEN authed \cup {t} ELSE authed
        /\ pending' = IF Current(t, s) /\ t \in authed /\ Head(down[s]) = "answer"
                      THEN pending \ {t} ELSE pending
        /\ UNCHANGED <<active, calls, timer, socket, owner, gone, code, up, expired, endpoint, server>>

Ready(t) == t \in authed /\ socket[t] # None /\ Open(socket[t])

\* request: a command is sent.
Request(t) ==
    /\ "commands" \in Traffic
    /\ Ready(t) /\ t \notin pending
    /\ pending' = pending \cup {t}
    /\ up' = [up EXCEPT ![socket[t]] = @ \cup {Now}]
    /\ UNCHANGED <<active, calls, timer, socket, authed, owner, gone, code, down, expired, endpoint, server>>

\* The command times out; its answer will find no pending request.
RequestTimeout(t) ==
    /\ t \in pending
    /\ pending' = pending \ {t}
    /\ UNCHANGED <<active, calls, timer, socket, authed, wire, endpoint, server>>

----------------------------------------------------------------------------
(* ConnectionRegistry and Connection *)

CanSend(s) == Open(s) /\ Len(down[s]) < MaxFrames

\* Connection.send, under the connection's lock: it waits for a slow client.
Send(s, frame) == CanSend(s) /\ down' = [down EXCEPT ![s] = Append(@, frame)]

\* The client of s is slow, and a send has the lock of the connection.
Stalled(s) == Open(s) /\ Len(down[s]) = MaxFrames

\* Connection.close, which gives up if it does not get the lock in a second.
Closed(s, k) == [x \in Sockets |-> IF x = s /\ code[x] = "open" THEN k ELSE code[x]]
ClosedBy(s, k) == {Closed(s, k)} \cup (IF Stalled(s) THEN {code} ELSE {})

\* Mutant: the entry is deleted whoever is registered.
UnregisteredAny(s) == None

\* unregister
Unregistered(s) == IF registry = s THEN None ELSE registry

----------------------------------------------------------------------------
(* websocket_endpoint *)

Goto(s, stage) == ep' = [ep EXCEPT ![s] = stage]

\* The end of the endpoint.  A socket that was not closed is closed after it.
Finish(s, codes) ==
    /\ Goto(s, "over")
    /\ registry' = Unregistered(s)
    /\ \E k \in codes : code' = [k EXCEPT ![s] = IF @ = "open" THEN "1000" ELSE @]
    /\ up' = [up EXCEPT ![s] = {}]
    /\ expired' = expired \ {s}
    /\ cmd' = [cmd EXCEPT ![s] = "before"]
    /\ UNCHANGED <<tab, owner, gone, down, prior, ousted, revoked, bus, deliveries>>

\* The first frame carries the access token.
Authenticate(s) ==
    /\ ep[s] = "accepted" /\ s \notin gone
    /\ \/ /\ Authorized(s)
          /\ Goto(s, "authenticated")
          /\ UNCHANGED <<tab, wire, prior, cmd, server>>
       \/ /\ ~Authorized(s)
          /\ Finish(s, ClosedBy(s, "4401"))

\* register: at once the connection of the device.  The previous one is closed
\* in the same step, unless a stalled send has its lock.
Register(s) ==
    /\ ep[s] = "authenticated"
    /\ registry' = s
    /\ ousted' = ousted \cup ({registry} \ {None})
    /\ IF registry # None /\ Stalled(registry)
       THEN /\ prior' = [prior EXCEPT ![s] = registry]
            /\ Goto(s, "replacing")
            /\ UNCHANGED code
       ELSE /\ code' = Closed(registry, "4001")
            /\ Goto(s, "hello")
            /\ UNCHANGED prior
    /\ UNCHANGED <<tab, owner, gone, up, down, expired, cmd, revoked, bus, deliveries>>

\* Within a second the lock becomes free, or close gives up.
ClosePrevious(s) ==
    /\ ep[s] = "replacing"
    /\ code' \in ClosedBy(prior[s], "4001")
    /\ prior' = [prior EXCEPT ![s] = None]
    /\ Goto(s, "hello")
    /\ UNCHANGED <<tab, owner, gone, up, down, expired, cmd, server>>

Hello(s) ==
    /\ ep[s] = "hello"
    /\ Send(s, "auth.ok")
    /\ Goto(s, "loop")
    /\ UNCHANGED <<tab, owner, gone, code, up, expired, prior, cmd, server>>

\* A command arrives; a connection that was replaced does not take it.
ReceiveCommand(s) ==
    \E k \in up[s] :
        /\ ep[s] = "loop" /\ registry = s
        /\ Goto(s, "command")
        /\ up' = [up EXCEPT ![s] = @ \ {k}]
        /\ cmd' = [cmd EXCEPT ![s] = k]
        /\ UNCHANGED <<tab, owner, gone, code, down, expired, prior, server>>

AuthorizeCommand(s) ==
    /\ ep[s] = "command"
    /\ \/ /\ Authorized(s)
          /\ Goto(s, "handling")
          /\ UNCHANGED <<tab, wire, prior, cmd, server>>
       \/ /\ ~Authorized(s)
          /\ Finish(s, ClosedBy(s, "4401"))

Handle(s) ==
    /\ ep[s] = "handling"
    /\ Send(s, "answer")
    /\ Goto(s, "loop")
    /\ cmd' = [cmd EXCEPT ![s] = "before"]
    /\ UNCHANGED <<tab, owner, gone, code, up, expired, prior, server>>

\* Mutant: an idle connection is not looked at.
IdleCheckNone(s) == FALSE /\ UNCHANGED vars

\* After 30 seconds without a frame the session is checked; the loop ends if it
\* is not valid, or if the connection was replaced.
IdleCheck(s) ==
    /\ ep[s] = "loop" /\ up[s] = {}
    /\ \/ ~Authorized(s) /\ Finish(s, ClosedBy(s, "4401"))
       \/ Authorized(s) /\ registry # s /\ Finish(s, {code})

\* A command on a connection that was replaced ends the loop.
ReplacedCommand(s) ==
    /\ ep[s] = "loop" /\ up[s] # {} /\ registry # s
    /\ Finish(s, {code})

\* The endpoint finds its socket closed, when it receives or sends.
Disconnected(s) ==
    /\ ep[s] \in {"accepted", "hello", "loop", "handling"}
    /\ ~Open(s)
    /\ Finish(s, {code})

\* The database or the server fails while the endpoint is at work.
EndpointFails(s) ==
    /\ ep[s] \in {"accepted", "loop", "command", "handling"}
    /\ Finish(s, {code})

----------------------------------------------------------------------------
(* The event bus *)

\* An event for the device is published after a commit.
Publish ==
    /\ "events" \in Traffic
    /\ bus' = bus \cup {Now}
    /\ UNCHANGED <<tab, wire, endpoint, registry, ousted, revoked, deliveries>>

\* _listen and _dispatch: an event is dropped if the device is not connected or
\* too many deliveries are under way, else a task delivers it.
Dispatch ==
    \E k \in bus :
        /\ bus' = bus \ {k}
        /\ deliveries' =
             IF registry = None \/ Cardinality(deliveries) >= MaxDeliveries THEN deliveries
             ELSE deliveries \cup {[event |-> k, to |-> registry, stage |-> "authorize"]}
        /\ UNCHANGED <<tab, wire, endpoint, registry, ousted, revoked>>

\* Mutant: the connection was authorized when it was opened.
DeliverUnchecked ==
    \E d \in deliveries :
        /\ d.stage = "authorize"
        /\ deliveries' = (deliveries \ {d}) \cup
               (IF registry = d.to THEN {[d EXCEPT !.stage = "send"]} ELSE {})
        /\ UNCHANGED <<tab, wire, endpoint, registry, ousted, revoked, bus>>

\* A delivery that fails takes the connection out of the registry and closes it.
GiveUpConnection(s) ==
    /\ registry' = Unregistered(s)
    /\ ousted' = ousted \cup {s}
    /\ code' \in ClosedBy(s, "4401")

\* deliver: authorize, and then see whether the connection is still registered.
DeliverAuthorize ==
    \E d \in deliveries :
        /\ d.stage = "authorize"
        /\ \/ /\ Authorized(d.to)
              /\ deliveries' = (deliveries \ {d}) \cup
                     (IF registry = d.to THEN {[d EXCEPT !.stage = "send"]} ELSE {})
              /\ UNCHANGED <<registry, ousted, code>>
           \/ /\ ~Authorized(d.to)
              /\ GiveUpConnection(d.to)
              /\ deliveries' = deliveries \ {d}
        /\ UNCHANGED <<tab, owner, gone, up, down, expired, endpoint, revoked, bus>>

\* The database fails when the session is checked.
DeliverFails ==
    \E d \in deliveries :
        /\ d.stage = "authorize"
        /\ GiveUpConnection(d.to)
        /\ deliveries' = deliveries \ {d}
        /\ UNCHANGED <<tab, owner, gone, up, down, expired, endpoint, revoked, bus>>

DeliverSend ==
    \E d \in deliveries :
        /\ d.stage = "send"
        /\ deliveries' = deliveries \ {d}
        /\ \/ Send(d.to, d.event) /\ UNCHANGED <<registry, ousted, code>>
           \/ ~Open(d.to) /\ GiveUpConnection(d.to) /\ UNCHANGED down
        /\ UNCHANGED <<tab, owner, gone, up, expired, endpoint, revoked, bus>>

\* After 5 seconds a delivery is given up.
DeliverTimeout ==
    \E d \in deliveries :
        /\ deliveries' = deliveries \ {d}
        /\ UNCHANGED <<tab, wire, endpoint, registry, ousted, revoked, bus>>

----------------------------------------------------------------------------
(* The session *)

Expire(s) ==
    /\ s \notin expired /\ ep[s] \notin {"none", "over"}
    /\ expired' = expired \cup {s}
    /\ UNCHANGED <<tab, owner, gone, code, up, down, endpoint, server>>

Revoke ==
    /\ ~revoked
    /\ revoked' = TRUE
    /\ UNCHANGED <<tab, wire, endpoint, registry, ousted, bus, deliveries>>

----------------------------------------------------------------------------

Init ==
    /\ active = {} /\ authed = {} /\ pending = {}
    /\ calls = [t \in Tabs |-> {}]
    /\ timer = [t \in Tabs |-> "none"]
    /\ socket = [t \in Tabs |-> None]
    /\ owner = [s \in Sockets |-> None]
    /\ gone = {} /\ expired = {}
    /\ code = [s \in Sockets |-> "open"]
    /\ up = [s \in Sockets |-> {}]
    /\ down = [s \in Sockets |-> <<>>]
    /\ ep = [s \in Sockets |-> "none"]
    /\ prior = [s \in Sockets |-> None]
    /\ cmd = [s \in Sockets |-> "before"]
    /\ registry = None /\ ousted = {} /\ revoked = FALSE
    /\ bus = {} /\ deliveries = {}

\* What the endpoint of s does by itself.
EndpointStep(s) ==
    \/ Authenticate(s) \/ Register(s) \/ ClosePrevious(s) \/ Hello(s)
    \/ ReceiveCommand(s) \/ AuthorizeCommand(s) \/ Handle(s) \/ IdleCheck(s)
    \/ ReplacedCommand(s) \/ Disconnected(s)

Next ==
    \/ \E t \in Tabs :
        \/ Start(t) \/ Stop(t) \/ StaleCall(t) \/ OpenSocket(t) \/ TokenRefused(t)
        \/ TokenFails(t) \/ Reconnect(t) \/ OnClose(t) \/ OnMessage(t)
        \/ Request(t) \/ RequestTimeout(t)
    \/ \E s \in Sockets :
        \/ Authenticate(s) \/ Register(s) \/ ClosePrevious(s) \/ Hello(s)
        \/ ReceiveCommand(s) \/ AuthorizeCommand(s) \/ Handle(s) \/ IdleCheck(s)
        \/ ReplacedCommand(s) \/ Disconnected(s) \/ EndpointFails(s)
        \/ Break(s) \/ Expire(s)
    \/ Publish \/ Dispatch \/ DeliverAuthorize \/ DeliverFails \/ DeliverSend
    \/ DeliverTimeout \/ Revoke

Spec == Init /\ [][Next]_vars

\* Calls and timers of a tab, the browser's callbacks, the endpoints and the
\* delivery tasks go on.  An endpoint in its loop checks every 30 seconds.
FairSpec ==
    /\ Spec
    /\ \A t \in Tabs :
        /\ WF_vars(StaleCall(t))
        /\ WF_vars(OpenSocket(t) \/ TokenRefused(t))
        /\ WF_vars(Reconnect(t))
        /\ WF_vars(OnClose(t))
        /\ WF_vars(OnMessage(t))
    /\ \A s \in Sockets : WF_vars(EndpointStep(s))
    /\ WF_vars(DeliverAuthorize \/ DeliverSend \/ DeliverTimeout)

----------------------------------------------------------------------------
(* Properties *)

TypeOK ==
    /\ active \subseteq Tabs /\ authed \subseteq Tabs /\ pending \subseteq Tabs
    /\ calls \in [Tabs -> SUBSET Calls]
    /\ timer \in [Tabs -> Timers]
    /\ socket \in [Tabs -> Sockets \cup {None}]
    /\ owner \in [Sockets -> Tabs \cup {None}]
    /\ gone \subseteq Sockets /\ expired \subseteq Sockets /\ ousted \subseteq Sockets
    /\ code \in [Sockets -> Codes]
    /\ up \in [Sockets -> SUBSET Stamps]
    /\ \A s \in Sockets : down[s] \in Seq(Frames) /\ Len(down[s]) <= MaxFrames
    /\ ep \in [Sockets -> Stages]
    /\ prior \in [Sockets -> Sockets \cup {None}]
    /\ cmd \in [Sockets -> Stamps]
    /\ registry \in Sockets \cup {None}
    /\ revoked \in BOOLEAN
    /\ bus \subseteq Stamps
    /\ deliveries \subseteq [event : Stamps, to : Sockets, stage : {"authorize", "send"}]
    /\ Cardinality(deliveries) <= MaxDeliveries

\* What a tab has under way to get a connection, or has got.
Attempts(t) ==
    Cardinality({c \in calls[t] : ~c.stale})
        + (IF socket[t] = None THEN 0 ELSE 1)
        + (IF timer[t] = "none" THEN 0 ELSE 1)

\* A started manager has exactly one attempt under way, a stopped one has none:
\* no callback of an old socket or call starts a second one or ends the last.
OneAttempt == \A t \in Tabs : Attempts(t) = IF t \in active THEN 1 ELSE 0

\* The connection of an endpoint that serves commands is the registered one,
\* unless it was replaced or given up: the end of an old connection never
\* unregisters the new one.
ServedIsRegistered ==
    \A s \in Sockets : ep[s] \in {"hello", "loop", "command", "handling"} =>
        s \in ousted \/ registry = s

\* Nothing that was published or sent after the revocation of the session gets
\* through a connection that is still open.
NothingAfterRevocation ==
    \A s \in Sockets :
        /\ \A i \in 1..Len(down[s]) : down[s][i] # "after"
        /\ ep[s] = "handling" => cmd[s] = "before"

Failure ==
    \/ \E t \in Tabs : TokenFails(t)
    \/ \E s \in Sockets : Break(s) \/ (EndpointFails(s) /\ ~EndpointStep(s))
    \/ DeliverFails /\ ~DeliverAuthorize

\* A connection is replaced while its client stalls.
LateReplacement == \E s \in Sockets : Register(s) /\ ep'[s] = "replacing"

Quiet == \A t \in Tabs : ~Start(t) /\ ~Stop(t)

\* A revoked session loses its connections, and its clients give up, once the
\* user has stopped starting them and failures have ceased.
RevokedCutOff ==
    <>[][Quiet /\ ~Failure]_vars =>
        []<>(revoked => active = {} /\ \A s \in Sockets : ep[s] \in {"none", "over"})

\* Once nothing disturbs them, every tab is ready for good or has been stopped:
\* tabs do not go on taking the connection of the device from each other.
TabsSettle ==
    <>[][/\ Quiet /\ ~Failure /\ ~LateReplacement /\ ~Revoke
          /\ \A s \in Sockets : ~Expire(s)]_vars =>
        <>[](\A t \in Tabs : Ready(t) \/ t \notin active)
=============================================================================
