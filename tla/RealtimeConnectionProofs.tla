----------------------- MODULE RealtimeConnectionProofs -----------------------
(***************************************************************************)
(* Proofs about RealtimeConnection, for any number of tabs and sockets and *)
(* any bounds on calls, frames and deliveries.                             *)
(***************************************************************************)
EXTENDS RealtimeConnection, FiniteSetTheorems, TLAPS

----------------------------------------------------------------------------
(* The inductive invariant *)

TabTypes ==
    /\ active \subseteq Tabs /\ authed \subseteq Tabs /\ pending \subseteq Tabs
    /\ calls \in [Tabs -> SUBSET Calls]
    /\ timer \in [Tabs -> Timers]
    /\ socket \in [Tabs -> Sockets \cup {None}]

WireTypes ==
    /\ owner \in [Sockets -> Tabs \cup {None}]
    /\ gone \subseteq Sockets /\ expired \subseteq Sockets
    /\ code \in [Sockets -> Codes]
    /\ up \in [Sockets -> SUBSET Stamps]

EndpointTypes ==
    /\ ep \in [Sockets -> Stages]
    /\ prior \in [Sockets -> Sockets \cup {None}]
    /\ cmd \in [Sockets -> Stamps]

Delivery == [event : Stamps, to : Sockets, stage : {"authorize", "send"}]

ServerTypes ==
    /\ registry \in Sockets \cup {None} /\ ousted \subseteq Sockets
    /\ revoked \in BOOLEAN
    /\ bus \subseteq Stamps
    /\ deliveries \subseteq Delivery
    /\ IsFiniteSet(deliveries) /\ Cardinality(deliveries) <= MaxDeliveries

\* What is on the way to a tab: never more than the socket takes, and nothing that was
\* published after the revocation.
Sent == {"auth.ok", "answer", "before"}
DownTypes ==
    /\ down \in [Sockets -> Seq(Sent)]
    /\ \A s \in Sockets : Len(down[s]) <= MaxFrames

Types == TabTypes /\ WireTypes /\ EndpointTypes /\ ServerTypes

\* The calls of connect that were not superseded.
LiveCalls(t) == {c \in calls[t] : ~c.stale}

\* A started manager has a call, or a socket, or a timer.
Attempt(t) ==
    \/ /\ t \notin active /\ LiveCalls(t) = {} /\ socket[t] = None /\ timer[t] = "none"
    \/ /\ t \in active
       /\ \/ (\E c \in Calls : LiveCalls(t) = {c}) /\ socket[t] = None /\ timer[t] = "none"
          \/ LiveCalls(t) = {} /\ socket[t] # None /\ timer[t] = "none"
          \/ LiveCalls(t) = {} /\ socket[t] = None /\ timer[t] # "none"
Attempting == \A t \in Tabs : Attempt(t)

\* ServedIsRegistered, from the registration on.
Registered ==
    \A s \in Sockets : ep[s] \in {"replacing", "hello", "loop", "command", "handling"} =>
        s \in ousted \/ registry = s

\* "after" is the stamp of a revoked session, and whoever is past the check of the
\* session has none.
Stamped ==
    /\ ~revoked => /\ "after" \notin bus
                   /\ \A s \in Sockets : "after" \notin up[s] /\ cmd[s] # "after"
                   /\ \A d \in deliveries : d.event # "after"
    /\ \A d \in deliveries : d.stage = "send" => d.event = "before"
    /\ \A s \in Sockets : ep[s] = "handling" => cmd[s] = "before"

IInv == Types /\ DownTypes /\ Attempting /\ Registered /\ Stamped

----------------------------------------------------------------------------
(* The steps, by whose they are *)

TabStep(t) ==
    \/ Start(t) \/ Stop(t) \/ StaleCall(t) \/ OpenSocket(t) \/ TokenRefused(t)
    \/ TokenFails(t) \/ Reconnect(t) \/ OnClose(t) \/ OnMessage(t)
    \/ Request(t) \/ RequestTimeout(t)

SocketStep(s) ==
    \/ Authenticate(s) \/ Register(s) \/ ClosePrevious(s) \/ Hello(s)
    \/ ReceiveCommand(s) \/ AuthorizeCommand(s) \/ Handle(s) \/ IdleCheck(s)
    \/ ReplacedCommand(s) \/ Disconnected(s) \/ EndpointFails(s)
    \/ Break(s) \/ Expire(s)

BusStep ==
    \/ Publish \/ Dispatch \/ DeliverAuthorize \/ DeliverFails \/ DeliverSend
    \/ DeliverTimeout \/ Revoke

\* A step is one of a tab, of a socket and its endpoint, or of the bus and the session.
LEMMA Steps ==
  [Next]_vars => \/ \E t \in Tabs : TabStep(t)
                 \/ \E s \in Sockets : SocketStep(s)
                 \/ BusStep
                 \/ UNCHANGED vars
  BY DEF Next, TabStep, SocketStep, BusStep

\* Endpoints, deliveries and the session leave the managers alone.
LEMMA ManagersAlone ==
  /\ \A s \in Sockets : SocketStep(s) => UNCHANGED tab
  /\ BusStep \/ UNCHANGED vars => UNCHANGED tab
<1>1. ASSUME NEW s \in Sockets, SocketStep(s) PROVE UNCHANGED tab
  <2>1. \A codes : Finish(s, codes) => UNCHANGED tab
    BY DEF Finish
  <2> QED
    BY <1>1, <2>1 DEF SocketStep, Authenticate, Register, ClosePrevious, Hello, ReceiveCommand,
         AuthorizeCommand, Handle, IdleCheck, ReplacedCommand, Disconnected, EndpointFails,
         Break, Expire
<1>2. BusStep \/ UNCHANGED vars => UNCHANGED tab
  BY DEF BusStep, Publish, Dispatch, DeliverAuthorize, DeliverFails, DeliverSend,
         DeliverTimeout, Revoke, vars
<1> QED
  BY <1>1, <1>2

----------------------------------------------------------------------------
(* OneAttempt: the managers *)

\* Calls that are made stale.
LEMMA MadeStale ==
  ASSUME NEW S \in SUBSET Calls
  PROVE  /\ {[c EXCEPT !.stale = TRUE] : c \in S} \subseteq Calls
         /\ \A d \in {[c EXCEPT !.stale = TRUE] : c \in S} : d.stale = TRUE
<1>1. ASSUME NEW d \in {[c EXCEPT !.stale = TRUE] : c \in S} PROVE d \in Calls /\ d.stale = TRUE
  <2>1. PICK c \in S : d = [c EXCEPT !.stale = TRUE]
    OBVIOUS
  <2>2. c \in [refresh : BOOLEAN, stale : BOOLEAN]
    BY DEF Calls
  <2> QED
    BY <2>1, <2>2 DEF Calls
<1> QED
  BY <1>1

\* Superseded calls are stale.
LEMMA SupersededStale ==
  ASSUME TabTypes, NEW t \in Tabs
  PROVE  Superseded(t) \subseteq Calls /\ \A c \in Superseded(t) : c.stale = TRUE
<1>1. calls[t] \in SUBSET Calls
  BY DEF TabTypes
<1> QED
  BY <1>1, MadeStale DEF Superseded

\* connect makes one live call.
LEMMA ConnectFacts ==
  ASSUME TabTypes, NEW t \in Tabs, NEW refresh \in BOOLEAN, Connect(t, refresh)
  PROVE  /\ calls' \in [Tabs -> SUBSET Calls]
         /\ \A q \in Tabs \ {t} : calls'[q] = calls[q]
         /\ \E c \in Calls : {d \in calls'[t] : ~d.stale} = {c}
<1> DEFINE new == [refresh |-> refresh, stale |-> FALSE]
<1>1. new \in Calls /\ new.stale = FALSE
  BY DEF Calls
<1>2. /\ calls'[t] = Superseded(t) \cup {new}
      /\ \A q \in Tabs \ {t} : calls'[q] = calls[q]
      /\ calls' = [calls EXCEPT ![t] = Superseded(t) \cup {new}]
  BY DEF Connect, TabTypes
<1> HIDE DEF new
<1>3. calls' \in [Tabs -> SUBSET Calls]
  BY <1>1, <1>2, SupersededStale DEF TabTypes
<1>4. {d \in calls'[t] : ~d.stale} = {new}
  BY <1>1, <1>2, SupersededStale
<1> QED
  BY <1>1, <1>2, <1>3, <1>4

\* A call returns.
LEMMA WithoutFacts ==
  ASSUME TabTypes, NEW t \in Tabs, NEW c \in calls[t]
  PROVE  /\ CallsWithout(t, c) \in [Tabs -> SUBSET Calls]
         /\ \A q \in Tabs \ {t} : CallsWithout(t, c)[q] = calls[q]
         /\ CallsWithout(t, c)[t] = calls[t] \ {c}
         /\ c \in Calls
  BY DEF CallsWithout, TabTypes

\* stop leaves nothing under way.
LEMMA HaltFacts ==
  ASSUME TabTypes, NEW t \in Tabs, NEW others \in [Tabs -> SUBSET Calls],
         \A q \in Tabs \ {t} : others[q] = calls[q], Halt(t, others)
  PROVE  /\ TabTypes'
         /\ Attempt(t)'
         /\ \A q \in Tabs \ {t} :
                /\ (q \in active') <=> (q \in active)
                /\ calls'[q] = calls[q] /\ socket'[q] = socket[q] /\ timer'[q] = timer[q]
<1>1. /\ active' = active \ {t} /\ timer' = [timer EXCEPT ![t] = "none"]
      /\ socket' = [socket EXCEPT ![t] = None]
      /\ authed' = authed \ {t} /\ pending' = pending \ {t}
  BY DEF Halt
<1>2. /\ calls' = [others EXCEPT ![t] = {[c EXCEPT !.stale = TRUE] : c \in others[t]}]
      /\ {[c EXCEPT !.stale = TRUE] : c \in others[t]} \subseteq Calls
      /\ \A d \in {[c EXCEPT !.stale = TRUE] : c \in others[t]} : d.stale = TRUE
  BY MadeStale DEF Halt
<1>3. /\ calls' \in [Tabs -> SUBSET Calls] /\ \A d \in calls'[t] : d.stale = TRUE
      /\ \A q \in Tabs \ {t} : calls'[q] = calls[q]
  BY <1>2
<1>4. TabTypes'
  BY <1>1, <1>3 DEF TabTypes, Timers
<1>5. Attempt(t)'
  <2>1. LiveCalls(t)' = {}
    BY <1>3 DEF LiveCalls
  <2> QED
    BY <1>1, <2>1 DEF Attempt, TabTypes
<1> QED
  BY <1>1, <1>3, <1>4, <1>5 DEF TabTypes

\* A tab whose manager did nothing.
LEMMA OtherAttempt ==
  ASSUME NEW q \in Tabs, Attempt(q), (q \in active') <=> (q \in active),
         calls'[q] = calls[q], socket'[q] = socket[q], timer'[q] = timer[q]
  PROVE  Attempt(q)'
  BY DEF Attempt, LiveCalls

\* Of the other tabs' managers nothing changes.
OthersAlone(t) ==
    \A q \in Tabs \ {t} :
        /\ (q \in active') <=> (q \in active)
        /\ calls'[q] = calls[q] /\ socket'[q] = socket[q] /\ timer'[q] = timer[q]

\* start and the reconnect timer call connect.
LEMMA ConnectKeeps ==
  ASSUME TabTypes, Attempting, NEW t \in Tabs, Start(t) \/ Reconnect(t)
  PROVE  TabTypes' /\ Attempt(t)' /\ OthersAlone(t)
<1>1. Attempt(t) /\ None \notin Sockets
  BY ConnectionAssumption DEF Attempting
<1>2. CASE Start(t)
  <2>1. /\ active' = active \cup {t} /\ Connect(t, FALSE)
        /\ UNCHANGED <<timer, socket, authed, pending>> /\ t \notin active
    BY <1>2 DEF Start
  <2>2. TabTypes' /\ OthersAlone(t)
    BY <2>1, ConnectFacts DEF TabTypes, OthersAlone
  <2>3. \E c \in Calls : LiveCalls(t)' = {c}
    BY <2>1, ConnectFacts DEF LiveCalls
  <2>4. socket[t] = None /\ timer[t] = "none"
    BY <1>1, <2>1 DEF Attempt
  <2> QED
    BY <2>1, <2>2, <2>3, <2>4 DEF Attempt
<1>3. CASE Reconnect(t)
  <2>1. /\ timer' = [timer EXCEPT ![t] = "none"] /\ Connect(t, timer[t] = "refresh")
        /\ UNCHANGED <<active, socket, authed, pending>> /\ t \in active /\ timer[t] # "none"
        /\ (timer[t] = "refresh") \in BOOLEAN
    BY <1>3 DEF Reconnect
  <2>2. TabTypes' /\ OthersAlone(t) /\ timer'[t] = "none"
    BY <2>1, ConnectFacts DEF TabTypes, OthersAlone, Timers
  <2>3. \E c \in Calls : LiveCalls(t)' = {c}
    BY <2>1, ConnectFacts DEF LiveCalls
  <2>4. socket[t] = None
    BY <1>1, <2>1 DEF Attempt
  <2> QED
    BY <2>1, <2>2, <2>3, <2>4 DEF Attempt
<1> QED
  BY <1>2, <1>3

\* stop, and a refused token.
LEMMA HaltKeeps ==
  ASSUME TabTypes, NEW t \in Tabs, Stop(t) \/ TokenRefused(t)
  PROVE  TabTypes' /\ Attempt(t)' /\ OthersAlone(t)
<1>1. CASE Stop(t)
  <2>1. Halt(t, calls) /\ calls \in [Tabs -> SUBSET Calls]
    BY <1>1 DEF Stop, TabTypes
  <2> QED
    BY <2>1, HaltFacts DEF OthersAlone
<1>2. CASE TokenRefused(t)
  <2>1. PICK c \in calls[t] : Halt(t, CallsWithout(t, c))
    BY <1>2 DEF TokenRefused
  <2>2. PICK others : others = CallsWithout(t, c)
    OBVIOUS
  <2>3. /\ others \in [Tabs -> SUBSET Calls] /\ \A q \in Tabs \ {t} : others[q] = calls[q]
    BY <2>2, WithoutFacts
  <2> QED
    BY <2>1, <2>2, <2>3, HaltFacts DEF OthersAlone
<1> QED
  BY <1>1, <1>2

\* A live call of a manager is all it has under way.
LEMMA OnlyCall ==
  ASSUME TabTypes, NEW t \in Tabs, Attempt(t), NEW c \in calls[t], ~c.stale
  PROVE  t \in active /\ LiveCalls(t) = {c} /\ socket[t] = None /\ timer[t] = "none"
<1>1. c \in LiveCalls(t)
  BY DEF LiveCalls
<1> QED
  BY <1>1 DEF Attempt

\* connect returns: superseded, with a socket, or to try again.
LEMMA CallReturns ==
  ASSUME TabTypes, Attempting, NEW t \in Tabs, StaleCall(t) \/ OpenSocket(t) \/ TokenFails(t)
  PROVE  TabTypes' /\ Attempt(t)' /\ OthersAlone(t)
<1>0. Attempt(t) /\ None \notin Sockets
  BY ConnectionAssumption DEF Attempting
<1>1. CASE StaleCall(t)
  <2>1. PICK c \in calls[t] : c.stale /\ calls' = CallsWithout(t, c)
    BY <1>1 DEF StaleCall
  <2>2. UNCHANGED <<active, timer, socket, authed, pending>>
    BY <1>1 DEF StaleCall
  <2>3. TabTypes' /\ OthersAlone(t) /\ calls'[t] = calls[t] \ {c}
    BY <2>1, <2>2, WithoutFacts DEF TabTypes, OthersAlone
  <2>4. LiveCalls(t)' = LiveCalls(t)
    BY <2>1, <2>3 DEF LiveCalls
  <2> QED
    BY <1>0, <2>2, <2>3, <2>4 DEF Attempt
<1>2. CASE OpenSocket(t)
  <2>1. PICK c \in calls[t], s \in Sockets :
            /\ ~c.stale /\ calls' = CallsWithout(t, c) /\ socket' = [socket EXCEPT ![t] = s]
    BY <1>2 DEF OpenSocket
  <2>2. UNCHANGED <<active, timer, authed, pending>>
    BY <1>2 DEF OpenSocket
  <2>3. /\ TabTypes' /\ OthersAlone(t) /\ calls'[t] = calls[t] \ {c} /\ socket'[t] = s
    BY <2>1, <2>2, WithoutFacts DEF TabTypes, OthersAlone
  <2>4. LiveCalls(t)' = LiveCalls(t) \ {c}
    BY <2>3 DEF LiveCalls
  <2>5. t \in active /\ LiveCalls(t) = {c} /\ timer[t] = "none"
    BY <1>0, <2>1, OnlyCall
  <2> QED
    BY <1>0, <2>2, <2>3, <2>4, <2>5 DEF Attempt
<1>3. CASE TokenFails(t)
  <2>1. PICK c \in calls[t] :
            /\ ~c.stale /\ calls' = CallsWithout(t, c)
            /\ timer' = [timer EXCEPT ![t] = IF c.refresh THEN "refresh" ELSE "plain"]
    BY <1>3 DEF TokenFails
  <2>2. UNCHANGED <<active, socket, authed, pending>>
    BY <1>3 DEF TokenFails
  <2>3. /\ TabTypes' /\ OthersAlone(t) /\ calls'[t] = calls[t] \ {c} /\ timer'[t] # "none"
    BY <2>1, <2>2, WithoutFacts DEF TabTypes, OthersAlone, Timers
  <2>4. LiveCalls(t)' = LiveCalls(t) \ {c}
    BY <2>3 DEF LiveCalls
  <2>5. t \in active /\ LiveCalls(t) = {c} /\ socket[t] = None
    BY <1>0, <2>1, OnlyCall
  <2> QED
    BY <2>2, <2>3, <2>4, <2>5 DEF Attempt
<1> QED
  BY <1>1, <1>2, <1>3

\* onclose: only the current socket's counts.
LEMMA OnCloseAttempt ==
  ASSUME TabTypes, Attempting, NEW t \in Tabs, OnClose(t)
  PROVE  TabTypes' /\ Attempt(t)' /\ OthersAlone(t)
<1>0. Attempt(t) /\ None \notin Sockets
  BY ConnectionAssumption DEF Attempting
<1>1. PICK s \in Sockets :
        \/ UNCHANGED tab
        \/ Halt(t, calls)
        \/ /\ Current(t, s)
           /\ socket' = [socket EXCEPT ![t] = None]
           /\ authed' = authed \ {t}
           /\ pending' = pending \ {t}
           /\ timer' = [timer EXCEPT ![t] =
                            IF s \notin gone /\ code[s] = "4401" THEN "refresh" ELSE "plain"]
           /\ UNCHANGED <<active, calls>>
  BY DEF OnClose
<1>2. CASE UNCHANGED tab
  BY <1>0, <1>2, OtherAttempt DEF tab, TabTypes, OthersAlone
<1>3. CASE Halt(t, calls)
  BY <1>3, HaltFacts DEF OthersAlone, TabTypes
<1>4. CASE /\ Current(t, s)
           /\ socket' = [socket EXCEPT ![t] = None]
           /\ authed' = authed \ {t}
           /\ pending' = pending \ {t}
           /\ timer' = [timer EXCEPT ![t] =
                            IF s \notin gone /\ code[s] = "4401" THEN "refresh" ELSE "plain"]
           /\ UNCHANGED <<active, calls>>
  <2>1. t \in active /\ socket[t] # None /\ LiveCalls(t) = {}
    BY <1>0, <1>4 DEF Current, Attempt
  <2>2. TabTypes' /\ OthersAlone(t) /\ timer'[t] # "none" /\ socket'[t] = None
    BY <1>4 DEF TabTypes, OthersAlone, Timers
  <2> QED
    BY <1>4, <2>1, <2>2 DEF Attempt, LiveCalls
<1> QED
  BY <1>1, <1>2, <1>3, <1>4

\* Frames and commands change neither calls, sockets nor timers.
LEMMA TrafficAttempt ==
  ASSUME TabTypes, Attempting, NEW t \in Tabs,
         OnMessage(t) \/ Request(t) \/ RequestTimeout(t)
  PROVE  TabTypes' /\ Attempt(t)' /\ OthersAlone(t)
<1>1. /\ UNCHANGED <<active, calls, timer, socket>>
      /\ authed' \subseteq authed \cup {t} /\ pending' \subseteq pending \cup {t}
  BY DEF OnMessage, Request, RequestTimeout
<1>2. TabTypes' /\ OthersAlone(t)
  BY <1>1 DEF TabTypes, OthersAlone
<1> QED
  BY <1>1, <1>2, OtherAttempt DEF Attempting

\* The managers keep to one attempt, since nobody else changes them.
LEMMA AttemptKeeps ==
  ASSUME TabTypes, Attempting, [Next]_vars
  PROVE  TabTypes' /\ Attempting'
<1>1. ASSUME NEW t \in Tabs, TabStep(t) PROVE TabTypes' /\ Attempting'
  <2>1. TabTypes' /\ Attempt(t)' /\ OthersAlone(t)
    BY <1>1, ConnectKeeps, HaltKeeps, CallReturns, OnCloseAttempt, TrafficAttempt DEF TabStep
  <2>2. \A q \in Tabs \ {t} : Attempt(q)'
    BY <2>1, OtherAttempt DEF OthersAlone, Attempting
  <2> QED
    BY <2>1, <2>2 DEF Attempting
<1>2. CASE UNCHANGED tab
  <2>1. TabTypes'
    BY <1>2 DEF tab, TabTypes
  <2>2. \A q \in Tabs : Attempt(q)'
    BY <1>2, OtherAttempt DEF tab, Attempting
  <2> QED
    BY <2>1, <2>2 DEF Attempting
<1> QED
  BY <1>1, <1>2, Steps, ManagersAlone

----------------------------------------------------------------------------
(* The sockets and the server *)

\* The rest of the invariant.
Rest == WireTypes /\ EndpointTypes /\ ServerTypes /\ DownTypes /\ Registered /\ Stamped

\* The frames of a socket whose client is gone are dropped.
LEMMA DropFrames ==
  ASSUME DownTypes, NEW D \in SUBSET Sockets,
         down' = [s \in Sockets |-> IF s \in D THEN <<>> ELSE down[s]]
  PROVE  DownTypes'
<1>1. <<>> \in Seq(Sent) /\ Len(<<>>) <= MaxFrames
  BY ConnectionAssumption
<1> QED
  BY <1>1 DEF DownTypes

\* A step of a manager leaves the endpoints and the server alone.
LEMMA ClientSide ==
  ASSUME Rest, WireTypes', DownTypes', UNCHANGED <<up, endpoint, server>>
  PROVE  Rest'
<1>1. UNCHANGED <<ep, prior, cmd, registry, ousted, revoked, bus, deliveries, up>>
  BY DEF endpoint, server
<1>2. EndpointTypes' /\ ServerTypes'
  BY <1>1 DEF Rest, EndpointTypes, ServerTypes
<1>3. Registered' /\ Stamped'
  BY <1>1 DEF Rest, Registered, Stamped
<1> QED
  BY <1>2, <1>3 DEF Rest

\* stop closes the current socket.
LEMMA HaltWire ==
  ASSUME TabTypes, WireTypes, DownTypes, NEW t \in Tabs, NEW others, Halt(t, others)
  PROVE  gone' \subseteq Sockets /\ DownTypes'
<1>1. gone' \subseteq Sockets
  BY DEF Halt, TabTypes, WireTypes
<1>2. down' = [s \in Sockets |-> IF s \in {socket[t]} \cap Sockets THEN <<>> ELSE down[s]]
  BY DEF Halt
<1>3. DownTypes'
  BY <1>2, DropFrames
<1> QED
  BY <1>1, <1>3

\* Calls, timers and stop do nothing to the server.
LEMMA ManagerRest ==
  ASSUME TabTypes, Rest, NEW t \in Tabs,
         \/ Start(t) \/ Stop(t) \/ StaleCall(t) \/ TokenRefused(t)
         \/ TokenFails(t) \/ Reconnect(t) \/ RequestTimeout(t)
  PROVE  Rest'
<1>1. CASE UNCHANGED <<wire, endpoint, server>>
  <2>1. WireTypes' /\ DownTypes' /\ UNCHANGED up
    BY <1>1 DEF wire, Rest, WireTypes, DownTypes
  <2> QED
    BY <1>1, <2>1, ClientSide
<1>2. CASE \E others : Halt(t, others) /\ UNCHANGED <<owner, code, up, expired, endpoint, server>>
  <2>1. gone' \subseteq Sockets /\ DownTypes'
    BY <1>2, HaltWire DEF Rest
  <2>2. WireTypes'
    BY <1>2, <2>1 DEF Rest, WireTypes
  <2> QED
    BY <1>2, <2>1, <2>2, ClientSide
<1> QED
  BY <1>1, <1>2 DEF Start, Stop, StaleCall, TokenRefused, TokenFails, Reconnect, RequestTimeout

\* The close callback does nothing to the server.
LEMMA OnCloseRest ==
  ASSUME TabTypes, Rest, NEW t \in Tabs, OnClose(t)
  PROVE  Rest'
<1>1. PICK s \in Sockets :
        /\ owner' = [owner EXCEPT ![s] = None]
        /\ UNCHANGED <<code, up, expired, endpoint, server>>
        /\ \/ gone' = gone \cup {s} /\ UNCHANGED down
           \/ Halt(t, calls)
  BY DEF OnClose
<1>2. gone' \subseteq Sockets /\ DownTypes'
  <2>1. CASE gone' = gone \cup {s} /\ UNCHANGED down
    BY <2>1 DEF Rest, WireTypes, DownTypes
  <2>2. CASE Halt(t, calls)
    BY <2>2, HaltWire DEF Rest
  <2> QED
    BY <1>1, <2>1, <2>2
<1>3. WireTypes'
  BY <1>1, <1>2 DEF Rest, WireTypes
<1> QED
  BY <1>1, <1>2, <1>3, ClientSide

\* A frame that is received makes room, and does nothing to the server.
LEMMA OnMessageRest ==
  ASSUME TabTypes, Rest, NEW t \in Tabs, OnMessage(t)
  PROVE  Rest'
<1>1. PICK s \in Sockets : down[s] # <<>> /\ down' = [down EXCEPT ![s] = Tail(@)]
  BY DEF OnMessage
<1>2. UNCHANGED <<owner, gone, code, up, expired, endpoint, server>>
  BY DEF OnMessage
<1>3. Tail(down[s]) \in Seq(Sent) /\ Len(Tail(down[s])) <= MaxFrames
  <2>1. down[s] \in Seq(Sent) /\ Len(down[s]) <= MaxFrames /\ MaxFrames \in Nat
    BY ConnectionAssumption DEF Rest, DownTypes
  <2> QED
    BY <1>1, <2>1
<1>4. DownTypes'
  BY <1>1, <1>3 DEF Rest, DownTypes
<1>5. WireTypes'
  BY <1>2 DEF Rest, WireTypes
<1> QED
  BY <1>2, <1>4, <1>5, ClientSide

\* A broken connection or an expired token is not noticed by the server yet.
LEMMA BreakRest ==
  ASSUME Rest, NEW s \in Sockets, Break(s) \/ Expire(s)
  PROVE  Rest'
<1>1. CASE Break(s)
  <2>1. /\ down' = [x \in Sockets |-> IF x \in {s} THEN <<>> ELSE down[x]]
        /\ gone' = gone \cup {s} /\ UNCHANGED <<owner, code, up, expired, endpoint, server>>
    BY <1>1 DEF Break, Rest, DownTypes
  <2>2. DownTypes'
    BY <2>1, DropFrames DEF Rest
  <2>3. WireTypes'
    BY <2>1 DEF Rest, WireTypes
  <2> QED
    BY <2>1, <2>2, <2>3, ClientSide
<1>2. CASE Expire(s)
  <2>1. /\ expired' = expired \cup {s} /\ UNCHANGED <<owner, gone, code, up, down, endpoint, server>>
    BY <1>2 DEF Expire
  <2>2. DownTypes' /\ WireTypes'
    BY <2>1 DEF Rest, WireTypes, DownTypes
  <2> QED
    BY <2>1, <2>2, ClientSide
<1> QED
  BY <1>1, <1>2

\* A command is stamped with the time it is sent.
LEMMA RequestRest ==
  ASSUME TabTypes, Rest, NEW t \in Tabs, Request(t)
  PROVE  Rest'
<1>1. PICK s \in Sockets : up' = [up EXCEPT ![s] = @ \cup {Now}]
  BY DEF Request, Ready, TabTypes
<1>2. UNCHANGED <<owner, gone, code, down, expired, ep, prior, cmd, registry, ousted, revoked,
                  bus, deliveries>>
  BY DEF Request, endpoint, server
<1>3. Now \in Stamps /\ (~revoked => Now = "before")
  BY DEF Now, Stamps
<1>4. /\ up' \in [Sockets -> SUBSET Stamps]
      /\ ~revoked => \A x \in Sockets : "after" \notin up'[x]
  BY <1>1, <1>3 DEF Rest, WireTypes, Stamped
<1>5. WireTypes' /\ DownTypes' /\ EndpointTypes'
  BY <1>2, <1>4 DEF Rest, WireTypes, DownTypes, EndpointTypes
<1>6. ServerTypes' /\ Registered'
  BY <1>2 DEF Rest, ServerTypes, Registered
<1>7. Stamped'
  BY <1>2, <1>4 DEF Rest, Stamped
<1> QED
  BY <1>5, <1>6, <1>7 DEF Rest

\* A socket that nothing refers to any more begins again.
LEMMA OpenSocketRest ==
  ASSUME TabTypes, Rest, NEW t \in Tabs, OpenSocket(t)
  PROVE  Rest'
<1>1. PICK s \in Sockets :
        /\ owner' = [owner EXCEPT ![s] = t] /\ gone' = gone \ {s}
        /\ code' = [code EXCEPT ![s] = "open"]
        /\ expired' \subseteq expired \cup {s}
        /\ ep' = [ep EXCEPT ![s] = "accepted"]
        /\ ousted' = ousted \ {s}
  BY DEF OpenSocket
<1>2. UNCHANGED <<up, down, prior, cmd, registry, revoked, bus, deliveries>>
  BY DEF OpenSocket
<1>3. WireTypes' /\ DownTypes'
  BY <1>1, <1>2 DEF Rest, WireTypes, DownTypes, Codes
<1>4. EndpointTypes' /\ ServerTypes'
  BY <1>1, <1>2 DEF Rest, EndpointTypes, ServerTypes, Stages
<1>5. ep'[s] = "accepted" /\ \A x \in Sockets \ {s} : ep'[x] = ep[x]
  BY <1>1 DEF Rest, EndpointTypes
<1>6. Registered'
  BY <1>1, <1>2, <1>5 DEF Rest, Registered
<1>7. Stamped'
  BY <1>2, <1>5 DEF Rest, Stamped
<1> QED
  BY <1>3, <1>4, <1>6, <1>7 DEF Rest

----------------------------------------------------------------------------
(* The endpoints *)

\* Connection.close changes a close code, or nothing.
LEMMA ClosedTypes ==
  ASSUME WireTypes, NEW s, NEW k \in Codes
  PROVE  Closed(s, k) \in [Sockets -> Codes] /\ ClosedBy(s, k) \subseteq [Sockets -> Codes]
<1>1. Closed(s, k) \in [Sockets -> Codes]
  BY DEF Closed, WireTypes
<1> QED
  BY <1>1 DEF ClosedBy, WireTypes

\* The end of an endpoint keeps everything.
LEMMA FinishRest ==
  ASSUME Rest, NEW s \in Sockets, NEW codes \in SUBSET [Sockets -> Codes], Finish(s, codes)
  PROVE  Rest'
<1>1. /\ ep' = [ep EXCEPT ![s] = "over"] /\ registry' = Unregistered(s)
      /\ up' = [up EXCEPT ![s] = {}] /\ expired' = expired \ {s}
      /\ cmd' = [cmd EXCEPT ![s] = "before"]
      /\ UNCHANGED <<owner, gone, down, prior, ousted, revoked, bus, deliveries>>
  BY DEF Finish, Goto
<1>2. code' \in [Sockets -> Codes]
  <2>1. PICK k \in codes : code' = [k EXCEPT ![s] = IF @ = "open" THEN "1000" ELSE @]
    BY DEF Finish
  <2> QED
    BY <2>1 DEF Codes
<1>3. WireTypes' /\ DownTypes'
  BY <1>1, <1>2 DEF Rest, WireTypes, DownTypes
<1>4. EndpointTypes'
  BY <1>1 DEF Rest, EndpointTypes, Stages, Stamps
<1>5. ServerTypes'
  BY <1>1 DEF Rest, ServerTypes, Unregistered
<1>6. /\ ep'[s] = "over" /\ cmd'[s] = "before" /\ up'[s] = {}
      /\ \A x \in Sockets \ {s} : ep'[x] = ep[x] /\ cmd'[x] = cmd[x] /\ up'[x] = up[x]
  BY <1>1 DEF Rest, EndpointTypes, WireTypes
<1>7. Registered'
  BY <1>1, <1>6 DEF Rest, Registered, Unregistered
<1>8. Stamped'
  BY <1>1, <1>6 DEF Rest, Stamped
<1> QED
  BY <1>3, <1>4, <1>5, <1>7, <1>8 DEF Rest

\* An endpoint goes on to stage, with its connection registered from "replacing" on, and
\* with a command from before the revocation when it handles one.
LEMMA EndpointRest ==
  ASSUME Rest, NEW s \in Sockets, NEW stage \in Stages, Goto(s, stage),
         stage \in {"accepted", "authenticated", "over"}
            \/ ep[s] \in {"replacing", "hello", "loop", "command", "handling"},
         stage = "handling" => cmd[s] = "before",
         UNCHANGED <<owner, gone, expired, up, cmd, server>>,
         code' \in [Sockets -> Codes], DownTypes', prior' \in [Sockets -> Sockets \cup {None}]
  PROVE  Rest'
<1>1. UNCHANGED <<registry, ousted, revoked, bus, deliveries>>
  BY DEF server
<1>2. WireTypes' /\ EndpointTypes' /\ ServerTypes'
  BY <1>1 DEF Rest, WireTypes, EndpointTypes, ServerTypes, Goto
<1>3. ep'[s] = stage /\ \A x \in Sockets \ {s} : ep'[x] = ep[x]
  BY DEF Rest, EndpointTypes, Goto
<1>4. Registered'
  BY <1>1, <1>3 DEF Rest, Registered
<1>5. Stamped'
  BY <1>1, <1>3 DEF Rest, Stamped
<1> QED
  BY <1>2, <1>4, <1>5 DEF Rest

\* A session that is not revoked has no command from after its revocation.
LEMMA AuthorizedBefore ==
  ASSUME Rest, NEW s \in Sockets, Authorized(s)
  PROVE  cmd[s] = "before"
  BY DEF Rest, Stamped, Authorized, EndpointTypes, Stamps

\* The checks of the session.
LEMMA AuthorizeRest ==
  ASSUME Rest, NEW s \in Sockets, Authenticate(s) \/ AuthorizeCommand(s)
  PROVE  Rest'
<1>1. CASE Finish(s, ClosedBy(s, "4401"))
  <2>1. ClosedBy(s, "4401") \in SUBSET [Sockets -> Codes]
    BY ClosedTypes DEF Rest, Codes
  <2> QED
    BY <1>1, <2>1, FinishRest
<1>2. ASSUME NEW stage \in Stages, Goto(s, stage), UNCHANGED <<tab, wire, prior, cmd, server>>,
             \/ stage = "authenticated"
             \/ stage = "handling" /\ ep[s] = "command" /\ Authorized(s)
      PROVE  Rest'
  <2>1. UNCHANGED <<owner, gone, expired, up, down, code>>
    BY <1>2 DEF wire
  <2>2. DownTypes' /\ code' \in [Sockets -> Codes] /\ prior' \in [Sockets -> Sockets \cup {None}]
    BY <1>2, <2>1 DEF Rest, DownTypes, WireTypes, EndpointTypes
  <2>3. stage = "handling" => cmd[s] = "before"
    BY <1>2, AuthorizedBefore
  <2> QED
    BY <1>2, <2>1, <2>2, <2>3, EndpointRest
<1> QED
  BY <1>1, <1>2 DEF Authenticate, AuthorizeCommand, Stages

\* register: the connection that was there before is from now on an ousted one.
LEMMA RegisterRest ==
  ASSUME Rest, NEW s \in Sockets, Register(s)
  PROVE  Rest'
<1>1. /\ registry' = s /\ ousted' = ousted \cup ({registry} \ {None})
      /\ UNCHANGED <<owner, gone, up, down, expired, cmd, revoked, bus, deliveries>>
  BY DEF Register
<1>2. PICK stage \in {"replacing", "hello"} : ep' = [ep EXCEPT ![s] = stage]
  BY DEF Register, Goto
<1>3. code' \in [Sockets -> Codes] /\ prior' \in [Sockets -> Sockets \cup {None}]
  <2>1. Closed(registry, "4001") \in [Sockets -> Codes]
    BY ClosedTypes DEF Rest, Codes
  <2>2. CASE registry # None /\ Stalled(registry)
    BY <2>2 DEF Register, Rest, WireTypes, EndpointTypes, ServerTypes
  <2>3. CASE ~(registry # None /\ Stalled(registry))
    BY <2>1, <2>3 DEF Register, Rest, EndpointTypes
  <2> QED
    BY <2>2, <2>3
<1>4. WireTypes' /\ DownTypes'
  BY <1>1, <1>3 DEF Rest, WireTypes, DownTypes
<1>5. EndpointTypes' /\ ServerTypes'
  BY <1>1, <1>2, <1>3 DEF Rest, EndpointTypes, ServerTypes, Stages
<1>6. ep'[s] = stage /\ \A x \in Sockets \ {s} : ep'[x] = ep[x]
  BY <1>2 DEF Rest, EndpointTypes
<1>7. Registered'
  BY <1>1, <1>6, ConnectionAssumption DEF Rest, Registered
<1>8. Stamped'
  BY <1>1, <1>6 DEF Rest, Stamped
<1> QED
  BY <1>4, <1>5, <1>7, <1>8 DEF Rest

\* A frame that may be sent.
LEMMA SendDown ==
  ASSUME DownTypes, NEW s \in Sockets, NEW frame \in Sent, Send(s, frame)
  PROVE  DownTypes'
<1>1. down[s] \in Seq(Sent) /\ Len(down[s]) < MaxFrames /\ MaxFrames \in Nat
  BY ConnectionAssumption DEF DownTypes, Send, CanSend
<1>2. Append(down[s], frame) \in Seq(Sent) /\ Len(Append(down[s], frame)) <= MaxFrames
  BY <1>1
<1> QED
  BY <1>2 DEF Send, DownTypes

\* close_previous, auth.ok, and the answer to a command.
LEMMA ServeRest ==
  ASSUME Rest, NEW s \in Sockets, ClosePrevious(s) \/ Hello(s)
  PROVE  Rest'
<1>1. CASE ClosePrevious(s)
  <2>1. /\ UNCHANGED <<owner, gone, expired, up, cmd, down, server>> /\ Goto(s, "hello")
        /\ ep[s] = "replacing" /\ prior' = [prior EXCEPT ![s] = None]
        /\ code' \in ClosedBy(prior[s], "4001")
    BY <1>1 DEF ClosePrevious
  <2>2. /\ code' \in [Sockets -> Codes] /\ prior' \in [Sockets -> Sockets \cup {None}]
        /\ DownTypes'
    BY <2>1, ClosedTypes DEF Rest, Codes, DownTypes, EndpointTypes
  <2> QED
    BY <2>1, <2>2, EndpointRest DEF Stages
<1>2. CASE Hello(s)
  <2>1. /\ UNCHANGED <<owner, gone, expired, up, code, prior, cmd, server>> /\ Goto(s, "loop")
        /\ ep[s] = "hello" /\ Send(s, "auth.ok")
    BY <1>2 DEF Hello
  <2>2. /\ code' \in [Sockets -> Codes] /\ prior' \in [Sockets -> Sockets \cup {None}]
        /\ DownTypes'
    BY <2>1, SendDown DEF Rest, Sent, WireTypes, EndpointTypes
  <2> QED
    BY <2>1, <2>2, EndpointRest DEF Stages
<1> QED
  BY <1>1, <1>2

\* A command is received, and answered.
LEMMA CommandRest ==
  ASSUME Rest, NEW s \in Sockets, ReceiveCommand(s) \/ Handle(s)
  PROVE  Rest'
<1>1. /\ UNCHANGED <<owner, gone, expired, code, prior, registry, ousted, revoked, bus, deliveries>>
      /\ ep[s] \in {"loop", "handling"}
  BY DEF ReceiveCommand, Handle, server
<1>2. PICK k \in Stamps, U \in SUBSET up[s], stage \in {"command", "loop"} :
        /\ cmd' = [cmd EXCEPT ![s] = k] /\ up' = [up EXCEPT ![s] = U] /\ ep' = [ep EXCEPT ![s] = stage]
        /\ k \in up[s] \/ k = "before"
  <2>1. CASE ReceiveCommand(s)
    <3>1. PICK k \in up[s] : /\ cmd' = [cmd EXCEPT ![s] = k] /\ up' = [up EXCEPT ![s] = @ \ {k}]
                             /\ ep' = [ep EXCEPT ![s] = "command"]
      BY <2>1 DEF ReceiveCommand, Goto
    <3>2. k \in Stamps /\ up[s] \ {k} \in SUBSET up[s] /\ up' = [up EXCEPT ![s] = up[s] \ {k}]
      BY <3>1 DEF Rest, WireTypes
    <3> QED
      BY <3>1, <3>2
  <2>2. CASE Handle(s)
    <3>1. /\ cmd' = [cmd EXCEPT ![s] = "before"] /\ up' = [up EXCEPT ![s] = up[s]]
          /\ ep' = [ep EXCEPT ![s] = "loop"]
      BY <2>2 DEF Handle, Goto, Rest, WireTypes
    <3> QED
      BY <3>1 DEF Stamps
  <2> QED
    BY <2>1, <2>2
<1>3. DownTypes'
  BY SendDown DEF ReceiveCommand, Handle, Rest, Sent, DownTypes
<1>4. WireTypes'
  BY <1>1, <1>2 DEF Rest, WireTypes
<1>5. EndpointTypes' /\ ServerTypes'
  BY <1>1, <1>2 DEF Rest, EndpointTypes, ServerTypes, Stages
<1>6. /\ ep'[s] = stage /\ cmd'[s] = k /\ up'[s] = U
      /\ \A x \in Sockets \ {s} : ep'[x] = ep[x] /\ cmd'[x] = cmd[x] /\ up'[x] = up[x]
  BY <1>2 DEF Rest, EndpointTypes, WireTypes
<1>7. Registered'
  BY <1>1, <1>6 DEF Rest, Registered
<1>8. Stamped'
  BY <1>1, <1>2, <1>6 DEF Rest, Stamped
<1> QED
  BY <1>3, <1>4, <1>5, <1>7, <1>8 DEF Rest

\* The endpoint ends.
LEMMA EndRest ==
  ASSUME Rest, NEW s \in Sockets,
         IdleCheck(s) \/ ReplacedCommand(s) \/ Disconnected(s) \/ EndpointFails(s)
  PROVE  Rest'
<1>1. ClosedBy(s, "4401") \in SUBSET [Sockets -> Codes] /\ {code} \in SUBSET [Sockets -> Codes]
  BY ClosedTypes DEF Rest, Codes, WireTypes
<1>2. Finish(s, ClosedBy(s, "4401")) \/ Finish(s, {code})
  BY DEF IdleCheck, ReplacedCommand, Disconnected, EndpointFails
<1> QED
  BY <1>1, <1>2, FinishRest

----------------------------------------------------------------------------
(* The event bus and the session *)

\* deliver's tasks never number more than MaxDeliveries.
LEMMA Fewer ==
  ASSUME ServerTypes, NEW d \in deliveries
  PROVE  /\ IsFiniteSet(deliveries \ {d})
         /\ Cardinality(deliveries \ {d}) + 1 <= MaxDeliveries
         /\ Cardinality(deliveries \ {d}) \in Nat
<1>1. /\ IsFiniteSet(deliveries) /\ Cardinality(deliveries) <= MaxDeliveries
      /\ Cardinality(deliveries) \in Nat
  BY FS_CardinalityType DEF ServerTypes
<1>2. /\ IsFiniteSet(deliveries \ {d})
      /\ Cardinality(deliveries \ {d}) = Cardinality(deliveries) - 1
  BY <1>1, FS_RemoveElement
<1>3. Cardinality(deliveries \ {d}) \in Nat
  BY <1>2, FS_CardinalityType
<1> QED
  BY <1>1, <1>2, <1>3, ConnectionAssumption

\* A new task fits when one less than the bound are there.
LEMMA OneMore ==
  ASSUME NEW S, IsFiniteSet(S), NEW x, Cardinality(S) + 1 <= MaxDeliveries
  PROVE  IsFiniteSet(S \cup {x}) /\ Cardinality(S \cup {x}) <= MaxDeliveries
<1>1. Cardinality(S) \in Nat /\ IsFiniteSet(S \cup {x})
  BY FS_CardinalityType, FS_AddElement
<1>2. Cardinality(S \cup {x}) = Cardinality(S) \/ Cardinality(S \cup {x}) = Cardinality(S) + 1
  BY FS_AddElement
<1> QED
  BY <1>1, <1>2, ConnectionAssumption

\* What a step of the bus may do to the deliveries: they are as before, or new and from
\* before the revocation, or not authorized yet.
Delivers(S) ==
    /\ S \subseteq Delivery /\ IsFiniteSet(S) /\ Cardinality(S) <= MaxDeliveries
    /\ \A d \in S : /\ d.stage = "send" => d.event = "before"
                    /\ ~revoked => d.event # "after"

\* Tasks that were there before.
LEMMA DeliversLess ==
  ASSUME Rest, NEW d \in deliveries
  PROVE  Delivers(deliveries \ {d}) /\ Cardinality(deliveries \ {d}) + 1 <= MaxDeliveries
<1>1. /\ IsFiniteSet(deliveries \ {d}) /\ Cardinality(deliveries \ {d}) \in Nat
      /\ Cardinality(deliveries \ {d}) + 1 <= MaxDeliveries
  BY Fewer DEF Rest
<1>2. /\ deliveries \ {d} \subseteq Delivery
      /\ \A e \in deliveries \ {d} : /\ e.stage = "send" => e.event = "before"
                                     /\ ~revoked => e.event # "after"
  BY DEF Rest, ServerTypes, Stamped
<1> QED
  BY <1>1, <1>2, ConnectionAssumption DEF Delivers

\* A delivery ends or goes on; its connection may be given up.
LEMMA DeliveryRest ==
  ASSUME Rest, Delivers(deliveries'), UNCHANGED <<owner, gone, up, expired, endpoint, revoked>>,
         bus' \subseteq bus, DownTypes', code' \in [Sockets -> Codes],
         \/ UNCHANGED <<registry, ousted>>
         \/ \E s \in Sockets : registry' = Unregistered(s) /\ ousted' = ousted \cup {s}
  PROVE  Rest'
<1>1. UNCHANGED <<ep, prior, cmd>>
  BY DEF endpoint
<1>2. WireTypes' /\ EndpointTypes'
  BY <1>1 DEF Rest, WireTypes, EndpointTypes
<1>3. registry' \in Sockets \cup {None} /\ ousted' \subseteq Sockets
  BY DEF Rest, ServerTypes, Unregistered
<1>4. ServerTypes'
  BY <1>3 DEF Rest, ServerTypes, Delivers
<1>5. Registered'
  BY <1>1 DEF Rest, Registered, Unregistered
<1>6. Stamped'
  BY <1>1 DEF Rest, Stamped, Delivers
<1> QED
  BY <1>2, <1>4, <1>5, <1>6 DEF Rest

\* The database fails, or a delivery is given up.
LEMMA GiveUpRest ==
  ASSUME Rest, DeliverFails \/ DeliverTimeout
  PROVE  Rest'
<1>1. PICK d \in deliveries :
        /\ deliveries' = deliveries \ {d}
        /\ GiveUpConnection(d.to) \/ UNCHANGED <<registry, ousted, code>>
  BY DEF DeliverFails, DeliverTimeout, wire
<1>2. UNCHANGED <<owner, gone, up, down, expired, endpoint, revoked, bus>>
  BY DEF DeliverFails, DeliverTimeout, wire
<1>3. Delivers(deliveries')
  BY <1>1, DeliversLess DEF Delivers
<1>4. d.to \in Sockets /\ DownTypes'
  BY <1>2 DEF Rest, ServerTypes, Delivery, DownTypes
<1>5. code' \in [Sockets -> Codes]
  BY <1>1, ClosedTypes DEF GiveUpConnection, Rest, WireTypes, Codes
<1>6. \/ UNCHANGED <<registry, ousted>>
      \/ \E s \in Sockets : registry' = Unregistered(s) /\ ousted' = ousted \cup {s}
  BY <1>1, <1>4 DEF GiveUpConnection
<1> QED
  BY <1>2, <1>3, <1>4, <1>5, <1>6, DeliveryRest

\* deliver checks the session: what passes is from before the revocation.
LEMMA DeliverAuthorizeRest ==
  ASSUME Rest, DeliverAuthorize
  PROVE  Rest'
<1>1. PICK d \in deliveries :
        /\ d.stage = "authorize"
        /\ \/ /\ Authorized(d.to)
              /\ deliveries' = (deliveries \ {d}) \cup
                     (IF registry = d.to THEN {[d EXCEPT !.stage = "send"]} ELSE {})
              /\ UNCHANGED <<registry, ousted, code>>
           \/ /\ GiveUpConnection(d.to)
              /\ deliveries' = deliveries \ {d}
  BY DEF DeliverAuthorize
<1>2. UNCHANGED <<owner, gone, up, down, expired, endpoint, revoked, bus>>
  BY DEF DeliverAuthorize
<1>3. d \in Delivery /\ d.to \in Sockets /\ DownTypes'
  BY <1>2 DEF Rest, ServerTypes, Delivery, DownTypes
<1>4. CASE deliveries' = deliveries \ {d}
  <2>1. Delivers(deliveries')
    BY <1>4, DeliversLess DEF Delivers
  <2>2. code' \in [Sockets -> Codes]
    BY <1>1, ClosedTypes DEF GiveUpConnection, Rest, WireTypes, Codes
  <2>3. \/ UNCHANGED <<registry, ousted>>
        \/ \E s \in Sockets : registry' = Unregistered(s) /\ ousted' = ousted \cup {s}
    BY <1>1, <1>3 DEF GiveUpConnection
  <2> QED
    BY <1>2, <1>3, <2>1, <2>2, <2>3, DeliveryRest
<1>5. CASE /\ Authorized(d.to)
           /\ deliveries' = (deliveries \ {d}) \cup {[d EXCEPT !.stage = "send"]}
           /\ UNCHANGED <<registry, ousted, code>>
  <2> DEFINE e == [d EXCEPT !.stage = "send"]
  <2>1. d.event = "before"
    BY <1>3, <1>5 DEF Rest, Stamped, Authorized, Delivery, Stamps
  <2>2. e \in Delivery /\ e.event = "before"
    BY <1>3, <2>1 DEF Delivery
  <2> HIDE DEF e
  <2>3. Delivers(deliveries \ {d}) /\ Cardinality(deliveries \ {d}) + 1 <= MaxDeliveries
    BY DeliversLess
  <2>4. /\ IsFiniteSet((deliveries \ {d}) \cup {e})
        /\ Cardinality((deliveries \ {d}) \cup {e}) <= MaxDeliveries
    BY <2>3, OneMore DEF Delivers
  <2>5. Delivers((deliveries \ {d}) \cup {e})
    BY <2>2, <2>3, <2>4 DEF Delivers
  <2>6. Delivers(deliveries')
    BY <1>5, <2>5 DEF e, Delivers
  <2>7. code' \in [Sockets -> Codes]
    BY <1>5 DEF Rest, WireTypes
  <2> QED
    BY <1>2, <1>3, <1>5, <2>6, <2>7, DeliveryRest
<1> QED
  BY <1>1, <1>4, <1>5

\* deliver sends the event, or finds the connection closed.
LEMMA DeliverSendRest ==
  ASSUME Rest, DeliverSend
  PROVE  Rest'
<1>1. PICK d \in deliveries :
        /\ d.stage = "send"
        /\ deliveries' = deliveries \ {d}
        /\ \/ Send(d.to, d.event) /\ UNCHANGED <<registry, ousted, code>>
           \/ GiveUpConnection(d.to) /\ UNCHANGED down
  BY DEF DeliverSend
<1>2. UNCHANGED <<owner, gone, up, expired, endpoint, revoked, bus>>
  BY DEF DeliverSend
<1>3. d.to \in Sockets /\ d.event \in Sent
  BY <1>1 DEF Rest, ServerTypes, Delivery, Stamped, Sent
<1>4. DownTypes'
  <2>1. CASE Send(d.to, d.event)
    BY <1>3, <2>1, SendDown DEF Rest
  <2>2. CASE UNCHANGED down
    BY <2>2 DEF Rest, DownTypes
  <2> QED
    BY <1>1, <2>1, <2>2
<1>5. Delivers(deliveries')
  BY <1>1, DeliversLess DEF Delivers
<1>6. code' \in [Sockets -> Codes]
  BY <1>1, ClosedTypes DEF GiveUpConnection, Rest, WireTypes, Codes
<1>7. \/ UNCHANGED <<registry, ousted>>
      \/ \E s \in Sockets : registry' = Unregistered(s) /\ ousted' = ousted \cup {s}
  BY <1>1, <1>3 DEF GiveUpConnection
<1> QED
  BY <1>2, <1>4, <1>5, <1>6, <1>7, DeliveryRest

\* An event is handed to a task, or dropped.
LEMMA DispatchRest ==
  ASSUME Rest, Dispatch
  PROVE  Rest'
<1>1. PICK k \in bus :
        /\ bus' = bus \ {k}
        /\ deliveries' =
             IF registry = None \/ Cardinality(deliveries) >= MaxDeliveries THEN deliveries
             ELSE deliveries \cup {[event |-> k, to |-> registry, stage |-> "authorize"]}
  BY DEF Dispatch
<1>2. UNCHANGED <<owner, gone, code, up, down, expired, endpoint, revoked, registry, ousted>>
  BY DEF Dispatch, wire
<1>3. Delivers(deliveries)
  BY DEF Rest, ServerTypes, Stamped, Delivers
<1>4. Delivers(deliveries')
  <2>1. CASE deliveries' = deliveries
    BY <1>3, <2>1
  <2>2. CASE /\ registry # None /\ ~(Cardinality(deliveries) >= MaxDeliveries)
             /\ deliveries' = deliveries \cup {[event |-> k, to |-> registry, stage |-> "authorize"]}
    <3> DEFINE e == [event |-> k, to |-> registry, stage |-> "authorize"]
    <3>1. e \in Delivery /\ e.stage = "authorize" /\ (~revoked => e.event # "after")
      BY <2>2 DEF Rest, ServerTypes, Stamped, Delivery
    <3> HIDE DEF e
    <3>2. Cardinality(deliveries) + 1 <= MaxDeliveries /\ IsFiniteSet(deliveries)
      BY <1>3, <2>2, FS_CardinalityType, ConnectionAssumption DEF Delivers
    <3>3. /\ IsFiniteSet(deliveries \cup {e}) /\ Cardinality(deliveries \cup {e}) <= MaxDeliveries
      BY <3>2, OneMore
    <3>4. Delivers(deliveries \cup {e})
      BY <1>3, <3>1, <3>3 DEF Delivers
    <3> QED
      BY <2>2, <3>4 DEF e
  <2> QED
    BY <1>1, <2>1, <2>2
<1>5. DownTypes' /\ code' \in [Sockets -> Codes]
  BY <1>2 DEF Rest, DownTypes, WireTypes
<1> QED
  BY <1>1, <1>2, <1>4, <1>5, DeliveryRest

\* An event is published, or the session revoked.
LEMMA SessionRest ==
  ASSUME Rest, Publish \/ Revoke
  PROVE  Rest'
<1>0. UNCHANGED <<owner, gone, code, up, down, expired, ep, prior, cmd, registry, ousted, deliveries>>
  BY DEF Publish, Revoke, wire, endpoint
<1>1. WireTypes' /\ EndpointTypes' /\ DownTypes' /\ Registered'
  BY <1>0 DEF Rest, WireTypes, EndpointTypes, DownTypes, Registered
<1>2. /\ bus' \subseteq Stamps /\ revoked' \in BOOLEAN
      /\ ~revoked' => ~revoked /\ "after" \notin bus'
  <2>1. CASE Publish
    <3>1. Now \in Stamps /\ (~revoked => Now = "before")
      BY DEF Now, Stamps
    <3> QED
      BY <2>1, <3>1 DEF Publish, Rest, ServerTypes, Stamped
  <2>2. CASE Revoke
    BY <2>2 DEF Revoke, Rest, ServerTypes
  <2> QED
    BY <2>1, <2>2
<1>3. ServerTypes'
  BY <1>0, <1>2 DEF Rest, ServerTypes
<1>4. Stamped'
  BY <1>0, <1>2 DEF Rest, Stamped
<1> QED
  BY <1>1, <1>3, <1>4 DEF Rest

----------------------------------------------------------------------------
(* The theorems *)

\* At the start nobody is connected.
LEMMA InitIInv == Init => IInv
<1> SUFFICES ASSUME Init PROVE IInv
  OBVIOUS
<1>1. TabTypes /\ WireTypes
  BY DEF Init, TabTypes, WireTypes, Timers, Codes
<1>2. EndpointTypes
  BY DEF Init, EndpointTypes, Stages, Stamps
<1>3. ServerTypes
  <2>1. IsFiniteSet({}) /\ Cardinality({}) = 0
    BY FS_EmptySet
  <2>2. IsFiniteSet(deliveries) /\ Cardinality(deliveries) <= MaxDeliveries
    <3>1. deliveries = {}
      BY DEF Init
    <3>2. 0 <= MaxDeliveries
      BY ConnectionAssumption
    <3> QED
      BY <2>1, <3>1, <3>2
  <2> QED
    BY <2>2 DEF Init, ServerTypes
<1>4. DownTypes
  BY ConnectionAssumption DEF Init, DownTypes
<1>5. Attempting
  BY DEF Init, Attempting, Attempt, LiveCalls
<1>6. Registered /\ Stamped
  BY DEF Init, Registered, Stamped
<1> QED
  BY <1>1, <1>2, <1>3, <1>4, <1>5, <1>6 DEF IInv, Types

\* Every step keeps the invariant.
LEMMA NextIInv == IInv /\ [Next]_vars => IInv'
<1> SUFFICES ASSUME IInv, [Next]_vars PROVE IInv'
  OBVIOUS
<1>1. TabTypes /\ Attempting /\ Rest
  BY DEF IInv, Types, Rest
<1>2. TabTypes' /\ Attempting'
  BY <1>1, AttemptKeeps
<1>3. ASSUME NEW t \in Tabs, TabStep(t) PROVE Rest'
  BY <1>1, <1>3, ManagerRest, OpenSocketRest, OnCloseRest, OnMessageRest, RequestRest DEF TabStep
<1>4. ASSUME NEW s \in Sockets, SocketStep(s) PROVE Rest'
  BY <1>1, <1>4, AuthorizeRest, RegisterRest, ServeRest, CommandRest, EndRest, BreakRest
     DEF SocketStep
<1>5. ASSUME BusStep PROVE Rest'
  BY <1>1, <1>5, SessionRest, DispatchRest, DeliverAuthorizeRest, GiveUpRest, DeliverSendRest
     DEF BusStep
<1>6. ASSUME UNCHANGED vars PROVE Rest'
  <2>1. UNCHANGED <<wire, endpoint, server>>
    BY <1>6 DEF vars
  <2>2. WireTypes' /\ DownTypes' /\ UNCHANGED up
    BY <1>1, <2>1 DEF wire, Rest, WireTypes, DownTypes
  <2> QED
    BY <1>1, <2>1, <2>2, ClientSide
<1>7. Rest'
  BY <1>3, <1>4, <1>5, <1>6, Steps
<1> QED
  BY <1>2, <1>7 DEF IInv, Types, Rest

\* The invariant holds in every reachable state.
LEMMA Invariant == Spec => []IInv
  BY InitIInv, NextIInv, PTL DEF Spec

\* The variables keep their types: no socket holds more frames than it takes, and no
\* more than MaxDeliveries tasks deliver.
THEOREM TypeCorrect == Spec => []TypeOK
<1>1. IInv => TypeOK
  <2> SUFFICES ASSUME IInv PROVE TypeOK
    OBVIOUS
  <2>1. ASSUME NEW s \in Sockets PROVE down[s] \in Seq(Frames) /\ Len(down[s]) <= MaxFrames
    <3>1. down[s] \in Seq(Sent) /\ Len(down[s]) <= MaxFrames
      BY DEF IInv, DownTypes
    <3>2. down[s] \in Seq(Frames)
      BY <3>1 DEF Sent, Frames, Stamps
    <3> QED
      BY <3>1, <3>2
  <2> QED
    BY <2>1 DEF TypeOK, IInv, Types, TabTypes, WireTypes, EndpointTypes, ServerTypes, Delivery
<1> QED
  BY <1>1, Invariant, PTL

\* WebSocketManager: whatever callbacks of old sockets, calls and timers come late, a
\* started manager has exactly one attempt under way and a stopped one has none.
THEOREM OneAttemptEach == Spec => []OneAttempt
<1>1. IInv => OneAttempt
  <2> SUFFICES ASSUME IInv, NEW t \in Tabs
               PROVE  Attempts(t) = IF t \in active THEN 1 ELSE 0
    BY DEF OneAttempt
  <2>1. Attempt(t)
    BY DEF IInv, Attempting
  <2>2. Cardinality({}) = 0 /\ \A c : Cardinality({c}) = 1
    BY FS_EmptySet, FS_Singleton
  <2>3. Attempts(t) = Cardinality(LiveCalls(t)) + (IF socket[t] = None THEN 0 ELSE 1)
                        + (IF timer[t] = "none" THEN 0 ELSE 1)
    BY DEF Attempts, LiveCalls
  <2>4. /\ LiveCalls(t) = {} => Cardinality(LiveCalls(t)) = 0
        /\ (\E c \in Calls : LiveCalls(t) = {c}) => Cardinality(LiveCalls(t)) = 1
    BY <2>2
  <2> QED
    BY <2>1, <2>3, <2>4 DEF Attempt
<1> QED
  BY <1>1, Invariant, PTL

\* ConnectionRegistry: the end of an old connection never unregisters the new one.
THEOREM ServedStaysRegistered == Spec => []ServedIsRegistered
<1>1. IInv => ServedIsRegistered
  BY DEF IInv, Registered, ServedIsRegistered
<1> QED
  BY <1>1, Invariant, PTL

\* websocket_endpoint and deliver check the session before every command and event:
\* nothing that is sent or published after the revocation gets through.
THEOREM RevocationCuts == Spec => []NothingAfterRevocation
<1>1. IInv => NothingAfterRevocation
  <2> SUFFICES ASSUME IInv, NEW s \in Sockets
               PROVE  /\ \A i \in 1..Len(down[s]) : down[s][i] # "after"
                      /\ ep[s] = "handling" => cmd[s] = "before"
    BY DEF NothingAfterRevocation
  <2>1. down[s] \in Seq(Sent)
    BY DEF IInv, DownTypes
  <2>2. \A i \in 1..Len(down[s]) : down[s][i] \in Sent
    BY <2>1
  <2> QED
    BY <2>2 DEF IInv, Stamped, Sent
<1> QED
  BY <1>1, Invariant, PTL
=============================================================================
