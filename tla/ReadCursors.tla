----------------------------- MODULE ReadCursors -----------------------------
(***************************************************************************)
(* The read positions of one direct chat as a browser keeps them:          *)
(* ReadCursorManager over the readStates store of IndexedDBDurableInbox,   *)
(* with the server's positions of the two members.                         *)
(*                                                                         *)
(* A tab learns positions from realtime events, from the answers to its    *)
(* own chat.read commands and from the pages of chat states; all of them   *)
(* go through a transaction of the store that the tabs share, and what the *)
(* transaction returns is published in the tab in a later step.  The       *)
(* server's handler is ReadCommand of MessageDelivery; here every position *)
(* of Seqs is one of an existing message.                                  *)
(***************************************************************************)
EXTENDS Naturals, FiniteSets

CONSTANTS
    Tabs,       \* browser tabs of one device
    NoTab,      \* no tab
    MaxSeq,     \* bound on the positions of the chat
    Elsewhere,  \* Elsewhere[m]: bound on what member m reads on other devices
    MaxReloads, \* bound on the number of times that tabs are reloaded
    MaxPending  \* bound on the results that a tab has not published yet

ASSUME ReadAssumption ==
    /\ NoTab \notin Tabs
    /\ MaxSeq \in Nat \ {0}
    /\ Elsewhere \in [{"own", "peer"} -> 0..MaxSeq]
    /\ MaxReloads \in Nat
    /\ MaxPending \in Nat \ {0}

Seqs == 1..MaxSeq
Members == {"own", "peer"}
Cursors == [user : Members, seq : 0..MaxSeq]

\* ChatReadState
States == [local : 0..MaxSeq, confirmed : 0..MaxSeq, peer : 0..MaxSeq]
NoState == [local |-> 0, confirmed |-> 0, peer |-> 0]

VARIABLES
    server,  \* server[m]: the position of member m that the server has stored
    db,      \* the stored state of the chat, shared by the tabs
    conn,    \* the tab that holds the ready connection of the device
    reloads, \* how often a tab was reloaded
    shown,   \* shown[t]: the state that tab t keeps in memory and displays
    todo,    \* todo[t]: results of transactions that t has not published yet
    timer,   \* the tabs with a scheduled flush
    flight,  \* flight[t]: the position of t's unanswered chat.read, 0 if none
    wire,    \* chat.read commands on their way, `from` the tab that waits
    answers, \* answers on their way back
    events,  \* chat.read.updated events on their way to a tab
    wanted,  \* the tabs that are to load their mailbox
    sync,    \* sync[t]: the next step of synchronize, or "idle"
    page     \* page[t]: positions of a chat states page not merged yet

vars == <<server, db, conn, reloads, shown, todo, timer, flight, wire,
          answers, events, wanted, sync, page>>
client == <<timer, flight, wire, wanted, sync, page>>

Max2(a, b) == IF a >= b THEN a ELSE b

\* publish: position by position, the higher of the two.
Join(old, new) ==
    [local |-> Max2(old.local, new.local),
     confirmed |-> Max2(old.confirmed, new.confirmed),
     peer |-> Max2(old.peer, new.peer)]

\* mergeChatReadCursor
Merged(state, c) ==
    IF c.user = "own"
    THEN [state EXCEPT !.local = Max2(@, c.seq), !.confirmed = Max2(@, c.seq)]
    ELSE [state EXCEPT !.peer = Max2(@, c.seq)]

\* Mutant: a position read here counts as confirmed.
AdvancedConfirming(state, n) == [state EXCEPT !.local = Max2(@, n), !.confirmed = Max2(@, n)]

\* advanceLocalReadCursor
Advanced(state, n) == [state EXCEPT !.local = Max2(@, n)]

Unconfirmed(state) == state.local > state.confirmed

\* A transaction of tab t: what it returns is published later, and then t goes
\* on with `then`.
Transact(t, state, then) ==
    /\ Cardinality(todo[t]) < MaxPending
    /\ db' = state
    /\ todo' = [todo EXCEPT ![t] = @ \cup {[state |-> state, then |-> then]}]

----------------------------------------------------------------------------
(* The server *)

\* ChatReadService.advance: a position below the stored one changes nothing and
\* publishes nothing; a new one is published to the devices of both members.
Advance(m, n) ==
    /\ server' = [server EXCEPT ![m] = Max2(@, n)]
    /\ events' = IF n > server[m] /\ conn # NoTab
                 THEN events \cup {[to |-> conn, user |-> m, seq |-> n]} ELSE events

\* The peer, or another device of the user, reads.
ReadElsewhere(m) ==
    /\ \E n \in 1..Elsewhere[m] : n > server[m] /\ Advance(m, n)
    /\ UNCHANGED <<db, conn, reloads, shown, todo, answers, client>>

\* handle_chat_read answers with the stored position, which may be higher.
HandleRead ==
    \E c \in wire :
        /\ Advance("own", c.seq)
        /\ wire' = wire \ {c}
        /\ answers' = IF c.from = NoTab THEN answers
                      ELSE answers \cup {[to |-> c.from, seq |-> server'["own"]]}
        /\ UNCHANGED <<db, conn, reloads, shown, todo, timer, flight, wanted, sync, page>>

----------------------------------------------------------------------------
(* ReadCursorManager *)

\* schedule: a flush that is already scheduled is enough.
Schedule(t) == timer' = timer \cup {t}

\* advance: a message became visible in tab t.
MarkRead(t) ==
    \E n \in Seqs :
        /\ n > shown[t].local
        /\ Transact(t, Advanced(db, n), "schedule")
        /\ UNCHANGED <<server, conn, reloads, shown, answers, events, client>>

\* merge, for an event
ReceiveEvent(t) ==
    \E e \in events :
        /\ e.to = t
        /\ Transact(t, Merged(db, e), "none")
        /\ events' = events \ {e}
        /\ UNCHANGED <<server, conn, reloads, shown, answers, client>>

\* flush sends one command per chat; a chat in flight is left to a later flush.
\* Without a ready connection it does nothing.
FlushSends(t, state) == conn = t /\ Unconfirmed(state) /\ flight[t] = 0

Flush(t, state, timers) ==
    IF FlushSends(t, state)
    THEN /\ flight' = [flight EXCEPT ![t] = state.local]
         /\ wire' = wire \cup {[from |-> t, seq |-> state.local]}
         /\ timer' = timers
    ELSE /\ timer' = IF conn = t /\ Unconfirmed(state) THEN timers \cup {t} ELSE timers
         /\ UNCHANGED <<flight, wire>>

TimerFires(t) ==
    /\ t \in timer
    /\ Flush(t, shown[t], timer \ {t})
    /\ UNCHANGED <<server, db, conn, reloads, shown, todo, answers, events, wanted, sync, page>>

\* The answer to the command in flight.  An answer below the position asked for
\* is refused (RequestFails).
ReceiveAnswer(t) ==
    \E a \in answers :
        /\ a.to = t /\ a.seq >= flight[t]
        /\ Transact(t, Merged(db, [user |-> "own", seq |-> a.seq]), "flushed")
        /\ answers' = answers \ {a}
        /\ UNCHANGED <<server, conn, reloads, shown, events, client>>

\* The command in flight is given up.  The server may still handle it, but its
\* answer has no reader.
GiveUp(t) ==
    /\ flight' = [flight EXCEPT ![t] = 0]
    /\ wire' = {IF c.from = t THEN [c EXCEPT !.from = NoTab] ELSE c : c \in wire}
    /\ answers' = {a \in answers : a.to # t}

Waiting(t) == flight[t] # 0 /\ ~\E r \in todo[t] : r.then = "flushed"

\* The command times out, or the server or the store refuses: try again later.
RequestFails(t) ==
    /\ Waiting(t)
    /\ GiveUp(t)
    /\ Schedule(t)
    /\ UNCHANGED <<server, db, conn, reloads, shown, todo, events, wanted, sync, page>>

\* The continuation of a transaction: publish, and what comes after it.
Publish(t) ==
    \E r \in todo[t] :
        LET state == Join(shown[t], r.state) IN
        /\ shown' = [shown EXCEPT ![t] = state]
        /\ todo' = [todo EXCEPT ![t] = @ \ {r}]
        /\ \/ r.then = "none" /\ UNCHANGED <<timer, flight, sync>>
           \/ r.then = "schedule" /\ Schedule(t) /\ UNCHANGED <<flight, sync>>
           \/ /\ r.then = "flushed"
              /\ flight' = [flight EXCEPT ![t] = 0]
              /\ timer' = IF Unconfirmed(state) THEN timer \cup {t} ELSE timer
              /\ UNCHANGED sync
           \/ /\ r.then \in {"page", "merge"}
              /\ sync' = [sync EXCEPT ![t] = r.then]
              /\ UNCHANGED <<timer, flight>>
        /\ UNCHANGED <<server, db, conn, reloads, answers, events, wire, wanted, page>>

\* synchronize begins with restore: a read of the store, published later.
StartSync(t) ==
    /\ t \in wanted /\ sync[t] = "idle"
    /\ wanted' = wanted \ {t}
    /\ sync' = [sync EXCEPT ![t] = "restore"]
    /\ Transact(t, db, "page")
    /\ UNCHANGED <<server, conn, reloads, shown, answers, events, timer, flight, wire, page>>

\* getChatStates: the positions of both members as the server has them now.
FetchPage(t) ==
    /\ sync[t] = "page"
    /\ sync' = [sync EXCEPT ![t] = "merge"]
    /\ page' = [page EXCEPT ![t] = {[user |-> m, seq |-> server[m]] : m \in Members}]
    /\ UNCHANGED <<server, db, conn, reloads, shown, todo, answers, events, timer, flight, wire, wanted>>

MergePage(t) ==
    \E c \in page[t] :
        /\ sync[t] = "merge"
        /\ sync' = [sync EXCEPT ![t] = "merging"]
        /\ page' = [page EXCEPT ![t] = @ \ {c}]
        /\ Transact(t, Merged(db, c), "merge")
        /\ UNCHANGED <<server, conn, reloads, shown, answers, events, timer, flight, wire, wanted>>

\* Mutant: synchronize ends without a flush.
FinishSyncQuietly(t) ==
    /\ sync[t] = "merge" /\ page[t] = {}
    /\ sync' = [sync EXCEPT ![t] = "idle"]
    /\ UNCHANGED <<server, db, conn, reloads, shown, todo, answers, events, timer, flight, wire, wanted, page>>

\* synchronize ends with a flush.
FinishSync(t) ==
    /\ sync[t] = "merge" /\ page[t] = {}
    /\ sync' = [sync EXCEPT ![t] = "idle"]
    /\ Flush(t, shown[t], timer)
    /\ UNCHANGED <<server, db, conn, reloads, shown, todo, answers, events, wanted, page>>

\* A call or a transaction of synchronize, or of loadMailbox before it, fails:
\* the positions that were merged stay.
SyncFails(t) ==
    /\ \/ sync[t] = "page" /\ UNCHANGED wanted
       \/ sync[t] = "merge" /\ page[t] # {} /\ UNCHANGED wanted
       \/ sync[t] = "idle" /\ t \in wanted /\ wanted' = wanted \ {t}
    /\ sync' = [sync EXCEPT ![t] = "idle"]
    /\ page' = [page EXCEPT ![t] = {}]
    /\ UNCHANGED <<server, db, conn, reloads, shown, todo, answers, events, timer, flight, wire>>

----------------------------------------------------------------------------
(* Tabs and their connection *)

\* The tab is closed and opened again, or its session is replaced: nothing but
\* the store is left.  The tab restores the stored state and is to load its
\* mailbox.
Reload(t) ==
    /\ reloads < MaxReloads
    /\ reloads' = reloads + 1
    /\ conn' = IF conn = t THEN NoTab ELSE conn
    /\ shown' = [shown EXCEPT ![t] = NoState]
    /\ todo' = [todo EXCEPT ![t] = {[state |-> db, then |-> "none"]}]
    /\ timer' = timer \ {t}
    /\ GiveUp(t)
    /\ wanted' = wanted \cup {t}
    /\ sync' = [sync EXCEPT ![t] = "idle"]
    /\ page' = [page EXCEPT ![t] = {}]
    /\ events' = {e \in events : e.to # t}
    /\ UNCHANGED <<server, db>>

\* Mutant: only a tab that was reloaded loads its mailbox.
ConnectQuietly(t) ==
    /\ conn = NoTab
    /\ conn' = t
    /\ UNCHANGED <<server, db, reloads, shown, todo, answers, events, wanted, timer, flight, wire, sync, page>>

\* The connection of tab t becomes ready, and onReady has the mailbox loaded.  The
\* server keeps one connection per device (RealtimeConnection).
Connect(t) ==
    /\ conn = NoTab
    /\ conn' = t
    /\ wanted' = wanted \cup {t}
    /\ UNCHANGED <<server, db, reloads, shown, todo, answers, events, timer, flight, wire, sync, page>>

\* The connection of t is lost, or replaced by that of another tab: rejectPending
\* fails the command in flight.
Disconnect(t) ==
    /\ conn = t
    /\ conn' = NoTab
    /\ events' = {e \in events : e.to # t}
    /\ IF Waiting(t) THEN GiveUp(t) /\ Schedule(t) ELSE UNCHANGED <<flight, wire, answers, timer>>
    /\ UNCHANGED <<server, db, reloads, shown, todo, wanted, sync, page>>

LoseEvent ==
    \E e \in events :
        /\ events' = events \ {e}
        /\ UNCHANGED <<server, db, conn, reloads, shown, todo, answers, client>>

\* A command of a connection that has been lost may be lost with it,
\* which makes a difference only if the server does not have its position yet.
LoseCommand ==
    \E c \in wire :
        /\ c.from = NoTab /\ c.seq > server["own"]
        /\ wire' = wire \ {c}
        /\ UNCHANGED <<server, db, conn, reloads, shown, todo, answers, events, timer, flight, wanted, sync, page>>

----------------------------------------------------------------------------

Init ==
    /\ server = [m \in Members |-> 0]
    /\ db = NoState
    /\ conn = NoTab
    /\ reloads = 0
    /\ shown = [t \in Tabs |-> NoState]
    /\ todo = [t \in Tabs |-> {}]
    /\ timer = {}
    /\ flight = [t \in Tabs |-> 0]
    /\ wire = {}
    /\ answers = {}
    /\ events = {}
    /\ wanted = Tabs
    /\ sync = [t \in Tabs |-> "idle"]
    /\ page = [t \in Tabs |-> {}]

\* Tab t has begun something that needs its connection.
Busy(t) == sync[t] # "idle" \/ t \in wanted \/ t \in timer \/ flight[t] # 0 \/ todo[t] # {}

\* What goes wrong from outside; the end of an idle connection is not a failure.
Fault ==
    \/ LoseEvent \/ LoseCommand
    \/ \E t \in Tabs : RequestFails(t) \/ SyncFails(t) \/ Reload(t)
                      \/ (Busy(t) /\ Disconnect(t))

Next ==
    \/ \E m \in Members : ReadElsewhere(m)
    \/ HandleRead \/ LoseEvent \/ LoseCommand
    \/ \E t \in Tabs :
        \/ MarkRead(t) \/ ReceiveEvent(t) \/ TimerFires(t) \/ ReceiveAnswer(t)
        \/ RequestFails(t) \/ Publish(t)
        \/ StartSync(t) \/ FetchPage(t) \/ MergePage(t) \/ FinishSync(t) \/ SyncFails(t)
        \/ Reload(t) \/ Connect(t) \/ Disconnect(t)

Spec == Init /\ [][Next]_vars

\* Tabs and the server go on with what they have begun: timers fire, promises
\* settle, and a command on a live connection is handled.  A connection does not
\* last for ever, since the server closes it when its access token has expired,
\* and the client opens another one.
FairSpec ==
    /\ Spec
    /\ WF_vars(HandleRead)
    /\ \A t \in Tabs :
        /\ WF_vars(ReceiveEvent(t))
        /\ WF_vars(TimerFires(t))
        /\ WF_vars(ReceiveAnswer(t))
        /\ WF_vars(Publish(t))
        /\ WF_vars(StartSync(t))
        /\ WF_vars(FetchPage(t))
        /\ WF_vars(MergePage(t))
        /\ WF_vars(FinishSync(t))
        /\ WF_vars(Connect(t))
        /\ WF_vars(Disconnect(t))

----------------------------------------------------------------------------
(* Properties *)

Results == [state : States, then : {"none", "schedule", "flushed", "page", "merge"}]

TypeOK ==
    /\ server \in [Members -> 0..MaxSeq]
    /\ db \in States
    /\ conn \in Tabs \cup {NoTab}
    /\ reloads \in 0..MaxReloads
    /\ shown \in [Tabs -> States]
    /\ todo \in [Tabs -> SUBSET Results]
    /\ timer \subseteq Tabs
    /\ flight \in [Tabs -> 0..MaxSeq]
    /\ wire \subseteq [from : Tabs \cup {NoTab}, seq : Seqs]
    /\ answers \subseteq [to : Tabs, seq : Seqs]
    /\ events \subseteq [to : Tabs, user : Members, seq : Seqs]
    /\ wanted \subseteq Tabs
    /\ sync \in [Tabs -> {"idle", "restore", "page", "merge", "merging"}]
    /\ page \in [Tabs -> SUBSET Cursors]

\* No read marker runs ahead: the store has as confirmed only what the server has
\* stored, as read by the peer only what the peer has read, and a tab displays
\* nothing that is not in the store, and that a reload would take back.
MarkersTruthful ==
    /\ db.confirmed <= server["own"] /\ db.peer <= server["peer"]
    /\ \A t \in Tabs : Join(db, shown[t]) = db

\* Once failures have ceased, the positions that were read in this browser reach
\* the server, even if the tab was closed before it could send them.
ReadsReachServer == <>[][~Fault]_vars => []<>(server["own"] >= db.local)

\* Once failures have ceased, the tabs display what the server has: events that
\* were lost are made up for when the connection is ready again.
TabsCatchUp ==
    <>[][~Fault]_vars =>
        []<>(\A t \in Tabs : shown[t].peer >= server["peer"]
                            /\ shown[t].confirmed >= server["own"])
=============================================================================
