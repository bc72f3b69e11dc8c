------------------------------ MODULE ChatStore ------------------------------
(***************************************************************************)
(* What a tab shows: ChatStore, with the MessengerService and the          *)
(* ChatPreferencesService that it calls.                                   *)
(*                                                                         *)
(* Every async function is an operation in ops that goes on after each of  *)
(* its awaits; what it finds then is compared with what it had read: the   *)
(* lifecycle ("run"), the number of the selection or of the search, the    *)
(* token of a history request, the scope of the local storage.  A step is  *)
(* one call, one transaction or one continuation.  Preference operations   *)
(* wait in a queue; the head of the queue goes on when its storage call    *)
(* ends.                                                                   *)
(*                                                                         *)
(* Server and storage are reduced to what can be seen here: the chats, the *)
(* envelopes 1, 2, ... of the mailbox in the order of their creation, one  *)
(* message of the user's own (OutgoingSend), the selected chat that is     *)
(* stored.  Error texts are left out.  Every input of the visitor and of   *)
(* the server, and every failure of a call, uses up one of those that      *)
(* `left` allows.                                                          *)
(***************************************************************************)
EXTENDS Naturals, Sequences, SequencesExt, MessageState

CONSTANTS
    Chats,              \* direct chats, existing or not yet
    NoChat,             \* no chat
    ChatOf,             \* ChatOf[m]: the chat of the m-th envelope of the mailbox
    MaxCachedChats,     \* MAX_CACHED_CHATS
    PageSize,           \* messages on a page of a chat's history
    Scenarios           \* states that a browser starts in, with bounds on inputs

Inputs == {"start", "leave", "select", "open", "search", "older", "send", "retry",
           "arrive", "ready", "receipt", "read", "fail"}

ASSUME ChatStoreAssumption ==
    /\ NoChat \notin Chats
    /\ ChatOf \in Seq(Chats)
    /\ MaxCachedChats \in Nat \ {0} /\ PageSize \in Nat \ {0}
    /\ \A s \in Scenarios : /\ s.cached \subseteq s.existing /\ s.existing \subseteq Chats
                            /\ s.pref \in s.existing \cup {NoChat}
                            /\ s.old \in 0..Len(ChatOf)
                            /\ s.left \in [Inputs -> Nat]

VARIABLES
    existing,   \* the chats that the server has
    mail,       \* envelopes that the server has put into the mailbox
    sent,       \* the own message at the server: "none", "accepted" or "delivered"
    read,       \* the position that the peer has read, at the server
    cached,     \* IndexedDB: the chats
    stored,     \* IndexedDB: the envelopes 1..stored
    own,        \* IndexedDB: the outgoing command, its sent metadata, an early receipt
    peerRead,   \* IndexedDB: the position that the peer has read
    pref,       \* localStorage: the last chat
    queue,      \* ChatPreferencesService: operations that wait for storage
    signedIn,   \* whether SyncManager has a scope
    scope,      \* the number of that scope
    run,        \* the lifecycle of the store, 0: none
    runs,       \* lifecycles so far
    known,      \* ReadCursorManager: the position of the peer in this session
    store,      \* the state of the store and its ChatRun
    ops,        \* operations that wait for a call, a transaction or another one
    due,        \* OutgoingManager: the delivery update that is held back
    left,       \* left[i]: inputs and failures that may still happen
    promised,   \* history: the mailbox at the last ready event of this lifecycle
    behind,     \* history: something was stored by an operation that will not show it
    unsettled   \* history: the last chat was not restored, or a choice not written

backend == <<existing, mail, sent, read>>
inbox == <<cached, stored, own, peerRead>>
preference == <<pref, queue, unsettled>>
session == <<signedIn, scope, run, runs, known>>
progress == <<promised, behind>>
storeVars == <<backend, inbox, preference, session, store, ops, due, left, progress>>

NoHistory == [kept |-> FALSE, loading |-> FALSE, loaded |-> FALSE, previous |-> FALSE,
              cursor |-> 0]
NoUpdate == [status |-> "none", scope |-> 0]

\* initialState and createChatRun.
Empty ==
    [selected |-> NoChat, loadingChat |-> NoChat, opening |-> FALSE, chats |-> {},
     loadingChats |-> TRUE, loadingMailbox |-> TRUE, searching |-> FALSE, results |-> 0,
     sending |-> FALSE, peerRead |-> 0,
     history |-> [c \in Chats |-> NoHistory], shown |-> [c \in Chats |-> {}],
     selection |-> 0, searchRequest |-> 0, loads |-> FALSE, reload |-> FALSE,
     requests |-> [c \in Chats |-> 0], tokens |-> 0, recent |-> <<>>, discovered |-> {}]

\* An operation: n is the number of its request or its envelope, token the
\* history request that it is or waits for.
Op(kind, at) ==
    [kind |-> kind, at |-> at, run |-> run, scope |-> scope, n |-> 0, chat |-> NoChat,
     chats |-> {}, token |-> 0, rows |-> {}, next |-> 0, was |-> NoHistory, status |-> "none"]

Current(o) == o.run = run
InScope(o) == signedIn /\ o.scope = scope
IsCurrent(o) == Current(o) /\ o.n = store.selection

Use(i) == left[i] > 0 /\ left' = [left EXCEPT ![i] = @ - 1]
\* A call fails; without the session that it began in it may always do so.
Failing(o) == IF InScope(o) THEN Use("fail") ELSE UNCHANGED left

At(o, kind, at) == o.kind = kind /\ o.at = at
Ends(o) == ops' = ops \ {o}
Becomes(o, new) == ops' = (ops \ {o}) \cup {new}
Goes(o, at) == Becomes(o, [o EXCEPT !.at = at])

----------------------------------------------------------------------------
(* The messages in the store *)

Row(m) == [id |-> m, chat |-> ChatOf[m], command |-> NoKey, status |-> "none", at |-> m]

\* decodeOutgoing: a pending row has an id of its own, here 0.
OwnId == Len(ChatOf) + 1
OwnRow(o) == [id |-> IF o.status = "pending" THEN 0 ELSE OwnId, chat |-> o.chat,
              command |-> "own", status |-> o.status, at |-> OwnId]

\* setHistoryChats: MessengerService decodes for these chats only.
HistoryChats == ToSet(store.recent)
Visible(rows) == {r \in rows : r.chat \in HistoryChats}
ChatsOf(rows) == {r.chat : r \in rows}

\* receive: rows of chats whose history is kept are merged, and chats that have
\* not been seen before are fetched.
Receive(b, rows, chats) ==
    [b EXCEPT !.shown = mergeMessagesByChat(@, {r \in rows : b.history[r.chat].kept}),
              !.discovered = @ \cup chats]
Discover(b, chats) == {[Op("discover", "get") EXCEPT !.chat = c] : c \in chats \ b.discovered}

\* Mutant: a late result is received whatever lifecycle it is for.
ReceivedAnyRun(o, b, rows, chats) ==
    /\ store' = Receive(b, rows, chats)
    /\ ops' = (ops \ {o}) \cup Discover(b, chats)

\* Operation o ends with receive, in the state b of the store.
Received(o, b, rows, chats) ==
    /\ store' = IF Current(o) THEN Receive(b, rows, chats) ELSE b
    /\ ops' = (ops \ {o}) \cup (IF Current(o) THEN Discover(b, chats) ELSE {})

\* The chat of a message is fetched and cached.
DiscoverChat(o) ==
    /\ At(o, "discover", "get") /\ o.chat \in existing
    /\ store' = IF Current(o) THEN [store EXCEPT !.chats = @ \cup {o.chat}] ELSE store
    /\ IF Current(o) THEN Goes(o, "cache") ELSE Ends(o)
    /\ UNCHANGED <<backend, inbox, preference, session, due, left, progress>>

DiscoverCache(o) ==
    /\ At(o, "discover", "cache")
    /\ \/ InScope(o) /\ cached' = cached \cup {o.chat} /\ UNCHANGED left
       \/ Failing(o) /\ UNCHANGED cached
    /\ Ends(o)
    /\ UNCHANGED <<backend, stored, own, peerRead, preference, session, store, due, progress>>

DiscoverFails(o) ==
    /\ At(o, "discover", "get") /\ Failing(o)
    /\ store' = IF Current(o) THEN [store EXCEPT !.discovered = @ \ {o.chat}] ELSE store
    /\ Ends(o)
    /\ UNCHANGED <<backend, inbox, preference, session, due, progress>>

----------------------------------------------------------------------------
(* A chat's history: retainHistory, loadHistory, loadChatHistory, readChatHistory *)

retainHistory(b, c) ==
    LET recent == <<c>> \o SelectSeq(b.recent, LAMBDA y : y # c)
        kept == IF Len(recent) <= MaxCachedChats THEN recent ELSE SubSeq(recent, 1, MaxCachedChats)
    IN [b EXCEPT !.recent = kept,
          !.requests = [y \in Chats |-> IF y \in ToSet(kept) THEN @[y] ELSE 0],
          !.shown = [y \in Chats |-> IF y \in ToSet(kept) THEN @[y] ELSE {}],
          !.history = [y \in Chats |-> IF y \in ToSet(kept) THEN @[y] ELSE NoHistory]]

\* loadHistory goes on unless it is running or there is nothing to load.
CanLoad(b, c, previous) ==
    LET h == b.history[c]
    IN ~h.loading /\ (IF previous THEN h.previous ELSE ~h.loaded)

HistoryBegun(b, c, previous) ==
    IF ~CanLoad(b, c, previous) THEN b
    ELSE [b EXCEPT !.tokens = @ + 1, !.requests[c] = b.tokens + 1,
                   !.history[c].kept = TRUE, !.history[c].loading = TRUE]

HistoryOps(b, c, previous) ==
    IF ~CanLoad(b, c, previous) THEN {}
    ELSE {[Op("history", "read") EXCEPT !.chat = c, !.token = b.tokens + 1,
               !.was = b.history[c], !.next = IF previous THEN b.history[c].cursor ELSE 0]}

\* The token of the request that loadHistory begins, and the end of the wait for it.
Awaited(b, c) == IF CanLoad(b, c, FALSE) THEN b.tokens + 1 ELSE 0
AwaitedDone(o) ==
    \A h \in ops : ~(h.kind = "history" /\ h.run = o.run /\ h.token = o.token)

\* readHistoryEntries: the newest rows before the cursor, which is the place of
\* the last row of the page before.
Before(c, cursor) ==
    {r \in {Row(m) : m \in 1..stored} \cup (IF own.status = "none" THEN {} ELSE {OwnRow(own)}) :
        r.chat = c /\ (cursor = 0 \/ r.at < cursor)}
Page(rows) == {r \in rows : Cardinality({q \in rows : q.at > r.at}) < PageSize}
NextBefore(rows) == IF Page(rows) = rows THEN 0 ELSE Min({r.at : r \in Page(rows)})

IsRequest(o) == Current(o) /\ store.requests[o.chat] = o.token

HistoryRead(o) ==
    /\ At(o, "history", "read") /\ InScope(o)
    /\ Becomes(o, [o EXCEPT !.at = "apply", !.rows = Page(Before(o.chat, o.next)),
                            !.next = NextBefore(Before(o.chat, o.next))])
    /\ UNCHANGED <<backend, inbox, preference, session, store, due, left, progress>>

HistoryApply(o) ==
    /\ At(o, "history", "apply") /\ InScope(o)
    /\ store' = IF ~IsRequest(o) THEN store
                ELSE [store EXCEPT !.shown = mergeMessagesByChat(@, o.rows), !.requests[o.chat] = 0,
                        !.history[o.chat] = [kept |-> TRUE, loading |-> FALSE, loaded |-> TRUE,
                                             previous |-> o.next # 0, cursor |-> o.next]]
    /\ Ends(o)
    /\ UNCHANGED <<backend, inbox, preference, session, due, left, progress>>

\* Storage fails, or the scope has changed ("Message session changed.").
HistoryFails(o) ==
    /\ o.kind = "history" /\ Failing(o)
    /\ store' = IF ~IsRequest(o) THEN store
                ELSE [store EXCEPT !.requests[o.chat] = 0,
                        !.history[o.chat] = [o.was EXCEPT !.kept = TRUE]]
    /\ Ends(o)
    /\ UNCHANGED <<backend, inbox, preference, session, due, progress>>

\* loadPreviousMessages of the selected chat.
LoadPreviousMessages ==
    LET c == store.selected
        previous == store.history[c].loaded
    IN /\ run # 0 /\ c # NoChat
       /\ CanLoad(store, c, previous)
       /\ Use("older")
       /\ store' = HistoryBegun(store, c, previous)
       /\ ops' = ops \cup HistoryOps(store, c, previous)
       /\ UNCHANGED <<backend, inbox, preference, session, due, progress>>

----------------------------------------------------------------------------
(* The own message: OutgoingManager, as far as the store can see it *)

InFlight(o) == o.kind \in {"send", "retry"} /\ o.at \in {"pending", "send", "accept", "shown"}
Recovering(o) == At(o, "mailbox", "recovered")
Held(o) == \E p \in ops \ {o} : InFlight(p) \/ Recovering(p)

\* Publications reach the handlers of the lifecycle there is then.
Listening(n) == signedIn /\ n = scope /\ run # 0

\* onDelivery: only a row that is shown is updated.
Updates(b, u) ==
    UNION {{[r EXCEPT !.status = u.status] : r \in {q \in b.shown[c] : q.id = OwnId}} : c \in Chats}

\* publishDeliveries, after o has published its rows: the acceptance must come
\* first.  The state of the store afterwards, and the chats to fetch.
Published(o, rows) == IF Listening(o.scope) THEN Receive(store, rows, ChatsOf(rows)) ELSE store
Flushed(b, u) ==
    IF u.status # "none" /\ Listening(u.scope)
    THEN Receive(b, Updates(b, u), ChatsOf(Updates(b, u)))
    ELSE b
NewChats(b) == Discover(store, b.discovered)

\* queueDelivery
QueueDelivery(o, u) ==
    /\ due' = IF Held(o) THEN u ELSE NoUpdate
    /\ store' = IF Held(o) THEN store ELSE Flushed(store, u)

\* ChatStore.sendText and OutgoingManager.sendText, of the one own message; if
\* there is no scope it fails at once.
SendText ==
    /\ signedIn /\ run # 0 /\ store.selected # NoChat /\ ~store.sending
    /\ own.status = "none" /\ (\A o \in ops : o.kind # "send") /\ Use("send")
    /\ store' = [store EXCEPT !.sending = TRUE]
    /\ ops' = ops \cup {[Op("send", "put") EXCEPT !.chat = store.selected]}
    /\ UNCHANGED <<backend, inbox, preference, session, due, progress>>

\* retryMessage: recoverCommand of the stored command.
RetryMessage ==
    /\ signedIn /\ run # 0 /\ Use("retry")
    /\ own.status = "pending" /\ ~\E o \in ops : InFlight(o)
    /\ ops' = ops \cup {[Op("retry", "send") EXCEPT !.chat = own.chat]}
    /\ UNCHANGED <<backend, inbox, preference, session, store, due, progress>>

\* putOutgoing, and publishOutgoing as far as its filter.  The scope is compared
\* only after the row is stored: that of a session that has ended is not shown.
SendPut(o) ==
    /\ At(o, "send", "put")
    /\ own' = [own EXCEPT !.chat = o.chat, !.status = "pending"]
    /\ Becomes(o, [o EXCEPT !.at = "pending",
                            !.rows = IF Listening(o.scope) THEN Visible({OwnRow(own')}) ELSE {}])
    /\ behind' = (behind \/ ~Listening(o.scope))
    /\ UNCHANGED <<backend, cached, stored, peerRead, preference, session, store, due, left, promised>>

SendPending(o) ==
    /\ At(o, "send", "pending")
    /\ store' = Published(o, o.rows)
    /\ ops' = (ops \ {o}) \cup {[o EXCEPT !.at = "send"]} \cup NewChats(store')
    /\ UNCHANGED <<backend, inbox, preference, session, due, left, progress>>

\* sendAndConfirm, or what findSentMessage answers.
SendCommand(o) ==
    /\ o.kind \in {"send", "retry"} /\ o.at = "send" /\ InScope(o)
    /\ sent' = IF sent = "none" THEN "accepted" ELSE sent
    /\ Becomes(o, [o EXCEPT !.at = "accept", !.status = sent'])
    /\ UNCHANGED <<existing, mail, read, inbox, preference, session, store, due, left, progress>>

\* acceptOutgoing: a receipt that was there first is merged.
Accepted(status) == [own EXCEPT !.status = IF own.early THEN "delivered" ELSE selectStatus(@, status),
                                !.early = FALSE]

SendAccept(o) ==
    /\ o.kind \in {"send", "retry"} /\ o.at = "accept"
    /\ own' = Accepted(o.status)
    /\ Becomes(o, [o EXCEPT !.at = "shown", !.rows = Visible({OwnRow(own')})])
    /\ UNCHANGED <<backend, cached, stored, peerRead, preference, session, store, due, left, progress>>

\* The acceptance is published, then the updates that were held back; sendText
\* of the store adds the message itself.
SendShown(o) ==
    LET told == Published(o, o.rows)
        flushed == IF Held(o) THEN told ELSE Flushed(told, due)
        mine == {OwnRow([own EXCEPT !.status = "accepted"])}
        final == IF o.kind = "send" /\ Current(o)
                 THEN [Receive(flushed, mine, {o.chat}) EXCEPT !.sending = FALSE]
                 ELSE flushed
    IN /\ o.kind \in {"send", "retry"} /\ o.at = "shown"
       /\ due' = IF Held(o) THEN due ELSE NoUpdate
       /\ store' = final
       /\ ops' = (ops \ {o}) \cup NewChats(final)
       /\ UNCHANGED <<backend, inbox, preference, session, left, progress>>

SendFails(o) ==
    LET flushed == IF Held(o) THEN store ELSE Flushed(store, due)
    IN /\ o.kind \in {"send", "retry"} /\ o.at \in {"put", "send", "accept"} /\ Failing(o)
       /\ due' = IF Held(o) THEN due ELSE NoUpdate
       /\ store' = IF o.kind = "send" /\ Current(o) THEN [flushed EXCEPT !.sending = FALSE] ELSE flushed
       /\ ops' = (ops \ {o}) \cup NewChats(store')
       /\ UNCHANGED <<backend, inbox, preference, session, progress>>

\* A recipient acknowledges; the event reaches the lifecycle there is, or nobody.
Receipt ==
    /\ sent = "accepted" /\ Use("receipt")
    /\ sent' = "delivered"
    /\ \/ UNCHANGED ops
       \/ Listening(scope) /\ ops' = ops \cup {Op("receipt", "commit")}
    /\ UNCHANGED <<existing, mail, read, inbox, preference, session, store, due, progress>>

\* applyDeliveryReceipt
ReceiptCommit(o) ==
    /\ At(o, "receipt", "commit")
    /\ own' = [own EXCEPT !.metadata = IF @ = "none" THEN @ ELSE "delivered",
                          !.early = @ \/ own.status = "pending",
                          !.status = IF @ = "pending" THEN @ ELSE "delivered"]
    /\ IF Current(o) /\ InScope(o) THEN Goes(o, "queue") ELSE Ends(o)
    /\ UNCHANGED <<backend, cached, stored, peerRead, preference, session, store, due, left, progress>>

\* queueDelivery of what was stored; if the acceptance is not known yet,
\* recoverSentMetadata has fetched it.
ReceiptQueue(o) ==
    /\ At(o, "receipt", "queue")
    /\ IF Current(o) /\ InScope(o)
       THEN /\ own' = [own EXCEPT !.metadata = IF own.status = "pending" THEN "delivered" ELSE @]
            /\ QueueDelivery(o, [status |-> "delivered", scope |-> scope])
       ELSE UNCHANGED <<own, due, store>>
    /\ ops' = (ops \ {o}) \cup NewChats(store')
    /\ UNCHANGED <<backend, cached, stored, peerRead, preference, session, left, progress>>

ReceiptFails(o) ==
    /\ o.kind = "receipt" /\ Failing(o)
    /\ Ends(o)
    /\ UNCHANGED <<backend, inbox, preference, session, store, due, progress>>

----------------------------------------------------------------------------
(* The mailbox: loadMailbox of the store and of MessengerService, and events *)

\* Mutant: a reload that is asked for while one is under way is forgotten.
MailboxBegunOnce(b) == [b EXCEPT !.loads = TRUE, !.loadingMailbox = TRUE]

MailboxBegun(b) ==
    IF b.loads THEN [b EXCEPT !.reload = TRUE]
    ELSE [b EXCEPT !.loads = TRUE, !.loadingMailbox = TRUE]
MailboxOps(b) == IF b.loads THEN {} ELSE {Op("mailbox", "sync")}

\* The finally block of loadMailbox: a reload that was asked for begins.
MailboxEnded(o, b) ==
    IF ~Current(o) THEN b ELSE [b EXCEPT !.loads = @ /\ b.reload, !.loadingMailbox = b.reload, !.reload = FALSE]
NextMailbox(o) == IF Current(o) /\ store.reload THEN {Op("mailbox", "sync")} ELSE {}

\* The connection is ready, again.
Ready ==
    /\ Listening(scope) /\ Use("ready")
    /\ promised' = mail
    /\ store' = MailboxBegun(store)
    /\ ops' = ops \cup MailboxOps(store)
    /\ UNCHANGED <<backend, inbox, preference, session, due, behind>>

NewRows(from, to) == {Row(m) : m \in from..to}

\* Rows that are stored for a lifecycle that has ended will not be shown.
Committed(o, rows) == behind' = (behind \/ (~Current(o) /\ rows # {}))
\* Nor will those of an operation that fails afterwards.
Lost(o) == behind' = (behind \/ (Current(o) /\ o.chats # {}))

\* synchronize
MailboxSync(o) ==
    LET rows == NewRows(stored + 1, mail)
    IN /\ At(o, "mailbox", "sync") /\ InScope(o)
       /\ stored' = mail
       /\ Committed(o, rows)
       /\ Becomes(o, [o EXCEPT !.at = "page", !.rows = rows, !.chats = ChatsOf(rows)])
       /\ UNCHANGED <<backend, cached, own, peerRead, preference, session, store, due, left, promised>>

\* ReadCursorManager.publish, then onReadState: results come in any order.
PublishRead(o, n) == known' = IF InScope(o) THEN Max({known, n}) ELSE known
Marked(b, o) == IF Listening(o.scope) THEN [b EXCEPT !.peerRead = Max({@, known'})] ELSE b

\* recoverSentMetadata: a page of what the server knows is fetched, and merged
\* with the metadata that there is, or else with the row, and an early receipt.
AfterMetadata == IF read = 0 THEN "recover" ELSE "reads"

MailboxPage(o) ==
    /\ At(o, "mailbox", "page") /\ InScope(o)
    /\ Becomes(o, [o EXCEPT !.at = IF sent = "none" THEN AfterMetadata ELSE "metadata", !.status = sent])
    /\ UNCHANGED <<backend, inbox, preference, session, store, due, left, progress>>

MergedMetadata(status) ==
    IF own.early THEN "delivered"
    ELSE selectStatus(IF own.metadata # "none" THEN own.metadata ELSE own.status, status)

MailboxMetadata(o) ==
    LET status == MergedMetadata(o.status)
    IN /\ At(o, "mailbox", "metadata") /\ InScope(o)
       /\ own' = [own EXCEPT !.metadata = status,
                             !.status = IF @ \in {"accepted", "delivered"} THEN status ELSE @]
       /\ QueueDelivery(o, [status |-> status, scope |-> scope])
       /\ ops' = (ops \ {o}) \cup {[o EXCEPT !.at = AfterMetadata]} \cup NewChats(store')
       /\ UNCHANGED <<backend, cached, stored, peerRead, preference, session, left, progress>>

\* ReadCursorManager.synchronize, if there are positions: the stored one is
\* published and that of the server fetched, then merged and published.
MailboxReads(o) ==
    /\ At(o, "mailbox", "reads") /\ InScope(o)
    /\ PublishRead(o, peerRead)
    /\ store' = Marked(store, o)
    /\ Becomes(o, [o EXCEPT !.at = "merge", !.n = read])
    /\ UNCHANGED <<backend, inbox, preference, signedIn, scope, run, runs, due, left, progress>>

MailboxMerge(o) ==
    /\ At(o, "mailbox", "merge") /\ InScope(o)
    /\ peerRead' = Max({peerRead, o.n})
    /\ PublishRead(o, peerRead')
    /\ store' = Marked(store, o)
    /\ Goes(o, "recover")
    /\ UNCHANGED <<backend, cached, stored, own, preference, signedIn, scope, run, runs, due, left, progress>>

\* recoverOutgoing: a command that no operation is sending is looked up and, if
\* the server does not have it, sent; what changed is published.
Recoverable == own.status \in {"pending", "accepted"} /\ ~\E p \in ops : InFlight(p)

MailboxRecover(o) ==
    /\ At(o, "mailbox", "recover") /\ InScope(o) /\ ~\E p \in ops : Recovering(p)
    /\ \/ /\ Recoverable
          /\ sent' = IF sent = "none" THEN "accepted" ELSE sent
          /\ own' = Accepted(sent')
          /\ Becomes(o, [o EXCEPT !.at = "recovered", !.status = IF own' = own THEN "none" ELSE own'.status])
          /\ UNCHANGED left
       \/ /\ IF Recoverable THEN Use("fail") ELSE UNCHANGED left
          /\ Becomes(o, [o EXCEPT !.at = "recovered", !.status = "none"])
          /\ UNCHANGED <<sent, own>>
    /\ UNCHANGED <<existing, mail, read, cached, stored, peerRead, preference, session, store, due, progress>>

\* Another recovery is under way, and is waited for.
MailboxJoin(o) ==
    /\ At(o, "mailbox", "recover") /\ InScope(o) /\ \E p \in ops : Recovering(p)
    /\ Goes(o, "join")
    /\ UNCHANGED <<backend, inbox, preference, session, store, due, left, progress>>

\* The change is published, then the updates that were held back.
MailboxRecovered(o) ==
    LET rows == IF o.status = "none" THEN {} ELSE Visible({OwnRow([own EXCEPT !.status = o.status])})
    IN /\ Recovering(o)
       /\ due' = IF Held(o) THEN due ELSE NoUpdate
       /\ store' = IF Held(o) THEN Published(o, rows) ELSE Flushed(Published(o, rows), due)
       /\ ops' = (ops \ {o}) \cup {[o EXCEPT !.at = "decode"]} \cup NewChats(store')
       /\ UNCHANGED <<backend, inbox, preference, session, left, progress>>

\* decodeSnapshot
MailboxDecode(o) ==
    /\ o.kind = "mailbox" /\ InScope(o)
    /\ o.at = "decode" \/ (o.at = "join" /\ ~\E p \in ops : Recovering(p))
    /\ Becomes(o, [o EXCEPT !.at = "apply", !.rows = Visible(@)])
    /\ UNCHANGED <<backend, inbox, preference, session, store, due, left, progress>>

MailboxApply(o) ==
    /\ At(o, "mailbox", "apply") /\ InScope(o)
    /\ store' = IF Current(o) THEN MailboxEnded(o, Receive(store, o.rows, o.chats)) ELSE store
    /\ ops' = (ops \ {o}) \cup NextMailbox(o) \cup NewChats(store')
    /\ UNCHANGED <<backend, inbox, preference, session, due, left, progress>>

MailboxFails(o) ==
    /\ o.kind = "mailbox" /\ o.at # "recovered" /\ Failing(o)
    /\ Lost(o)
    /\ promised' = IF Current(o) /\ o.at = "sync" /\ ~store.reload THEN 0 ELSE promised
    /\ store' = MailboxEnded(o, store)
    /\ ops' = (ops \ {o}) \cup NextMailbox(o)
    /\ UNCHANGED <<backend, inbox, preference, session, due>>

\* An envelope is delivered to the mailbox; its event gets through, or does not.
Arrive ==
    /\ mail < Len(ChatOf) /\ ChatOf[mail + 1] \in existing /\ Use("arrive")
    /\ mail' = mail + 1
    /\ \/ UNCHANGED ops
       \/ Listening(scope) /\ ops' = ops \cup {[Op("event", "ingest") EXCEPT !.n = mail']}
    /\ UNCHANGED <<existing, sent, read, inbox, preference, session, store, due, progress>>

\* handleIncomingEnvelope: ingest pages the mailbox if there is a gap.
EventIngest(o) ==
    LET rows == IF o.n <= stored THEN {}
                ELSE NewRows(stored + 1, IF o.n = stored + 1 THEN o.n ELSE mail)
    IN /\ At(o, "event", "ingest") /\ InScope(o)
       /\ stored' = stored + Cardinality(rows)
       /\ Committed(o, rows)
       /\ Becomes(o, [o EXCEPT !.at = "filter", !.rows = rows, !.chats = ChatsOf(rows)])
       /\ UNCHANGED <<backend, cached, own, peerRead, preference, session, store, due, left, promised>>

\* onChatActivity, then the rows of the chats that are kept are decoded.
EventFilter(o) ==
    /\ At(o, "event", "filter") /\ InScope(o)
    /\ store' = IF Current(o) THEN Receive(store, {}, o.chats) ELSE store
    /\ ops' = (ops \ {o}) \cup {[o EXCEPT !.at = "apply", !.rows = Visible(@)]} \cup NewChats(store')
    /\ UNCHANGED <<backend, inbox, preference, session, due, left, progress>>

EventApply(o) ==
    /\ At(o, "event", "apply") /\ InScope(o)
    /\ Received(o, store, o.rows, ChatsOf(o.rows))
    /\ UNCHANGED <<backend, inbox, preference, session, due, left, progress>>

EventFails(o) ==
    /\ o.kind = "event" /\ Failing(o)
    /\ Lost(o)
    /\ Ends(o)
    /\ UNCHANGED <<backend, inbox, preference, session, store, due, promised>>

\* The peer reads on; the event about it gets through, or does not.
PeerReads ==
    /\ Use("read")
    /\ read' = read + 1
    /\ \/ UNCHANGED ops
       \/ Listening(scope) /\ ops' = ops \cup {[Op("read", "commit") EXCEPT !.n = read']}
    /\ UNCHANGED <<existing, mail, sent, inbox, preference, session, store, due, progress>>

\* mergeChatReadCursor
ReadCommit(o) ==
    /\ At(o, "read", "commit")
    /\ peerRead' = Max({peerRead, o.n})
    /\ Becomes(o, [o EXCEPT !.at = "publish", !.next = peerRead'])
    /\ UNCHANGED <<backend, cached, stored, own, preference, session, store, due, left, progress>>

ReadPublish(o) ==
    /\ At(o, "read", "publish")
    /\ PublishRead(o, o.next)
    /\ store' = Marked(store, o)
    /\ behind' = (behind \/ ~InScope(o))
    /\ Ends(o)
    /\ UNCHANGED <<backend, inbox, preference, signedIn, scope, run, runs, due, left, promised>>

ReadFails(o) ==
    /\ At(o, "read", "commit") /\ Failing(o)
    /\ Ends(o)
    /\ UNCHANGED <<backend, inbox, preference, session, store, due, progress>>

----------------------------------------------------------------------------
(* Selecting a chat.  Preference operations are executed in their order.     *)

\* selectChat: ops and preference operations that are there are rest and waiting.
Select(b, c, rest, waiting) ==
    LET s == retainHistory([b EXCEPT !.selection = @ + 1, !.selected = c, !.loadingChat = c], c)
    IN /\ store' = HistoryBegun(s, c, FALSE)
       /\ ops' = rest \cup HistoryOps(s, c, FALSE)
       /\ queue' = Append(waiting, [Op("select", "write") EXCEPT !.n = s.selection, !.chat = c,
                                                               !.token = Awaited(s, c)])

SelectChat(c) ==
    /\ run # 0 /\ c \in store.chats /\ Use("select")
    /\ Select(store, c, ops, queue)
    /\ UNCHANGED <<backend, inbox, pref, unsettled, session, due, progress>>

SelectGet(o) ==
    /\ At(o, "select", "get") /\ o.chat \in existing
    /\ store' = IF IsCurrent(o) THEN [store EXCEPT !.selected = o.chat, !.chats = @ \cup {o.chat}] ELSE store
    /\ Goes(o, "history")
    /\ UNCHANGED <<backend, inbox, preference, session, due, left, progress>>

\* Mutant: the preference is kept when the selection is taken back.
DeselectKeeping(o, rest, waiting) ==
    /\ store' = IF IsCurrent(o) THEN [store EXCEPT !.selected = NoChat] ELSE store
    /\ ops' = rest \cup {[o EXCEPT !.at = "history"]}
    /\ queue' = waiting

\* What follows a failure of the write or of getChat: the selection is taken back.
Deselect(o, rest, waiting) ==
    IF IsCurrent(o)
    THEN /\ store' = [store EXCEPT !.selected = NoChat]
         /\ ops' = rest
         /\ queue' = Append(waiting, [o EXCEPT !.at = "clear"])
    ELSE /\ ops' = rest \cup {[o EXCEPT !.at = "history"]}
         /\ queue' = waiting
         /\ UNCHANGED store

SelectGetFails(o) ==
    /\ At(o, "select", "get") /\ Failing(o)
    /\ Deselect(o, ops \ {o}, queue)
    /\ UNCHANGED <<backend, inbox, pref, unsettled, session, due, progress>>

\* The finally block: the history that was asked for is awaited.
SelectHistory(o) ==
    /\ At(o, "select", "history") /\ AwaitedDone(o)
    /\ store' = IF IsCurrent(o) THEN [store EXCEPT !.loadingChat = NoChat] ELSE store
    /\ Ends(o)
    /\ UNCHANGED <<backend, inbox, preference, session, due, left, progress>>

\* Mutant: opening a chat leaves the mark of the selection that it overtakes.
OpenKeepingMark(c) ==
    /\ run # 0 /\ ~store.opening /\ Use("open")
    /\ store' = [store EXCEPT !.selection = @ + 1, !.opening = TRUE]
    /\ ops' = ops \cup {[Op("open", "create") EXCEPT !.n = store.selection + 1, !.chat = c]}
    /\ UNCHANGED <<backend, inbox, preference, session, due, progress>>

OpenDirectChat(c) ==
    /\ run # 0 /\ ~store.opening /\ Use("open")
    /\ store' = [store EXCEPT !.selection = @ + 1, !.opening = TRUE, !.loadingChat = NoChat]
    /\ ops' = ops \cup {[Op("open", "create") EXCEPT !.n = store.selection + 1, !.chat = c]}
    /\ UNCHANGED <<backend, inbox, preference, session, due, progress>>

\* The finally block of openDirectChat.
Opened(o, b) == IF Current(o) THEN [b EXCEPT !.opening = FALSE] ELSE b

\* createDirectChat answers, with the chat that exists or a new one.
OpenCreate(o) ==
    LET listed == [store EXCEPT !.chats = @ \cup {o.chat}]
        chosen == retainHistory([listed EXCEPT !.searchRequest = @ + 1, !.selected = o.chat,
                                               !.searching = FALSE, !.results = 0], o.chat)
    IN /\ At(o, "open", "create")
       /\ existing' = existing \cup {o.chat}
       /\ IF IsCurrent(o)
          THEN /\ store' = HistoryBegun(chosen, o.chat, FALSE)
               /\ ops' = (ops \ {o}) \cup HistoryOps(chosen, o.chat, FALSE)
                    \cup {[o EXCEPT !.at = "history", !.token = Awaited(chosen, o.chat)]}
          ELSE Ends(o) /\ store' = IF Current(o) THEN Opened(o, listed) ELSE store
       /\ UNCHANGED <<mail, sent, read, inbox, preference, session, due, left, progress>>

OpenHistory(o) ==
    /\ At(o, "open", "history") /\ AwaitedDone(o)
    /\ Ends(o)
    /\ IF IsCurrent(o)
       THEN queue' = Append(queue, [o EXCEPT !.at = "write"]) /\ UNCHANGED store
       ELSE store' = Opened(o, store) /\ UNCHANGED queue
    /\ UNCHANGED <<backend, inbox, pref, unsettled, session, due, left, progress>>

OpenFails(o) ==
    /\ At(o, "open", "create") /\ Failing(o)
    /\ Ends(o)
    /\ store' = Opened(o, store)
    /\ UNCHANGED <<backend, inbox, preference, session, due, progress>>

\* findPeople: the results are those of the n-th search.
FindPeople ==
    /\ run # 0 /\ Use("search")
    /\ store' = [store EXCEPT !.searchRequest = @ + 1, !.searching = TRUE]
    /\ ops' = ops \cup {[Op("search", "users") EXCEPT !.n = store.searchRequest + 1]}
    /\ UNCHANGED <<backend, inbox, preference, session, due, progress>>

IsSearch(o) == Current(o) /\ o.n = store.searchRequest

SearchUsers(o) ==
    /\ At(o, "search", "users")
    /\ \/ /\ store' = IF IsSearch(o) THEN [store EXCEPT !.results = o.n, !.searching = FALSE] ELSE store
          /\ UNCHANGED left
       \/ /\ Failing(o)
          /\ store' = IF IsSearch(o) THEN [store EXCEPT !.results = 0, !.searching = FALSE] ELSE store
    /\ Ends(o)
    /\ UNCHANGED <<backend, inbox, preference, session, due, progress>>

----------------------------------------------------------------------------
(* The lifecycle of the store: WebClientProvider, start, dispose *)

\* The session starts the store, and again when its user object changes.
Start ==
    /\ signedIn
    /\ IF run = 0 THEN UNCHANGED left ELSE Use("start")
    /\ run' = runs + 1 /\ runs' = runs + 1
    /\ store' = Empty
    /\ ops' = ops \cup {[Op("start", "metadata") EXCEPT !.run = run']}
    /\ promised' = 0 /\ behind' = FALSE /\ unsettled' = FALSE
    /\ UNCHANGED <<backend, inbox, pref, queue, signedIn, scope, known, due>>

\* SyncManager.deactivate; the effect of the provider runs later.
SignOut ==
    /\ signedIn /\ Use("leave")
    /\ signedIn' = FALSE
    /\ UNCHANGED <<backend, inbox, preference, scope, run, runs, known, store, ops, due, progress>>

Dispose ==
    /\ ~signedIn /\ run # 0
    /\ run' = 0
    /\ store' = Empty
    /\ UNCHANGED <<backend, inbox, preference, signedIn, scope, runs, known, ops, due, left, progress>>

\* SyncManager.activate; the managers find that the scope has changed.
SignIn ==
    /\ ~signedIn /\ run = 0
    /\ signedIn' = TRUE /\ scope' = scope + 1 /\ known' = 0
    /\ UNCHANGED <<backend, inbox, preference, run, runs, store, ops, due, left, progress>>

\* start after restoreLocalState: loadChats and loadMailbox.
Load(o, rest) ==
    IF Current(o)
    THEN /\ store' = MailboxBegun(store)
         /\ ops' = rest \cup MailboxOps(store) \cup {[Op("chats", "list") EXCEPT !.n = store.selection]}
    ELSE ops' = rest /\ UNCHANGED store

\* restoreLocalState: read positions and readMetadata, then the preference if there are chats.
StartMetadata(o) ==
    /\ At(o, "start", "metadata") /\ InScope(o)
    /\ PublishRead(o, peerRead)
    /\ store' = IF ~Current(o) THEN Marked(store, o)
                ELSE [Marked(store, o) EXCEPT !.chats = @ \cup cached, !.discovered = @ \cup cached,
                        !.selected = IF cached = {} /\ store.selection = 0 THEN NoChat ELSE @]
    /\ IF Current(o) /\ cached # {}
       THEN Ends(o) /\ queue' = Append(queue, [o EXCEPT !.at = "restore", !.chats = cached])
       ELSE Goes(o, "load") /\ UNCHANGED queue
    /\ UNCHANGED <<backend, inbox, pref, unsettled, signedIn, scope, run, runs, due, left, progress>>

StartFails(o) ==
    /\ At(o, "start", "metadata") /\ Failing(o)
    /\ Goes(o, "load")
    /\ UNCHANGED <<backend, inbox, preference, session, store, due, progress>>

StartLoad(o) ==
    /\ o.kind = "start"
    /\ o.at = "load" \/ (o.at = "history" /\ AwaitedDone(o))
    /\ Load(o, ops \ {o})
    /\ UNCHANGED <<backend, inbox, preference, session, due, left, progress>>

\* loadChats.  If it ends without restore, for a failure or because a choice has
\* overtaken it, and nothing is selected, then the last chat is not restored.
Forgone(o) == unsettled' = (unsettled \/ (Current(o) /\ store.selected = NoChat))

ChatsList(o) ==
    /\ At(o, "chats", "list")
    /\ store' = IF Current(o) THEN [store EXCEPT !.chats = @ \cup existing, !.loadingChats = FALSE] ELSE store
    /\ IF Current(o) THEN Becomes(o, [o EXCEPT !.at = "cache", !.chats = existing]) ELSE Ends(o)
    /\ UNCHANGED <<backend, inbox, preference, session, due, left, progress>>

ChatsCache(o) ==
    /\ At(o, "chats", "cache") /\ InScope(o)
    /\ cached' = cached \cup o.chats
    /\ Ends(o)
    /\ IF IsCurrent(o)
       THEN queue' = Append(queue, [o EXCEPT !.at = "restore"]) /\ UNCHANGED unsettled
       ELSE Forgone(o) /\ UNCHANGED queue
    /\ UNCHANGED <<backend, stored, own, peerRead, pref, session, store, due, left, progress>>

ChatsFail(o) ==
    /\ o.kind = "chats" /\ Failing(o)
    /\ Ends(o)
    /\ store' = IF Current(o) THEN [store EXCEPT !.loadingChats = FALSE] ELSE store
    /\ Forgone(o)
    /\ UNCHANGED <<backend, inbox, pref, queue, session, due, progress>>

----------------------------------------------------------------------------
(* ChatPreferencesService: the first operation of the queue ends *)

\* restore of a start, and of loadChats, goes on with the chat that it found.
Restored(o, c) ==
    IF o.kind = "start"
    THEN LET chosen == [store EXCEPT !.selected = c]
             r == retainHistory(chosen, c)
         IN /\ queue' = Tail(queue)
            /\ IF ~Current(o) \/ store.selection # 0 \/ c = NoChat
               THEN /\ store' = IF Current(o) /\ store.selection = 0 THEN chosen ELSE store
                    /\ ops' = ops \cup {[o EXCEPT !.at = "load"]}
               ELSE /\ store' = HistoryBegun(r, c, FALSE)
                    /\ ops' = ops \cup HistoryOps(r, c, FALSE)
                         \cup {[o EXCEPT !.at = "history", !.token = Awaited(r, c)]}
    ELSE IF IsCurrent(o) /\ c # NoChat THEN Select(store, c, ops, Tail(queue))
    ELSE queue' = Tail(queue) /\ UNCHANGED <<store, ops>>

GoesOn(o, at) == queue' = Tail(queue) /\ ops' = ops \cup {[o EXCEPT !.at = at]}

\* A chat that is not among the given ones is forgotten.
Restore(o) ==
    /\ o.at = "restore"
    /\ pref' = IF pref \in o.chats THEN pref ELSE NoChat
    /\ Restored(o, pref')
    /\ IF o.kind = "chats" /\ ~IsCurrent(o) THEN Forgone(o) ELSE UNCHANGED unsettled
    /\ UNCHANGED left

\* The last choice is written.
Settling(o) == unsettled' = (unsettled /\ ~IsCurrent(o))

Write(o) ==
    /\ o.at = "write"
    /\ pref' = o.chat
    /\ queue' = Tail(queue)
    /\ Settling(o)
    /\ IF o.kind = "open" THEN store' = Opened(o, store) /\ UNCHANGED ops
       ELSE /\ ops' = ops \cup {[o EXCEPT !.at = IF IsCurrent(o) THEN "get" ELSE "history"]}
            /\ UNCHANGED store
    /\ UNCHANGED left

Clear(o) ==
    /\ o.at = "clear"
    /\ pref' = NoChat
    /\ GoesOn(o, "history")
    /\ Settling(o)
    /\ UNCHANGED <<store, left>>

\* Storage fails.
PreferenceFails(o) ==
    /\ Use("fail")
    /\ unsettled' = TRUE
    /\ UNCHANGED pref
    /\ CASE At(o, "select", "write") -> Deselect(o, ops, Tail(queue))
         [] o.at = "clear" -> GoesOn(o, "history") /\ UNCHANGED store
         [] o.kind = "open" -> queue' = Tail(queue) /\ store' = Opened(o, store) /\ UNCHANGED ops
         [] o.kind = "start" -> GoesOn(o, "load") /\ UNCHANGED store
         [] o.kind = "chats" -> queue' = Tail(queue) /\ UNCHANGED <<ops, store>>

PreferenceStep ==
    /\ queue # <<>>
    /\ LET o == Head(queue) IN Restore(o) \/ Write(o) \/ Clear(o) \/ PreferenceFails(o)
    /\ UNCHANGED <<backend, inbox, session, due, progress>>

----------------------------------------------------------------------------

\* A store that was started with the chats s.cached and has come to rest, with
\* the chat of the preference selected.
Settled(s) ==
    LET rows == Before(s.pref, 0)
        chosen == [retainHistory(Empty, s.pref) EXCEPT !.selection = 1, !.selected = s.pref,
                     !.shown[s.pref] = Page(rows),
                     !.history[s.pref] = [kept |-> TRUE, loading |-> FALSE, loaded |-> TRUE,
                        previous |-> NextBefore(rows) # 0, cursor |-> NextBefore(rows)]]
    IN [(IF s.pref = NoChat THEN Empty ELSE chosen) EXCEPT !.chats = s.existing, !.discovered = s.cached,
           !.loadingChats = FALSE, !.loadingMailbox = FALSE]

StoreInit ==
    \E s \in Scenarios :
        /\ existing = s.existing /\ pref = s.pref
        /\ cached = (IF s.settled THEN s.existing ELSE s.cached)
        /\ mail = s.old /\ stored = s.old /\ left = s.left
        /\ sent = "none" /\ read = 0 /\ peerRead = 0
        /\ own = [chat |-> NoChat, status |-> "none", early |-> FALSE, metadata |-> "none"]
        /\ queue = <<>> /\ signedIn = TRUE /\ scope = 1 /\ known = 0
        /\ run = (IF s.settled THEN 1 ELSE 0) /\ runs = run
        /\ store = (IF s.settled THEN Settled(s) ELSE Empty)
        /\ ops = {} /\ due = NoUpdate
        /\ promised = 0 /\ behind = FALSE /\ unsettled = FALSE

HistoryStep(o) == HistoryRead(o) \/ HistoryApply(o) \/ HistoryFails(o)
DiscoverStep(o) == DiscoverChat(o) \/ DiscoverCache(o) \/ DiscoverFails(o)
SendStep(o) == SendPut(o) \/ SendPending(o) \/ SendCommand(o) \/ SendAccept(o) \/ SendShown(o) \/ SendFails(o)
ReceiptStep(o) == ReceiptCommit(o) \/ ReceiptQueue(o) \/ ReceiptFails(o)
MailboxStep(o) ==
    \/ MailboxSync(o) \/ MailboxPage(o) \/ MailboxMetadata(o) \/ MailboxReads(o) \/ MailboxMerge(o)
    \/ MailboxRecover(o) \/ MailboxJoin(o) \/ MailboxRecovered(o)
    \/ MailboxDecode(o) \/ MailboxApply(o) \/ MailboxFails(o)
EventStep(o) == EventIngest(o) \/ EventFilter(o) \/ EventApply(o) \/ EventFails(o)
ReadStep(o) == ReadCommit(o) \/ ReadPublish(o) \/ ReadFails(o)
SelectStep(o) == SelectGet(o) \/ SelectGetFails(o) \/ SelectHistory(o)
OpenStep(o) == OpenCreate(o) \/ OpenHistory(o) \/ OpenFails(o)
StartStep(o) == StartMetadata(o) \/ StartFails(o) \/ StartLoad(o)
ChatsStep(o) == ChatsList(o) \/ ChatsCache(o) \/ ChatsFail(o)

Lifecycle == Start \/ SignOut \/ Dispose \/ SignIn
Visitor ==
    \/ \E c \in Chats : SelectChat(c) \/ OpenDirectChat(c)
    \/ LoadPreviousMessages \/ FindPeople \/ SendText \/ RetryMessage
Network == Arrive \/ Ready \/ Receipt \/ PeerReads

AtRest == ops = {} /\ queue = <<>>
Rest == AtRest /\ UNCHANGED storeVars

StoreNext ==
    \/ \E o \in ops :
        \/ HistoryStep(o) \/ DiscoverStep(o) \/ SendStep(o) \/ ReceiptStep(o) \/ MailboxStep(o)
        \/ EventStep(o) \/ ReadStep(o) \/ SelectStep(o) \/ OpenStep(o) \/ SearchUsers(o) \/ StartStep(o)
        \/ ChatsStep(o)
    \/ PreferenceStep \/ Lifecycle \/ Visitor \/ Network \/ Rest

StoreSpec == StoreInit /\ [][StoreNext]_storeVars

----------------------------------------------------------------------------
(* Properties *)

\* A store in use all of whose operations have ended.
Settles == AtRest /\ signedIn /\ run # 0

\* Selections, openings and restorations overtake each other while their calls
\* and their writes of the preference are under way.  Whatever their order, once
\* all have ended the chat that will be restored is the selected one, or none;
\* unless the last chat could not be restored and nothing was selected, or the
\* storage failed, and no choice has been written since.
PreferenceFollowsSelection ==
    Settles /\ ~unsettled => pref \in {store.selected, NoChat}

\* When every operation has ended nothing is marked as loading, opening or
\* sending, however operations were overtaken or failed, and the search results
\* are those of the last search.
NothingLeftLoading ==
    Settles =>
        /\ store.loadingChat = NoChat /\ ~store.opening /\ ~store.sending /\ ~store.searching
        /\ ~store.loadingChats /\ ~store.loadingMailbox /\ ~store.loads
        /\ \A c \in Chats : ~store.history[c].loading
        /\ store.results \in {0, store.searchRequest}

\* A load of the mailbox that finds another one under way is left to it.  Still,
\* at rest all that the mailbox had at the last ready event is stored, and what
\* is stored of a chat that is displayed is shown, back to its oldest page,
\* whatever came by page, by event and by history and in which order; and the
\* read marker stands where the stored one does.  Not so if, since the store was
\* started, an operation of an earlier run, or one that failed afterwards, has
\* stored something.
ReadyMailShown ==
    Settles /\ ~behind =>
        /\ promised <= stored
        /\ store.peerRead = peerRead
        /\ \A c \in Chats : store.history[c].loaded =>
              \A r \in Before(c, 0) :
                 r.at >= store.history[c].cursor => \E q \in store.shown[c] : q.at = r.at

\* Rows of one message come pending, accepted and delivered from publications,
\* pages, receipts and the end of the send, in any order.  A chat never shows a
\* message twice, as long as it is kept no row goes or falls back, not even when
\* the stored one does, and a read marker never moves back.
SameMessage(r, q) == r.id = q.id \/ (r.command # NoKey /\ r.command = q.command)

RowsOnlyImprove ==
    [][run' = run => store'.peerRead >= store.peerRead /\ \A c \in Chats :
          /\ \A r, q \in store'.shown[c] : SameMessage(r, q) => r = q
          /\ c \in ToSet(store'.recent) => \A r \in store.shown[c] : \E q \in store'.shown[c] :
                SameMessage(r, q) /\ rank[q.status] >= rank[r.status]]_storeVars

\* What an operation of an ended lifecycle still does changes nothing in the
\* store that has replaced its own, but for messages that OutgoingManager
\* publishes within the session, updates of this session that waited for it, and
\* read positions of this session.
Moved == (ops \ ops') \cup (IF queue # <<>> /\ queue' = Tail(queue) THEN {Head(queue)} ELSE {})

EndedRunsAreMute ==
    [][\A o \in Moved : o.run # run =>
         \/ store' = store
         \/ /\ o.kind \in {"start", "read", "mailbox"} /\ o.scope = scope
            /\ store' = [store EXCEPT !.peerRead = store'.peerRead]
         \/ /\ o.kind \in {"send", "retry", "mailbox"} /\ scope \in {o.scope, due.scope}
            /\ store' = [store EXCEPT !.shown = store'.shown, !.discovered = store'.discovered]]_storeVars
=============================================================================
