# Verification of the end-to-end messenger

TLA+ models of the messenger's backend (FastAPI on PostgreSQL and Redis) and of
its web client (a shared core package, IndexedDB, one WebSocket, an HTTP client),
with TLC runs on small instances and TLAPS proofs for all instances. Every
definition is translated from the source; `PROJECT.json` maps each one to its
lines. Paths below are relative to the repository root.

Run a model with `tlc -config Delivery.cfg MCMessageDelivery`, check the
proofs of a module with `tlapm MessageDeliveryProofs.tla`.

## The system

| Part | State | Operations | Hard behaviour |
| --- | --- | --- | --- |
| `backend/app/messages` | messages, envelopes, mailbox counters | `send`, lookup by client id, mailbox page, ACK, expiry | concurrent sends over shared chats, users and mailboxes; device sets that change meanwhile; clocks read before row locks |
| `backend/app/chats` | chats, members, pairs, read cursors | open a direct chat, advance a read cursor | concurrent creation, cursors against sends |
| `backend/app/auth` | users, devices, sessions, token history | register, login, refresh, logout, revoke a device | rotation races, reuse detection, opposite lock orders |
| `backend/app/realtime` | registry of connections, pending deliveries | handshake, commands, event dispatch | replacement against cleanup and delivery, revocation of idle connections, stalled sockets |
| `client-core/src/messaging` | managers over a durable inbox | synchronise, ingest, send, recover, mark read | reordered, lost, duplicated events, ambiguous sends, crashes between two writes |
| `web/src/shared/platform/durableInbox.ts` | IndexedDB: envelopes, cursor, commands, receipts, read positions | one transaction per operation | tabs that share it, replacement of the identity |
| `web/src/shared/api/webSocketManager.ts` | socket, timers, pending requests | start, stop, reconnect, request | late callbacks, replacement wars between tabs |
| `web/src/shared/api/client.ts`, `client-core/src/auth/sessionStore.ts` | access token, refresh in flight, Web Lock; phase of the page | restore, login, register, sign out, revoke, refresh | late answers, one cookie for all tabs, deadlines |
| `client-core/src/chats`, `messageState.ts`, `messengerService.ts` | chats, rows, histories and read markers on display; the last chat in localStorage | start, dispose, select, open, search, page back, reload, send, retry, receive | continuations of overtaken selections, searches, pages and whole runs of the store; coalesced reloads; rows of one message in any order |
| UI, codec, mappers, configuration, migrations | none that matters here | | |

How they interact: the client sends a command over the WebSocket or HTTP; one
transaction stores the message and one envelope per destination device; after
the commit an event is published through Redis to the process that holds the
device's connection. Events are hints, at most once and in any order: what a
client relies on is the numbered mailbox, which it pages through with a durable
cursor, acknowledging what it has stored. The HTTP client and the WebSocket
share the access token, whose refresh rotates the one cookie of the browser.

What makes the parts correct: numbering without gaps and exactly one stored
message per client id; an envelope for exactly the current devices; payloads
kept until acknowledged or expired; a cursor that never passes what is stored;
commands that are durable before they are sent and never lost or undone; read
markers that are true and do not move back; one chat per pair; a token that is
rotated once, and reuse that ends the session; a revoked device that is cut off;
a page that shows an account exactly while it holds its token; a display that
ends up with what is stored, never goes back, and has nothing left "loading".
`PROJECT.json`
lists the hazards behind these, at their lines, with the properties that cover
them.

## Modules

| Module | Models | Checked by | Proved in |
| --- | --- | --- | --- |
| `MessageDelivery` | `MessageService.send` statement by statement, with login, revocation and `ChatReadService.advance` | `MCMessageDelivery` | `MessageDeliveryProofs` |
| `EnvelopeStore` | ACK, mailbox page, expiry batch and lookup on envelope rows | `MCEnvelopeStore` | `EnvelopeStoreProofs` |
| `AuthSessions` | login, refresh, logout, `revoke_device` as transactions | `MCAuthSessions` | `AuthSessionsProofs` |
| `DirectChats` | opening the chat of a pair | `MCDirectChats` | `ChatProofs` |
| `MailboxCustody` | abstract: who keeps each payload | through `ImplementsCustody` | `MailboxSyncProofs` |
| `MailboxSync` | `SyncManager` on `DurableInbox`, several tabs | `MCMailboxSync` | `MailboxSyncProofs` |
| `OutgoingSend` | `OutgoingManager` on `DurableInbox`, several tabs | `MCOutgoingSend` | `OutgoingSendProofs` |
| `ReadCursors` | `ReadCursorManager` on `DurableInbox` and the server's cursors | `MCReadCursors` | `ChatProofs` |
| `RealtimeConnection` | `WebSocketManager`, the `/ws` endpoint, the registry and the dispatch of events | `MCRealtimeConnection` | `RealtimeConnectionProofs` |
| `ClientSession` | `ApiClient` under `SessionStore`, several tabs sharing one cookie | `MCClientSession` | `ClientSessionProofs` |
| `MessageState` | the merge of display rows (`messageState.ts`), as operators | through `ChatStore` | |
| `ChatStore` | `ChatStore` on `MessengerService` and `ChatPreferencesService`: what a tab shows | `MCChatStore` | `ChatProofs` |

A definition whose comment begins with "Mutant:" is no part of the model. It is
the form a named definition would take with a plausible bug, and stands in for
it to show that a property notices.

### The server as transactions

In `MessageDelivery`, `EnvelopeStore`, `AuthSessions` and `DirectChats` a step is
one SQL statement of a READ COMMITTED transaction, `pc[r]` says which comes next,
and row locks are variables. A statement that waits for a row sees the row as it
is after the wait. Rows written inside a transaction become visible at the
commit, so a flush at the end of a handler and its commit are one step. A
rollback may happen at any statement; it releases the locks. Two transactions
that wait for each other are found by PostgreSQL, which aborts one; this happens
only between `refresh` and `revoke_device` (`DeadlockDetected`), never between
sends (`NoWaitCycle`, the comment at `messages/service.py:135`). Left out: the
key-share locks of foreign keys, deadlocks inside a multi-row UPDATE of envelope
rows, and the status of a user, which no operation changes.

`EnvelopeStore` keeps the clock that a transaction read apart from the clock at
its row lock, since `datetime.now` runs before the statement waits. The identity
map of SQLAlchemy (`expire_on_commit=False`, no `populate_existing`) is the set
of objects that a lookup has loaded before.

### The client on its durable store

`MailboxSync`, `OutgoingSend` and `ReadCursors` take one IndexedDB transaction as
one step: transactions of the tabs are serialised by the browser, everything
between two of them interleaves. The server is a few operations with the
promises that the server modules establish (numbered mailboxes, one message per
client id, monotone cursors). Events are lost, reordered and duplicated; a
request may be handled after its caller has given up. A tab may stop at any
point, keeping only what is durable.

`MailboxSync` implements `MailboxCustody`: the mapping computes for every payload
whether the server, the device, both or nobody keeps it, and the property
`ImplementsCustody` says that no payload goes to "nobody" without having expired
or its mailbox having been given up.

### Connections and sessions

`RealtimeConnection` covers one server process, since replacing a connection is
local to a process (`README.md:161`). Registering a connection closes the one
before in the same step, unless a send that stalls holds the lock of that one.
Sockets that are over are used again, so connections are not bounded in number.

`ClientSession` describes a tab by a record and the code's helpers as operators
on it. The counters `sessionRevision` and `generation` become the flags
`current` and `mine` of a call: all that the code does with a counter is to ask
whether it still is what the call read. A request without a token waits for one
refresh (`renewed`) and is then sent, with the token that there is or without one. The Web Lock is a queue: `queue[c]` is the set of calls
that asked for it before call `c` and still wait or hold it. Continuations
of a settled promise run before any other event of the tab (`Resuming`). The
requests for the user and the devices are one; whether the session's device is
the one in local storage is left open, as is the outcome of local storage. The
fallback for browsers without Web Locks is not modelled.

### What a tab shows

`ChatStore` composes the store with the services below it. An async function of
the store or of `MessengerService` is an operation, a record in `ops` that says
where it waits and what it had read: its run of the store, the number of its
selection or search, the token of its history request, its scope. Each step is
one call, one transaction or one continuation; any operation may be the next to
go on. A continuation does what the code does after the await, including the
`finally` blocks and the calls that they make (a reload that was asked for, the
updates that were held back). Preference operations wait in a queue of their own,
in the order of `enqueue`.

The parts below are kept as small as the store can tell: the mailbox is the
number of envelopes delivered and the number stored, `SyncManager` stores all of
a page at once and may run two operations in any order (its queue runs them in
one), the own message has one row whose status and sent metadata are stored
apart, and the peer has one read position. A send either answers or fails;
ambiguous sends, replaced commands and late acceptances are in `OutgoingSend`.
The position that the visitor has read is in `ReadCursors`. Errors are left out
as texts, not as steps.

Where the code compares the scope directly before it begins a transaction
(`commitPage`, `mergeSentMetadata`, `saveChats`, a recovery), the comparison and
the transaction are one step. Where it compares the scope only afterwards, the
write happens whatever the scope is: `putOutgoing`, `acceptOutgoing`,
`applyDeliveryReceipt` and `mergeChatReadCursor` check the device and the
generation, which a sign-out leaves as they are. There is one own message, so a
second one is not sent while the first may still be stored.

The rows of a chat are a set: the code sorts them after each merge.
`MessageState` has the merge of one row, with the replacement of a pending row by
the accepted one of the same command, and its fold over a batch.

## Runs

| Run | Distinct states | What it checks |
| --- | --- | --- |
| `delivery` | 187 k | Three or four of seven requests: sends over two chats that share a user and his mailboxes, reads, a login and a revocation, any of which may abort. No set of transactions waits in a circle, and nobody waits for a transaction that is over (`NoWaitCycle`); a client message id is stored once (`AcceptedOnce`); chats and mailboxes are numbered without gaps (`ChatPositionsGapless`, `MailboxGapless`); a message is addressed to exactly the devices of the moment of its commit (`DeliveredToCurrentDevices`); a read cursor never moves back (`ReadCursorMonotone`). |
| `envelopes` | 306 k | A repeated ACK, a page, a lookup and the purge job on the same rows, with times read before the row locks: `PayloadKeptUntilDue`, `FirstTimesKept`, and no answer offers an expired payload that is still stored (`AnswersCurrent`). |
| `auth` | 52 k | Two refreshes and a logout with one cookie, a login and a revocation: a token is rotated once and its reuse ends the session (`ReuseRevokes`), `LogoutEnds`, `RevokedDeviceLoggedOut`, and every request is answered (`EveryRequestEnds`). |
| `chats_open` | 42 k | Three concurrent requests to open chats: one chat per pair, with both members or not at all, whoever wins (`SameChat`). |
| `sync_two_tabs` | 1.15 M | Two tabs on one mailbox: the cursor never passes what is not stored (`CursorCoversStored`), nothing stored is lost (`InboxOnlyGrows`), and the abstract specification is implemented (`ImplementsCustody`). |
| `sync_reset` | 690 k | The identity is replaced in the middle of an operation: `NoRowsOfOldGeneration`, `ReceiptIsTrue`, and everything arrives and is acknowledged in the end (`EverythingSettles`). |
| `outgoing` | 638 k | One tab, lost and late answers, crashes, changed devices, early receipts: `StatusIsTrue`, `AcceptanceKept`, `ReceiptNotLost`, `EventuallyAccepted`. |
| `reads` | 481 k | One tab, reads on other devices, lost events, a reload: `MarkersTruthful`, `ReadsReachServer`, `TabsCatchUp`. |
| `connection_traffic` | 2.45 M | One tab that reconnects, commands, events, a stalling client, a revocation: `ServedIsRegistered`, `NothingAfterRevocation`. |
| `connection_tabs` | 319 k | Two tabs that replace each other: `OneAttempt`, `TabsSettle`, `RevokedCutOff`. |
| `session` | 620 k | Tabs that share the cookie: `TokenFollowsPhase`, `NoFalseReuse`, `NoOperationStuck`. |
| `chat_store` | 825 k | A tab in 24 scenarios, see below. Once everything has ended, the chat that will be restored is the selected one or none (`PreferenceFollowsSelection`), nothing is marked as loading and the search results are the last ones (`NothingLeftLoading`), and what the mailbox had at the last ready event is stored and shown (`ReadyMailShown`). At every step rows and read markers only improve and no message is shown twice (`RowsOnlyImprove`), and operations of a run that has been replaced change nothing in the next one, except what the managers publish for the whole session (`EndedRunsAreMute`). That everything does end is the check for deadlock: the only state without a step of an operation is the one at rest. |

All runs pass. Each property also has a mutant in `PROJECT.json`, a form that the
code could take by mistake and that violates it.

### Where the code and what is written about it differ

None of these breaks a property above; they were met while modelling.

- `messages/service.py:55` says that a lookup purges expired payloads first. The
  second query of `lookup` returns the objects that the first one loaded
  (`expire_on_commit=False` in `database.py:14`, no `populate_existing`), and the
  UPDATE between them refreshes only rows it changes itself. If another
  transaction purges or acknowledges the row in between, the answer still has the
  expired payload. `LookupPurgesFirst` says what does hold: such a payload is no
  longer in the store.
- `client-core/README.md:90` says that core never replays ambiguous sends over
  HTTP. After a lookup that finds nothing, `sendAndConfirm` sends again through
  `sendCommand`, which takes HTTP when the socket is not ready. The replay is
  idempotent by the client message id.
- `outgoingManager.ts:231` speaks of a replay "with the exact durable bytes".
  `recoverCommand` rereads the row only for its acceptance and sends the command
  that it read at its start, which another tab may have replaced.
- `client.ts:320-321` says that the Web Lock is never released while its request
  can still rotate credentials. The deadline of the request ends the callback and
  so releases the lock, while the server may not have handled the request yet.
  `NoFalseReuse` therefore allows a revocation for reuse after a lost answer.
- `chatPreferences.ts:25` says that writes and the cleanup of a missing chat are
  kept in selection order. A chat that is opened while the store restores its
  local state can be missing from the chats that `restore` was given; if its
  write comes first, the cleanup clears it although it is selected. The next
  visit then starts without a chat, which is why `PreferenceFollowsSelection`
  allows none.

What else the model of the store showed to be possible. A chat that is opened
while `loadChats` is under way overtakes its restore for good: if the opening then
fails, nothing is selected, no second attempt is made to restore the last chat, and
it stays stored until the next start (`chatStore.ts:212,214`). This was found by the
proof, whose invariant did not survive the step; TLC confirmed it in a scenario that
the run has now. `PreferenceFollowsSelection` therefore leaves out a run in which
`loadChats` ended with nothing selected and without a restore, or in which storage
failed and no later choice has been written: the history variable `unsettled`
records it. The rest does not last: a
reload that fails after `synchronize` has stored rows leaves them out of the
display of a loaded chat until the next start, since the next reload returns only
what is new; a send that a sign-out and the next sign-in overtake still stores its
pending row (`outgoingManager.ts:88`, the scope is compared at `:91`), which
`publishOutgoing` does not show (`messengerService.ts:209`), so that a chat loaded
before then leaves it out until a recovery or the next start (`behind` marks these
states, and those in which a run ended between storing and showing, and
`ReadyMailShown` leaves them out); a delivery update that comes while the page with its row is
being decoded finds no row and is dropped until the next page or reload; a send
of an ended session that is still under way holds back the delivery updates of
the next one; and a page of sent messages that was fetched before a receipt can
take the stored status of the own row back (`durableInbox.ts:431` prefers the
older metadata to the row), while the row on display keeps the better one.

### Bounds

Bounds are constants named in the modules, or a CONSTRAINT of the MC module that
says which combinations TLC explores.

The server runs fix with `Kind` which requests run: enough for two that compete
and a third that sees the result. Two chats that share a user are the smallest
case in which a lock order matters. `delivery` has three sends, two reads, a
login and a revocation; `MayStart` admits three sends over both chats and, in one
chat, any three of the requests or two sends with two reads; two messages are what
it takes for a cursor to move back. Its
`OldTargets` is empty: a target set becomes outdated here when the login or the
revocation commits between the start of a send and its check under the locks. The
proofs have any `OldTargets`. `EnvelopeStore` has two rows of one message, a retention of one and a
clock of two: before the expiry and at it, with every transaction free to read
the clock before and to act after.

`MailboxSync` has two envelopes and pages of one, so that every synchronisation
has more than one page and every gap can occur; two generations where the
identity is replaced. `OutgoingSend` has two device sets, which make "the devices
changed" possible, the code's two rounds, two confirmations instead of three, and
two requests that the server may still handle after they were given up. Two tabs
exceed what TLC explores in minutes; the run has one, and the proofs have any
number. `ReadCursors` has two
positions, so that one is read while the other is being sent, one position of the
peer, and one reload; `MaxPending` of one means that a result is published before
the next transaction of the tab, so results do not overtake each other here.
`RealtimeConnection` uses two sockets, of which one is old; `MaxFrames` of one
makes a send stall at once, and `MaxDeliveries` of one drops the next event.
`ClientSession` starts with a visitor with or without a session and two tabs;
`MaxRotations` of two gives a token that is consumed. `CookieRaces` explores one
tab with up to three calls under way, and two tabs, or a tab and a request that
was given up, with what concerns the cookie and the lock.

`ChatStore` is explored from 24 scenarios (`MCChatStore`). Each fixes what the
browser starts with and how many inputs and failures of each kind may come
(`left`); they may come at any time, between any two steps of the operations that
are under way. `Selecting` has up to three selections and openings with failures,
in a store at rest and in one that starts; `Receiving` evictions (two histories
are kept instead of three, and pages have one row instead of fifty, so that both
limits are met), older pages, gaps, coalesced reloads and read positions;
`Sending` the own message with its receipt among reloads, selections, a restart
and a sign-out; `Restarting` restarts and sign-outs in the middle of everything.
All at once is beyond TLC; each pair of inputs that share state meets in one of
them.

Symmetry is used only in runs without liveness, over tabs, sockets or requests
whose identity no definition uses. A CONSTRAINT is used only there too.

### Fairness

- `auth`: strong fairness of each request's steps, since PostgreSQL queues the
  transactions that wait for a row and each is handled once; and of two that wait
  for each other one is aborted (`DeadlockDetected`, PostgreSQL's own detector).
- `sync_reset`, `outgoing`, `reads`: a synchronisation or a recovery starts again
  and again, and one that has started goes on or fails. The client starts one at
  every ready connection. There is no periodic timer, but no connection lasts for
  ever, since the server closes one with 4401 once its access token has expired
  (`realtime/router.py:96-98`). The properties are about behaviours in which the
  faults (failures, lost answers, changes of the device set) cease; the code can
  promise nothing else.
- `connection_tabs`: timers fire, browser callbacks run, the endpoint of a socket
  goes on and looks at an idle connection every 30 seconds. `TabsSettle` excludes
  that a stalled client is replaced late for ever.

The other runs assume nothing. That operations of a tab end is stated there as
safety: whatever is shown as under way has a call that owns it
(`NoOperationStuck`), and each call has a deadline.

## Proofs

Each theorem holds for any sets of users, devices, requests, tabs, sockets and
rows, any page size and any bound, that satisfy the assumptions stated in the
module (`ConstantsAssumption`, `StoreAssumption`, ...), which TLC evaluates in
every run. Each rests on an inductive invariant `IInv`, which adds to the
properties what an operation that is under way has read and still relies on, and
which TLC checked on the instances of the runs. None of the properties is
inductive alone: every handler of this system acts on what it read statements,
awaits or messages ago. A proof has two halves: the actor that moves
re-establishes its own part, and a frame lemma says under which conditions on a
step the others keep theirs.

| Module | Theorem | States | For |
| --- | --- | --- | --- |
| `MessageDeliveryProofs` | `ChatNumbering`, `MailboxNumbering`, `Idempotence`, `DeadlockFree`, `CurrentDevices`, `CursorsAdvance`, `ConstraintsKept`, `CursorsExist` | `ChatPositionsGapless`, `MailboxGapless`, `AcceptedOnce`, `NoWaitCycle`, `DeliveredToCurrentDevices`, `ReadCursorMonotone`, `NoIntegrityError`, `ReadCursorOnMessage` | any requests, chats, users, devices |
| `EnvelopeStoreProofs` | `PayloadKept`, `FirstTimes`, `AnswersAreCurrent`, `PagesHideExpired`, `LookupsPurgeFirst` | `PayloadKeptUntilDue`, `FirstTimesKept`, `AnswersCurrent`, `PageHidesExpired`, `LookupPurgesFirst` | any rows, requests, times |
| `AuthSessionsProofs` | `ReuseEndsSession`, `LogoutEndsSession`, `RevocationLogsOut`, `RevokedNeverRefreshed` | `ReuseRevokes`, `LogoutEnds`, `RevokedDeviceLoggedOut`, `EndedForGood` | any requests, devices, sessions |
| `MailboxSyncProofs` | `CursorHasNoGaps`, `OldGenerationIsSilent`, `ReceiptsAreTrue`, `InboxGrows`, `RefinesCustody` | `CursorCoversStored`, `NoRowsOfOldGeneration`, `ReceiptIsTrue`, `InboxOnlyGrows`, `ImplementsCustody` | any tabs, envelopes, generations, page size |
| `OutgoingSendProofs` | `StatusTrue`, `ReceiptsKept`, `AcceptanceStays` | `StatusIsTrue`, `ReceiptNotLost`, `AcceptanceKept` | any tabs, device sets, rounds, requests under way |
| `ChatProofs` | `MarkersAreTrue`, `PositionsNeverBack` | `MarkersTruthful`, `NeverBack` | any tabs, positions, reloads |
| `ChatProofs` | `SameChatSafe` | `SameChat` | any users and requests |
| `ChatProofs` | `NothingKeepsLoading`, `RestoresTheSelected`, `LateResultsMute` | `NothingLeftLoading`, `PreferenceFollowsSelection`, `EndedRunsAreMute` | any chats, inputs, failures, operations under way |
| `ClientSessionProofs` | `TokenFollows`, `LockPreventsReuse`, `NothingStuck` | `TokenFollowsPhase`, `NoFalseReuse`, `NoOperationStuck` | any tabs, sessions, rotations, requests that were given up |
| `RealtimeConnectionProofs` | `OneAttemptEach`, `ServedStaysRegistered`, `RevocationCuts` | `OneAttempt`, `ServedIsRegistered`, `NothingAfterRevocation` | any tabs, sockets, queue lengths |

Every module also has `TypeCorrect` (`Spec => []TypeOK`), `ChatProofs` for
`ReadCursors`; the shapes of the records of `DirectChats` and `ChatStore` are parts
of their invariants. `ChatProofs` holds the proofs of three specifications, all about
chats, which is why those of `DirectChats` and `ChatStore` are named `ChatsSpec` and
`StoreSpec`.

**Message delivery.** A send commits from what it read several statements before.
`RequestInv` says what a request may rely on at each statement: it holds the lock
of its chat and the position it read is still the chat's (`ChatView`), the
counters of the mailboxes it has locked are still theirs (`BoxView`), it shares
the rows of both users and so the devices that it checked are still the devices
(`UsersHeld`, `CheckedTargets`), and what a login read of its device is still so
(`DeviceView`). For the other requests, `OthersKept` says that a step that leaves
their locks and the rows behind these alone keeps what they rely on, and one
lemma per commit (`SendKeepsRows`, `ReadKeepsRows`, `LoginKeepsRows`,
`RevokeKeepsRows`) shows that the rows a commit writes are behind locks of its
own. The properties of the stored rows then follow at the one action that inserts.

`DeadlockFree` has an invariant of its own, `OrderInv`: where a request can be
that holds a lock of each kind, and that the mailboxes it has still to lock come
after those it holds. Given transactions that wait, one of them waits for none of
the others (`SomebodyGoesOn`): one that asks to share a user, since whoever holds
a user exclusively waits for nothing; else the one that asks for the last mailbox
(`LargestDevice`: a finite set of ids has a largest one, from the
well-foundedness of the subsets of a finite set); else one that asks for a user
exclusively; else any, since all ask for chats whose holders do not.

**Envelope rows.** The heart is `NextRows`: whatever happens, a row is stored,
acknowledged or purged at a time that was read before (`TimesRead`), or left
alone. The page property needs the row locks that the page's own purge holds
until it has read (`PageInv`); the lookup property that a row which was loaded
keeps its expiry, and that a payload which is gone stays away (`LookupInv`).

**Sessions.** A token belongs to one session for ever, as its current token or in
its history, and a current token was not used (`TokenOwner`); this is what makes
"the session of this token" mean something after any number of rotations. A
refresh holds the lock of the session it has read until it commits, a login and a
revocation the lock of the user (`Guarded`). `Answered` carries what an answer
said to later states; it stays true since history only grows and a session that
has ended stays so (`EndedForGood`).

**Direct chats.** A chat, its two members and its pair appear in one commit
(`RowsTogether`), the pair's primary key lets one of the racing requests through
(`OnePair`, `Exclusive`), and a request that has found a chat keeps it (`Found`).
The two users of a request are compared as an ordered pair (`PairUnordered`), so
that it does not matter who asks.

**Mailbox synchronisation.** `Custodians` relates server and inbox: what the
server has marked as delivered is in the inbox of the stored identity. `JobFits`
says what an operation of a tab has read: pages and rows that the server did
store, a page that continues the cursor, an acknowledgement that was given. What
it read of the inbox counts only while its identity is the stored one, which every
transaction checks; this is why an operation may sleep through a replacement.
`RefinesCustody` follows: `CustodyStep` maps every step to a step of
`MailboxCustody` or a stutter, a replacement to giving up the old mailbox
(`ResetMoves`), all others to moves of single payloads (`SameIdentityMoves`).

**Outgoing messages.** The server forgets neither a message nor a receipt
(`Grows`), so that whatever an operation, an event or a page has learnt stays true
however late it is used (`JobFits`, `Carried`). `ReceiptKept` says where a receipt
is once it was applied: with the early ones until the row is accepted, then in the
row. `AcceptanceStays` holds although a send may write a new command over the row,
because that transaction reads the row first. The proof has any number of tabs,
of which the run explores one.

**Read positions.** Everything is behind what it was copied from: answers, events
and pages behind the server, the store behind the server, tabs and unpublished
results behind the store. Each merge takes a maximum (`JoinFacts`, `MergedFacts`,
`AdvancedFacts`), so results may be published in any order.

**Connections.** Of a manager: a call that was not superseded, a socket or a timer,
and one of them exactly while it is started (`Attempt`). Of an endpoint: from its
registration on it is in the registry or was ousted by its successor
(`Registered`), which the cleanup of an old connection respects because it compares
the connection before it removes it. Of the session: messages and events are
stamped with whether they come from before or after the revocation, and none of
those from after is past a check of the session (`Stamped`).

**Client session.** Of one tab (`TabSound`): an active page runs one operation of
the store at a time, what it shows and that operation determine each other
(`OperationShown`, `PageMoves`), and the access token follows both (`TokenSound`). A
late answer is harmless because the flags of its call say that it is no longer
`current` or `mine`; the one refresh whose refusal would not reach the store is one
that restores, and then nothing has signed in since. Of the tabs together: the lock is
a line whose head alone has sent its request (`LockSound`), and a refresh that starts
while its tab signs out stands behind the sign-out (`SignOutFirst`); without the
latter a refresh could bring back a token that the sign-out has removed. Of the cookie
(`WireSound`): a token that was sent is the last one of its session, or the session is
over or had an answer lost; the cookie is, too, unless the answer that replaces it is
on its way (`Rotating`), and the call with that answer is at the head of the line, so
that nobody else can present the cookie meanwhile. A request that was given up and is
handled late is of a session that counts as lost. `NoFalseReuse` follows where the
server compares.

**The store of a tab.** `StoreIInv` has three parts besides the shapes. `MarksOwned`:
each mark of the store (opening, sending, searching, loading chats, mailbox, a page of
history, a selection) has an operation of the same run, in `ops` or in the queue of
preferences, that will take it off; a coalesced reload is owned by the load that is
under way. `NothingLeftLoading` is this at rest, where there are no operations.
`ChoicesSound`: of the selections and openings of the run the one with the last number
is alone with it, the chat it has applied is the selected one, and no two open a chat;
so a choice that finds itself current is the only one that may change the selection.
`PreferenceSound` says how the stored chat will come to follow: operations of this run
wait behind those of earlier ones (`InOrder`), and either the last write in the queue,
or the stored chat if there is none, fits the selection (`Fits`), or the write of an
opening is still to come (`WillWrite`), or nothing is selected, this run has written
nothing and a restoration is still to come (`Restoring`), or the run is exempt. The
alternatives are needed because the selection is shown before it is written, an opening
even before its write is queued. Writes of an ended run may still be in the queue when
a run starts: they come first, so that the restoration reads after them.
`LateResultsMute` goes through the steps: each takes only its own operation away
(`StepsMove`) and, if that is of an ended run, leaves the store alone or changes what
its session publishes (`StepsMute`, `PreferenceMute`).

Left to TLC:

- liveness and `ENABLED`, which the prover does not treat: `EveryRequestEnds`,
  `EverythingSettles`, `EventuallyAccepted`, `ReadsReachServer`, `TabsCatchUp`,
  `RevokedCutOff`, `TabsSettle`;
- `RowsOnlyImprove` and `ReadyMailShown` of `ChatStore`: both are about the result of
  merging a batch of rows, a fold over a set, which needs an induction over data.

## Not modelled

- `DeviceIdentityService`: a queue in front of one compare-and-set. What its
  result does to the store is in `MailboxSync`, when it is called in
  `ClientSession`.
- Tabs that write the last chat to the same localStorage: the last one wins.
- Codec, mappers, schemas, passwords and signatures: payloads and tokens are
  opaque values.
- User interface, storage adapters, configuration, migrations, containers.
- Several server processes: events reach the process with the connection through
  Redis, but connections in two processes do not replace each other.
- Registration on the server (one INSERT), and the list of devices as data.

## Plan

1. Server: `MessageDelivery`, `EnvelopeStore`, `AuthSessions`, `DirectChats`
   (modelled and proved).
2. Client: `MailboxSync` with its abstract specification, `OutgoingSend`,
   `ReadCursors`, `RealtimeConnection`, `ClientSession` (modelled and proved);
   `ChatStore` with `MessageState` (modelled, proved but for the merge of rows).
3. To model next: `DeviceIdentityService`, and the data of requests in
   `ClientSession` (for whom a late answer of an ended session was).
