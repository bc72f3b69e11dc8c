--------------------------- MODULE MessageDelivery ---------------------------
(***************************************************************************)
(* The delivery transaction of the backend (MessageService.send) and the   *)
(* transactions it shares row locks with: login and revoke_device, which   *)
(* change a user's device set, and ChatReadService.advance, which moves a  *)
(* user's read cursor in a chat.                                           *)
(*                                                                         *)
(* A request is one HTTP call or WebSocket command.  It runs one database  *)
(* transaction at PostgreSQL's READ COMMITTED level: every statement sees  *)
(* the rows committed when it starts, a locking statement waits for the    *)
(* row lock and reads the row after the wait, all locks are released at    *)
(* the end of the transaction.  A step of the model is one such statement, *)
(* together with the reads and checks that follow it under the same locks. *)
(* What a request read earlier and uses later is kept in view.             *)
(*                                                                         *)
(* Identifiers of users and devices are integers, since the code orders    *)
(* lock requests by id.int.                                                *)
(***************************************************************************)
EXTENDS Naturals, FiniteSets

CONSTANTS
    Requests,       \* the requests, each handled at most once
    Kind,           \* Kind[r]: "send", "login", "revoke" or "read"
    Users,          \* user ids
    Devices,        \* device ids, registered or not
    Chats,          \* direct chats
    Members,        \* Members[c]: the two users of chat c
    ClientIds,      \* client message ids
    InitialOwner,   \* InitialOwner[d]: the user d is registered for, or NoUser
    OldTargets,     \* stale target sets that a client may still name
    MaxPosition,    \* bound on the read positions that clients report
    NoUser,         \* marks a device id that is not registered
    Free            \* marks a row lock that nobody holds

ASSUME ConstantsAssumption ==
    /\ Users \subseteq Nat
    /\ Devices \subseteq Nat
    /\ IsFiniteSet(Users)
    /\ IsFiniteSet(Devices)
    /\ NoUser \notin Users
    /\ Free \notin Requests
    /\ Users # {} /\ Devices # {} /\ Chats # {} /\ ClientIds # {}
    /\ Kind \in [Requests -> {"send", "login", "revoke", "read"}]
    /\ Members \in [Chats -> SUBSET Users]
    /\ \A c \in Chats : Cardinality(Members[c]) = 2
    /\ InitialOwner \in [Devices -> Users \cup {NoUser}]
    /\ OldTargets \subseteq SUBSET Devices
    /\ MaxPosition \in Nat

VARIABLES
    owner,      \* devices.user_id, NoUser when there is no such row
    revoked,    \* the devices whose revoked_at is set
    chatSeq,    \* chats.last_message_seq
    boxSeq,     \* device_mailboxes.last_seq
    messages,   \* the rows of messages
    envelopes,  \* the rows of message_envelopes, without the payload
    readSeq,    \* chat_read_states.last_read_seq, 0 when there is no row
    chatLock,   \* chatLock[c]: the request that holds chat c FOR UPDATE
    shareLock,  \* shareLock[u]: the requests that hold user u FOR SHARE
    userLock,   \* userLock[u]: the request that holds user u FOR UPDATE
    boxLock,    \* boxLock[d]: the request that holds d's mailbox FOR UPDATE
    pc,         \* pc[r]: the statement that request r executes next
    req,        \* req[r]: what request r asks for
    view,       \* view[r]: what request r has read and not yet used
    result      \* result[r]: the answer to request r

store == <<owner, revoked, chatSeq, boxSeq, messages, envelopes, readSeq>>
locks == <<chatLock, shareLock, userLock, boxLock>>
vars == <<store, locks, pc, req, view, result>>

Key == Devices \X ClientIds
Message == [key : Key, chat : Chats, seq : Nat]
Envelope == [key : Key, dev : Devices, seq : Nat]
Request == [user : Users, dev : Devices, cid : ClientIds, chat : Chats,
            targets : SUBSET Devices, position : Nat]
View == [chatSeq : Nat, readSeq : Nat, boxSeq : [Devices -> Nat],
         owner : Users \cup {NoUser}]
Rejections == {"chat_not_found", "invalid_envelope", "delivery_targets_changed",
               "invalid_read_position", "device_conflict", "device_revoked",
               "device_not_found", "rolled_back", "integrity_error"}
Answer == [status : {"none", "accepted", "done"} \cup Rejections,
           message : SUBSET Message]

PCs == {"start", "chat", "users", "targets", "boxes", "commit",
        "read_commit", "user", "device", "device_commit", "end"}

\* What req holds before a request has started, and in the fields that a kind
\* of request does not have: never read.
Unstarted == [user |-> CHOOSE u \in Users : TRUE, dev |-> CHOOSE d \in Devices : TRUE,
              cid |-> CHOOSE i \in ClientIds : TRUE, chat |-> CHOOSE c \in Chats : TRUE,
              targets |-> {}, position |-> 0]

NoView == [chatSeq |-> 0, readSeq |-> 0, boxSeq |-> [d \in Devices |-> 0],
           owner |-> NoUser]
Ended(status) == [status |-> status, message |-> {}]
Accepted(m) == [status |-> "accepted", message |-> {m}]

----------------------------------------------------------------------------
(* Queries *)

\* MessageRepository.get_active_devices: nothing in the code changes a user's
\* status, so an active device is one that is registered and not revoked.
ActiveDevices(u) == {d \in Devices : owner[d] = u /\ d \notin revoked}

\* MessageService.destination_devices and _recipient_devices.
RecipientDevices(d, c) == (UNION {ActiveDevices(u) : u \in Members[c]}) \ {d}

\* ChatRepository.get_other_user_id, for the user of a request.
Peer(c, u) == Members[c] \ {u}

\* Mutant: the lookup forgets the sending device.
ByClientIdOfAnyDevice(d, cid) == {m \in messages : m.key[2] = cid}

\* MessageRepository.get_message_by_client_id.
ByClientId(d, cid) == {m \in messages : m.key = <<d, cid>>}

\* MessageRepository.chat_position_exists.
PositionExists(c, n) == \E m \in messages : m.chat = c /\ m.seq = n

\* authenticate_access_token accepts the token of a device that is registered
\* and not revoked (the session rows are modelled by AuthSessions).
Authenticated(d) == owner[d] # NoUser /\ d \notin revoked

(* The end of a transaction, by commit or by rollback, releases its locks. *)
Release(r) ==
    /\ chatLock' = [c \in Chats |-> IF chatLock[c] = r THEN Free ELSE chatLock[c]]
    /\ shareLock' = [u \in Users |-> shareLock[u] \ {r}]
    /\ userLock' = [u \in Users |-> IF userLock[u] = r THEN Free ELSE userLock[u]]
    /\ boxLock' = [d \in Devices |-> IF boxLock[d] = r THEN Free ELSE boxLock[d]]

Finish(r, answer) ==
    /\ Release(r)
    /\ pc' = [pc EXCEPT ![r] = "end"]
    /\ view' = [view EXCEPT ![r] = NoView]
    /\ result' = [result EXCEPT ![r] = answer]
    /\ UNCHANGED req

Goto(r, label) == pc' = [pc EXCEPT ![r] = label]

\* A request that holds no lock is answered.
End(r, answer) == Goto(r, "end") /\ result' = [result EXCEPT ![r] = answer]

----------------------------------------------------------------------------
(* MessageService.send *)

\* The request is authenticated, looks up its client message id and answers at
\* once when the message exists; then membership and the envelopes are checked.
\* The client names the devices it has just fetched or an older set.
SendStart(r) ==
    /\ Kind[r] = "send"
    /\ pc[r] = "start"
    /\ \E d \in Devices, cid \in ClientIds, c \in Chats :
       \E targets \in {RecipientDevices(d, c)} \cup OldTargets :
        /\ Authenticated(d)
        /\ req' = [req EXCEPT ![r] = [user |-> owner[d], dev |-> d, cid |-> cid,
                                      chat |-> c, targets |-> targets,
                                      position |-> 0]]
        /\ \/ /\ ByClientId(d, cid) # {}
              /\ End(r, [status |-> "accepted", message |-> ByClientId(d, cid)])
           \/ /\ ByClientId(d, cid) = {}
              /\ owner[d] \notin Members[c]
              /\ End(r, Ended("chat_not_found"))
           \/ /\ ByClientId(d, cid) = {}
              /\ owner[d] \in Members[c]
              /\ \/ End(r, Ended("invalid_envelope"))
                 \/ Goto(r, "chat") /\ UNCHANGED result
    /\ UNCHANGED <<store, locks, view>>

\* ChatRepository.lock_chat, and the second lookup under the chat's lock.
SendLockChat(r) ==
    LET c == req[r].chat
        existing == ByClientId(req[r].dev, req[r].cid)
    IN /\ Kind[r] = "send"
       /\ pc[r] = "chat"
       /\ chatLock[c] = Free
       /\ \/ /\ existing = {}
             /\ chatLock' = [chatLock EXCEPT ![c] = r]
             /\ view' = [view EXCEPT ![r].chatSeq = chatSeq[c]]
             /\ Goto(r, "users")
             /\ UNCHANGED <<store, shareLock, userLock, boxLock, req, result>>
          \/ /\ existing # {}
             /\ Finish(r, [status |-> "accepted", message |-> existing])
             /\ UNCHANGED store

\* Mutant: the mailboxes are locked in any order.
AnyBox(r) == {d \in req[r].targets : boxLock[d] # r}

\* The users that r has still to lock FOR SHARE, and the mailboxes FOR UPDATE;
\* each kind is taken in the order of the ids.
UsersToLock(r) == {u \in Members[req[r].chat] : r \notin shareLock[u]}
NextUser(r) == {u \in UsersToLock(r) : \A v \in UsersToLock(r) : u <= v}
BoxesToLock(r) == {d \in req[r].targets : boxLock[d] # r}
NextBox(r) == {d \in BoxesToLock(r) : \A e \in BoxesToLock(r) : d <= e}

\* Mutant: the users are not locked.
SendSkipUsers(r) ==
    /\ Kind[r] = "send"
    /\ pc[r] = "users"
    /\ Goto(r, "targets")
    /\ UNCHANGED <<store, locks, req, view, result>>

\* MessageRepository.lock_device_set.
SendLockUser(r) ==
    /\ Kind[r] = "send"
    /\ pc[r] = "users"
    /\ \E u \in NextUser(r) :
        /\ userLock[u] = Free
        /\ shareLock' = [shareLock EXCEPT ![u] = @ \cup {r}]
        /\ Goto(r, IF UsersToLock(r) = {u} THEN "targets" ELSE "users")
    /\ UNCHANGED <<store, chatLock, userLock, boxLock, req, view, result>>

\* The checks of _lock_destination_mailboxes on the locked device sets.
TargetsCurrent(r) ==
    LET c == req[r].chat
        own == ActiveDevices(req[r].user)
    IN /\ UNION {ActiveDevices(u) : u \in Peer(c, req[r].user)} # {}
       /\ req[r].dev \in own
       /\ req[r].targets = RecipientDevices(req[r].dev, c)

SendCheckTargets(r) ==
    /\ Kind[r] = "send"
    /\ pc[r] = "targets"
    /\ \/ /\ TargetsCurrent(r)
          /\ Goto(r, "boxes")
          /\ UNCHANGED <<locks, req, view, result>>
       \/ /\ ~TargetsCurrent(r)
          /\ Finish(r, Ended("delivery_targets_changed"))
    /\ UNCHANGED store

\* MessageRepository.lock_mailboxes: the lock of a row and the read of its
\* last_seq are one step.
SendLockBox(r) ==
    /\ Kind[r] = "send"
    /\ pc[r] = "boxes"
    /\ \E d \in NextBox(r) :
        /\ boxLock[d] = Free
        /\ boxLock' = [boxLock EXCEPT ![d] = r]
        /\ view' = [view EXCEPT ![r].boxSeq[d] = boxSeq[d]]
        /\ Goto(r, IF BoxesToLock(r) = {d} THEN "commit" ELSE "boxes")
    /\ UNCHANGED <<store, chatLock, shareLock, userLock, req, result>>

\* The rows that the transaction inserts: the message, and _create_envelopes.
NewMessage(r) ==
    [key |-> <<req[r].dev, req[r].cid>>, chat |-> req[r].chat,
     seq |-> view[r].chatSeq + 1]
NewEnvelopes(r) ==
    {[key |-> <<req[r].dev, req[r].cid>>, dev |-> d,
      seq |-> view[r].boxSeq[d] + 1] : d \in req[r].targets}

\* The unique constraints of messages and message_envelopes other than the one
\* on the client message id.
RowsUnique(r) ==
    /\ ~PositionExists(req[r].chat, view[r].chatSeq + 1)
    /\ \A e \in envelopes, n \in NewEnvelopes(r) :
           e.dev = n.dev => e.seq # n.seq /\ e.key # n.key

\* Mutant: the mailbox of the sending device is counted up as well.
SendCommitCountingSender(r) ==
    /\ Kind[r] = "send"
    /\ pc[r] = "commit"
    /\ ByClientId(req[r].dev, req[r].cid) = {}
    /\ chatSeq' = [chatSeq EXCEPT ![req[r].chat] = @ + 1]
    /\ boxSeq' = [d \in Devices |-> IF d \in req[r].targets \cup {req[r].dev}
                                    THEN boxSeq[d] + 1 ELSE boxSeq[d]]
    /\ messages' = messages \cup {NewMessage(r)}
    /\ envelopes' = envelopes \cup NewEnvelopes(r)
    /\ Finish(r, Accepted(NewMessage(r)))
    /\ UNCHANGED <<owner, revoked, readSeq>>

\* Flush and commit.  An IntegrityError rolls back and answers with the message
\* that has the client message id, if there is one.
SendCommit(r) ==
    LET winning == ByClientId(req[r].dev, req[r].cid)
    IN /\ Kind[r] = "send"
       /\ pc[r] = "commit"
       /\ IF winning = {} /\ RowsUnique(r)
          THEN /\ chatSeq' = [chatSeq EXCEPT ![req[r].chat] = view[r].chatSeq + 1]
               /\ boxSeq' = [d \in Devices |->
                                IF d \in req[r].targets
                                THEN view[r].boxSeq[d] + 1 ELSE boxSeq[d]]
               /\ messages' = messages \cup {NewMessage(r)}
               /\ envelopes' = envelopes \cup NewEnvelopes(r)
               /\ Finish(r, Accepted(NewMessage(r)))
               /\ UNCHANGED <<owner, revoked, readSeq>>
          ELSE /\ Finish(r, IF winning = {} THEN Ended("integrity_error")
                            ELSE [status |-> "accepted", message |-> winning])
               /\ UNCHANGED store

----------------------------------------------------------------------------
(* ChatReadService.advance *)

ReadStart(r) ==
    /\ Kind[r] = "read"
    /\ pc[r] = "start"
    /\ \E d \in Devices, c \in Chats, n \in 0..MaxPosition :
        /\ Authenticated(d)
        /\ req' = [req EXCEPT ![r] = [Unstarted EXCEPT !.user = owner[d], !.dev = d,
                                                       !.chat = c, !.position = n]]
        /\ \/ owner[d] \in Members[c] /\ Goto(r, "chat") /\ UNCHANGED result
           \/ owner[d] \notin Members[c] /\ End(r, Ended("chat_not_found"))
    /\ UNCHANGED <<store, locks, view>>

\* Mutant: the cursor is read before the chat is locked.
ReadCursorFirst(r) ==
    LET c == req[r].chat
    IN /\ Kind[r] = "read"
       /\ pc[r] = "chat"
       /\ req[r].position <= chatSeq[c]
       /\ view' = [view EXCEPT ![r].readSeq = readSeq[c][req[r].user]]
       /\ Goto(r, "read_commit")
       /\ UNCHANGED <<store, locks, req, result>>

\* The chat's lock, the checks of the position, and the read of the cursor.
ReadLockChat(r) ==
    LET c == req[r].chat
        n == req[r].position
        valid == n <= chatSeq[c] /\ (n # 0 => PositionExists(c, n))
    IN /\ Kind[r] = "read"
       /\ pc[r] = "chat"
       /\ chatLock[c] = Free
       /\ \/ /\ valid
             /\ chatLock' = [chatLock EXCEPT ![c] = r]
             /\ view' = [view EXCEPT ![r].readSeq = readSeq[c][req[r].user]]
             /\ Goto(r, "read_commit")
             /\ UNCHANGED <<shareLock, userLock, boxLock, req, result>>
          \/ /\ ~valid
             /\ Finish(r, Ended("invalid_read_position"))
       /\ UNCHANGED store

\* The cursor is written only when the position is larger than the one read.
ReadCommit(r) ==
    LET c == req[r].chat
        changed == req[r].position > view[r].readSeq
    IN /\ Kind[r] = "read"
       /\ pc[r] = "read_commit"
       /\ readSeq' = IF changed
                     THEN [readSeq EXCEPT ![c][req[r].user] = req[r].position]
                     ELSE readSeq
       /\ Finish(r, Ended("done"))
       /\ UNCHANGED <<owner, revoked, chatSeq, boxSeq, messages, envelopes>>

----------------------------------------------------------------------------
(* AuthService.login and AuthService.revoke_device, on the device set *)

\* Login names any device id; a revocation is asked for by a device of the user.
DeviceStart(r) ==
    /\ Kind[r] \in {"login", "revoke"}
    /\ pc[r] = "start"
    /\ \E u \in Users, d \in Devices :
        /\ Kind[r] = "revoke" => \E asking \in Devices :
                                    owner[asking] = u /\ Authenticated(asking)
        /\ req' = [req EXCEPT ![r] = [Unstarted EXCEPT !.user = u, !.dev = d]]
    /\ Goto(r, "user")
    /\ UNCHANGED <<store, locks, view, result>>

\* The user's row FOR UPDATE: waits for every delivery that shares it.
DeviceLockUser(r) ==
    LET u == req[r].user
    IN /\ pc[r] = "user"
       /\ shareLock[u] = {}
       /\ userLock[u] = Free
       /\ userLock' = [userLock EXCEPT ![u] = r]
       /\ Goto(r, "device")
       /\ UNCHANGED <<store, chatLock, shareLock, boxLock, req, view, result>>

\* The device's row is read under the user's lock.
DeviceRead(r) ==
    LET u == req[r].user
        d == req[r].dev
    IN /\ pc[r] = "device"
       /\ LET status == CASE Kind[r] = "login" /\ owner[d] \notin {u, NoUser}
                               -> "device_conflict"
                          [] Kind[r] = "login" /\ d \in revoked -> "device_revoked"
                          [] Kind[r] = "revoke" /\ owner[d] # u -> "device_not_found"
                          [] Kind[r] = "revoke" /\ d \in revoked -> "done"
                          [] OTHER -> "none"
          IN \/ /\ status = "none"
                /\ view' = [view EXCEPT ![r].owner = owner[d]]
                /\ Goto(r, "device_commit")
                /\ UNCHANGED <<locks, req, result>>
             \/ /\ status # "none"
                /\ Finish(r, Ended(status))
       /\ UNCHANGED store

\* Login inserts the device with an empty mailbox unless the row was there; the
\* primary key rejects an id that another user has registered meanwhile.
LoginCommit(r) ==
    LET d == req[r].dev
        inserts == view[r].owner = NoUser
    IN /\ Kind[r] = "login"
       /\ pc[r] = "device_commit"
       /\ IF inserts /\ owner[d] # NoUser
          THEN Finish(r, Ended("device_conflict")) /\ UNCHANGED store
          ELSE /\ owner' = [owner EXCEPT ![d] = req[r].user]
               /\ Finish(r, Ended("done"))
               /\ UNCHANGED <<revoked, chatSeq, boxSeq, messages, envelopes, readSeq>>

RevokeCommit(r) ==
    /\ Kind[r] = "revoke"
    /\ pc[r] = "device_commit"
    /\ revoked' = revoked \cup {req[r].dev}
    /\ Finish(r, Ended("done"))
    /\ UNCHANGED <<owner, chatSeq, boxSeq, messages, envelopes, readSeq>>

----------------------------------------------------------------------------
\* Mutant: a position once drawn is not given back (a database sequence).
RollbackKeepingPosition(r) ==
    /\ pc[r] \notin {"start", "end"}
    /\ chatSeq' = IF pc[r] = "commit" THEN [chatSeq EXCEPT ![req[r].chat] = @ + 1]
                                      ELSE chatSeq
    /\ Finish(r, Ended("rolled_back"))
    /\ UNCHANGED <<owner, revoked, boxSeq, messages, envelopes, readSeq>>

\* A lost connection, a cancelled request or a stopped server process: the
\* session is closed and PostgreSQL rolls the transaction back.
Rollback(r) ==
    /\ pc[r] \notin {"start", "end"}
    /\ Finish(r, Ended("rolled_back"))
    /\ UNCHANGED store

AllEnded ==
    /\ \A r \in Requests : pc[r] = "end"
    /\ UNCHANGED vars

Init ==
    /\ owner = InitialOwner
    /\ revoked = {}
    /\ chatSeq = [c \in Chats |-> 0]
    /\ boxSeq = [d \in Devices |-> 0]
    /\ messages = {}
    /\ envelopes = {}
    /\ readSeq = [c \in Chats |-> [u \in Users |-> 0]]
    /\ chatLock = [c \in Chats |-> Free]
    /\ shareLock = [u \in Users |-> {}]
    /\ userLock = [u \in Users |-> Free]
    /\ boxLock = [d \in Devices |-> Free]
    /\ pc = [r \in Requests |-> "start"]
    /\ req = [r \in Requests |-> Unstarted]
    /\ view = [r \in Requests |-> NoView]
    /\ result = [r \in Requests |-> Ended("none")]

\* What a started request does when nothing makes it fail.
Step(r) ==
    \/ SendLockChat(r) \/ SendLockUser(r) \/ SendCheckTargets(r)
    \/ SendLockBox(r) \/ SendCommit(r)
    \/ ReadLockChat(r) \/ ReadCommit(r)
    \/ DeviceLockUser(r) \/ DeviceRead(r) \/ LoginCommit(r) \/ RevokeCommit(r)

Next ==
    \/ \E r \in Requests :
        \/ SendStart(r) \/ ReadStart(r) \/ DeviceStart(r)
        \/ Step(r) \/ Rollback(r)
    \/ AllEnded

Spec == Init /\ [][Next]_vars

----------------------------------------------------------------------------
(* Properties *)

TypeOK ==
    /\ owner \in [Devices -> Users \cup {NoUser}]
    /\ revoked \subseteq Devices
    /\ chatSeq \in [Chats -> Nat]
    /\ boxSeq \in [Devices -> Nat]
    /\ messages \subseteq Message
    /\ envelopes \subseteq Envelope
    /\ readSeq \in [Chats -> [Users -> Nat]]
    /\ chatLock \in [Chats -> Requests \cup {Free}]
    /\ shareLock \in [Users -> SUBSET Requests]
    /\ userLock \in [Users -> Requests \cup {Free}]
    /\ boxLock \in [Devices -> Requests \cup {Free}]
    /\ pc \in [Requests -> PCs]
    /\ req \in [Requests -> Request]
    /\ view \in [Requests -> View]
    /\ result \in [Requests -> Answer]

\* The committed positions of a chat are 1, 2, ... last_message_seq, each taken
\* by one message: "a larger sequence cannot become visible first", although
\* the position is read when the chat is locked and written at the commit.
ChatPositionsGapless ==
    \A c \in Chats :
        /\ \A n \in 1..chatSeq[c] : PositionExists(c, n)
        /\ \A m \in messages : m.chat = c => m.seq \in 1..chatSeq[c]
        /\ \A m1, m2 \in messages :
               m1.chat = c /\ m2.chat = c /\ m1.seq = m2.seq => m1 = m2

\* The sequence numbers of a mailbox are 1, 2, ... last_seq, each taken by one
\* envelope: the client takes a missing number for a lost envelope, so a gap
\* would stop its synchronisation for good.
MailboxGapless ==
    \A d \in Devices :
        /\ \A n \in 1..boxSeq[d] : \E e \in envelopes : e.dev = d /\ e.seq = n
        /\ \A e \in envelopes : e.dev = d => e.seq \in 1..boxSeq[d]
        /\ \A e1, e2 \in envelopes :
               e1.dev = d /\ e2.dev = d /\ e1.seq = e2.seq => e1 = e2

\* However many requests carry one client message id of a device, in one chat
\* or in several, one message is stored, and each request that is accepted
\* answers with that message.
AcceptedOnce ==
    /\ \A m1, m2 \in messages : m1.key = m2.key => m1 = m2
    /\ \A r \in Requests : Kind[r] = "send" /\ result[r].status = "accepted" =>
           /\ result[r].message # {}
           /\ result[r].message = {m \in messages :
                                     m.key = <<req[r].dev, req[r].cid>>}

\* The row locks keep every transaction clear of the unique constraints that
\* send has no answer for (it would re-raise the IntegrityError).
NoIntegrityError == \A r \in Requests : result[r].status # "integrity_error"

\* A message is stored only while its sending device is active, with one
\* envelope for every other active device of the two members at that moment,
\* and at least one of them is the peer's: no login and no revocation slips
\* between the check of the targets and the commit.
DeliveredToCurrentDevices ==
    [][\A m \in messages' \ messages :
          LET to == {e.dev : e \in {x \in envelopes' : x.key = m.key}}
          IN /\ Authenticated(m.key[1])
             /\ to = RecipientDevices(m.key[1], m.chat)
             /\ \E d \in to : owner[d] # owner[m.key[1]]]_vars

\* The requests that r waits for: they hold the lock that r asks for next.
WaitsFor(r) ==
    (CASE pc[r] = "chat" -> {chatLock[req[r].chat]}
       [] pc[r] = "users" -> {userLock[u] : u \in NextUser(r)}
       [] pc[r] = "boxes" -> {boxLock[d] : d \in NextBox(r)}
       [] pc[r] = "user" -> shareLock[req[r].user] \cup {userLock[req[r].user]}
       [] OTHER -> {}) \ {Free}

\* "Global lock order: chat, user IDs, mailbox IDs": among the requests that
\* wait for each other one waits for none of the others, and nobody waits for a
\* request that has ended: no early return, error or rollback leaves a lock.
NoWaitCycle ==
    /\ \A S \in SUBSET {r \in Requests : WaitsFor(r) # {}} :
           S # {} => \E r \in S : WaitsFor(r) \cap S = {}
    /\ \A r \in Requests : \A q \in WaitsFor(r) : pc[q] \notin {"start", "end"}

\* A read cursor stands on a position that exists in its chat, or on 0.
ReadCursorOnMessage ==
    \A c \in Chats, u \in Users :
        readSeq[c][u] # 0 => u \in Members[c] /\ PositionExists(c, readSeq[c][u])

\* Two devices of a user that report positions in any order never move the
\* user's cursor back.
ReadCursorMonotone ==
    [][\A c \in Chats, u \in Users : readSeq'[c][u] >= readSeq[c][u]]_vars
=============================================================================
