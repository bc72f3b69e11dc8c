------------------------ MODULE MessageDeliveryProofs ------------------------
(***************************************************************************)
(* Proofs about MessageDelivery, for any number of requests, users,        *)
(* devices, chats and client message ids.                                  *)
(***************************************************************************)
EXTENDS MessageDelivery, FiniteSetTheorems, TLAPS

----------------------------------------------------------------------------
(* Types *)

\* The parts of TypeOK about the store, and about the locks and the requests.
StoreOK ==
    /\ owner \in [Devices -> Users \cup {NoUser}]
    /\ revoked \subseteq Devices
    /\ chatSeq \in [Chats -> Nat]
    /\ boxSeq \in [Devices -> Nat]
    /\ messages \subseteq Message
    /\ envelopes \subseteq Envelope
    /\ readSeq \in [Chats -> [Users -> Nat]]
LocksOK ==
    /\ chatLock \in [Chats -> Requests \cup {Free}]
    /\ shareLock \in [Users -> SUBSET Requests]
    /\ userLock \in [Users -> Requests \cup {Free}]
    /\ boxLock \in [Devices -> Requests \cup {Free}]
ControlOK ==
    /\ pc \in [Requests -> PCs]
    /\ req \in [Requests -> Request]
    /\ view \in [Requests -> View]
    /\ result \in [Requests -> Answer]

\* The type invariant has three parts: the rows, the locks and the requests.
LEMMA TypeParts == TypeOK <=> StoreOK /\ LocksOK /\ ControlOK
  BY DEF TypeOK, StoreOK, LocksOK, ControlOK

\* The same of the next state.
LEMMA TypePartsNext == TypeOK' <=> StoreOK' /\ LocksOK' /\ ControlOK'
  BY DEF TypeOK, StoreOK, LocksOK, ControlOK

\* A request that has read nothing has a well-formed view.
LEMMA NoViewType == NoView \in View
  BY DEF NoView, View

\* Finish keeps the types of the locks and of the requests.
LEMMA FinishType ==
  ASSUME LocksOK, ControlOK, NEW r \in Requests, NEW answer \in Answer,
         Finish(r, answer)
  PROVE  LocksOK' /\ ControlOK'
<1>1. LocksOK'
  BY DEF LocksOK, Finish, Release
<1>2. ControlOK'
  BY NoViewType DEF ControlOK, Finish, PCs
<1> QED
  BY <1>1, <1>2

\* A request that has not started is well formed.
LEMMA UnstartedType == Unstarted \in Request
  BY ConstantsAssumption DEF Unstarted, Request

\* The initial database has its types.
LEMMA InitType == Init => TypeOK
<1> SUFFICES ASSUME Init PROVE TypeOK
  OBVIOUS
<1>1. StoreOK
  BY ConstantsAssumption DEF Init, StoreOK
<1>2. LocksOK
  BY DEF Init, LocksOK
<1>4. Ended("none") \in Answer
  BY DEF Ended, Answer
<1>5. ControlOK
  BY UnstartedType, <1>4, NoViewType DEF Init, ControlOK, PCs
<1> QED
  BY <1>1, <1>2, <1>5, TypeParts
\* What the operators return when they are used.
LEMMA EndedType == \A s \in Rejections \cup {"none", "done"} : Ended(s) \in Answer
  BY DEF Ended, Answer

\* The lookup by client message id returns stored messages.
LEMMA LookupType ==
  ASSUME TypeOK, NEW d \in Devices, NEW cid \in ClientIds
  PROVE  /\ ByClientId(d, cid) \subseteq Message
         /\ [status |-> "accepted", message |-> ByClientId(d, cid)] \in Answer
  BY DEF TypeOK, ByClientId, Answer

\* The recipients of a send are devices.
LEMMA RecipientsType ==
  \A d \in Devices, c \in Chats : RecipientDevices(d, c) \subseteq Devices
  BY DEF RecipientDevices, ActiveDevices

\* The message and the envelopes that a send inserts are well formed.
LEMMA NewRowsType ==
  ASSUME TypeOK, NEW r \in Requests
  PROVE  NewMessage(r) \in Message /\ NewEnvelopes(r) \subseteq Envelope
<1>1. req[r] \in Request /\ view[r] \in View
  BY DEF TypeOK
<1>2. NewMessage(r) \in Message
  BY <1>1 DEF NewMessage, Message, Key, Request, View
<1>3. NewEnvelopes(r) \subseteq Envelope
  BY <1>1 DEF NewEnvelopes, Envelope, Key, Request, View
<1> QED
  BY <1>2, <1>3

\* The first statement of every handler keeps the types.
LEMMA StartType ==
  ASSUME TypeOK, NEW r \in Requests,
         SendStart(r) \/ ReadStart(r) \/ DeviceStart(r)
  PROVE  TypeOK'
<1> USE DEF Goto, PCs
<1>1. CASE SendStart(r)
  <2>1. PICK d \in Devices, cid \in ClientIds, c \in Chats :
        \E targets \in {RecipientDevices(d, c)} \cup OldTargets :
          /\ Authenticated(d)
          /\ req' = [req EXCEPT ![r] = [user |-> owner[d], dev |-> d, cid |-> cid,
                                        chat |-> c, targets |-> targets,
                                        position |-> 0]]
          /\ \/ /\ ByClientId(d, cid) # {}
                /\ End(r, [status |-> "accepted", message |-> ByClientId(d, cid)])
             \/ /\ ByClientId(d, cid) = {}
                /\ owner[d] \notin Members[c]
                /\ End(r, Ended("chat_not_found"))
             \/ /\ ByClientId(d, cid) = {}
                /\ owner[d] \in Members[c]
                /\ \/ End(r, Ended("invalid_envelope"))
                   \/ Goto(r, "chat") /\ UNCHANGED result
    BY <1>1 DEF SendStart
  <2>2. PICK targets \in {RecipientDevices(d, c)} \cup OldTargets :
          req' = [req EXCEPT ![r] = [user |-> owner[d], dev |-> d, cid |-> cid,
                                     chat |-> c, targets |-> targets,
                                     position |-> 0]]
    BY <2>1
  <2>3. targets \subseteq Devices /\ owner[d] \in Users
    BY <2>1, RecipientsType, ConstantsAssumption DEF TypeOK, Authenticated
  <2>4. req' \in [Requests -> Request]
    BY <2>2, <2>3 DEF TypeOK, Request
  <2>5. \/ \E answer \in Answer : End(r, answer)
        \/ Goto(r, "chat") /\ UNCHANGED result
    BY <1>1, LookupType, EndedType DEF SendStart, Rejections
  <2>6. result' \in [Requests -> Answer] /\ pc' \in [Requests -> PCs]
    BY <2>5 DEF TypeOK, End
  <2> QED
    BY <1>1, <2>4, <2>6 DEF SendStart, TypeOK, store, locks
<1>2. CASE ReadStart(r)
  <2>1. PICK d \in Devices, c \in Chats, n \in 0..MaxPosition :
          /\ Authenticated(d)
          /\ req' = [req EXCEPT ![r] = [Unstarted EXCEPT !.user = owner[d], !.dev = d,
                                                         !.chat = c, !.position = n]]
    BY <1>2 DEF ReadStart
  <2>2. owner[d] \in Users /\ n \in Nat
    BY <2>1, ConstantsAssumption DEF TypeOK, Authenticated
  <2>3. req' \in [Requests -> Request]
    BY <2>1, <2>2, UnstartedType DEF TypeOK, Request, Unstarted
  <2>4. \/ \E answer \in Answer : End(r, answer)
        \/ Goto(r, "chat") /\ UNCHANGED result
    BY <1>2, EndedType DEF ReadStart, Rejections
  <2>5. result' \in [Requests -> Answer] /\ pc' \in [Requests -> PCs]
    BY <2>4 DEF TypeOK, End
  <2> QED
    BY <1>2, <2>3, <2>5 DEF ReadStart, TypeOK, store, locks
<1>3. CASE DeviceStart(r)
  <2>1. PICK u \in Users, d \in Devices :
          req' = [req EXCEPT ![r] = [Unstarted EXCEPT !.user = u, !.dev = d]]
    BY <1>3 DEF DeviceStart
  <2>2. req' \in [Requests -> Request]
    BY <2>1, UnstartedType DEF TypeOK, Request, Unstarted
  <2> QED
    BY <1>3, <2>2 DEF DeviceStart, TypeOK, store, locks
<1> QED
  BY <1>1, <1>2, <1>3

\* Every later statement of MessageService.send keeps the types.
LEMMA SendType ==
  ASSUME TypeOK, NEW r \in Requests,
         \/ SendLockChat(r) \/ SendLockUser(r) \/ SendCheckTargets(r)
         \/ SendLockBox(r) \/ SendCommit(r)
  PROVE  TypeOK'
<1> USE DEF Goto, PCs
<1>0. req[r] \in Request /\ view[r] \in View /\ StoreOK /\ LocksOK /\ ControlOK
  BY TypeParts DEF TypeOK
<1>1. CASE SendLockChat(r)
  <2>1. CASE Finish(r, [status |-> "accepted",
                        message |-> ByClientId(req[r].dev, req[r].cid)]) /\ UNCHANGED store
    BY <1>0, <2>1, TypePartsNext, FinishType, LookupType DEF StoreOK, store, Request
  <2>2. CASE /\ chatLock' = [chatLock EXCEPT ![req[r].chat] = r]
             /\ view' = [view EXCEPT ![r].chatSeq = chatSeq[req[r].chat]]
             /\ Goto(r, "users")
             /\ UNCHANGED <<store, shareLock, userLock, boxLock, req, result>>
    BY <1>0, <2>2 DEF TypeOK, View, Request, store
  <2> QED
    BY <1>1, <2>1, <2>2 DEF SendLockChat
<1>2. CASE SendLockUser(r)
  <2>1. NextUser(r) \subseteq Users
    BY <1>0, ConstantsAssumption DEF NextUser, UsersToLock, Request
  <2> QED
    BY <1>0, <1>2, <2>1 DEF SendLockUser, TypeOK, store
<1>3. CASE SendCheckTargets(r)
  <2>1. CASE Finish(r, Ended("delivery_targets_changed"))
    BY <1>0, <1>3, <2>1, TypePartsNext, FinishType, EndedType
       DEF SendCheckTargets, StoreOK, store, Rejections
  <2>2. CASE Goto(r, "boxes") /\ UNCHANGED <<locks, req, view, result>>
    BY <1>3, <2>2 DEF SendCheckTargets, TypeOK, locks, store
  <2> QED
    BY <1>3, <2>1, <2>2 DEF SendCheckTargets
<1>4. CASE SendLockBox(r)
  <2>1. PICK d \in NextBox(r) :
          /\ boxLock' = [boxLock EXCEPT ![d] = r]
          /\ view' = [view EXCEPT ![r].boxSeq[d] = boxSeq[d]]
          /\ Goto(r, IF BoxesToLock(r) = {d} THEN "commit" ELSE "boxes")
    BY <1>4 DEF SendLockBox
  <2>2. d \in Devices
    BY <1>0 DEF NextBox, BoxesToLock, Request
  <2>3. view' \in [Requests -> View]
    BY <1>0, <2>1, <2>2 DEF TypeOK, View
  <2> QED
    BY <1>0, <1>4, <2>1, <2>2, <2>3 DEF SendLockBox, TypeOK, store
<1>5. CASE SendCommit(r)
  <2>1. CASE /\ chatSeq' = [chatSeq EXCEPT ![req[r].chat] = view[r].chatSeq + 1]
             /\ boxSeq' = [d \in Devices |->
                              IF d \in req[r].targets
                              THEN view[r].boxSeq[d] + 1 ELSE boxSeq[d]]
             /\ messages' = messages \cup {NewMessage(r)}
             /\ envelopes' = envelopes \cup NewEnvelopes(r)
             /\ Finish(r, Accepted(NewMessage(r)))
             /\ UNCHANGED <<owner, revoked, readSeq>>
    <3>1. StoreOK'
      BY <1>0, <2>1, NewRowsType DEF StoreOK, View, Request
    <3>2. Accepted(NewMessage(r)) \in Answer
      BY NewRowsType DEF Accepted, Answer
    <3> QED
      BY <1>0, <2>1, <3>1, <3>2, FinishType, TypePartsNext
  <2>2. CASE /\ UNCHANGED store
             /\ \/ Finish(r, Ended("integrity_error"))
                \/ Finish(r, [status |-> "accepted",
                              message |-> ByClientId(req[r].dev, req[r].cid)])
    BY <1>0, <2>2, FinishType, EndedType, LookupType, TypePartsNext
       DEF StoreOK, store, Rejections, Request
  <2> QED
    BY <1>5, <2>1, <2>2 DEF SendCommit
<1> QED
  BY <1>1, <1>2, <1>3, <1>4, <1>5

\* The statements of ChatReadService.advance keep the types.
LEMMA ReadType ==
  ASSUME TypeOK, NEW r \in Requests, ReadLockChat(r) \/ ReadCommit(r)
  PROVE  TypeOK'
<1>0. req[r] \in Request /\ view[r] \in View /\ StoreOK /\ LocksOK /\ ControlOK
  BY TypeParts DEF TypeOK
<1>1. CASE ReadLockChat(r)
  <2>1. CASE Finish(r, Ended("invalid_read_position")) /\ UNCHANGED store
    BY <1>0, <2>1, TypePartsNext, FinishType, EndedType DEF StoreOK, store, Rejections
  <2>2. CASE /\ chatLock' = [chatLock EXCEPT ![req[r].chat] = r]
             /\ view' = [view EXCEPT ![r].readSeq = readSeq[req[r].chat][req[r].user]]
             /\ Goto(r, "read_commit")
             /\ UNCHANGED <<store, shareLock, userLock, boxLock, req, result>>
    <3>1. readSeq[req[r].chat][req[r].user] \in Nat
      BY <1>0 DEF StoreOK, Request
    <3>2. view' \in [Requests -> View]
      BY <1>0, <2>2, <3>1 DEF ControlOK, View
    <3> QED
      BY <1>0, <2>2, <3>2 DEF TypeOK, Request, store, Goto, PCs
  <2> QED
    BY <1>1, <2>1, <2>2 DEF ReadLockChat
<1>2. CASE ReadCommit(r)
  <2>1. StoreOK'
    BY <1>0, <1>2 DEF ReadCommit, StoreOK, Request, View
  <2> QED
    BY <1>0, <1>2, <2>1, FinishType, EndedType, TypePartsNext DEF ReadCommit
<1> QED
  BY <1>1, <1>2

\* The statements of login and revoke_device keep the types.
LEMMA DeviceType ==
  ASSUME TypeOK, NEW r \in Requests,
         \/ DeviceLockUser(r) \/ DeviceRead(r) \/ LoginCommit(r) \/ RevokeCommit(r)
         \/ Rollback(r)
  PROVE  TypeOK'
<1>0. req[r] \in Request /\ view[r] \in View /\ StoreOK /\ LocksOK /\ ControlOK
  BY TypeParts DEF TypeOK
<1>1. CASE DeviceLockUser(r)
  BY <1>0, <1>1 DEF DeviceLockUser, TypeOK, Request, store, Goto, PCs
<1>2. CASE DeviceRead(r)
  <2>1. CASE /\ view' = [view EXCEPT ![r].owner = owner[req[r].dev]]
             /\ Goto(r, "device_commit")
             /\ UNCHANGED <<store, locks, req, result>>
    BY <1>0, <2>1 DEF TypeOK, View, Request, store, locks, Goto, PCs
  <2>2. CASE /\ UNCHANGED store
             /\ \E s \in Rejections \cup {"done"} : Finish(r, Ended(s))
    BY <1>0, <2>2, TypePartsNext, FinishType, EndedType DEF StoreOK, store
  <2> QED
    BY <1>2, <2>1, <2>2 DEF DeviceRead, Rejections
<1>3. CASE LoginCommit(r)
  <2>1. StoreOK'
    BY <1>0, <1>3 DEF LoginCommit, StoreOK, Request, store
  <2>2. \E s \in {"done", "device_conflict"} : Finish(r, Ended(s))
    BY <1>3 DEF LoginCommit
  <2> QED
    BY <1>0, <2>1, <2>2, FinishType, EndedType, TypePartsNext DEF Rejections
<1>4. CASE RevokeCommit(r)
  <2>1. StoreOK'
    BY <1>0, <1>4 DEF RevokeCommit, StoreOK, Request
  <2> QED
    BY <1>0, <1>4, <2>1, FinishType, EndedType, TypePartsNext DEF RevokeCommit
<1>5. CASE Rollback(r)
  <2>1. StoreOK'
    BY <1>0, <1>5 DEF Rollback, StoreOK, store
  <2> QED
    BY <1>0, <1>5, <2>1, FinishType, EndedType, TypePartsNext DEF Rollback, Rejections
<1> QED
  BY <1>1, <1>2, <1>3, <1>4, <1>5

\* Every step keeps the types.
LEMMA NextType == TypeOK /\ [Next]_vars => TypeOK'
<1> SUFFICES ASSUME TypeOK, [Next]_vars PROVE TypeOK'
  OBVIOUS
<1>1. ASSUME NEW r \in Requests,
             SendStart(r) \/ ReadStart(r) \/ DeviceStart(r) \/ Step(r) \/ Rollback(r)
      PROVE  TypeOK'
  BY <1>1, StartType, SendType, ReadType, DeviceType DEF Step
<1>2. CASE UNCHANGED vars
  BY <1>2 DEF TypeOK, vars, store, locks
<1> QED
  BY <1>1, <1>2 DEF Next, AllEnded

----------------------------------------------------------------------------
(* The inductive invariant: what request r may rely on at each step *)

ChatHeldAt == {"users", "targets", "boxes", "commit", "read_commit"}
SharesHeldAt == {"targets", "boxes", "commit"}
DeviceAt == {"user", "device", "device_commit"}

\* The answer is given when the request ends; only logins and revocations are
\* at a device step, only sends at a delivery step.
Progress(r) ==
    /\ pc[r] # "end" => result[r].status = "none"
    /\ pc[r] \in DeviceAt => Kind[r] \in {"login", "revoke"}
    /\ pc[r] \in SharesHeldAt \cup {"users"} => Kind[r] = "send"
    /\ pc[r] = "read_commit" => Kind[r] = "read"

\* A send or a read past its first checks is made by a member of the chat.
Membership(r) ==
    Kind[r] \in {"send", "read"} /\ pc[r] \notin {"start", "end"} =>
        req[r].user \in Members[req[r].chat]

\* The positions that r has read under the chat's lock are still current.
ChatView(r) ==
    pc[r] \in ChatHeldAt =>
        /\ chatLock[req[r].chat] = r
        /\ Kind[r] = "send" => view[r].chatSeq = chatSeq[req[r].chat]
        /\ Kind[r] = "read" =>
               /\ view[r].readSeq = readSeq[req[r].chat][req[r].user]
               /\ req[r].position # 0 =>
                      PositionExists(req[r].chat, req[r].position)

\* The mailbox counters that r has read under their locks are still current.
BoxView(r) ==
    /\ \A d \in Devices : boxLock[d] = r =>
           pc[r] \in {"boxes", "commit"} /\ view[r].boxSeq[d] = boxSeq[d]
    /\ pc[r] = "commit" => \A d \in req[r].targets : boxLock[d] = r

\* A delivery holds both members' rows once it checks its targets, a change of
\* a user's device set holds the user's row.
UsersHeld(r) ==
    /\ pc[r] \in SharesHeldAt => \A u \in Members[req[r].chat] : r \in shareLock[u]
    /\ pc[r] \in {"device", "device_commit"} => userLock[req[r].user] = r

\* What a login or a revocation has read of the device's row still holds.
DeviceView(r) ==
    pc[r] = "device_commit" =>
        /\ Kind[r] = "login" /\ view[r].owner # NoUser =>
               owner[req[r].dev] = req[r].user
        /\ Kind[r] = "revoke" => owner[req[r].dev] = req[r].user

\* The targets that r has checked are current until it ends.
CheckedTargets(r) == pc[r] \in {"boxes", "commit"} => TargetsCurrent(r)

RequestInv(r) ==
    /\ Progress(r)
    /\ Membership(r)
    /\ ChatView(r)
    /\ BoxView(r)
    /\ UsersHeld(r)
    /\ DeviceView(r)
    /\ CheckedTargets(r)

\* A user's row is held shared by deliveries or exclusively by one change of
\* the user's device set.
UserLocks == \A u \in Users : shareLock[u] # {} => userLock[u] = Free

\* An envelope belongs to a stored message.
EnvelopeOfMessage == \A e \in envelopes : \E m \in messages : m.key = e.key

LockInv == UserLocks /\ \A r \in Requests : RequestInv(r)
StoreInv ==
    /\ ChatPositionsGapless
    /\ MailboxGapless
    /\ EnvelopeOfMessage
    /\ AcceptedOnce
    /\ NoIntegrityError
    /\ ReadCursorOnMessage
IInv == TypeOK /\ LockInv /\ StoreInv

----------------------------------------------------------------------------
(* A step of one request leaves the others what they rely on *)

\* A step of another request changes nothing of q and of the locks q holds.
Untouched(q) ==
    /\ pc'[q] = pc[q] /\ req'[q] = req[q] /\ view'[q] = view[q]
    /\ result'[q] = result[q]
    /\ \A c \in Chats : chatLock[c] = q => chatLock'[c] = q
    /\ \A u \in Users : q \in shareLock[u] => q \in shareLock'[u]
    /\ \A u \in Users : userLock[u] = q => userLock'[u] = q
    /\ \A d \in Devices : boxLock'[d] = q <=> boxLock[d] = q

\* The step keeps the rows that q has locked or checked.
RowsKept(q) ==
    /\ pc[q] \in ChatHeldAt =>
           /\ chatSeq'[req[q].chat] = chatSeq[req[q].chat]
           /\ readSeq'[req[q].chat] = readSeq[req[q].chat]
    /\ \A d \in Devices : boxLock[d] = q => boxSeq'[d] = boxSeq[d]
    /\ messages \subseteq messages'
    /\ pc[q] = "device_commit" /\ owner[req[q].dev] = req[q].user =>
           owner'[req[q].dev] = req[q].user
    /\ pc[q] \in {"boxes", "commit"} =>
           \A u \in Members[req[q].chat] : ActiveDevices(u)' = ActiveDevices(u)

\* What a request knows stays true while others leave its locks and rows alone.
LEMMA OthersKept ==
  ASSUME TypeOK, NEW q \in Requests, RequestInv(q), Untouched(q), RowsKept(q)
  PROVE  RequestInv(q)'
<1>0. req[q] \in Request
  BY DEF TypeOK
<1>1. Progress(q)' /\ Membership(q)'
  BY DEF RequestInv, Progress, Membership, Untouched
<1>2. ChatView(q)'
  <2>1. \A c, n : PositionExists(c, n) => PositionExists(c, n)'
    BY DEF RowsKept, PositionExists
  <2> QED
    BY <1>0, <2>1 DEF RequestInv, ChatView, Untouched, RowsKept, Request
<1>3. BoxView(q)'
  BY <1>0 DEF RequestInv, BoxView, Untouched, RowsKept, Request
<1>4. UsersHeld(q)'
  BY <1>0, ConstantsAssumption DEF RequestInv, UsersHeld, Untouched, Request
<1>5. DeviceView(q)'
  BY DEF RequestInv, DeviceView, Untouched, RowsKept
<1>6. CheckedTargets(q)'
  <2>1. SUFFICES ASSUME pc[q] \in {"boxes", "commit"} PROVE TargetsCurrent(q)'
    BY DEF CheckedTargets, Untouched
  <2>2. \A u \in Members[req[q].chat] : ActiveDevices(u)' = ActiveDevices(u)
    BY <2>1 DEF RowsKept
  <2>3. req[q].user \in Members[req[q].chat] /\ TargetsCurrent(q)
    BY <2>1, ConstantsAssumption
       DEF RequestInv, Membership, Progress, SharesHeldAt, CheckedTargets
  <2> QED
    BY <2>2, <2>3 DEF TargetsCurrent, RecipientDevices, Peer, Untouched
<1> QED
  BY <1>1, <1>2, <1>3, <1>4, <1>5, <1>6 DEF RequestInv

\* The end of a transaction, whatever it writes.
LEMMA FinishLockInv ==
  ASSUME TypeOK, LockInv, NEW r \in Requests, NEW answer \in Answer,
         Finish(r, answer), \A q \in Requests \ {r} : RowsKept(q)
  PROVE  LockInv'
<1>1. UserLocks'
  BY DEF LockInv, UserLocks, Finish, Release, TypeOK
<1>2. RequestInv(r)'
  <2>1. pc'[r] = "end" /\ \A d \in Devices : boxLock'[d] # r
    BY ConstantsAssumption DEF Finish, Release, TypeOK
  <2> QED
    BY <2>1 DEF RequestInv, Progress, Membership, ChatView, BoxView, UsersHeld,
                DeviceView, CheckedTargets, ChatHeldAt, SharesHeldAt, DeviceAt
<1>3. ASSUME NEW q \in Requests \ {r} PROVE RequestInv(q)'
  <2>1. Untouched(q)
    BY ConstantsAssumption DEF Untouched, Finish, Release, TypeOK
  <2> QED
    BY <2>1, OthersKept DEF LockInv
<1> QED
  BY <1>1, <1>2, <1>3 DEF LockInv

\* A step that writes no row keeps every row.
LEMMA UnchangedRows ==
  ASSUME UNCHANGED store
  PROVE  \A q \in Requests : RowsKept(q)
  BY DEF RowsKept, store, ActiveDevices

\* The first step of a request takes no lock.
LEMMA StartLockInv ==
  ASSUME TypeOK, LockInv, NEW r \in Requests,
         SendStart(r) \/ ReadStart(r) \/ DeviceStart(r)
  PROVE  LockInv'
<1>1. UNCHANGED <<store, locks, view>>
  BY DEF SendStart, ReadStart, DeviceStart
<1>2. \A q \in Requests \ {r} : Untouched(q)
  <2>1. \E label, ask, answer : /\ pc' = [pc EXCEPT ![r] = label]
                                /\ req' = [req EXCEPT ![r] = ask]
                                /\ result' = [result EXCEPT ![r] = answer]
    <3>1. result = [result EXCEPT ![r] = result[r]]
      BY DEF TypeOK
    <3>2. \E ask : req' = [req EXCEPT ![r] = ask]
      BY DEF SendStart, ReadStart, DeviceStart
    <3>3. \/ \E answer : End(r, answer)
          \/ \E label : Goto(r, label) /\ UNCHANGED result
      BY DEF SendStart, ReadStart, DeviceStart
    <3>4. \E label, answer : /\ pc' = [pc EXCEPT ![r] = label]
                             /\ result' = [result EXCEPT ![r] = answer]
      BY <3>1, <3>3, Zenon DEF Goto, End
    <3> QED
      BY <3>2, <3>4, Zenon
  <2> QED
    BY <1>1, <2>1 DEF Untouched, TypeOK, locks
<1>3. \A d \in Devices : boxLock[d] # r
  <2>1. pc[r] = "start" /\ BoxView(r)
    BY DEF LockInv, RequestInv, SendStart, ReadStart, DeviceStart
  <2> QED
    BY <2>1 DEF BoxView
<1>4. /\ pc'[r] \in {"chat", "end", "user"}
      /\ pc'[r] = "chat" => /\ Kind[r] \in {"send", "read"}
                            /\ req'[r].user \in Members[req'[r].chat]
                            /\ result'[r].status = "none"
      /\ pc'[r] = "user" => /\ Kind[r] \in {"login", "revoke"}
                            /\ result'[r].status = "none"
  <2>1. result[r].status = "none"
    BY DEF LockInv, RequestInv, Progress, SendStart, ReadStart, DeviceStart
  <2>2. CASE SendStart(r)
    <3>1. \/ /\ pc' = [pc EXCEPT ![r] = "chat"]
             /\ req'[r].user \in Members[req'[r].chat]
             /\ UNCHANGED result
          \/ pc' = [pc EXCEPT ![r] = "end"]
      BY <2>2 DEF SendStart, Goto, End, TypeOK
    <3> QED
      BY <2>1, <2>2, <3>1 DEF SendStart, TypeOK
  <2>3. CASE ReadStart(r)
    <3>1. PICK d \in Devices, c \in Chats, n \in 0..MaxPosition :
            /\ req' = [req EXCEPT ![r] = [Unstarted EXCEPT !.user = owner[d], !.dev = d,
                                                           !.chat = c, !.position = n]]
            /\ \/ owner[d] \in Members[c] /\ Goto(r, "chat") /\ UNCHANGED result
               \/ Goto(r, "end")
      BY <2>3, Zenon DEF ReadStart, End
    <3>2. req'[r].user = owner[d] /\ req'[r].chat = c
      BY <3>1 DEF TypeOK, Unstarted
    <3>3. \/ /\ pc' = [pc EXCEPT ![r] = "chat"]
             /\ req'[r].user \in Members[req'[r].chat]
             /\ UNCHANGED result
          \/ pc' = [pc EXCEPT ![r] = "end"]
      BY <3>1, <3>2, Zenon DEF Goto
    <3> QED
      BY <2>1, <2>3, <3>3 DEF ReadStart, TypeOK
  <2>4. CASE DeviceStart(r)
    BY <2>1, <2>4 DEF DeviceStart, Goto, TypeOK
  <2> QED
    BY <2>2, <2>3, <2>4
<1>5. RequestInv(r)'
  BY <1>1, <1>3, <1>4
     DEF RequestInv, Progress, Membership, ChatView, BoxView, UsersHeld, locks,
         DeviceView, CheckedTargets, ChatHeldAt, SharesHeldAt, DeviceAt
<1>6. UserLocks'
  BY <1>1 DEF LockInv, UserLocks, locks
<1> QED
  BY <1>1, <1>2, <1>5, <1>6, OthersKept, UnchangedRows DEF LockInv

\* A lock is taken only when it is free, so that nobody else holds it.
LEMMA ChatLockInv ==
  ASSUME TypeOK, LockInv, NEW r \in Requests, pc[r] = "chat",
         chatLock[req[r].chat] = Free,
         chatLock' = [chatLock EXCEPT ![req[r].chat] = r],
         UNCHANGED <<store, shareLock, userLock, boxLock, req, result>>,
         \/ /\ Kind[r] = "send"
            /\ view' = [view EXCEPT ![r].chatSeq = chatSeq[req[r].chat]]
            /\ Goto(r, "users")
         \/ /\ Kind[r] = "read"
            /\ req[r].position # 0 => PositionExists(req[r].chat, req[r].position)
            /\ view' = [view EXCEPT ![r].readSeq = readSeq[req[r].chat][req[r].user]]
            /\ Goto(r, "read_commit")
  PROVE  LockInv'
<1>0. req[r] \in Request /\ view[r] \in View /\ RequestInv(r)
  BY DEF TypeOK, LockInv
<1>1. UserLocks'
  BY DEF LockInv, UserLocks
<1>2. ASSUME NEW q \in Requests \ {r} PROVE RequestInv(q)'
  <2>1. Untouched(q)
    BY ConstantsAssumption DEF Untouched, TypeOK, Goto
  <2> QED
    BY <2>1, OthersKept, UnchangedRows DEF LockInv
<1>3. pc'[r] = (IF Kind[r] = "send" THEN "users" ELSE "read_commit")
  BY DEF TypeOK, Goto
<1>4. Progress(r)' /\ Membership(r)' /\ UsersHeld(r)' /\ DeviceView(r)' /\ CheckedTargets(r)'
  BY <1>0, <1>3 DEF RequestInv, Progress, Membership, UsersHeld, DeviceView,
                    CheckedTargets, SharesHeldAt, DeviceAt
<1>5. BoxView(r)'
  BY <1>0, <1>3 DEF RequestInv, BoxView
<1>6. ChatView(r)'
  <2>1. chatLock'[req[r].chat] = r
    BY <1>0 DEF TypeOK, Request
  <2>2. Kind[r] = "send" => view'[r].chatSeq = chatSeq[req[r].chat]
    BY <1>0 DEF TypeOK, View
  <2>3. Kind[r] = "read" => view'[r].readSeq = readSeq[req[r].chat][req[r].user]
    BY <1>0 DEF TypeOK, View
  <2> QED
    BY <2>1, <2>2, <2>3 DEF ChatView, store, PositionExists
<1> QED
  BY <1>1, <1>2, <1>4, <1>5, <1>6 DEF LockInv, RequestInv

\* A send shares the row of a user whom nobody holds exclusively.
LEMMA ShareLockInv ==
  ASSUME TypeOK, LockInv, NEW r \in Requests, SendLockUser(r)
  PROVE  LockInv'
<1>0. /\ req[r] \in Request /\ RequestInv(r)
      /\ pc[r] = "users" /\ Kind[r] = "send"
      /\ UNCHANGED <<store, chatLock, userLock, boxLock, req, view, result>>
  BY DEF TypeOK, LockInv, SendLockUser
<1>1. PICK u \in NextUser(r) :
        /\ userLock[u] = Free
        /\ shareLock' = [shareLock EXCEPT ![u] = @ \cup {r}]
        /\ Goto(r, IF UsersToLock(r) = {u} THEN "targets" ELSE "users")
  BY DEF SendLockUser
<1>2. u \in Users
  BY <1>0, ConstantsAssumption DEF NextUser, UsersToLock, Request
<1>3. UserLocks'
  BY <1>0, <1>1, <1>2 DEF LockInv, UserLocks, TypeOK
<1>4. ASSUME NEW q \in Requests \ {r} PROVE RequestInv(q)'
  <2>1. Untouched(q)
    BY <1>0, <1>1, <1>2 DEF Untouched, TypeOK, Goto
  <2> QED
    BY <1>0, <2>1, OthersKept, UnchangedRows DEF LockInv
<1>5. pc'[r] \in {"targets", "users"} /\ (pc'[r] = "targets" => UsersToLock(r) = {u})
  BY <1>1 DEF Goto, TypeOK
<1>6. /\ Progress(r)' /\ Membership(r)' /\ BoxView(r)' /\ DeviceView(r)'
      /\ CheckedTargets(r)'
  BY <1>0, <1>5 DEF RequestInv, Progress, Membership, BoxView, DeviceView,
                    CheckedTargets, SharesHeldAt, DeviceAt
<1>7. ChatView(r)'
  BY <1>0, <1>5 DEF RequestInv, ChatView, ChatHeldAt, store, PositionExists
<1>8. UsersHeld(r)'
  <2>1. pc'[r] = "targets" =>
          \A v \in Members[req[r].chat] : r \in shareLock'[v]
    BY <1>0, <1>1, <1>2, <1>5, ConstantsAssumption DEF UsersToLock, TypeOK, Request
  <2> QED
    BY <1>0, <1>5, <2>1 DEF UsersHeld, SharesHeldAt
<1> QED
  BY <1>3, <1>4, <1>6, <1>7, <1>8 DEF LockInv, RequestInv

\* The device set that a send has checked stays as it is while the users are shared.
LEMMA TargetsInv ==
  ASSUME TypeOK, LockInv, NEW r \in Requests, Kind[r] = "send", pc[r] = "targets",
         TargetsCurrent(r), Goto(r, "boxes"),
         UNCHANGED <<store, locks, req, view, result>>
  PROVE  LockInv'
<1>0. RequestInv(r) /\ pc'[r] = "boxes"
  BY DEF LockInv, Goto, TypeOK
<1>1. UserLocks'
  BY DEF LockInv, UserLocks, locks
<1>2. ASSUME NEW q \in Requests \ {r} PROVE RequestInv(q)'
  <2>1. Untouched(q)
    BY DEF Untouched, TypeOK, Goto, locks
  <2> QED
    BY <2>1, OthersKept, UnchangedRows DEF LockInv
<1>3. Progress(r)' /\ Membership(r)' /\ BoxView(r)' /\ DeviceView(r)' /\ UsersHeld(r)'
  BY <1>0 DEF RequestInv, Progress, Membership, BoxView, DeviceView, UsersHeld,
              SharesHeldAt, DeviceAt, locks
<1>4. ChatView(r)'
  BY <1>0 DEF RequestInv, ChatView, ChatHeldAt, store, locks, PositionExists
<1>5. CheckedTargets(r)'
  BY DEF CheckedTargets, TargetsCurrent, ActiveDevices, RecipientDevices, Peer, store
<1> QED
  BY <1>1, <1>2, <1>3, <1>4, <1>5 DEF LockInv, RequestInv

\* A send takes a mailbox that is free and reads its next number.
LEMMA BoxLockInv ==
  ASSUME TypeOK, LockInv, NEW r \in Requests, SendLockBox(r)
  PROVE  LockInv'
<1>0. /\ req[r] \in Request /\ view[r] \in View /\ RequestInv(r)
      /\ pc[r] = "boxes" /\ Kind[r] = "send"
      /\ UNCHANGED <<store, chatLock, shareLock, userLock, req, result>>
  BY DEF TypeOK, LockInv, SendLockBox
<1>1. PICK d \in NextBox(r) :
        /\ boxLock[d] = Free
        /\ boxLock' = [boxLock EXCEPT ![d] = r]
        /\ view' = [view EXCEPT ![r].boxSeq[d] = boxSeq[d]]
        /\ Goto(r, IF BoxesToLock(r) = {d} THEN "commit" ELSE "boxes")
  BY DEF SendLockBox
<1>2. d \in Devices
  BY <1>0 DEF NextBox, BoxesToLock, Request
<1>3. UserLocks'
  BY <1>0 DEF LockInv, UserLocks
<1>4. ASSUME NEW q \in Requests \ {r} PROVE RequestInv(q)'
  <2>1. Untouched(q)
    BY <1>0, <1>1, <1>2, ConstantsAssumption DEF Untouched, TypeOK, Goto
  <2> QED
    BY <1>0, <2>1, OthersKept, UnchangedRows DEF LockInv
<1>5. pc'[r] \in {"boxes", "commit"} /\ (pc'[r] = "commit" => BoxesToLock(r) = {d})
  BY <1>1 DEF Goto, TypeOK
<1>6. /\ view'[r].chatSeq = view[r].chatSeq
      /\ \A e \in Devices : view'[r].boxSeq[e] = IF e = d THEN boxSeq[d]
                                                          ELSE view[r].boxSeq[e]
  BY <1>0, <1>1, <1>2 DEF TypeOK, View
<1>7. Progress(r)' /\ Membership(r)' /\ DeviceView(r)' /\ UsersHeld(r)'
  BY <1>0, <1>5 DEF RequestInv, Progress, Membership, DeviceView, UsersHeld,
                    SharesHeldAt, DeviceAt
<1>8. ChatView(r)'
  BY <1>0, <1>5, <1>6 DEF RequestInv, ChatView, ChatHeldAt, store
<1>9. CheckedTargets(r)'
  BY <1>0 DEF RequestInv, CheckedTargets, TargetsCurrent, ActiveDevices,
              RecipientDevices, Peer, store
<1>10. BoxView(r)'
  <2>1. \A e \in Devices : boxLock'[e] = r => view'[r].boxSeq[e] = boxSeq[e]
    BY <1>0, <1>1, <1>2, <1>6 DEF RequestInv, BoxView, TypeOK
  <2>2. pc'[r] = "commit" => \A e \in req[r].targets : boxLock'[e] = r
    BY <1>0, <1>1, <1>2, <1>5 DEF BoxesToLock, TypeOK, Request
  <2> QED
    BY <1>0, <1>5, <2>1, <2>2 DEF BoxView, store
<1> QED
  BY <1>3, <1>4, <1>7, <1>8, <1>9, <1>10 DEF LockInv, RequestInv

\* login and revoke_device take a user whom nobody holds or shares.
LEMMA UserLockInv ==
  ASSUME TypeOK, LockInv, NEW r \in Requests, DeviceLockUser(r)
  PROVE  LockInv'
<1>0. req[r] \in Request /\ RequestInv(r)
  BY DEF TypeOK, LockInv
<1>1. UserLocks'
  BY <1>0 DEF DeviceLockUser, LockInv, UserLocks, TypeOK, Request
<1>2. ASSUME NEW q \in Requests \ {r} PROVE RequestInv(q)'
  <2>1. Untouched(q)
    BY <1>0, ConstantsAssumption DEF DeviceLockUser, Untouched, TypeOK, Goto, Request
  <2> QED
    BY <2>1, OthersKept, UnchangedRows DEF DeviceLockUser, LockInv
<1>3. pc[r] = "user" /\ pc'[r] = "device" /\ userLock'[req[r].user] = r
  BY <1>0 DEF DeviceLockUser, Goto, TypeOK, Request
<1>4. RequestInv(r)'
  BY <1>0, <1>3
     DEF DeviceLockUser, RequestInv, Progress, Membership, ChatView, BoxView, UsersHeld,
         DeviceView, CheckedTargets, ChatHeldAt, SharesHeldAt, DeviceAt
<1> QED
  BY <1>1, <1>2, <1>4 DEF LockInv

\* The device that login and revoke_device read is still the same at their commit.
LEMMA DeviceReadInv ==
  ASSUME TypeOK, LockInv, NEW r \in Requests, pc[r] = "device",
         Kind[r] = "login" => owner[req[r].dev] \in {req[r].user, NoUser},
         Kind[r] = "revoke" => owner[req[r].dev] = req[r].user,
         view' = [view EXCEPT ![r].owner = owner[req[r].dev]],
         Goto(r, "device_commit"), UNCHANGED <<store, locks, req, result>>
  PROVE  LockInv'
<1>0. req[r] \in Request /\ view[r] \in View /\ RequestInv(r)
  BY DEF TypeOK, LockInv
<1>1. UserLocks'
  BY DEF LockInv, UserLocks, locks
<1>2. ASSUME NEW q \in Requests \ {r} PROVE RequestInv(q)'
  <2>1. Untouched(q)
    BY DEF Untouched, TypeOK, Goto, locks
  <2> QED
    BY <2>1, OthersKept, UnchangedRows DEF LockInv
<1>3. pc'[r] = "device_commit" /\ view'[r].owner = owner[req[r].dev]
  BY <1>0 DEF Goto, TypeOK, View
<1>4. /\ Progress(r)' /\ Membership(r)' /\ BoxView(r)' /\ ChatView(r)' /\ UsersHeld(r)'
      /\ CheckedTargets(r)'
  BY <1>0, <1>3 DEF RequestInv, Progress, Membership, BoxView, ChatView, UsersHeld,
              CheckedTargets, ChatHeldAt, SharesHeldAt, DeviceAt, locks
<1>5. DeviceView(r)'
  BY <1>3 DEF DeviceView, store
<1> QED
  BY <1>1, <1>2, <1>4, <1>5 DEF LockInv, RequestInv

----------------------------------------------------------------------------
(* The commits write only rows whose locks they hold *)

\* A chat's lock has one holder.
LEMMA OneInChat ==
  ASSUME LockInv, NEW q \in Requests, NEW r \in Requests,
         pc[q] \in ChatHeldAt, pc[r] \in ChatHeldAt, req[q].chat = req[r].chat
  PROVE  q = r
  BY DEF LockInv, RequestInv, ChatView

\* The rows written by a delivery.
SendWrites(r) ==
    /\ pc[r] = "commit" /\ Kind[r] = "send"
    /\ ByClientId(req[r].dev, req[r].cid) = {}
    /\ RowsUnique(r)
    /\ chatSeq' = [chatSeq EXCEPT ![req[r].chat] = view[r].chatSeq + 1]
    /\ boxSeq' = [d \in Devices |->
                     IF d \in req[r].targets THEN view[r].boxSeq[d] + 1 ELSE boxSeq[d]]
    /\ messages' = messages \cup {NewMessage(r)}
    /\ envelopes' = envelopes \cup NewEnvelopes(r)
    /\ Finish(r, Accepted(NewMessage(r)))
    /\ UNCHANGED <<owner, revoked, readSeq>>

\* The commit of a send inserts its rows, or answers with the earlier message, or fails.
LEMMA SendCommitCases ==
  ASSUME NEW r \in Requests, SendCommit(r)
  PROVE  \/ SendWrites(r)
         \/ /\ UNCHANGED store
            /\ \/ /\ ByClientId(req[r].dev, req[r].cid) = {}
                  /\ ~RowsUnique(r)
                  /\ Finish(r, Ended("integrity_error"))
               \/ /\ ByClientId(req[r].dev, req[r].cid) # {}
                  /\ Finish(r, [status |-> "accepted",
                                message |-> ByClientId(req[r].dev, req[r].cid)])
  BY DEF SendCommit, SendWrites

\* The rows that a send inserts disturb no request that holds other locks.
LEMMA SendKeepsRows ==
  ASSUME TypeOK, LockInv, NEW r \in Requests, SendWrites(r)
  PROVE  \A q \in Requests \ {r} : RowsKept(q)
<1> SUFFICES ASSUME NEW q \in Requests \ {r} PROVE RowsKept(q)
  OBVIOUS
<1>0. req[r] \in Request /\ req[q] \in Request /\ RequestInv(r) /\ RequestInv(q)
  BY DEF TypeOK, LockInv
<1>1. pc[q] \in ChatHeldAt => req[q].chat # req[r].chat
  BY OneInChat DEF SendWrites, ChatHeldAt
<1>2. pc[q] \in ChatHeldAt => chatSeq'[req[q].chat] = chatSeq[req[q].chat]
  BY <1>0, <1>1 DEF SendWrites, TypeOK, Request
<1>3. \A d \in Devices : boxLock[d] = q => boxSeq'[d] = boxSeq[d]
  BY <1>0 DEF SendWrites, RequestInv, BoxView, TypeOK
<1> QED
  BY <1>2, <1>3 DEF RowsKept, SendWrites, ActiveDevices

\* An advanced read cursor disturbs no other request.
LEMMA ReadKeepsRows ==
  ASSUME TypeOK, LockInv, NEW r \in Requests, ReadCommit(r)
  PROVE  \A q \in Requests \ {r} : RowsKept(q)
<1> SUFFICES ASSUME NEW q \in Requests \ {r} PROVE RowsKept(q)
  OBVIOUS
<1>0. req[r] \in Request /\ req[q] \in Request
  BY DEF TypeOK
<1>1. pc[q] \in ChatHeldAt => req[q].chat # req[r].chat
  BY OneInChat DEF ReadCommit, ChatHeldAt
<1>2. pc[q] \in ChatHeldAt => readSeq'[req[q].chat] = readSeq[req[q].chat]
  BY <1>0, <1>1 DEF ReadCommit, TypeOK, Request
<1> QED
  BY <1>2 DEF RowsKept, ReadCommit, ActiveDevices

\* Nobody changes the device set of a user whose row a delivery shares.
LEMMA DeviceSetLocked ==
  ASSUME TypeOK, LockInv, NEW q \in Requests, NEW r \in Requests,
         pc[q] \in SharesHeldAt, pc[r] = "device_commit"
  PROVE  req[r].user \notin Members[req[q].chat]
<1>0. RequestInv(q) /\ RequestInv(r) /\ req[r] \in Request /\ UserLocks
  BY DEF LockInv, TypeOK
<1>1. userLock[req[r].user] = r
  BY <1>0 DEF RequestInv, UsersHeld
<1> QED
  BY <1>0, <1>1, ConstantsAssumption DEF RequestInv, UsersHeld, UserLocks, Request

\* A login changes no device set that a send has checked.
LEMMA LoginKeepsRows ==
  ASSUME TypeOK, LockInv, NEW r \in Requests, LoginCommit(r)
  PROVE  \A q \in Requests \ {r} : RowsKept(q)
<1> SUFFICES ASSUME NEW q \in Requests \ {r} PROVE RowsKept(q)
  OBVIOUS
<1>0. /\ req[r] \in Request /\ req[q] \in Request /\ RequestInv(r)
      /\ pc[r] = "device_commit" /\ Kind[r] = "login"
  BY DEF TypeOK, LockInv, LoginCommit
<1>1. CASE UNCHANGED store
  BY <1>1, UnchangedRows
<1>2. CASE /\ ~(view[r].owner = NoUser /\ owner[req[r].dev] # NoUser)
           /\ owner' = [owner EXCEPT ![req[r].dev] = req[r].user]
           /\ UNCHANGED <<revoked, chatSeq, boxSeq, messages, envelopes, readSeq>>
  <2>1. owner[req[r].dev] \in {NoUser, req[r].user}
    BY <1>0, <1>2 DEF RequestInv, DeviceView
  <2>2. \A d \in Devices : owner[d] # NoUser => owner'[d] = owner[d]
    BY <1>0, <1>2, <2>1 DEF TypeOK, Request
  <2>3. ASSUME pc[q] \in {"boxes", "commit"}, NEW u \in Members[req[q].chat]
        PROVE  ActiveDevices(u)' = ActiveDevices(u)
    <3>1. u # req[r].user /\ u # NoUser
      BY <1>0, <2>3, DeviceSetLocked, ConstantsAssumption DEF SharesHeldAt, Request
    <3>2. \A d \in Devices : owner'[d] = u <=> owner[d] = u
      BY <1>0, <1>2, <2>1, <3>1 DEF TypeOK, Request
    <3> QED
      BY <1>2, <3>2 DEF ActiveDevices
  <2>4. owner[req[q].dev] = req[q].user => owner'[req[q].dev] = req[q].user
    BY <1>0, <2>2, ConstantsAssumption DEF Request
  <2> QED
    BY <1>2, <2>3, <2>4 DEF RowsKept
<1> QED
  BY <1>1, <1>2 DEF LoginCommit

\* A revocation changes no device set that a send has checked.
LEMMA RevokeKeepsRows ==
  ASSUME TypeOK, LockInv, NEW r \in Requests, RevokeCommit(r)
  PROVE  \A q \in Requests \ {r} : RowsKept(q)
<1> SUFFICES ASSUME NEW q \in Requests \ {r} PROVE RowsKept(q)
  OBVIOUS
<1>0. /\ req[r] \in Request /\ RequestInv(r)
      /\ pc[r] = "device_commit" /\ Kind[r] = "revoke"
      /\ revoked' = revoked \cup {req[r].dev}
      /\ UNCHANGED <<owner, chatSeq, boxSeq, messages, envelopes, readSeq>>
  BY DEF TypeOK, LockInv, RevokeCommit
<1>1. ASSUME pc[q] \in {"boxes", "commit"}, NEW u \in Members[req[q].chat]
      PROVE  ActiveDevices(u)' = ActiveDevices(u)
  <2>1. u # req[r].user
    BY <1>0, <1>1, DeviceSetLocked DEF SharesHeldAt
  <2>2. owner[req[r].dev] = req[r].user
    BY <1>0 DEF RequestInv, DeviceView
  <2> QED
    BY <1>0, <2>1, <2>2 DEF ActiveDevices
<1> QED
  BY <1>0, <1>1 DEF RowsKept

\* Every step keeps the lock discipline and what requests know under their locks.
LEMMA NextLockInv == TypeOK /\ LockInv /\ [Next]_vars => LockInv'
<1> SUFFICES ASSUME TypeOK, LockInv, [Next]_vars PROVE LockInv'
  OBVIOUS
<1>1. ASSUME NEW r \in Requests, SendStart(r) \/ ReadStart(r) \/ DeviceStart(r)
      PROVE  LockInv'
  BY <1>1, StartLockInv
<1>2. ASSUME NEW r \in Requests, NEW answer \in Answer, Finish(r, answer), UNCHANGED store
      PROVE  LockInv'
  BY <1>2, FinishLockInv, UnchangedRows
<1>3. ASSUME NEW r \in Requests PROVE req[r] \in Request
  BY DEF TypeOK
<1>4. ASSUME NEW r \in Requests, SendLockChat(r) PROVE LockInv'
  <2>1. [status |-> "accepted", message |-> ByClientId(req[r].dev, req[r].cid)] \in Answer
    BY <1>3, LookupType DEF Request
  <2> QED
    BY <1>2, <1>4, <2>1, ChatLockInv DEF SendLockChat
<1>5. ASSUME NEW r \in Requests, SendLockUser(r) \/ SendLockBox(r) \/ DeviceLockUser(r)
      PROVE  LockInv'
  BY <1>5, ShareLockInv, BoxLockInv, UserLockInv
<1>6. ASSUME NEW r \in Requests, SendCheckTargets(r) PROVE LockInv'
  <2>1. Ended("delivery_targets_changed") \in Answer
    BY EndedType DEF Rejections
  <2> QED
    BY <1>2, <1>6, <2>1, TargetsInv DEF SendCheckTargets
<1>7. ASSUME NEW r \in Requests, SendCommit(r) PROVE LockInv'
  <2>1. CASE SendWrites(r)
    <3>1. Accepted(NewMessage(r)) \in Answer
      BY NewRowsType DEF Accepted, Answer
    <3> QED
      BY <2>1, <3>1, SendKeepsRows, FinishLockInv DEF SendWrites
  <2>2. CASE ~SendWrites(r)
    <3>1. Ended("integrity_error") \in Answer
      BY EndedType DEF Rejections
    <3>2. [status |-> "accepted", message |-> ByClientId(req[r].dev, req[r].cid)] \in Answer
      BY <1>3, LookupType DEF Request
    <3> QED
      BY <1>2, <1>7, <2>2, <3>1, <3>2, SendCommitCases
  <2> QED
    BY <2>1, <2>2
<1>8. ASSUME NEW r \in Requests, ReadLockChat(r) PROVE LockInv'
  <2>1. Ended("invalid_read_position") \in Answer
    BY EndedType DEF Rejections
  <2> QED
    BY <1>2, <1>8, <2>1, ChatLockInv DEF ReadLockChat
<1>9. ASSUME NEW r \in Requests, DeviceRead(r) PROVE LockInv'
  <2>1. CASE UNCHANGED store /\ \E s \in Rejections \cup {"done"} : Finish(r, Ended(s))
    BY <1>2, <2>1, EndedType
  <2>2. CASE ~\E s \in Rejections \cup {"done"} : Finish(r, Ended(s))
    <3>1. /\ pc[r] = "device"
          /\ Kind[r] = "login" => owner[req[r].dev] \in {req[r].user, NoUser}
          /\ Kind[r] = "revoke" => owner[req[r].dev] = req[r].user
          /\ view' = [view EXCEPT ![r].owner = owner[req[r].dev]]
          /\ Goto(r, "device_commit")
          /\ UNCHANGED <<store, locks, req, result>>
      BY <1>9, <2>2 DEF DeviceRead, Rejections
    <3> QED
      BY <3>1, DeviceReadInv
  <2> QED
    BY <1>9, <2>1, <2>2 DEF DeviceRead
<1>10. ASSUME NEW r \in Requests, ReadCommit(r) \/ LoginCommit(r) \/ RevokeCommit(r)
       PROVE  LockInv'
  <2>1. \E s \in {"done", "device_conflict"} : Finish(r, Ended(s))
    BY <1>10 DEF ReadCommit, LoginCommit, RevokeCommit
  <2> QED
    BY <1>10, <2>1, EndedType, ReadKeepsRows, LoginKeepsRows, RevokeKeepsRows,
       FinishLockInv DEF Rejections
<1>11. ASSUME NEW r \in Requests, Rollback(r) PROVE LockInv'
  <2>1. Ended("rolled_back") \in Answer
    BY EndedType DEF Rejections
  <2> QED
    BY <1>2, <1>11, <2>1 DEF Rollback
<1>12. CASE UNCHANGED vars
  BY <1>12
     DEF vars, store, locks, LockInv, UserLocks, RequestInv, Progress, Membership,
         ChatView, BoxView, UsersHeld, DeviceView, CheckedTargets, TargetsCurrent,
         ActiveDevices, RecipientDevices, Peer, PositionExists
<1> QED
  BY <1>1, <1>4, <1>5, <1>6, <1>7, <1>8, <1>9, <1>10, <1>11, <1>12
     DEF Next, Step, AllEnded

----------------------------------------------------------------------------
(* What the stored rows say *)

\* A step that writes neither messages nor envelopes and gives r an answer that
\* is true of the stored messages.
LEMMA AnswerStep ==
  ASSUME TypeOK, StoreInv, NEW r \in Requests,
         UNCHANGED <<chatSeq, boxSeq, messages, envelopes>>,
         \A q \in Requests \ {r} : result'[q] = result[q] /\ req'[q] = req[q],
         \/ result'[r].status \notin {"accepted", "integrity_error"}
         \/ /\ result'[r].status = "accepted"
            /\ result'[r].message = {m \in messages : m.key = <<req'[r].dev, req'[r].cid>>}
            /\ result'[r].message # {},
         ReadCursorOnMessage'
  PROVE  StoreInv'
<1>1. ChatPositionsGapless' /\ MailboxGapless' /\ EnvelopeOfMessage'
  BY DEF StoreInv, ChatPositionsGapless, MailboxGapless, EnvelopeOfMessage, PositionExists
<1>2. NoIntegrityError'
  BY DEF StoreInv, NoIntegrityError
<1>3. AcceptedOnce'
  BY DEF StoreInv, AcceptedOnce
<1> QED
  BY <1>1, <1>2, <1>3 DEF StoreInv

\* Read cursors stay on stored positions while neither changes.
LEMMA CursorKept ==
  ASSUME ReadCursorOnMessage, UNCHANGED <<messages, readSeq>>
  PROVE  ReadCursorOnMessage'
  BY DEF ReadCursorOnMessage, PositionExists

\* The locks keep a delivery clear of the unique constraints.
LEMMA RowsAreUnique ==
  ASSUME IInv, NEW r \in Requests, pc[r] = "commit",
         ByClientId(req[r].dev, req[r].cid) = {}
  PROVE  RowsUnique(r)
<1>0. /\ req[r] \in Request /\ view[r] \in View /\ RequestInv(r) /\ Kind[r] = "send"
      /\ TypeOK /\ StoreInv
  BY DEF IInv, TypeOK, LockInv, RequestInv, Progress, SharesHeldAt
<1>1. view[r].chatSeq = chatSeq[req[r].chat]
  BY <1>0 DEF RequestInv, ChatView, ChatHeldAt
<1>2. ~PositionExists(req[r].chat, view[r].chatSeq + 1)
  BY <1>0, <1>1 DEF StoreInv, ChatPositionsGapless, PositionExists, TypeOK, Request
<1>3. ASSUME NEW e \in envelopes, NEW d \in req[r].targets, e.dev = d
      PROVE  e.seq # view[r].boxSeq[d] + 1 /\ e.key # <<req[r].dev, req[r].cid>>
  <2>1. d \in Devices /\ view[r].boxSeq[d] = boxSeq[d]
    BY <1>0, <1>3 DEF RequestInv, BoxView, Request
  <2>2. e.seq \in 1..boxSeq[d] /\ boxSeq[d] \in Nat
    BY <1>0, <1>3, <2>1 DEF StoreInv, MailboxGapless, TypeOK
  <2>3. e.key # <<req[r].dev, req[r].cid>>
    BY <1>0 DEF StoreInv, EnvelopeOfMessage, ByClientId
  <2> QED
    BY <2>1, <2>2, <2>3
<1> QED
  BY <1>2, <1>3 DEF RowsUnique, NewEnvelopes

\* The rows that a send inserts keep the numbering, the idempotency and the constraints.
LEMMA SendStoreInv ==
  ASSUME IInv, NEW r \in Requests, SendWrites(r)
  PROVE  StoreInv'
<1> DEFINE c == req[r].chat
           key == <<req[r].dev, req[r].cid>>
           new == NewMessage(r)
<1>0. /\ req[r] \in Request /\ view[r] \in View /\ RequestInv(r) /\ Kind[r] = "send"
      /\ TypeOK /\ StoreInv /\ c \in Chats /\ chatSeq[c] \in Nat
  BY DEF IInv, TypeOK, LockInv, SendWrites, Request
<1>1. /\ view[r].chatSeq = chatSeq[c]
      /\ \A d \in req[r].targets : d \in Devices /\ view[r].boxSeq[d] = boxSeq[d]
  BY <1>0 DEF RequestInv, ChatView, BoxView, ChatHeldAt, SendWrites, Request
<1>2. /\ new.key = key /\ new.chat = c /\ new.seq = chatSeq[c] + 1
      /\ messages' = messages \cup {new}
      /\ chatSeq' = [chatSeq EXCEPT ![c] = chatSeq[c] + 1]
      /\ \A m \in messages : m.key # key
  BY <1>1 DEF SendWrites, NewMessage, ByClientId
<1>3. ChatPositionsGapless'
  <2> SUFFICES ASSUME NEW b \in Chats
               PROVE  /\ \A n \in 1..chatSeq'[b] : PositionExists(b, n)'
                      /\ \A m \in messages' : m.chat = b => m.seq \in 1..chatSeq'[b]
                      /\ \A m1, m2 \in messages' :
                            m1.chat = b /\ m2.chat = b /\ m1.seq = m2.seq => m1 = m2
    BY DEF ChatPositionsGapless
  <2>1. /\ \A n \in 1..chatSeq[b] : \E m \in messages : m.chat = b /\ m.seq = n
        /\ \A m \in messages : m.chat = b => m.seq \in 1..chatSeq[b]
        /\ \A m1, m2 \in messages :
              m1.chat = b /\ m2.chat = b /\ m1.seq = m2.seq => m1 = m2
    BY <1>0 DEF StoreInv, ChatPositionsGapless, PositionExists
  <2>2. CASE b = c
    <3>1. chatSeq'[b] = chatSeq[c] + 1
      BY <1>0, <1>2, <2>2 DEF TypeOK
    <3>2. \A n \in 1..chatSeq'[b] : \E m \in messages' : m.chat = b /\ m.seq = n
      BY <1>0, <1>2, <2>1, <2>2, <3>1
    <3>3. \A m \in messages' : m.chat = b => m.seq \in 1..chatSeq'[b]
      BY <1>0, <1>2, <2>1, <2>2, <3>1
    <3>4. \A m1, m2 \in messages' :
              m1.chat = b /\ m2.chat = b /\ m1.seq = m2.seq => m1 = m2
      BY <1>0, <1>2, <2>1, <2>2
    <3> QED
      BY <3>2, <3>3, <3>4 DEF PositionExists
  <2>3. CASE b # c
    <3>1. chatSeq'[b] = chatSeq[b]
      BY <1>0, <1>2, <2>3 DEF TypeOK
    <3> QED
      BY <1>2, <2>1, <2>3, <3>1 DEF PositionExists
  <2> QED
    BY <2>2, <2>3
<1>4. MailboxGapless'
  <2> SUFFICES ASSUME NEW d \in Devices
               PROVE  /\ \A n \in 1..boxSeq'[d] :
                            \E e \in envelopes' : e.dev = d /\ e.seq = n
                      /\ \A e \in envelopes' : e.dev = d => e.seq \in 1..boxSeq'[d]
                      /\ \A e1, e2 \in envelopes' :
                            e1.dev = d /\ e2.dev = d /\ e1.seq = e2.seq => e1 = e2
    BY DEF MailboxGapless
  <2>0. boxSeq[d] \in Nat
    BY <1>0 DEF TypeOK
  <2>1. /\ \A n \in 1..boxSeq[d] : \E e \in envelopes : e.dev = d /\ e.seq = n
        /\ \A e \in envelopes : e.dev = d => e.seq \in 1..boxSeq[d]
        /\ \A e1, e2 \in envelopes :
              e1.dev = d /\ e2.dev = d /\ e1.seq = e2.seq => e1 = e2
    BY <1>0 DEF StoreInv, MailboxGapless
  <2>2. CASE d \in req[r].targets
    <3> DEFINE row == [key |-> key, dev |-> d, seq |-> boxSeq[d] + 1]
    <3>1. boxSeq'[d] = boxSeq[d] + 1
      BY <1>1, <2>2 DEF SendWrites
    <3>2. row \in envelopes' /\ envelopes \subseteq envelopes'
      BY <1>1, <2>2 DEF SendWrites, NewEnvelopes
    <3>3. \A e \in envelopes' : e.dev = d => e \in envelopes \/ e = row
      BY <1>1, <2>2 DEF SendWrites, NewEnvelopes
    <3>4. row.dev = d /\ row.seq = boxSeq[d] + 1
      OBVIOUS
    <3> HIDE DEF row
    <3>5. \A n \in 1..boxSeq'[d] : \E e \in envelopes' : e.dev = d /\ e.seq = n
      BY <2>0, <2>1, <3>1, <3>2, <3>4
    <3>6. \A e \in envelopes' : e.dev = d => e.seq \in 1..boxSeq'[d]
      BY <2>0, <2>1, <3>1, <3>3, <3>4
    <3>7. \A e1, e2 \in envelopes' :
              e1.dev = d /\ e2.dev = d /\ e1.seq = e2.seq => e1 = e2
      BY <2>0, <2>1, <3>3, <3>4
    <3> QED
      BY <3>5, <3>6, <3>7
  <2>3. CASE d \notin req[r].targets
    <3>1. boxSeq'[d] = boxSeq[d]
      BY <2>3 DEF SendWrites
    <3>2. envelopes \subseteq envelopes'
      BY DEF SendWrites
    <3>3. \A e \in envelopes' : e.dev = d => e \in envelopes
      BY <2>3 DEF SendWrites, NewEnvelopes
    <3> QED
      BY <2>1, <3>1, <3>2, <3>3
  <2> QED
    BY <2>2, <2>3
<1>5. EnvelopeOfMessage'
  <2>1. \A e \in NewEnvelopes(r) : e.key = new.key
    BY <1>2 DEF NewEnvelopes
  <2> QED
    BY <1>0, <1>2, <2>1 DEF EnvelopeOfMessage, StoreInv, SendWrites
<1>6. /\ \A q \in Requests : req'[q] = req[q]
      /\ \A q \in Requests \ {r} : result'[q] = result[q]
      /\ result'[r].status = "accepted" /\ result'[r].message = {new}
  BY <1>0 DEF SendWrites, Finish, Accepted, TypeOK
<1>7. AcceptedOnce'
  <2>1. \A m1, m2 \in messages' : m1.key = m2.key => m1 = m2
    BY <1>0, <1>2 DEF StoreInv, AcceptedOnce
  <2>2. {m \in messages' : m.key = key} = {new}
    BY <1>2
  <2>3. ASSUME NEW q \in Requests \ {r}, Kind[q] = "send", result'[q].status = "accepted"
        PROVE  /\ result'[q].message # {}
               /\ result'[q].message = {m \in messages' : m.key = <<req'[q].dev, req'[q].cid>>}
    <3>1. /\ result[q].message # {}
          /\ result[q].message = {m \in messages : m.key = <<req[q].dev, req[q].cid>>}
      BY <1>0, <1>6, <2>3 DEF StoreInv, AcceptedOnce
    <3>2. key # <<req[q].dev, req[q].cid>>
      BY <1>2, <3>1
    <3> QED
      BY <1>2, <1>6, <3>1, <3>2
  <2> QED
    BY <1>6, <2>1, <2>2, <2>3 DEF AcceptedOnce
<1>8. NoIntegrityError'
  BY <1>0, <1>6 DEF StoreInv, NoIntegrityError
<1>9. ReadCursorOnMessage'
  BY <1>0, <1>2 DEF StoreInv, ReadCursorOnMessage, PositionExists, SendWrites
<1> QED
  BY <1>3, <1>4, <1>5, <1>7, <1>8, <1>9 DEF StoreInv

\* The commit of advance keeps the properties of the stored rows.
LEMMA ReadStoreInv ==
  ASSUME IInv, NEW r \in Requests, ReadCommit(r)
  PROVE  ReadCursorOnMessage'
<1>0. /\ req[r] \in Request /\ RequestInv(r) /\ TypeOK /\ StoreInv
      /\ pc[r] = "read_commit" /\ Kind[r] = "read" /\ UNCHANGED messages
      /\ readSeq' \in {readSeq, [readSeq EXCEPT ![req[r].chat][req[r].user] = req[r].position]}
  BY DEF IInv, TypeOK, LockInv, ReadCommit
<1>1. /\ req[r].user \in Members[req[r].chat]
      /\ req[r].position # 0 => PositionExists(req[r].chat, req[r].position)
  BY <1>0 DEF RequestInv, Membership, ChatView, ChatHeldAt
<1>2. ASSUME NEW c \in Chats, NEW u \in Users, readSeq'[c][u] # 0
      PROVE  u \in Members[c] /\ PositionExists(c, readSeq'[c][u])
  <2>1. \/ readSeq'[c][u] = readSeq[c][u]
        \/ /\ c = req[r].chat /\ u = req[r].user
           /\ readSeq'[c][u] = req[r].position
    <3>1. readSeq \in [Chats -> [Users -> Nat]]
      BY <1>0 DEF TypeOK
    <3>2. CASE readSeq' = [readSeq EXCEPT ![req[r].chat][req[r].user] = req[r].position]
      <4>1. CASE c = req[r].chat
        BY <3>1, <3>2, <4>1
      <4>2. CASE c # req[r].chat
        BY <3>1, <3>2, <4>2
      <4> QED
        BY <4>1, <4>2
    <3> QED
      BY <1>0, <3>2, Zenon
  <2> QED
    BY <1>0, <1>1, <1>2, <2>1 DEF StoreInv, ReadCursorOnMessage
<1> QED
  BY <1>0, <1>2 DEF ReadCursorOnMessage, PositionExists

\* Every step keeps the properties of the stored rows.
LEMMA NextStoreInv == IInv /\ [Next]_vars => StoreInv'
<1> SUFFICES ASSUME IInv, [Next]_vars PROVE StoreInv'
  OBVIOUS
<1>0. TypeOK /\ LockInv /\ StoreInv /\ ReadCursorOnMessage
  BY DEF IInv, StoreInv
<1>1. ASSUME NEW r \in Requests, NEW answer, Finish(r, answer),
             answer.status \notin {"accepted", "integrity_error"},
             UNCHANGED <<chatSeq, boxSeq, messages, envelopes>>, ReadCursorOnMessage'
      PROVE  StoreInv'
  BY <1>0, <1>1, AnswerStep DEF Finish, TypeOK
<1>2. ASSUME NEW r \in Requests, UNCHANGED store,
             ByClientId(req[r].dev, req[r].cid) # {},
             Finish(r, [status |-> "accepted", message |-> ByClientId(req[r].dev, req[r].cid)])
      PROVE  StoreInv'
  BY <1>0, <1>2, AnswerStep, CursorKept DEF Finish, TypeOK, ByClientId, store
<1>3. ASSUME NEW r \in Requests, UNCHANGED <<store, req, result>>
      PROVE  StoreInv'
  BY <1>0, <1>3
     DEF StoreInv, ChatPositionsGapless, MailboxGapless, EnvelopeOfMessage, AcceptedOnce,
         NoIntegrityError, ReadCursorOnMessage, PositionExists, store
<1>4. \A s : Ended(s).status = s
  BY DEF Ended
<1>5. ASSUME NEW r \in Requests, SendStart(r) \/ ReadStart(r) \/ DeviceStart(r)
      PROVE  StoreInv'
  <2>1. pc[r] = "start" /\ result[r].status = "none" /\ UNCHANGED store
    BY <1>0, <1>5 DEF LockInv, RequestInv, Progress, SendStart, ReadStart, DeviceStart
  <2>2. \E ask : req' = [req EXCEPT ![r] = ask]
    BY <1>5 DEF SendStart, ReadStart, DeviceStart
  <2>3. \/ UNCHANGED result
        \/ \E s \in {"chat_not_found", "invalid_envelope"} :
              result' = [result EXCEPT ![r] = Ended(s)]
        \/ /\ ByClientId(req'[r].dev, req'[r].cid) # {}
           /\ result' = [result EXCEPT ![r] =
                [status |-> "accepted", message |-> ByClientId(req'[r].dev, req'[r].cid)]]
    <3>1. CASE SendStart(r)
      <4>1. PICK d \in Devices, cid \in ClientIds, c \in Chats :
            \E targets \in {RecipientDevices(d, c)} \cup OldTargets :
              /\ Authenticated(d)
              /\ req' = [req EXCEPT ![r] = [user |-> owner[d], dev |-> d, cid |-> cid,
                                            chat |-> c, targets |-> targets,
                                            position |-> 0]]
              /\ \/ /\ ByClientId(d, cid) # {}
                    /\ End(r, [status |-> "accepted", message |-> ByClientId(d, cid)])
                 \/ /\ ByClientId(d, cid) = {}
                    /\ owner[d] \notin Members[c]
                    /\ End(r, Ended("chat_not_found"))
                 \/ /\ ByClientId(d, cid) = {}
                    /\ owner[d] \in Members[c]
                    /\ \/ End(r, Ended("invalid_envelope"))
                       \/ Goto(r, "chat") /\ UNCHANGED result
        BY <3>1 DEF SendStart
      <4>2. req'[r].dev = d /\ req'[r].cid = cid
        BY <1>0, <4>1 DEF TypeOK
      <4> QED
        BY <4>1, <4>2 DEF End
    <3>2. CASE ReadStart(r) \/ DeviceStart(r)
      BY <3>2 DEF ReadStart, DeviceStart, End
    <3> QED
      BY <1>5, <3>1, <3>2
  <2>4. \A q \in Requests \ {r} : result'[q] = result[q] /\ req'[q] = req[q]
    BY <1>0, <2>2, <2>3 DEF TypeOK
  <2>5. \/ result'[r].status \notin {"accepted", "integrity_error"}
        \/ /\ result'[r].status = "accepted"
           /\ result'[r].message = {m \in messages : m.key = <<req'[r].dev, req'[r].cid>>}
           /\ result'[r].message # {}
    BY <1>0, <1>4, <2>1, <2>3 DEF TypeOK, ByClientId
  <2> QED
    BY <1>0, <2>1, <2>4, <2>5, AnswerStep, CursorKept DEF store
<1>6. ASSUME NEW r \in Requests,
             \/ SendLockChat(r) \/ SendLockUser(r) \/ SendCheckTargets(r)
             \/ SendLockBox(r) \/ ReadLockChat(r) \/ DeviceLockUser(r) \/ Rollback(r)
      PROVE  StoreInv'
  <2>1. UNCHANGED store /\ ReadCursorOnMessage'
    BY <1>0, <1>6, CursorKept DEF store, SendLockChat, SendLockUser, SendCheckTargets,
         SendLockBox, ReadLockChat, DeviceLockUser, Rollback
  <2> QED
    BY <1>1, <1>2, <1>3, <1>4, <1>6, <2>1
       DEF store, SendLockChat, SendLockUser, SendCheckTargets, SendLockBox,
           ReadLockChat, DeviceLockUser, Rollback
<1>7. ASSUME NEW r \in Requests, DeviceRead(r) PROVE StoreInv'
  <2>1. UNCHANGED store /\ ReadCursorOnMessage'
    BY <1>0, <1>7, CursorKept DEF store, DeviceRead
  <2>2. \/ UNCHANGED <<req, result>>
        \/ \E s \in {"device_conflict", "device_revoked", "device_not_found", "done"} :
              Finish(r, Ended(s))
    BY <1>7 DEF DeviceRead
  <2> QED
    BY <1>1, <1>3, <1>4, <2>1, <2>2 DEF store
<1>8. ASSUME NEW r \in Requests, SendCommit(r) PROVE StoreInv'
  <2>1. pc[r] = "commit"
    BY <1>8 DEF SendCommit
  <2>2. SendWrites(r) \/ /\ UNCHANGED store
                         /\ ByClientId(req[r].dev, req[r].cid) # {}
                         /\ Finish(r, [status |-> "accepted",
                                       message |-> ByClientId(req[r].dev, req[r].cid)])
    BY <1>8, <2>1, SendCommitCases, RowsAreUnique
  <2> QED
    BY <1>2, <2>2, SendStoreInv
<1>9. ASSUME NEW r \in Requests, ReadCommit(r) PROVE StoreInv'
  BY <1>1, <1>4, <1>9, ReadStoreInv DEF ReadCommit
<1>10. ASSUME NEW r \in Requests, LoginCommit(r) \/ RevokeCommit(r) PROVE StoreInv'
  <2>1. /\ UNCHANGED <<chatSeq, boxSeq, messages, envelopes, readSeq>>
        /\ \E s \in {"done", "device_conflict"} : Finish(r, Ended(s))
    BY <1>10 DEF LoginCommit, RevokeCommit, store
  <2> QED
    BY <1>0, <1>1, <1>4, <2>1, CursorKept
<1>11. CASE UNCHANGED vars
  BY <1>0, <1>11
     DEF StoreInv, ChatPositionsGapless, MailboxGapless, EnvelopeOfMessage, AcceptedOnce,
         NoIntegrityError, ReadCursorOnMessage, PositionExists, vars, store
<1> QED
  BY <1>5, <1>6, <1>7, <1>8, <1>9, <1>10, <1>11 DEF Next, Step, AllEnded

\* The initial database satisfies the inductive invariant.
LEMMA InitIInv == Init => IInv
<1> SUFFICES ASSUME Init PROVE IInv
  OBVIOUS
<1>1. TypeOK
  BY InitType
<1>2. LockInv
  BY ConstantsAssumption
     DEF Init, Ended, LockInv, UserLocks, RequestInv, Progress, Membership, ChatView,
         BoxView, UsersHeld, DeviceView, CheckedTargets, ChatHeldAt, SharesHeldAt, DeviceAt
<1>3. StoreInv
  BY DEF Init, Ended, StoreInv, ChatPositionsGapless, MailboxGapless, EnvelopeOfMessage,
         AcceptedOnce, NoIntegrityError, ReadCursorOnMessage
<1> QED
  BY <1>1, <1>2, <1>3 DEF IInv

\* The inductive invariant holds in every reachable state.
THEOREM Invariance == Spec => []IInv
<1>1. IInv /\ [Next]_vars => IInv'
  BY NextType, NextLockInv, NextStoreInv DEF IInv
<1> QED
  BY <1>1, InitIInv, PTL DEF Spec

----------------------------------------------------------------------------
(* The properties that the runs check *)

\* Type correctness of the store, the locks and the requests.
THEOREM TypeCorrect == Spec => []TypeOK
<1>1. IInv => TypeOK
  BY DEF IInv
<1> QED
  BY <1>1, Invariance, PTL

\* MessageService.send numbers the messages of a chat without gaps and without
\* duplicates, however its transactions interleave and fail.
THEOREM ChatNumbering == Spec => []ChatPositionsGapless
<1>1. IInv => ChatPositionsGapless
  BY DEF IInv, StoreInv
<1> QED
  BY <1>1, Invariance, PTL

\* _create_envelopes numbers the envelopes of a mailbox without gaps and without
\* duplicates, although deliveries in different chats share mailboxes.
THEOREM MailboxNumbering == Spec => []MailboxGapless
<1>1. IInv => MailboxGapless
  BY DEF IInv, StoreInv
<1> QED
  BY <1>1, Invariance, PTL

\* A client message id is accepted as one message, and every accepted request
\* answers with it.
THEOREM Idempotence == Spec => []AcceptedOnce
<1>1. IInv => AcceptedOnce
  BY DEF IInv, StoreInv
<1> QED
  BY <1>1, Invariance, PTL

\* send never meets a unique constraint that it has no answer for.
THEOREM ConstraintsKept == Spec => []NoIntegrityError
<1>1. IInv => NoIntegrityError
  BY DEF IInv, StoreInv
<1> QED
  BY <1>1, Invariance, PTL

\* ChatReadService.advance leaves every cursor on an existing position.
THEOREM CursorsExist == Spec => []ReadCursorOnMessage
<1>1. IInv => ReadCursorOnMessage
  BY DEF IInv, StoreInv
<1> QED
  BY <1>1, Invariance, PTL

\* Only the commit of a delivery stores a message.
LEMMA OnlySendStores ==
  ASSUME [Next]_vars, messages' # messages
  PROVE  \E r \in Requests : SendWrites(r)
<1>1. ASSUME NEW r \in Requests, SendCommit(r) PROVE SendWrites(r)
  BY <1>1, SendCommitCases DEF store
<1> QED
  BY <1>1
     DEF Next, Step, AllEnded, vars, store, SendStart, ReadStart, DeviceStart, Rollback,
         SendLockChat, SendLockUser, SendCheckTargets, SendLockBox, ReadLockChat,
         ReadCommit, DeviceLockUser, DeviceRead, LoginCommit, RevokeCommit

\* No login and no revocation slips between the check of a delivery's targets
\* and its commit: a message goes to exactly the devices active at the commit.
THEOREM CurrentDevices == Spec => DeliveredToCurrentDevices
<1> DEFINE Delivered(m) ==
      LET to == {e.dev : e \in {x \in envelopes' : x.key = m.key}}
      IN /\ Authenticated(m.key[1])
         /\ to = RecipientDevices(m.key[1], m.chat)
         /\ \E d \in to : owner[d] # owner[m.key[1]]
<1>1. ASSUME IInv, NEW r \in Requests, SendWrites(r) PROVE Delivered(NewMessage(r))
  <2> DEFINE to == {e.dev : e \in {x \in envelopes' : x.key = <<req[r].dev, req[r].cid>>}}
  <2>0. /\ req[r] \in Request /\ TypeOK /\ StoreInv /\ RequestInv(r)
        /\ pc[r] = "commit" /\ Kind[r] = "send"
    BY <1>1 DEF IInv, TypeOK, LockInv, SendWrites
  <2>1. /\ NewMessage(r).key = <<req[r].dev, req[r].cid>>
        /\ NewMessage(r).key[1] = req[r].dev
        /\ NewMessage(r).chat = req[r].chat
    BY DEF NewMessage
  <2>2. TargetsCurrent(r) /\ req[r].user \in Members[req[r].chat]
    BY <2>0 DEF RequestInv, CheckedTargets, Membership
  <2>3. owner[req[r].dev] = req[r].user /\ req[r].dev \notin revoked
    BY <2>2 DEF TargetsCurrent, ActiveDevices
  <2>4. Authenticated(req[r].dev)
    BY <2>0, <2>3, ConstantsAssumption DEF Authenticated, Request
  <2>5. to = req[r].targets
    <3>1. \A e \in envelopes : e.key # <<req[r].dev, req[r].cid>>
      BY <1>1, <2>0 DEF StoreInv, EnvelopeOfMessage, SendWrites, ByClientId
    <3>2. {x \in envelopes' : x.key = <<req[r].dev, req[r].cid>>} = NewEnvelopes(r)
      BY <1>1, <3>1 DEF SendWrites, NewEnvelopes
    <3>3. \A e \in NewEnvelopes(r) : e.dev \in req[r].targets
      BY DEF NewEnvelopes
    <3>4. \A d \in req[r].targets : \E e \in NewEnvelopes(r) : e.dev = d
      <4> TAKE d \in req[r].targets
      <4> DEFINE row == [key |-> <<req[r].dev, req[r].cid>>, dev |-> d,
                         seq |-> view[r].boxSeq[d] + 1]
      <4>1. row \in NewEnvelopes(r) /\ row.dev = d
        BY DEF NewEnvelopes
      <4> QED
        BY <4>1
    <3> QED
      BY <3>2, <3>3, <3>4
  <2>6. \E d \in to : owner[d] # owner[req[r].dev]
    <3>1. PICK u \in Peer(req[r].chat, req[r].user) : ActiveDevices(u) # {}
      BY <2>2 DEF TargetsCurrent
    <3>2. PICK d \in Devices : owner[d] = u /\ d \notin revoked
      BY <3>1 DEF ActiveDevices
    <3>3. u \in Members[req[r].chat] /\ u # req[r].user
      BY <3>1 DEF Peer
    <3>4. d \in RecipientDevices(req[r].dev, req[r].chat)
      <4>1. d \in ActiveDevices(u) /\ d # req[r].dev
        BY <2>3, <3>2, <3>3 DEF ActiveDevices
      <4> QED
        BY <3>3, <4>1 DEF RecipientDevices
    <3> QED
      BY <2>2, <2>3, <2>5, <3>2, <3>3, <3>4 DEF TargetsCurrent
  <2>7. to = RecipientDevices(req[r].dev, req[r].chat)
    BY <2>2, <2>5 DEF TargetsCurrent
  <2> QED
    BY <2>1, <2>4, <2>6, <2>7
<1>2. IInv /\ [Next]_vars => [\A m \in messages' \ messages : Delivered(m)]_vars
  <2> SUFFICES ASSUME IInv, [Next]_vars, NEW m \in messages' \ messages
               PROVE  Delivered(m)
    OBVIOUS
  <2>1. PICK r \in Requests : SendWrites(r)
    BY OnlySendStores
  <2>2. m = NewMessage(r)
    BY <2>1 DEF SendWrites
  <2> QED
    BY <1>1, <2>1, <2>2
<1> QED
  BY <1>2, Invariance, PTL DEF Spec, DeliveredToCurrentDevices

\* Reports of read positions that arrive in any order never move a cursor back.
THEOREM CursorsAdvance == Spec => ReadCursorMonotone
<1>1. IInv /\ [Next]_vars =>
        [\A c \in Chats, u \in Users : readSeq'[c][u] >= readSeq[c][u]]_vars
  <2> SUFFICES ASSUME IInv, [Next]_vars, NEW c \in Chats, NEW u \in Users
               PROVE  readSeq'[c][u] >= readSeq[c][u]
    OBVIOUS
  <2>0. readSeq \in [Chats -> [Users -> Nat]]
    BY DEF IInv, TypeOK
  <2>1. readSeq[c][u] \in Nat
    BY <2>0
  <2>2. CASE readSeq' = readSeq
    BY <2>1, <2>2
  <2>3. ASSUME NEW r \in Requests, ReadCommit(r) PROVE readSeq'[c][u] >= readSeq[c][u]
    <3>0. req[r] \in Request /\ view[r] \in View /\ RequestInv(r)
      BY DEF IInv, TypeOK, LockInv
    <3>1. view[r].readSeq = readSeq[req[r].chat][req[r].user]
      BY <2>3, <3>0 DEF ReadCommit, RequestInv, ChatView, ChatHeldAt
    <3>2. \/ readSeq' = readSeq
          \/ /\ req[r].position > readSeq[req[r].chat][req[r].user]
             /\ readSeq' = [readSeq EXCEPT ![req[r].chat][req[r].user] = req[r].position]
      BY <2>3, <3>1 DEF ReadCommit
    <3>3. CASE c = req[r].chat /\ u = req[r].user /\ readSeq' # readSeq
      BY <2>0, <3>0, <3>2, <3>3 DEF Request
    <3>4. CASE (c # req[r].chat \/ u # req[r].user) /\ readSeq' # readSeq
      <4>1. CASE c # req[r].chat
        BY <2>0, <2>1, <3>2, <3>4, <4>1
      <4>2. CASE c = req[r].chat
        BY <2>0, <2>1, <3>2, <3>4, <4>2
      <4> QED
        BY <4>1, <4>2
    <3> QED
      BY <2>2, <3>3, <3>4
  <2> QED
    BY <2>2, <2>3, SendCommitCases
       DEF Next, Step, AllEnded, vars, store, SendStart, ReadStart, DeviceStart, Rollback,
           SendLockChat, SendLockUser, SendCheckTargets, SendLockBox, SendWrites,
           ReadLockChat, DeviceLockUser, DeviceRead, LoginCommit, RevokeCommit
<1> QED
  BY <1>1, Invariance, PTL DEF Spec, ReadCursorMonotone
----------------------------------------------------------------------------
(* The lock order *)

\* Where a request that holds a lock can be.  The mailboxes that it has still to lock come
\* after those that it holds; whoever holds a user exclusively waits for nothing.
Holds(q) ==
    /\ \A c \in Chats : chatLock[c] = q => pc[q] \in ChatHeldAt
    /\ \A u \in Users : q \in shareLock[u] => pc[q] \in SharesHeldAt \cup {"users"}
    /\ \A u \in Users : userLock[u] = q => pc[q] \in {"device", "device_commit"}
    /\ \A d \in Devices : boxLock[d] = q =>
           /\ pc[q] \in {"boxes", "commit"}
           /\ pc[q] = "boxes" => \A e \in BoxesToLock(q) : d < e

OrderInv == \A q \in Requests : Holds(q)

\* A step of another request, which gives q no lock and takes no mailbox from it.
NoNewLock(q) ==
    /\ pc'[q] = pc[q] /\ req'[q] = req[q]
    /\ \A c \in Chats : chatLock'[c] = q => chatLock[c] = q
    /\ \A u \in Users : q \in shareLock'[u] => q \in shareLock[u]
    /\ \A u \in Users : userLock'[u] = q => userLock[u] = q
    /\ \A d \in Devices : boxLock'[d] = q <=> boxLock[d] = q

\* Such a step keeps what Holds says of q.
LEMMA HoldsKept ==
  ASSUME TypeOK, NEW q \in Requests, Holds(q), NoNewLock(q)
  PROVE  Holds(q)'
<1>1. req[q].targets \subseteq Devices
  BY DEF TypeOK, Request
<1>2. BoxesToLock(q)' = BoxesToLock(q)
  BY <1>1 DEF NoNewLock, BoxesToLock
<1> QED
  BY <1>2 DEF Holds, NoNewLock

\* A request that is over holds nothing: every early return, error and rollback releases.
LEMMA FinishHolds ==
  ASSUME TypeOK, OrderInv, NEW r \in Requests, NEW answer, Finish(r, answer)
  PROVE  OrderInv'
<1>1. Holds(r)'
  <2>1. /\ \A c \in Chats : chatLock'[c] # r
        /\ \A u \in Users : r \notin shareLock'[u] /\ userLock'[u] # r
        /\ \A d \in Devices : boxLock'[d] # r
    BY ConstantsAssumption DEF Finish, Release
  <2> QED
    BY <2>1 DEF Holds
<1>2. ASSUME NEW q \in Requests \ {r} PROVE Holds(q)'
  <2>1. NoNewLock(q)
    BY ConstantsAssumption DEF NoNewLock, Finish, Release, TypeOK
  <2> QED
    BY <2>1, HoldsKept DEF OrderInv
<1> QED
  BY <1>1, <1>2 DEF OrderInv

\* A request that starts holds nothing yet.
LEMMA StartHolds ==
  ASSUME TypeOK, OrderInv, NEW r \in Requests,
         SendStart(r) \/ ReadStart(r) \/ DeviceStart(r)
  PROVE  OrderInv'
<1>1. pc[r] = "start" /\ UNCHANGED locks
  BY DEF SendStart, ReadStart, DeviceStart
<1>2. \E label : pc' = [pc EXCEPT ![r] = label]
  BY DEF SendStart, ReadStart, DeviceStart, End, Goto
<1>3. \E ask : req' = [req EXCEPT ![r] = ask]
  BY DEF SendStart, ReadStart, DeviceStart
<1>4. Holds(r)'
  BY <1>1 DEF OrderInv, Holds, ChatHeldAt, SharesHeldAt, locks
<1>5. ASSUME NEW q \in Requests \ {r} PROVE Holds(q)'
  <2>1. NoNewLock(q)
    BY <1>1, <1>2, <1>3 DEF NoNewLock, locks, TypeOK
  <2> QED
    BY <2>1, HoldsKept DEF OrderInv
<1> QED
  BY <1>4, <1>5 DEF OrderInv

\* Request r goes on and takes at most the locks that its new statement may hold.
LEMMA GoesOn ==
  ASSUME TypeOK, OrderInv, NEW r \in Requests, NEW label,
         Goto(r, label), UNCHANGED req, Holds(r)',
         \A c \in Chats : chatLock'[c] = chatLock[c] \/ chatLock'[c] = r,
         \A u \in Users : shareLock'[u] \subseteq shareLock[u] \cup {r},
         \A u \in Users : userLock'[u] = userLock[u] \/ userLock'[u] = r,
         \A d \in Devices : boxLock'[d] = boxLock[d] \/ (boxLock[d] = Free /\ boxLock'[d] = r)
  PROVE  OrderInv'
<1>1. ASSUME NEW q \in Requests \ {r} PROVE Holds(q)'
  <2>1. NoNewLock(q)
    BY ConstantsAssumption DEF NoNewLock, Goto, TypeOK
  <2> QED
    BY <2>1, HoldsKept DEF OrderInv
<1> QED
  BY <1>1 DEF OrderInv

\* send and advance lock the chat first, while they hold nothing.
LEMMA ChatHolds ==
  ASSUME TypeOK, OrderInv, NEW r \in Requests, pc[r] = "chat",
         NEW label \in {"users", "read_commit"}, Goto(r, label),
         chatLock' = [chatLock EXCEPT ![req[r].chat] = r],
         UNCHANGED <<shareLock, userLock, boxLock, req>>
  PROVE  OrderInv'
<1>1. pc'[r] = label
  BY DEF Goto, TypeOK
<1>2. Holds(r)'
  BY <1>1 DEF OrderInv, Holds, ChatHeldAt, SharesHeldAt
<1>3. \A c \in Chats : chatLock'[c] = chatLock[c] \/ chatLock'[c] = r
  BY DEF TypeOK
<1> QED
  BY <1>2, <1>3, GoesOn

\* lock_device_set shares users after the chat and before any mailbox.
LEMMA ShareHolds ==
  ASSUME TypeOK, OrderInv, NEW r \in Requests, SendLockUser(r)
  PROVE  OrderInv'
<1>0. pc[r] = "users" /\ UNCHANGED <<chatLock, userLock, boxLock, req>>
  BY DEF SendLockUser
<1>1. PICK u \in NextUser(r) : /\ shareLock' = [shareLock EXCEPT ![u] = @ \cup {r}]
                               /\ Goto(r, IF UsersToLock(r) = {u} THEN "targets" ELSE "users")
  BY DEF SendLockUser
<1>2. pc'[r] \in {"targets", "users"}
  BY <1>1 DEF Goto, TypeOK
<1>3. Holds(r)'
  BY <1>0, <1>2 DEF OrderInv, Holds, ChatHeldAt, SharesHeldAt
<1>4. \A v \in Users : shareLock'[v] \subseteq shareLock[v] \cup {r}
  BY <1>1 DEF TypeOK
<1> QED
  BY <1>0, <1>1, <1>3, <1>4, GoesOn

\* The checked targets are locked next; no mailbox is held yet.
LEMMA TargetsHold ==
  ASSUME TypeOK, OrderInv, NEW r \in Requests, pc[r] = "targets", Goto(r, "boxes"),
         UNCHANGED <<locks, req>>
  PROVE  OrderInv'
<1>1. pc'[r] = "boxes" /\ UNCHANGED <<chatLock, shareLock, userLock, boxLock>>
  BY DEF Goto, TypeOK, locks
<1>2. Holds(r)'
  BY <1>1 DEF OrderInv, Holds, ChatHeldAt, SharesHeldAt
<1> QED
  BY <1>1, <1>2, GoesOn

\* lock_mailboxes takes the least of the mailboxes that are left.
LEMMA BoxHolds ==
  ASSUME TypeOK, OrderInv, NEW r \in Requests, SendLockBox(r)
  PROVE  OrderInv'
<1>0. pc[r] = "boxes" /\ UNCHANGED <<chatLock, shareLock, userLock, req>> /\ Holds(r)
  BY DEF SendLockBox, OrderInv
<1>1. PICK d \in NextBox(r) : /\ boxLock[d] = Free
                              /\ boxLock' = [boxLock EXCEPT ![d] = r]
                              /\ Goto(r, IF BoxesToLock(r) = {d} THEN "commit" ELSE "boxes")
  BY DEF SendLockBox
<1>2. pc'[r] \in {"boxes", "commit"} /\ req[r].targets \subseteq Devices
  BY <1>1 DEF Goto, TypeOK, Request
<1>3. d \in BoxesToLock(r) /\ d \in Devices /\ \A e \in BoxesToLock(r) : d <= e
  BY <1>2 DEF NextBox, BoxesToLock
<1>4. BoxesToLock(r)' = BoxesToLock(r) \ {d}
  BY <1>0, <1>1, <1>2, <1>3 DEF BoxesToLock, TypeOK
<1>5. ASSUME NEW x \in Devices, boxLock'[x] = r, NEW e \in BoxesToLock(r)' PROVE x < e
  <2>1. e \in Nat /\ d \in Nat /\ x \in Nat /\ e # d /\ d <= e
    BY <1>2, <1>3, <1>4, <1>5, ConstantsAssumption DEF BoxesToLock
  <2>2. CASE x = d
    BY <2>1, <2>2
  <2>3. CASE x # d
    BY <1>0, <1>1, <1>4, <1>5, <2>3 DEF Holds, TypeOK
  <2> QED
    BY <2>2, <2>3
<1>6. Holds(r)'
  BY <1>0, <1>2, <1>5 DEF Holds, ChatHeldAt, SharesHeldAt
<1>7. \A x \in Devices : boxLock'[x] = boxLock[x] \/ (boxLock[x] = Free /\ boxLock'[x] = r)
  BY <1>1, <1>3 DEF TypeOK
<1> QED
  BY <1>0, <1>1, <1>6, <1>7, GoesOn

\* login and revoke_device take one row, with nothing held, and wait for nothing after it.
LEMMA DeviceHolds ==
  ASSUME TypeOK, OrderInv, NEW r \in Requests,
         \/ DeviceLockUser(r)
         \/ pc[r] = "device" /\ Goto(r, "device_commit") /\ UNCHANGED <<locks, req>>
  PROVE  OrderInv'
<1>1. CASE DeviceLockUser(r)
  <2>1. /\ pc[r] = "user" /\ pc'[r] = "device" /\ Goto(r, "device")
        /\ userLock' = [userLock EXCEPT ![req[r].user] = r]
        /\ UNCHANGED <<chatLock, shareLock, boxLock, req>>
    BY <1>1 DEF DeviceLockUser, Goto, TypeOK
  <2>2. Holds(r)'
    BY <2>1 DEF OrderInv, Holds, ChatHeldAt, SharesHeldAt
  <2>3. \A u \in Users : userLock'[u] = userLock[u] \/ userLock'[u] = r
    BY <2>1 DEF TypeOK
  <2> QED
    BY <2>1, <2>2, <2>3, GoesOn
<1>2. CASE pc[r] = "device" /\ Goto(r, "device_commit") /\ UNCHANGED <<locks, req>>
  <2>1. pc'[r] = "device_commit" /\ UNCHANGED <<chatLock, shareLock, userLock, boxLock>>
    BY <1>2 DEF Goto, TypeOK, locks
  <2>2. Holds(r)'
    BY <1>2, <2>1 DEF OrderInv, Holds, ChatHeldAt, SharesHeldAt
  <2> QED
    BY <1>2, <2>1, <2>2, GoesOn
<1> QED
  BY <1>1, <1>2

\* Every step keeps the lock order.
LEMMA NextOrderInv == TypeOK /\ OrderInv /\ [Next]_vars => OrderInv'
<1> SUFFICES ASSUME TypeOK, OrderInv, [Next]_vars PROVE OrderInv'
  OBVIOUS
<1>1. ASSUME NEW r \in Requests, SendLockChat(r) \/ ReadLockChat(r) PROVE OrderInv'
  BY <1>1, ChatHolds, FinishHolds DEF SendLockChat, ReadLockChat
<1>2. ASSUME NEW r \in Requests, SendCheckTargets(r) PROVE OrderInv'
  BY <1>2, TargetsHold, FinishHolds DEF SendCheckTargets
<1>3. ASSUME NEW r \in Requests, DeviceRead(r) PROVE OrderInv'
  BY <1>3, DeviceHolds, FinishHolds DEF DeviceRead
<1>4. ASSUME NEW r \in Requests,
             SendCommit(r) \/ ReadCommit(r) \/ LoginCommit(r) \/ RevokeCommit(r) \/ Rollback(r)
      PROVE  OrderInv'
  <2>1. \E answer : Finish(r, answer)
    BY <1>4 DEF SendCommit, ReadCommit, LoginCommit, RevokeCommit, Rollback
  <2> QED
    BY <2>1, FinishHolds
<1>5. ASSUME UNCHANGED vars PROVE OrderInv'
  BY <1>5 DEF vars, locks, OrderInv, Holds, BoxesToLock
<1> QED
  BY <1>1, <1>2, <1>3, <1>4, <1>5, StartHolds, ShareHolds, BoxHolds, DeviceHolds
     DEF Next, Step, AllEnded

\* A finite set of ids has a largest one: the one with the fewest ids above it.
LEMMA LargestDevice ==
  ASSUME NEW D \in SUBSET Devices, D # {}
  PROVE  \E d \in D : \A e \in D : e <= d
<1> DEFINE Above(d) == {e \in Devices : d < e}
           T == {Above(d) : d \in D}
<1>1. IsWellFoundedOn(StrictSubsetOrdering(Devices), SUBSET Devices)
  <2>1. FiniteSubsetsOf(Devices) = SUBSET Devices
    BY FS_FiniteSubsetsOfFinite, ConstantsAssumption
  <2>2. IsWellFoundedOn(StrictSubsetOrdering(Devices), FiniteSubsetsOf(Devices))
    BY FS_StrictSubsetOrderingWellFounded
  <2> QED
    BY <2>1, <2>2, Zenon
<1>2. T \subseteq SUBSET Devices /\ T # {}
  OBVIOUS
<1>3. PICK x \in T : \A y \in T : <<y, x>> \notin StrictSubsetOrdering(Devices)
  <2> HIDE DEF T
  <2> QED
    BY <1>1, <1>2, WFMin
<1>4. PICK d \in D : x = Above(d)
  BY <1>3
<1>5. ASSUME NEW e \in D, ~(e <= d) PROVE FALSE
  <2>1. d \in Nat /\ e \in Nat /\ d < e /\ Devices \subseteq Nat
    BY <1>5, ConstantsAssumption
  <2>2. Above(e) \subseteq Above(d) /\ e \in Above(d) /\ e \notin Above(e)
    <3>1. e \in Devices /\ ~(e < e)
      BY <2>1
    <3>2. \A f \in Devices : e < f => d < f
      BY <2>1
    <3> QED
      BY <2>1, <3>1, <3>2
  <2>3. <<Above(e), Above(d)>> \in StrictSubsetOrdering(Devices)
    BY <2>2 DEF StrictSubsetOrdering
  <2> QED
    BY <1>3, <1>4, <2>3
<1> QED
  BY <1>5

\* Whoever waits is about to take a lock.
WaitingAt == {"chat", "users", "boxes", "user"}

\* For whom a request can wait, by the lock that it asks for.
LEMMA WaitCases ==
  ASSUME TypeOK, OrderInv, NEW r \in Requests, NEW q \in WaitsFor(r)
  PROVE  /\ q \in Requests /\ pc[r] \in WaitingAt
         /\ pc[r] = "chat" => pc[q] \in ChatHeldAt
         /\ pc[r] = "users" => pc[q] \in {"device", "device_commit"}
         /\ pc[r] = "user" => pc[q] \in {"users", "targets", "boxes", "commit",
                                         "device", "device_commit"}
         /\ pc[r] = "boxes" => /\ pc[q] \in {"boxes", "commit"}
                               /\ \E d \in NextBox(r) : boxLock[d] = q
<1>0. req[r] \in Request /\ q # Free
  BY DEF TypeOK, WaitsFor
<1>1. CASE pc[r] = "chat"
  <2>1. q = chatLock[req[r].chat] /\ req[r].chat \in Chats
    BY <1>0, <1>1 DEF WaitsFor, Request
  <2> QED
    BY <1>0, <1>1, <2>1 DEF TypeOK, OrderInv, Holds, WaitingAt
<1>2. CASE pc[r] = "users"
  <2>1. PICK u \in NextUser(r) : q = userLock[u]
    BY <1>2 DEF WaitsFor
  <2>2. u \in Users
    BY <1>0, ConstantsAssumption DEF NextUser, UsersToLock, Request
  <2> QED
    BY <1>0, <1>2, <2>1, <2>2 DEF TypeOK, OrderInv, Holds, WaitingAt
<1>3. CASE pc[r] = "boxes"
  <2>1. PICK d \in NextBox(r) : q = boxLock[d]
    BY <1>3 DEF WaitsFor
  <2>2. d \in Devices
    BY <1>0 DEF NextBox, BoxesToLock, Request
  <2> QED
    BY <1>0, <1>3, <2>1, <2>2 DEF TypeOK, OrderInv, Holds, WaitingAt
<1>4. CASE pc[r] = "user"
  <2>1. q \in shareLock[req[r].user] \/ q = userLock[req[r].user]
    BY <1>4 DEF WaitsFor
  <2>2. req[r].user \in Users
    BY <1>0 DEF Request
  <2> QED
    BY <1>0, <1>4, <2>1, <2>2 DEF TypeOK, OrderInv, Holds, WaitingAt, SharesHeldAt
<1> QED
  BY <1>1, <1>2, <1>3, <1>4 DEF WaitsFor

\* A request that asks for a mailbox asks for one, and for one after those that it holds.
LEMMA NextBoxFacts ==
  ASSUME TypeOK, OrderInv, NEW r \in Requests, NEW d \in NextBox(r)
  PROVE  /\ d \in Devices /\ d \in Nat
         /\ \A e \in NextBox(r) : e = d
         /\ pc[r] = "boxes" => \A x \in Devices : boxLock[x] = r => x < d
<1>1. req[r].targets \subseteq Devices
  BY DEF TypeOK, Request
<1>2. d \in BoxesToLock(r) /\ BoxesToLock(r) \subseteq Nat /\ d \in Devices
  BY <1>1, ConstantsAssumption DEF NextBox, BoxesToLock
<1>3. \A e \in NextBox(r) : e \in Nat /\ d <= e /\ e <= d
  BY <1>2 DEF NextBox
<1> QED
  BY <1>2, <1>3 DEF OrderInv, Holds

\* Among requests that wait, one waits for none of the others: one that asks for a user, if
\* there is any; else the one that asks for the last mailbox; else any that asks for a user
\* exclusively; else any.
LEMMA SomebodyGoesOn ==
  ASSUME TypeOK, OrderInv, NEW S \in SUBSET {r \in Requests : WaitsFor(r) # {}}, S # {}
  PROVE  \E r \in S : WaitsFor(r) \cap S = {}
<1>0. \A r \in S : r \in Requests /\ pc[r] \in WaitingAt
  BY WaitCases
<1>1. CASE \E r \in S : pc[r] = "users"
  BY <1>0, <1>1, WaitCases DEF WaitingAt
<1>2. CASE \E r \in S : pc[r] = "boxes"
  <2> DEFINE D == {d \in Devices : \E r \in S : pc[r] = "boxes" /\ d \in NextBox(r)}
  <2>1. \A r \in S : pc[r] = "boxes" => \E d \in D : d \in NextBox(r)
    <3> SUFFICES ASSUME NEW r \in S, pc[r] = "boxes" PROVE \E d \in D : d \in NextBox(r)
      OBVIOUS
    <3>1. PICK q : q \in WaitsFor(r)
      BY <1>0
    <3>2. PICK d \in NextBox(r) : boxLock[d] = q
      BY <1>0, <3>1, WaitCases
    <3>3. d \in Devices
      BY <1>0, <3>2, NextBoxFacts
    <3> QED
      BY <3>2, <3>3
  <2>2. PICK d \in D : \A e \in D : e <= d
    <3>1. D \in SUBSET Devices /\ D # {}
      BY <1>2, <2>1
    <3> HIDE DEF D
    <3> QED
      BY <3>1, LargestDevice
  <2>3. PICK r \in S : pc[r] = "boxes" /\ d \in NextBox(r)
    BY <2>2
  <2>4. ASSUME NEW q \in WaitsFor(r), q \in S PROVE FALSE
    <3>1. pc[q] = "boxes" /\ boxLock[d] = q
      BY <1>0, <2>3, <2>4, WaitCases, NextBoxFacts DEF WaitingAt
    <3>2. PICK e \in D : e \in NextBox(q)
      BY <2>1, <2>4, <3>1
    <3>3. d < e /\ e \in Nat /\ d \in Nat
      BY <1>0, <2>3, <2>4, <3>1, <3>2, NextBoxFacts
    <3>4. e <= d
      BY <2>2, <3>2
    <3> QED
      BY <3>3, <3>4
  <2> QED
    BY <2>3, <2>4
<1>3. CASE \A r \in S : pc[r] \notin {"users", "boxes"}
  <2>1. CASE \E r \in S : pc[r] = "user"
    BY <1>0, <1>3, <2>1, WaitCases DEF WaitingAt
  <2>2. CASE \A r \in S : pc[r] = "chat"
    BY <1>0, <2>2, WaitCases DEF ChatHeldAt
  <2> QED
    BY <1>0, <1>3, <2>1, <2>2 DEF WaitingAt
<1> QED
  BY <1>1, <1>2, <1>3

\* "Global lock order: chat, user IDs, mailbox IDs": for any number of sends, reads, logins
\* and revocations, no set of transactions waits in a circle, and nobody waits for one that
\* has not started or is over.
THEOREM DeadlockFree == Spec => []NoWaitCycle
<1>1. Init => OrderInv
  <2>1. Init => \A q \in Requests : Holds(q)
    BY ConstantsAssumption DEF Init, Holds
  <2> QED
    BY <2>1 DEF OrderInv
<1>2. TypeOK /\ OrderInv => NoWaitCycle
  <2> SUFFICES ASSUME TypeOK, OrderInv PROVE NoWaitCycle
    OBVIOUS
  <2>1. \A r \in Requests : \A q \in WaitsFor(r) : pc[q] \notin {"start", "end"}
    BY WaitCases DEF WaitingAt, ChatHeldAt
  <2> QED
    BY <2>1, SomebodyGoesOn DEF NoWaitCycle
<1> QED
  BY <1>1, <1>2, NextOrderInv, TypeCorrect, PTL DEF Spec
=============================================================================
