------------------------- MODULE AuthSessionsProofs -------------------------
(***************************************************************************)
(* Proofs about AuthSessions, for any number of requests of each kind, of  *)
(* devices and of sessions.                                                *)
(***************************************************************************)
EXTENDS AuthSessions, TLAPS

----------------------------------------------------------------------------
(* The inductive invariant *)

\* Token t is or was the refresh token of session s.
Holds(t, s) == (device[s] # None /\ current[s] = t) \/ <<t, s>> \in history

\* A token belongs to one session for ever, and a current token was not used yet.
TokenOwner ==
    /\ \A t \in Tokens, s, x \in Sessions : Holds(t, s) /\ Holds(t, x) => s = x
    /\ \A s \in Sessions : device[s] # None => <<current[s], s>> \notin history

\* The statements of each service method.
LabelsOf(kind) ==
    {"start", "end"} \cup
        (CASE kind = "login" -> {"user", "device", "commit"}
           [] kind = "refresh" -> {"token", "identity", "commit", "consumed"}
           [] kind = "logout" -> {"token", "consumed"}
           [] kind = "revoke" -> {"user", "device", "flush", "sessions"})

\* Before a request commits, the session and the token that it creates do not exist.
NothingIssued(r) ==
    pc[r] # "end" => result[r] = "none" /\ device[r] = None /\ \A s \in Sessions : ~Holds(r, s)

\* What a request under way names: a device, or a token that was issued.
Named(r) ==
    /\ Kind[r] \in {"login", "revoke"} /\ pc[r] \notin {"start", "end"} => arg[r] \in Devices
    /\ pc[r] \in {"flush", "sessions"} => arg[r] \in registered
    /\ Kind[r] \in {"refresh", "logout"} /\ pc[r] \notin {"start", "end"} =>
        arg[r] \in Tokens /\ \E s \in Sessions : Holds(arg[r], s)
    /\ pc[r] = "consumed" => \E s \in Sessions : <<arg[r], s>> \in history

\* What the locks of a transaction protect: the state of the device that a login
\* has read, and the session that a refresh has read.
Guarded(r) ==
    /\ Kind[r] \in {"login", "revoke"} /\ pc[r] \in {"device", "commit", "flush", "sessions"}
        => userLock = r
    /\ Kind[r] = "login" /\ pc[r] = "commit" => arg[r] \notin revoked
    /\ Kind[r] = "refresh" /\ pc[r] \in {"identity", "commit"} =>
        \E s \in Sessions :
            /\ sessionLock[s] = r /\ device[s] # None /\ current[s] = arg[r]
            /\ pc[r] = "commit" => s \notin ended

\* What an answer says of the session.
Answered(r) ==
    /\ result[r] = "rotated" => arg[r] \in Tokens /\ \E s \in Sessions : <<arg[r], s>> \in history
    /\ result[r] = "reuse" =>
        arg[r] \in Tokens /\ \E s \in Sessions : <<arg[r], s>> \in history /\ s \in ended
    /\ Kind[r] = "logout" /\ result[r] = "done" =>
        arg[r] \in Tokens /\ \E s \in Sessions : Holds(arg[r], s) /\ s \in ended

Local(r) ==
    /\ pc[r] \in LabelsOf(Kind[r])
    /\ NothingIssued(r) /\ Named(r) /\ Guarded(r) /\ Answered(r)

\* At most one refresh gets a new token for an old one.
OneRotation ==
    \A r, q \in Requests :
        result[r] = "rotated" /\ result[q] = "rotated" /\ arg[r] = arg[q] => r = q

IInv ==
    /\ TypeOK /\ TokenOwner /\ OneRotation /\ RevokedDeviceLoggedOut
    /\ \A r \in Requests : Local(r)

\* At the beginning there are only the sessions of earlier logins.
LEMMA InitIInv == Init => IInv
<1> SUFFICES ASSUME Init PROVE IInv
  OBVIOUS
<1> USE AuthAssumption DEF Init
<1>1. TypeOK
  BY DEF TypeOK, Tokens, Sessions
<1>2. \A t, s : s \in Sessions => (Holds(t, s) <=> s \in OldSessions /\ t = s)
  BY DEF Holds, Sessions
<1>3. TokenOwner /\ OneRotation /\ RevokedDeviceLoggedOut
  BY <1>2 DEF TokenOwner, OneRotation, RevokedDeviceLoggedOut
<1>4. ASSUME NEW r \in Requests PROVE Local(r)
  BY <1>2, <1>4
     DEF Local, NothingIssued, Named, Guarded, Answered, LabelsOf, Sessions
<1> QED
  BY <1>1, <1>3, <1>4 DEF IInv

----------------------------------------------------------------------------
(* What a step of one request may do to the others *)

\* Rows are inserted and marked, never taken back.
Grows ==
    /\ registered \subseteq registered' /\ ended \subseteq ended' /\ history \subseteq history'
    /\ \A t \in Tokens, s \in Sessions : Holds(t, s) => Holds(t, s)'

\* Request q does not move; its locks, the rows they protect and the names of the rows
\* that it will create are left alone.
LeavesAlone(q) ==
    /\ pc'[q] = pc[q] /\ arg'[q] = arg[q] /\ result'[q] = result[q]
    /\ userLock = q => userLock' = q
    /\ \A s \in Sessions : sessionLock[s] = q /\ device[s] # None =>
        /\ sessionLock'[s] = q /\ device'[s] = device[s] /\ current'[s] = current[s]
        /\ s \in ended' => s \in ended
    /\ Kind[q] = "login" /\ pc[q] = "commit" /\ arg[q] \in revoked' => arg[q] \in revoked
    /\ device'[q] = device[q]
    /\ \A s \in Sessions : Holds(q, s)' => Holds(q, s)

\* A request that is left alone keeps its part of the invariant.
LEMMA OtherKeeps ==
  ASSUME NEW q \in Requests, Local(q), Grows, LeavesAlone(q)
  PROVE  Local(q)'
<1> USE DEF Local, LeavesAlone, Grows
<1>1. pc'[q] \in LabelsOf(Kind[q]) /\ NothingIssued(q)'
  BY DEF NothingIssued
<1>2. Named(q)'
  BY DEF Named
<1>3. Guarded(q)'
  BY DEF Guarded
<1>4. Answered(q)'
  BY DEF Answered
<1> QED
  BY <1>1, <1>2, <1>3, <1>4

\* Only request r moves, and it takes no lock away from another.
OnlyMoves(r) ==
    \A q \in Requests \ {r} :
        /\ pc'[q] = pc[q] /\ arg'[q] = arg[q] /\ result'[q] = result[q]
        /\ userLock = q => userLock' = q
        /\ \A s \in Sessions : sessionLock[s] = q => sessionLock'[s] = q

\* A step that writes no row keeps the invariant if request r keeps its part.
LEMMA QuietStep ==
  ASSUME IInv, UNCHANGED store, TypeOK', NEW r \in Requests, OnlyMoves(r), Local(r)',
         result'[r] # "rotated"
  PROVE  IInv'
<1> USE DEF IInv
<1>1. \A t, s : Holds(t, s)' <=> Holds(t, s)
  BY DEF Holds, store
<1>2. Grows
  BY <1>1 DEF Grows, store
<1>3. ASSUME NEW q \in Requests \ {r} PROVE Local(q)'
  <2>1. LeavesAlone(q)
    BY <1>1 DEF LeavesAlone, OnlyMoves, store
  <2> QED
    BY <1>2, <2>1, OtherKeeps
<1>4. TokenOwner' /\ RevokedDeviceLoggedOut'
  BY <1>1 DEF TokenOwner, RevokedDeviceLoggedOut, store
<1>5. OneRotation'
  BY DEF OneRotation, OnlyMoves
<1> QED
  BY <1>3, <1>4, <1>5

\* The end of a transaction releases its own locks and no others.
LEMMA FinishReleases ==
  ASSUME TypeOK, NEW r \in Requests, NEW answer, Finish(r, answer)
  PROVE  /\ OnlyMoves(r)
         /\ pc'[r] = "end" /\ arg' = arg /\ result'[r] = answer
         /\ userLock' \in Requests \cup {Free}
         /\ deviceLock' \in [Devices -> Requests \cup {Free}]
         /\ sessionLock' \in [Sessions -> Requests \cup {Free}]
         /\ pc' = [pc EXCEPT ![r] = "end"]
         /\ result' = [result EXCEPT ![r] = answer]
<1>1. r # Free
  BY AuthAssumption
<1> QED
  BY <1>1 DEF Finish, Goto, OnlyMoves, TypeOK

\* An answer of a transaction that writes nothing.
LEMMA FinishQuiet ==
  ASSUME IInv, NEW r \in Requests, NEW answer, Finish(r, answer), UNCHANGED <<store, expired>>,
         \/ answer \in {"forbidden", "invalid", "not_found", "aborted"}
         \/ answer = "done" /\ Kind[r] = "revoke"
  PROVE  IInv'
<1> USE DEF IInv
<1>1. /\ OnlyMoves(r) /\ pc'[r] = "end" /\ result'[r] = answer
      /\ userLock' \in Requests \cup {Free}
      /\ deviceLock' \in [Devices -> Requests \cup {Free}]
      /\ sessionLock' \in [Sessions -> Requests \cup {Free}]
      /\ pc' = [pc EXCEPT ![r] = "end"] /\ result' = [result EXCEPT ![r] = answer]
      /\ arg' = arg
  BY FinishReleases
<1>2. TypeOK'
  BY <1>1 DEF TypeOK, store
<1>3. Local(r)'
  BY <1>1 DEF Local, NothingIssued, Named, Guarded, Answered, LabelsOf
<1> QED
  BY <1>1, <1>2, <1>3, QuietStep

\* A request that moves to another statement with its locks and rows as they are.
LEMMA GotoQuiet ==
  ASSUME IInv, NEW r \in Requests, NEW label, Goto(r, label),
         pc[r] # "end", label # "end", label \in LabelsOf(Kind[r]),
         UNCHANGED <<store, expired, arg, result>>,
         userLock' \in Requests \cup {Free}, deviceLock' \in [Devices -> Requests \cup {Free}],
         sessionLock' \in [Sessions -> Requests \cup {Free}],
         OnlyMoves(r), Named(r)', Guarded(r)'
  PROVE  IInv'
<1> USE DEF IInv
<1>1. pc' \in [Requests -> {"start", "user", "device", "commit", "token", "identity",
                            "consumed", "flush", "sessions", "end"}]
  BY AuthAssumption DEF Goto, TypeOK, LabelsOf
<1>2. TypeOK'
  BY <1>1 DEF TypeOK, store
<1>3. Local(r)
  OBVIOUS
<1>4. \A t, s : Holds(t, s)' <=> Holds(t, s)
  BY DEF Holds, store
<1>5. pc'[r] = label /\ result'[r] = "none" /\ result[r] = "none"
  BY <1>3 DEF Goto, TypeOK, Local, NothingIssued
<1>6. Local(r)'
  BY <1>3, <1>4, <1>5 DEF Local, NothingIssued, Answered, store
<1> QED
  BY <1>2, <1>5, <1>6, QuietStep

----------------------------------------------------------------------------
(* The steps that write no row *)

\* The first statement of a request, with what the browser sends.
LEMMA StartKeeps ==
  ASSUME IInv, NEW r \in Requests, LoginStart(r) \/ TokenStart(r) \/ RevokeStart(r)
  PROVE  IInv'
<1> USE DEF IInv
<1>1. PICK a : /\ arg' = [arg EXCEPT ![r] = a]
               /\ \/ Kind[r] \in {"login", "revoke"} /\ a \in Devices /\ Goto(r, "user")
                  \/ Kind[r] \in {"refresh", "logout"} /\ a \in Issued /\ Goto(r, "token")
  BY DEF LoginStart, TokenStart, RevokeStart
<1>2. a \in Issued => a \in Tokens /\ \E s \in Sessions : Holds(a, s)
  <2>1. ASSUME NEW h \in history PROVE h[1] \in Tokens /\ h[2] \in Sessions /\ Holds(h[1], h[2])
    <3>1. h \in Tokens \X Sessions
      BY DEF TypeOK
    <3>2. h = <<h[1], h[2]>>
      BY <3>1
    <3> QED
      BY <3>1, <3>2 DEF Holds
  <2>2. ASSUME NEW s \in Sessions, device[s] # None PROVE current[s] \in Tokens /\ Holds(current[s], s)
    BY <2>2 DEF Holds, TypeOK
  <2> QED
    BY <2>1, <2>2 DEF Issued
<1>3. pc[r] = "start" /\ UNCHANGED <<store, expired, locks, result>>
  BY DEF LoginStart, TokenStart, RevokeStart
<1>4. \A t, s : Holds(t, s)' <=> Holds(t, s)
  BY <1>3 DEF Holds, store
<1>5. TypeOK' /\ pc'[r] \in {"user", "token"} /\ arg'[r] = a
  BY <1>1, <1>2, <1>3 DEF TypeOK, Goto, store, locks
<1>6. OnlyMoves(r)
  BY <1>1, <1>3 DEF OnlyMoves, Goto, TypeOK, locks
<1>7. Local(r)
  OBVIOUS
<1>8. result[r] = "none" /\ result'[r] = "none"
  BY <1>3, <1>7 DEF Local, NothingIssued
<1>9. Local(r)'
  <2>1. pc'[r] \in LabelsOf(Kind[r])
    BY <1>1, <1>5 DEF LabelsOf, Goto, TypeOK
  <2>2. NothingIssued(r)'
    BY <1>3, <1>4, <1>7, <1>8 DEF Local, NothingIssued, store
  <2>3. Named(r)'
    BY <1>1, <1>2, <1>4, <1>5 DEF Named
  <2>4. Guarded(r)' /\ Answered(r)'
    BY <1>5, <1>8 DEF Guarded, Answered
  <2> QED
    BY <2>1, <2>2, <2>3, <2>4 DEF Local
<1> QED
  BY <1>3, <1>5, <1>6, <1>8, <1>9, QuietStep

\* The lock on the user's row is taken when it is free.
LEMMA LockUserKeeps ==
  ASSUME IInv, NEW r \in Requests, LockUser(r)
  PROVE  IInv'
<1>1. Local(r) /\ TypeOK
  BY DEF IInv
<1>2. Kind[r] \in {"login", "revoke"} /\ pc[r] = "user" /\ "device" \in LabelsOf(Kind[r])
  BY <1>1, AuthAssumption DEF Local, LabelsOf, LockUser
<1>3. OnlyMoves(r)
  BY <1>1, AuthAssumption DEF OnlyMoves, LockUser, Goto, TypeOK
<1>4. Named(r)' /\ Guarded(r)'
  BY <1>1, <1>2 DEF Local, Named, Guarded, LockUser, Goto, TypeOK
<1> QED
  BY <1>1, <1>2, <1>3, <1>4, GotoQuiet DEF LockUser, TypeOK

\* The login goes on only with a device that is not revoked.
LEMMA LoginDeviceKeeps ==
  ASSUME IInv, NEW r \in Requests, LoginDevice(r)
  PROVE  IInv'
<1>1. Local(r) /\ TypeOK
  BY DEF IInv
<1>2. CASE Finish(r, "forbidden")
  BY <1>2, FinishQuiet DEF LoginDevice
<1>3. CASE arg[r] \notin revoked /\ Goto(r, "commit") /\ UNCHANGED <<locks, arg, result>>
  <2>1. "commit" \in LabelsOf(Kind[r]) /\ pc[r] = "device"
    BY DEF LabelsOf, LoginDevice
  <2>2. OnlyMoves(r)
    BY <1>1, <1>3 DEF OnlyMoves, Goto, TypeOK, locks
  <2>3. Named(r)' /\ Guarded(r)'
    BY <1>1, <1>3 DEF Local, Named, Guarded, LoginDevice, Goto, TypeOK, locks, store
  <2> QED
    BY <1>1, <1>3, <2>1, <2>2, <2>3, GotoQuiet DEF LoginDevice, TypeOK, locks
<1> QED
  BY <1>2, <1>3 DEF LoginDevice

\* The refresh locks the session whose current token it presents.  A token that is
\* current nowhere any more has been used.
LEMMA RefreshLockKeeps ==
  ASSUME IInv, NEW r \in Requests, RefreshLock(r)
  PROVE  IInv'
<1> DEFINE found == CurrentSession(arg[r])
           label == IF found = {} THEN "consumed" ELSE "identity"
<1>1. Local(r) /\ TypeOK /\ Kind[r] = "refresh" /\ pc[r] = "token"
  BY DEF IInv, RefreshLock
<1>2. PICK t \in Sessions : Holds(arg[r], t)
  BY <1>1 DEF Local, Named
<1>3. label \in LabelsOf(Kind[r]) /\ label # "end" /\ Goto(r, label) /\ pc'[r] = label
  BY <1>1 DEF LabelsOf, RefreshLock, Goto, TypeOK
<1>4. \A s \in Sessions : sessionLock'[s] = IF s \in found THEN r ELSE sessionLock[s]
  BY DEF RefreshLock
<1>5. \A s \in found : sessionLock[s] = Free
  BY DEF RefreshLock
<1>6. UNCHANGED <<store, expired, userLock, deviceLock, arg, result>>
  BY DEF RefreshLock
<1>7. OnlyMoves(r)
  <2>1. \A q \in Requests \ {r} : pc'[q] = pc[q]
    BY <1>1, <1>3 DEF Goto, TypeOK
  <2>2. \A q \in Requests, s \in Sessions : sessionLock[s] = q => s \notin found
    BY <1>5, AuthAssumption
  <2> QED
    BY <2>1, <2>2, <1>4, <1>6 DEF OnlyMoves
<1>8. sessionLock' \in [Sessions -> Requests \cup {Free}]
  BY <1>1 DEF RefreshLock, TypeOK
<1>9. \A x, s : Holds(x, s)' <=> Holds(x, s)
  BY <1>6 DEF Holds, store
<1>10. Named(r)'
  <2>1. found = {} => <<arg[r], t>> \in history
    BY <1>2 DEF Holds, CurrentSession
  <2> QED
    BY <1>1, <1>2, <1>3, <1>6, <1>9, <2>1 DEF Local, Named, store
<1>11. Guarded(r)'
  <2>1. ASSUME found # {}
        PROVE  \E s \in Sessions : sessionLock'[s] = r /\ device[s] # None /\ current[s] = arg[r]
    BY <2>1, <1>4 DEF CurrentSession
  <2> QED
    BY <1>1, <1>3, <1>6, <2>1 DEF Guarded, store
<1> HIDE DEF label
<1> QED
  BY <1>1, <1>3, <1>6, <1>7, <1>8, <1>10, <1>11, GotoQuiet DEF TypeOK

\* The refresh goes on only with a session that is not revoked.
LEMMA RefreshIdentityKeeps ==
  ASSUME IInv, NEW r \in Requests, RefreshIdentity(r)
  PROVE  IInv'
<1>1. Local(r) /\ TypeOK /\ Kind[r] = "refresh" /\ pc[r] = "identity"
  BY DEF IInv, RefreshIdentity
<1>2. CASE Finish(r, "invalid")
  BY <1>2, FinishQuiet DEF RefreshIdentity
<1>3. CASE /\ \A s \in CurrentSession(arg[r]) : SessionActive(s)
           /\ Goto(r, "commit") /\ UNCHANGED <<locks, arg, result>>
  <2>1. "commit" \in LabelsOf(Kind[r]) /\ pc'[r] = "commit"
    BY <1>1, <1>3 DEF LabelsOf, Goto, TypeOK
  <2>2. OnlyMoves(r)
    BY <1>1, <1>3 DEF OnlyMoves, Goto, TypeOK, locks
  <2>3. PICK s \in Sessions : sessionLock[s] = r /\ device[s] # None /\ current[s] = arg[r]
    BY <1>1 DEF Local, Guarded
  <2>4. s \notin ended
    BY <1>3, <2>3 DEF CurrentSession, SessionActive
  <2>5. UNCHANGED store
    BY DEF RefreshIdentity
  <2>6. Guarded(r)'
    BY <1>1, <1>3, <2>1, <2>3, <2>4, <2>5 DEF Guarded, store, locks
  <2>7. \A x, y : Holds(x, y)' <=> Holds(x, y)
    BY <2>5 DEF Holds, store
  <2>8. Named(r)'
    BY <1>1, <1>3, <2>1, <2>7 DEF Local, Named
  <2> QED
    BY <1>1, <1>3, <2>1, <2>2, <2>6, <2>8, GotoQuiet DEF RefreshIdentity, TypeOK, locks
<1> QED
  BY <1>2, <1>3 DEF RefreshIdentity

\* The revocation goes on with a device that is registered.
LEMMA RevokeReadKeeps ==
  ASSUME IInv, NEW r \in Requests, RevokeRead(r)
  PROVE  IInv'
<1>1. Local(r) /\ TypeOK /\ Kind[r] = "revoke" /\ pc[r] = "device"
  BY DEF IInv, RevokeRead
<1>2. CASE Finish(r, "not_found") \/ Finish(r, "done")
  BY <1>1, <1>2, FinishQuiet DEF RevokeRead
<1>3. CASE arg[r] \in registered \ revoked /\ Goto(r, "flush") /\ UNCHANGED <<locks, arg, result>>
  <2>1. "flush" \in LabelsOf(Kind[r]) /\ pc'[r] = "flush"
    BY <1>1, <1>3 DEF LabelsOf, Goto, TypeOK
  <2>2. OnlyMoves(r)
    BY <1>1, <1>3 DEF OnlyMoves, Goto, TypeOK, locks
  <2>3. Named(r)' /\ Guarded(r)'
    BY <1>1, <1>3, <2>1 DEF Local, Named, Guarded, RevokeRead, locks, store
  <2> QED
    BY <1>1, <1>3, <2>1, <2>2, <2>3, GotoQuiet DEF RevokeRead, TypeOK, locks
<1> QED
  BY <1>2, <1>3 DEF RevokeRead

\* The flush locks the device's row.
LEMMA RevokeFlushKeeps ==
  ASSUME IInv, NEW r \in Requests, RevokeFlush(r)
  PROVE  IInv'
<1>1. Local(r) /\ TypeOK /\ Kind[r] = "revoke" /\ pc[r] = "flush"
  BY DEF IInv, RevokeFlush
<1>2. "sessions" \in LabelsOf(Kind[r]) /\ pc'[r] = "sessions"
  BY <1>1 DEF LabelsOf, Goto, TypeOK, RevokeFlush
<1>3. OnlyMoves(r)
  BY <1>1 DEF OnlyMoves, Goto, TypeOK, RevokeFlush
<1>4. Named(r)' /\ Guarded(r)'
  BY <1>1, <1>2 DEF Local, Named, Guarded, RevokeFlush, store
<1>5. deviceLock' \in [Devices -> Requests \cup {Free}]
  BY <1>1 DEF RevokeFlush, TypeOK
<1> QED
  BY <1>1, <1>2, <1>3, <1>4, <1>5, GotoQuiet DEF RevokeFlush, TypeOK

----------------------------------------------------------------------------
(* The commits *)

\* A commit keeps the invariant when the tables keep theirs and the other
\* transactions are left alone.
LEMMA CommitStep ==
  ASSUME IInv, NEW r \in Requests, NEW answer, Finish(r, answer), TypeOK', TokenOwner',
         RevokedDeviceLoggedOut', OneRotation', Answered(r)', Grows,
         \A q \in Requests \ {r} : LeavesAlone(q)
  PROVE  IInv'
<1>1. pc'[r] = "end"
  BY FinishReleases DEF IInv
<1>2. Local(r)'
  BY <1>1 DEF Local, NothingIssued, Named, Guarded, LabelsOf
<1>3. \A q \in Requests \ {r} : Local(q)'
  BY OtherKeeps DEF IInv
<1> QED
  BY <1>2, <1>3 DEF IInv

\* logout, the detection of a reuse and revoke_device end sessions that nobody else
\* has locked.
LEMMA EndSessions ==
  ASSUME IInv, NEW r \in Requests, NEW answer \in {"done", "reuse"}, Finish(r, answer),
         NEW gone \in SUBSET Sessions, \A s \in gone : sessionLock[s] = Free,
         ended' = ended \cup gone,
         UNCHANGED <<registered, device, current, history, expired>>,
         revoked \subseteq revoked', revoked' \subseteq registered,
         RevokedDeviceLoggedOut', Answered(r)',
         \A q \in Requests \ {r} :
            Kind[q] = "login" /\ pc[q] = "commit" /\ arg[q] \in revoked' => arg[q] \in revoked
  PROVE  IInv'
<1> USE DEF IInv
<1>1. /\ OnlyMoves(r) /\ arg' = arg /\ result'[r] = answer
      /\ userLock' \in Requests \cup {Free}
      /\ deviceLock' \in [Devices -> Requests \cup {Free}]
      /\ sessionLock' \in [Sessions -> Requests \cup {Free}]
      /\ pc' = [pc EXCEPT ![r] = "end"] /\ result' = [result EXCEPT ![r] = answer]
  BY FinishReleases
<1>2. TypeOK'
  BY <1>1 DEF TypeOK
<1>3. \A t, s : Holds(t, s)' <=> Holds(t, s)
  BY DEF Holds
<1>4. TokenOwner' /\ Grows
  BY <1>3 DEF TokenOwner, Grows
<1>5. OneRotation'
  BY <1>1 DEF OneRotation, OnlyMoves
<1>6. ASSUME NEW q \in Requests \ {r} PROVE LeavesAlone(q)
  <2>1. \A s \in Sessions : sessionLock[s] = q => s \notin gone
    BY AuthAssumption
  <2> QED
    BY <1>1, <1>3, <2>1 DEF LeavesAlone, OnlyMoves
<1> QED
  BY <1>2, <1>4, <1>5, <1>6, CommitStep

\* A token that was used ends its session.
LEMMA RefreshConsumedKeeps ==
  ASSUME IInv, NEW r \in Requests, RefreshConsumed(r)
  PROVE  IInv'
<1> DEFINE reused == ConsumedSession(arg[r])
<1>1. Local(r) /\ TypeOK /\ Kind[r] = "refresh" /\ pc[r] = "consumed"
  BY DEF IInv, RefreshConsumed
<1>2. PICK s \in Sessions : <<arg[r], s>> \in history
  BY <1>1 DEF Local, Named
<1>3. reused # {} /\ s \in reused /\ reused \subseteq Sessions
  BY <1>2 DEF ConsumedSession
<1>4. Finish(r, "reuse") /\ \A x \in reused : sessionLock[x] = Free
  BY <1>3 DEF RefreshConsumed
<1>5. arg' = arg /\ result'[r] = "reuse"
  BY <1>1, <1>4, FinishReleases
<1>6. Answered(r)'
  BY <1>1, <1>2, <1>3, <1>5 DEF Answered, RefreshConsumed, Local, Named
<1>7. RevokedDeviceLoggedOut'
  BY DEF RevokedDeviceLoggedOut, RefreshConsumed, IInv
<1>8. /\ ended' = ended \cup reused /\ revoked' = revoked /\ revoked \subseteq registered
      /\ UNCHANGED <<registered, device, current, history, expired>>
  BY <1>1 DEF RefreshConsumed, TypeOK
<1> HIDE DEF reused
<1> QED
  BY <1>3, <1>4, <1>6, <1>7, <1>8, EndSessions

\* logout, with the current token of its session.
LEMMA LogoutKeeps ==
  ASSUME IInv, NEW r \in Requests, Logout(r)
  PROVE  IInv'
<1> DEFINE found == CurrentSession(arg[r])
<1>1. Local(r) /\ TypeOK /\ Kind[r] = "logout" /\ pc[r] = "token"
  BY DEF IInv, Logout
<1>2. CASE found # {}
  <2>1. PICK s \in Sessions : s \in found /\ Holds(arg[r], s)
    BY <1>2 DEF CurrentSession, Holds
  <2>2. /\ Finish(r, "done") /\ \A x \in found : sessionLock[x] = Free
        /\ ended' = ended \cup found /\ revoked' = revoked /\ revoked \subseteq registered
        /\ UNCHANGED <<registered, device, current, history, expired>>
    BY <1>1, <1>2 DEF Logout, TypeOK
  <2>3. arg' = arg /\ result'[r] = "done"
    BY <1>1, <2>2, FinishReleases
  <2>4. Holds(arg[r], s)'
    BY <2>1, <2>2, <2>3 DEF Holds
  <2>5. Answered(r)'
    BY <1>1, <2>1, <2>2, <2>3, <2>4 DEF Answered, Local, Named
  <2>6. RevokedDeviceLoggedOut'
    BY <2>2 DEF RevokedDeviceLoggedOut, IInv
  <2>7. found \subseteq Sessions
    BY DEF CurrentSession
  <2> HIDE DEF found
  <2> QED
    BY <2>2, <2>5, <2>6, <2>7, EndSessions
<1>3. CASE found = {}
  <2>1. Goto(r, "consumed") /\ UNCHANGED <<store, expired, locks, arg, result>>
    BY <1>3 DEF Logout, store
  <2>2. "consumed" \in LabelsOf(Kind[r]) /\ pc'[r] = "consumed"
    BY <1>1, <2>1 DEF LabelsOf, Goto, TypeOK
  <2>3. OnlyMoves(r)
    BY <1>1, <2>1 DEF OnlyMoves, Goto, TypeOK, locks
  <2>4. PICK s \in Sessions : <<arg[r], s>> \in history
    BY <1>1, <1>3 DEF Local, Named, Holds, CurrentSession
  <2>5. Named(r)' /\ Guarded(r)'
    BY <1>1, <2>1, <2>2, <2>4 DEF Local, Named, Guarded, Holds, store
  <2> QED
    BY <1>1, <2>1, <2>2, <2>3, <2>5, GotoQuiet DEF TypeOK, locks
<1> QED
  BY <1>2, <1>3

\* logout, with a token that was rotated since.
LEMMA LogoutConsumedKeeps ==
  ASSUME IInv, NEW r \in Requests, LogoutConsumed(r)
  PROVE  IInv'
<1> DEFINE found == ConsumedSession(arg[r])
<1>1. Local(r) /\ TypeOK /\ Kind[r] = "logout" /\ pc[r] = "consumed"
  BY DEF IInv, LogoutConsumed
<1>2. PICK s \in Sessions : <<arg[r], s>> \in history
  BY <1>1 DEF Local, Named
<1>3. s \in found /\ found \subseteq Sessions
  BY <1>2 DEF ConsumedSession
<1>4. /\ Finish(r, "done") /\ \A x \in found : sessionLock[x] = Free
      /\ ended' = ended \cup found /\ revoked' = revoked /\ revoked \subseteq registered
      /\ UNCHANGED <<registered, device, current, history, expired>>
  BY <1>1 DEF LogoutConsumed, TypeOK
<1>5. arg' = arg /\ result'[r] = "done"
  BY <1>1, <1>4, FinishReleases
<1>6. Holds(arg[r], s)'
  BY <1>2, <1>4, <1>5 DEF Holds
<1>7. Answered(r)'
  BY <1>1, <1>3, <1>4, <1>5, <1>6 DEF Answered, Local, Named
<1>8. RevokedDeviceLoggedOut'
  BY <1>4 DEF RevokedDeviceLoggedOut, IInv
<1> HIDE DEF found
<1> QED
  BY <1>3, <1>4, <1>7, <1>8, EndSessions

\* revoke_device ends every session of the device; the lock on the user keeps a
\* login of this device from being between its check and its commit.
LEMMA RevokeCommitKeeps ==
  ASSUME IInv, NEW r \in Requests, RevokeCommit(r)
  PROVE  IInv'
<1> DEFINE gone == OpenSessions(arg[r])
<1>1. Local(r) /\ TypeOK /\ Kind[r] = "revoke" /\ pc[r] = "sessions"
  BY DEF IInv, RevokeCommit
<1>2. /\ Finish(r, "done") /\ \A x \in gone : sessionLock[x] = Free
      /\ ended' = ended \cup gone /\ revoked' = revoked \cup {arg[r]}
      /\ UNCHANGED <<registered, device, current, history, expired>>
  BY DEF RevokeCommit
<1>3. gone \subseteq Sessions /\ revoked' \subseteq registered
  BY <1>1, <1>2 DEF OpenSessions, Local, Named, TypeOK
<1>4. arg' = arg /\ result'[r] = "done"
  BY <1>1, <1>2, FinishReleases
<1>5. Answered(r)'
  BY <1>1, <1>4 DEF Answered
<1>6. RevokedDeviceLoggedOut'
  BY <1>2 DEF RevokedDeviceLoggedOut, OpenSessions, IInv
<1>7. \A q \in Requests \ {r} : ~(Kind[q] = "login" /\ pc[q] = "commit")
  <2>1. userLock = r
    BY <1>1 DEF Local, Guarded
  <2> QED
    BY <2>1 DEF IInv, Local, Guarded
<1> HIDE DEF gone
<1> QED
  BY <1>2, <1>3, <1>5, <1>6, <1>7, EndSessions

\* A login adds a session with a token that nobody had before.
LEMMA LoginCommitKeeps ==
  ASSUME IInv, NEW r \in Requests, LoginCommit(r)
  PROVE  IInv'
<1> USE DEF IInv
<1>1. Local(r) /\ TypeOK /\ Kind[r] = "login" /\ pc[r] = "commit" /\ r \in Sessions
  BY DEF LoginCommit, Sessions
<1>2. /\ arg[r] \in Devices /\ arg[r] \notin revoked /\ arg[r] # None
      /\ device[r] = None /\ \A s \in Sessions : ~Holds(r, s)
  BY <1>1, AuthAssumption DEF Local, Named, Guarded, NothingIssued
<1>3. /\ Finish(r, "issued") /\ registered' = registered \cup {arg[r]}
      /\ device' = [device EXCEPT ![r] = arg[r]] /\ current' = [current EXCEPT ![r] = r]
      /\ UNCHANGED <<revoked, ended, history, expired>>
  BY DEF LoginCommit
<1>4. /\ OnlyMoves(r) /\ arg' = arg /\ result'[r] = "issued"
      /\ userLock' \in Requests \cup {Free}
      /\ deviceLock' \in [Devices -> Requests \cup {Free}]
      /\ sessionLock' \in [Sessions -> Requests \cup {Free}]
      /\ pc' = [pc EXCEPT ![r] = "end"] /\ result' = [result EXCEPT ![r] = "issued"]
  BY <1>3, FinishReleases
<1>5. TypeOK'
  <2>1. device' \in [Sessions -> Devices \cup {None}] /\ current' \in [Sessions -> Tokens]
    BY <1>1, <1>2, <1>3 DEF TypeOK, Tokens
  <2> QED
    BY <1>2, <1>3, <1>4, <2>1 DEF TypeOK
<1>6. ASSUME NEW t, NEW s \in Sessions
      PROVE  Holds(t, s)' <=> Holds(t, s) \/ (t = r /\ s = r)
  BY <1>1, <1>2, <1>3 DEF Holds, TypeOK
<1>7. TokenOwner'
  <2>1. \A t \in Tokens, s, x \in Sessions : Holds(t, s)' /\ Holds(t, x)' => s = x
    BY <1>2, <1>6 DEF TokenOwner
  <2>2. ASSUME NEW s \in Sessions, device'[s] # None PROVE <<current'[s], s>> \notin history'
    <3>1. CASE s = r
      BY <3>1, <1>1, <1>2, <1>3 DEF Holds, TypeOK
    <3>2. CASE s # r
      BY <2>2, <3>2, <1>3 DEF TokenOwner, TypeOK
    <3> QED
      BY <3>1, <3>2
  <2> QED
    BY <2>1, <2>2 DEF TokenOwner
<1>8. RevokedDeviceLoggedOut'
  BY <1>2, <1>3 DEF RevokedDeviceLoggedOut, TypeOK
<1>9. OneRotation'
  BY <1>4 DEF OneRotation, OnlyMoves
<1>10. Answered(r)' /\ Grows
  BY <1>1, <1>3, <1>4, <1>6 DEF Answered, Grows
<1>11. ASSUME NEW q \in Requests \ {r} PROVE LeavesAlone(q)
  BY <1>2, <1>3, <1>4, <1>6 DEF LeavesAlone, OnlyMoves, TypeOK
<1> QED
  BY <1>3, <1>5, <1>7, <1>8, <1>9, <1>10, <1>11, CommitStep

\* The session that a refresh rotates is the one that it has locked and found not
\* revoked, and the token that it presented was current until now.
LEMMA RotatesLocked ==
  ASSUME IInv, NEW r \in Requests, RefreshCommit(r)
  PROVE  \E s \in Sessions :
            /\ sessionLock[s] = r /\ device[s] # None /\ current[s] = arg[r] /\ s \notin ended
            /\ arg[r] \in Tokens /\ \A x \in Sessions : Holds(arg[r], x) => x = s
            /\ history' = history \cup {<<arg[r], s>>}
            /\ current' = [current EXCEPT ![s] = r]
<1>1. Local(r) /\ Kind[r] = "refresh" /\ pc[r] = "commit"
  BY DEF RefreshCommit, IInv
<1>2. PICK s \in Sessions :
        sessionLock[s] = r /\ device[s] # None /\ current[s] = arg[r] /\ s \notin ended
  BY <1>1 DEF Local, Guarded
<1>3. arg[r] \in Tokens
  BY <1>1 DEF Local, Named
<1>4. \A x \in Sessions : Holds(arg[r], x) => x = s
  BY <1>2, <1>3 DEF IInv, TokenOwner, Holds
<1>5. \A x \in SessionOf(arg[r]) : x \in Sessions /\ Holds(arg[r], x)
  BY DEF SessionOf, CurrentSession, ConsumedSession, Holds
<1> QED
  BY <1>2, <1>3, <1>4, <1>5 DEF RefreshCommit

\* A refresh moves the token to the history and issues a new one.
LEMMA RefreshCommitKeeps ==
  ASSUME IInv, NEW r \in Requests, RefreshCommit(r)
  PROVE  IInv'
<1> USE DEF IInv
<1>1. Local(r) /\ TypeOK /\ Kind[r] = "refresh" /\ pc[r] = "commit" /\ r \in Tokens
  BY DEF RefreshCommit, Tokens, Sessions
<1>2. PICK s \in Sessions :
            /\ sessionLock[s] = r /\ device[s] # None /\ current[s] = arg[r] /\ s \notin ended
            /\ arg[r] \in Tokens /\ \A x \in Sessions : Holds(arg[r], x) => x = s
            /\ history' = history \cup {<<arg[r], s>>}
            /\ current' = [current EXCEPT ![s] = r]
  BY RotatesLocked
<1>3. Finish(r, "rotated") /\ UNCHANGED <<registered, revoked, device, ended, expired>>
  BY DEF RefreshCommit
<1>4. /\ OnlyMoves(r) /\ arg' = arg /\ result'[r] = "rotated"
      /\ userLock' \in Requests \cup {Free}
      /\ deviceLock' \in [Devices -> Requests \cup {Free}]
      /\ sessionLock' \in [Sessions -> Requests \cup {Free}]
      /\ pc' = [pc EXCEPT ![r] = "end"] /\ result' = [result EXCEPT ![r] = "rotated"]
  BY <1>3, FinishReleases
<1>5. TypeOK'
  <2>1. history' \subseteq Tokens \X Sessions /\ current' \in [Sessions -> Tokens]
    BY <1>1, <1>2 DEF TypeOK
  <2> QED
    BY <1>3, <1>4, <2>1 DEF TypeOK
<1>6. \A x \in Sessions : ~Holds(r, x)
  BY <1>1 DEF Local, NothingIssued
<1>7. ASSUME NEW t, NEW x \in Sessions
      PROVE  Holds(t, x)' <=> Holds(t, x) \/ (t = r /\ x = s)
  BY <1>2, <1>3 DEF Holds, TypeOK
<1>8. <<arg[r], s>> \notin history /\ arg[r] # r
  BY <1>2, <1>6 DEF TokenOwner, Holds
<1>9. TokenOwner'
  <2>1. \A t \in Tokens, x, y \in Sessions : Holds(t, x)' /\ Holds(t, y)' => x = y
    BY <1>6, <1>7 DEF TokenOwner
  <2>2. ASSUME NEW x \in Sessions, device'[x] # None PROVE <<current'[x], x>> \notin history'
    <3>1. CASE x = s
      <4>1. <<r, s>> \notin history
        BY <1>6 DEF Holds
      <4> QED
        BY <3>1, <4>1, <1>2, <1>8 DEF TypeOK
    <3>2. CASE x # s
      BY <2>2, <3>2, <1>2, <1>3 DEF TokenOwner, TypeOK
    <3> QED
      BY <3>1, <3>2
  <2> QED
    BY <2>1, <2>2 DEF TokenOwner
<1>10. RevokedDeviceLoggedOut'
  BY <1>3 DEF RevokedDeviceLoggedOut
<1>11. OneRotation'
  <2>1. ASSUME NEW q \in Requests \ {r}, result[q] = "rotated" PROVE arg[q] # arg[r]
    <3>1. PICK x \in Sessions : <<arg[q], x>> \in history
      BY <2>1 DEF Local, Answered
    <3> QED
      BY <3>1, <1>2, <1>8 DEF Holds
  <2> QED
    BY <1>4, <2>1 DEF OneRotation, OnlyMoves
<1>12. Answered(r)' /\ Grows
  BY <1>1, <1>2, <1>3, <1>4, <1>7 DEF Answered, Grows
<1>13. ASSUME NEW q \in Requests \ {r} PROVE LeavesAlone(q)
  BY <1>2, <1>3, <1>4, <1>7 DEF LeavesAlone, OnlyMoves, TypeOK
<1> QED
  BY <1>3, <1>5, <1>9, <1>10, <1>11, <1>12, <1>13, CommitStep

----------------------------------------------------------------------------
(* The theorems *)

\* The passing of a session's expiry time, and steps that change nothing.
LEMMA TimeKeeps ==
  ASSUME IInv, UNCHANGED <<store, locks, pc, arg, result>>,
         expired' = expired \/ \E s \in Sessions : expired' = expired \cup {s}
  PROVE  IInv'
<1> USE DEF IInv
<1>1. TypeOK'
  BY DEF TypeOK, store, locks
<1>2. \A t, s : Holds(t, s)' <=> Holds(t, s)
  BY DEF Holds, store
<1>3. TokenOwner' /\ OneRotation' /\ RevokedDeviceLoggedOut'
  BY <1>2 DEF TokenOwner, OneRotation, RevokedDeviceLoggedOut, store
<1>4. Grows
  BY <1>2 DEF Grows, store
<1>5. ASSUME NEW q \in Requests PROVE Local(q)'
  <2>1. LeavesAlone(q)
    BY <1>2 DEF LeavesAlone, store, locks
  <2> QED
    BY <1>4, <2>1, OtherKeeps
<1> QED
  BY <1>1, <1>3, <1>5

\* Every step keeps the invariant.
LEMMA NextIInv == IInv /\ [Next]_vars => IInv'
<1> SUFFICES ASSUME IInv, [Next]_vars PROVE IInv'
  OBVIOUS
<1>1. CASE UNCHANGED vars
  BY <1>1, TimeKeeps DEF vars
<1>2. ASSUME NEW r \in Requests, LoginStart(r) \/ TokenStart(r) \/ RevokeStart(r) PROVE IInv'
  BY <1>2, StartKeeps
<1>3. ASSUME NEW r \in Requests, Step(r) PROVE IInv'
  BY <1>3, LockUserKeeps, LoginDeviceKeeps, LoginCommitKeeps, RefreshLockKeeps,
     RefreshIdentityKeeps, RefreshCommitKeeps, RefreshConsumedKeeps, LogoutKeeps,
     LogoutConsumedKeeps, RevokeReadKeeps, RevokeFlushKeeps, RevokeCommitKeeps DEF Step
<1>4. ASSUME NEW r \in Requests, DeadlockDetected(r) \/ Rollback(r) PROVE IInv'
  BY <1>4, FinishQuiet DEF DeadlockDetected, Rollback
<1>5. ASSUME NEW s \in Sessions, Expire(s) PROVE IInv'
  BY <1>5, TimeKeeps DEF Expire
<1> QED
  BY <1>1, <1>2, <1>3, <1>4, <1>5 DEF Next, AllEnded

\* The invariant holds in every reachable state.
LEMMA Invariant == Spec => []IInv
  BY InitIInv, NextIInv, PTL DEF Spec

\* Every variable keeps its type; only a registered device is ever revoked.
THEOREM TypeCorrect == Spec => []TypeOK
<1>1. IInv => TypeOK
  BY DEF IInv
<1> QED
  BY <1>1, Invariant, PTL

\* revoke_device, against any number of logins and refreshes that overlap it: a
\* revoked device has no session that is not revoked.
THEOREM RevocationLogsOut == Spec => []RevokedDeviceLoggedOut
<1>1. IInv => RevokedDeviceLoggedOut
  BY DEF IInv
<1> QED
  BY <1>1, Invariant, PTL

\* refresh: of all the requests with one token at most one gets a new token, and a
\* reuse that was reported has ended the session of the token.
THEOREM ReuseEndsSession == Spec => []ReuseRevokes
<1>1. IInv => ReuseRevokes
  <2> SUFFICES ASSUME IInv PROVE ReuseRevokes
    OBVIOUS
  <2>1. ASSUME NEW r \in Requests, result[r] = "reuse"
        PROVE  ConsumedSession(arg[r]) # {} /\ ConsumedSession(arg[r]) \subseteq ended
    <3>1. PICK s \in Sessions : <<arg[r], s>> \in history /\ s \in ended /\ arg[r] \in Tokens
      BY <2>1 DEF IInv, Local, Answered
    <3>2. \A x \in ConsumedSession(arg[r]) : x = s
      BY <3>1 DEF IInv, TokenOwner, Holds, ConsumedSession
    <3> QED
      BY <3>1, <3>2 DEF ConsumedSession
  <2> QED
    BY <2>1 DEF ReuseRevokes, IInv, OneRotation
<1> QED
  BY <1>1, Invariant, PTL

\* logout, while any number of refreshes rotate the token that it presents: the
\* session of the token has ended.
THEOREM LogoutEndsSession == Spec => []LogoutEnds
<1>1. IInv => LogoutEnds
  <2> SUFFICES ASSUME IInv, NEW r \in Requests, Kind[r] = "logout", result[r] = "done"
               PROVE  CurrentSession(arg[r]) \cup ConsumedSession(arg[r]) \subseteq ended
    BY DEF LogoutEnds
  <2>1. PICK s \in Sessions : Holds(arg[r], s) /\ s \in ended /\ arg[r] \in Tokens
    BY DEF IInv, Local, Answered
  <2>2. \A x \in CurrentSession(arg[r]) \cup ConsumedSession(arg[r]) :
            x \in Sessions /\ Holds(arg[r], x)
    BY DEF CurrentSession, ConsumedSession, Holds
  <2> QED
    BY <2>1, <2>2 DEF IInv, TokenOwner
<1> QED
  BY <1>1, Invariant, PTL

\* A session that was revoked, by a logout, by the reuse of a token or with its device,
\* stays revoked and never gets another token.
EndedForGood ==
    \A s \in ended : s \in ended' /\ (device[s] # None => device'[s] = device[s])
                        /\ (device[s] # None => current'[s] = current[s])

\* A refresh checks the session under its lock, so that none that overlaps the
\* revocation rotates the token of a revoked session.
THEOREM RevokedNeverRefreshed == Spec => [][EndedForGood]_vars
<1>1. IInv /\ [Next]_vars => [EndedForGood]_vars
  <2> SUFFICES ASSUME IInv, Next PROVE EndedForGood
    OBVIOUS
  <2>0. TypeOK /\ ended \subseteq Sessions
    BY DEF IInv, TypeOK
  <2>1. CASE UNCHANGED <<device, current>> /\ ended \subseteq ended'
    BY <2>1 DEF EndedForGood
  <2>2. ASSUME NEW r \in Requests, LoginCommit(r) PROVE EndedForGood
    <3>1. device[r] = None
      BY <2>2 DEF LoginCommit, IInv, Local, NothingIssued
    <3> QED
      BY <2>0, <2>2, <3>1 DEF LoginCommit, EndedForGood, TypeOK
  <2>3. ASSUME NEW r \in Requests, RefreshCommit(r) PROVE EndedForGood
    <3>1. PICK s \in Sessions : s \notin ended /\ current' = [current EXCEPT ![s] = r]
      BY <2>3, RotatesLocked
    <3> QED
      BY <2>0, <2>3, <3>1 DEF RefreshCommit, EndedForGood, TypeOK
  <2> QED
    BY <2>1, <2>2, <2>3
       DEF Next, Step, AllEnded, LoginStart, TokenStart, RevokeStart, LockUser, LoginDevice,
           RefreshLock, RefreshIdentity, RefreshConsumed, Logout, LogoutConsumed, RevokeRead,
           RevokeFlush, RevokeCommit, DeadlockDetected, Rollback, Expire, vars, store
<1> QED
  BY <1>1, Invariant, PTL DEF Spec
=============================================================================
