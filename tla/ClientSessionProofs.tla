------------------------ MODULE ClientSessionProofs ------------------------
(***************************************************************************)
(* Proofs about ClientSession, for any number of tabs, sessions, rotations *)
(* and given-up requests.                                                  *)
(***************************************************************************)
EXTENDS ClientSession, TLAPS

----------------------------------------------------------------------------
(* The inductive invariant: one tab *)

\* The stages of each kind of call.
Stages(k) ==
    CASE k \in {"refresh", "logout"} -> {"idle", "lock", "sent", "answered"}
      [] k = "login" -> {"idle", "register", "replace", "lock", "sent", "answered"}
      [] OTHER -> {"idle", "ready", "await", "failed", "sent", "answered", "done"}

Restoring(b) == "restore" \in b.waiters
Owns(b, k) == b.call[k].mine

\* Calls are in their stages; whoever waits for a refresh waits for one that is
\* under way; only an answer brings cookies.
CallsSound(b) ==
    /\ \A k \in Kinds :
        /\ b.call[k].at \in Stages(k)
        /\ b.call[k].at = "idle" => ~Owns(b, k)
        /\ b.call[k].at # "answered" => b.call[k].sets = {}
    /\ ~Owns(b, "refresh")
    /\ b.waiters # {} => Refreshing(b)
    /\ \A k \in Requests : b.call[k].at = "await" <=> k \in b.waiters

\* The store runs one operation, of an active page: it restores, logs in, loads
\* the account or signs out.
OneOperation(b) ==
    /\ ~b.active => ~Restoring(b) /\ \A k \in Kinds : ~Owns(b, k)
    /\ Restoring(b) => \A k \in {"login", "account", "logout"} : ~Owns(b, k)
    /\ Owns(b, "login") => ~Owns(b, "account") /\ ~Owns(b, "logout")
    /\ Owns(b, "account") => ~Owns(b, "logout")

\* What the operation says of the page.
OperationShown(b) ==
    /\ Restoring(b) => b.phase = "restoring" /\ ~b.signingOut
    /\ Owns(b, "login") => /\ b.phase = "anonymous" /\ b.submitting /\ ~b.signingOut
                           /\ b.call["account"].at = "idle"
    /\ Owns(b, "account") => b.phase # "authenticated" /\ b.token # None /\ ~b.signingOut
    /\ Owns(b, "logout") => b.signingOut \/ b.phase # "authenticated"
    /\ Owns(b, "other") => b.phase = "authenticated" /\ ~b.signingOut

\* What the page shows says of the operation.
PageMoves(b) ==
    b.active =>
        /\ b.phase = "restoring" => Restoring(b) \/ Owns(b, "account") \/ Owns(b, "logout")
        /\ b.submitting => \E k \in {"login", "account", "logout"} : Owns(b, k)
        /\ b.signingOut => Owns(b, "logout")
        /\ b.busy => Owns(b, "other") /\ b.call["other"].errand = "revoke"

\* The access token follows the page.  A refresh whose refusal would not reach the
\* store is one that restores, and nothing has signed in since.
TokenSound(b) ==
    b.active =>
        /\ b.phase = "authenticated" /\ ~b.signingOut => b.token # None
        /\ b.signingOut => b.token = None /\ ~b.call["login"].current
        /\ Refreshing(b) /\ b.call["refresh"].current /\ ~b.notify =>
            b.phase # "authenticated" /\ ~Owns(b, "account")

TabSound(b) ==
    /\ b \in TabRecords
    /\ CallsSound(b) /\ OneOperation(b) /\ OperationShown(b) /\ PageMoves(b) /\ TokenSound(b)

----------------------------------------------------------------------------
(* The inductive invariant: the lock *)

\* The queue is a line of the calls in it, and a call that was sent is at its head.
LockSound ==
    /\ queue \in [Lockers -> SUBSET Lockers]
    /\ \A c \in Lockers : queue[c] \subseteq Queued \ {c}
    /\ \A c \in Lockers \ Queued : queue[c] = {}
    /\ \A c, d \in Queued : c # d => c \in queue[d] \/ d \in queue[c]
    /\ \A c \in Queued : tab[c[1]].call[c[2]].at # "lock" => queue[c] = {}

\* A refresh that starts while the tab signs out waits behind the sign-out.
SignOutFirst ==
    \A t \in Tabs :
        tab[t].active /\ tab[t].signingOut /\ Refreshing(tab[t])
        /\ tab[t].call["refresh"].current
            => <<t, "logout">> \in queue[<<t, "refresh">>]

----------------------------------------------------------------------------
(* The inductive invariant: the cookie *)

\* The token was issued.
Issued(x) == x = None \/ (x \in RefreshTokens /\ x[2] <= rotation[x[1]])

\* The token can be presented: its session is over or one of its answers was
\* lost, or it is the last one that the session issued.
Fits(x) == x = None \/ x[1] \in lost \/ x[1] \notin live \/ x[2] = rotation[x[1]]

Good(x) == Issued(x) /\ Fits(x)

\* What an answer to call c of kind k carries.
AnswerSound(k, c) ==
    CASE k = "refresh" ->
            \/ c.answer = "denied" /\ c.sets = {None}
            \/ c.answer = "ok" /\ \E x \in RefreshTokens : c.sets = {x} /\ Good(x)
      [] k = "login" ->
            \/ c.answer \in {"denied", "revoked"} /\ c.sets = {}
            \/ c.answer = "ok" /\ \E x \in RefreshTokens : c.sets = {x} /\ Good(x)
      [] k = "logout" -> c.answer = "ok" /\ c.sets = {None}
      [] OTHER -> c.answer \in {"ok", "denied"} /\ c.sets = {}

\* The answer of a refresh that rotated the cookie's session is on its way.
Rotating ==
    \E t \in Tabs :
        LET c == tab[t].call["refresh"]
        IN c.at = "answered" /\ \E x \in RefreshTokens : c.sets = {x} /\ x[1] = cookie[1]

WireSound ==
    /\ \A t \in Tabs :
        /\ tab[t].call["refresh"].at = "sent" => Good(tab[t].call["refresh"].presents)
        /\ \A k \in Kinds : tab[t].call[k].at = "answered" => AnswerSound(k, tab[t].call[k])
    /\ Issued(cookie)
    /\ Fits(cookie) \/ Rotating
    /\ \A o \in orphans : o.kind = "refresh" =>
        o.call.presents = None \/ o.call.presents[1] \in lost
    /\ NoFalseReuse

ServerTypes ==
    /\ live \subseteq Sessions /\ reused \subseteq Sessions /\ lost \subseteq Sessions
    /\ rotation \in [Sessions -> 0..MaxRotations]
    /\ cookie \in RefreshTokens \cup {None}
    /\ orphans \subseteq [kind : Locking \cup {"other"}, call : Calls]

TabsSound == tab \in [Tabs -> TabRecords] /\ \A t \in Tabs : TabSound(tab[t])

IInv == ServerTypes /\ TabsSound /\ LockSound /\ SignOutFirst /\ WireSound

----------------------------------------------------------------------------
(* The parts of a step *)

\* The two calls differ in their flags only.
SameCall(c, d) ==
    /\ d \in Calls
    /\ d.at = c.at /\ d.again = c.again /\ d.renewed = c.renewed /\ d.errand = c.errand
    /\ d.presents = c.presents /\ d.answer = c.answer /\ d.sets = c.sets

SameStore(b, d) ==
    /\ d.active = b.active /\ d.phase = b.phase /\ d.submitting = b.submitting
    /\ d.signingOut = b.signingOut /\ d.busy = b.busy

SameClient(b, d) == d.token = b.token /\ d.timer = b.timer /\ d.notify = b.notify

\* A call that is not under way.
LEMMA IdleCall ==
    /\ Idle \in Calls /\ Idle.at = "idle" /\ Idle.mine = FALSE /\ Idle.current = FALSE
    /\ Idle.sets = {} /\ Idle.errand = None /\ Idle.again = FALSE
    /\ Idle.renewed = FALSE
  BY DEF Idle, Calls, Cookies, Answers

\* A call loses its operation, or its revision.
LEMMA FlaggedCalls ==
  ASSUME NEW c \in Calls
  PROVE  [c EXCEPT !.mine = FALSE] \in Calls /\ [c EXCEPT !.current = FALSE] \in Calls
  BY DEF Calls

\* The fields of a tab.
LEMMA TabFields ==
  ASSUME NEW b \in TabRecords
  PROVE  /\ b.active \in BOOLEAN /\ b.submitting \in BOOLEAN /\ b.signingOut \in BOOLEAN
         /\ b.busy \in BOOLEAN /\ b.notify \in BOOLEAN
         /\ b.phase \in {"restoring", "anonymous", "authenticated"}
         /\ b.token \in Sessions \cup {None} /\ b.timer \in {"off", "armed", "retry"}
         /\ b.waiters \in SUBSET ({"restore", "timer"} \cup Requests)
         /\ b.call \in [Kinds -> Calls]
         /\ \A k \in Kinds : b.call[k] \in Calls
  BY DEF TabRecords

\* A step that replaces one call.
LEMMA CallReplaced ==
  ASSUME NEW b \in TabRecords, NEW k \in Kinds, NEW d \in Calls
  PROVE  LET c == [b EXCEPT !.call[k] = d]
         IN /\ c \in TabRecords /\ SameStore(b, c) /\ SameClient(b, c) /\ c.waiters = b.waiters
            /\ c.call[k] = d /\ \A j \in Kinds \ {k} : c.call[j] = b.call[j]
<1> DEFINE calls == [b.call EXCEPT ![k] = d]
<1>1. calls \in [Kinds -> Calls] /\ calls[k] = d /\ \A j \in Kinds \ {k} : calls[j] = b.call[j]
  BY TabFields
<1>2. [b EXCEPT !.call[k] = d] = [b EXCEPT !.call = calls]
  OBVIOUS
<1> HIDE DEF calls
<1> QED
  BY <1>1, <1>2 DEF TabRecords, SameStore, SameClient

\* generation += 1 takes every call from the operation and leaves the rest.
LEMMA DisownFields ==
  ASSUME NEW b \in TabRecords
  PROVE  LET d == Disown(b)
         IN /\ d \in TabRecords /\ SameStore(b, d) /\ SameClient(b, d)
            /\ d.waiters = b.waiters \ {"restore"}
            /\ \A k \in Kinds : /\ SameCall(b.call[k], d.call[k])
                                /\ d.call[k].mine = FALSE /\ d.call[k].current = b.call[k].current
<1> DEFINE calls == [k \in Kinds |-> [b.call[k] EXCEPT !.mine = FALSE]]
<1>1. calls \in [Kinds -> Calls] /\ \A k \in Kinds : calls[k] = [b.call[k] EXCEPT !.mine = FALSE]
  BY TabFields, FlaggedCalls
<1>2. Disown(b) = [b EXCEPT !.waiters = b.waiters \ {"restore"}, !.call = calls]
  BY DEF Disown
<1> HIDE DEF calls
<1>3. LET d == Disown(b)
      IN /\ d \in TabRecords /\ SameStore(b, d) /\ SameClient(b, d)
         /\ d.waiters = b.waiters \ {"restore"} /\ d.call = calls
  BY <1>1, <1>2 DEF TabRecords, SameStore, SameClient
<1>4. \A k \in Kinds : b.call[k] \in Calls
  BY TabFields
<1>5. ASSUME NEW k \in Kinds
      PROVE  /\ SameCall(b.call[k], calls[k])
             /\ calls[k].mine = FALSE /\ calls[k].current = b.call[k].current
  BY <1>1, <1>4 DEF SameCall, Calls
<1> QED
  BY <1>3, <1>5

\* clearAuthenticatedState shows the anonymous page.
LEMMA ClearStateFields ==
  ASSUME NEW b \in TabRecords
  PROVE  LET d == ClearAuthenticatedState(b)
         IN /\ d \in TabRecords /\ SameClient(b, d) /\ d.active = b.active
            /\ d.phase = "anonymous" /\ d.submitting = FALSE /\ d.signingOut = FALSE
            /\ d.busy = FALSE /\ d.waiters = b.waiters \ {"restore"}
            /\ \A k \in Kinds : /\ SameCall(b.call[k], d.call[k])
                                /\ d.call[k].mine = FALSE /\ d.call[k].current = b.call[k].current
<1>1. LET e == Disown(b)
          d == ClearAuthenticatedState(b)
      IN /\ d \in TabRecords /\ SameClient(e, d) /\ d.active = e.active
         /\ d.phase = "anonymous" /\ d.submitting = FALSE /\ d.signingOut = FALSE
         /\ d.busy = FALSE /\ d.waiters = e.waiters /\ d.call = e.call
  BY DisownFields DEF ClearAuthenticatedState, TabRecords, SameClient
<1> QED
  BY <1>1, DisownFields DEF SameClient, SameStore

\* clearSession without a listener forgets the token and the revision.
LEMMA ForgetFields ==
  ASSUME NEW b \in TabRecords
  PROVE  LET d == ClearSession(b, FALSE)
         IN /\ d \in TabRecords /\ SameStore(b, d) /\ d.token = None /\ d.timer = "off"
            /\ d.notify = b.notify /\ d.waiters = b.waiters
            /\ \A k \in Kinds : /\ SameCall(b.call[k], d.call[k])
                                /\ d.call[k].current = FALSE /\ d.call[k].mine = b.call[k].mine
<1> DEFINE calls == [k \in Kinds |-> [b.call[k] EXCEPT !.current = FALSE]]
<1>1. calls \in [Kinds -> Calls] /\ \A k \in Kinds : calls[k] = [b.call[k] EXCEPT !.current = FALSE]
  BY TabFields, FlaggedCalls
<1>2. ClearSession(b, FALSE) = [b EXCEPT !.token = None, !.timer = "off", !.call = calls]
  BY DEF ClearSession
<1> HIDE DEF calls
<1>3. LET d == ClearSession(b, FALSE)
      IN /\ d \in TabRecords /\ SameStore(b, d) /\ d.token = None /\ d.timer = "off"
         /\ d.notify = b.notify /\ d.waiters = b.waiters /\ d.call = calls
  BY <1>1, <1>2 DEF TabRecords, SameStore
<1>4. \A k \in Kinds : b.call[k] \in Calls
  BY TabFields
<1>5. ASSUME NEW k \in Kinds
      PROVE  /\ SameCall(b.call[k], calls[k])
             /\ calls[k].current = FALSE /\ calls[k].mine = b.call[k].mine
  BY <1>1, <1>4 DEF SameCall, Calls
<1> QED
  BY <1>3, <1>5

\* clearSession with a listener also shows the anonymous page.
LEMMA ClearSessionNotifies ==
  ASSUME NEW b, NEW n \in BOOLEAN
  PROVE  ClearSession(b, n) = IF n /\ b.active THEN ClearAuthenticatedState(ClearSession(b, FALSE))
                              ELSE ClearSession(b, FALSE)
  BY DEF ClearSession

----------------------------------------------------------------------------
(* The steps of one tab *)

\* Calls that lose their flags stay sound.
LEMMA FlagsSound ==
  ASSUME NEW b \in TabRecords, NEW d \in TabRecords, CallsSound(b),
         d.waiters = b.waiters \/ d.waiters = b.waiters \ {"restore"},
         \A k \in Kinds : /\ SameCall(b.call[k], d.call[k])
                          /\ d.call[k].mine = b.call[k].mine \/ d.call[k].mine = FALSE
  PROVE  CallsSound(d)
<1>1. \A k \in Kinds :
        /\ d.call[k].at \in Stages(k)
        /\ d.call[k].at = "idle" => ~Owns(d, k)
        /\ d.call[k].at # "answered" => d.call[k].sets = {}
  BY DEF CallsSound, SameCall, Owns
<1>2. ~Owns(d, "refresh")
  BY DEF CallsSound, Owns, Kinds, Locking
<1>3. d.waiters # {} => Refreshing(d)
  BY DEF CallsSound, Refreshing, SameCall, Kinds, Locking
<1>4. \A k \in Requests : d.call[k].at = "await" <=> k \in d.waiters
  BY DEF CallsSound, SameCall, Kinds, Requests
<1> QED
  BY <1>1, <1>2, <1>3, <1>4 DEF CallsSound

\* The anonymous page needs no operation.
LEMMA ClearedSound ==
  ASSUME NEW b \in TabRecords, CallsSound(b)
  PROVE  TabSound(ClearAuthenticatedState(b))
<1> DEFINE d == ClearAuthenticatedState(b)
<1>1. /\ d \in TabRecords /\ d.active = b.active
      /\ d.phase = "anonymous" /\ d.submitting = FALSE /\ d.signingOut = FALSE
      /\ d.busy = FALSE /\ d.waiters = b.waiters \ {"restore"}
      /\ \A k \in Kinds : SameCall(b.call[k], d.call[k]) /\ d.call[k].mine = FALSE
  BY ClearStateFields
<1> HIDE DEF d
<1>2. CallsSound(d)
  BY <1>1, FlagsSound
<1>3. ~Restoring(d) /\ \A k \in Kinds : ~Owns(d, k)
  BY <1>1 DEF Restoring, Owns
<1>4. OneOperation(d) /\ OperationShown(d)
  BY <1>3 DEF OneOperation, OperationShown, Kinds, Locking, Requests
<1>5. PageMoves(d) /\ TokenSound(d)
  BY <1>1, <1>3 DEF PageMoves, TokenSound, Kinds, Locking, Requests
<1> QED
  BY <1>1, <1>2, <1>4, <1>5 DEF TabSound, d

\* clearSession: with a listener, or while nothing that needs a token is going on.
LEMMA ClearSessionSound ==
  ASSUME NEW b, TabSound(b), NEW n \in BOOLEAN,
         \/ n \/ ~b.active
         \/ (b.phase # "authenticated" \/ b.signingOut) /\ ~Owns(b, "account")
  PROVE  TabSound(ClearSession(b, n))
<1> DEFINE d == ClearSession(b, FALSE)
<1>1. /\ d \in TabRecords /\ SameStore(b, d) /\ d.token = None
      /\ d.notify = b.notify /\ d.waiters = b.waiters
      /\ \A k \in Kinds : /\ SameCall(b.call[k], d.call[k])
                          /\ d.call[k].current = FALSE /\ d.call[k].mine = b.call[k].mine
  BY ForgetFields DEF TabSound
<1>2. ClearSession(b, n) = IF n /\ b.active THEN ClearAuthenticatedState(d) ELSE d
  BY ClearSessionNotifies
<1> HIDE DEF d
<1>3. CallsSound(d)
  BY <1>1, FlagsSound DEF TabSound
<1>4. CASE n /\ b.active
  BY <1>1, <1>2, <1>3, <1>4, ClearedSound
<1>5. CASE ~(n /\ b.active)
  <2>1. (Restoring(d) <=> Restoring(b)) /\ \A k \in Kinds : Owns(d, k) <=> Owns(b, k)
    BY <1>1 DEF Restoring, Owns
  <2>2. OneOperation(d)
    BY <1>1, <2>1 DEF TabSound, OneOperation, SameStore, Kinds, Locking, Requests
  <2>3. OperationShown(d)
    BY <1>1, <1>5, <2>1 DEF TabSound, OperationShown, OneOperation, SameStore, SameCall, Kinds, Locking, Requests
  <2>4. PageMoves(d)
    BY <1>1, <2>1 DEF TabSound, PageMoves, SameStore, SameCall, Kinds, Locking, Requests
  <2>5. TokenSound(d)
    BY <1>1, <1>5, <2>1 DEF TabSound, TokenSound, SameStore, Kinds, Locking, Requests
  <2> QED
    BY <1>1, <1>2, <1>3, <1>5, <2>2, <2>3, <2>4, <2>5 DEF TabSound
<1> QED
  BY <1>4, <1>5

\* A call that is over leaves the calls sound.
LEMMA EndedCalls ==
  ASSUME NEW b \in TabRecords, CallsSound(b), NEW k \in Kinds \ {"refresh"},
         b.call[k].at # "await"
  PROVE  CallsSound([b EXCEPT !.call[k] = Idle])
<1> DEFINE c == [b EXCEPT !.call[k] = Idle]
<1>1. /\ c \in TabRecords /\ SameStore(b, c) /\ SameClient(b, c) /\ c.waiters = b.waiters
      /\ c.call[k] = Idle /\ \A j \in Kinds \ {k} : c.call[j] = b.call[j]
  BY CallReplaced, IdleCall
<1> HIDE DEF c
<1>2. \A j \in Kinds :
        /\ c.call[j].at \in Stages(j)
        /\ c.call[j].at = "idle" => ~Owns(c, j)
        /\ c.call[j].at # "answered" => c.call[j].sets = {}
  <2>1. "idle" \in Stages(k)
    BY DEF Stages, Kinds, Locking, Requests
  <2> QED
    BY <1>1, <2>1, IdleCall DEF CallsSound, Owns
<1>3. ~Owns(c, "refresh") /\ (c.waiters # {} => Refreshing(c))
  BY <1>1 DEF CallsSound, Owns, Refreshing, Kinds, Locking
<1>4. \A j \in Requests : c.call[j].at = "await" <=> j \in c.waiters
  BY <1>1, IdleCall DEF CallsSound, Kinds, Requests
<1> QED
  BY <1>2, <1>3, <1>4 DEF CallsSound, c

\* The operation that waits for a call ends, or the call belongs to none.
LEMMA OperationEndsSound ==
  ASSUME NEW b, TabSound(b), NEW k \in Kinds \ {"refresh"}, b.call[k].at # "await"
  PROVE  TabSound(OperationEnds(b, k))
<1> DEFINE c == [b EXCEPT !.call[k] = Idle]
           e == [c EXCEPT !.busy = @ /\ b.call[k].errand # "revoke"]
           f == [c EXCEPT !.submitting = FALSE]
<1>0. b \in TabRecords /\ CallsSound(b)
  BY DEF TabSound
<1>1. /\ c \in TabRecords /\ SameStore(b, c) /\ SameClient(b, c) /\ c.waiters = b.waiters
      /\ c.call[k] = Idle /\ \A j \in Kinds \ {k} : c.call[j] = b.call[j]
  BY <1>0, CallReplaced, IdleCall
<1>2. CallsSound(c)
  BY <1>0, EndedCalls
<1>3. OperationEnds(b, k) =
        IF ~b.call[k].mine THEN c
        ELSE IF k = "other" THEN e
        ELSE IF b.signingOut \/ b.phase = "restoring" THEN ClearAuthenticatedState(c)
        ELSE f
  BY DEF OperationEnds
<1> HIDE DEF c
<1>4. /\ Restoring(c) <=> Restoring(b)
      /\ ~Owns(c, k) /\ \A j \in Kinds \ {k} : Owns(c, j) <=> Owns(b, j)
  BY <1>1, IdleCall DEF Restoring, Owns
<1>5. /\ c.call["login"].current => b.call["login"].current
      /\ Refreshing(c) <=> Refreshing(b)
      /\ c.call["refresh"].current <=> b.call["refresh"].current
  BY <1>1, IdleCall DEF Refreshing, Kinds, Locking
<1>6. CASE ~Owns(b, k)
  <2>1. \A j \in Kinds : Owns(c, j) <=> Owns(b, j)
    BY <1>4, <1>6
  <2>2. OneOperation(c)
    BY <1>1, <1>4, <2>1 DEF TabSound, OneOperation, SameStore, Kinds, Locking, Requests
  <2>3. OperationShown(c)
    BY <1>1, <1>4, <2>1, IdleCall DEF TabSound, OperationShown, SameStore, SameClient, Kinds, Locking, Requests
  <2>4. PageMoves(c)
    BY <1>1, <1>4, <1>6, <2>1 DEF TabSound, PageMoves, SameStore, Kinds, Locking, Requests
  <2>5. TokenSound(c)
    BY <1>1, <1>5, <2>1 DEF TabSound, TokenSound, SameStore, SameClient, Kinds, Locking, Requests
  <2> QED
    BY <1>1, <1>2, <1>3, <1>6, <2>2, <2>3, <2>4, <2>5 DEF TabSound, Owns
<1>7. CASE Owns(b, k) /\ k = "other"
  <2>1. /\ e \in TabRecords /\ SameClient(c, e) /\ e.waiters = c.waiters /\ e.call = c.call
        /\ e.active = c.active /\ e.phase = c.phase /\ e.submitting = c.submitting
        /\ e.signingOut = c.signingOut /\ e.busy = (c.busy /\ b.call[k].errand # "revoke")
    BY <1>1, TabFields DEF TabRecords, SameClient
  <2> HIDE DEF e
  <2>2. CallsSound(e)
    BY <1>2, <2>1 DEF CallsSound, Owns, Refreshing
  <2>3. /\ Restoring(e) <=> Restoring(b)
        /\ ~Owns(e, "other") /\ \A j \in Kinds \ {"other"} : Owns(e, j) <=> Owns(b, j)
    BY <1>4, <1>7, <2>1 DEF Restoring, Owns
  <2>4. /\ e.active = b.active /\ e.phase = b.phase /\ e.submitting = b.submitting
        /\ e.signingOut = b.signingOut /\ e.token = b.token /\ e.notify = b.notify
    BY <1>1, <2>1 DEF SameStore, SameClient
  <2>5. b.active => ~e.busy
    BY <1>1, <1>7, <2>1 DEF TabSound, PageMoves, SameStore
  <2>6. OneOperation(e)
    BY <2>3, <2>4 DEF TabSound, OneOperation, Kinds, Locking, Requests
  <2>7. OperationShown(e)
    BY <1>1, <1>7, <2>1, <2>3, <2>4 DEF TabSound, OperationShown, Kinds, Locking, Requests
  <2>8. PageMoves(e)
    BY <2>3, <2>4, <2>5 DEF TabSound, PageMoves, Kinds, Locking, Requests
  <2>9. TokenSound(e)
    BY <1>5, <2>1, <2>3, <2>4 DEF TabSound, TokenSound, Refreshing, Kinds, Locking, Requests
  <2> QED
    BY <1>3, <1>7, <2>1, <2>2, <2>6, <2>7, <2>8, <2>9 DEF TabSound, Owns
<1>8. CASE Owns(b, k) /\ k # "other" /\ (b.signingOut \/ b.phase = "restoring")
  BY <1>1, <1>2, <1>3, <1>8, ClearedSound DEF Owns
<1>9. CASE Owns(b, k) /\ k # "other" /\ ~(b.signingOut \/ b.phase = "restoring")
  <2>0. k \in {"login", "logout", "account"}
    BY <1>9 DEF Kinds, Locking, Requests
  <2>1. /\ f \in TabRecords /\ SameClient(c, f) /\ f.waiters = c.waiters /\ f.call = c.call
        /\ f.active = c.active /\ f.phase = c.phase /\ f.busy = c.busy
        /\ f.signingOut = c.signingOut /\ f.submitting = FALSE
    BY <1>1 DEF TabRecords, SameClient
  <2> HIDE DEF f
  <2>2. CallsSound(f)
    BY <1>2, <2>1 DEF CallsSound, Owns, Refreshing
  <2>3. /\ Restoring(f) <=> Restoring(b)
        /\ ~Owns(f, k) /\ \A j \in Kinds \ {k} : Owns(f, j) <=> Owns(b, j)
    BY <1>4, <2>1 DEF Restoring, Owns
  <2>4. /\ f.active = b.active /\ f.phase = b.phase /\ f.busy = b.busy
        /\ f.signingOut = b.signingOut /\ f.token = b.token /\ f.notify = b.notify
    BY <1>1, <2>1 DEF SameStore, SameClient
  <2>5. b.phase = "anonymous" /\ ~Restoring(b) /\ ~Owns(b, "other")
    BY <1>0, <1>9, <2>0, TabFields DEF TabSound, OperationShown, OneOperation
  <2>6. OneOperation(f)
    BY <2>3, <2>4 DEF TabSound, OneOperation, Kinds, Locking, Requests
  <2>7. OperationShown(f)
    <3>1. \A j \in {"login", "account", "logout"} : ~Owns(f, j)
      BY <1>9, <2>0, <2>3 DEF TabSound, OneOperation, Kinds, Locking, Requests
    <3>2. ~Owns(f, "other") /\ ~Restoring(f)
      BY <1>9, <2>3, <2>5 DEF Kinds, Requests
    <3> QED
      BY <3>1, <3>2 DEF OperationShown
  <2>8. PageMoves(f)
    BY <1>9, <2>1, <2>3, <2>4, <2>5 DEF TabSound, PageMoves, Kinds, Locking, Requests
  <2>9. TokenSound(f)
    BY <1>9, <2>4, <2>5, <2>3 DEF TabSound, TokenSound, Kinds, Locking, Requests, OneOperation
  <2> QED
    BY <1>3, <1>9, <2>1, <2>2, <2>6, <2>7, <2>8, <2>9 DEF TabSound, Owns
<1> QED
  BY <1>6, <1>7, <1>8, <1>9

\* A call that asks for the lock.
LEMMA AskFields ==
  ASSUME NEW b \in TabRecords, NEW k \in Locking, NEW again \in BOOLEAN
  PROVE  LET c == Asks(b, k, again)
         IN /\ c \in TabRecords /\ SameStore(b, c) /\ SameClient(b, c) /\ c.waiters = b.waiters
            /\ \A j \in Kinds \ {k} : c.call[j] = b.call[j]
            /\ c.call[k].at = "lock" /\ c.call[k].sets = {} /\ c.call[k].errand = None
            /\ c.call[k].current = (k # "logout") /\ c.call[k].mine = (k # "refresh")
<1> DEFINE d == [Idle EXCEPT !.at = "lock", !.current = k # "logout",
                             !.mine = k # "refresh", !.again = again]
<1>1. /\ d \in Calls /\ d.at = "lock" /\ d.sets = {} /\ d.errand = None
      /\ d.current = (k # "logout") /\ d.mine = (k # "refresh")
  BY IdleCall DEF Calls, Idle
<1>2. Asks(b, k, again) = [b EXCEPT !.call[k] = d]
  BY DEF Asks
<1>3. k \in Kinds
  BY DEF Kinds
<1> HIDE DEF d
<1> DEFINE c == [b EXCEPT !.call[k] = d]
<1>4. /\ c \in TabRecords /\ SameStore(b, c) /\ SameClient(b, c) /\ c.waiters = b.waiters
      /\ c.call[k] = d /\ \A j \in Kinds \ {k} : c.call[j] = b.call[j]
  BY <1>1, <1>3, CallReplaced
<1> QED
  BY <1>1, <1>2, <1>4

\* Those in who join the refresh that runs, or one that asks for the lock.
JoinsRefresh(b, d, who) ==
    /\ \A j \in Kinds \ {"refresh"} : d.call[j] = b.call[j]
    /\ Refreshing(b) => d.waiters = b.waiters \cup who /\ d.call["refresh"] = b.call["refresh"]
    /\ ~Refreshing(b) => /\ d.waiters = who
                         /\ d.call["refresh"].at = "lock" /\ d.call["refresh"].sets = {}
                         /\ d.call["refresh"].mine = FALSE /\ d.call["refresh"].current = TRUE

\* refreshAccessToken joins the refresh that runs, or starts one.
LEMMA RefreshFields ==
  ASSUME NEW b \in TabRecords, NEW n \in BOOLEAN,
         NEW who \in SUBSET ({"restore", "timer"} \cup Requests)
  PROVE  LET d == RefreshAccessToken(b, n, who)
         IN /\ d \in TabRecords /\ SameStore(b, d) /\ d.token = b.token /\ d.timer = b.timer
            /\ JoinsRefresh(b, d, who) /\ d.notify = IF Refreshing(b) THEN b.notify ELSE n
<1>1. CASE Refreshing(b)
  <2>1. RefreshAccessToken(b, n, who) = [b EXCEPT !.waiters = b.waiters \cup who]
    BY <1>1 DEF RefreshAccessToken
  <2>2. b.waiters \cup who \in SUBSET ({"restore", "timer"} \cup Requests)
    BY TabFields
  <2> QED
    BY <1>1, <2>1, <2>2 DEF TabRecords, SameStore, JoinsRefresh
<1>2. CASE ~Refreshing(b)
  <2> DEFINE c == Asks(b, "refresh", FALSE)
  <2>1. /\ c \in TabRecords /\ SameStore(b, c) /\ SameClient(b, c)
        /\ \A j \in Kinds \ {"refresh"} : c.call[j] = b.call[j]
        /\ c.call["refresh"].at = "lock" /\ c.call["refresh"].sets = {}
        /\ c.call["refresh"].current = TRUE /\ c.call["refresh"].mine = FALSE
    BY AskFields DEF Locking
  <2>2. RefreshAccessToken(b, n, who) = [c EXCEPT !.notify = n, !.waiters = who]
    BY <1>2 DEF RefreshAccessToken
  <2> HIDE DEF c
  <2>3. LET d == [c EXCEPT !.notify = n, !.waiters = who]
        IN /\ d \in TabRecords /\ SameStore(c, d) /\ d.token = c.token /\ d.timer = c.timer
           /\ d.notify = n /\ d.waiters = who /\ d.call = c.call
    BY <2>1 DEF TabRecords, SameStore
  <2> QED
    BY <1>2, <2>1, <2>2, <2>3 DEF SameStore, SameClient, JoinsRefresh
<1> QED
  BY <1>1, <1>2

\* The calls are sound, if those in who join the refresh.
CallsJoin(b, who) ==
    /\ \A k \in Kinds :
        /\ b.call[k].at \in Stages(k)
        /\ b.call[k].at = "idle" => ~Owns(b, k)
        /\ b.call[k].at # "answered" => b.call[k].sets = {}
    /\ ~Owns(b, "refresh")
    /\ b.waiters # {} => Refreshing(b)
    /\ \A k \in Requests : b.call[k].at = "await" <=> k \in b.waiters \cup who

\* Joining or starting a refresh keeps the calls sound.
LEMMA RefreshCalls ==
  ASSUME NEW b, NEW d, NEW who, CallsJoin(b, who), JoinsRefresh(b, d, who)
  PROVE  CallsSound(d)
<1>2. \A j \in Kinds :
        /\ d.call[j].at \in Stages(j)
        /\ d.call[j].at = "idle" => ~Owns(d, j)
        /\ d.call[j].at # "answered" => d.call[j].sets = {}
  <2>1. "lock" \in Stages("refresh")
    BY DEF Stages
  <2> QED
    BY <2>1 DEF CallsJoin, JoinsRefresh, Owns
<1>3. ~Owns(d, "refresh") /\ Refreshing(d)
  BY DEF CallsJoin, JoinsRefresh, Owns, Refreshing
<1>4. \A j \in Requests : d.call[j].at = "await" <=> j \in d.waiters
  BY DEF CallsJoin, JoinsRefresh, Kinds, Requests
<1> QED
  BY <1>2, <1>3, <1>4 DEF CallsSound

\* A refresh that tells the store of its refusal disturbs no operation.
LEMMA RefreshSound ==
  ASSUME NEW b \in TabRecords, NEW who \in SUBSET ({"timer"} \cup Requests), CallsJoin(b, who),
         OneOperation(b), OperationShown(b), PageMoves(b), TokenSound(b)
  PROVE  TabSound(RefreshAccessToken(b, TRUE, who))
<1> DEFINE d == RefreshAccessToken(b, TRUE, who)
<1>0. who \in SUBSET ({"restore", "timer"} \cup Requests) /\ "restore" \notin who
  BY DEF Requests
<1>1. /\ d \in TabRecords /\ SameStore(b, d) /\ d.token = b.token /\ d.timer = b.timer
      /\ JoinsRefresh(b, d, who) /\ d.notify = IF Refreshing(b) THEN b.notify ELSE TRUE
  BY <1>0, RefreshFields
<1>2. CallsSound(d)
  BY <1>1, RefreshCalls
<1> HIDE DEF d
<1>3. /\ Restoring(d) <=> Restoring(b)
      /\ \A j \in Kinds : Owns(d, j) <=> Owns(b, j)
  BY <1>0, <1>1 DEF CallsJoin, JoinsRefresh, Restoring, Owns, Requests
<1>4. OneOperation(d)
  BY <1>1, <1>3 DEF OneOperation, SameStore, Kinds, Locking, Requests
<1>5. OperationShown(d)
  BY <1>1, <1>3 DEF OperationShown, JoinsRefresh, SameStore, Kinds, Locking, Requests
<1>6. PageMoves(d)
  BY <1>1, <1>3 DEF PageMoves, JoinsRefresh, SameStore, Kinds, Locking, Requests
<1>7. TokenSound(d)
  BY <1>1, <1>3 DEF TokenSound, JoinsRefresh, SameStore, Refreshing, Kinds, Locking, Requests
<1> QED
  BY <1>1, <1>2, <1>4, <1>5, <1>6, <1>7 DEF TabSound, d

\* A call that moves on with its flags disturbs no operation.
LEMMA CallMoves ==
  ASSUME NEW b, TabSound(b), NEW k \in Kinds, NEW d \in Calls,
         d.mine = b.call[k].mine, d.current = b.call[k].current, d.errand = b.call[k].errand,
         (d.at = "idle") <=> (b.call[k].at = "idle")
  PROVE  LET c == [b EXCEPT !.call[k] = d]
         IN OneOperation(c) /\ OperationShown(c) /\ PageMoves(c) /\ TokenSound(c)
<1> DEFINE c == [b EXCEPT !.call[k] = d]
<1>1. /\ c \in TabRecords /\ SameStore(b, c) /\ SameClient(b, c) /\ c.waiters = b.waiters
      /\ c.call[k] = d /\ \A j \in Kinds \ {k} : c.call[j] = b.call[j]
  BY CallReplaced DEF TabSound
<1> HIDE DEF c
<1>2. /\ Restoring(c) <=> Restoring(b)
      /\ \A j \in Kinds : /\ Owns(c, j) <=> Owns(b, j)
                          /\ c.call[j].current = b.call[j].current
                          /\ c.call[j].errand = b.call[j].errand
                          /\ (c.call[j].at = "idle") <=> (b.call[j].at = "idle")
  BY <1>1 DEF Restoring, Owns
<1>3. OneOperation(c)
  BY <1>1, <1>2 DEF TabSound, OneOperation, SameStore, Kinds, Locking, Requests
<1>4. OperationShown(c)
  BY <1>1, <1>2 DEF TabSound, OperationShown, SameStore, SameClient, Kinds, Locking, Requests
<1>5. PageMoves(c)
  BY <1>1, <1>2 DEF TabSound, PageMoves, SameStore, Kinds, Locking, Requests
<1>6. TokenSound(c)
  BY <1>1, <1>2 DEF TabSound, TokenSound, SameStore, SameClient, Refreshing, Kinds, Locking, Requests
<1> QED
  BY <1>3, <1>4, <1>5, <1>6 DEF c

\* A call that moves on and waits for nobody.
LEMMA CallMovesSound ==
  ASSUME NEW b, TabSound(b), NEW k \in Kinds, NEW d \in Calls,
         d.mine = b.call[k].mine, d.current = b.call[k].current, d.errand = b.call[k].errand,
         d.at \in Stages(k) \ {"idle", "await"}, b.call[k].at \notin {"idle", "await"},
         d.at # "answered" => d.sets = {}
  PROVE  TabSound([b EXCEPT !.call[k] = d])
<1> DEFINE c == [b EXCEPT !.call[k] = d]
<1>1. /\ c \in TabRecords /\ c.waiters = b.waiters
      /\ c.call[k] = d /\ \A j \in Kinds \ {k} : c.call[j] = b.call[j]
  BY CallReplaced DEF TabSound
<1>2. OneOperation(c) /\ OperationShown(c) /\ PageMoves(c) /\ TokenSound(c)
  BY CallMoves
<1> HIDE DEF c
<1>3. \A j \in Kinds :
        /\ c.call[j].at \in Stages(j)
        /\ c.call[j].at = "idle" => ~Owns(c, j)
        /\ c.call[j].at # "answered" => c.call[j].sets = {}
  BY <1>1 DEF TabSound, CallsSound, Owns
<1>4. ~Owns(c, "refresh") /\ (c.waiters # {} => Refreshing(c))
  BY <1>1 DEF TabSound, CallsSound, Owns, Refreshing, Kinds, Locking
<1>5. \A j \in Requests : c.call[j].at = "await" <=> j \in c.waiters
  BY <1>1 DEF TabSound, CallsSound, Kinds, Requests
<1>6. CallsSound(c)
  BY <1>3, <1>4, <1>5 DEF CallsSound
<1> QED
  BY <1>1, <1>2, <1>6 DEF TabSound, c

----------------------------------------------------------------------------
(* What a step leaves to the other calls *)

OnWire == {"sent", "answered"}

SameWire(x, y) ==
    y.at = x.at /\ y.presents = x.presents /\ y.answer = x.answer /\ y.sets = x.sets

\* A tab b that becomes c moves call k: it sends nothing else, and no other call
\* asks for the lock or leaves it.
Keeps(b, c, k) ==
    \A j \in Kinds \ {k} :
        /\ j \in Locking => c.call[j].at = b.call[j].at
        /\ c.call[j].at \in OnWire => SameWire(b.call[j], c.call[j])

\* A refresh that counts while the tab signs out was there, or starts now.
SignKept(b, c) ==
    c.active /\ c.signingOut /\ Refreshing(c) /\ c.call["refresh"].current =>
        b.active /\ b.signingOut /\ (Refreshing(b) => b.call["refresh"].current)

\* Flags are not seen outside the tab.
LEMMA FlagsKeep ==
  ASSUME NEW b, NEW c, NEW d, NEW k \in Kinds, Keeps(b, c, k),
         \A j \in Kinds : SameCall(c.call[j], d.call[j])
  PROVE  Keeps(b, d, k) /\ d.call[k].at = c.call[k].at
<1>1. d.call[k].at = c.call[k].at
  BY DEF SameCall
<1>2. ASSUME NEW j \in Kinds \ {k}
      PROVE  /\ j \in Locking => d.call[j].at = b.call[j].at
             /\ d.call[j].at \in OnWire => SameWire(b.call[j], d.call[j])
  BY DEF Keeps, SameCall, SameWire
<1> QED
  BY <1>1, <1>2 DEF Keeps

\* The end of an operation moves its call only.
LEMMA OperationEndsKeeps ==
  ASSUME NEW b \in TabRecords, NEW k \in Kinds \ {"refresh"}
  PROVE  LET c == OperationEnds(b, k)
         IN Keeps(b, c, k) /\ SignKept(b, c) /\ c.call[k].at = "idle"
<1> DEFINE c == [b EXCEPT !.call[k] = Idle]
           e == [c EXCEPT !.busy = @ /\ b.call[k].errand # "revoke"]
           f == [c EXCEPT !.submitting = FALSE]
           a == ClearAuthenticatedState(c)
<1>1. /\ c \in TabRecords /\ SameStore(b, c) /\ SameClient(b, c) /\ c.waiters = b.waiters
      /\ c.call[k] = Idle /\ \A j \in Kinds \ {k} : c.call[j] = b.call[j]
  BY CallReplaced, IdleCall
<1>2. OperationEnds(b, k) =
        IF ~b.call[k].mine THEN c
        ELSE IF k = "other" THEN e
        ELSE IF b.signingOut \/ b.phase = "restoring" THEN a
        ELSE f
  BY DEF OperationEnds
<1> HIDE DEF c
<1>3. Keeps(b, c, k) /\ SignKept(b, c) /\ c.call[k].at = "idle"
  BY <1>1, IdleCall DEF Keeps, SignKept, SameStore, Refreshing, SameWire, Kinds, Locking
<1>4. /\ e.call = c.call /\ e.active = c.active /\ e.signingOut = c.signingOut
      /\ f.call = c.call /\ f.active = c.active /\ f.signingOut = c.signingOut
  BY <1>1 DEF TabRecords
<1>5. /\ Keeps(b, e, k) /\ SignKept(b, e) /\ e.call[k].at = "idle"
      /\ Keeps(b, f, k) /\ SignKept(b, f) /\ f.call[k].at = "idle"
  BY <1>3, <1>4 DEF Keeps, SignKept, Refreshing
<1>6. a.signingOut = FALSE /\ \A j \in Kinds : SameCall(c.call[j], a.call[j])
  BY <1>1, ClearStateFields
<1> HIDE DEF a, e, f
<1>7. Keeps(b, a, k) /\ SignKept(b, a) /\ a.call[k].at = "idle"
  BY <1>3, <1>6, FlagsKeep DEF SignKept
<1> QED
  BY <1>2, <1>3, <1>5, <1>7

----------------------------------------------------------------------------
(* The answers *)

\* The tokens of an answer are accepted.
LEMMA AcceptSound ==
  ASSUME NEW b, TabSound(b), NEW s \in Sessions, ~(b.active /\ b.signingOut)
  PROVE  LET c == AcceptTokens(b, s)
         IN /\ TabSound(c) /\ SameStore(b, c) /\ c.token = s
            /\ c.notify = b.notify /\ c.waiters = b.waiters /\ c.call = b.call
<1> DEFINE c == AcceptTokens(b, s)
<1>0. s # None
  BY SessionAssumption DEF Sessions
<1>1. /\ c \in TabRecords /\ SameStore(b, c) /\ c.token = s
      /\ c.notify = b.notify /\ c.waiters = b.waiters /\ c.call = b.call
  BY DEF AcceptTokens, TabSound, TabRecords, SameStore
<1> HIDE DEF c
<1>2. CallsSound(c)
  BY <1>1 DEF TabSound, CallsSound, Owns, Refreshing
<1>3. OneOperation(c) /\ OperationShown(c)
  BY <1>0, <1>1 DEF TabSound, OneOperation, OperationShown, Owns, Restoring, SameStore
<1>4. PageMoves(c) /\ TokenSound(c)
  BY <1>0, <1>1 DEF TabSound, PageMoves, TokenSound, Owns, Restoring, SameStore, Refreshing
<1> QED
  BY <1>1, <1>2, <1>3, <1>4 DEF TabSound, c

\* loadAccount starts.
LEMMA LoadFields ==
  ASSUME NEW b \in TabRecords
  PROVE  LET c == LoadsAccount(b)
         IN /\ c \in TabRecords /\ SameStore(b, c) /\ SameClient(b, c) /\ c.waiters = b.waiters
            /\ c.call["account"].at = "ready" /\ c.call["account"].mine = TRUE
            /\ c.call["account"].sets = {}
            /\ \A j \in Kinds \ {"account"} : c.call[j] = b.call[j]
<1> DEFINE d == [Idle EXCEPT !.at = "ready", !.mine = TRUE]
           c == [b EXCEPT !.call["account"] = d]
<1>1. d \in Calls /\ d.at = "ready" /\ d.mine = TRUE /\ d.sets = {}
  BY IdleCall DEF Calls, Idle
<1>2. "account" \in Kinds
  BY DEF Kinds, Requests
<1>3. LoadsAccount(b) = c
  BY DEF LoadsAccount
<1> HIDE DEF d
<1>4. /\ c \in TabRecords /\ SameStore(b, c) /\ SameClient(b, c) /\ c.waiters = b.waiters
      /\ c.call["account"] = d /\ \A j \in Kinds \ {"account"} : c.call[j] = b.call[j]
  BY <1>1, <1>2, CallReplaced
<1> QED
  BY <1>1, <1>3, <1>4

\* loadAccount takes over from the operation that got the token.
LEMMA LoadSound ==
  ASSUME NEW b \in TabRecords, CallsSound(b), b.active, b.token # None,
         b.phase # "authenticated", ~b.signingOut, ~b.busy, ~Restoring(b),
         b.call["account"].at # "await", \A k \in Kinds \ {"account"} : ~Owns(b, k),
         ~(Refreshing(b) /\ b.call["refresh"].current)
  PROVE  TabSound(LoadsAccount(b))
<1> DEFINE c == LoadsAccount(b)
<1>1. /\ c \in TabRecords /\ SameStore(b, c) /\ SameClient(b, c) /\ c.waiters = b.waiters
      /\ c.call["account"].at = "ready" /\ c.call["account"].mine = TRUE
      /\ c.call["account"].sets = {}
      /\ \A j \in Kinds \ {"account"} : c.call[j] = b.call[j]
  BY LoadFields
<1> HIDE DEF c
<1>2. /\ ~Restoring(c) /\ Owns(c, "account") /\ \A k \in Kinds \ {"account"} : ~Owns(c, k)
      /\ ~(Refreshing(c) /\ c.call["refresh"].current)
  BY <1>1 DEF Restoring, Owns, Refreshing, Kinds, Locking
<1>3. \A j \in Kinds :
        /\ c.call[j].at \in Stages(j)
        /\ c.call[j].at = "idle" => ~Owns(c, j)
        /\ c.call[j].at # "answered" => c.call[j].sets = {}
  <2>1. "ready" \in Stages("account")
    BY DEF Stages
  <2> QED
    BY <1>1, <2>1 DEF CallsSound, Owns
<1>4. c.waiters # {} => Refreshing(c)
  BY <1>1 DEF CallsSound, Refreshing, Kinds, Locking
<1>5. \A j \in Requests : c.call[j].at = "await" <=> j \in c.waiters
  BY <1>1 DEF CallsSound, Kinds, Requests
<1>6. CallsSound(c)
  BY <1>2, <1>3, <1>4, <1>5 DEF CallsSound, Kinds, Locking
<1>7. OneOperation(c) /\ OperationShown(c)
  BY <1>1, <1>2 DEF OneOperation, OperationShown, SameStore, SameClient, Kinds, Locking, Requests
<1>8. PageMoves(c) /\ TokenSound(c)
  BY <1>1, <1>2 DEF PageMoves, TokenSound, SameStore, SameClient
<1> QED
  BY <1>1, <1>6, <1>7, <1>8 DEF TabSound, c

\* Those who wait for the refresh go on: tab c with the calls as they are then.
Resumed(c, error) ==
    [k \in Kinds |->
        CASE k = "refresh" -> Idle
          [] k \in c.waiters -> [c.call[k] EXCEPT !.at = IF error THEN "failed" ELSE "ready"]
          [] OTHER -> c.call[k]]

\* The fields of the calls that go on.
LEMMA ResumedFields ==
  ASSUME NEW c, TabSound(c), NEW error \in BOOLEAN
  PROVE  /\ Resumed(c, error) \in [Kinds -> Calls]
         /\ Resumed(c, error)["refresh"] = Idle
         /\ \A k \in Kinds \ {"refresh"} :
              LET d == Resumed(c, error)[k]
              IN /\ d.mine = c.call[k].mine /\ d.current = c.call[k].current
                 /\ d.errand = c.call[k].errand /\ d.sets = c.call[k].sets
                 /\ k \notin c.waiters => d = c.call[k]
                 /\ k \in c.waiters => d.at \in {"ready", "failed"} /\ k \in Requests
<1>1. "refresh" \in Kinds /\ "refresh" \notin c.waiters
  BY TabFields DEF TabSound, Kinds, Locking, Requests
<1>2. \A k \in Kinds : k \in c.waiters => k \in Requests
  BY TabFields DEF TabSound, Kinds, Locking, Requests
<1>3. ASSUME NEW k \in Kinds \ {"refresh"}
      PROVE  LET d == Resumed(c, error)[k]
             IN /\ d \in Calls /\ d.mine = c.call[k].mine /\ d.current = c.call[k].current
                /\ d.errand = c.call[k].errand /\ d.sets = c.call[k].sets
                /\ k \notin c.waiters => d = c.call[k]
                /\ k \in c.waiters => d.at \in {"ready", "failed"}
  <2>1. c.call[k] \in Calls
    BY TabFields DEF TabSound
  <2>2. CASE k \in c.waiters
    <3>1. Resumed(c, error)[k] = [c.call[k] EXCEPT !.at = IF error THEN "failed" ELSE "ready"]
      BY <2>2 DEF Resumed
    <3> QED
      BY <2>1, <2>2, <3>1 DEF Calls
  <2>3. CASE k \notin c.waiters
    <3>1. Resumed(c, error)[k] = c.call[k]
      BY <2>3 DEF Resumed
    <3> QED
      BY <2>1, <2>3, <3>1
  <2> QED
    BY <2>2, <2>3
<1>4. Resumed(c, error)["refresh"] = Idle
  BY <1>1 DEF Resumed
<1>5. Resumed(c, error) \in [Kinds -> Calls]
  <2>1. Resumed(c, error) = [k \in Kinds |-> Resumed(c, error)[k]]
    BY DEF Resumed
  <2>2. \A k \in Kinds : Resumed(c, error)[k] \in Calls
    BY <1>3, <1>4, IdleCall
  <2> QED
    BY <2>1, <2>2
<1> QED
  BY <1>2, <1>3, <1>4, <1>5

\* The refresh is over and whoever waited for it goes on; restore has its own end.
Settles(c, error, retry) ==
    [c EXCEPT !.waiters = {}, !.notify = FALSE, !.call = Resumed(c, error),
              !.timer = IF retry THEN "retry" ELSE @]

\* The refresh is over, for the tab that has taken its answer.
LEMMA SettlesSound ==
  ASSUME NEW c, TabSound(c), NEW error \in BOOLEAN, NEW retry \in BOOLEAN
  PROVE  LET d == Settles(c, error, retry)
         IN /\ d \in TabRecords /\ SameStore(c, d) /\ d.token = c.token /\ d.waiters = {}
            /\ CallsSound(d) /\ ~Refreshing(d) /\ Keeps(c, d, "refresh")
            /\ \A k \in Kinds : Owns(d, k) <=> Owns(c, k)
            /\ ~Restoring(c) => TabSound(d)
            /\ Restoring(c) => TabSound(RestoreEnds(d, error))
<1> DEFINE d == Settles(c, error, retry)
<1>0. c \in TabRecords /\ Resumed(c, error) \in [Kinds -> Calls]
  BY ResumedFields DEF TabSound
<1>1. /\ d \in TabRecords /\ SameStore(c, d) /\ d.token = c.token /\ d.waiters = {}
      /\ d.call = Resumed(c, error)
  BY <1>0 DEF Settles, TabRecords, SameStore
<1> HIDE DEF d
<1>2. /\ d.call["refresh"] = Idle
      /\ \A k \in Kinds \ {"refresh"} :
              /\ d.call[k].mine = c.call[k].mine /\ d.call[k].current = c.call[k].current
              /\ d.call[k].errand = c.call[k].errand /\ d.call[k].sets = c.call[k].sets
              /\ k \notin c.waiters => d.call[k] = c.call[k]
              /\ k \in c.waiters => d.call[k].at \in {"ready", "failed"} /\ k \in Requests
  BY <1>1, ResumedFields
<1>3. CallsSound(d) /\ ~Refreshing(d)
  <2>1. ASSUME NEW k \in Kinds
        PROVE  /\ d.call[k].at \in Stages(k)
               /\ d.call[k].at = "idle" => ~Owns(d, k)
               /\ d.call[k].at # "answered" => d.call[k].sets = {}
    <3>1. CASE k = "refresh"
      BY <1>2, <3>1, IdleCall DEF Stages, Owns
    <3>2. CASE k # "refresh" /\ k \notin c.waiters
      BY <1>2, <3>2 DEF TabSound, CallsSound, Owns
    <3>3. CASE k # "refresh" /\ k \in c.waiters
      <4>1. d.call[k].at \in {"ready", "failed"} /\ k \in Requests /\ d.call[k].sets = c.call[k].sets
        BY <1>2, <3>3
      <4>2. c.call[k].at = "await"
        BY <3>3, <4>1 DEF TabSound, CallsSound
      <4>3. c.call[k].sets = {}
        BY <4>2 DEF TabSound, CallsSound
      <4> QED
        BY <4>1, <4>3 DEF Stages, Requests
    <3> QED
      BY <3>1, <3>2, <3>3
  <2>2. ~Owns(d, "refresh") /\ ~Refreshing(d)
    BY <1>2, IdleCall DEF Owns, Refreshing
  <2>3. \A k \in Requests : d.call[k].at # "await"
    BY <1>2 DEF TabSound, CallsSound, Kinds, Requests, Locking
  <2> QED
    BY <1>1, <2>1, <2>2, <2>3 DEF CallsSound
<1>4. Keeps(c, d, "refresh")
  BY <1>2 DEF Keeps, OnWire, SameWire, Locking, Requests
<1>5. \A k \in Kinds : Owns(d, k) <=> Owns(c, k)
  BY <1>2, IdleCall DEF TabSound, CallsSound, Owns
<1>6. ASSUME ~Restoring(c) PROVE TabSound(d)
  <2>1. ~Restoring(d)
    BY <1>1 DEF Restoring
  <2>2. OneOperation(d)
    BY <1>1, <1>5, <2>1 DEF TabSound, OneOperation, SameStore, Kinds, Locking, Requests
  <2>3. OperationShown(d)
    BY <1>1, <1>2, <1>5, <2>1 DEF TabSound, OperationShown, CallsSound, SameStore, Kinds, Locking, Requests
  <2>4. PageMoves(d)
    BY <1>1, <1>2, <1>5, <1>6, <2>1 DEF TabSound, PageMoves, SameStore, Kinds, Locking, Requests
  <2>5. TokenSound(d)
    BY <1>1, <1>2, <1>3, <1>5 DEF TabSound, TokenSound, SameStore, Kinds, Locking, Requests
  <2> QED
    BY <1>1, <1>3, <2>2, <2>3, <2>4, <2>5 DEF TabSound
<1>7. ASSUME Restoring(c) PROVE TabSound(RestoreEnds(d, error))
  <2>1. CASE error \/ d.token = None
    BY <1>1, <1>3, <2>1, ClearedSound DEF RestoreEnds
  <2>2. CASE ~(error \/ d.token = None)
    <3>1. /\ c.active /\ c.phase = "restoring" /\ ~c.signingOut
          /\ \A k \in {"login", "account", "logout"} : ~Owns(c, k)
      BY <1>7 DEF TabSound, OneOperation, OperationShown
    <3>2. ~Owns(c, "other") /\ ~Owns(c, "refresh") /\ ~c.busy
      BY <3>1 DEF TabSound, CallsSound, OperationShown, PageMoves
    <3>3. \A k \in Kinds : ~Owns(d, k)
      BY <1>5, <3>1, <3>2 DEF Kinds, Locking, Requests
    <3>4. ~Restoring(d) /\ d.call["account"].at # "await"
      BY <1>1, <1>3 DEF Restoring, CallsSound, Requests
    <3>5. d.active /\ d.phase # "authenticated" /\ ~d.signingOut /\ ~d.busy
      BY <1>1, <3>1, <3>2 DEF SameStore
    <3> QED
      BY <1>1, <1>3, <2>2, <3>3, <3>4, <3>5, LoadSound DEF RestoreEnds
  <2> QED
    BY <2>1, <2>2
<1> QED
  BY <1>1, <1>3, <1>4, <1>5, <1>6, <1>7 DEF d

\* Two parts of a step that move the same call.
LEMMA KeepsTwice ==
  ASSUME NEW b, NEW c, NEW d, NEW k \in Kinds, Keeps(b, c, k), Keeps(c, d, k)
  PROVE  Keeps(b, d, k)
<1>1. ASSUME NEW j \in Kinds \ {k}
      PROVE  /\ j \in Locking => d.call[j].at = b.call[j].at
             /\ d.call[j].at \in OnWire => SameWire(b.call[j], d.call[j])
  BY DEF Keeps, SameWire
<1> QED
  BY <1>1 DEF Keeps

\* The end of restoreSession moves no call on the wire.
LEMMA RestoreEndsKeeps ==
  ASSUME NEW d \in TabRecords, NEW error \in BOOLEAN
  PROVE  LET r == RestoreEnds(d, error)
         IN Keeps(d, r, "refresh") /\ r.call["refresh"].at = d.call["refresh"].at
<1>0. "refresh" \in Kinds /\ Keeps(d, d, "refresh")
  BY DEF Keeps, SameWire, Kinds, Locking
<1>1. CASE error \/ d.token = None
  <2> DEFINE r == ClearAuthenticatedState(d)
  <2>1. RestoreEnds(d, error) = r
    BY <1>1 DEF RestoreEnds
  <2>2. \A k \in Kinds : SameCall(d.call[k], r.call[k])
    BY ClearStateFields
  <2> HIDE DEF r
  <2> QED
    BY <1>0, <2>1, <2>2, FlagsKeep
<1>2. CASE ~(error \/ d.token = None)
  <2> DEFINE r == LoadsAccount(d)
  <2>1. RestoreEnds(d, error) = r
    BY <1>2 DEF RestoreEnds
  <2>2. /\ r \in TabRecords /\ SameStore(d, r) /\ SameClient(d, r) /\ r.waiters = d.waiters
        /\ r.call["account"].at = "ready" /\ r.call["account"].mine = TRUE
        /\ r.call["account"].sets = {}
        /\ \A j \in Kinds \ {"account"} : r.call[j] = d.call[j]
    BY LoadFields
  <2> HIDE DEF r
  <2>3. Keeps(d, r, "refresh") /\ r.call["refresh"].at = d.call["refresh"].at
    BY <2>2 DEF Keeps, OnWire, SameWire, Kinds, Locking
  <2> QED
    BY <2>1, <2>3
<1> QED
  BY <1>1, <1>2

\* What a tab takes of the answer of its refresh.
Taken(b, outcome, s) ==
    CASE outcome = "ok" /\ b.call["refresh"].current -> AcceptTokens(b, s)
      [] outcome = "denied" /\ b.call["refresh"].current -> ClearSession(b, b.notify)
      [] OTHER -> b

\* Taking the answer of a refresh is sound.
LEMMA TakenSound ==
  ASSUME NEW b, TabSound(b), Refreshing(b), NEW outcome \in Answers \cup {"failed"}, NEW s,
         outcome = "ok" /\ b.call["refresh"].current =>
            s \in Sessions /\ ~(b.active /\ b.signingOut)
  PROVE  LET c == Taken(b, outcome, s)
         IN TabSound(c) /\ Keeps(b, c, "refresh")
<1>0. "refresh" \in Kinds /\ Keeps(b, b, "refresh") /\ b \in TabRecords
  BY DEF Keeps, SameWire, Kinds, Locking, TabSound
<1>1. CASE outcome = "ok" /\ b.call["refresh"].current
  <2> DEFINE c == AcceptTokens(b, s)
  <2>1. Taken(b, outcome, s) = c
    BY <1>1 DEF Taken
  <2>2. TabSound(c) /\ c.call = b.call
    BY <1>1, AcceptSound
  <2> HIDE DEF c
  <2>3. Keeps(b, c, "refresh")
    BY <1>0, <2>2 DEF Keeps
  <2> QED
    BY <2>1, <2>2, <2>3
<1>2. CASE outcome = "denied" /\ b.call["refresh"].current
  <2> DEFINE f == ClearSession(b, FALSE)
  <2>1. Taken(b, outcome, s) = ClearSession(b, b.notify)
    BY <1>2 DEF Taken
  <2>2. b.notify \in BOOLEAN
    BY <1>0, TabFields
  <2>3. TabSound(ClearSession(b, b.notify))
    BY <1>2, <2>2, ClearSessionSound DEF TabSound, TokenSound
  <2>4. f \in TabRecords /\ \A k \in Kinds : SameCall(b.call[k], f.call[k])
    BY <1>0, ForgetFields
  <2>5. ClearSession(b, b.notify) = IF b.notify /\ b.active THEN ClearAuthenticatedState(f) ELSE f
    BY <2>2, ClearSessionNotifies
  <2> HIDE DEF f
  <2>6. Keeps(b, f, "refresh")
    BY <1>0, <2>4, FlagsKeep
  <2>7. \A k \in Kinds : SameCall(f.call[k], ClearAuthenticatedState(f).call[k])
    BY <2>4, ClearStateFields
  <2>8. Keeps(b, ClearAuthenticatedState(f), "refresh")
    BY <1>0, <2>6, <2>7, FlagsKeep
  <2> QED
    BY <2>1, <2>3, <2>5, <2>6, <2>8
<1>3. CASE ~(outcome \in {"ok", "denied"} /\ b.call["refresh"].current)
  BY <1>0, <1>3 DEF Taken
<1> QED
  BY <1>1, <1>2, <1>3

\* The refresh ends and those who wait for it go on.
LEMMA RefreshSettlesSound ==
  ASSUME NEW b, TabSound(b), Refreshing(b), NEW outcome \in Answers \cup {"failed"}, NEW s,
         outcome = "ok" /\ b.call["refresh"].current =>
            s \in Sessions /\ ~(b.active /\ b.signingOut)
  PROVE  LET r == RefreshSettles(b, outcome, s)
         IN /\ TabSound(r) /\ Keeps(b, r, "refresh") /\ SignKept(b, r)
            /\ r.call["refresh"].at = "idle"
<1> DEFINE c == Taken(b, outcome, s)
<1>1. TabSound(c) /\ Keeps(b, c, "refresh") /\ "refresh" \in Kinds
  BY TakenSound DEF Kinds, Locking
<1>2. \E error \in BOOLEAN, retry \in BOOLEAN :
        RefreshSettles(b, outcome, s) =
            IF Restoring(c) THEN RestoreEnds(Settles(c, error, retry), error)
            ELSE Settles(c, error, retry)
  <2> DEFINE error == outcome # "ok" /\ b.call["refresh"].current
             retry == "timer" \in c.waiters /\ error /\ outcome = "failed" /\ c.token # None
  <2>1. RefreshSettles(b, outcome, s) =
            IF Restoring(c) THEN RestoreEnds(Settles(c, error, retry), error)
            ELSE Settles(c, error, retry)
    BY DEF RefreshSettles, Settles, Resumed, Taken, Restoring
  <2>2. error \in BOOLEAN /\ retry \in BOOLEAN
    OBVIOUS
  <2> QED
    BY <2>1, <2>2
<1> HIDE DEF c
<1>3. PICK error \in BOOLEAN, retry \in BOOLEAN :
        RefreshSettles(b, outcome, s) =
            IF Restoring(c) THEN RestoreEnds(Settles(c, error, retry), error)
            ELSE Settles(c, error, retry)
  BY <1>2
<1> DEFINE d == Settles(c, error, retry)
<1>4. /\ d \in TabRecords /\ ~Refreshing(d) /\ Keeps(c, d, "refresh")
      /\ ~Restoring(c) => TabSound(d)
      /\ Restoring(c) => TabSound(RestoreEnds(d, error))
  BY <1>1, SettlesSound
<1> HIDE DEF d
<1>5. Keeps(b, d, "refresh") /\ d.call["refresh"].at = "idle"
  BY <1>1, <1>4, KeepsTwice DEF Refreshing
<1>6. Keeps(d, RestoreEnds(d, error), "refresh") /\ RestoreEnds(d, error).call["refresh"].at = "idle"
  BY <1>4, <1>5, RestoreEndsKeeps
<1>7. Keeps(b, RestoreEnds(d, error), "refresh")
  BY <1>1, <1>5, <1>6, KeepsTwice
<1> DEFINE r == RefreshSettles(b, outcome, s)
<1>8. TabSound(r) /\ Keeps(b, r, "refresh") /\ r.call["refresh"].at = "idle"
  BY <1>3, <1>4, <1>5, <1>6, <1>7 DEF d
<1>9. SignKept(b, r)
  BY <1>8 DEF SignKept, Refreshing
<1> QED
  BY <1>8, <1>9

\* The tab with the tokens of a login: the earlier session is forgotten.
LEMMA ReplacedSession ==
  ASSUME NEW b, TabSound(b), NEW s \in Sessions, b.call["login"].current
  PROVE  LET g == AcceptTokens(ClearSession(b, FALSE), s)
         IN /\ TabSound(g) /\ SameStore(b, g) /\ g.token # None /\ g.waiters = b.waiters
            /\ \A k \in Kinds : /\ SameCall(b.call[k], g.call[k])
                                /\ g.call[k].current = FALSE /\ g.call[k].mine = b.call[k].mine
<1> DEFINE f == ClearSession(b, FALSE)
           g == AcceptTokens(f, s)
<1>0. b \in TabRecords /\ s # None /\ ~(b.active /\ b.signingOut)
  BY SessionAssumption DEF TabSound, TokenSound, Sessions
<1>1. /\ f \in TabRecords /\ SameStore(b, f) /\ f.token = None /\ f.timer = "off"
      /\ f.notify = b.notify /\ f.waiters = b.waiters
      /\ \A k \in Kinds : /\ SameCall(b.call[k], f.call[k])
                          /\ f.call[k].current = FALSE /\ f.call[k].mine = b.call[k].mine
  BY <1>0, ForgetFields
<1> HIDE DEF f
<1>2. /\ g \in TabRecords /\ SameStore(f, g) /\ g.token = s
      /\ g.notify = f.notify /\ g.waiters = f.waiters /\ g.call = f.call
  BY <1>1 DEF AcceptTokens, TabRecords, SameStore
<1> HIDE DEF g
<1>3. /\ SameStore(b, g) /\ g.waiters = b.waiters
      /\ \A k \in Kinds : /\ SameCall(b.call[k], g.call[k])
                          /\ g.call[k].current = FALSE /\ g.call[k].mine = b.call[k].mine
  BY <1>1, <1>2 DEF SameStore
<1>4. CallsSound(g)
  BY <1>0, <1>2, <1>3, FlagsSound DEF TabSound
<1>5. (Restoring(g) <=> Restoring(b)) /\ \A k \in Kinds : Owns(g, k) <=> Owns(b, k)
  BY <1>3 DEF Restoring, Owns
<1>6. OneOperation(g)
  BY <1>3, <1>5 DEF TabSound, OneOperation, SameStore, Kinds, Locking, Requests
<1>7. OperationShown(g)
  BY <1>0, <1>2, <1>3, <1>5 DEF TabSound, OperationShown, SameStore, SameCall, Kinds, Locking, Requests
<1>8. PageMoves(g)
  BY <1>3, <1>5 DEF TabSound, PageMoves, SameStore, SameCall, Kinds, Locking, Requests
<1>9. TokenSound(g)
  BY <1>0, <1>2, <1>3 DEF TokenSound, SameStore, Kinds, Locking
<1> QED
  BY <1>0, <1>2, <1>3, <1>4, <1>6, <1>7, <1>8, <1>9 DEF TabSound, g, f

\* A login ends.
LEMMA LoginSettlesSound ==
  ASSUME NEW b, TabSound(b), NEW outcome, NEW s,
         b.call["login"].at \in {"lock", "sent", "answered"},
         outcome = "ok" /\ b.call["login"].current => s \in Sessions,
         outcome = "revoked" => b.call["login"].sets = {}
  PROVE  LET r == LoginSettles(b, outcome, s)
         IN /\ TabSound(r) /\ Keeps(b, r, "login") /\ SignKept(b, r)
            /\ r.call["login"].at \in {"idle", "replace"}
<1>0. b \in TabRecords /\ "login" \in Kinds \ {"refresh"} /\ Keeps(b, b, "login")
  BY DEF TabSound, Kinds, Locking, Keeps, SameWire
<1>1. CASE outcome = "ok" /\ b.call["login"].current
  <2> DEFINE g == AcceptTokens(ClearSession(b, FALSE), s)
             e == [g EXCEPT !.call["login"] = Idle]
  <2>1. /\ TabSound(g) /\ SameStore(b, g) /\ g.token # None /\ g.waiters = b.waiters
        /\ \A k \in Kinds : /\ SameCall(b.call[k], g.call[k])
                            /\ g.call[k].current = FALSE /\ g.call[k].mine = b.call[k].mine
    BY <1>1, ReplacedSession
  <2>2. LoginSettles(b, outcome, s) =
            IF b.call["login"].mine THEN [LoadsAccount(g) EXCEPT !.call["login"] = Idle] ELSE e
    BY <1>1 DEF LoginSettles
  <2> HIDE DEF g
  <2>3. g \in TabRecords /\ CallsSound(g)
    BY <2>1 DEF TabSound
  <2>4. Keeps(b, g, "login")
    BY <1>0, <2>1, FlagsKeep
  <2>5. /\ e \in TabRecords /\ SameStore(g, e) /\ SameClient(g, e) /\ e.waiters = g.waiters
        /\ e.call["login"] = Idle /\ \A j \in Kinds \ {"login"} : e.call[j] = g.call[j]
    BY <1>0, <2>3, CallReplaced, IdleCall
  <2>6. CallsSound(e)
    BY <1>0, <2>1, <2>3, EndedCalls DEF SameCall
  <2>7. CASE ~b.call["login"].mine
    <3>1. ~g.call["login"].mine
      BY <1>0, <2>1, <2>7
    <3>2. e = OperationEnds(g, "login")
      BY <3>1 DEF OperationEnds
    <3>3. g.call["login"].at # "await"
      BY <1>0, <2>1 DEF SameCall
    <3>4. TabSound(e)
      BY <1>0, <2>1, <3>2, <3>3, OperationEndsSound
    <3>5. Keeps(g, e, "login") /\ e.call["login"].at = "idle"
      BY <1>0, <2>3, <3>2, OperationEndsKeeps
    <3>6. Keeps(b, e, "login")
      BY <1>0, <2>4, <3>5, KeepsTwice
    <3>7. SignKept(b, e)
      BY <1>0, <2>1, <2>5 DEF SignKept, Kinds, Locking
    <3> QED
      BY <2>2, <2>7, <3>4, <3>5, <3>6, <3>7
  <2>8. CASE b.call["login"].mine
    <3> HIDE DEF e
    <3> DEFINE r == LoadsAccount(e)
    <3>1. r = [LoadsAccount(g) EXCEPT !.call["login"] = Idle]
      <4> DEFINE d == [Idle EXCEPT !.at = "ready", !.mine = TRUE]
      <4>1. /\ LoadsAccount(g) = [g EXCEPT !.call["account"] = d]
            /\ r = [e EXCEPT !.call["account"] = d]
        BY DEF LoadsAccount
      <4> HIDE DEF d
      <4>2. [[g.call EXCEPT !["login"] = Idle] EXCEPT !["account"] = d]
                = [[g.call EXCEPT !["account"] = d] EXCEPT !["login"] = Idle]
        BY <2>3, TabFields DEF Kinds, Locking, Requests
      <4>3. r = [g EXCEPT !.call = [[g.call EXCEPT !["login"] = Idle] EXCEPT !["account"] = d]]
        BY <2>3, <4>1 DEF e, TabRecords
      <4>4. [LoadsAccount(g) EXCEPT !.call["login"] = Idle] =
                [g EXCEPT !.call = [[g.call EXCEPT !["account"] = d] EXCEPT !["login"] = Idle]]
        BY <2>3, <4>1 DEF TabRecords
      <4> QED
        BY <4>2, <4>3, <4>4
    <3>2. /\ b.active /\ b.phase = "anonymous" /\ ~b.signingOut /\ ~Restoring(b)
          /\ ~Owns(b, "account") /\ ~Owns(b, "logout") /\ b.call["account"].at = "idle"
      BY <1>0, <2>8 DEF TabSound, OneOperation, OperationShown, Owns
    <3>3. ~b.busy /\ ~Owns(b, "other") /\ ~Owns(b, "refresh")
      BY <3>2 DEF TabSound, PageMoves, OperationShown, CallsSound
    <3>4. /\ e.active /\ e.token # None /\ e.phase # "authenticated" /\ ~e.signingOut
          /\ ~e.busy /\ ~Restoring(e)
      BY <2>1, <2>5, <3>2, <3>3 DEF SameStore, SameClient, Restoring
    <3>5. \A k \in Kinds \ {"account"} : ~Owns(e, k)
      BY <2>1, <2>5, <3>2, <3>3, IdleCall DEF Owns, Kinds, Locking, Requests
    <3>6. e.call["account"].at # "await" /\ ~e.call["refresh"].current
      BY <2>1, <2>5, <3>2 DEF SameCall, Kinds, Locking, Requests
    <3>7. TabSound(r)
      BY <2>5, <2>6, <3>4, <3>5, <3>6, LoadSound
    <3>8. /\ r \in TabRecords /\ SameStore(e, r) /\ SameClient(e, r) /\ r.waiters = e.waiters
          /\ r.call["account"].at = "ready" /\ r.call["account"].mine = TRUE
          /\ r.call["account"].sets = {}
          /\ \A j \in Kinds \ {"account"} : r.call[j] = e.call[j]
      BY <2>5, LoadFields
    <3> HIDE DEF r
    <3>9. Keeps(g, r, "login") /\ r.call["login"].at = "idle"
      BY <2>5, <3>8, IdleCall DEF Keeps, OnWire, SameWire, Kinds, Locking, Requests
    <3>10. Keeps(b, r, "login")
      BY <1>0, <2>4, <3>9, KeepsTwice
    <3>11. SignKept(b, r)
      BY <2>5, <3>4, <3>8 DEF SignKept, SameStore
    <3> QED
      BY <2>2, <2>8, <3>1, <3>7, <3>9, <3>10, <3>11
  <2> QED
    BY <2>7, <2>8
<1>2. CASE /\ ~(outcome = "ok" /\ b.call["login"].current)
           /\ outcome = "revoked" /\ b.call["login"].mine /\ ~b.call["login"].again
  <2> DEFINE d == [b.call["login"] EXCEPT !.at = "replace"]
             r == [b EXCEPT !.call["login"] = d]
  <2>1. LoginSettles(b, outcome, s) = r
    BY <1>2 DEF LoginSettles
  <2>2. b.call["login"] \in Calls
    BY <1>0, TabFields
  <2>3. /\ d \in Calls /\ d.at = "replace" /\ d.mine = b.call["login"].mine
        /\ d.current = b.call["login"].current /\ d.errand = b.call["login"].errand
        /\ d.sets = {}
    BY <1>2, <2>2 DEF Calls
  <2> HIDE DEF d
  <2>4. TabSound(r)
    BY <1>0, <2>3, CallMovesSound DEF Stages
  <2>5. /\ r \in TabRecords /\ SameStore(b, r) /\ SameClient(b, r) /\ r.waiters = b.waiters
        /\ r.call["login"] = d /\ \A j \in Kinds \ {"login"} : r.call[j] = b.call[j]
    BY <1>0, <2>3, CallReplaced
  <2> HIDE DEF r
  <2>6. Keeps(b, r, "login") /\ SignKept(b, r) /\ r.call["login"].at = "replace"
    BY <2>3, <2>5 DEF Keeps, SignKept, SameWire, SameStore, Refreshing, Kinds, Locking
  <2> QED
    BY <2>1, <2>4, <2>6
<1>3. CASE /\ ~(outcome = "ok" /\ b.call["login"].current)
           /\ ~(outcome = "revoked" /\ b.call["login"].mine /\ ~b.call["login"].again)
  <2>1. LoginSettles(b, outcome, s) = OperationEnds(b, "login")
    BY <1>3 DEF LoginSettles
  <2> QED
    BY <1>0, <2>1, OperationEndsSound, OperationEndsKeeps
<1> QED
  BY <1>1, <1>2, <1>3

\* A step that may start a refresh leaves one that runs where it is.
RefreshKept(b, c) ==
    /\ Refreshing(b) => c.call["refresh"].at = b.call["refresh"].at
    /\ c.call["refresh"].at \in OnWire => SameWire(b.call["refresh"], c.call["refresh"])
    /\ ~Refreshing(b) => c.call["refresh"].at \in {"idle", "lock"}

\* Joining or starting a refresh moves no other call.
LEMMA JoinKeeps ==
  ASSUME NEW b, NEW c, NEW who, JoinsRefresh(b, c, who), SameStore(b, c)
  PROVE  Keeps(b, c, "refresh") /\ RefreshKept(b, c) /\ SignKept(b, c)
<1>1. Keeps(b, c, "refresh") /\ RefreshKept(b, c)
  BY DEF JoinsRefresh, Keeps, RefreshKept, OnWire, SameWire, Kinds, Locking
<1>2. SignKept(b, c)
  BY DEF JoinsRefresh, SignKept, SameStore, Refreshing
<1> QED
  BY <1>1, <1>2

\* A request waits for a refresh.
LEMMA RequestAwaits ==
  ASSUME NEW b, TabSound(b), NEW k \in Requests, NEW d \in Calls,
         b.call[k].at \notin {"idle", "await"},
         d.mine = b.call[k].mine, d.current = b.call[k].current, d.errand = b.call[k].errand,
         d.at = "await", d.sets = {}
  PROVE  LET r == RefreshAccessToken([b EXCEPT !.call[k] = d], TRUE, {k})
         IN /\ TabSound(r) /\ Keeps(b, r, "refresh") /\ RefreshKept(b, r) /\ SignKept(b, r)
            /\ r.call[k].at = "await"
<1> DEFINE c == [b EXCEPT !.call[k] = d]
           r == RefreshAccessToken(c, TRUE, {k})
<1>0. b \in TabRecords /\ k \in Kinds /\ k # "refresh" /\ k \notin Locking
  BY DEF TabSound, Kinds, Requests, Locking
<1>1. /\ c \in TabRecords /\ SameStore(b, c) /\ SameClient(b, c) /\ c.waiters = b.waiters
      /\ c.call[k] = d /\ \A j \in Kinds \ {k} : c.call[j] = b.call[j]
  BY <1>0, CallReplaced
<1>2. OneOperation(c) /\ OperationShown(c) /\ PageMoves(c) /\ TokenSound(c)
  BY <1>0, CallMoves
<1> HIDE DEF c
<1>3. CallsJoin(c, {k})
  <2>1. \A j \in Kinds :
            /\ c.call[j].at \in Stages(j)
            /\ c.call[j].at = "idle" => ~Owns(c, j)
            /\ c.call[j].at # "answered" => c.call[j].sets = {}
    <3>1. "await" \in Stages(k)
      BY DEF Stages, Requests
    <3> QED
      BY <1>0, <1>1, <3>1 DEF TabSound, CallsSound, Owns
  <2>2. ~Owns(c, "refresh") /\ (c.waiters # {} => Refreshing(c))
    BY <1>0, <1>1 DEF TabSound, CallsSound, Owns, Refreshing, Kinds, Locking
  <2>3. \A j \in Requests : c.call[j].at = "await" <=> j \in c.waiters \cup {k}
    BY <1>0, <1>1 DEF TabSound, CallsSound, Kinds, Requests
  <2> QED
    BY <2>1, <2>2, <2>3 DEF CallsJoin
<1>4. {k} \in SUBSET ({"timer"} \cup Requests) /\ {k} \in SUBSET ({"restore", "timer"} \cup Requests)
  OBVIOUS
<1>5. TabSound(r)
  BY <1>1, <1>2, <1>3, <1>4, RefreshSound
<1>6. /\ r \in TabRecords /\ SameStore(c, r) /\ r.token = c.token /\ r.timer = c.timer
      /\ JoinsRefresh(c, r, {k}) /\ r.notify = IF Refreshing(c) THEN c.notify ELSE TRUE
  BY <1>1, <1>4, RefreshFields
<1> HIDE DEF r
<1>7. Keeps(c, r, "refresh") /\ RefreshKept(c, r) /\ SignKept(c, r) /\ r.call[k] = d
  BY <1>0, <1>1, <1>6, JoinKeeps DEF JoinsRefresh
<1>8. Keeps(b, c, "refresh")
  BY <1>0, <1>1 DEF Keeps, OnWire, SameWire
<1>9. Keeps(b, r, "refresh")
  BY <1>7, <1>8, KeepsTwice DEF Kinds, Locking
<1>10. RefreshKept(b, r) /\ SignKept(b, r)
  BY <1>0, <1>1, <1>7 DEF RefreshKept, SameWire, SignKept, SameStore, Refreshing, Kinds, Locking
<1> QED
  BY <1>5, <1>7, <1>9, <1>10 DEF r, c

\* A step that ends a request leaves the refresh alone.
LEMMA RequestKeeps ==
  ASSUME NEW b, NEW r, NEW k \in Requests, Keeps(b, r, k), r.call[k].at \notin OnWire,
         TabSound(b)
  PROVE  Keeps(b, r, "refresh") /\ RefreshKept(b, r)
<1>1. Keeps(b, r, "refresh")
  BY DEF Keeps, Kinds, Requests, Locking
<1>2. /\ r.call["refresh"].at = b.call["refresh"].at
      /\ r.call["refresh"].at \in OnWire => SameWire(b.call["refresh"], r.call["refresh"])
  BY DEF Keeps, Kinds, Requests, Locking
<1> QED
  BY <1>1, <1>2 DEF RefreshKept, Refreshing

\* A request ends: it is refused, fails or succeeds.
LEMMA RequestSettlesSound ==
  ASSUME NEW b, TabSound(b), NEW k \in Requests, b.call[k].at \in OnWire, b.call[k].sets = {},
         NEW outcome
  PROVE  LET r == RequestSettles(b, k, outcome)
         IN /\ TabSound(r) /\ Keeps(b, r, "refresh") /\ RefreshKept(b, r) /\ SignKept(b, r)
            /\ r.call[k].at \notin OnWire
            /\ outcome # "denied" => r.call["refresh"].at = b.call["refresh"].at
<1>0. /\ b \in TabRecords /\ k \in Kinds \ {"refresh"} /\ k \notin Locking /\ Keeps(b, b, k)
      /\ b.call[k] \in Calls /\ b.call[k].at \notin {"idle", "await"}
  BY TabFields DEF TabSound, Kinds, Requests, Locking, Keeps, SameWire, OnWire
<1> DEFINE ends == OperationEnds(b, k)
           out == OperationEnds(ClearSession(b, TRUE), k)
           w == [b.call[k] EXCEPT !.at = "await", !.again = TRUE, !.renewed = FALSE]
           await == RefreshAccessToken([b EXCEPT !.call[k] = w], TRUE, {k})
           h == [b.call[k] EXCEPT !.at = "done"]
           done == [b EXCEPT !.call[k] = h]
           gone == [b EXCEPT !.call[k] = Idle]
           r == RequestSettles(b, k, outcome)
<1>1. CASE outcome = "denied" /\ ~b.call[k].again
  <2>1. r = await
    BY <1>1 DEF RequestSettles
  <2>2. /\ w \in Calls /\ w.at = "await" /\ w.sets = {} /\ w.mine = b.call[k].mine
        /\ w.current = b.call[k].current /\ w.errand = b.call[k].errand
    BY <1>0 DEF Calls
  <2> HIDE DEF w
  <2>3. /\ TabSound(await) /\ Keeps(b, await, "refresh") /\ RefreshKept(b, await)
        /\ SignKept(b, await) /\ await.call[k].at = "await"
    BY <1>0, <2>2, RequestAwaits
  <2> QED
    BY <1>1, <2>1, <2>3 DEF OnWire
<1>2. CASE outcome = "denied" /\ b.call[k].again
  <2> DEFINE f == ClearSession(b, FALSE)
             c == ClearSession(b, TRUE)
  <2>1. r = out
    BY <1>2 DEF RequestSettles
  <2>2. TabSound(c)
    BY ClearSessionSound
  <2>3. f \in TabRecords /\ \A j \in Kinds : SameCall(b.call[j], f.call[j])
    BY <1>0, ForgetFields
  <2>4. c = IF b.active THEN ClearAuthenticatedState(f) ELSE f
    BY ClearSessionNotifies
  <2>5. \A j \in Kinds : f.call[j].current = FALSE
    BY <1>0, ForgetFields
  <2> HIDE DEF f
  <2>6. /\ \A j \in Kinds : /\ SameCall(f.call[j], ClearAuthenticatedState(f).call[j])
                            /\ ClearAuthenticatedState(f).call[j].current = f.call[j].current
    BY <2>3, ClearStateFields
  <2>7. Keeps(b, f, k) /\ f.call[k].at = b.call[k].at
    BY <1>0, <2>3, FlagsKeep
  <2>8. /\ Keeps(b, ClearAuthenticatedState(f), k)
        /\ ClearAuthenticatedState(f).call[k].at = b.call[k].at
    BY <1>0, <2>6, <2>7, FlagsKeep
  <2>9. /\ Keeps(b, c, k) /\ c.call[k].at = b.call[k].at
        /\ ~c.call["refresh"].current
    BY <2>4, <2>5, <2>6, <2>7, <2>8 DEF Kinds, Locking
  <2> HIDE DEF c
  <2>10. TabSound(OperationEnds(c, k))
    BY <1>0, <2>2, <2>9, OperationEndsSound
  <2>11. c \in TabRecords
    BY <2>2 DEF TabSound
  <2>12. /\ Keeps(c, OperationEnds(c, k), k) /\ SignKept(c, OperationEnds(c, k))
         /\ OperationEnds(c, k).call[k].at = "idle"
    BY <1>0, <2>11, OperationEndsKeeps
  <2>13. Keeps(b, OperationEnds(c, k), k)
    BY <1>0, <2>9, <2>12, KeepsTwice
  <2>14. Refreshing(OperationEnds(c, k)) => Refreshing(c)
    BY <1>0, <2>12 DEF Keeps, Refreshing, Kinds, Locking
  <2>15. SignKept(b, OperationEnds(c, k))
    BY <2>9, <2>12, <2>14 DEF SignKept
  <2>16. Keeps(b, OperationEnds(c, k), "refresh") /\ RefreshKept(b, OperationEnds(c, k))
    BY <2>12, <2>13, RequestKeeps DEF OnWire
  <2> QED
    BY <1>2, <2>1, <2>10, <2>12, <2>15, <2>16 DEF OnWire, c
<1>3. CASE outcome = "failed"
  <2>1. r = ends
    BY <1>3 DEF RequestSettles
  <2>2. TabSound(ends) /\ Keeps(b, ends, k) /\ SignKept(b, ends) /\ ends.call[k].at = "idle"
    BY <1>0, OperationEndsSound, OperationEndsKeeps
  <2> HIDE DEF ends
  <2>3. Keeps(b, ends, "refresh") /\ RefreshKept(b, ends)
    BY <2>2, RequestKeeps DEF OnWire
  <2>4. ends.call["refresh"].at = b.call["refresh"].at
    BY <1>0, <2>2 DEF Keeps, Kinds, Locking
  <2> QED
    BY <2>1, <2>2, <2>3, <2>4 DEF OnWire
<1>4. CASE /\ outcome \notin {"denied", "failed"}
           /\ b.call[k].mine /\ (k = "account" \/ b.call[k].errand = "revoke")
  <2>1. r = done
    BY <1>4 DEF RequestSettles
  <2>2. /\ h \in Calls /\ h.at = "done" /\ h.sets = {} /\ h.mine = b.call[k].mine
        /\ h.current = b.call[k].current /\ h.errand = b.call[k].errand
    BY <1>0 DEF Calls
  <2> HIDE DEF h
  <2>3. "done" \in Stages(k)
    BY DEF Stages, Requests
  <2>4. TabSound(done)
    BY <1>0, <2>2, <2>3, CallMovesSound
  <2>5. /\ done \in TabRecords /\ SameStore(b, done) /\ SameClient(b, done)
        /\ done.waiters = b.waiters
        /\ done.call[k] = h /\ \A j \in Kinds \ {k} : done.call[j] = b.call[j]
    BY <1>0, <2>2, CallReplaced
  <2> HIDE DEF done
  <2>6. Keeps(b, done, k) /\ SignKept(b, done) /\ done.call[k].at \notin OnWire
    BY <1>0, <2>2, <2>5 DEF Keeps, SignKept, SameWire, SameStore, Refreshing, OnWire, Kinds, Locking
  <2>7. Keeps(b, done, "refresh") /\ RefreshKept(b, done)
    BY <2>6, RequestKeeps
  <2>8. done.call["refresh"].at = b.call["refresh"].at
    BY <1>0, <2>6 DEF Keeps, Kinds, Locking
  <2> QED
    BY <2>1, <2>4, <2>6, <2>7, <2>8
<1>5. CASE /\ outcome \notin {"denied", "failed"}
           /\ ~(b.call[k].mine /\ (k = "account" \/ b.call[k].errand = "revoke"))
  <2>1. r = gone
    BY <1>5 DEF RequestSettles
  <2>2. gone = ends
    <3>1. CASE ~b.call[k].mine
      BY <3>1 DEF OperationEnds
    <3>2. CASE b.call[k].mine
      <4>1. k = "other" /\ b.call[k].errand # "revoke"
        BY <1>5, <3>2 DEF Requests
      <4>2. gone \in TabRecords
        BY <1>0, CallReplaced, IdleCall
      <4>3. ends = [gone EXCEPT !.busy = gone.busy /\ b.call[k].errand # "revoke"]
        BY <3>2, <4>1 DEF OperationEnds
      <4> HIDE DEF gone
      <4>4. gone.busy \in BOOLEAN /\ gone = [gone EXCEPT !.busy = gone.busy]
        BY <4>2 DEF TabRecords
      <4>5. (gone.busy /\ b.call[k].errand # "revoke") = gone.busy
        BY <4>1, <4>4
      <4> QED
        BY <4>3, <4>4, <4>5
    <3> QED
      BY <3>1, <3>2
  <2>3. TabSound(ends) /\ Keeps(b, ends, k) /\ SignKept(b, ends) /\ ends.call[k].at = "idle"
    BY <1>0, OperationEndsSound, OperationEndsKeeps
  <2> HIDE DEF ends
  <2>4. Keeps(b, ends, "refresh") /\ RefreshKept(b, ends)
    BY <2>3, RequestKeeps DEF OnWire
  <2>5. ends.call["refresh"].at = b.call["refresh"].at
    BY <1>0, <2>3 DEF Keeps, Kinds, Locking
  <2> QED
    BY <2>1, <2>2, <2>3, <2>4, <2>5 DEF OnWire
<1> QED
  BY <1>1, <1>2, <1>3, <1>4, <1>5

----------------------------------------------------------------------------
(* The steps of the page *)

\* A tab that was just loaded.
LEMMA FreshSound == TabSound(Fresh) /\ \A k \in Kinds : Fresh.call[k] = Idle
<1>1. /\ Fresh \in TabRecords /\ ~Fresh.active /\ Fresh.waiters = {}
      /\ \A k \in Kinds : Fresh.call[k] = Idle
  BY IdleCall DEF Fresh, TabRecords
<1>2. \A k \in Kinds : Fresh.call[k].at = "idle" /\ ~Owns(Fresh, k) /\ Fresh.call[k].sets = {}
  BY <1>1, IdleCall DEF Owns
<1>3. CallsSound(Fresh)
  BY <1>1, <1>2 DEF CallsSound, Stages, Kinds, Locking, Requests
<1>4. OneOperation(Fresh) /\ OperationShown(Fresh) /\ PageMoves(Fresh) /\ TokenSound(Fresh)
  BY <1>1, <1>2 DEF OneOperation, OperationShown, PageMoves, TokenSound, Restoring,
     Kinds, Locking, Requests
<1> QED
  BY <1>1, <1>3, <1>4 DEF TabSound

\* dispose: nothing belongs to a page that is gone.
LEMMA DisposeSound ==
  ASSUME NEW b, TabSound(b)
  PROVE  LET c == [Disown(b) EXCEPT !.active = FALSE]
         IN TabSound(c) /\ SignKept(b, c) /\ \A k \in Kinds : SameCall(b.call[k], c.call[k])
<1> DEFINE d == Disown(b)
           c == [d EXCEPT !.active = FALSE]
<1>0. b \in TabRecords /\ CallsSound(b)
  BY DEF TabSound
<1>1. /\ d \in TabRecords /\ SameStore(b, d) /\ SameClient(b, d)
      /\ d.waiters = b.waiters \ {"restore"}
      /\ \A k \in Kinds : /\ SameCall(b.call[k], d.call[k])
                          /\ d.call[k].mine = FALSE /\ d.call[k].current = b.call[k].current
  BY <1>0, DisownFields
<1> HIDE DEF d
<1>2. c \in TabRecords /\ c.active = FALSE /\ c.waiters = d.waiters /\ c.call = d.call
  BY <1>1 DEF TabRecords
<1> HIDE DEF c
<1>3. ~Restoring(c) /\ \A k \in Kinds : ~Owns(c, k)
  BY <1>1, <1>2 DEF Restoring, Owns
<1>4. CallsSound(c)
  BY <1>0, <1>1, <1>2, FlagsSound
<1>5. OneOperation(c) /\ OperationShown(c) /\ PageMoves(c) /\ TokenSound(c) /\ SignKept(b, c)
  BY <1>2, <1>3 DEF OneOperation, OperationShown, PageMoves, TokenSound, SignKept,
     Kinds, Locking, Requests
<1> QED
  BY <1>1, <1>2, <1>4, <1>5 DEF TabSound, c, d

\* The page that mounts.
Mounts(b) ==
    [Disown(b) EXCEPT !.active = TRUE, !.phase = "restoring",
                      !.submitting = FALSE, !.signingOut = FALSE, !.busy = FALSE]

\* restore: the page mounts, and waits for a refresh or shows the anonymous page.
LEMMA RestoreSound ==
  ASSUME NEW b, TabSound(b)
  PROVE  /\ LET c == RefreshAccessToken(Mounts(b), FALSE, {"restore"})
            IN TabSound(c) /\ Keeps(b, c, "refresh") /\ RefreshKept(b, c) /\ SignKept(b, c)
         /\ LET c == ClearAuthenticatedState(Mounts(b))
            IN TabSound(c) /\ SignKept(b, c) /\ \A k \in Kinds : SameCall(b.call[k], c.call[k])
<1> DEFINE d == Disown(b)
           m == Mounts(b)
           c == RefreshAccessToken(m, FALSE, {"restore"})
           a == ClearAuthenticatedState(m)
<1>0. b \in TabRecords /\ CallsSound(b)
  BY DEF TabSound
<1>1. /\ d \in TabRecords /\ SameStore(b, d) /\ SameClient(b, d)
      /\ d.waiters = b.waiters \ {"restore"}
      /\ \A k \in Kinds : /\ SameCall(b.call[k], d.call[k])
                          /\ d.call[k].mine = FALSE /\ d.call[k].current = b.call[k].current
  BY <1>0, DisownFields
<1>2. m = [d EXCEPT !.active = TRUE, !.phase = "restoring", !.submitting = FALSE,
                    !.signingOut = FALSE, !.busy = FALSE]
  BY DEF Mounts
<1> HIDE DEF d
<1>3. /\ m \in TabRecords /\ m.active = TRUE /\ m.phase = "restoring" /\ m.submitting = FALSE
      /\ m.signingOut = FALSE /\ m.busy = FALSE /\ m.waiters = d.waiters /\ m.call = d.call
  BY <1>1, <1>2 DEF TabRecords
<1> HIDE DEF m
<1>4. CallsSound(m) /\ \A k \in Kinds : SameCall(b.call[k], m.call[k]) /\ ~Owns(m, k)
  BY <1>0, <1>1, <1>3, FlagsSound DEF Owns
<1>5. CallsJoin(m, {"restore"})
  BY <1>4 DEF CallsSound, CallsJoin, Requests
<1>6. /\ c \in TabRecords /\ SameStore(m, c) /\ c.token = m.token /\ c.timer = m.timer
      /\ JoinsRefresh(m, c, {"restore"})
      /\ c.notify = IF Refreshing(m) THEN m.notify ELSE FALSE
  BY <1>3, RefreshFields
<1> HIDE DEF c
<1>7. CallsSound(c)
  BY <1>5, <1>6, RefreshCalls
<1>8. Restoring(c) /\ \A k \in Kinds : ~Owns(c, k)
  BY <1>4, <1>6, <1>7 DEF JoinsRefresh, Restoring, Owns, CallsSound
<1>9. c.active /\ c.phase = "restoring" /\ ~c.submitting /\ ~c.signingOut /\ ~c.busy
  BY <1>3, <1>6 DEF SameStore
<1>10. OneOperation(c) /\ OperationShown(c) /\ PageMoves(c) /\ TokenSound(c)
  BY <1>8, <1>9 DEF OneOperation, OperationShown, PageMoves, TokenSound, Kinds, Locking, Requests
<1>11. TabSound(c) /\ SignKept(b, c)
  BY <1>6, <1>7, <1>9, <1>10 DEF TabSound, SignKept
<1>12. Keeps(b, m, "refresh") /\ m.call["refresh"].at = b.call["refresh"].at
  BY <1>4, FlagsKeep DEF Keeps, SameWire, Kinds, Locking
<1>13. Keeps(m, c, "refresh") /\ RefreshKept(m, c)
  BY <1>6, JoinKeeps
<1>14. Keeps(b, c, "refresh")
  BY <1>12, <1>13, KeepsTwice DEF Kinds, Locking
<1>15. RefreshKept(b, c)
  <2>1. SameCall(b.call["refresh"], m.call["refresh"])
    BY <1>4 DEF Kinds, Locking
  <2> QED
    BY <1>13, <2>1 DEF RefreshKept, Refreshing, SameWire, SameCall
<1>16. TabSound(a)
  BY <1>3, <1>4, ClearedSound
<1>17. a.signingOut = FALSE /\ \A k \in Kinds : SameCall(m.call[k], a.call[k])
  BY <1>3, ClearStateFields
<1>18. \A k \in Kinds : SameCall(b.call[k], a.call[k])
  BY <1>4, <1>17 DEF SameCall
<1>19. SignKept(b, a)
  BY <1>17 DEF SignKept
<1> QED
  BY <1>11, <1>14, <1>15, <1>16, <1>18, <1>19 DEF c, m

----------------------------------------------------------------------------
(* The steps of one tab that nobody else sees *)

\* Tab b becomes c and moves call k, which is not sent, and ends no refresh that was.
LocalStep(b, c, k) ==
    /\ TabSound(c) /\ Keeps(b, c, k) /\ SignKept(b, c)
    /\ c.call[k].at \in OnWire => SameWire(b.call[k], c.call[k])
    /\ b.call["refresh"].at \in OnWire => c.call["refresh"].at = b.call["refresh"].at

\* Calls that differ in their flags only are kept.
LEMMA FlagsKept ==
  ASSUME NEW b, NEW c, NEW k \in Kinds, \A j \in Kinds : SameCall(b.call[j], c.call[j])
  PROVE  Keeps(b, c, k) /\ c.call[k].at = b.call[k].at
<1>1. Keeps(b, b, k)
  BY DEF Keeps, SameWire
<1> QED
  BY <1>1, FlagsKeep

\* Flags alone change.
LEMMA FlagsLocal ==
  ASSUME NEW b, NEW c, TabSound(c), SignKept(b, c), \A k \in Kinds : SameCall(b.call[k], c.call[k])
  PROVE  LocalStep(b, c, "refresh") /\ c.call["refresh"].at = b.call["refresh"].at
<1>1. Keeps(b, c, "refresh")
  BY DEF Keeps, SameCall, SameWire
<1>2. SameCall(b.call["refresh"], c.call["refresh"])
  BY DEF Kinds, Locking
<1> QED
  BY <1>1, <1>2 DEF LocalStep, SameCall, SameWire

\* A refresh starts, or is joined.
LEMMA RefreshLocal ==
  ASSUME NEW b, NEW c, TabSound(c), SignKept(b, c), Keeps(b, c, "refresh"), RefreshKept(b, c)
  PROVE  LocalStep(b, c, "refresh")
  BY DEF LocalStep, RefreshKept, Refreshing, OnWire

\* A call other than the refresh moves, and is not sent.
LEMMA CallLocal ==
  ASSUME NEW b, NEW c, NEW k \in Kinds \ {"refresh"},
         TabSound(c), SignKept(b, c), Keeps(b, c, k), c.call[k].at \notin OnWire
  PROVE  LocalStep(b, c, k)
  BY DEF LocalStep, Keeps, Kinds, Locking

\* The end of an operation is seen by nobody else.
LEMMA OperationEndsLocal ==
  ASSUME NEW b, TabSound(b), NEW k \in Kinds \ {"refresh"}, b.call[k].at # "await"
  PROVE  LocalStep(b, OperationEnds(b, k), k) /\ OperationEnds(b, k).call[k].at = "idle"
<1> DEFINE c == OperationEnds(b, k)
<1>1. TabSound(c)
  BY OperationEndsSound
<1>2. Keeps(b, c, k) /\ SignKept(b, c) /\ c.call[k].at = "idle"
  BY OperationEndsKeeps DEF TabSound
<1> HIDE DEF c
<1>3. LocalStep(b, c, k)
  BY <1>1, <1>2, CallLocal DEF OnWire
<1> QED
  BY <1>2, <1>3 DEF c

\* The store logs in, with call d.
LEMMA LoginRuns ==
  ASSUME NEW b \in TabRecords, CallsSound(b), b.active, b.phase = "anonymous", b.submitting,
         ~b.signingOut, ~b.busy, b.call["account"].at = "idle", ~Restoring(b),
         \A k \in Kinds \ {"login"} : ~Owns(b, k),
         NEW d \in Calls, d.mine, d.sets = {}, d.at \in {"register", "lock"}
  PROVE  LET c == [b EXCEPT !.call["login"] = d]
         IN LocalStep(b, c, "login") /\ c.call["login"] = d
<1> DEFINE c == [b EXCEPT !.call["login"] = d]
<1>0. "login" \in Kinds \ {"refresh"}
  BY DEF Kinds, Locking
<1>1. /\ c \in TabRecords /\ SameStore(b, c) /\ SameClient(b, c) /\ c.waiters = b.waiters
      /\ c.call["login"] = d /\ \A j \in Kinds \ {"login"} : c.call[j] = b.call[j]
  BY <1>0, CallReplaced
<1> HIDE DEF c
<1>2. ~Restoring(c) /\ Owns(c, "login") /\ \A k \in Kinds \ {"login"} : ~Owns(c, k)
  BY <1>1 DEF Restoring, Owns
<1>3. \A j \in Kinds :
        /\ c.call[j].at \in Stages(j)
        /\ c.call[j].at = "idle" => ~Owns(c, j)
        /\ c.call[j].at # "answered" => c.call[j].sets = {}
  <2>1. {"register", "lock"} \subseteq Stages("login")
    BY DEF Stages
  <2> QED
    BY <1>1, <2>1 DEF CallsSound, Owns
<1>4. c.waiters # {} => Refreshing(c)
  BY <1>1 DEF CallsSound, Refreshing, Kinds, Locking
<1>5. \A j \in Requests : c.call[j].at = "await" <=> j \in c.waiters
  BY <1>1 DEF CallsSound, Kinds, Requests, Locking
<1>6. CallsSound(c)
  BY <1>2, <1>3, <1>4, <1>5 DEF CallsSound, Kinds, Locking
<1>7. OneOperation(c) /\ OperationShown(c)
  BY <1>1, <1>2 DEF OneOperation, OperationShown, SameStore, SameClient, Kinds, Locking, Requests
<1>8. PageMoves(c) /\ TokenSound(c)
  BY <1>1, <1>2 DEF PageMoves, TokenSound, SameStore, SameClient, Kinds, Locking, Requests
<1>9. TabSound(c)
  BY <1>1, <1>6, <1>7, <1>8 DEF TabSound
<1>10. Keeps(b, c, "login") /\ SignKept(b, c)
  BY <1>1 DEF Keeps, SameWire, SignKept, SameStore
<1>11. LocalStep(b, c, "login")
  BY <1>0, <1>1, <1>9, <1>10, CallLocal DEF OnWire
<1> QED
  BY <1>1, <1>11 DEF c

\* A step is made of two parts that move the same call.
LEMMA LocalTwice ==
  ASSUME NEW b, NEW d, NEW c, NEW k \in Kinds \ {"refresh"}, LocalStep(d, c, k), Keeps(b, d, k),
         SignKept(b, c), c.call[k].at \notin OnWire
  PROVE  LocalStep(b, c, k)
  BY KeepsTwice, CallLocal DEF LocalStep

\* login and register start.
LEMMA AuthenticateSound ==
  ASSUME NEW b, TabSound(b), b.active, b.phase = "anonymous", ~b.signingOut,
         b.call["account"].at = "idle",
         NEW d \in Calls, d.mine, d.sets = {}, d.at \in {"register", "lock"}
  PROVE  LET c == [[Disown(b) EXCEPT !.submitting = TRUE] EXCEPT !.call["login"] = d]
         IN LocalStep(b, c, "login") /\ c.call["login"] = d
<1> DEFINE e == Disown(b)
           m == [e EXCEPT !.submitting = TRUE]
           c == [m EXCEPT !.call["login"] = d]
<1>0. b \in TabRecords /\ CallsSound(b) /\ "login" \in Kinds \ {"refresh"}
  BY DEF TabSound, Kinds, Locking
<1>1. /\ e \in TabRecords /\ SameStore(b, e) /\ SameClient(b, e)
      /\ e.waiters = b.waiters \ {"restore"}
      /\ \A k \in Kinds : /\ SameCall(b.call[k], e.call[k])
                          /\ e.call[k].mine = FALSE /\ e.call[k].current = b.call[k].current
  BY <1>0, DisownFields
<1> HIDE DEF e
<1>2. /\ m \in TabRecords /\ m.active = b.active /\ m.phase = b.phase /\ m.submitting = TRUE
      /\ m.signingOut = b.signingOut /\ m.busy = b.busy
      /\ m.waiters = e.waiters /\ m.call = e.call
  BY <1>1 DEF TabRecords, SameStore
<1> HIDE DEF m
<1>3. CallsSound(m) /\ ~Restoring(m) /\ \A k \in Kinds : ~Owns(m, k) /\ SameCall(b.call[k], m.call[k])
  <2>1. \A k \in Kinds : ~Owns(m, k) /\ SameCall(b.call[k], m.call[k]) /\ m.call[k].mine = FALSE
    BY <1>1, <1>2 DEF Owns
  <2>2. CallsSound(m)
    BY <1>0, <1>1, <1>2, <2>1, FlagsSound
  <2> QED
    BY <1>1, <1>2, <2>1, <2>2 DEF Restoring
<1>4. ~b.busy
  BY DEF TabSound, PageMoves, OperationShown
<1>5. m.call["account"].at = "idle"
  BY <1>3 DEF SameCall, Kinds, Requests
<1>6. LocalStep(m, c, "login") /\ c.call["login"] = d
  BY <1>2, <1>3, <1>4, <1>5, LoginRuns
<1> HIDE DEF c
<1>7. Keeps(b, m, "login")
  BY <1>0, <1>3, FlagsKept
<1>8. SignKept(b, c)
  BY <1>2, <1>6 DEF LocalStep, SignKept
<1> QED
  BY <1>0, <1>6, <1>7, <1>8, LocalTwice DEF c, m, e, OnWire

\* The login of a registered user, or of a replaced device, asks for the lock.
LEMMA LoginAgain ==
  ASSUME NEW b, TabSound(b), Owns(b, "login"), NEW again \in BOOLEAN
  PROVE  LET c == Asks(b, "login", again)
         IN LocalStep(b, c, "login") /\ c.call["login"].at = "lock"
<1> DEFINE d == [Idle EXCEPT !.at = "lock", !.current = "login" # "logout",
                             !.mine = "login" # "refresh", !.again = again]
           c == [b EXCEPT !.call["login"] = d]
<1>1. d \in Calls /\ d.mine /\ d.sets = {} /\ d.at = "lock"
  BY IdleCall DEF Calls, Idle
<1>2. Asks(b, "login", again) = c
  BY DEF Asks
<1> HIDE DEF d
<1>3. /\ b \in TabRecords /\ CallsSound(b) /\ b.active /\ b.phase = "anonymous" /\ b.submitting
      /\ ~b.signingOut /\ b.call["account"].at = "idle" /\ ~Restoring(b)
      /\ ~Owns(b, "account") /\ ~Owns(b, "logout")
  BY DEF TabSound, OneOperation, OperationShown, Kinds, Locking
<1>4. ~b.busy /\ ~Owns(b, "other") /\ ~Owns(b, "refresh")
  BY <1>3 DEF TabSound, PageMoves, OperationShown, CallsSound
<1>5. \A k \in Kinds \ {"login"} : ~Owns(b, k)
  BY <1>3, <1>4 DEF Kinds, Locking, Requests
<1>6. LocalStep(b, c, "login") /\ c.call["login"] = d
  BY <1>1, <1>3, <1>4, <1>5, LoginRuns
<1> QED
  BY <1>1, <1>2, <1>6

----------------------------------------------------------------------------
(* Signing out, loading the account and other requests *)

\* The store signs out: the session is forgotten and the logout asks for the lock.
LEMMA LogoutRuns ==
  ASSUME NEW b \in TabRecords, CallsSound(b), b.active, b.phase # "authenticated" \/ b.signingOut,
         ~b.busy, ~Restoring(b), \A k \in Kinds : ~Owns(b, k)
  PROVE  LET c == Logout(b)
         IN /\ TabSound(c) /\ Keeps(b, c, "logout") /\ c.call["logout"].at = "lock"
            /\ \A k \in Kinds \ {"logout"} : SameCall(b.call[k], c.call[k]) /\ ~Owns(c, k)
            /\ ~c.call["refresh"].current
<1> DEFINE f == ClearSession(b, FALSE)
           c == Asks(f, "logout", FALSE)
<1>0. Logout(b) = c
  BY DEF Logout
<1>1. /\ f \in TabRecords /\ SameStore(b, f) /\ f.token = None /\ f.timer = "off"
      /\ f.notify = b.notify /\ f.waiters = b.waiters
      /\ \A k \in Kinds : /\ SameCall(b.call[k], f.call[k])
                          /\ f.call[k].current = FALSE /\ f.call[k].mine = b.call[k].mine
  BY ForgetFields
<1> HIDE DEF f
<1>2. CallsSound(f)
  BY <1>1, FlagsSound
<1>3. /\ c \in TabRecords /\ SameStore(f, c) /\ SameClient(f, c) /\ c.waiters = f.waiters
      /\ \A j \in Kinds \ {"logout"} : c.call[j] = f.call[j]
      /\ c.call["logout"].at = "lock" /\ c.call["logout"].sets = {} /\ c.call["logout"].errand = None
      /\ c.call["logout"].current = FALSE /\ c.call["logout"].mine = TRUE
  BY <1>1, AskFields DEF Locking
<1> HIDE DEF c
<1>4. ~Restoring(c) /\ Owns(c, "logout") /\ \A k \in Kinds \ {"logout"} : ~Owns(c, k)
  BY <1>1, <1>3 DEF Restoring, Owns
<1>5. \A k \in Kinds \ {"logout"} : SameCall(b.call[k], c.call[k]) /\ c.call[k].current = FALSE
  BY <1>1, <1>3
<1>6. \A j \in Kinds :
        /\ c.call[j].at \in Stages(j)
        /\ c.call[j].at = "idle" => ~Owns(c, j)
        /\ c.call[j].at # "answered" => c.call[j].sets = {}
  <2>1. "lock" \in Stages("logout")
    BY DEF Stages
  <2> QED
    BY <1>2, <1>3, <2>1 DEF CallsSound, Owns
<1>7. c.waiters # {} => Refreshing(c)
  BY <1>2, <1>3 DEF CallsSound, Refreshing, Kinds, Locking
<1>8. \A j \in Requests : c.call[j].at = "await" <=> j \in c.waiters
  BY <1>2, <1>3 DEF CallsSound, Kinds, Requests, Locking
<1>9. CallsSound(c)
  BY <1>4, <1>6, <1>7, <1>8 DEF CallsSound, Kinds, Locking
<1>10. OneOperation(c) /\ OperationShown(c)
  BY <1>1, <1>3, <1>4 DEF OneOperation, OperationShown, SameStore, SameClient, Kinds, Locking, Requests
<1>11. PageMoves(c)
  BY <1>1, <1>3, <1>4 DEF PageMoves, SameStore
<1>12. TokenSound(c)
  BY <1>1, <1>3, <1>5 DEF TokenSound, SameStore, SameClient, Kinds, Locking, Requests
<1>13. Keeps(b, c, "logout") /\ ~c.call["refresh"].current
  BY <1>5 DEF Keeps, SameCall, SameWire, Kinds, Locking
<1>14. TabSound(c)
  BY <1>3, <1>9, <1>10, <1>11, <1>12 DEF TabSound
<1> QED
  BY <1>0, <1>3, <1>4, <1>5, <1>13, <1>14

\* The session is another device's: the operation goes on as a sign-out.
LEMMA MismatchSound ==
  ASSUME NEW b, TabSound(b), b.call["account"].at = "done", Owns(b, "account")
  PROVE  LET c == Logout([b EXCEPT !.call["account"] = Idle])
         IN LocalStep(b, c, "logout") /\ c.call["logout"].at = "lock"
<1> DEFINE d == [b EXCEPT !.call["account"] = Idle]
           c == Logout(d)
<1>0. /\ b \in TabRecords /\ CallsSound(b) /\ "logout" \in Kinds \ {"refresh"}
      /\ "account" \in Kinds \ {"refresh"}
  BY DEF TabSound, Kinds, Locking, Requests
<1>1. /\ d \in TabRecords /\ SameStore(b, d) /\ SameClient(b, d) /\ d.waiters = b.waiters
      /\ d.call["account"] = Idle /\ \A j \in Kinds \ {"account"} : d.call[j] = b.call[j]
  BY <1>0, CallReplaced, IdleCall
<1>2. CallsSound(d)
  BY <1>0, EndedCalls
<1> HIDE DEF d
<1>3. /\ b.active /\ b.phase # "authenticated" /\ ~b.signingOut /\ ~Restoring(b)
      /\ ~Owns(b, "login") /\ ~Owns(b, "logout") /\ ~Owns(b, "refresh")
  BY <1>0 DEF TabSound, CallsSound, OneOperation, OperationShown
<1>4. ~b.busy /\ ~Owns(b, "other")
  BY <1>3 DEF TabSound, PageMoves, OperationShown
<1>5. \A k \in Kinds : ~Owns(d, k)
  BY <1>1, <1>3, <1>4, IdleCall DEF Owns, Kinds, Locking, Requests
<1>6. d.active /\ d.phase # "authenticated" /\ ~d.busy /\ ~Restoring(d)
  BY <1>1, <1>3, <1>4 DEF SameStore, Restoring
<1>7. /\ TabSound(c) /\ Keeps(d, c, "logout") /\ c.call["logout"].at = "lock"
      /\ ~c.call["refresh"].current
  BY <1>1, <1>2, <1>5, <1>6, LogoutRuns
<1> HIDE DEF c
<1>8. Keeps(b, d, "logout")
  BY <1>0, <1>1, IdleCall DEF Keeps, OnWire, SameWire, Locking
<1>9. Keeps(b, c, "logout")
  BY <1>0, <1>7, <1>8, KeepsTwice
<1>10. SignKept(b, c)
  BY <1>7 DEF SignKept
<1>11. LocalStep(b, c, "logout")
  BY <1>0, <1>7, <1>9, <1>10, CallLocal DEF OnWire
<1> QED
  BY <1>7, <1>11 DEF c, d

\* The page that signs out.
Leaves(b) ==
    [Disown(b) EXCEPT !.signingOut = TRUE, !.submitting = FALSE, !.busy = FALSE]

\* signOut, and the end of the request that revoked the own device.
LEMMA SignOutSound ==
  ASSUME NEW b, TabSound(b), b.active
  PROVE  LET c == Logout(Leaves(b))
             d == [c EXCEPT !.call["other"] = Idle]
         IN /\ LocalStep(b, c, "logout") /\ c.call["logout"].at = "lock"
            /\ b.call["other"].at = "done" =>
                LocalStep(b, d, "logout") /\ d.call["logout"].at = "lock"
<1> DEFINE e == Disown(b)
           m == Leaves(b)
           c == Logout(m)
           d == [c EXCEPT !.call["other"] = Idle]
<1>0. /\ b \in TabRecords /\ CallsSound(b) /\ "logout" \in Kinds \ {"refresh"}
      /\ "other" \in Kinds \ {"refresh"}
  BY DEF TabSound, Kinds, Locking, Requests
<1>1. /\ e \in TabRecords /\ SameStore(b, e) /\ SameClient(b, e)
      /\ e.waiters = b.waiters \ {"restore"}
      /\ \A k \in Kinds : /\ SameCall(b.call[k], e.call[k])
                          /\ e.call[k].mine = FALSE /\ e.call[k].current = b.call[k].current
  BY <1>0, DisownFields
<1>2. m = [e EXCEPT !.signingOut = TRUE, !.submitting = FALSE, !.busy = FALSE]
  BY DEF Leaves
<1> HIDE DEF e
<1>3. /\ m \in TabRecords /\ m.active = b.active /\ m.signingOut = TRUE /\ m.busy = FALSE
      /\ m.waiters = e.waiters /\ m.call = e.call
  BY <1>1, <1>2 DEF TabRecords, SameStore
<1> HIDE DEF m
<1>4. \A k \in Kinds : ~Owns(m, k) /\ SameCall(b.call[k], m.call[k]) /\ m.call[k].mine = FALSE
  BY <1>1, <1>3 DEF Owns
<1>5. CallsSound(m) /\ ~Restoring(m)
  <2>1. CallsSound(m)
    BY <1>0, <1>1, <1>3, <1>4, FlagsSound
  <2> QED
    BY <1>1, <1>3, <2>1 DEF Restoring
<1>6. /\ TabSound(c) /\ Keeps(m, c, "logout") /\ c.call["logout"].at = "lock"
      /\ \A k \in Kinds \ {"logout"} : SameCall(m.call[k], c.call[k]) /\ ~Owns(c, k)
      /\ ~c.call["refresh"].current
  BY <1>3, <1>4, <1>5, LogoutRuns
<1> HIDE DEF c
<1>7. Keeps(b, m, "logout")
  BY <1>0, <1>4, FlagsKept
<1>8. Keeps(b, c, "logout")
  BY <1>0, <1>6, <1>7, KeepsTwice
<1>9. LocalStep(b, c, "logout")
  BY <1>0, <1>6, <1>8, CallLocal DEF OnWire, SignKept
<1>10. ASSUME b.call["other"].at = "done"
       PROVE  LocalStep(b, d, "logout") /\ d.call["logout"].at = "lock"
  <2>1. c.call["other"].at = "done" /\ ~c.call["other"].mine /\ c \in TabRecords
    BY <1>0, <1>4, <1>6, <1>10 DEF SameCall, Owns, TabSound
  <2>2. OperationEnds(c, "other") = d
    BY <2>1 DEF OperationEnds
  <2>3. TabSound(d)
    BY <1>0, <1>6, <2>1, <2>2, OperationEndsSound
  <2>4. /\ d \in TabRecords /\ SameStore(c, d) /\ SameClient(c, d) /\ d.waiters = c.waiters
        /\ d.call["other"] = Idle /\ \A j \in Kinds \ {"other"} : d.call[j] = c.call[j]
    BY <1>0, <2>1, CallReplaced, IdleCall
  <2> HIDE DEF d
  <2>5. Keeps(c, d, "logout") /\ d.call["logout"].at = "lock" /\ ~d.call["refresh"].current
    BY <1>0, <1>6, <2>4, IdleCall DEF Keeps, OnWire, SameWire, Kinds, Locking
  <2>6. Keeps(b, d, "logout")
    BY <1>0, <1>8, <2>5, KeepsTwice
  <2> QED
    BY <1>0, <2>3, <2>5, <2>6, CallLocal DEF OnWire, SignKept
<1> QED
  BY <1>6, <1>9, <1>10 DEF c, d, m

\* The account is loaded and the page shows it.
LEMMA SignedInSound ==
  ASSUME NEW b, TabSound(b), b.call["account"].at = "done"
  PROVE  LET c == [SignedIn(b) EXCEPT !.call["account"] = Idle]
         IN LocalStep(b, c, "account")
<1> DEFINE c == [SignedIn(b) EXCEPT !.call["account"] = Idle]
<1>0. b \in TabRecords /\ CallsSound(b) /\ "account" \in Kinds \ {"refresh"}
  BY DEF TabSound, Kinds, Requests, Locking
<1>1. CASE ~Owns(b, "account")
  <2>1. c = OperationEnds(b, "account")
    BY <1>1 DEF SignedIn, OperationEnds, Owns
  <2> QED
    BY <1>0, <2>1, OperationEndsLocal
<1>2. CASE Owns(b, "account")
  <2> DEFINE e == [b EXCEPT !.call["account"] = Idle]
             f == [e EXCEPT !.phase = "authenticated", !.submitting = FALSE]
  <2>1. c = f
    BY <1>0, <1>2 DEF SignedIn, Owns, TabRecords
  <2>2. /\ e \in TabRecords /\ SameStore(b, e) /\ SameClient(b, e) /\ e.waiters = b.waiters
        /\ e.call["account"] = Idle /\ \A j \in Kinds \ {"account"} : e.call[j] = b.call[j]
    BY <1>0, CallReplaced, IdleCall
  <2>3. CallsSound(e)
    BY <1>0, EndedCalls
  <2> HIDE DEF e
  <2>4. /\ f \in TabRecords /\ SameClient(e, f) /\ f.waiters = e.waiters /\ f.call = e.call
        /\ f.active = e.active /\ f.phase = "authenticated" /\ f.submitting = FALSE
        /\ f.signingOut = e.signingOut /\ f.busy = e.busy
    BY <2>2 DEF TabRecords, SameClient
  <2> HIDE DEF f
  <2>5. CallsSound(f)
    BY <2>3, <2>4 DEF CallsSound, Owns, Refreshing
  <2>6. /\ b.active /\ b.phase # "authenticated" /\ ~b.signingOut /\ ~Restoring(b) /\ b.token # None
        /\ ~Owns(b, "login") /\ ~Owns(b, "logout") /\ ~Owns(b, "refresh")
    BY <1>0, <1>2 DEF TabSound, CallsSound, OneOperation, OperationShown
  <2>7. ~b.busy /\ ~Owns(b, "other")
    BY <2>6 DEF TabSound, PageMoves, OperationShown
  <2>8. ~Restoring(f) /\ \A k \in Kinds : ~Owns(f, k)
    BY <2>2, <2>4, <2>6, <2>7, IdleCall DEF Owns, Restoring, Kinds, Locking, Requests
  <2>9. OneOperation(f) /\ OperationShown(f)
    BY <2>8 DEF OneOperation, OperationShown, Kinds, Locking, Requests
  <2>10. PageMoves(f)
    BY <2>2, <2>4, <2>6, <2>7 DEF PageMoves, SameStore
  <2>11. TokenSound(f)
    <3>1. f.token # None /\ ~f.signingOut /\ f.notify = b.notify
      BY <2>2, <2>4, <2>6 DEF SameStore, SameClient
    <3>2. f.call["refresh"] = b.call["refresh"]
      BY <2>2, <2>4 DEF Kinds, Locking, Requests
    <3>3. ~(Refreshing(b) /\ b.call["refresh"].current /\ ~b.notify)
      BY <1>2, <2>6 DEF TabSound, TokenSound
    <3> QED
      BY <3>1, <3>2, <3>3 DEF TokenSound, Refreshing
  <2>12. Keeps(b, f, "account") /\ SignKept(b, f) /\ f.call["account"].at = "idle"
    BY <2>2, <2>4, <2>6, IdleCall DEF Keeps, SameWire, SignKept, SameStore
  <2> QED
    BY <1>0, <2>1, <2>4, <2>5, <2>9, <2>10, <2>11, <2>12, CallLocal DEF TabSound, OnWire
<1> QED
  BY <1>1, <1>2

----------------------------------------------------------------------------
(* Requests, timers and what is sent *)

\* A signed-in tab starts a request.
LEMMA StartRequestSound ==
  ASSUME NEW b, TabSound(b), b.active, b.phase = "authenticated", ~b.signingOut,
         b.call["other"].at = "idle", NEW e \in Errands
  PROVE  LET c == [b EXCEPT !.busy = @ \/ e = "revoke", !.call["other"] =
                        [Idle EXCEPT !.at = "ready", !.mine = TRUE, !.errand = e]]
         IN LocalStep(b, c, "other")
<1> DEFINE d == [Idle EXCEPT !.at = "ready", !.mine = TRUE, !.errand = e]
           m == [b EXCEPT !.call["other"] = d]
           c == [m EXCEPT !.busy = b.busy \/ e = "revoke"]
<1>0. b \in TabRecords /\ CallsSound(b) /\ "other" \in Kinds \ {"refresh"}
  BY DEF TabSound, Kinds, Requests, Locking
<1>1. d \in Calls /\ d.at = "ready" /\ d.mine = TRUE /\ d.errand = e /\ d.sets = {}
  BY IdleCall, SessionAssumption DEF Calls, Idle
<1> HIDE DEF d
<1>2. [b EXCEPT !.busy = @ \/ e = "revoke", !.call["other"] = d] = c
  BY <1>0 DEF TabRecords
<1>3. /\ m \in TabRecords /\ SameStore(b, m) /\ SameClient(b, m) /\ m.waiters = b.waiters
      /\ m.call["other"] = d /\ \A j \in Kinds \ {"other"} : m.call[j] = b.call[j]
  BY <1>0, <1>1, CallReplaced
<1> HIDE DEF m
<1>4. b.busy = FALSE
  <2>1. ~Owns(b, "other")
    BY <1>0 DEF CallsSound
  <2> QED
    BY <1>0, <2>1, TabFields DEF TabSound, PageMoves
<1>5. /\ c \in TabRecords /\ SameClient(m, c) /\ c.waiters = m.waiters /\ c.call = m.call
      /\ c.active = m.active /\ c.phase = m.phase /\ c.submitting = m.submitting
      /\ c.signingOut = m.signingOut /\ c.busy = (e = "revoke")
  BY <1>3, <1>4 DEF TabRecords, SameClient
<1> HIDE DEF c
<1>6. /\ Restoring(c) <=> Restoring(b)
      /\ Owns(c, "other") /\ \A k \in Kinds \ {"other"} : Owns(c, k) <=> Owns(b, k)
      /\ \A k \in Kinds \ {"other"} : c.call[k] = b.call[k]
      /\ c.call["other"] = d
  BY <1>1, <1>3, <1>5 DEF Restoring, Owns
<1>7. /\ c.active = b.active /\ c.phase = b.phase /\ c.submitting = b.submitting
      /\ c.signingOut = b.signingOut /\ c.token = b.token /\ c.notify = b.notify
      /\ c.waiters = b.waiters
  BY <1>3, <1>5 DEF SameStore, SameClient
<1>8. \A j \in Kinds :
        /\ c.call[j].at \in Stages(j)
        /\ c.call[j].at = "idle" => ~Owns(c, j)
        /\ c.call[j].at # "answered" => c.call[j].sets = {}
  <2>1. "ready" \in Stages("other")
    BY DEF Stages
  <2> QED
    BY <1>0, <1>1, <1>6, <2>1 DEF CallsSound, Owns
<1>9. ~Owns(c, "refresh") /\ (c.waiters # {} => Refreshing(c))
  BY <1>0, <1>6, <1>7 DEF CallsSound, Refreshing, Owns, Kinds, Locking
<1>10. \A j \in Requests : c.call[j].at = "await" <=> j \in c.waiters
  BY <1>0, <1>1, <1>6, <1>7 DEF CallsSound, Kinds, Requests
<1>11. CallsSound(c)
  BY <1>8, <1>9, <1>10 DEF CallsSound
<1>12. OneOperation(c)
  BY <1>6, <1>7 DEF TabSound, OneOperation, Kinds, Locking, Requests
<1>13. OperationShown(c)
  BY <1>6, <1>7 DEF TabSound, OperationShown, Kinds, Locking, Requests
<1>14. PageMoves(c)
  BY <1>1, <1>5, <1>6, <1>7 DEF TabSound, PageMoves, Kinds, Locking, Requests
<1>15. TokenSound(c)
  BY <1>6, <1>7 DEF TabSound, TokenSound, Refreshing, Kinds, Locking, Requests
<1>16. Keeps(b, c, "other") /\ SignKept(b, c) /\ c.call["other"].at = "ready"
  BY <1>1, <1>6, <1>7 DEF Keeps, SameWire, SignKept
<1>17. LocalStep(b, c, "other")
  BY <1>0, <1>5, <1>11, <1>12, <1>13, <1>14, <1>15, <1>16, CallLocal DEF TabSound, OnWire
<1> QED
  BY <1>2, <1>17 DEF d

\* Calls that are sound need nobody to join a refresh.
LEMMA NobodyJoins ==
  ASSUME NEW b, CallsSound(b), NEW who, who \cap Requests = {}
  PROVE  CallsJoin(b, who)
  BY DEF CallsSound, CallsJoin

\* A refresh that no request waits for.
LEMMA RefreshAlone ==
  ASSUME NEW b, TabSound(b), NEW who \in SUBSET {"timer"}
  PROVE  LocalStep(b, RefreshAccessToken(b, TRUE, who), "refresh")
         /\ RefreshKept(b, RefreshAccessToken(b, TRUE, who))
<1> DEFINE c == RefreshAccessToken(b, TRUE, who)
<1>1. /\ b \in TabRecords /\ CallsJoin(b, who)
      /\ who \in SUBSET ({"timer"} \cup Requests)
      /\ who \in SUBSET ({"restore", "timer"} \cup Requests)
  BY NobodyJoins DEF TabSound, Requests
<1>2. TabSound(c)
  BY <1>1, RefreshSound DEF TabSound
<1>3. /\ c \in TabRecords /\ SameStore(b, c) /\ c.token = b.token /\ c.timer = b.timer
      /\ JoinsRefresh(b, c, who) /\ c.notify = IF Refreshing(b) THEN b.notify ELSE TRUE
  BY <1>1, RefreshFields
<1> HIDE DEF c
<1>4. Keeps(b, c, "refresh") /\ RefreshKept(b, c) /\ SignKept(b, c)
  BY <1>3, JoinKeeps
<1> QED
  BY <1>2, <1>4, RefreshLocal DEF c

\* The timer of a tab fires.
LEMMA TimerSound ==
  ASSUME NEW b, TabSound(b), NEW who \in SUBSET {"timer"}
  PROVE  LET c == RefreshAccessToken([b EXCEPT !.timer = "off"], TRUE, who)
         IN LocalStep(b, c, "refresh") /\ RefreshKept(b, c)
<1> DEFINE m == [b EXCEPT !.timer = "off"]
           c == RefreshAccessToken(m, TRUE, who)
<1>1. /\ m \in TabRecords /\ SameStore(b, m) /\ m.token = b.token /\ m.notify = b.notify
      /\ m.waiters = b.waiters /\ m.call = b.call
  BY DEF TabSound, TabRecords, SameStore
<1> HIDE DEF m
<1>2. CallsSound(m)
  BY <1>1 DEF TabSound, CallsSound, Owns, Refreshing
<1>3. OneOperation(m) /\ OperationShown(m)
  BY <1>1 DEF TabSound, OneOperation, OperationShown, Owns, Restoring, SameStore
<1>4. PageMoves(m) /\ TokenSound(m)
  BY <1>1 DEF TabSound, PageMoves, TokenSound, Owns, Restoring, SameStore, Refreshing
<1>5. TabSound(m)
  BY <1>1, <1>2, <1>3, <1>4 DEF TabSound
<1>6. LocalStep(m, c, "refresh") /\ RefreshKept(m, c)
  BY <1>5, RefreshAlone
<1> HIDE DEF c
<1>7. LocalStep(b, c, "refresh")
  BY <1>1, <1>6 DEF LocalStep, Keeps, SignKept, SameStore, Refreshing
<1>8. RefreshKept(b, c)
  BY <1>1, <1>6 DEF RefreshKept, Refreshing
<1> QED
  BY <1>7, <1>8 DEF c, m

\* The tab whose call k is sent with x.
Sends(b, k, x) == [b EXCEPT !.call[k] = [@ EXCEPT !.at = "sent", !.presents = x]]

\* A call is sent with what it presents.
LEMMA SentSound ==
  ASSUME NEW b, TabSound(b), NEW k \in Kinds, b.call[k].at \in {"lock", "ready"},
         NEW x \in (Sessions \X (0..MaxRotations)) \cup {None}
  PROVE  LET c == Sends(b, k, x)
         IN /\ TabSound(c) /\ Keeps(b, c, k) /\ SignKept(b, c)
            /\ c.call[k].at = "sent" /\ c.call[k].presents = x
<1> DEFINE d == [b.call[k] EXCEPT !.at = "sent", !.presents = x]
           c == [b EXCEPT !.call[k] = d]
<1>0. b \in TabRecords /\ b.call[k] \in Calls /\ b.call[k].sets = {}
  BY TabFields DEF TabSound, CallsSound
<1>1. /\ d \in Calls /\ d.at = "sent" /\ d.presents = x /\ d.mine = b.call[k].mine
      /\ d.current = b.call[k].current /\ d.errand = b.call[k].errand /\ d.sets = {}
  BY <1>0 DEF Calls
<1> HIDE DEF d
<1>2. "sent" \in Stages(k)
  BY DEF Stages, Kinds, Locking, Requests
<1>3. TabSound(c)
  BY <1>1, <1>2, CallMovesSound
<1>4. /\ c \in TabRecords /\ SameStore(b, c) /\ SameClient(b, c) /\ c.waiters = b.waiters
      /\ c.call[k] = d /\ \A j \in Kinds \ {k} : c.call[j] = b.call[j]
  BY <1>0, <1>1, CallReplaced
<1> HIDE DEF c
<1>5. Keeps(b, c, k)
  BY <1>4 DEF Keeps, SameWire
<1>6. SignKept(b, c)
  <2>1. /\ c.call["refresh"].current = b.call["refresh"].current
        /\ Refreshing(c) => Refreshing(b)
    BY <1>1, <1>4 DEF Refreshing, Kinds, Locking
  <2> QED
    BY <1>4, <2>1 DEF SignKept, SameStore
<1> QED
  BY <1>1, <1>3, <1>4, <1>5, <1>6 DEF c, d, Sends

\* The tab whose call k is answered.
Answered(b, k, answer, sets) ==
    [b EXCEPT !.call[k] = [@ EXCEPT !.at = "answered", !.presents = None,
                                    !.answer = answer, !.sets = sets]]

\* A call is answered.
LEMMA AnsweredSound ==
  ASSUME NEW b, TabSound(b), NEW k \in Kinds, b.call[k].at = "sent",
         NEW answer \in Answers, NEW sets \in Cookies
  PROVE  LET c == Answered(b, k, answer, sets)
         IN /\ TabSound(c) /\ Keeps(b, c, k) /\ SignKept(b, c)
            /\ c.call[k].at = "answered" /\ c.call[k].answer = answer /\ c.call[k].sets = sets
<1> DEFINE d == [b.call[k] EXCEPT !.at = "answered", !.presents = None,
                                  !.answer = answer, !.sets = sets]
           c == [b EXCEPT !.call[k] = d]
<1>0. b \in TabRecords /\ b.call[k] \in Calls
  BY TabFields DEF TabSound
<1>1. /\ d \in Calls /\ d.at = "answered" /\ d.answer = answer /\ d.sets = sets
      /\ d.mine = b.call[k].mine
      /\ d.current = b.call[k].current /\ d.errand = b.call[k].errand
  BY <1>0 DEF Calls
<1> HIDE DEF d
<1>2. "answered" \in Stages(k)
  BY DEF Stages, Kinds, Locking, Requests
<1>3. TabSound(c)
  BY <1>1, <1>2, CallMovesSound
<1>4. /\ c \in TabRecords /\ SameStore(b, c) /\ SameClient(b, c) /\ c.waiters = b.waiters
      /\ c.call[k] = d /\ \A j \in Kinds \ {k} : c.call[j] = b.call[j]
  BY <1>0, <1>1, CallReplaced
<1> HIDE DEF c
<1>5. Keeps(b, c, k)
  BY <1>4 DEF Keeps, SameWire
<1>6. SignKept(b, c)
  <2>1. /\ c.call["refresh"].current = b.call["refresh"].current
        /\ Refreshing(c) => Refreshing(b)
    BY <1>1, <1>4 DEF Refreshing, Kinds, Locking
  <2> QED
    BY <1>4, <2>1 DEF SignKept, SameStore
<1> QED
  BY <1>1, <1>3, <1>4, <1>5, <1>6 DEF c, d, Answered

----------------------------------------------------------------------------
(* The lock *)

Held == {"lock", "sent", "answered"}

\* Where a call stands.
At(p) == tab[p[1]].call[p[2]].at

\* A call of the lock is the pair of its tab and its kind.
LEMMA Pairs ==
  /\ \A p \in Lockers : p[1] \in Tabs /\ p[2] \in Locking /\ p[2] \in Kinds /\ p = <<p[1], p[2]>>
  /\ \A t \in Tabs, k \in Locking :
        /\ <<t, k>> \in Lockers /\ <<t, k>>[1] = t /\ <<t, k>>[2] = k
        /\ \A s \in Tabs, j \in Locking : <<t, k>> = <<s, j>> => t = s /\ k = j
  BY DEF Lockers, Kinds

\* The step of one tab leaves the calls of the others.
LEMMA OtherTabs ==
  ASSUME tab \in [Tabs -> TabRecords], NEW t \in Tabs, NEW c \in TabRecords, Becomes(t, c)
  PROVE  /\ tab' \in [Tabs -> TabRecords] /\ tab'[t] = c
         /\ \A s \in Tabs \ {t} : tab'[s] = tab[s]
  BY DEF Becomes

\* The calls other than the one that moves stay where they stand.
LEMMA OthersStand ==
  ASSUME tab \in [Tabs -> TabRecords], NEW t \in Tabs, NEW k \in Kinds, NEW c \in TabRecords,
         Becomes(t, c), Keeps(tab[t], c, k)
  PROVE  \A p \in Lockers \ {<<t, k>>} : At(p)' = At(p)
<1>1. /\ tab' \in [Tabs -> TabRecords] /\ tab'[t] = c
      /\ \A s \in Tabs \ {t} : tab'[s] = tab[s]
  BY OtherTabs
<1>2. SUFFICES ASSUME NEW p \in Lockers \ {<<t, k>>}
               PROVE  tab'[p[1]].call[p[2]].at = tab[p[1]].call[p[2]].at
  BY DEF At
<1>3. p[1] \in Tabs /\ p[2] \in Locking /\ p[2] \in Kinds /\ p = <<p[1], p[2]>>
  BY Pairs
<1>4. CASE p[1] # t
  BY <1>1, <1>3, <1>4
<1>5. CASE p[1] = t
  <2>1. p[2] # k
    BY <1>3, <1>5
  <2>2. c.call[p[2]].at = tab[t].call[p[2]].at
    BY <1>3, <2>1 DEF Keeps
  <2> QED
    BY <1>1, <1>5, <2>2
<1> QED
  BY <1>4, <1>5

\* Nobody comes and nobody goes.
LEMMA LineStays ==
  ASSUME LockSound, queue' = queue, \A p \in Lockers : At(p)' \in Held <=> At(p) \in Held,
         \A p \in Lockers : At(p)' \in OnWire => queue[p] = {}
  PROVE  LockSound'
<1>1. Queued = {p \in Lockers : At(p) \in Held} /\ Queued' = {p \in Lockers : At(p)' \in Held}
  BY DEF Queued, At, Held
<1>2. Queued' = Queued
  BY <1>1
<1>3. \A p \in Queued' : At(p)' # "lock" => queue[p] = {}
  BY <1>1 DEF Held, OnWire
<1> QED
  BY <1>2, <1>3 DEF LockSound, At

\* A call joins the end of the line.
LEMMA LineGrows ==
  ASSUME LockSound, NEW q \in Lockers, q \notin Queued, queue' = [queue EXCEPT ![q] = Queued],
         At(q)' = "lock", \A p \in Lockers \ {q} : At(p)' = At(p)
  PROVE  LockSound'
<1>1. Queued = {p \in Lockers : At(p) \in Held} /\ Queued' = {p \in Lockers : At(p)' \in Held}
  BY DEF Queued, At, Held
<1>2. Queued' = Queued \cup {q} /\ Queued \subseteq Lockers
  BY <1>1 DEF Held
<1>3. /\ queue' \in [Lockers -> SUBSET Lockers] /\ queue'[q] = Queued
      /\ \A p \in Lockers \ {q} : queue'[p] = queue[p]
  BY <1>2 DEF LockSound
<1>4. \A p \in Lockers : queue'[p] \subseteq Queued' \ {p}
  BY <1>2, <1>3 DEF LockSound
<1>5. \A p \in Lockers \ Queued' : queue'[p] = {}
  BY <1>2, <1>3 DEF LockSound
<1>6. \A p, r \in Queued' : p # r => p \in queue'[r] \/ r \in queue'[p]
  BY <1>2, <1>3 DEF LockSound
<1>7. \A p \in Queued' : At(p)' # "lock" => queue'[p] = {}
  BY <1>2, <1>3 DEF LockSound, At
<1> QED
  BY <1>3, <1>4, <1>5, <1>6, <1>7 DEF LockSound, At

\* Calls leave the line.
LEMMA LineShrinks ==
  ASSUME LockSound, NEW gone \in SUBSET Lockers, queue' = Without(gone),
         \A p \in gone : At(p)' \notin Held, \A p \in Lockers \ gone : At(p)' = At(p)
  PROVE  LockSound'
<1>1. Queued = {p \in Lockers : At(p) \in Held} /\ Queued' = {p \in Lockers : At(p)' \in Held}
  BY DEF Queued, At, Held
<1>2. Queued' = Queued \ gone
  BY <1>1
<1>3. /\ queue' \in [Lockers -> SUBSET Lockers]
      /\ \A p \in gone : queue'[p] = {}
      /\ \A p \in Lockers \ gone : queue'[p] = queue[p] \ gone
  BY DEF LockSound, Without
<1>4. \A p \in Lockers : queue'[p] \subseteq Queued' \ {p}
  BY <1>2, <1>3 DEF LockSound
<1>5. \A p \in Lockers \ Queued' : queue'[p] = {}
  BY <1>2, <1>3 DEF LockSound
<1>6. \A p, r \in Queued' : p # r => p \in queue'[r] \/ r \in queue'[p]
  BY <1>1, <1>2, <1>3 DEF LockSound
<1>7. \A p \in Queued' : At(p)' # "lock" => queue'[p] = {}
  BY <1>1, <1>2, <1>3 DEF LockSound, At
<1> QED
  BY <1>3, <1>4, <1>5, <1>6, <1>7 DEF LockSound, At

\* What the step of call k of tab t, which becomes c, does to the line.
QueueMoves(t, c, k) ==
    \/ /\ queue' = queue
       /\ k \in Locking => \/ c.call[k].at = tab[t].call[k].at
                           \/ /\ tab[t].call[k].at \in Held /\ c.call[k].at \in OnWire
                              /\ queue[<<t, k>>] = {}
    \/ /\ k \in Locking /\ tab[t].call[k].at \notin Held /\ c.call[k].at = "lock"
       /\ queue' = [queue EXCEPT ![<<t, k>>] = Queued]
    \/ /\ k \in Locking /\ c.call[k].at \notin Held
       /\ queue' = Leave(t, k)

\* A step of a tab keeps the line.
LEMMA LineSound ==
  ASSUME LockSound, tab \in [Tabs -> TabRecords], NEW t \in Tabs, NEW k \in Kinds,
         NEW c \in TabRecords, Becomes(t, c), Keeps(tab[t], c, k), QueueMoves(t, c, k)
  PROVE  LockSound'
<1>1. \A p \in Lockers \ {<<t, k>>} : At(p)' = At(p)
  BY OthersStand
<1>2. k \in Locking => /\ <<t, k>> \in Lockers /\ At(<<t, k>>) = tab[t].call[k].at
                       /\ At(<<t, k>>)' = c.call[k].at
  BY Pairs, OtherTabs DEF At
<1>3. \A p \in Lockers : At(p) \in OnWire => queue[p] = {}
  BY DEF LockSound, Queued, At, OnWire
<1>4. k \notin Locking => <<t, k>> \notin Lockers
  BY DEF Lockers
<1>5. CASE /\ queue' = queue
           /\ k \in Locking => \/ c.call[k].at = tab[t].call[k].at
                               \/ /\ tab[t].call[k].at \in Held /\ c.call[k].at \in OnWire
                                  /\ queue[<<t, k>>] = {}
  <2>1. \A p \in Lockers : /\ At(p)' \in Held <=> At(p) \in Held
                           /\ At(p)' \in OnWire => queue[p] = {}
    BY <1>1, <1>2, <1>3, <1>4, <1>5 DEF Held, OnWire
  <2> QED
    BY <1>5, <2>1, LineStays
<1>6. CASE /\ k \in Locking /\ tab[t].call[k].at \notin Held /\ c.call[k].at = "lock"
           /\ queue' = [queue EXCEPT ![<<t, k>>] = Queued]
  <2>1. <<t, k>> \notin Queued
    BY <1>2, <1>6 DEF Queued, At, Held
  <2> QED
    BY <1>1, <1>2, <1>6, <2>1, LineGrows
<1>7. CASE k \in Locking /\ c.call[k].at \notin Held /\ queue' = Leave(t, k)
  <2>1. {<<t, k>>} \in SUBSET Lockers
    BY <1>2, <1>7
  <2>2. queue' = Without({<<t, k>>})
    BY <1>7 DEF Leave
  <2> QED
    BY <1>1, <1>2, <1>7, <2>1, <2>2, LineShrinks
<1> QED
  BY <1>5, <1>6, <1>7 DEF QueueMoves

\* The logout of a page that signs out, and a refresh that runs, are in the line.
LEMMA InLine ==
  ASSUME NEW b, TabSound(b)
  PROVE  /\ b.active /\ b.signingOut => b.call["logout"].at \in Held
         /\ Refreshing(b) => b.call["refresh"].at \in Held
<1>1. b.call["logout"].at \in Stages("logout") /\ b.call["refresh"].at \in Stages("refresh")
  BY DEF TabSound, CallsSound, Kinds, Locking
<1>2. b.active /\ b.signingOut => b.call["logout"].at # "idle"
  BY DEF TabSound, CallsSound, PageMoves, Kinds, Locking
<1> QED
  BY <1>1, <1>2 DEF Stages, Refreshing, Held

\* A step of a tab keeps the order of a sign-out and a refresh that starts after it.
LEMMA OrderSound ==
  ASSUME LockSound, SignOutFirst, TabsSound, NEW t \in Tabs, NEW k \in Kinds,
         NEW c, TabSound(c), Becomes(t, c), Keeps(tab[t], c, k), SignKept(tab[t], c),
         QueueMoves(t, c, k)
  PROVE  SignOutFirst'
<1> DEFINE b == tab[t]
           out == <<t, "logout">>
           ref == <<t, "refresh">>
<1>0. /\ c \in TabRecords /\ TabSound(b) /\ tab \in [Tabs -> TabRecords]
      /\ queue \in [Lockers -> SUBSET Lockers]
      /\ out \in Lockers /\ ref \in Lockers /\ out # ref
  BY Pairs DEF TabsSound, TabSound, LockSound, Locking
<1>1. /\ tab' \in [Tabs -> TabRecords] /\ tab'[t] = c
      /\ \A s \in Tabs \ {t} : tab'[s] = tab[s]
  BY <1>0, OtherTabs
<1>2. \A p \in Lockers \ {<<t, k>>} :
        /\ p \in {out, ref} => queue'[p] = queue[p] \/ queue'[p] = queue[p] \ {<<t, k>>}
        /\ p[1] # t => queue'[p] = queue[p] \/ queue'[p] = queue[p] \ {<<t, k>>}
  BY <1>0 DEF QueueMoves, Leave, Without
<1>3. ASSUME NEW s \in Tabs \ {t}, (tab[s].active /\ tab[s].signingOut /\ Refreshing(tab[s])
                                    /\ tab[s].call["refresh"].current)'
      PROVE  <<s, "logout">> \in queue'[<<s, "refresh">>]
  <2>1. <<s, "logout">> \in queue[<<s, "refresh">>]
    BY <1>1, <1>3 DEF SignOutFirst, Refreshing
  <2>2. /\ <<s, "refresh">> \in Lockers /\ <<s, "refresh">>[1] = s
        /\ <<s, "refresh">> # <<t, k>> /\ <<s, "logout">> # <<t, k>>
    BY Pairs DEF Locking
  <2> QED
    BY <1>2, <2>1, <2>2
<1>4. ASSUME c.active, c.signingOut, Refreshing(c), c.call["refresh"].current
      PROVE  out \in queue'[ref]
  <2>1. b.active /\ b.signingOut /\ (Refreshing(b) => b.call["refresh"].current)
    BY <1>4 DEF SignKept
  <2>2. /\ b.call["logout"].at \in Held /\ c.call["logout"].at \in Held
        /\ c.call["refresh"].at \in Held
    BY <1>0, <1>4, <2>1, InLine
  <2>3. CASE Refreshing(b)
    <3>1. out \in queue[ref] /\ b.call["refresh"].at \in Held
      BY <1>0, <2>1, <2>3, InLine DEF SignOutFirst
    <3>2. k \in {"logout", "refresh"} => queue' = queue
      BY <2>2, <3>1 DEF QueueMoves
    <3>3. k \notin {"logout", "refresh"} => <<t, k>> # out /\ <<t, k>> # ref
      OBVIOUS
    <3> QED
      BY <1>0, <1>2, <3>1, <3>2, <3>3
  <2>4. CASE ~Refreshing(b)
    <3>1. b.call["refresh"].at \notin Held
      BY <2>4 DEF Refreshing, Held
    <3>2. k = "refresh"
      BY <2>2, <3>1 DEF Keeps, Kinds, Locking
    <3>3. queue' = [queue EXCEPT ![ref] = Queued]
      BY <2>2, <3>1, <3>2 DEF QueueMoves, Locking
    <3>4. out \in Queued
      BY <1>0, <2>2, Pairs DEF Queued, Held, Locking
    <3> QED
      BY <1>0, <3>3, <3>4
  <2> QED
    BY <2>3, <2>4
<1> QED
  BY <1>1, <1>3, <1>4 DEF SignOutFirst, Refreshing

\* A step of a tab keeps the tabs, the line and its order.
LEMMA TabStep ==
  ASSUME LockSound, SignOutFirst, TabsSound, NEW t \in Tabs, NEW k \in Kinds,
         NEW c, TabSound(c), Becomes(t, c), Keeps(tab[t], c, k), SignKept(tab[t], c),
         QueueMoves(t, c, k)
  PROVE  TabsSound' /\ LockSound' /\ SignOutFirst'
<1>1. c \in TabRecords /\ tab \in [Tabs -> TabRecords]
  BY DEF TabsSound, TabSound
<1>2. TabsSound'
  BY <1>1, OtherTabs DEF TabsSound
<1> QED
  BY <1>1, <1>2, LineSound, OrderSound

\* Two calls that hold the lock are one.
LEMMA OneHolds ==
  ASSUME LockSound, NEW s \in Tabs, NEW j \in Locking, NEW t \in Tabs, NEW k \in Locking,
         tab[s].call[j].at \in OnWire, tab[t].call[k].at \in Held, queue[<<t, k>>] = {}
  PROVE  s = t /\ j = k
<1>1. <<s, j>> \in Queued /\ <<t, k>> \in Queued
  BY Pairs DEF Queued, OnWire, Held
<1>2. tab[<<s, j>>[1]].call[<<s, j>>[2]].at # "lock"
  BY DEF OnWire
<1>3. queue[<<s, j>>] = {}
  BY <1>1, <1>2 DEF LockSound
<1>4. <<s, j>> = <<t, k>>
  BY <1>1, <1>3 DEF LockSound
<1> QED
  BY <1>4, Pairs

----------------------------------------------------------------------------
(* The wire *)

\* What a call of kind k that is on the wire carries.
CallGood(k, d) ==
    /\ k = "refresh" /\ d.at = "sent" => Good(d.presents)
    /\ d.at = "answered" => AnswerSound(k, d)

CookieSound == Issued(cookie) /\ (Fits(cookie) \/ Rotating)

OrphansSound ==
    \A o \in orphans : o.kind = "refresh" =>
        o.call.presents = None \/ o.call.presents[1] \in lost

\* The wire, call by call.
LEMMA WireParts ==
  WireSound <=> /\ \A t \in Tabs, k \in Kinds : CallGood(k, tab[t].call[k])
                /\ CookieSound /\ OrphansSound /\ NoFalseReuse
<1>1. "refresh" \in Kinds
  BY DEF Kinds, Locking
<1> QED
  BY <1>1 DEF WireSound, CallGood, CookieSound, OrphansSound

\* The same of the next state.
LEMMA WireNext ==
  ASSUME \A t \in Tabs, k \in Kinds : CallGood(k, tab[t].call[k])',
         CookieSound', OrphansSound', NoFalseReuse'
  PROVE  WireSound'
<1>1. "refresh" \in Kinds
  BY DEF Kinds, Locking
<1> QED
  BY <1>1 DEF WireSound, CallGood, CookieSound, OrphansSound

\* Tokens that could be presented still can.
GoodKept == \A x : (Issued(x) => Issued(x)') /\ (Good(x) => Good(x)')

\* A session that ends, or an answer that is lost, only helps.
LEMMA GoodEnds ==
  ASSUME rotation' = rotation, live' \subseteq live, lost \subseteq lost'
  PROVE  GoodKept
<1>1. ASSUME NEW x, Issued(x) PROVE Issued(x)'
  BY <1>1 DEF Issued
<1>2. ASSUME NEW x, Fits(x) PROVE Fits(x)'
  BY <1>2 DEF Fits
<1> QED
  BY <1>1, <1>2 DEF GoodKept, Good

\* A call that stays as it was on the wire stays good.
LEMMA CallStaysGood ==
  ASSUME GoodKept, NEW k, NEW x, NEW y, SameWire(x, y), CallGood(k, x)
  PROVE  CallGood(k, y)'
<1>1. k = "refresh" /\ y.at = "sent" => Good(y.presents)'
  BY DEF CallGood, SameWire, GoodKept
<1>2. ASSUME y.at = "answered" PROVE AnswerSound(k, y)'
  <2>1. AnswerSound(k, x) /\ y.answer = x.answer /\ y.sets = x.sets
    BY <1>2 DEF CallGood, SameWire
  <2>2. \A z : Good(z) => Good(z)'
    BY DEF GoodKept
  <2> QED
    BY <2>1, <2>2 DEF AnswerSound
<1> QED
  BY <1>1, <1>2 DEF CallGood

\* The calls after a step of a tab that becomes c.
LEMMA CallsStayGood ==
  ASSUME TabsSound, WireSound, GoodKept, NEW t \in Tabs, NEW c \in TabRecords, Becomes(t, c),
         \A k \in Kinds : c.call[k].at \in OnWire =>
            SameWire(tab[t].call[k], c.call[k]) \/ CallGood(k, c.call[k])'
  PROVE  \A s \in Tabs, k \in Kinds : CallGood(k, tab[s].call[k])'
<1>1. /\ tab' \in [Tabs -> TabRecords] /\ tab'[t] = c
      /\ \A s \in Tabs \ {t} : tab'[s] = tab[s]
  BY OtherTabs DEF TabsSound
<1>2. \A s \in Tabs, k \in Kinds : CallGood(k, tab[s].call[k])
  BY WireParts
<1>3. ASSUME NEW k \in Kinds, NEW d, d.at \notin OnWire
      PROVE  CallGood(k, d)'
  BY <1>3 DEF CallGood, OnWire
<1>4. ASSUME NEW k \in Kinds
      PROVE  CallGood(k, c.call[k])'
  BY <1>2, <1>3, CallStaysGood
<1>5. ASSUME NEW s \in Tabs \ {t}, NEW k \in Kinds, NEW d, d = tab[s].call[k]
      PROVE  CallGood(k, d)'
  <2>1. SameWire(d, d) /\ CallGood(k, d)
    BY <1>2, <1>5 DEF SameWire
  <2> QED
    BY <2>1, CallStaysGood
<1>6. ASSUME NEW s \in Tabs, NEW k \in Kinds, NEW d, d = tab'[s].call[k]
      PROVE  CallGood(k, d)'
  BY <1>1, <1>4, <1>5, <1>6
<1> QED
  BY <1>6

\* A cookie that the step leaves alone.
LEMMA CookieStays ==
  ASSUME TabsSound, CookieSound, GoodKept, cookie' = cookie,
         \A s \in Tabs : tab[s].call["refresh"].at = "answered" =>
            /\ tab'[s].call["refresh"].at = "answered"
            /\ tab'[s].call["refresh"].sets = tab[s].call["refresh"].sets
  PROVE  CookieSound'
<1>1. Issued(cookie)'
  BY DEF CookieSound, GoodKept
<1>2. Fits(cookie) => Fits(cookie)'
  BY DEF CookieSound, GoodKept, Good
<1>3. Rotating => Rotating'
  BY DEF Rotating
<1> QED
  BY <1>1, <1>2, <1>3 DEF CookieSound

\* A step of one tab that nobody else sees keeps everything.
LEMMA LocalStepSound ==
  ASSUME IInv, NEW t \in Tabs, NEW k \in Kinds, NEW c, LocalStep(tab[t], c, k), Becomes(t, c),
         QueueMoves(t, c, k), UNCHANGED <<server, browser, orphans>>
  PROVE  IInv'
<1>0. /\ TabSound(c) /\ c \in TabRecords /\ Keeps(tab[t], c, k) /\ SignKept(tab[t], c)
      /\ tab \in [Tabs -> TabRecords] /\ CookieSound
  BY WireParts DEF LocalStep, TabSound, IInv, TabsSound
<1>1. TabsSound' /\ LockSound' /\ SignOutFirst'
  BY <1>0, TabStep DEF IInv
<1>2. GoodKept
  BY GoodEnds DEF server, browser
<1>3. \A j \in Kinds : c.call[j].at \in OnWire => SameWire(tab[t].call[j], c.call[j])
  BY <1>0 DEF LocalStep, Keeps
<1>4. \A s \in Tabs, j \in Kinds : CallGood(j, tab[s].call[j])'
  BY <1>0, <1>2, <1>3, CallsStayGood DEF IInv
<1>5. /\ tab' \in [Tabs -> TabRecords] /\ tab'[t] = c
      /\ \A s \in Tabs \ {t} : tab'[s] = tab[s]
  BY <1>0, OtherTabs
<1>6. \A s \in Tabs : tab[s].call["refresh"].at = "answered" =>
        /\ tab'[s].call["refresh"].at = "answered"
        /\ tab'[s].call["refresh"].sets = tab[s].call["refresh"].sets
  <2>1. tab[t].call["refresh"].at = "answered" =>
            /\ c.call["refresh"].at = "answered"
            /\ c.call["refresh"].sets = tab[t].call["refresh"].sets
    BY <1>3 DEF LocalStep, OnWire, SameWire, Kinds, Locking
  <2> QED
    BY <1>5, <2>1
<1>7. CookieSound'
  BY <1>0, <1>2, <1>6, CookieStays DEF IInv, browser
<1>8. OrphansSound' /\ NoFalseReuse' /\ ServerTypes'
  BY WireParts DEF IInv, OrphansSound, NoFalseReuse, ServerTypes, server, browser
<1>9. WireSound'
  BY <1>4, <1>7, <1>8, WireNext
<1> QED
  BY <1>1, <1>8, <1>9 DEF IInv

\* A step that may start a refresh moves the line accordingly.
LEMMA RefreshJoins ==
  ASSUME NEW t, NEW c, TabSound(tab[t]), RefreshKept(tab[t], c), queue' = Joined(t, "refresh", c)
  PROVE  QueueMoves(t, c, "refresh")
<1>1. Refreshing(tab[t]) => tab[t].call["refresh"].at \in Held
  BY InLine
<1>2. ~Refreshing(tab[t]) => tab[t].call["refresh"].at = "idle"
  BY DEF Refreshing
<1> QED
  BY <1>1, <1>2 DEF RefreshKept, Joined, QueueMoves, Locking, Held, Refreshing

\* A call that asks for the lock joins the line.
LEMMA CallJoins ==
  ASSUME NEW t, NEW c, NEW k \in Locking, tab[t].call[k].at \notin Held, c.call[k].at = "lock",
         queue' = Joined(t, k, c)
  PROVE  QueueMoves(t, c, k)
  BY DEF Joined, QueueMoves, Held

\* A call that asks for nothing leaves the line alone.
LEMMA CallStays ==
  ASSUME NEW t, NEW c, NEW k \in Kinds, k \in Locking => c.call[k].at = tab[t].call[k].at,
         queue' = queue
  PROVE  QueueMoves(t, c, k)
  BY DEF QueueMoves

\* A call that is not in the line: nothing changes when it leaves.
LEMMA NotInLine ==
  ASSUME LockSound, NEW t \in Tabs, NEW k \in Locking, tab[t].call[k].at \notin Held
  PROVE  Leave(t, k) = queue
<1>1. <<t, k>> \in Lockers \ Queued
  BY Pairs DEF Queued, Held
<1>2. \A p \in Lockers : queue[p] \ {<<t, k>>} = queue[p]
  BY <1>1 DEF LockSound
<1>3. queue[<<t, k>>] = {} /\ queue = [p \in Lockers |-> queue[p]]
  BY <1>1 DEF LockSound
<1>4. \A p \in Lockers : (IF p \in {<<t, k>>} THEN {} ELSE queue[p] \ {<<t, k>>}) = queue[p]
  BY <1>2, <1>3
<1> QED
  BY <1>3, <1>4 DEF Leave, Without

\* A call moves outside the line.
LEMMA CallOutside ==
  ASSUME LockSound, NEW t \in Tabs, NEW c, NEW k \in Locking, tab[t].call[k].at \notin Held,
         c.call[k].at \notin Held, queue' = queue
  PROVE  QueueMoves(t, c, k)
  BY NotInLine DEF QueueMoves

----------------------------------------------------------------------------
(* The steps of the page and of the requests keep the invariant *)

\* What the invariant says of one tab.
LEMMA OfTab ==
  ASSUME IInv, NEW t \in Tabs
  PROVE  TabSound(tab[t]) /\ tab[t] \in TabRecords
  BY DEF IInv, TabsSound, TabSound

\* The kinds of calls.
LEMMA KindNames ==
  /\ "refresh" \in Kinds /\ {"login", "logout", "account", "other"} \subseteq Kinds \ {"refresh"}
  /\ {"refresh", "login", "logout"} \subseteq Locking /\ "account" \notin Locking
  /\ "other" \notin Locking /\ Locking \subseteq Kinds /\ Requests \subseteq Kinds \ {"refresh"}
  /\ \A k \in Requests : k \notin Locking
  BY DEF Kinds, Locking, Requests

\* restore keeps the invariant.
LEMMA RestoreIInv ==
  ASSUME IInv, NEW t \in Tabs, Restore(t)
  PROVE  IInv'
<1> DEFINE c == RefreshAccessToken(Mounts(tab[t]), FALSE, {"restore"})
           a == ClearAuthenticatedState(Mounts(tab[t]))
<1>1. /\ \/ Becomes(t, c) /\ queue' = Joined(t, "refresh", c)
         \/ Becomes(t, a) /\ UNCHANGED queue
      /\ UNCHANGED <<server, browser, orphans>>
  BY DEF Restore, Mounts
<1>2. /\ TabSound(c) /\ Keeps(tab[t], c, "refresh") /\ RefreshKept(tab[t], c) /\ SignKept(tab[t], c)
      /\ TabSound(a) /\ SignKept(tab[t], a) /\ \A k \in Kinds : SameCall(tab[t].call[k], a.call[k])
  BY OfTab, RestoreSound
<1> HIDE DEF c, a
<1>3. CASE Becomes(t, c) /\ queue' = Joined(t, "refresh", c)
  <2>1. LocalStep(tab[t], c, "refresh") /\ QueueMoves(t, c, "refresh")
    BY <1>2, <1>3, OfTab, RefreshLocal, RefreshJoins
  <2> QED
    BY <1>1, <1>3, <2>1, KindNames, LocalStepSound
<1>4. CASE Becomes(t, a) /\ UNCHANGED queue
  <2>1. LocalStep(tab[t], a, "refresh") /\ a.call["refresh"].at = tab[t].call["refresh"].at
    BY <1>2, FlagsLocal
  <2>2. QueueMoves(t, a, "refresh")
    BY <1>4, <2>1, KindNames, CallStays
  <2> QED
    BY <1>1, <1>4, <2>1, <2>2, KindNames, LocalStepSound
<1> QED
  BY <1>1, <1>3, <1>4

\* dispose keeps the invariant.
LEMMA DisposeIInv ==
  ASSUME IInv, NEW t \in Tabs, Dispose(t)
  PROVE  IInv'
<1> DEFINE c == [Disown(tab[t]) EXCEPT !.active = FALSE]
<1>1. Becomes(t, c) /\ queue' = queue /\ UNCHANGED <<server, browser, orphans>>
  BY DEF Dispose
<1>2. TabSound(c) /\ SignKept(tab[t], c) /\ \A k \in Kinds : SameCall(tab[t].call[k], c.call[k])
  BY OfTab, DisposeSound
<1> HIDE DEF c
<1>3. LocalStep(tab[t], c, "refresh") /\ c.call["refresh"].at = tab[t].call["refresh"].at
  BY <1>2, FlagsLocal
<1>4. QueueMoves(t, c, "refresh")
  BY <1>1, <1>3, KindNames, CallStays
<1> QED
  BY <1>1, <1>3, <1>4, KindNames, LocalStepSound

\* The start of login and register keeps the invariant.
LEMMA AuthenticateIInv ==
  ASSUME IInv, NEW t \in Tabs, Authenticate(t)
  PROVE  IInv'
<1> DEFINE m == [Disown(tab[t]) EXCEPT !.submitting = TRUE]
           d == [Idle EXCEPT !.at = "lock", !.current = "login" # "logout",
                             !.mine = "login" # "refresh", !.again = FALSE]
           e == [Idle EXCEPT !.at = "register", !.mine = TRUE]
           c == [m EXCEPT !.call["login"] = d]
           f == [m EXCEPT !.call["login"] = e]
<1>1. /\ tab[t].active /\ tab[t].phase = "anonymous" /\ ~tab[t].signingOut
      /\ tab[t].call["login"].at = "idle" /\ tab[t].call["account"].at = "idle"
      /\ \/ Becomes(t, c) /\ queue' = Joined(t, "login", c)
         \/ Becomes(t, f) /\ UNCHANGED queue
      /\ UNCHANGED <<server, browser, orphans>>
  BY DEF Authenticate, Asks
<1>2. /\ d \in Calls /\ d.mine /\ d.sets = {} /\ d.at = "lock"
      /\ e \in Calls /\ e.mine /\ e.sets = {} /\ e.at = "register"
  BY IdleCall DEF Calls, Idle
<1> HIDE DEF d, e
<1>3. LocalStep(tab[t], c, "login") /\ c.call["login"] = d
  BY <1>1, <1>2, OfTab, AuthenticateSound
<1>4. LocalStep(tab[t], f, "login") /\ f.call["login"] = e
  BY <1>1, <1>2, OfTab, AuthenticateSound
<1> HIDE DEF c, f
<1>5. CASE Becomes(t, c) /\ queue' = Joined(t, "login", c)
  <2>1. QueueMoves(t, c, "login")
    BY <1>1, <1>2, <1>3, <1>5, KindNames, CallJoins DEF Held
  <2> QED
    BY <1>1, <1>3, <1>5, <2>1, KindNames, LocalStepSound
<1>6. CASE Becomes(t, f) /\ UNCHANGED queue
  <2>1. QueueMoves(t, f, "login")
    BY <1>1, <1>2, <1>4, <1>6, CallOutside, KindNames DEF IInv, Held
  <2> QED
    BY <1>1, <1>4, <1>6, <2>1, KindNames, LocalStepSound
<1> QED
  BY <1>1, <1>5, <1>6

\* The answer of the registration, or the new identity: the login goes on.
LEMMA LoginGoesOn ==
  ASSUME IInv, NEW t \in Tabs, NEW again \in BOOLEAN,
         tab[t].call["login"].at \in {"register", "replace"},
         UNCHANGED <<server, browser, orphans>>,
         LET b == tab[t]
             c == IF b.call["login"].mine THEN Asks(b, "login", again)
                  ELSE [b EXCEPT !.call["login"] = Idle]
         IN \/ Becomes(t, c) /\ queue' = Joined(t, "login", c)
            \/ Becomes(t, OperationEnds(b, "login")) /\ UNCHANGED queue
  PROVE  IInv'
<1> DEFINE b == tab[t]
           c == Asks(b, "login", again)
           e == OperationEnds(b, "login")
<1>0. TabSound(b) /\ b.call["login"].at \notin Held /\ b.call["login"].at # "await"
  BY OfTab DEF Held
<1>1. LocalStep(b, e, "login") /\ e.call["login"].at = "idle"
  BY <1>0, KindNames, OperationEndsLocal
<1>2. b.call["login"].mine => LocalStep(b, c, "login") /\ c.call["login"].at = "lock"
  BY <1>0, LoginAgain DEF Owns
<1>3. ~b.call["login"].mine => e = [b EXCEPT !.call["login"] = Idle]
  BY DEF OperationEnds
<1>4. \/ b.call["login"].mine /\ Becomes(t, c) /\ queue' = Joined(t, "login", c)
      \/ Becomes(t, e) /\ (queue' = queue \/ queue' = Joined(t, "login", e))
  BY <1>3
<1> HIDE DEF c, e
<1>5. CASE b.call["login"].mine /\ Becomes(t, c) /\ queue' = Joined(t, "login", c)
  <2>1. QueueMoves(t, c, "login")
    BY <1>0, <1>2, <1>5, KindNames, CallJoins
  <2> QED
    BY <1>2, <1>5, <2>1, KindNames, LocalStepSound
<1>6. CASE Becomes(t, e) /\ (queue' = queue \/ queue' = Joined(t, "login", e))
  <2>1. queue' = queue
    BY <1>1, <1>6 DEF Joined
  <2>2. QueueMoves(t, e, "login")
    BY <1>0, <1>1, <2>1, KindNames, CallOutside DEF Held, IInv
  <2> QED
    BY <1>1, <1>6, <2>2, KindNames, LocalStepSound
<1> QED
  BY <1>4, <1>5, <1>6

\* The end of the registration keeps the invariant.
LEMMA RegisteredIInv ==
  ASSUME IInv, NEW t \in Tabs, Registered(t)
  PROVE  IInv'
  BY LoginGoesOn DEF Registered

\* The replaced device keeps the invariant.
LEMMA ReplaceDeviceIInv ==
  ASSUME IInv, NEW t \in Tabs, ReplaceDevice(t)
  PROVE  IInv'
  BY LoginGoesOn DEF ReplaceDevice

\* The sign-out of another device's session keeps the invariant.
LEMMA MismatchIInv ==
  ASSUME IInv, NEW t \in Tabs, Mismatch(t)
  PROVE  IInv'
<1> DEFINE m == [tab[t] EXCEPT !.call["account"] = Idle]
           c == Logout(m)
<1>1. /\ tab[t].call["account"].at = "done" /\ Owns(tab[t], "account")
      /\ m.call["logout"].at = "idle"
      /\ Becomes(t, c) /\ queue' = Joined(t, "logout", c) /\ UNCHANGED <<server, browser, orphans>>
  BY DEF Mismatch, Owns
<1>2. tab[t].call["logout"].at = "idle"
  BY <1>1, OfTab, TabFields DEF TabRecords, Kinds, Locking, Requests
<1>3. LocalStep(tab[t], c, "logout") /\ c.call["logout"].at = "lock"
  BY <1>1, OfTab, MismatchSound
<1> HIDE DEF c
<1>4. QueueMoves(t, c, "logout")
  BY <1>1, <1>2, <1>3, KindNames, CallJoins DEF Held
<1> QED
  BY <1>1, <1>3, <1>4, KindNames, LocalStepSound

\* The end of a request outside the line keeps the invariant.
LEMMA RequestStepIInv ==
  ASSUME IInv, NEW t \in Tabs, NEW k \in Requests, NEW c, LocalStep(tab[t], c, k), Becomes(t, c),
         UNCHANGED <<server, browser, orphans, queue>>
  PROVE  IInv'
<1>1. QueueMoves(t, c, k)
  BY KindNames, CallStays
<1> QED
  BY <1>1, KindNames, LocalStepSound

\* The loaded account keeps the invariant.
LEMMA AccountLoadedIInv ==
  ASSUME IInv, NEW t \in Tabs, AccountLoaded(t)
  PROVE  IInv'
<1> DEFINE c == [SignedIn(tab[t]) EXCEPT !.call["account"] = Idle]
           e == OperationEnds(tab[t], "account")
<1>1. /\ tab[t].call["account"].at = "done" /\ (Becomes(t, c) \/ Becomes(t, e))
      /\ UNCHANGED <<server, browser, orphans, queue>>
  BY DEF AccountLoaded
<1>2. LocalStep(tab[t], c, "account")
  BY <1>1, OfTab, SignedInSound
<1>3. LocalStep(tab[t], e, "account")
  BY <1>1, OfTab, KindNames, OperationEndsLocal
<1> HIDE DEF c, e
<1> QED
  BY <1>1, <1>2, <1>3, RequestStepIInv DEF Requests

\* signOut keeps the invariant.
LEMMA SignOutIInv ==
  ASSUME IInv, NEW t \in Tabs, SignOut(t)
  PROVE  IInv'
<1> DEFINE m == Leaves(tab[t])
           c == Logout(m)
           d == [c EXCEPT !.call["other"] = Idle]
<1>1. /\ tab[t].active /\ tab[t].call["logout"].at = "idle"
      /\ \/ Becomes(t, c) /\ queue' = Joined(t, "logout", c)
         \/ /\ m.call["other"].at = "done"
            /\ Becomes(t, d) /\ queue' = Joined(t, "logout", d)
      /\ UNCHANGED <<server, browser, orphans>>
  BY DEF SignOut, Leaves
<1>2. m.call["other"].at = "done" => tab[t].call["other"].at = "done"
  <2>1. m.call = Disown(tab[t]).call
    BY OfTab, DisownFields DEF Leaves, TabRecords
  <2>2. SameCall(tab[t].call["other"], Disown(tab[t]).call["other"])
    BY OfTab, DisownFields, KindNames
  <2> QED
    BY <2>1, <2>2 DEF SameCall
<1>3. /\ LocalStep(tab[t], c, "logout") /\ c.call["logout"].at = "lock"
      /\ tab[t].call["other"].at = "done" =>
            LocalStep(tab[t], d, "logout") /\ d.call["logout"].at = "lock"
  BY <1>1, OfTab, SignOutSound
<1> HIDE DEF c, d
<1>4. PICK e \in {c, d} : /\ LocalStep(tab[t], e, "logout") /\ e.call["logout"].at = "lock"
                          /\ Becomes(t, e) /\ queue' = Joined(t, "logout", e)
  BY <1>1, <1>2, <1>3
<1>5. QueueMoves(t, e, "logout")
  BY <1>1, <1>4, KindNames, CallJoins DEF Held
<1> QED
  BY <1>1, <1>4, <1>5, KindNames, LocalStepSound

\* A revocation that comes late keeps the invariant.
LEMMA RevokedLateIInv ==
  ASSUME IInv, NEW t \in Tabs, RevokedLate(t)
  PROVE  IInv'
<1> DEFINE e == OperationEnds(tab[t], "other")
<1>1. /\ tab[t].call["other"].at = "done" /\ Becomes(t, e)
      /\ UNCHANGED <<server, browser, orphans, queue>>
  BY DEF RevokedLate, OperationEnds
<1>2. LocalStep(tab[t], e, "other")
  BY <1>1, OfTab, KindNames, OperationEndsLocal
<1> HIDE DEF e
<1> QED
  BY <1>1, <1>2, RequestStepIInv DEF Requests

\* A new request keeps the invariant.
LEMMA StartRequestIInv ==
  ASSUME IInv, NEW t \in Tabs, StartRequest(t)
  PROVE  IInv'
<1>1. PICK e \in Errands :
        /\ tab[t].active /\ tab[t].phase = "authenticated" /\ ~tab[t].signingOut
        /\ tab[t].call["other"].at = "idle"
        /\ Becomes(t, [tab[t] EXCEPT !.busy = @ \/ e = "revoke",
               !.call["other"] = [Idle EXCEPT !.at = "ready", !.mine = TRUE, !.errand = e]])
        /\ UNCHANGED <<server, browser, orphans, queue>>
  BY DEF StartRequest
<1> DEFINE c == [tab[t] EXCEPT !.busy = @ \/ e = "revoke", !.call["other"] =
                    [Idle EXCEPT !.at = "ready", !.mine = TRUE, !.errand = e]]
<1>2. LocalStep(tab[t], c, "other")
  BY <1>1, OfTab, StartRequestSound
<1>3. Becomes(t, c)
  BY <1>1
<1> HIDE DEF c
<1> QED
  BY <1>1, <1>2, <1>3, RequestStepIInv DEF Requests

\* The timer keeps the invariant.
LEMMA TimerFiresIInv ==
  ASSUME IInv, NEW t \in Tabs, TimerFires(t)
  PROVE  IInv'
<1> DEFINE who == IF tab[t].timer = "armed" THEN {"timer"} ELSE {}
           c == RefreshAccessToken([tab[t] EXCEPT !.timer = "off"], TRUE, who)
<1>1. /\ Becomes(t, c) /\ queue' = Joined(t, "refresh", c)
      /\ UNCHANGED <<server, browser, orphans>>
  BY DEF TimerFires
<1>2. who \in SUBSET {"timer"}
  OBVIOUS
<1> HIDE DEF who
<1>3. LocalStep(tab[t], c, "refresh") /\ RefreshKept(tab[t], c)
  BY <1>2, OfTab, TimerSound
<1> HIDE DEF c
<1>4. QueueMoves(t, c, "refresh")
  BY <1>1, <1>3, OfTab, RefreshJoins
<1> QED
  BY <1>1, <1>3, <1>4, KindNames, LocalStepSound

\* getAccessToken keeps the invariant.
LEMMA GetAccessTokenIInv ==
  ASSUME IInv, NEW t \in Tabs, GetAccessToken(t)
  PROVE  IInv'
<1> DEFINE c == RefreshAccessToken(tab[t], TRUE, {})
<1>1. /\ Becomes(t, c) /\ queue' = Joined(t, "refresh", c)
      /\ UNCHANGED <<server, browser, orphans>>
  BY DEF GetAccessToken
<1>2. LocalStep(tab[t], c, "refresh") /\ RefreshKept(tab[t], c)
  BY OfTab, RefreshAlone
<1> HIDE DEF c
<1>3. QueueMoves(t, c, "refresh")
  BY <1>1, <1>2, OfTab, RefreshJoins
<1> QED
  BY <1>1, <1>2, <1>3, KindNames, LocalStepSound

\* A request that fails keeps the invariant.
LEMMA RequestFailsIInv ==
  ASSUME IInv, NEW t \in Tabs, NEW k \in Kinds, RequestFails(t, k)
  PROVE  IInv'
<1> DEFINE e == OperationEnds(tab[t], k)
<1>1. /\ k \in Requests /\ tab[t].call[k].at = "failed" /\ Becomes(t, e)
      /\ UNCHANGED <<server, browser, orphans, queue>>
  BY DEF RequestFails
<1>2. LocalStep(tab[t], e, k)
  BY <1>1, OfTab, KindNames, OperationEndsLocal
<1> HIDE DEF e
<1> QED
  BY <1>1, <1>2, RequestStepIInv

----------------------------------------------------------------------------
(* Calls that go on the wire *)

\* A step that puts call k on the wire, or takes it off.
LEMMA WireStep ==
  ASSUME IInv, NEW t \in Tabs, NEW j \in Kinds, NEW k \in Kinds, NEW c, TabSound(c),
         Keeps(tab[t], c, j), SignKept(tab[t], c), Becomes(t, c), QueueMoves(t, c, j), GoodKept,
         \A i \in Kinds \ {k} : c.call[i].at \in OnWire => SameWire(tab[t].call[i], c.call[i]),
         CallGood(k, c.call[k])', CookieSound', OrphansSound', NoFalseReuse', ServerTypes'
  PROVE  IInv'
<1>0. c \in TabRecords
  BY DEF TabSound
<1>1. TabsSound' /\ LockSound' /\ SignOutFirst'
  BY TabStep DEF IInv
<1>2. \A i \in Kinds : c.call[i].at \in OnWire =>
        SameWire(tab[t].call[i], c.call[i]) \/ CallGood(i, c.call[i])'
  OBVIOUS
<1>3. \A s \in Tabs, i \in Kinds : CallGood(i, tab[s].call[i])'
  BY <1>0, <1>2, CallsStayGood DEF IInv
<1>4. WireSound'
  BY <1>3, WireNext
<1> QED
  BY <1>1, <1>4 DEF IInv

\* A step that leaves the answered refreshes leaves the cookie sound.
LEMMA CookieBeside ==
  ASSUME IInv, NEW t \in Tabs, NEW j \in Kinds, NEW c \in TabRecords, Becomes(t, c),
         tab[t].call["refresh"].at = "answered" =>
            SameWire(tab[t].call["refresh"], c.call["refresh"]),
         GoodKept, cookie' = cookie
  PROVE  CookieSound'
<1>1. /\ tab' \in [Tabs -> TabRecords] /\ tab'[t] = c
      /\ \A s \in Tabs \ {t} : tab'[s] = tab[s]
  BY OtherTabs DEF IInv, TabsSound
<1>2. \A s \in Tabs : tab[s].call["refresh"].at = "answered" =>
        /\ tab'[s].call["refresh"].at = "answered"
        /\ tab'[s].call["refresh"].sets = tab[s].call["refresh"].sets
  BY <1>1 DEF SameWire
<1>3. CookieSound /\ TabsSound
  BY WireParts DEF IInv
<1> QED
  BY <1>2, <1>3, CookieStays

\* A call is sent.
LEMMA SentIInv ==
  ASSUME IInv, NEW t \in Tabs, NEW k \in Kinds, tab[t].call[k].at \in {"lock", "ready"},
         NEW x \in (Sessions \X (0..MaxRotations)) \cup {None}, k = "refresh" => Good(x),
         k \in Locking => tab[t].call[k].at = "lock" /\ queue[<<t, k>>] = {},
         Becomes(t, Sends(tab[t], k, x)),
         UNCHANGED <<server, browser, orphans, queue>>
  PROVE  IInv'
<1>0. TabSound(tab[t])
  BY OfTab
<1>1. PICK c : /\ TabSound(c) /\ Keeps(tab[t], c, k) /\ SignKept(tab[t], c)
               /\ c.call[k].at = "sent" /\ c.call[k].presents = x /\ Becomes(t, c)
  BY <1>0, SentSound
<1>3. QueueMoves(t, c, k)
  BY <1>1 DEF QueueMoves, Held, OnWire
<1>4. GoodKept
  BY GoodEnds DEF server, browser
<1>5. CallGood(k, c.call[k])'
  BY <1>1, <1>4 DEF CallGood, GoodKept
<1>6. tab[t].call["refresh"].at = "answered" => SameWire(tab[t].call["refresh"], c.call["refresh"])
  BY <1>1, KindNames DEF Keeps, OnWire, SameWire
<1>7. CookieSound'
  BY <1>1, <1>4, <1>6, CookieBeside DEF TabSound, browser
<1>8. OrphansSound' /\ NoFalseReuse' /\ ServerTypes'
  BY WireParts DEF IInv, OrphansSound, NoFalseReuse, ServerTypes, server, browser
<1>9. \A i \in Kinds \ {k} : c.call[i].at \in OnWire => SameWire(tab[t].call[i], c.call[i])
  BY <1>1 DEF Keeps
<1> QED
  BY <1>1, <1>3, <1>4, <1>5, <1>7, <1>8, <1>9, WireStep

\* A request that goes out, or waits for a refresh, keeps the invariant.
LEMMA SendRequestIInv ==
  ASSUME IInv, NEW t \in Tabs, NEW k \in Kinds, SendRequest(t, k)
  PROVE  IInv'
<1> DEFINE b == tab[t]
           d == [b.call[k] EXCEPT !.at = "await", !.renewed = TRUE]
           c == RefreshAccessToken([b EXCEPT !.call[k] = d], TRUE, {k})
<1>0. /\ k \in Requests /\ b.call[k].at = "ready" /\ UNCHANGED <<server, browser, orphans>>
      /\ TabSound(b) /\ b \in TabRecords /\ b.call[k] \in Calls /\ b.token \in Sessions \cup {None}
  BY OfTab, TabFields DEF SendRequest
<1>1. CASE b.token = None /\ ~b.call[k].renewed
  <2>1. Becomes(t, c) /\ queue' = Joined(t, "refresh", c)
    BY <1>1 DEF SendRequest
  <2>2. /\ d \in Calls /\ d.at = "await" /\ d.sets = {} /\ d.mine = b.call[k].mine
        /\ d.current = b.call[k].current /\ d.errand = b.call[k].errand
    <3>1. b.call[k].sets = {}
      BY <1>0 DEF TabSound, CallsSound
    <3> QED
      BY <1>0, <3>1 DEF Calls
  <2> HIDE DEF d
  <2>3. TabSound(c) /\ Keeps(b, c, "refresh") /\ RefreshKept(b, c) /\ SignKept(b, c)
    BY <1>0, <2>2, RequestAwaits
  <2> HIDE DEF c
  <2>4. LocalStep(b, c, "refresh") /\ QueueMoves(t, c, "refresh")
    BY <1>0, <2>1, <2>3, RefreshLocal, RefreshJoins
  <2> QED
    BY <1>0, <2>1, <2>4, KindNames, LocalStepSound
<1>2. CASE ~(b.token = None /\ ~b.call[k].renewed)
  <2>1. PICK x \in (IF b.token = None THEN {None} ELSE {<<b.token, 0>>, None}) :
            Becomes(t, Sends(b, k, x)) /\ queue' = Joined(t, "refresh", Sends(b, k, x))
    <3> DEFINE valid == IF b.token = None THEN {None}
                        ELSE {<<b.token, 0>>} \cup (IF b.call[k].again THEN {} ELSE {None})
    <3>1. PICK x \in valid : Becomes(t, Sends(b, k, x)) /\ queue' = Joined(t, "refresh", Sends(b, k, x))
      BY <1>2 DEF SendRequest, Sends
    <3>2. x \in (IF b.token = None THEN {None} ELSE {<<b.token, 0>>, None})
      BY <3>1
    <3> QED
      BY <3>1, <3>2
  <2> DEFINE e == Sends(b, k, x)
  <2>2. x \in (Sessions \X (0..MaxRotations)) \cup {None}
    BY <1>0, <1>2, SessionAssumption
  <2>3. Becomes(t, e) /\ queue' = Joined(t, "refresh", e) /\ Keeps(b, e, k)
    BY <1>0, <2>1, <2>2, SentSound
  <2> HIDE DEF e
  <2>4. e.call["refresh"].at = b.call["refresh"].at
    BY <1>0, <2>3, KindNames DEF Keeps
  <2>5. queue' = queue
    BY <2>3, <2>4 DEF Joined
  <2> QED
    BY <1>0, <2>2, <2>3, <2>5, KindNames, SentIInv DEF e
<1> QED
  BY <1>1, <1>2

\* While the lock is granted to a call no answer of another refresh is on its way.
LEMMA NoneRotates ==
  ASSUME IInv, NEW t \in Tabs, NEW k \in Locking, tab[t].call[k].at \in Held,
         queue[<<t, k>>] = {}, ~(k = "refresh" /\ tab[t].call[k].at = "answered")
  PROVE  ~Rotating
<1>1. SUFFICES ASSUME NEW s \in Tabs, tab[s].call["refresh"].at = "answered"
               PROVE  FALSE
  BY DEF Rotating
<1>2. s = t /\ k = "refresh"
  BY <1>1, KindNames, OneHolds DEF IInv, OnWire
<1> QED
  BY <1>1, <1>2

\* The lock that is granted keeps the invariant.
LEMMA GrantedIInv ==
  ASSUME IInv, NEW t \in Tabs, NEW k \in Kinds, Granted(t, k)
  PROVE  IInv'
<1>0. /\ k \in Locking /\ tab[t].call[k].at = "lock" /\ queue[<<t, k>>] = {}
      /\ UNCHANGED <<server, browser, orphans>>
  BY DEF Granted
<1>1. CASE /\ k = "login" /\ Becomes(t, OperationEnds(tab[t], k)) /\ queue' = Leave(t, k)
  <2> DEFINE c == OperationEnds(tab[t], k)
  <2>1. LocalStep(tab[t], c, k) /\ c.call[k].at = "idle" /\ Becomes(t, c)
    BY <1>0, <1>1, OfTab, KindNames, OperationEndsLocal
  <2> HIDE DEF c
  <2>2. QueueMoves(t, c, k)
    BY <1>0, <1>1, <2>1 DEF QueueMoves, Held
  <2> QED
    BY <1>0, <2>1, <2>2, LocalStepSound
<1>2. CASE /\ UNCHANGED queue
           /\ Becomes(t, Sends(tab[t], k, Attached(k)))
  <2>1. ~Rotating
    BY <1>0, NoneRotates DEF Held
  <2>2. Good(cookie) /\ cookie \in RefreshTokens \cup {None}
    BY <2>1, WireParts DEF IInv, CookieSound, Good, ServerTypes
  <2>3. RefreshTokens \subseteq Sessions \X (0..MaxRotations)
    <3>1. 1..MaxRotations \subseteq 0..MaxRotations
      BY SessionAssumption
    <3> QED
      BY <3>1 DEF RefreshTokens
  <2>4. Attached(k) \in (Sessions \X (0..MaxRotations)) \cup {None}
    BY <2>2, <2>3 DEF Attached
  <2>5. k = "refresh" => Good(Attached(k))
    BY <2>2 DEF Attached
  <2> QED
    BY <1>0, <1>2, <2>4, <2>5, SentIInv
<1> QED
  BY <1>0, <1>1, <1>2 DEF Granted, Sends

----------------------------------------------------------------------------
(* The server *)

\* The tokens that a request presents or an answer brings.
LEMMA TokenTypes ==
  /\ \A x \in RefreshTokens : x[1] \in Sessions /\ x[2] \in 1..MaxRotations /\ x # None
  /\ \A x \in Sessions \X (0..MaxRotations) :
        x[1] \in Sessions /\ x[2] \in 0..MaxRotations /\ x # None
  /\ \A s \in Sessions, r \in 1..MaxRotations :
        <<s, r>> \in RefreshTokens /\ <<s, r>>[1] = s /\ <<s, r>>[2] = r /\ <<s, r>> # None
<1>1. 1..MaxRotations \subseteq 0..MaxRotations
  BY SessionAssumption
<1>2. RefreshTokens \subseteq Sessions \X (0..MaxRotations)
  BY <1>1 DEF RefreshTokens
<1>3. None \notin Sessions \X (0..MaxRotations)
  BY SessionAssumption DEF Sessions
<1> QED
  BY <1>2, <1>3 DEF RefreshTokens

\* What a handled call leaves: the answer to call d of kind k is sound.
Served(k, answer, sets) ==
    /\ ServerTypes' /\ NoFalseReuse'
    /\ \A d : d.answer = answer /\ d.sets = sets => AnswerSound(k, d)'

\* A refresh is refused: nothing that could be presented is spoilt.
LEMMA RefusedServed ==
  ASSUME ServerTypes, NoFalseReuse, UNCHANGED <<browser, rotation>>, orphans' \subseteq orphans,
         live' \subseteq live, reused' \subseteq lost, NEW answer, NEW sets,
         answer = "denied" /\ sets = {None}
  PROVE  GoodKept /\ Served("refresh", answer, sets)
<1>1. GoodKept
  BY GoodEnds DEF browser
<1>2. ServerTypes' /\ NoFalseReuse'
  BY DEF ServerTypes, NoFalseReuse, browser
<1>3. ASSUME NEW d, d.answer = answer, d.sets = sets
      PROVE  AnswerSound("refresh", d)'
  BY <1>3 DEF AnswerSound
<1> QED
  BY <1>1, <1>2, <1>3 DEF Served

\* The rotation of token x.
Rotates(x, answer, sets) ==
    /\ OfLiveSession(x) /\ x[2] = rotation[x[1]] /\ x[2] < MaxRotations
    /\ rotation' = [rotation EXCEPT ![x[1]] = @ + 1]
    /\ answer = "ok" /\ sets = {<<x[1], x[2] + 1>>}
    /\ UNCHANGED <<live, reused>>

\* A rotated token: only the tokens of its session that were presented before are
\* spoilt, and none if one of its answers was lost.
LEMMA RotatedServed ==
  ASSUME ServerTypes, NoFalseReuse, UNCHANGED browser, orphans' \subseteq orphans,
         NEW x \in (Sessions \X (0..MaxRotations)) \cup {None}, NEW answer, NEW sets,
         Rotates(x, answer, sets)
  PROVE  /\ Served("refresh", answer, sets)
         /\ <<x[1], x[2] + 1>> \in RefreshTokens
         /\ \A z : Issued(z) => Issued(z)'
         /\ \A z : Fits(z) /\ Issued(z) /\ (z = None \/ z[1] # x[1] \/ x[1] \in lost) => Fits(z)'
<1> DEFINE y == <<x[1], x[2] + 1>>
<1>0. x \in Sessions \X (0..MaxRotations) /\ x[1] \in live
  BY DEF Rotates, OfLiveSession
<1>1. /\ x[1] \in Sessions /\ x[2] \in 0..MaxRotations /\ x[2] < MaxRotations
      /\ x[2] = rotation[x[1]] /\ MaxRotations \in Nat
  BY <1>0, SessionAssumption DEF Rotates
<1>2. x[2] + 1 \in 1..MaxRotations /\ x[2] + 1 \in 0..MaxRotations
  BY <1>1
<1>3. y \in RefreshTokens /\ y[1] = x[1] /\ y[2] = x[2] + 1
  BY <1>1, <1>2, TokenTypes
<1>4. /\ rotation \in [Sessions -> 0..MaxRotations] /\ rotation' \in [Sessions -> 0..MaxRotations]
      /\ rotation'[x[1]] = x[2] + 1
      /\ \A s \in Sessions \ {x[1]} : rotation'[s] = rotation[s]
  BY <1>1, <1>2 DEF ServerTypes, Rotates
<1>5. ServerTypes' /\ NoFalseReuse'
  BY <1>4 DEF ServerTypes, NoFalseReuse, Rotates, browser
<1>6. Good(y)'
  BY <1>1, <1>2, <1>3, <1>4 DEF Good, Issued, Fits
<1>7. ASSUME NEW d, d.answer = answer, d.sets = sets
      PROVE  AnswerSound("refresh", d)'
  BY <1>3, <1>6, <1>7 DEF AnswerSound, Rotates
<1>8. ASSUME NEW z, Issued(z) PROVE Issued(z)'
  <2>1. CASE z = None
    BY <2>1 DEF Issued
  <2>2. CASE z \in RefreshTokens /\ z[2] <= rotation[z[1]]
    <3>1. z[1] \in Sessions /\ z[2] \in 1..MaxRotations
      BY <2>2, TokenTypes
    <3>2. z[2] <= rotation'[z[1]]
      BY <1>1, <1>4, <2>2, <3>1
    <3> QED
      BY <2>2, <3>2 DEF Issued
  <2> QED
    BY <1>8, <2>1, <2>2 DEF Issued
<1>9. ASSUME NEW z, Fits(z), Issued(z), z = None \/ z[1] # x[1] \/ x[1] \in lost
      PROVE  Fits(z)'
  <2>1. z # None => z[1] \in Sessions
    BY <1>9, TokenTypes DEF Issued
  <2> QED
    BY <1>4, <1>9, <2>1 DEF Fits, Rotates, browser
<1> QED
  BY <1>3, <1>5, <1>7, <1>8, <1>9 DEF Served

\* A refresh is handled: it is refused, or rotates its token.
LEMMA RefreshServed ==
  ASSUME ServerTypes, NoFalseReuse, UNCHANGED browser, orphans' \subseteq orphans,
         NEW x \in (Sessions \X (0..MaxRotations)) \cup {None}, Fits(x),
         NEW answer, NEW sets, ServeRefresh(x, answer, sets)
  PROVE  \/ GoodKept /\ Served("refresh", answer, sets)
         \/ Rotates(x, answer, sets)
<1>1. CASE answer = "denied" /\ sets = {None} /\ UNCHANGED server
  <2>1. UNCHANGED rotation /\ live' \subseteq live /\ reused' \subseteq lost
    BY <1>1 DEF server, NoFalseReuse
  <2> QED
    BY <1>1, <2>1, RefusedServed
<1>2. CASE Rotates(x, answer, sets)
  BY <1>2
<1>3. CASE /\ OfLiveSession(x) /\ x[2] # rotation[x[1]]
           /\ live' = live \ {x[1]} /\ reused' = reused \cup {x[1]}
           /\ answer = "denied" /\ sets = {None} /\ UNCHANGED rotation
  <2>1. x[1] \in lost
    BY <1>3 DEF OfLiveSession, Fits
  <2>2. live' \subseteq live /\ reused' \subseteq lost
    BY <1>3, <2>1 DEF NoFalseReuse
  <2> QED
    BY <1>3, <2>2, RefusedServed
<1> QED
  BY <1>1, <1>2, <1>3 DEF ServeRefresh, Rotates

\* A login is handled: a new session spoils no token.
LEMMA LoginServed ==
  ASSUME ServerTypes, NoFalseReuse, UNCHANGED browser, orphans' \subseteq orphans,
         NEW answer, NEW sets, ServeLogin(answer, sets)
  PROVE  GoodKept /\ Served("login", answer, sets)
<1>1. CASE answer \in {"denied", "revoked"} /\ sets = {} /\ UNCHANGED server
  <2>1. GoodKept
    BY <1>1, GoodEnds DEF browser, server
  <2>2. ServerTypes' /\ NoFalseReuse'
    BY <1>1 DEF ServerTypes, NoFalseReuse, browser, server
  <2>3. ASSUME NEW d, d.answer = answer, d.sets = sets
        PROVE  AnswerSound("login", d)'
    BY <1>1, <2>3 DEF AnswerSound
  <2> QED
    BY <2>1, <2>2, <2>3 DEF Served
<1>2. ASSUME NEW s \in Sessions, rotation[s] = 0, live' = live \cup {s},
             rotation' = [rotation EXCEPT ![s] = 1], answer = "ok", sets = {<<s, 1>>},
             UNCHANGED reused
      PROVE  GoodKept /\ Served("login", answer, sets)
  <2>1. 1 \in 1..MaxRotations /\ 1 \in 0..MaxRotations
    BY SessionAssumption
  <2>2. /\ rotation \in [Sessions -> 0..MaxRotations] /\ rotation' \in [Sessions -> 0..MaxRotations]
        /\ rotation'[s] = 1 /\ \A r \in Sessions \ {s} : rotation'[r] = rotation[r]
    BY <1>2, <2>1 DEF ServerTypes
  <2>3. ServerTypes' /\ NoFalseReuse'
    BY <1>2, <2>2 DEF ServerTypes, NoFalseReuse, browser
  <2>4. /\ <<s, 1>> \in RefreshTokens /\ <<s, 1>>[1] = s /\ <<s, 1>>[2] = 1
    BY <2>1, TokenTypes
  <2>5. Good(<<s, 1>>)'
    BY <2>2, <2>4 DEF Good, Issued, Fits
  <2>6. ASSUME NEW d, d.answer = answer, d.sets = sets
        PROVE  AnswerSound("login", d)'
    BY <1>2, <2>4, <2>5, <2>6 DEF AnswerSound
  <2>7. ASSUME NEW z, Issued(z) PROVE Issued(z)' /\ (Fits(z) => Fits(z)')
    <3>1. CASE z = None
      BY <3>1 DEF Issued, Fits
    <3>2. CASE z \in RefreshTokens /\ z[2] <= rotation[z[1]]
      <4>1. z[1] \in Sessions /\ z[2] \in 1..MaxRotations
        BY <3>2, TokenTypes
      <4>2. z[1] # s
        BY <1>2, <3>2, <4>1
      <4>3. rotation'[z[1]] = rotation[z[1]]
        BY <2>2, <4>1, <4>2
      <4> QED
        BY <1>2, <3>2, <4>2, <4>3 DEF Issued, Fits, browser
    <3> QED
      BY <2>7, <3>1, <3>2 DEF Issued
  <2> QED
    BY <2>3, <2>6, <2>7 DEF Served, GoodKept, Good
<1> QED
  BY <1>1, <1>2 DEF ServeLogin

\* A logout is handled.
LEMMA LogoutServed ==
  ASSUME ServerTypes, NoFalseReuse, UNCHANGED browser, orphans' \subseteq orphans,
         NEW x, NEW answer, NEW sets, ServeLogout(x, answer, sets)
  PROVE  GoodKept /\ Served("logout", answer, sets)
<1>1. /\ live' \subseteq live /\ UNCHANGED <<rotation, reused>>
      /\ answer = "ok" /\ sets = {None}
  BY DEF ServeLogout
<1>2. GoodKept
  BY <1>1, GoodEnds DEF browser
<1>3. ServerTypes' /\ NoFalseReuse'
  BY <1>1 DEF ServerTypes, NoFalseReuse, browser
<1>4. ASSUME NEW d, d.answer = answer, d.sets = sets
      PROVE  AnswerSound("logout", d)'
  BY <1>1, <1>4 DEF AnswerSound
<1> QED
  BY <1>2, <1>3, <1>4 DEF Served

\* Another request is handled.
LEMMA RequestServed ==
  ASSUME ServerTypes, NoFalseReuse, UNCHANGED browser, orphans' \subseteq orphans,
         NEW k \in Requests, NEW x, NEW r, NEW answer, NEW sets, ServeRequest(x, r, answer, sets)
  PROVE  GoodKept /\ Served(k, answer, sets)
<1>1. /\ live' \subseteq live /\ UNCHANGED <<rotation, reused>>
      /\ answer \in {"ok", "denied"} /\ sets = {}
  BY DEF ServeRequest
<1>2. GoodKept
  BY <1>1, GoodEnds DEF browser
<1>3. ServerTypes' /\ NoFalseReuse'
  BY <1>1 DEF ServerTypes, NoFalseReuse, browser
<1>4. ASSUME NEW d, d.answer = answer, d.sets = sets
      PROVE  AnswerSound(k, d)'
  BY <1>1, <1>4 DEF AnswerSound, Requests
<1> QED
  BY <1>2, <1>3, <1>4 DEF Served

\* A request of any kind is handled.
LEMMA ServeSound ==
  ASSUME ServerTypes, NoFalseReuse, UNCHANGED browser, orphans' \subseteq orphans,
         NEW k \in Kinds, NEW d \in Calls, k = "refresh" => Fits(d.presents),
         NEW answer, NEW sets, Serve(k, d, answer, sets)
  PROVE  \/ GoodKept /\ Served(k, answer, sets)
         \/ k = "refresh" /\ Rotates(d.presents, answer, sets)
<1>0. d.presents \in (Sessions \X (0..MaxRotations)) \cup {None}
  BY DEF Calls
<1>1. CASE k = "refresh"
  BY <1>0, <1>1, RefreshServed DEF Serve
<1>2. CASE k = "login"
  BY <1>2, LoginServed DEF Serve
<1>3. CASE k = "logout"
  BY <1>3, LogoutServed DEF Serve
<1>4. CASE k \in Requests
  BY <1>4, RequestServed DEF Serve, Requests
<1> QED
  BY <1>1, <1>2, <1>3, <1>4 DEF Kinds, Locking

----------------------------------------------------------------------------
(* The steps of the server keep the invariant *)

\* A call on the wire is at the head of the line.
LEMMA OnWireFirst ==
  ASSUME IInv, NEW t \in Tabs, NEW k \in Locking, tab[t].call[k].at \in OnWire
  PROVE  queue[<<t, k>>] = {} /\ tab[t].call[k].at \in Held
<1>1. <<t, k>> \in Queued /\ tab[<<t, k>>[1]].call[<<t, k>>[2]].at # "lock"
  BY Pairs DEF Queued, OnWire
<1> QED
  BY <1>1 DEF IInv, LockSound, OnWire, Held

\* The refresh whose token is rotated is the only call that a spoilt token could hurt.
LEMMA RotatedIInv ==
  ASSUME IInv, NEW t \in Tabs, tab[t].call["refresh"].at = "sent", NEW answer, NEW sets,
         Rotates(tab[t].call["refresh"].presents, answer, sets),
         NEW c, TabSound(c), Keeps(tab[t], c, "refresh"), SignKept(tab[t], c), Becomes(t, c),
         c.call["refresh"].at = "answered", c.call["refresh"].answer = answer,
         c.call["refresh"].sets = sets, UNCHANGED <<browser, orphans, queue>>
  PROVE  IInv'
<1>0. /\ "refresh" \in Kinds /\ "refresh" \in Locking /\ c \in TabRecords /\ TabSound(tab[t])
      /\ tab \in [Tabs -> TabRecords] /\ ServerTypes /\ NoFalseReuse /\ LockSound
      /\ (\A s \in Tabs, k \in Kinds : CallGood(k, tab[s].call[k])) /\ CookieSound /\ OrphansSound
  BY OfTab, KindNames, WireParts DEF IInv, TabsSound, TabSound
<1>1. PICK x \in (Sessions \X (0..MaxRotations)) \cup {None} :
            x = tab[t].call["refresh"].presents
  BY <1>0, TabFields DEF TabSound, Calls
<1> DEFINE y == <<x[1], x[2] + 1>>
<1>2. /\ Served("refresh", answer, sets) /\ y \in RefreshTokens
      /\ \A z : Issued(z) => Issued(z)'
      /\ \A z : Fits(z) /\ Issued(z) /\ (z = None \/ z[1] # x[1] \/ x[1] \in lost) => Fits(z)'
  BY <1>0, <1>1, RotatedServed
<1>3. queue[<<t, "refresh">>] = {} /\ tab[t].call["refresh"].at \in Held
  BY <1>0, OnWireFirst DEF OnWire
<1>4. QueueMoves(t, c, "refresh")
  BY <1>3 DEF QueueMoves, OnWire
<1>5. TabsSound' /\ LockSound' /\ SignOutFirst'
  BY <1>0, <1>4, TabStep DEF IInv
<1>6. /\ tab' \in [Tabs -> TabRecords] /\ tab'[t] = c
      /\ \A s \in Tabs \ {t} : tab'[s] = tab[s]
  BY <1>0, OtherTabs
<1>7. \A s \in Tabs, k \in Locking : tab[s].call[k].at \in OnWire => s = t /\ k = "refresh"
  BY <1>0, <1>3, OneHolds
<1>8. \A s \in Tabs, k \in Kinds : CallGood(k, tab[s].call[k])'
  <2>1. CallGood("refresh", c.call["refresh"])'
    BY <1>2 DEF Served, CallGood
  <2>2. ASSUME NEW k \in Kinds \ {"refresh"}, NEW d, d = c.call[k]
        PROVE  CallGood(k, d)'
    <3>1. CASE k \in Locking
      <4>1. d.at = tab[t].call[k].at
        BY <2>2, <3>1 DEF Keeps
      <4>2. d.at \notin OnWire
        BY <1>7, <2>2, <3>1, <4>1
      <4> QED
        BY <4>2 DEF CallGood, OnWire
    <3>2. CASE k \in Requests
      <4>1. d.at = "answered" => SameWire(tab[t].call[k], d)
        BY <2>2 DEF Keeps, OnWire
      <4>2. d.at = "answered" => AnswerSound(k, tab[t].call[k])
        BY <1>0, <2>2, <4>1 DEF CallGood, SameWire
      <4> QED
        BY <2>2, <3>2, <4>1, <4>2 DEF CallGood, AnswerSound, SameWire, Requests
    <3> QED
      BY <3>1, <3>2 DEF Kinds
  <2>3. ASSUME NEW s \in Tabs \ {t}, NEW k \in Kinds, NEW d, d = tab[s].call[k]
        PROVE  CallGood(k, d)'
    <3>1. CASE k \in Locking
      <4>1. d.at \notin OnWire
        BY <1>7, <2>3, <3>1
      <4> QED
        BY <4>1 DEF CallGood, OnWire
    <3>2. CASE k \in Requests
      <4>1. CallGood(k, d)
        BY <1>0, <2>3
      <4> QED
        BY <3>2, <4>1 DEF CallGood, AnswerSound, Requests
    <3> QED
      BY <3>1, <3>2 DEF Kinds
  <2>4. ASSUME NEW s \in Tabs, NEW k \in Kinds, NEW d, d = tab'[s].call[k]
        PROVE  CallGood(k, d)'
    BY <1>6, <2>1, <2>2, <2>3, <2>4
  <2> QED
    BY <2>4
<1>9. CookieSound'
  <2>1. ~Rotating
    BY <1>0, <1>3, NoneRotates
  <2>2. Issued(cookie) /\ Fits(cookie) /\ cookie' = cookie
    BY <1>0, <2>1 DEF CookieSound, browser
  <2>3. Issued(cookie)'
    BY <1>2, <2>2
  <2>4. CASE cookie = None \/ cookie[1] # x[1]
    <3>1. Fits(cookie)'
      BY <1>2, <2>2, <2>4
    <3> QED
      BY <2>3, <3>1 DEF CookieSound
  <2>5. CASE cookie[1] = x[1]
    <3>1. c.call["refresh"].sets = {y} /\ y[1] = cookie'[1]
      BY <1>1, <2>2, <2>5 DEF Rotates
    <3>2. Rotating'
      BY <1>2, <1>6, <3>1 DEF Rotating
    <3> QED
      BY <2>3, <3>2 DEF CookieSound
  <2> QED
    BY <2>4, <2>5
<1>10. OrphansSound'
  BY <1>0 DEF OrphansSound, browser
<1>11. WireSound'
  BY <1>2, <1>8, <1>9, <1>10, WireNext DEF Served
<1> QED
  BY <1>2, <1>5, <1>11 DEF IInv, Served

\* The server's answer to a call keeps the invariant.
LEMMA HandleIInv ==
  ASSUME IInv, NEW t \in Tabs, NEW k \in Kinds, Handle(t, k)
  PROVE  IInv'
<1>0. /\ tab[t].call[k].at = "sent" /\ UNCHANGED <<browser, orphans, queue>>
      /\ TabSound(tab[t]) /\ tab[t].call[k] \in Calls /\ ServerTypes /\ NoFalseReuse /\ OrphansSound
      /\ CallGood(k, tab[t].call[k])
  BY OfTab, TabFields, WireParts DEF Handle, IInv
<1>1. PICK answer \in Answers, sets \in Cookies :
        /\ Serve(k, tab[t].call[k], answer, sets)
        /\ Becomes(t, Answered(tab[t], k, answer, sets))
  BY DEF Handle, Answered
<1>2. PICK c : /\ TabSound(c) /\ Keeps(tab[t], c, k) /\ SignKept(tab[t], c) /\ Becomes(t, c)
               /\ c.call[k].at = "answered" /\ c.call[k].answer = answer /\ c.call[k].sets = sets
  BY <1>0, <1>1, AnsweredSound
<1>3. k = "refresh" => Fits(tab[t].call[k].presents)
  BY <1>0 DEF CallGood, Good
<1>4. \/ GoodKept /\ Served(k, answer, sets)
      \/ k = "refresh" /\ Rotates(tab[t].call[k].presents, answer, sets)
  BY <1>0, <1>1, <1>3, ServeSound
<1>5. CASE k = "refresh" /\ Rotates(tab[t].call[k].presents, answer, sets)
  BY <1>0, <1>2, <1>5, RotatedIInv
<1>6. CASE GoodKept /\ Served(k, answer, sets)
  <2>1. CallGood(k, c.call[k])' /\ ServerTypes' /\ NoFalseReuse'
    BY <1>2, <1>6 DEF Served, CallGood
  <2>2. k \in Locking => queue[<<t, k>>] = {} /\ tab[t].call[k].at \in Held
    BY <1>0, OnWireFirst DEF OnWire
  <2>3. QueueMoves(t, c, k)
    BY <1>0, <1>2, <2>2 DEF QueueMoves, OnWire
  <2>4. tab[t].call["refresh"].at = "answered" => SameWire(tab[t].call["refresh"], c.call["refresh"])
    BY <1>0, <1>2, KindNames DEF Keeps, OnWire
  <2>5. CookieSound'
    BY <1>0, <1>2, <1>6, <2>4, CookieBeside DEF TabSound, browser
  <2>6. OrphansSound'
    BY <1>0 DEF OrphansSound, browser
  <2>7. \A i \in Kinds \ {k} : c.call[i].at \in OnWire => SameWire(tab[t].call[i], c.call[i])
    BY <1>2 DEF Keeps
  <2> QED
    BY <1>2, <1>6, <2>1, <2>3, <2>5, <2>6, <2>7, WireStep
<1> QED
  BY <1>4, <1>5, <1>6

\* Steps that leave the tabs and the line.
LEMMA ServerStep ==
  ASSUME IInv, UNCHANGED <<browser, queue, tab>>, orphans' \subseteq orphans, GoodKept,
         ServerTypes', NoFalseReuse'
  PROVE  IInv'
<1>0. /\ TabsSound /\ CookieSound /\ OrphansSound
      /\ \A s \in Tabs, k \in Kinds : CallGood(k, tab[s].call[k])
  BY WireParts DEF IInv
<1>1. TabsSound' /\ LockSound' /\ SignOutFirst'
  BY DEF IInv, TabsSound, LockSound, SignOutFirst, Queued
<1>2. \A s \in Tabs, k \in Kinds : CallGood(k, tab[s].call[k])'
  <2>1. ASSUME NEW s \in Tabs, NEW k \in Kinds, NEW d, d = tab[s].call[k]
        PROVE  CallGood(k, d)'
    BY <1>0, <2>1, CallStaysGood DEF SameWire
  <2> QED
    BY <2>1
<1>3. CookieSound'
  BY <1>0, CookieStays DEF browser
<1>4. OrphansSound'
  BY <1>0 DEF OrphansSound, browser
<1>5. WireSound'
  BY <1>2, <1>3, <1>4, WireNext
<1> QED
  BY <1>1, <1>5 DEF IInv

\* A request that the browser has given up is handled.
LEMMA HandleOrphanIInv ==
  ASSUME IInv, NEW o \in orphans, HandleOrphan(o)
  PROVE  IInv'
<1>0. /\ UNCHANGED <<browser, queue, tab>> /\ orphans' \subseteq orphans
      /\ o.kind \in Kinds /\ o.call \in Calls /\ ServerTypes /\ NoFalseReuse /\ OrphansSound
  BY WireParts, KindNames DEF HandleOrphan, IInv, ServerTypes
<1>1. PICK answer \in Answers, sets \in Cookies : Serve(o.kind, o.call, answer, sets)
  BY DEF HandleOrphan
<1>2. o.kind = "refresh" => o.call.presents = None \/ o.call.presents[1] \in lost
  BY <1>0 DEF OrphansSound
<1>3. o.kind = "refresh" => Fits(o.call.presents)
  BY <1>2 DEF Fits
<1>4. \/ GoodKept /\ Served(o.kind, answer, sets)
      \/ o.kind = "refresh" /\ Rotates(o.call.presents, answer, sets)
  BY <1>0, <1>1, <1>3, ServeSound
<1>5. CASE GoodKept /\ Served(o.kind, answer, sets)
  BY <1>0, <1>5, ServerStep DEF Served
<1>6. CASE o.kind = "refresh" /\ Rotates(o.call.presents, answer, sets)
  <2>1. PICK x \in (Sessions \X (0..MaxRotations)) \cup {None} : x = o.call.presents
    BY <1>0 DEF Calls
  <2>2. x[1] \in lost
    BY <1>2, <1>6, <2>1 DEF Rotates, OfLiveSession
  <2>3. /\ Served("refresh", answer, sets)
        /\ \A z : Issued(z) => Issued(z)'
        /\ \A z : Fits(z) /\ Issued(z) /\ (z = None \/ z[1] # x[1] \/ x[1] \in lost) => Fits(z)'
    BY <1>0, <1>6, <2>1, RotatedServed
  <2>4. GoodKept
    BY <2>2, <2>3 DEF GoodKept, Good
  <2> QED
    BY <1>0, <2>3, <2>4, ServerStep DEF Served
<1> QED
  BY <1>4, <1>5, <1>6

\* A session that ends elsewhere keeps the invariant.
LEMMA RevokedElsewhereIInv ==
  ASSUME IInv, NEW s \in Sessions, RevokedElsewhere(s)
  PROVE  IInv'
<1>1. /\ live' \subseteq live /\ UNCHANGED <<rotation, reused>>
      /\ UNCHANGED <<browser, queue, tab>> /\ orphans' = orphans
  BY DEF RevokedElsewhere
<1>2. GoodKept
  BY <1>1, GoodEnds DEF browser
<1>3. ServerTypes' /\ NoFalseReuse'
  BY <1>1, WireParts DEF IInv, ServerTypes, NoFalseReuse, browser
<1> QED
  BY <1>1, <1>2, <1>3, ServerStep

----------------------------------------------------------------------------
(* The network and the browser keep the invariant *)

\* What an outcome must bring: a session to accept, and no refresh to accept while
\* the page signs out.
Acceptable(b, k, outcome, s) ==
    /\ outcome \in Answers \cup {"failed"}
    /\ k \in {"refresh", "login"} /\ outcome = "ok" => s \in Sessions
    /\ k = "refresh" /\ outcome = "ok" /\ b.call["refresh"].current => ~(b.active /\ b.signingOut)
    /\ k = "login" /\ outcome = "revoked" => b.call["login"].sets = {}
    /\ k \in Requests => b.call[k].sets = {}

\* A call of the lock settles.
LEMMA LockingSettles ==
  ASSUME NEW b, TabSound(b), NEW k \in Locking, b.call[k].at \in Held, NEW outcome, NEW s,
         Acceptable(b, k, outcome, s)
  PROVE  LET r == Settled(b, k, outcome, s)
         IN TabSound(r) /\ Keeps(b, r, k) /\ SignKept(b, r) /\ r.call[k].at \notin Held
<1>1. CASE k = "refresh"
  <2> DEFINE r == RefreshSettles(b, outcome, s)
  <2>1. /\ TabSound(r) /\ Keeps(b, r, "refresh") /\ SignKept(b, r)
        /\ r.call["refresh"].at = "idle"
    BY <1>1, RefreshSettlesSound DEF Acceptable, Refreshing, Held
  <2>2. Settled(b, k, outcome, s) = r
    BY <1>1 DEF Settled
  <2> HIDE DEF r
  <2> QED
    BY <1>1, <2>1, <2>2 DEF Held
<1>2. CASE k = "login"
  <2> DEFINE r == LoginSettles(b, outcome, s)
  <2>1. /\ TabSound(r) /\ Keeps(b, r, "login") /\ SignKept(b, r)
        /\ r.call["login"].at \in {"idle", "replace"}
    BY <1>2, LoginSettlesSound DEF Acceptable, Held
  <2>2. Settled(b, k, outcome, s) = r
    BY <1>2 DEF Settled
  <2> HIDE DEF r
  <2> QED
    BY <1>2, <2>1, <2>2 DEF Held
<1>3. CASE k = "logout"
  <2> DEFINE r == OperationEnds(b, "logout")
  <2>0. b.call["logout"].at # "await"
    BY <1>3 DEF Held
  <2>1. LocalStep(b, r, "logout") /\ r.call["logout"].at = "idle"
    BY <2>0, KindNames, OperationEndsLocal
  <2>2. Settled(b, k, outcome, s) = r
    BY <1>3 DEF Settled
  <2> HIDE DEF r
  <2> QED
    BY <1>3, <2>1, <2>2 DEF Held, LocalStep
<1> QED
  BY <1>1, <1>2, <1>3 DEF Locking

\* A request settles.
LEMMA RequestSettled ==
  ASSUME NEW b, TabSound(b), NEW k \in Requests, b.call[k].at \in OnWire, NEW outcome, NEW s,
         Acceptable(b, k, outcome, s)
  PROVE  LET r == Settled(b, k, outcome, s)
         IN /\ TabSound(r) /\ Keeps(b, r, "refresh") /\ RefreshKept(b, r) /\ SignKept(b, r)
            /\ r.call[k].at \notin OnWire
            /\ outcome # "denied" => r.call["refresh"].at = b.call["refresh"].at
<1>1. Settled(b, k, outcome, s) = RequestSettles(b, k, outcome)
  BY DEF Settled, Requests
<1> QED
  BY <1>1, RequestSettlesSound DEF Acceptable

\* The lock that is not granted keeps the invariant.
LEMMA LockTimeoutIInv ==
  ASSUME IInv, NEW t \in Tabs, NEW k \in Kinds, LockTimeout(t, k)
  PROVE  IInv'
<1> DEFINE r == Settled(tab[t], k, "failed", None)
<1>0. /\ k \in Locking /\ tab[t].call[k].at = "lock" /\ Becomes(t, r) /\ queue' = Leave(t, k)
      /\ UNCHANGED <<server, browser, orphans>> /\ TabSound(tab[t])
  BY OfTab DEF LockTimeout
<1>1. Acceptable(tab[t], k, "failed", None) /\ tab[t].call[k].at \in Held
  BY <1>0, KindNames DEF Acceptable, Held
<1>2. TabSound(r) /\ Keeps(tab[t], r, k) /\ SignKept(tab[t], r) /\ r.call[k].at \notin Held
  BY <1>0, <1>1, LockingSettles
<1> HIDE DEF r
<1>3. QueueMoves(t, r, k)
  BY <1>0, <1>2 DEF QueueMoves
<1>4. LocalStep(tab[t], r, k)
  BY <1>0, <1>2, KindNames DEF LocalStep, OnWire, Held, Keeps
<1> QED
  BY <1>0, <1>3, <1>4, LocalStepSound

\* What the answer to a call brings, once it is here.
LEMMA AnswerBrings ==
  ASSUME IInv, NEW t \in Tabs, NEW k \in Kinds, tab[t].call[k].at = "answered"
  PROVE  LET c == tab[t].call[k]
             s == IF c.answer = "ok" /\ k \in {"refresh", "login"} THEN SessionOf(c.sets) ELSE None
         IN /\ Acceptable(tab[t], k, c.answer, s)
            /\ \A x \in c.sets : Good(x) /\ x \in RefreshTokens \cup {None}
            /\ k \in {"refresh", "logout"} => c.sets # {}
            /\ k = "refresh" /\ c.answer = "ok" => \E x \in RefreshTokens : c.sets = {x}
            /\ k = "refresh" /\ c.answer # "ok" => c.sets = {None}
<1> DEFINE c == tab[t].call[k]
           s == IF c.answer = "ok" /\ k \in {"refresh", "login"} THEN SessionOf(c.sets) ELSE None
<1>0. AnswerSound(k, c)
  BY WireParts DEF IInv, CallGood
<1>1. Good(None)
  BY DEF Good, Issued, Fits
<1>2. c.answer \in Answers
  BY <1>0 DEF AnswerSound, Answers
<1>3. \A x \in c.sets : Good(x) /\ x \in RefreshTokens \cup {None}
  BY <1>0, <1>1 DEF AnswerSound
<1>4. k \in {"refresh", "logout"} => c.sets # {}
  BY <1>0 DEF AnswerSound
<1>5. k = "login" /\ c.answer = "revoked" => c.sets = {}
  BY <1>0 DEF AnswerSound
<1>6. k \in Requests => c.sets = {}
  BY <1>0 DEF AnswerSound, Requests
<1>7. /\ k = "refresh" /\ c.answer = "ok" => \E x \in RefreshTokens : c.sets = {x}
      /\ k = "refresh" /\ c.answer # "ok" => c.sets = {None}
      /\ k = "login" /\ c.answer = "ok" => \E x \in RefreshTokens : c.sets = {x}
  BY <1>0 DEF AnswerSound
<1>8. k \in {"refresh", "login"} /\ c.answer = "ok" => s \in Sessions
  <2>1. SUFFICES ASSUME k \in {"refresh", "login"}, c.answer = "ok"
                 PROVE  s \in Sessions
    OBVIOUS
  <2>2. PICK x \in RefreshTokens : c.sets = {x}
    BY <1>7, <2>1
  <2>3. SessionOf({x}) = x[1]
    BY DEF SessionOf
  <2> QED
    BY <2>1, <2>2, <2>3, TokenTypes
<1>9. k = "refresh" /\ tab[t].call["refresh"].current => ~(tab[t].active /\ tab[t].signingOut)
  <2>1. k = "refresh" => queue[<<t, k>>] = {} /\ Refreshing(tab[t])
    BY OnWireFirst, KindNames DEF OnWire, Refreshing
  <2> QED
    BY <2>1 DEF IInv, SignOutFirst
<1> HIDE DEF s
<1>10. Acceptable(tab[t], k, c.answer, s)
  BY <1>2, <1>5, <1>6, <1>8, <1>9 DEF Acceptable
<1> QED
  BY <1>3, <1>4, <1>7, <1>10 DEF s

\* A settled call: what the tab becomes and what is left on the wire.
LEMMA SettledStep ==
  ASSUME IInv, NEW t \in Tabs, NEW k \in Kinds, tab[t].call[k].at \in OnWire, NEW outcome, NEW s,
         Acceptable(tab[t], k, outcome, s), NEW r, r = Settled(tab[t], k, outcome, s),
         \/ k \in Locking /\ queue' = Leave(t, k)
         \/ k \in Requests /\ queue' = Joined(t, "refresh", r)
         \/ k \in Requests /\ outcome # "denied" /\ queue' = queue
  PROVE  \E j \in Kinds :
            /\ TabSound(r) /\ Keeps(tab[t], r, j) /\ SignKept(tab[t], r) /\ QueueMoves(t, r, j)
            /\ r.call[k].at \notin OnWire
            /\ \A i \in Kinds \ {k} : r.call[i].at \in OnWire => SameWire(tab[t].call[i], r.call[i])
            /\ k # "refresh" /\ tab[t].call["refresh"].at = "answered" =>
                SameWire(tab[t].call["refresh"], r.call["refresh"])
<1>0. TabSound(tab[t])
  BY OfTab
<1>1. CASE k \in Locking
  <2>1. TabSound(r) /\ Keeps(tab[t], r, k) /\ SignKept(tab[t], r) /\ r.call[k].at \notin Held
    BY <1>0, <1>1, LockingSettles DEF OnWire, Held
  <2>2. QueueMoves(t, r, k)
    BY <1>1, <2>1, KindNames DEF QueueMoves
  <2>3. /\ r.call[k].at \notin OnWire
        /\ \A i \in Kinds \ {k} : r.call[i].at \in OnWire => SameWire(tab[t].call[i], r.call[i])
    BY <2>1 DEF Keeps, OnWire, Held
  <2>4. k # "refresh" /\ tab[t].call["refresh"].at = "answered" =>
            SameWire(tab[t].call["refresh"], r.call["refresh"])
    BY <2>1, KindNames DEF Keeps, OnWire
  <2> QED
    BY <2>1, <2>2, <2>3, <2>4
<1>2. CASE k \in Requests
  <2>1. /\ TabSound(r) /\ Keeps(tab[t], r, "refresh") /\ RefreshKept(tab[t], r) /\ SignKept(tab[t], r)
        /\ r.call[k].at \notin OnWire
        /\ outcome # "denied" => r.call["refresh"].at = tab[t].call["refresh"].at
    BY <1>0, <1>2, RequestSettled
  <2>2. QueueMoves(t, r, "refresh")
    <3>1. CASE queue' = Joined(t, "refresh", r)
      BY <1>0, <2>1, <3>1, RefreshJoins
    <3>2. CASE outcome # "denied" /\ queue' = queue
      BY <2>1, <3>2, KindNames, CallStays
    <3> QED
      BY <1>2, <3>1, <3>2, KindNames
  <2>3. \A i \in Kinds \ {k} : r.call[i].at \in OnWire => SameWire(tab[t].call[i], r.call[i])
    BY <2>1 DEF Keeps, RefreshKept
  <2>4. tab[t].call["refresh"].at = "answered" => SameWire(tab[t].call["refresh"], r.call["refresh"])
    BY <2>1 DEF RefreshKept, Refreshing, OnWire
  <2> QED
    BY <2>1, <2>2, <2>3, <2>4, KindNames
<1> QED
  BY <1>1, <1>2 DEF Kinds

\* An answer that arrives keeps the invariant.
LEMMA DeliverIInv ==
  ASSUME IInv, NEW t \in Tabs, NEW k \in Kinds, Deliver(t, k)
  PROVE  IInv'
<1>1. PICK s : s = IF tab[t].call[k].answer = "ok" /\ k \in {"refresh", "login"}
                   THEN SessionOf(tab[t].call[k].sets) ELSE None
  OBVIOUS
<1>2. PICK r : r = Settled(tab[t], k, tab[t].call[k].answer, s)
  OBVIOUS
<1>3. /\ tab[t].call[k].at = "answered" /\ Becomes(t, r)
      /\ \E x \in IF tab[t].call[k].sets = {} THEN {cookie} ELSE tab[t].call[k].sets : cookie' = x
      /\ queue' = IF k \in Locking THEN Leave(t, k) ELSE Joined(t, "refresh", r)
      /\ UNCHANGED <<server, lost, orphans>>
  BY <1>1, <1>2 DEF Deliver
<1>4. /\ Acceptable(tab[t], k, tab[t].call[k].answer, s)
      /\ \A x \in tab[t].call[k].sets : Good(x) /\ x \in RefreshTokens \cup {None}
      /\ k \in {"refresh", "logout"} => tab[t].call[k].sets # {}
  BY <1>1, <1>3, AnswerBrings
<1>5. PICK j \in Kinds :
        /\ TabSound(r) /\ Keeps(tab[t], r, j) /\ SignKept(tab[t], r) /\ QueueMoves(t, r, j)
        /\ r.call[k].at \notin OnWire
        /\ \A i \in Kinds \ {k} : r.call[i].at \in OnWire => SameWire(tab[t].call[i], r.call[i])
        /\ k # "refresh" /\ tab[t].call["refresh"].at = "answered" =>
            SameWire(tab[t].call["refresh"], r.call["refresh"])
  BY <1>2, <1>3, <1>4, SettledStep DEF OnWire, Kinds
<1>6. GoodKept
  BY <1>3, GoodEnds DEF server
<1>7. CallGood(k, r.call[k])'
  BY <1>5 DEF CallGood, OnWire
<1>8. OrphansSound' /\ NoFalseReuse'
  BY <1>3, WireParts DEF IInv, OrphansSound, NoFalseReuse, server
<1>9. CookieSound' /\ cookie' \in RefreshTokens \cup {None}
  <2>1. CASE tab[t].call[k].sets = {}
    <3>1. cookie' = cookie /\ k # "refresh" /\ r \in TabRecords
      BY <1>3, <1>4, <1>5, <2>1 DEF TabSound
    <3>2. CookieSound'
      BY <1>3, <1>5, <1>6, <3>1, CookieBeside
    <3> QED
      BY <3>1, <3>2 DEF IInv, ServerTypes
  <2>2. CASE tab[t].call[k].sets # {}
    <3>1. PICK x \in tab[t].call[k].sets : cookie' = x
      BY <1>3, <2>2
    <3>2. Good(x)' /\ x \in RefreshTokens \cup {None}
      BY <1>4, <1>6, <3>1 DEF GoodKept
    <3>3. Issued(cookie)' /\ Fits(cookie)'
      BY <3>1, <3>2 DEF Good, Issued, Fits
    <3> QED
      BY <3>1, <3>2, <3>3 DEF CookieSound
  <2> QED
    BY <2>1, <2>2
<1>10. ServerTypes'
  BY <1>3, <1>9 DEF IInv, ServerTypes, server
<1> QED
  BY <1>3, <1>5, <1>6, <1>7, <1>8, <1>9, <1>10, WireStep

----------------------------------------------------------------------------
(* What is given up *)

\* A request that is given up may reach the server with what it presented.
LEMMA GiveUpSound ==
  ASSUME NEW calls \in [Kinds -> Calls], GiveUp(calls), ServerTypes, OrphansSound,
         lost \subseteq lost',
         calls["refresh"].at = "sent" => \/ calls["refresh"].presents = None
                                         \/ calls["refresh"].presents[1] \in lost'
  PROVE  orphans' \subseteq [kind : Locking \cup {"other"}, call : Calls] /\ OrphansSound'
<1>1. CASE orphans' = orphans
  BY <1>1 DEF ServerTypes, OrphansSound
<1>2. ASSUME NEW o \in [kind : {"refresh", "login", "logout", "other"},
                        call : {calls[k] : k \in Kinds}],
             o.call = calls[o.kind], o.call.at = "sent",
             orphans' = orphans \cup {[o EXCEPT !.call =
                 [Idle EXCEPT !.presents = o.call.presents, !.errand = o.call.errand]]}
      PROVE  orphans' \subseteq [kind : Locking \cup {"other"}, call : Calls] /\ OrphansSound'
  <2> DEFINE d == [Idle EXCEPT !.presents = o.call.presents, !.errand = o.call.errand]
             n == [o EXCEPT !.call = d]
  <2>1. o.call \in Calls /\ o.kind \in Locking \cup {"other"}
    BY <1>2 DEF Locking
  <2>2. d \in Calls /\ d.presents = o.call.presents
    BY <2>1, IdleCall DEF Calls, Idle
  <2> HIDE DEF d
  <2>3. n \in [kind : Locking \cup {"other"}, call : Calls] /\ n.kind = o.kind /\ n.call = d
    BY <1>2, <2>1, <2>2
  <2>4. orphans' = orphans \cup {n}
    BY <1>2 DEF d
  <2> HIDE DEF n
  <2>5. n.kind = "refresh" => n.call.presents = None \/ n.call.presents[1] \in lost'
    BY <1>2, <2>2, <2>3
  <2> QED
    BY <2>3, <2>4, <2>5 DEF ServerTypes, OrphansSound
<1> QED
  BY <1>1, <1>2 DEF GiveUp

\* The sessions whose rotation the browser may never learn of, by a refresh given up.
LEMMA UnlearnedRefresh ==
  ASSUME IInv, NEW t \in Tabs
  PROVE  LET c == tab[t].call["refresh"]
         IN /\ Unlearned(c) \subseteq Sessions
            /\ c.at = "sent" => c.presents = None \/ c.presents[1] \in Unlearned(c)
            /\ c.at = "answered" => \A x \in RefreshTokens : c.sets = {x} => x[1] \in Unlearned(c)
<1> DEFINE c == tab[t].call["refresh"]
<1>0. c \in Calls /\ c.presents \in (Sessions \X (0..MaxRotations)) \cup {None}
  <2>1. c \in Calls
    BY OfTab, TabFields, KindNames
  <2> QED
    BY <2>1 DEF Calls
<1>1. CASE c.at = "sent"
  <2>1. Unlearned(c) = {x[1] : x \in {c.presents} \ {None}}
    BY <1>1 DEF Unlearned
  <2> QED
    BY <1>0, <1>1, <2>1
<1>2. CASE c.at = "answered"
  <2>1. /\ c.answer = "ok" => \E x \in RefreshTokens : c.sets = {x}
        /\ c.answer # "ok" => c.sets = {None}
    BY <1>2, KindNames, AnswerBrings
  <2>2. Unlearned(c) = {x[1] : x \in IF c.answer = "ok" THEN c.sets ELSE {}}
    BY <1>2 DEF Unlearned
  <2>3. \A x \in RefreshTokens : c.sets = {x} => c.answer = "ok"
    BY <2>1, TokenTypes
  <2>4. c.answer = "ok" => \A x \in c.sets : x[1] \in Sessions
    BY <2>1, TokenTypes
  <2> QED
    BY <1>2, <2>2, <2>3, <2>4
<1>3. CASE c.at \notin {"sent", "answered"}
  <2>1. c.sets = {}
    BY <1>3, OfTab, KindNames DEF TabSound, CallsSound
  <2>2. Unlearned(c) = {}
    BY <1>3, <2>1 DEF Unlearned
  <2> QED
    BY <1>3, <2>2
<1> QED
  BY <1>1, <1>2, <1>3

\* A refresh that is given up: the cookie that it may have rotated away is forgiven.
LEMMA CookieForgiven ==
  ASSUME IInv, NEW t \in Tabs, NEW r \in TabRecords, Becomes(t, r), GoodKept, cookie' = cookie,
         lost \cup Unlearned(tab[t].call["refresh"]) \subseteq lost'
  PROVE  CookieSound'
<1>0. CookieSound
  BY WireParts DEF IInv
<1>1. Issued(cookie)' /\ (Fits(cookie) => Fits(cookie)')
  BY <1>0 DEF CookieSound, GoodKept, Good
<1>2. /\ tab' \in [Tabs -> TabRecords] /\ tab'[t] = r
      /\ \A s \in Tabs \ {t} : tab'[s] = tab[s]
  BY OtherTabs DEF IInv, TabsSound
<1>3. ASSUME NEW s \in Tabs, tab[s].call["refresh"].at = "answered",
             NEW x \in RefreshTokens, tab[s].call["refresh"].sets = {x}, x[1] = cookie[1]
      PROVE  Fits(cookie)' \/ Rotating'
  <2>1. CASE s = t
    <3>1. cookie'[1] \in lost'
      BY <1>3, <2>1, UnlearnedRefresh
    <3> QED
      BY <3>1 DEF Fits
  <2>2. CASE s # t
    BY <1>2, <1>3, <2>2 DEF Rotating
  <2> QED
    BY <2>1, <2>2
<1> QED
  BY <1>0, <1>1, <1>3 DEF CookieSound, Rotating

\* A request that fails on its way keeps the invariant.
LEMMA RequestTimeoutIInv ==
  ASSUME IInv, NEW t \in Tabs, NEW k \in Kinds, RequestTimeout(t, k)
  PROVE  IInv'
<1> DEFINE c == tab[t].call[k]
           calls == [j \in Kinds |-> IF j = k THEN c ELSE Idle]
<1>1. PICK r : r = Settled(tab[t], k, "failed", None)
  OBVIOUS
<1>2. /\ c.at \in OnWire /\ Becomes(t, r) /\ GiveUp(calls)
      /\ \/ /\ cookie' = cookie
            /\ lost' = IF k = "refresh" THEN lost \cup Unlearned(c) ELSE lost
         \/ /\ c.at = "answered" /\ cookie' \in c.sets /\ lost' = lost
      /\ queue' = IF k \in Locking THEN Leave(t, k) ELSE queue
      /\ UNCHANGED server
  BY <1>1 DEF RequestTimeout, OnWire
<1>3. Acceptable(tab[t], k, "failed", None)
  <2>1. k \in Requests => c.sets = {}
    <3>1. CASE c.at = "sent"
      BY <3>1, OfTab DEF TabSound, CallsSound
    <3>2. CASE c.at = "answered"
      BY <3>2, AnswerBrings DEF Acceptable
    <3> QED
      BY <1>2, <3>1, <3>2 DEF OnWire
  <2> QED
    BY <2>1 DEF Acceptable
<1>4. PICK j \in Kinds :
        /\ TabSound(r) /\ Keeps(tab[t], r, j) /\ SignKept(tab[t], r) /\ QueueMoves(t, r, j)
        /\ r.call[k].at \notin OnWire
        /\ \A i \in Kinds \ {k} : r.call[i].at \in OnWire => SameWire(tab[t].call[i], r.call[i])
        /\ k # "refresh" /\ tab[t].call["refresh"].at = "answered" =>
            SameWire(tab[t].call["refresh"], r.call["refresh"])
  <2>1. \/ k \in Locking /\ queue' = Leave(t, k)
        \/ k \in Requests /\ "failed" # "denied" /\ queue' = queue
    BY <1>2 DEF Kinds
  <2> QED
    BY <1>1, <1>2, <1>3, <2>1, SettledStep
<1>5. lost \subseteq lost' /\ lost' \subseteq Sessions
  <2>1. lost \subseteq Sessions /\ (k = "refresh" => Unlearned(c) \subseteq Sessions)
    BY UnlearnedRefresh DEF IInv, ServerTypes
  <2> QED
    BY <1>2, <2>1
<1>6. GoodKept
  BY <1>2, <1>5, GoodEnds DEF server
<1>7. CallGood(k, r.call[k])'
  BY <1>4 DEF CallGood, OnWire
<1>8. orphans' \subseteq [kind : Locking \cup {"other"}, call : Calls] /\ OrphansSound'
  <2>0. c \in Calls
    BY OfTab, TabFields
  <2>1. calls \in [Kinds -> Calls] /\ calls["refresh"] = IF k = "refresh" THEN c ELSE Idle
    BY <2>0, IdleCall, KindNames
  <2>2. k = "refresh" /\ c.at = "sent" => c.presents = None \/ c.presents[1] \in lost'
    BY <1>2, UnlearnedRefresh
  <2>3. ServerTypes /\ OrphansSound
    BY WireParts DEF IInv
  <2> HIDE DEF calls
  <2> QED
    BY <1>2, <1>5, <2>1, <2>2, <2>3, IdleCall, GiveUpSound
<1>9. CookieSound' /\ cookie' \in RefreshTokens \cup {None}
  <2>1. CASE cookie' = cookie /\ k = "refresh" /\ lost' = lost \cup Unlearned(c)
    BY <1>2, <1>4, <1>6, <2>1, CookieForgiven DEF TabSound, IInv, ServerTypes
  <2>2. CASE cookie' = cookie /\ k # "refresh"
    BY <1>2, <1>4, <1>6, <2>2, CookieBeside DEF TabSound, IInv, ServerTypes
  <2>3. CASE c.at = "answered" /\ cookie' \in c.sets
    <3>1. \A x \in c.sets : Good(x) /\ x \in RefreshTokens \cup {None}
      BY <2>3, AnswerBrings
    <3>2. PICK x \in c.sets : cookie' = x
      BY <2>3
    <3>3. Good(x)' /\ x \in RefreshTokens \cup {None}
      BY <1>6, <3>1, <3>2 DEF GoodKept
    <3>4. Issued(cookie)' /\ Fits(cookie)'
      BY <3>2, <3>3 DEF Good, Issued, Fits
    <3> QED
      BY <3>2, <3>3, <3>4 DEF CookieSound
  <2> QED
    BY <1>2, <2>1, <2>2, <2>3
<1>10. ServerTypes' /\ NoFalseReuse'
  BY <1>2, <1>5, <1>8, <1>9, WireParts DEF IInv, ServerTypes, NoFalseReuse, server
<1> QED
  BY <1>2, <1>4, <1>6, <1>7, <1>8, <1>9, <1>10, WireStep

\* A reloaded tab keeps the invariant.
LEMMA ReloadIInv ==
  ASSUME IInv, NEW t \in Tabs, Reload(t)
  PROVE  IInv'
<1> DEFINE gone == {t} \X Locking
<1>1. /\ Becomes(t, Fresh) /\ GiveUp(tab[t].call) /\ queue' = Without(gone)
      /\ lost' = lost \cup Unlearned(tab[t].call["refresh"])
      /\ UNCHANGED <<server, cookie>>
  BY DEF Reload
<1>2. TabSound(Fresh) /\ Fresh \in TabRecords /\ \A k \in Kinds : Fresh.call[k].at = "idle"
  BY FreshSound, IdleCall DEF TabSound
<1>3. ~Fresh.active
  BY DEF Fresh
<1> HIDE DEF gone
<1>4. PICK r : r = Fresh
  OBVIOUS
<1>5. /\ TabSound(r) /\ r \in TabRecords /\ ~r.active /\ Becomes(t, r)
      /\ \A k \in Kinds : r.call[k].at = "idle"
  BY <1>1, <1>2, <1>3, <1>4
<1>6. /\ tab' \in [Tabs -> TabRecords] /\ tab'[t] = r
      /\ \A s \in Tabs \ {t} : tab'[s] = tab[s]
  BY <1>5, OtherTabs DEF IInv, TabsSound
<1>7. TabsSound'
  BY <1>5, <1>6 DEF IInv, TabsSound
<1>8. LockSound'
  <2>1. gone \in SUBSET Lockers
    BY DEF gone, Lockers
  <2>2. \A p \in gone : At(p)' \notin Held
    BY <1>5, <1>6, KindNames DEF gone, At, Held
  <2>3. ASSUME NEW p \in Lockers \ gone PROVE At(p)' = At(p)
    <3>1. p[1] \in Tabs \ {t}
      BY <2>3 DEF gone, Lockers
    <3> QED
      BY <1>6, <3>1 DEF At
  <2> QED
    BY <1>1, <2>1, <2>2, <2>3, LineShrinks DEF IInv
<1>9. SignOutFirst'
  <2>1. ASSUME NEW s \in Tabs, (tab[s].active /\ tab[s].signingOut /\ Refreshing(tab[s])
                                /\ tab[s].call["refresh"].current)'
        PROVE  <<s, "logout">> \in queue'[<<s, "refresh">>]
    <3>1. s # t
      BY <1>5, <1>6, <2>1
    <3>2. <<s, "logout">> \in queue[<<s, "refresh">>]
      BY <1>6, <2>1, <3>1 DEF IInv, SignOutFirst, Refreshing
    <3>3. <<s, "refresh">> \in Lockers \ gone /\ <<s, "logout">> \notin gone
      BY <3>1 DEF gone, Lockers, Locking
    <3> QED
      BY <1>1, <3>2, <3>3 DEF Without
  <2> QED
    BY <2>1 DEF SignOutFirst
<1>10. lost \subseteq lost' /\ lost' \subseteq Sessions
  BY <1>1, UnlearnedRefresh DEF IInv, ServerTypes
<1>11. GoodKept
  BY <1>1, <1>10, GoodEnds DEF server
<1>12. \A s \in Tabs, k \in Kinds : CallGood(k, tab[s].call[k])'
  <2>1. \A k \in Kinds : r.call[k].at \notin OnWire
    BY <1>5 DEF OnWire
  <2> QED
    BY <1>5, <1>11, <2>1, CallsStayGood DEF IInv
<1>13. CookieSound'
  BY <1>1, <1>5, <1>11, CookieForgiven
<1>14. orphans' \subseteq [kind : Locking \cup {"other"}, call : Calls] /\ OrphansSound'
  <2>1. tab[t].call \in [Kinds -> Calls]
    BY OfTab, TabFields
  <2>2. tab[t].call["refresh"].at = "sent" => \/ tab[t].call["refresh"].presents = None
                                              \/ tab[t].call["refresh"].presents[1] \in lost'
    BY <1>1, UnlearnedRefresh
  <2>3. ServerTypes /\ OrphansSound
    BY WireParts DEF IInv
  <2> QED
    BY <1>1, <1>10, <2>1, <2>2, <2>3, GiveUpSound
<1>15. ServerTypes' /\ NoFalseReuse'
  BY <1>1, <1>10, <1>14, WireParts DEF IInv, ServerTypes, NoFalseReuse, server
<1>16. WireSound'
  BY <1>12, <1>13, <1>14, <1>15, WireNext
<1> QED
  BY <1>7, <1>8, <1>9, <1>15, <1>16 DEF IInv

----------------------------------------------------------------------------
(* The theorems *)

\* The first state: every tab is fresh, the cookie is the first of its session.
LEMMA InitIInv == Init => IInv
<1> SUFFICES ASSUME Init PROVE IInv
  OBVIOUS
<1>1. /\ MaxSessions \in Nat \ {0} /\ MaxRotations \in Nat \ {0} /\ 1 \in Sessions
      /\ 1 \in 1..MaxRotations
  BY SessionAssumption DEF Sessions
<1>2. live = {} \/ live = {1}
  BY DEF Init
<1>3. rotation \in [Sessions -> 0..MaxRotations] /\ (live = {1} => rotation[1] = 1)
  BY <1>1, <1>2 DEF Init
<1>4. cookie = None \/ (cookie = <<1, 1>> /\ live = {1})
  BY <1>2 DEF Init
<1>5. <<1, 1>> \in RefreshTokens /\ <<1, 1>>[1] = 1 /\ <<1, 1>>[2] = 1
  BY <1>1, TokenTypes
<1>6. ServerTypes
  BY <1>1, <1>2, <1>3, <1>4, <1>5 DEF Init, ServerTypes
<1>7. \A t \in Tabs : tab[t] = Fresh
  BY DEF Init
<1>8. TabsSound
  BY FreshSound DEF Init, TabsSound, TabSound
<1>9. \A t \in Tabs, k \in Kinds : tab[t].call[k].at = "idle"
  BY <1>7, FreshSound, IdleCall
<1>10. LockSound
  <2>1. Queued = {}
    BY <1>9, Pairs DEF Queued
  <2> QED
    BY <2>1 DEF Init, LockSound
<1>11. SignOutFirst
  BY <1>9, KindNames DEF SignOutFirst, Refreshing
<1>12. CookieSound
  BY <1>3, <1>4, <1>5 DEF CookieSound, Issued, Fits
<1>13. OrphansSound /\ NoFalseReuse /\ \A t \in Tabs, k \in Kinds : CallGood(k, tab[t].call[k])
  BY <1>9 DEF Init, OrphansSound, NoFalseReuse, CallGood
<1>14. WireSound
  BY <1>12, <1>13, WireParts
<1> QED
  BY <1>6, <1>8, <1>10, <1>11, <1>14 DEF IInv

\* Every step keeps the invariant.
LEMMA NextIInv == IInv /\ [Next]_vars => IInv'
<1> SUFFICES ASSUME IInv, [Next]_vars PROVE IInv'
  OBVIOUS
<1>1. ASSUME NEW t \in Tabs,
             \/ Restore(t) \/ Dispose(t) \/ Authenticate(t) \/ Registered(t)
             \/ ReplaceDevice(t) \/ Mismatch(t) \/ AccountLoaded(t) \/ SignOut(t)
             \/ RevokedLate(t) \/ StartRequest(t) \/ TimerFires(t)
             \/ GetAccessToken(t) \/ Reload(t)
      PROVE  IInv'
  BY <1>1, RestoreIInv, DisposeIInv, AuthenticateIInv, RegisteredIInv, ReplaceDeviceIInv,
     MismatchIInv, AccountLoadedIInv, SignOutIInv, RevokedLateIInv, StartRequestIInv,
     TimerFiresIInv, GetAccessTokenIInv, ReloadIInv
<1>2. ASSUME NEW t \in Tabs, NEW k \in Kinds,
             Granted(t, k) \/ LockTimeout(t, k) \/ Deliver(t, k) \/ RequestTimeout(t, k)
      PROVE  IInv'
  BY <1>2, GrantedIInv, LockTimeoutIInv, DeliverIInv, RequestTimeoutIInv
<1>3. ASSUME NEW t \in Tabs, NEW k \in Kinds,
             SendRequest(t, k) \/ RequestFails(t, k) \/ Handle(t, k)
      PROVE  IInv'
  BY <1>3, SendRequestIInv, RequestFailsIInv, HandleIInv
<1>4. CASE UNCHANGED vars
  <2>1. /\ UNCHANGED <<browser, queue, tab>> /\ UNCHANGED server /\ orphans' = orphans
    BY <1>4 DEF vars
  <2>2. GoodKept
    BY <2>1, GoodEnds DEF server, browser
  <2>3. ServerTypes' /\ NoFalseReuse'
    BY <2>1, WireParts DEF IInv, ServerTypes, NoFalseReuse, server, browser
  <2> QED
    BY <2>1, <2>2, <2>3, ServerStep
<1> QED
  BY <1>1, <1>2, <1>3, <1>4, HandleOrphanIInv, RevokedElsewhereIInv DEF Next

\* The invariant holds in every state.
LEMMA Always == Spec => []IInv
  BY InitIInv, NextIInv, PTL DEF Spec

\* Every variable keeps its type.
THEOREM TypeCorrect == Spec => []TypeOK
<1>1. IInv => TypeOK
  BY DEF IInv, ServerTypes, TabsSound, LockSound, TypeOK
<1> QED
  BY <1>1, Always, PTL

\* A tab that shows a signed-in account holds an access token, and none from the
\* moment it signs out: whatever ends the session in ApiClient ends it in SessionStore,
\* and no late answer of a refresh or a login is accepted after a sign-out.
THEOREM TokenFollows == Spec => []TokenFollowsPhase
<1>1. IInv => TokenFollowsPhase
  BY DEF IInv, TabsSound, TabSound, TokenSound, TokenFollowsPhase
<1> QED
  BY <1>1, Always, PTL

\* However many tabs a browser has, the server takes no token of theirs for stolen
\* unless the answer of a refresh never reached the browser: under the Web Lock
\* nobody presents a cookie that another call is rotating.
THEOREM LockPreventsReuse == Spec => []NoFalseReuse
<1>1. IInv => NoFalseReuse
  BY DEF IInv, WireSound
<1> QED
  BY <1>1, Always, PTL

\* Whoever waits for a refresh waits for one that is under way, and while the page
\* shows an operation a call that belongs to it is under way.
THEOREM NothingStuck == Spec => []NoOperationStuck
<1>1. IInv => NoOperationStuck
  <2> SUFFICES ASSUME IInv, NEW t \in Tabs
               PROVE  LET b == tab[t]
                      IN /\ b.waiters # {} => Refreshing(b)
                         /\ \A k \in Requests : b.call[k].at = "await" <=> k \in b.waiters
                         /\ b.active =>
                              /\ b.phase = "restoring" => \/ "restore" \in b.waiters
                                                          \/ Runs(b, "account") \/ Runs(b, "logout")
                              /\ b.submitting => \E k \in {"login", "account", "logout"} : Runs(b, k)
                              /\ b.signingOut => Runs(b, "logout")
                              /\ b.busy => Runs(b, "other") /\ b.call["other"].errand = "revoke"
    BY DEF NoOperationStuck
  <2>1. CallsSound(tab[t]) /\ PageMoves(tab[t])
    BY OfTab DEF TabSound
  <2>2. \A k \in {"login", "account", "logout", "other"} : Owns(tab[t], k) => Runs(tab[t], k)
    BY <2>1, KindNames DEF CallsSound, Owns, Runs
  <2> QED
    BY <2>1, <2>2 DEF CallsSound, PageMoves, Restoring
<1> QED
  BY <1>1, Always, PTL

=============================================================================
