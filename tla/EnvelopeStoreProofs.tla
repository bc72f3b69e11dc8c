------------------------- MODULE EnvelopeStoreProofs -------------------------
(***************************************************************************)
(* Proofs about EnvelopeStore, for any number of envelopes, devices and    *)
(* transactions and any retention time.                                    *)
(***************************************************************************)
EXTENDS EnvelopeStore, TLAPS

----------------------------------------------------------------------------
(* The three ways in which a row is written *)

\* The row that _create_envelopes inserts at time t.
Fresh(t) == [NoRow EXCEPT !.expires = t + Retention, !.payload = TRUE]

\* A stored envelope has its payload and an expiry time.
LEMMA NewRow ==
  ASSUME NEW t \in Nat, t # 0
  PROVE  /\ Fresh(t) \in Row
         /\ Fresh(t).expires = t + Retention /\ Fresh(t).expires # 0
         /\ Fresh(t).payload = TRUE /\ Fresh(t).delivered = 0 /\ Fresh(t).purged = 0
<1>1. Retention \in Nat
  BY StoreAssumption
<1>2. t + Retention \in Nat /\ t + Retention # 0
  BY <1>1
<1> QED
  BY <1>2 DEF Fresh, NoRow, Row

\* The ACK keeps the first times and removes the payload.
LEMMA AcknowledgedRow ==
  ASSUME NEW x \in Row, NEW t \in Nat
  PROVE  /\ Acknowledged(x, t) \in Row
         /\ Acknowledged(x, t).expires = x.expires
         /\ Acknowledged(x, t).payload = FALSE
         /\ Acknowledged(x, t).delivered = Coalesce(x.delivered, t)
         /\ Acknowledged(x, t).purged = Coalesce(x.purged, t)
  BY DEF Acknowledged, Coalesce, Row

\* The purge touches only a payload that has expired.
LEMMA PurgedRow ==
  ASSUME NEW x \in Row, NEW t \in Nat
  PROVE  /\ Purged(x, t) \in Row
         /\ Purged(x, t).expires = x.expires
         /\ Purged(x, t).delivered = x.delivered
         /\ ~Due(x, t) => Purged(x, t) = x
         /\ Due(x, t) => Purged(x, t).payload = FALSE /\ Purged(x, t).purged = t
  BY DEF Purged, Due, Row

\* What a step may do to the row of e.
RowStep(e) ==
    \/ row'[e] = row[e]
    \/ ~Exists(e) /\ row'[e] = Fresh(clock)
    \/ \E t \in 1..clock : row'[e] = Acknowledged(row[e], t)
    \/ \E t \in 1..clock : row'[e] = Purged(row[e], t)

\* A transaction that has started has read the clock.
TimesRead == \A r \in Requests : pc[r] # "start" => now[r] \in 1..clock

\* A step changes a row only by storing, acknowledging or purging it.
LEMMA NextRows ==
  ASSUME TypeOK, TimesRead, [Next]_vars
  PROVE  \A e \in Envelopes : RowStep(e)
<1>1. CASE UNCHANGED row
  BY <1>1 DEF RowStep
<1>2. ASSUME NEW m \in Messages, Store(m) PROVE \A e \in Envelopes : RowStep(e)
  BY <1>2 DEF Store, RowStep, Fresh
<1>3. ASSUME NEW r \in Requests, Acknowledge(r) PROVE \A e \in Envelopes : RowStep(e)
  <2>1. now[r] \in 1..clock
    BY <1>3 DEF Acknowledge, TimesRead
  <2> QED
    BY <1>3, <2>1 DEF Acknowledge, RowStep
<1>4. ASSUME NEW r \in Requests, MailboxPage(r) \/ LookupPurge(r) \/ PurgeCommit(r)
      PROVE  \A e \in Envelopes : RowStep(e)
  <2>1. now[r] \in 1..clock
    BY <1>4 DEF MailboxPage, LookupPurge, PurgeCommit, TimesRead
  <2>2. \A e \in Envelopes : row'[e] \in {row[e], Purged(row[e], now[r])}
    BY <1>4 DEF MailboxPage, LookupPurge, PurgeCommit
  <2> QED
    BY <2>1, <2>2 DEF RowStep
<1> QED
  BY <1>1, <1>2, <1>3, <1>4
     DEF Next, vars, AllEnded, Tick, StartAck, StartMailbox, StartPurge, Start,
         MailboxPurge, LookupLoad, PurgeLock, Rollback

----------------------------------------------------------------------------
(* Type correctness *)

\* The control state of a transaction.
Labels == {"start", "ack", "mailbox", "page", "lookup", "purge", "purge_commit", "end"}

\* The initial state has its types.
LEMMA InitType == Init => TypeOK /\ TimesRead
<1> SUFFICES ASSUME Init PROVE TypeOK /\ TimesRead
  OBVIOUS
<1>1. NoRow \in Row /\ 1 \in 1..MaxTime
  BY StoreAssumption DEF NoRow, Row
<1> QED
  BY <1>1 DEF Init, TypeOK, TimesRead

\* A changed row is well formed.
LEMMA RowType ==
  ASSUME TypeOK, NEW e \in Envelopes, RowStep(e)
  PROVE  row'[e] \in Row
<1>1. row[e] \in Row /\ clock \in Nat /\ clock # 0 /\ (1..clock) \subseteq Nat
  BY StoreAssumption DEF TypeOK
<1>2. \A t \in 1..clock : Acknowledged(row[e], t) \in Row /\ Purged(row[e], t) \in Row
  BY <1>1, AcknowledgedRow, PurgedRow
<1>3. Fresh(clock) \in Row
  BY <1>1, NewRow
<1> QED
  BY <1>1, <1>2, <1>3 DEF RowStep

\* Every step keeps the types, and the clocks that were read are in the past.
LEMMA NextType == TypeOK /\ TimesRead /\ [Next]_vars => TypeOK' /\ TimesRead'
<1> SUFFICES ASSUME TypeOK, TimesRead, [Next]_vars PROVE TypeOK' /\ TimesRead'
  OBVIOUS
<1>0. clock \in Nat /\ clock # 0 /\ MaxTime \in Nat
  BY StoreAssumption DEF TypeOK
<1>1. row' \in [Envelopes -> Row]
  <2>1. \A e \in Envelopes : row'[e] \in Row
    BY NextRows, RowType
  <2>2. row' = [e \in Envelopes |-> row'[e]]
    BY DEF Next, vars, AllEnded, Tick, Store, StartAck, StartMailbox, StartPurge, Start,
           Acknowledge, MailboxPurge, MailboxPage, LookupLoad, LookupPurge, PurgeLock,
           PurgeCommit, Rollback, TypeOK
  <2> QED
    BY <2>1, <2>2
<1>2. clock' \in 1..MaxTime /\ clock' >= clock
  <2>1. CASE Tick
    BY <1>0, <2>1 DEF Tick, TypeOK
  <2>2. ASSUME NEW r \in Requests,
               \/ StartAck(r) \/ StartMailbox(r) \/ StartPurge(r)
               \/ Acknowledge(r) \/ MailboxPurge(r) \/ MailboxPage(r)
               \/ LookupLoad(r) \/ LookupPurge(r) \/ PurgeLock(r) \/ PurgeCommit(r)
               \/ Rollback(r)
        PROVE  clock' = clock
    BY <2>2
       DEF StartAck, StartMailbox, StartPurge, Start, Acknowledge, MailboxPurge,
           MailboxPage, LookupLoad, LookupPurge, PurgeLock, PurgeCommit, Rollback
  <2>3. Tick \/ clock' = clock
    BY <2>2 DEF Next, Store, AllEnded, vars
  <2> QED
    BY <1>0, <2>1, <2>3 DEF TypeOK
<1>3. rowLock' \in [Envelopes -> Requests \cup {Free}]
  BY DEF Next, vars, AllEnded, Tick, Store, StartAck, StartMailbox, StartPurge, Start,
         Acknowledge, MailboxPurge, MailboxPage, LookupLoad, LookupPurge, PurgeLock,
         PurgeCommit, Rollback, TypeOK, Unlock
<1>4. scope' \in [Requests -> SUBSET Envelopes]
  <2>1. ASSUME NEW r \in Requests,
               \/ StartAck(r) \/ StartMailbox(r) \/ StartPurge(r) \/ LookupLoad(r)
               \/ PurgeLock(r)
        PROVE  \E rows \in SUBSET Envelopes : scope' = [scope EXCEPT ![r] = rows]
    <3>1. CASE StartAck(r) \/ StartMailbox(r) \/ StartPurge(r)
      BY <3>1 DEF StartAck, StartMailbox, StartPurge, Start
    <3>2. CASE LookupLoad(r)
      BY <3>2 DEF LookupLoad
    <3>3. CASE PurgeLock(r)
      BY <3>3 DEF PurgeLock
    <3> QED
      BY <2>1, <3>1, <3>2, <3>3
  <2>2. CASE UNCHANGED scope
    BY <2>2 DEF TypeOK
  <2>3. CASE \E r \in Requests, rows \in SUBSET Envelopes :
               scope' = [scope EXCEPT ![r] = rows]
    BY <2>3 DEF TypeOK
  <2> QED
    BY <2>1, <2>2, <2>3
       DEF Next, vars, AllEnded, Tick, Store, Acknowledge, MailboxPurge, MailboxPage,
           LookupPurge, PurgeCommit, Rollback
<1>5. pc' \in [Requests -> Labels]
  <2>1. ASSUME NEW r \in Requests,
               \/ StartAck(r) \/ StartMailbox(r) \/ StartPurge(r)
               \/ Acknowledge(r) \/ MailboxPurge(r) \/ MailboxPage(r)
               \/ LookupLoad(r) \/ LookupPurge(r) \/ PurgeLock(r) \/ PurgeCommit(r)
               \/ Rollback(r)
        PROVE  \E label \in Labels : Goto(r, label)
    <3>1. CASE StartAck(r) \/ StartMailbox(r) \/ StartPurge(r)
      BY <3>1, StoreAssumption DEF StartAck, StartMailbox, StartPurge, Start, Labels
    <3>2. CASE Acknowledge(r) \/ MailboxPurge(r) \/ MailboxPage(r)
      BY <3>2 DEF Acknowledge, MailboxPurge, MailboxPage, Labels
    <3>3. CASE LookupLoad(r) \/ LookupPurge(r)
      BY <3>3 DEF LookupLoad, LookupPurge, Labels
    <3>4. CASE PurgeLock(r) \/ PurgeCommit(r) \/ Rollback(r)
      BY <3>4 DEF PurgeLock, PurgeCommit, Rollback, Labels
    <3> QED
      BY <2>1, <3>1, <3>2, <3>3, <3>4
  <2>2. CASE UNCHANGED pc
    BY <2>2 DEF TypeOK, Labels
  <2>3. CASE \E r \in Requests, label \in Labels : Goto(r, label)
    BY <2>3 DEF TypeOK, Goto, Labels
  <2> QED
    BY <2>1, <2>2, <2>3 DEF Next, vars, AllEnded, Tick, Store
<1>6. now' \in [Requests -> Nat]
  BY <1>0 DEF Next, vars, AllEnded, Tick, Store, StartAck, StartMailbox, StartPurge, Start,
         Acknowledge, MailboxPurge, MailboxPage, LookupLoad, LookupPurge, PurgeLock,
         PurgeCommit, Rollback, TypeOK
<1>7. TimesRead'
  <2> SUFFICES ASSUME NEW r \in Requests, pc'[r] # "start" PROVE now'[r] \in 1..clock'
    BY DEF TimesRead
  <2>1. (pc[r] # "start" /\ now'[r] = now[r]) \/ now'[r] = clock
    BY DEF Next, vars, AllEnded, Tick, Store, StartAck, StartMailbox, StartPurge, Start,
         Acknowledge, MailboxPurge, MailboxPage, LookupLoad, LookupPurge, PurgeLock,
         PurgeCommit, Rollback, TypeOK, Goto
  <2> QED
    BY <1>0, <1>2, <2>1 DEF TimesRead
<1> QED
  BY <1>1, <1>2, <1>3, <1>4, <1>5, <1>6, <1>7 DEF TypeOK, Labels

----------------------------------------------------------------------------
(* The payload, its receipt and its purge *)

\* A row that satisfies PayloadKeptUntilDue.
RowOK(x) ==
    x.expires # 0 =>
        /\ x.payload = (x.purged = 0)
        /\ x.delivered # 0 => ~x.payload
        /\ ~x.payload => x.delivered # 0 \/ x.purged >= x.expires

\* A changed row keeps the CHECK constraint, its first times, and a payload that is gone stays gone.
LEMMA RowStepOK ==
  ASSUME TypeOK, NEW e \in Envelopes, RowStep(e), RowOK(row[e])
  PROVE  /\ RowOK(row'[e])
         /\ Exists(e) => /\ row[e].delivered # 0 => row'[e].delivered = row[e].delivered
                         /\ row[e].purged # 0 => row'[e].purged = row[e].purged
                         /\ row'[e].payload => row[e].payload
<1> DEFINE x == row[e]
           Kept(y) == x.expires # 0 => /\ x.delivered # 0 => y.delivered = x.delivered
                                       /\ x.purged # 0 => y.purged = x.purged
                                       /\ y.payload => x.payload
<1>1. /\ x \in Row /\ clock \in Nat /\ clock # 0
      /\ \A t \in 1..clock : t \in Nat /\ t # 0
  BY StoreAssumption DEF TypeOK
<1>2. x.expires \in Nat /\ x.delivered \in Nat /\ x.purged \in Nat /\ x.payload \in BOOLEAN
  BY <1>1 DEF Row
<1>3. CASE row'[e] = x
  BY <1>3 DEF Exists
<1>4. CASE ~Exists(e) /\ row'[e] = Fresh(clock)
  BY <1>1, <1>4, NewRow DEF RowOK, Exists
<1>5. ASSUME NEW t \in 1..clock, row'[e] = Acknowledged(x, t)
      PROVE  RowOK(row'[e]) /\ Kept(row'[e])
  <2> DEFINE y == row'[e]
  <2>1. /\ y.expires = x.expires /\ y.payload = FALSE
        /\ y.delivered = Coalesce(x.delivered, t) /\ y.purged = Coalesce(x.purged, t)
    <3>1. t \in Nat /\ x \in Row
      BY <1>1
    <3> QED
      <4>1. y = Acknowledged(x, t)
        BY <1>5
      <4> HIDE DEF x, y
      <4> QED
        BY <3>1, <4>1, AcknowledgedRow
  <2>2. y.delivered # 0 /\ y.purged # 0
    BY <1>1, <1>2, <2>1 DEF Coalesce
  <2>3. RowOK(y)
    BY <2>1, <2>2 DEF RowOK
  <2>4. Kept(y)
    BY <2>1 DEF Coalesce
  <2> QED
    BY <2>3, <2>4
<1>6. ASSUME NEW t \in 1..clock, row'[e] = Purged(x, t)
      PROVE  RowOK(row'[e]) /\ Kept(row'[e])
  <2>1. CASE Due(x, t)
    <3> DEFINE y == row'[e]
    <3>1. /\ y.expires = x.expires /\ y.payload = FALSE
          /\ y.delivered = x.delivered /\ y.purged = t
      <4>1. t \in Nat /\ x \in Row
        BY <1>1
      <4> QED
        <5>1. y = Purged(x, t)
          BY <1>6
        <5> HIDE DEF x, y
        <5> QED
          BY <2>1, <4>1, <5>1, PurgedRow
    <3>2. x.payload /\ x.expires <= t /\ t \in Nat /\ t # 0
      BY <1>1, <2>1 DEF Due
    <3>3. RowOK(y)
      <4>1. y.purged >= y.expires /\ y.purged # 0
        BY <1>2, <3>1, <3>2
      <4> QED
        BY <3>1, <4>1 DEF RowOK
    <3>4. Kept(y)
      <4>1. x.expires # 0 => x.purged = 0
        BY <3>2 DEF RowOK
      <4> QED
        BY <3>1, <4>1
    <3> QED
      BY <3>3, <3>4
  <2>2. CASE ~Due(x, t)
    BY <1>1, <1>6, <2>2, PurgedRow
  <2> QED
    BY <2>1, <2>2
<1> QED
  BY <1>3, <1>4, <1>5, <1>6 DEF RowStep, Exists

RowsOK == \A e \in Envelopes : RowOK(row[e])

\* There are no rows at first.
LEMMA RowsInit == Init => RowsOK
  BY DEF Init, RowsOK, RowOK, NoRow

\* Every step keeps every row in order.
LEMMA RowsNext == TypeOK /\ TimesRead /\ RowsOK /\ [Next]_vars => RowsOK'
<1> SUFFICES ASSUME TypeOK, TimesRead, RowsOK, [Next]_vars PROVE RowsOK'
  OBVIOUS
<1>1. \A e \in Envelopes : RowStep(e)
  BY NextRows
<1> QED
  BY <1>1, RowStepOK DEF RowsOK

\* The inductive invariant of the envelope rows holds in every reachable state.
THEOREM Invariance == Spec => [](TypeOK /\ TimesRead /\ RowsOK)
  BY InitType, NextType, RowsInit, RowsNext, PTL DEF Spec

\* Type correctness of the rows and of the transactions.
THEOREM TypeCorrect == Spec => []TypeOK
  BY Invariance, PTL

\* No transaction removes a payload before its own device's ACK or its expiry,
\* and every committed row satisfies the CHECK constraint of the table.
THEOREM PayloadKept == Spec => []PayloadKeptUntilDue
<1>1. RowsOK => PayloadKeptUntilDue
  BY DEF RowsOK, RowOK, PayloadKeptUntilDue, Exists
<1> QED
  BY <1>1, Invariance, PTL

\* The first receipt and purge times survive every retry and every race of an
\* ACK with a purge, and a payload that is gone stays gone.
THEOREM FirstTimes == Spec => FirstTimesKept
<1>1. TypeOK /\ TimesRead /\ RowsOK /\ [Next]_vars =>
        [\A e \in Envelopes : Exists(e) =>
            /\ row[e].delivered # 0 => row'[e].delivered = row[e].delivered
            /\ row[e].purged # 0 => row'[e].purged = row[e].purged
            /\ row'[e].payload => row[e].payload]_vars
  BY NextRows, RowStepOK DEF RowsOK
<1> QED
  BY <1>1, Invariance, PTL DEF Spec, FirstTimesKept

----------------------------------------------------------------------------
(* A mailbox page *)

\* Until its commit a page holds the lock of every expired row of its device.
PageLocked ==
    \A r \in Requests : Kind[r] = "mailbox" /\ pc[r] = "page" =>
        \A e \in scope[r] : Due(row[e], now[r]) => rowLock[e] = r
HeldType == held = [r \in Requests |-> held[r]]
PageInv == HeldType /\ PageLocked /\ PageHidesExpired

\* A row does not become due for a time that has been read already.
LEMMA DueBefore ==
  ASSUME TypeOK, NEW e \in Envelopes, RowStep(e), NEW t \in 1..clock, Due(row'[e], t)
  PROVE  Due(row[e], t)
<1> DEFINE x == row[e]
           y == row'[e]
<1>1. /\ x \in Row /\ clock \in Nat /\ clock # 0 /\ t <= clock
      /\ \A n \in 1..clock : n \in Nat /\ n # 0
  BY StoreAssumption DEF TypeOK
<1>2. y.payload /\ y.expires <= t
  BY DEF Due
<1>3. CASE y = x
  BY <1>2, <1>3 DEF Due
<1>4. y # Fresh(clock)
  <2>1. Retention \in Nat /\ Retention # 0 /\ t \in Nat
    BY <1>1, StoreAssumption
  <2>2. ASSUME y = Fresh(clock) PROVE FALSE
    <3>1. y.expires = clock + Retention
      BY <1>1, <2>2, NewRow
    <3> QED
      BY <1>1, <1>2, <2>1, <3>1
  <2> QED
    BY <2>2
<1>5. ASSUME NEW n \in 1..clock, y = Acknowledged(x, n) PROVE FALSE
  <2>1. n \in Nat
    BY <1>1
  <2>2. y.payload = FALSE
    <3> HIDE DEF x, y
    <3> QED
      BY <1>1, <1>5, <2>1, AcknowledgedRow
  <2> QED
    BY <1>2, <2>2
<1>6. ASSUME NEW n \in 1..clock, y = Purged(x, n) PROVE y = x
  <2>1. n \in Nat
    BY <1>1
  <2>2. Due(x, n) => y.payload = FALSE
    <3> HIDE DEF x, y
    <3> QED
      BY <1>1, <1>6, <2>1, PurgedRow
  <2>3. ~Due(x, n) => y = x
    <3> HIDE DEF x, y
    <3> QED
      BY <1>1, <1>6, <2>1, PurgedRow
  <2> QED
    BY <1>2, <2>2, <2>3
<1> QED
  BY <1>3, <1>4, <1>5, <1>6 DEF RowStep

\* Nothing of a transaction q changes in a step of another one; a lock it holds
\* stays with it.
LEMMA OtherUntouched ==
  ASSUME TypeOK, HeldType, [Next]_vars, NEW q \in Requests,
         ~\/ StartAck(q) \/ StartMailbox(q) \/ StartPurge(q)
          \/ Acknowledge(q) \/ MailboxPurge(q) \/ MailboxPage(q)
          \/ LookupLoad(q) \/ LookupPurge(q) \/ PurgeLock(q) \/ PurgeCommit(q)
          \/ Rollback(q)
  PROVE  /\ pc'[q] = pc[q] /\ scope'[q] = scope[q] /\ now'[q] = now[q]
         /\ held'[q] = held[q]
         /\ \A e \in Envelopes : rowLock[e] = q => rowLock'[e] = q
<1>1. ASSUME NEW r \in Requests, r # q,
             \/ StartAck(r) \/ StartMailbox(r) \/ StartPurge(r)
             \/ Acknowledge(r) \/ MailboxPurge(r) \/ MailboxPage(r)
             \/ LookupLoad(r) \/ LookupPurge(r) \/ PurgeLock(r) \/ PurgeCommit(r)
             \/ Rollback(r)
      PROVE  /\ pc'[q] = pc[q] /\ scope'[q] = scope[q] /\ now'[q] = now[q]
             /\ held'[q] = held[q]
             /\ \A e \in Envelopes : rowLock[e] = q => rowLock'[e] = q
  <2>1. CASE StartAck(r) \/ StartMailbox(r) \/ StartPurge(r)
    BY <1>1, <2>1 DEF StartAck, StartMailbox, StartPurge, Start, Goto, TypeOK
  <2>2. CASE Acknowledge(r) \/ LookupPurge(r)
    BY <1>1, <2>2 DEF Acknowledge, LookupPurge, Goto, TypeOK, HeldType
  <2>3. CASE MailboxPage(r) \/ PurgeCommit(r) \/ Rollback(r)
    BY <1>1, <2>3 DEF MailboxPage, PurgeCommit, Rollback, Unlock, Goto, TypeOK, HeldType
  <2>4. CASE LookupLoad(r)
    BY <1>1, <2>4 DEF LookupLoad, Goto, TypeOK, HeldType
  <2>5. CASE MailboxPurge(r)
    BY <1>1, <2>5, StoreAssumption DEF MailboxPurge, Goto, TypeOK
  <2>6. CASE PurgeLock(r)
    BY <1>1, <2>6, StoreAssumption DEF PurgeLock, Goto, TypeOK
  <2> QED
    BY <1>1, <2>1, <2>2, <2>3, <2>4, <2>5, <2>6
<1>2. CASE Tick \/ (\E m \in Messages : Store(m)) \/ AllEnded \/ UNCHANGED vars
  BY <1>2 DEF Tick, Store, AllEnded, vars
<1> QED
  BY <1>1, <1>2 DEF Next

\* Every step keeps what a mailbox page knows under its row locks.
LEMMA PageNext ==
  TypeOK /\ TimesRead /\ PageInv /\ [Next]_vars => PageInv'
<1> SUFFICES ASSUME TypeOK, TimesRead, PageInv, [Next]_vars PROVE PageInv'
  OBVIOUS
<1>0. HeldType /\ PageLocked /\ PageHidesExpired /\ \A e \in Envelopes : RowStep(e)
  BY NextRows DEF PageInv
<1>1. HeldType'
  <2>1. held' = held \/ \E r \in Requests : \E f : held' = [held EXCEPT ![r] = f]
    BY DEF Next, vars, AllEnded, Tick, Store, StartAck, StartMailbox, StartPurge, Start,
           Acknowledge, MailboxPurge, MailboxPage, LookupLoad, LookupPurge, PurgeLock,
           PurgeCommit, Rollback
  <2> QED
    BY <1>0, <2>1 DEF HeldType
<1>2. PageLocked'
  <2> SUFFICES ASSUME NEW q \in Requests, Kind[q] = "mailbox", pc'[q] = "page",
                      NEW e \in scope'[q], Due(row'[e], now'[q])
               PROVE  rowLock'[e] = q
    BY DEF PageLocked
  <2>1. CASE MailboxPurge(q)
    BY <2>1 DEF MailboxPurge, TypeOK
  <2>2. CASE ~MailboxPurge(q)
    <3>1. ~\/ StartAck(q) \/ StartMailbox(q) \/ StartPurge(q)
           \/ Acknowledge(q) \/ MailboxPurge(q) \/ MailboxPage(q)
           \/ LookupLoad(q) \/ LookupPurge(q) \/ PurgeLock(q) \/ PurgeCommit(q)
           \/ Rollback(q)
      BY <2>2 DEF StartAck, StartMailbox, StartPurge, Start, Acknowledge, MailboxPage,
           LookupLoad, LookupPurge, PurgeLock, PurgeCommit, Rollback, Goto, TypeOK
    <3>2. /\ pc[q] = "page" /\ scope'[q] = scope[q] /\ now'[q] = now[q]
          /\ \A f \in Envelopes : rowLock[f] = q => rowLock'[f] = q
      BY <1>0, <3>1, OtherUntouched
    <3>3. e \in Envelopes /\ e \in scope[q] /\ now[q] \in 1..clock
      BY <3>2 DEF TypeOK, TimesRead
    <3>4. Due(row[e], now[q])
      BY <1>0, <3>2, <3>3, DueBefore
    <3> QED
      BY <1>0, <3>2, <3>3, <3>4 DEF PageLocked
  <2> QED
    BY <2>1, <2>2
<1>3. PageHidesExpired'
  <2> SUFFICES ASSUME NEW q \in Requests, Kind[q] = "mailbox", pc'[q] = "end",
                      NEW e \in DOMAIN held'[q]
               PROVE  ~Due(held'[q][e], now'[q])
    BY DEF PageHidesExpired
  <2>1. CASE MailboxPage(q)
    <3>0. /\ held' = [held EXCEPT ![q] = [f \in {x \in scope[q] : Exists(x)} |-> row'[f]]]
          /\ row' = [f \in Envelopes |-> IF rowLock[f] = q THEN Purged(row[f], now[q])
                                                           ELSE row[f]]
          /\ pc[q] = "page" /\ now' = now
      BY <2>1 DEF MailboxPage
    <3>1. held'[q] = [f \in {x \in scope[q] : Exists(x)} |-> row'[f]]
      BY <1>0, <3>0 DEF HeldType
    <3>2. e \in scope[q] /\ held'[q][e] = row'[e]
      BY <3>1
    <3>3. e \in Envelopes /\ row[e] \in Row /\ now[q] \in Nat
      BY <3>2 DEF TypeOK
    <3>4. CASE Due(row[e], now[q])
      <4>1. row'[e] = Purged(row[e], now[q])
        BY <1>0, <3>0, <3>2, <3>3, <3>4 DEF PageLocked
      <4>2. Purged(row[e], now[q]).payload = FALSE
        BY <3>3, <3>4, PurgedRow
      <4> QED
        BY <3>0, <3>2, <4>1, <4>2 DEF Due
    <3>5. CASE ~Due(row[e], now[q])
      <4>1. row'[e] = row[e]
        BY <3>0, <3>3, <3>5, PurgedRow
      <4> QED
        BY <3>0, <3>2, <3>5, <4>1
    <3> QED
      BY <3>4, <3>5
  <2>2. CASE Rollback(q)
    <3>1. held'[q] = <<>>
      BY <1>0, <2>2 DEF Rollback, HeldType
    <3> QED
      BY <3>1
  <2>3. CASE ~MailboxPage(q) /\ ~Rollback(q)
    <3>1. ~\/ StartAck(q) \/ StartMailbox(q) \/ StartPurge(q)
           \/ Acknowledge(q) \/ MailboxPurge(q) \/ MailboxPage(q)
           \/ LookupLoad(q) \/ LookupPurge(q) \/ PurgeLock(q) \/ PurgeCommit(q)
           \/ Rollback(q)
      BY <2>3 DEF StartAck, StartMailbox, StartPurge, Start, Acknowledge, MailboxPurge,
           LookupLoad, LookupPurge, PurgeLock, PurgeCommit, Goto, TypeOK
    <3>2. pc[q] = "end" /\ held'[q] = held[q] /\ now'[q] = now[q]
      BY <1>0, <3>1, OtherUntouched
    <3> QED
      BY <1>0, <3>2 DEF PageHidesExpired
  <2> QED
    BY <2>1, <2>2, <2>3
<1> QED
  BY <1>1, <1>2, <1>3 DEF PageInv

\* MessageService.mailbox returns no payload that had expired when it read the
\* clock, although deliveries, ACKs and other purges commit in between.
THEOREM PagesHideExpired == Spec => []PageHidesExpired
<1>1. Init => PageInv
  BY DEF Init, PageInv, HeldType, PageLocked, PageHidesExpired
<1>2. PageInv => PageHidesExpired
  BY DEF PageInv
<1> QED
  BY <1>1, <1>2, PageNext, Invariance, PTL DEF Spec

----------------------------------------------------------------------------
(* A lookup *)

\* The rows that a lookup has loaded exist, and keep their expiry.
LookupSeen ==
    \A r \in Requests : Kind[r] = "lookup" /\ pc[r] \in {"lookup", "end"} =>
        \A e \in DOMAIN held[r] : e \in Envelopes /\ row[e].expires # 0
LookupLoaded ==
    \A r \in Requests : Kind[r] = "lookup" /\ pc[r] = "lookup" =>
        /\ DOMAIN held[r] = scope[r]
        /\ \A e \in scope[r] : held[r][e] \in Row /\ held[r][e].expires = row[e].expires
LookupInv == HeldType /\ LookupSeen /\ LookupLoaded /\ LookupPurgesFirst

\* A row that exists keeps its expiry, and a payload that is gone stays away.
LEMMA RowKept ==
  ASSUME TypeOK, NEW e \in Envelopes, RowStep(e), row[e].expires # 0
  PROVE  /\ row'[e].expires = row[e].expires
         /\ row'[e].payload => row[e].payload
<1> DEFINE x == row[e]
           y == row'[e]
<1>1. x \in Row /\ \A n \in 1..clock : n \in Nat
  BY DEF TypeOK
<1>2. ASSUME NEW n \in 1..clock, y = Acknowledged(x, n)
      PROVE  y.expires = x.expires /\ y.payload = FALSE
  <2> HIDE DEF x, y
  <2> QED
    BY <1>1, <1>2, AcknowledgedRow
<1>3. ASSUME NEW n \in 1..clock, y = Purged(x, n)
      PROVE  y.expires = x.expires /\ (y.payload => x.payload)
  <2> HIDE DEF x, y
  <2> QED
    BY <1>1, <1>3, PurgedRow
<1>4. ~(~Exists(e))
  BY DEF Exists
<1> QED
  BY <1>2, <1>3, <1>4 DEF RowStep

\* Every step keeps what a lookup knows of the rows it has loaded.
LEMMA LookupNext ==
  TypeOK /\ TimesRead /\ LookupInv /\ HeldType' /\ [Next]_vars => LookupInv'
<1> SUFFICES ASSUME TypeOK, TimesRead, LookupInv, HeldType', [Next]_vars PROVE LookupInv'
  OBVIOUS
<1>0. /\ HeldType /\ LookupSeen /\ LookupLoaded /\ LookupPurgesFirst
      /\ \A e \in Envelopes : RowStep(e)
  BY NextRows DEF LookupInv
<1>1. ASSUME NEW q \in Requests, Kind[q] = "lookup", pc'[q] \in {"lookup", "end"},
             ~LookupLoad(q), ~LookupPurge(q), ~Rollback(q)
      PROVE  /\ pc'[q] = pc[q] /\ scope'[q] = scope[q] /\ now'[q] = now[q]
             /\ held'[q] = held[q]
  <2>1. ~\/ StartAck(q) \/ StartMailbox(q) \/ StartPurge(q)
         \/ Acknowledge(q) \/ MailboxPurge(q) \/ MailboxPage(q)
         \/ LookupLoad(q) \/ LookupPurge(q) \/ PurgeLock(q) \/ PurgeCommit(q)
         \/ Rollback(q)
    BY <1>1 DEF StartAck, StartMailbox, StartPurge, Acknowledge, MailboxPurge, MailboxPage,
         PurgeLock, PurgeCommit
  <2> QED
    BY <1>0, <2>1, OtherUntouched
<1>2. ASSUME NEW q \in Requests, Rollback(q)
      PROVE  held'[q] = <<>> /\ pc'[q] = "end"
  BY <1>0, <1>2 DEF Rollback, HeldType, Goto, TypeOK
<1>3. ASSUME NEW q \in Requests, LookupLoad(q)
      PROVE  /\ pc'[q] = "lookup" /\ row' = row /\ scope'[q] \subseteq Envelopes
             /\ held'[q] = [e \in scope'[q] |-> row[e]]
             /\ \A e \in scope'[q] : row[e].expires # 0
  <2>1. PICK m \in Messages :
          LET rows == {e \in Envelopes : MessageOf[e] = m}
          IN /\ \A e \in rows : Exists(e)
             /\ scope' = [scope EXCEPT ![q] = rows]
             /\ held' = [held EXCEPT ![q] = [e \in rows |-> row[e]]]
    BY <1>3 DEF LookupLoad
  <2>2. pc'[q] = "lookup" /\ row' = row
    BY <1>3 DEF LookupLoad, Goto, TypeOK
  <2>3. scope'[q] = {e \in Envelopes : MessageOf[e] = m}
    BY <2>1 DEF TypeOK
  <2>4. held'[q] = [e \in {f \in Envelopes : MessageOf[f] = m} |-> row[e]]
    BY <1>0, <2>1 DEF HeldType
  <2> QED
    BY <2>1, <2>2, <2>3, <2>4 DEF Exists
<1>4. ASSUME NEW q \in Requests, LookupPurge(q)
      PROVE  /\ pc[q] = "lookup" /\ pc'[q] = "end" /\ now'[q] = now[q]
             /\ \A e \in scope[q] : row'[e] = Purged(row[e], now[q])
             /\ held'[q] = [e \in scope[q] |->
                    IF Due(row[e], now[q]) THEN Purged(held[q][e], now[q]) ELSE held[q][e]]
  BY <1>0, <1>4 DEF LookupPurge, HeldType, Goto, TypeOK
<1>5. LookupSeen'
  <2> SUFFICES ASSUME NEW q \in Requests, Kind[q] = "lookup", pc'[q] \in {"lookup", "end"},
                      NEW e \in DOMAIN held'[q]
               PROVE  e \in Envelopes /\ row'[e].expires # 0
    BY DEF LookupSeen
  <2>1. CASE LookupLoad(q)
    BY <1>3, <2>1
  <2>2. CASE Rollback(q)
    BY <1>2, <2>2
  <2>3. CASE ~LookupLoad(q) /\ ~Rollback(q)
    <3>1. e \in DOMAIN held[q] /\ pc[q] \in {"lookup", "end"}
      BY <1>0, <1>1, <1>4, <2>3 DEF LookupLoaded
    <3>2. e \in Envelopes /\ row[e].expires # 0
      BY <1>0, <3>1 DEF LookupSeen
    <3> QED
      BY <1>0, <3>2, RowKept
  <2> QED
    BY <2>1, <2>2, <2>3
<1>6. LookupLoaded'
  <2> SUFFICES ASSUME NEW q \in Requests, Kind[q] = "lookup", pc'[q] = "lookup"
               PROVE  /\ DOMAIN held'[q] = scope'[q]
                      /\ \A e \in scope'[q] :
                            held'[q][e] \in Row /\ held'[q][e].expires = row'[e].expires
    BY DEF LookupLoaded
  <2>1. CASE LookupLoad(q)
    <3>1. /\ row' = row /\ scope'[q] \subseteq Envelopes
          /\ held'[q] = [e \in scope'[q] |-> row[e]]
      BY <1>3, <2>1
    <3>2. \A e \in scope'[q] : row[e] \in Row
      BY <3>1 DEF TypeOK
    <3> QED
      BY <3>1, <3>2
  <2>2. CASE ~LookupLoad(q)
    <3>1. ~LookupPurge(q) /\ ~Rollback(q)
      BY <1>2, <1>4
    <3>2. pc[q] = "lookup" /\ scope'[q] = scope[q] /\ held'[q] = held[q]
      BY <1>1, <2>2, <3>1
    <3>3. /\ DOMAIN held[q] = scope[q]
          /\ \A e \in scope[q] :
                held[q][e] \in Row /\ held[q][e].expires = row[e].expires
      BY <1>0, <3>2 DEF LookupLoaded
    <3>4. \A e \in scope[q] : e \in Envelopes /\ row[e].expires # 0
      BY <1>0, <3>2, <3>3 DEF LookupSeen
    <3>5. \A e \in scope[q] : row'[e].expires = row[e].expires
      BY <1>0, <3>4, RowKept
    <3> QED
      BY <3>2, <3>3, <3>5
  <2> QED
    BY <2>1, <2>2
<1>7. LookupPurgesFirst'
  <2> SUFFICES ASSUME NEW q \in Requests, Kind[q] = "lookup", pc'[q] = "end",
                      NEW e \in DOMAIN held'[q], Due(held'[q][e], now'[q])
               PROVE  ~row'[e].payload
    BY DEF LookupPurgesFirst
  <2>1. CASE LookupPurge(q)
    <3>1. e \in scope[q] /\ pc[q] = "lookup" /\ now'[q] = now[q]
      BY <1>4, <2>1
    <3>2. e \in Envelopes /\ row[e] \in Row /\ now[q] \in Nat
      BY <3>1 DEF TypeOK
    <3>3. held[q][e] \in Row /\ held[q][e].expires = row[e].expires
      BY <1>0, <3>1 DEF LookupLoaded
    <3>4. CASE Due(row[e], now[q])
      <4>1. Purged(row[e], now[q]).payload = FALSE
        BY <3>2, <3>4, PurgedRow
      <4> QED
        BY <1>4, <2>1, <3>1, <4>1
    <3>5. CASE ~Due(row[e], now[q])
      <4>1. held'[q][e] = held[q][e]
        BY <1>4, <2>1, <3>1, <3>5
      <4>2. ~row[e].payload
        BY <3>1, <3>3, <3>5, <4>1 DEF Due
      <4>3. row'[e] = row[e]
        <5>1. row'[e] = Purged(row[e], now[q])
          BY <1>4, <2>1, <3>1
        <5>2. Purged(row[e], now[q]) = row[e]
          BY <3>2, <3>5, PurgedRow
        <5> QED
          BY <5>1, <5>2
      <4> QED
        BY <4>2, <4>3
    <3> QED
      BY <3>4, <3>5
  <2>2. CASE Rollback(q)
    BY <1>2, <2>2
  <2>3. CASE ~LookupPurge(q) /\ ~Rollback(q)
    <3>1. ~LookupLoad(q)
      BY <1>3
    <3>2. pc[q] = "end" /\ held'[q] = held[q] /\ now'[q] = now[q]
      BY <1>1, <2>3, <3>1
    <3>3. e \in Envelopes /\ row[e].expires # 0 /\ ~row[e].payload
      BY <1>0, <3>2 DEF LookupSeen, LookupPurgesFirst
    <3> QED
      BY <1>0, <3>3, RowKept
  <2> QED
    BY <2>1, <2>2, <2>3
<1> QED
  BY <1>5, <1>6, <1>7 DEF LookupInv

\* MessageService.lookup purges before it answers: whatever commits between its
\* two reads, an expired payload in its answer is no longer stored.
THEOREM LookupsPurgeFirst == Spec => []LookupPurgesFirst
<1>1. Init => PageInv /\ LookupInv
  BY DEF Init, PageInv, LookupInv, HeldType, PageLocked, PageHidesExpired, LookupSeen,
         LookupLoaded, LookupPurgesFirst
<1>2. TypeOK /\ TimesRead /\ PageInv /\ LookupInv /\ [Next]_vars => PageInv' /\ LookupInv'
  BY PageNext, LookupNext DEF PageInv
<1>3. LookupInv => LookupPurgesFirst
  BY DEF LookupInv
<1> QED
  BY <1>1, <1>2, <1>3, Invariance, PTL DEF Spec

\* No answer of MessageService, page or lookup, offers an expired payload that is
\* still stored.
THEOREM AnswersAreCurrent == Spec => []AnswersCurrent
<1>1. PageHidesExpired /\ LookupPurgesFirst => AnswersCurrent
  BY DEF AnswersCurrent
<1> QED
  BY <1>1, PagesHideExpired, LookupsPurgeFirst, PTL
=============================================================================
