----------------------------- MODULE ChatProofs -----------------------------
(***************************************************************************)
(* Proofs about the chats: how far each is read (ReadCursors), for any     *)
(* number of tabs, positions, reloads and unpublished results; how the     *)
(* chat of two users is opened (DirectChats), for any number of users and  *)
(* of requests; and what a tab shows of them (ChatStore), for any number   *)
(* of chats, inputs, failures and operations under way.                    *)
(***************************************************************************)
EXTENDS ReadCursors, DirectChats, ChatStore, TLAPS

----------------------------------------------------------------------------
(* Reading a chat: the inductive invariant *)

\* No position of a is ahead of b.
Leq(a, b) == a.local <= b.local /\ a.confirmed <= b.confirmed /\ a.peer <= b.peer

\* The store is behind the server, and what the tabs have read from it behind the store.
StoreTrue ==
    /\ db.confirmed <= server["own"] /\ db.peer <= server["peer"]
    /\ \A t \in Tabs : Leq(shown[t], db)
    /\ \A t \in Tabs : \A r \in todo[t] : Leq(r.state, db)

\* Answers, events and pages under way are behind the server.
CarriedTrue ==
    /\ \A a \in answers : a.seq <= server["own"]
    /\ \A e \in events : e.seq <= server[e.user]
    /\ \A t \in Tabs : \A c \in page[t] : c.seq <= server[c.user]

IInv == TypeOK /\ StoreTrue /\ CarriedTrue

----------------------------------------------------------------------------
(* Facts about the positions *)

\* The larger of two positions is one of them.
LEMMA Max2Facts ==
  ASSUME NEW a \in 0..MaxSeq, NEW b \in 0..MaxSeq
  PROVE  Max2(a, b) \in 0..MaxSeq /\ a <= Max2(a, b) /\ b <= Max2(a, b) /\ Max2(a, b) \in {a, b}
  BY ReadAssumption DEF Max2

\* The positions of a state.
LEMMA StateFields ==
  ASSUME NEW s \in States
  PROVE  /\ s.local \in 0..MaxSeq /\ s.confirmed \in 0..MaxSeq /\ s.peer \in 0..MaxSeq
         /\ s.local \in Nat /\ s.confirmed \in Nat /\ s.peer \in Nat
  BY ReadAssumption DEF States

\* What Join says when it changes nothing.
LEMMA JoinIsBehind ==
  ASSUME NEW d \in States, NEW s \in States
  PROVE  Leq(s, d) => Join(d, s) = d
<1>1. SUFFICES ASSUME Leq(s, d) PROVE Join(d, s) = d
  OBVIOUS
<1>2. /\ Max2(d.local, s.local) = d.local
      /\ Max2(d.confirmed, s.confirmed) = d.confirmed
      /\ Max2(d.peer, s.peer) = d.peer
  BY <1>1, StateFields DEF Leq, Max2
<1>3. d = [local |-> d.local, confirmed |-> d.confirmed, peer |-> d.peer]
  BY DEF States
<1> QED
  BY <1>2, <1>3 DEF Join

\* publish takes the higher positions.
LEMMA JoinFacts ==
  ASSUME NEW a \in States, NEW b \in States
  PROVE  /\ Join(a, b) \in States /\ Leq(a, Join(a, b))
         /\ \A d \in States : Leq(a, d) /\ Leq(b, d) => Leq(Join(a, b), d)
<1>1. /\ Join(a, b).local = Max2(a.local, b.local)
      /\ Join(a, b).confirmed = Max2(a.confirmed, b.confirmed)
      /\ Join(a, b).peer = Max2(a.peer, b.peer)
  BY DEF Join
<1>2. Join(a, b) \in States
  BY StateFields, Max2Facts DEF Join, States
<1>3. Leq(a, Join(a, b))
  BY <1>1, StateFields DEF Leq, Max2
<1>4. ASSUME NEW d \in States, Leq(a, d), Leq(b, d) PROVE Leq(Join(a, b), d)
  BY <1>1, <1>4, StateFields DEF Leq, Max2
<1> QED
  BY <1>2, <1>3, <1>4

\* No position is ahead of itself, and being behind is transitive.
LEMMA LeqOrder ==
  ASSUME NEW a \in States, NEW b \in States, NEW c \in States
  PROVE  Leq(a, a) /\ (Leq(a, b) /\ Leq(b, c) => Leq(a, c))
  BY StateFields DEF Leq

\* mergeChatReadCursor moves one member's positions up to the cursor.
LEMMA MergedFacts ==
  ASSUME NEW s \in States, NEW c, c.user \in Members, c.seq \in 0..MaxSeq
  PROVE  /\ Merged(s, c) \in States /\ Leq(s, Merged(s, c))
         /\ Merged(s, c).confirmed = IF c.user = "own" THEN Max2(s.confirmed, c.seq) ELSE s.confirmed
         /\ Merged(s, c).peer = IF c.user = "own" THEN s.peer ELSE Max2(s.peer, c.seq)
<1>1. CASE c.user = "own"
  <2>1. /\ Merged(s, c) \in States
        /\ Merged(s, c).local = Max2(s.local, c.seq) /\ Merged(s, c).peer = s.peer
        /\ Merged(s, c).confirmed = Max2(s.confirmed, c.seq)
    BY <1>1, StateFields, Max2Facts DEF Merged, States
  <2> QED
    BY <1>1, <2>1, StateFields, ReadAssumption DEF Leq, Max2
<1>2. CASE c.user = "peer"
  <2>1. /\ Merged(s, c) \in States
        /\ Merged(s, c).local = s.local /\ Merged(s, c).confirmed = s.confirmed
        /\ Merged(s, c).peer = Max2(s.peer, c.seq)
    BY <1>2, StateFields, Max2Facts DEF Merged, States
  <2> QED
    BY <1>2, <2>1, StateFields, ReadAssumption DEF Leq, Max2
<1> QED
  BY <1>1, <1>2 DEF Members

\* advanceLocalReadCursor confirms nothing.
LEMMA AdvancedFacts ==
  ASSUME NEW s \in States, NEW n \in 0..MaxSeq
  PROVE  /\ Advanced(s, n) \in States /\ Leq(s, Advanced(s, n))
         /\ Advanced(s, n).confirmed = s.confirmed /\ Advanced(s, n).peer = s.peer
<1>1. /\ Advanced(s, n) \in States /\ Advanced(s, n).local = Max2(s.local, n)
      /\ Advanced(s, n).confirmed = s.confirmed /\ Advanced(s, n).peer = s.peer
  BY StateFields, Max2Facts DEF Advanced, States
<1> QED
  BY <1>1, StateFields, ReadAssumption DEF Leq, Max2

----------------------------------------------------------------------------
(* The types *)

\* The types at the start.
LEMMA InitTypes == Init => TypeOK
<1> SUFFICES ASSUME Init PROVE TypeOK
  OBVIOUS
<1>1. NoState \in States
  BY ReadAssumption DEF NoState, States
<1> QED
  BY <1>1, ReadAssumption DEF Init, TypeOK, Members

\* A transaction writes and returns a state.
LEMMA TransactTypes ==
  ASSUME TypeOK, NEW t \in Tabs, NEW s \in States,
         NEW then \in {"none", "schedule", "flushed", "page", "merge"}, Transact(t, s, then)
  PROVE  /\ db' = s /\ todo' \in [Tabs -> SUBSET Results]
         /\ \A q \in Tabs : \A r \in todo'[q] :
                r \in todo[q] \/ r = [state |-> s, then |-> then]
<1>1. [state |-> s, then |-> then] \in Results
  BY DEF Results
<1> QED
  BY <1>1 DEF Transact, TypeOK

\* ChatReadService.advance.
LEMMA AdvanceTypes ==
  ASSUME TypeOK, NEW m \in Members, NEW n \in Seqs, Advance(m, n)
  PROVE  /\ server' \in [Members -> 0..MaxSeq]
         /\ events' \subseteq [to : Tabs, user : Members, seq : Seqs]
         /\ \A x \in Members : server[x] <= server'[x]
         /\ server'[m] \in Seqs /\ n <= server'[m]
         /\ \A e \in events' : e \in events \/ (e.user = m /\ e.seq = n)
<1>1. n \in 0..MaxSeq /\ server[m] \in 0..MaxSeq /\ \A x \in Members : server[x] \in Nat
  BY ReadAssumption DEF Seqs, TypeOK
<1>2. server' \in [Members -> 0..MaxSeq] /\ server'[m] = Max2(server[m], n)
      /\ \A x \in Members \ {m} : server'[x] = server[x]
  BY <1>1, Max2Facts DEF Advance, TypeOK
<1>3. server'[m] \in Seqs /\ n <= server'[m] /\ server[m] <= server'[m]
  BY <1>1, <1>2, ReadAssumption DEF Max2, Seqs
<1>4. /\ events' \subseteq [to : Tabs, user : Members, seq : Seqs]
      /\ \A e \in events' : e \in events \/ (e.user = m /\ e.seq = n)
  <2>1. CASE events' = events
    BY <2>1 DEF TypeOK
  <2>2. CASE conn # NoTab /\ events' = events \cup {[to |-> conn, user |-> m, seq |-> n]}
    BY <2>2 DEF TypeOK
  <2> QED
    BY <2>1, <2>2 DEF Advance
<1> QED
  BY <1>1, <1>2, <1>3, <1>4

\* A command that is given up has no reader.
LEMMA GiveUpTypes ==
  ASSUME TypeOK, NEW t \in Tabs, GiveUp(t)
  PROVE  /\ flight' \in [Tabs -> 0..MaxSeq]
         /\ wire' \subseteq [from : Tabs \cup {NoTab}, seq : Seqs]
         /\ answers' \subseteq answers
<1>1. flight' \in [Tabs -> 0..MaxSeq] /\ answers' \subseteq answers
  BY ReadAssumption DEF GiveUp, TypeOK
<1>2. ASSUME NEW c \in wire
      PROVE  (IF c.from = t THEN [c EXCEPT !.from = NoTab] ELSE c)
                \in [from : Tabs \cup {NoTab}, seq : Seqs]
  BY DEF TypeOK
<1> QED
  BY <1>1, <1>2 DEF GiveUp

\* flush sends a position that was read, not 0.
LEMMA FlushTypes ==
  ASSUME TypeOK, NEW t \in Tabs, NEW s \in States, NEW timers \in SUBSET Tabs,
         Flush(t, s, timers)
  PROVE  /\ timer' \subseteq Tabs /\ flight' \in [Tabs -> 0..MaxSeq]
         /\ wire' \subseteq [from : Tabs \cup {NoTab}, seq : Seqs]
<1>1. CASE FlushSends(t, s)
  <2>1. s.local \in Seqs /\ s.local \in 0..MaxSeq
    BY <1>1, StateFields, ReadAssumption DEF FlushSends, Unconfirmed, Seqs
  <2> QED
    BY <1>1, <2>1 DEF Flush, TypeOK
<1>2. CASE ~FlushSends(t, s)
  BY <1>2 DEF Flush, TypeOK
<1> QED
  BY <1>1, <1>2

----------------------------------------------------------------------------
(* A step keeps the invariant when positions only grow *)

\* What the server and the store have is not taken back.
Grows ==
    /\ \A m \in Members : server[m] <= server'[m]
    /\ Leq(db, db')

\* A step keeps the invariant if positions only advance and what it puts under way is behind
\* the server.
LEMMA StepKeeps ==
  ASSUME IInv, TypeOK', Grows,
         db'.confirmed <= server'["own"], db'.peer <= server'["peer"],
         \A t \in Tabs : shown'[t] = shown[t] \/ Leq(shown'[t], db'),
         \A t \in Tabs : \A r \in todo'[t] : r \in todo[t] \/ Leq(r.state, db'),
         \A a \in answers' : a \in answers \/ a.seq <= server'["own"],
         \A e \in events' : e \in events \/ e.seq <= server'[e.user],
         \A t \in Tabs : \A c \in page'[t] : c \in page[t] \/ c.seq <= server'[c.user]
  PROVE  IInv'
<1>0. /\ db \in States /\ db' \in States
      /\ \A t \in Tabs : shown[t] \in States
      /\ \A t \in Tabs : \A r \in todo[t] : r.state \in States
      /\ \A m \in Members : server[m] \in Nat /\ server'[m] \in Nat
      /\ \A a \in answers : a.seq \in Nat
      /\ \A e \in events : e.seq \in Nat /\ e.user \in Members
      /\ \A t \in Tabs : \A c \in page[t] : c.seq \in Nat /\ c.user \in Members
  BY ReadAssumption DEF IInv, TypeOK, Results, Seqs, Cursors
<1>1. \A s \in States : Leq(s, db) => Leq(s, db')
  BY <1>0, LeqOrder DEF Grows
<1>2. \A t \in Tabs : Leq(shown'[t], db')
  BY <1>0, <1>1 DEF IInv, StoreTrue
<1>3. \A t \in Tabs : \A r \in todo'[t] : Leq(r.state, db')
  BY <1>0, <1>1 DEF IInv, StoreTrue
<1>4. \A a \in answers' : a.seq <= server'["own"]
  BY <1>0 DEF IInv, CarriedTrue, Grows, Members
<1>5. \A e \in events' : e.seq <= server'[e.user]
  BY <1>0 DEF IInv, CarriedTrue, Grows
<1>6. \A t \in Tabs : \A c \in page'[t] : c.seq <= server'[c.user]
  BY <1>0 DEF IInv, CarriedTrue, Grows
<1>7. CarriedTrue'
  BY <1>4, <1>5, <1>6 DEF CarriedTrue
<1>8. StoreTrue'
  BY <1>2, <1>3 DEF StoreTrue, Leq
<1> QED
  BY <1>7, <1>8 DEF IInv

\* A state does not run ahead of itself.
LEMMA StoreStays ==
  ASSUME IInv, UNCHANGED db, \A m \in Members : server[m] <= server'[m],
         \A m \in Members : server'[m] \in Nat
  PROVE  Grows /\ db'.confirmed <= server'["own"] /\ db'.peer <= server'["peer"]
<1>1. /\ db \in States /\ db.confirmed \in Nat /\ db.peer \in Nat
      /\ server["own"] \in Nat /\ server["peer"] \in Nat
  BY StateFields, ReadAssumption DEF IInv, TypeOK, Members
<1>2. Leq(db, db')
  BY <1>1, LeqOrder
<1> QED
  BY <1>1, <1>2 DEF Grows, IInv, StoreTrue, Members

\* A step in which neither the server nor the store changes.
LEMMA QuietStep ==
  ASSUME IInv, UNCHANGED <<server, db>>
  PROVE  /\ Grows /\ db'.confirmed <= server'["own"] /\ db'.peer <= server'["peer"]
         /\ db \in States /\ server' = server /\ db' = db
         /\ \A m \in Members : server[m] \in Nat
<1>1. db \in States /\ \A m \in Members : server[m] \in Nat
  BY ReadAssumption DEF IInv, TypeOK
<1> QED
  BY <1>1, StoreStays

\* A step whose transaction writes a state that the server vouches for.
LEMMA TransactionStep ==
  ASSUME IInv, NEW t \in Tabs, NEW s \in States,
         NEW then \in {"none", "schedule", "flushed", "page", "merge"}, Transact(t, s, then),
         Leq(db, s), s.confirmed <= server["own"], s.peer <= server["peer"],
         UNCHANGED <<server, conn, reloads, shown, timer, flight, wire>>,
         answers' \subseteq answers, events' \subseteq events, wanted' \subseteq Tabs,
         sync' \in [Tabs -> {"idle", "restore", "page", "merge", "merging"}],
         page' \in [Tabs -> SUBSET Cursors],
         \A q \in Tabs : page'[q] \subseteq page[q]
  PROVE  IInv'
<1>1. /\ db' = s /\ todo' \in [Tabs -> SUBSET Results]
      /\ \A q \in Tabs : \A r \in todo'[q] :
                r \in todo[q] \/ r = [state |-> s, then |-> then]
  BY TransactTypes DEF IInv
<1>2. TypeOK'
  BY <1>1 DEF IInv, TypeOK
<1>3. Grows
  BY <1>1, ReadAssumption DEF Grows, IInv, TypeOK
<1>4. \A q \in Tabs : \A r \in todo'[q] : r \in todo[q] \/ Leq(r.state, db')
  <2>1. Leq(s, s)
    BY LeqOrder
  <2> QED
    BY <1>1, <2>1
<1> QED
  BY <1>1, <1>2, <1>3, <1>4, StepKeeps

----------------------------------------------------------------------------
(* The steps *)

\* At the start nobody has read anything, and nothing is under way.
LEMMA InitIInv == Init => IInv
<1> SUFFICES ASSUME Init PROVE IInv
  OBVIOUS
<1>1. TypeOK
  BY InitTypes
<1>2. StoreTrue
  BY DEF Init, StoreTrue, Leq, NoState, Members
<1>3. CarriedTrue
  BY DEF Init, CarriedTrue
<1> QED
  BY <1>1, <1>2, <1>3 DEF IInv

\* The peer, or another device of the user, reads.
LEMMA ReadElsewhereKeeps ==
  ASSUME IInv, NEW m \in Members, ReadElsewhere(m)
  PROVE  IInv'
<1>1. PICK n \in Seqs : Advance(m, n)
  <2>1. Elsewhere[m] \in 0..MaxSeq
    BY ReadAssumption DEF Members
  <2> QED
    BY <2>1, ReadAssumption DEF ReadElsewhere, Seqs
<1>2. /\ server' \in [Members -> 0..MaxSeq]
      /\ events' \subseteq [to : Tabs, user : Members, seq : Seqs]
      /\ \A x \in Members : server[x] <= server'[x]
      /\ \A e \in events' : e \in events \/ e.seq <= server'[e.user]
  BY <1>1, AdvanceTypes DEF IInv
<1>3. UNCHANGED <<db, conn, reloads, shown, todo, answers, timer, flight, wire, wanted, sync, page>>
  BY DEF ReadElsewhere, client
<1>4. TypeOK'
  BY <1>2, <1>3 DEF IInv, TypeOK
<1>5. Grows /\ db'.confirmed <= server'["own"] /\ db'.peer <= server'["peer"]
  BY <1>2, <1>3, StoreStays, ReadAssumption
<1> QED
  BY <1>2, <1>3, <1>4, <1>5, StepKeeps

\* The server handles a chat.read command; its answer is the stored position.
LEMMA HandleReadKeeps ==
  ASSUME IInv, HandleRead
  PROVE  IInv'
<1>1. PICK c \in wire :
        /\ Advance("own", c.seq)
        /\ wire' = wire \ {c}
        /\ answers' = IF c.from = NoTab THEN answers
                      ELSE answers \cup {[to |-> c.from, seq |-> server'["own"]]}
        /\ UNCHANGED <<db, conn, reloads, shown, todo, timer, flight, wanted, sync, page>>
  BY DEF HandleRead
<1>2. c.seq \in Seqs /\ c.from \in Tabs \cup {NoTab} /\ "own" \in Members
  BY DEF IInv, TypeOK, Members
<1>3. /\ server' \in [Members -> 0..MaxSeq] /\ server'["own"] \in Seqs
      /\ events' \subseteq [to : Tabs, user : Members, seq : Seqs]
      /\ \A x \in Members : server[x] <= server'[x]
      /\ \A e \in events' : e \in events \/ e.seq <= server'[e.user]
  BY <1>1, <1>2, AdvanceTypes DEF IInv
<1>4. /\ answers' \subseteq [to : Tabs, seq : Seqs]
      /\ \A a \in answers' : a \in answers \/ a.seq <= server'["own"]
  <2>1. server'["own"] <= server'["own"]
    BY <1>3, ReadAssumption DEF Seqs
  <2> QED
    BY <1>1, <1>2, <1>3, <2>1 DEF IInv, TypeOK
<1>5. TypeOK'
  BY <1>1, <1>3, <1>4 DEF IInv, TypeOK
<1>6. Grows /\ db'.confirmed <= server'["own"] /\ db'.peer <= server'["peer"]
  BY <1>1, <1>3, StoreStays, ReadAssumption
<1> QED
  BY <1>1, <1>3, <1>4, <1>5, <1>6, StepKeeps

\* A message became visible: the store advances, and confirms nothing.
LEMMA MarkReadKeeps ==
  ASSUME IInv, NEW t \in Tabs, MarkRead(t)
  PROVE  IInv'
<1>1. PICK n \in Seqs : Transact(t, Advanced(db, n), "schedule")
  BY DEF MarkRead
<1>2. n \in 0..MaxSeq /\ db \in States
  BY ReadAssumption DEF Seqs, IInv, TypeOK
<1>3. PICK s \in States : s = Advanced(db, n)
  BY <1>2, AdvancedFacts
<1>4. Leq(db, s) /\ s.confirmed <= server["own"] /\ s.peer <= server["peer"]
  BY <1>2, <1>3, AdvancedFacts DEF IInv, StoreTrue
<1>5. UNCHANGED <<server, conn, reloads, shown, answers, events, timer, flight, wire, wanted, sync, page>>
  BY DEF MarkRead, client
<1> QED
  BY <1>1, <1>3, <1>4, <1>5, TransactionStep DEF IInv, TypeOK

\* A cursor that the server vouches for is merged into the store.
LEMMA MergedTrue ==
  ASSUME IInv, NEW c, c.user \in Members, c.seq \in 0..MaxSeq, c.seq <= server[c.user]
  PROVE  /\ Merged(db, c) \in States /\ Leq(db, Merged(db, c))
         /\ Merged(db, c).confirmed <= server["own"] /\ Merged(db, c).peer <= server["peer"]
<1>1. db \in States /\ db.confirmed <= server["own"] /\ db.peer <= server["peer"]
  BY DEF IInv, TypeOK, StoreTrue
<1>2. /\ Merged(db, c).confirmed \in {db.confirmed, IF c.user = "own" THEN c.seq ELSE db.confirmed}
      /\ Merged(db, c).peer \in {db.peer, IF c.user = "own" THEN db.peer ELSE c.seq}
  BY <1>1, MergedFacts DEF Max2
<1> QED
  BY <1>1, <1>2, MergedFacts DEF Members

\* A chat.read event is merged: the server had published that position.
LEMMA ReceiveEventKeeps ==
  ASSUME IInv, NEW t \in Tabs, ReceiveEvent(t)
  PROVE  IInv'
<1>1. PICK e \in events : Transact(t, Merged(db, e), "none") /\ events' = events \ {e}
  BY DEF ReceiveEvent
<1>2. e.user \in Members /\ e.seq \in 0..MaxSeq /\ e.seq <= server[e.user]
  BY ReadAssumption DEF IInv, TypeOK, Seqs, CarriedTrue
<1>3. PICK s \in States : s = Merged(db, e)
  BY <1>2, MergedTrue
<1>4. Leq(db, s) /\ s.confirmed <= server["own"] /\ s.peer <= server["peer"]
  BY <1>2, <1>3, MergedTrue
<1>5. UNCHANGED <<server, conn, reloads, shown, answers, timer, flight, wire, wanted, sync, page>>
  BY DEF ReceiveEvent, client
<1> QED
  BY <1>1, <1>3, <1>4, <1>5, TransactionStep DEF IInv, TypeOK

\* The answer to a command is merged: the server had stored that position.
LEMMA ReceiveAnswerKeeps ==
  ASSUME IInv, NEW t \in Tabs, ReceiveAnswer(t)
  PROVE  IInv'
<1>1. PICK a \in answers : /\ Transact(t, Merged(db, [user |-> "own", seq |-> a.seq]), "flushed")
                           /\ answers' = answers \ {a}
  BY DEF ReceiveAnswer
<1>2. PICK c : c = [user |-> "own", seq |-> a.seq]
  OBVIOUS
<1>3. c.user \in Members /\ c.seq \in 0..MaxSeq /\ c.seq <= server[c.user]
  BY <1>2, ReadAssumption DEF IInv, TypeOK, Seqs, CarriedTrue, Members
<1>4. PICK s \in States : s = Merged(db, c)
  BY <1>3, MergedTrue
<1>5. Leq(db, s) /\ s.confirmed <= server["own"] /\ s.peer <= server["peer"]
  BY <1>3, <1>4, MergedTrue
<1>6. UNCHANGED <<server, conn, reloads, shown, events, timer, flight, wire, wanted, sync, page>>
  BY DEF ReceiveAnswer, client
<1> QED
  BY <1>1, <1>2, <1>4, <1>5, <1>6, TransactionStep DEF IInv, TypeOK

\* A cursor of a page is merged: the server had it when the page was read.
LEMMA MergePageKeeps ==
  ASSUME IInv, NEW t \in Tabs, MergePage(t)
  PROVE  IInv'
<1>1. PICK c \in page[t] : /\ sync' = [sync EXCEPT ![t] = "merging"]
                           /\ page' = [page EXCEPT ![t] = @ \ {c}]
                           /\ Transact(t, Merged(db, c), "merge")
  BY DEF MergePage
<1>2. c.user \in Members /\ c.seq \in 0..MaxSeq /\ c.seq <= server[c.user]
  BY DEF IInv, TypeOK, Cursors, CarriedTrue
<1>3. PICK s \in States : s = Merged(db, c)
  BY <1>2, MergedTrue
<1>4. Leq(db, s) /\ s.confirmed <= server["own"] /\ s.peer <= server["peer"]
  BY <1>2, <1>3, MergedTrue
<1>5. UNCHANGED <<server, conn, reloads, shown, answers, events, timer, flight, wire, wanted>>
  BY DEF MergePage
<1>6. /\ sync' \in [Tabs -> {"idle", "restore", "page", "merge", "merging"}]
      /\ page' \in [Tabs -> SUBSET Cursors] /\ \A q \in Tabs : page'[q] \subseteq page[q]
  BY <1>1 DEF IInv, TypeOK
<1> QED
  BY <1>1, <1>3, <1>4, <1>5, <1>6, TransactionStep DEF IInv, TypeOK

\* restore reads the store.
LEMMA StartSyncKeeps ==
  ASSUME IInv, NEW t \in Tabs, StartSync(t)
  PROVE  IInv'
<1>1. PICK s \in States : s = db
  BY DEF IInv, TypeOK
<1>2. Leq(db, s) /\ s.confirmed <= server["own"] /\ s.peer <= server["peer"]
  BY <1>1, LeqOrder DEF IInv, StoreTrue
<1>3. /\ UNCHANGED <<server, conn, reloads, shown, answers, events, timer, flight, wire, page>>
      /\ Transact(t, s, "page") /\ wanted' \subseteq wanted
      /\ sync' = [sync EXCEPT ![t] = "restore"]
  BY <1>1 DEF StartSync
<1> QED
  BY <1>2, <1>3, TransactionStep DEF IInv, TypeOK

\* The steps that leave the store, the tabs' states and what is under way alone, or take
\* something of it away.
LEMMA LesserStep ==
  ASSUME IInv, UNCHANGED <<server, db, shown, todo>>, TypeOK',
         answers' \subseteq answers, events' \subseteq events,
         \A t \in Tabs : page'[t] \subseteq page[t]
  PROVE  IInv'
  BY QuietStep, StepKeeps

\* A timer fires, or synchronize ends: flush.
LEMMA FlushKeeps ==
  ASSUME IInv, NEW t \in Tabs, TimerFires(t) \/ FinishSync(t)
  PROVE  IInv'
<1>1. PICK timers \in SUBSET Tabs : Flush(t, shown[t], timers)
  <2>1. timer \subseteq Tabs
    BY DEF IInv, TypeOK
  <2> QED
    BY <2>1 DEF TimerFires, FinishSync
<1>2. /\ timer' \subseteq Tabs /\ flight' \in [Tabs -> 0..MaxSeq]
      /\ wire' \subseteq [from : Tabs \cup {NoTab}, seq : Seqs]
  BY <1>1, FlushTypes DEF IInv, TypeOK
<1>3. /\ UNCHANGED <<server, db, conn, reloads, shown, todo, answers, events, wanted, page>>
      /\ sync' \in [Tabs -> {"idle", "restore", "page", "merge", "merging"}]
  BY DEF TimerFires, FinishSync, IInv, TypeOK
<1>4. TypeOK'
  BY <1>2, <1>3 DEF IInv, TypeOK
<1> QED
  BY <1>3, <1>4, LesserStep

\* A command is given up, with or without its connection.
LEMMA GivenUpKeeps ==
  ASSUME IInv, NEW t \in Tabs, RequestFails(t) \/ Disconnect(t)
  PROVE  IInv'
<1>1. /\ flight' \in [Tabs -> 0..MaxSeq]
      /\ wire' \subseteq [from : Tabs \cup {NoTab}, seq : Seqs]
      /\ answers' \subseteq answers /\ timer' \subseteq Tabs
  <2>1. CASE GiveUp(t) /\ Schedule(t)
    BY <2>1, GiveUpTypes DEF Schedule, IInv, TypeOK
  <2>2. CASE UNCHANGED <<flight, wire, answers, timer>>
    BY <2>2 DEF IInv, TypeOK
  <2> QED
    BY <2>1, <2>2 DEF RequestFails, Disconnect
<1>2. /\ UNCHANGED <<server, db, reloads, shown, todo, wanted, sync, page>>
      /\ events' \subseteq events /\ conn' \in {conn, NoTab}
  BY DEF RequestFails, Disconnect
<1>3. TypeOK'
  BY <1>1, <1>2 DEF IInv, TypeOK
<1> QED
  BY <1>1, <1>2, <1>3, LesserStep

\* synchronize fails, a connection is ready, an event or a command is lost.
LEMMA LostKeeps ==
  ASSUME IInv, LoseEvent \/ LoseCommand \/ \E t \in Tabs : SyncFails(t) \/ Connect(t)
  PROVE  IInv'
<1>1. CASE LoseEvent \/ LoseCommand
  <2>1. /\ UNCHANGED <<server, db, conn, reloads, shown, todo, answers, timer, flight,
                       wanted, sync, page>>
        /\ events' \subseteq events /\ wire' \subseteq wire
    BY <1>1 DEF LoseEvent, LoseCommand, client
  <2>2. TypeOK'
    BY <2>1 DEF IInv, TypeOK
  <2> QED
    BY <2>1, <2>2, LesserStep
<1>2. ASSUME NEW t \in Tabs, SyncFails(t) PROVE IInv'
  <2>1. /\ UNCHANGED <<server, db, conn, reloads, shown, todo, answers, events, timer, flight,
                       wire>>
        /\ wanted' \subseteq wanted
        /\ sync' = [sync EXCEPT ![t] = "idle"] /\ page' = [page EXCEPT ![t] = {}]
    BY <1>2 DEF SyncFails
  <2>2. TypeOK' /\ \A q \in Tabs : page'[q] \subseteq page[q]
    BY <2>1 DEF IInv, TypeOK
  <2> QED
    BY <2>1, <2>2, LesserStep
<1>3. ASSUME NEW t \in Tabs, Connect(t) PROVE IInv'
  <2>1. /\ UNCHANGED <<server, db, reloads, shown, todo, answers, events, timer, flight,
                       wire, sync, page>>
        /\ conn' = t /\ wanted' = wanted \cup {t}
    BY <1>3 DEF Connect
  <2>2. TypeOK'
    BY <2>1 DEF IInv, TypeOK
  <2> QED
    BY <2>1, <2>2, LesserStep
<1> QED
  BY <1>1, <1>2, <1>3

\* A result is published: the tab displays no more than the store has.
LEMMA PublishKeeps ==
  ASSUME IInv, NEW t \in Tabs, Publish(t)
  PROVE  IInv'
<1>1. PICK r \in todo[t] :
        /\ shown' = [shown EXCEPT ![t] = Join(shown[t], r.state)]
        /\ todo' = [todo EXCEPT ![t] = @ \ {r}]
        /\ timer' \subseteq timer \cup {t}
        /\ flight' \in {flight, [flight EXCEPT ![t] = 0]}
        /\ sync' = sync \/ (r.then \in {"page", "merge"} /\ sync' = [sync EXCEPT ![t] = r.then])
  BY DEF Publish, Schedule
<1>2. UNCHANGED <<server, db, conn, reloads, answers, events, wire, wanted, page>>
  BY DEF Publish
<1>3. r.state \in States /\ shown[t] \in States /\ db \in States
  BY DEF IInv, TypeOK, Results
<1>4. Join(shown[t], r.state) \in States /\ Leq(Join(shown[t], r.state), db)
  BY <1>3, JoinFacts DEF IInv, StoreTrue
<1>5. /\ shown' \in [Tabs -> States] /\ todo' \in [Tabs -> SUBSET Results]
      /\ timer' \subseteq Tabs
      /\ \A q \in Tabs : todo'[q] \subseteq todo[q]
      /\ \A q \in Tabs : shown'[q] = shown[q] \/ Leq(shown'[q], db)
  BY <1>1, <1>4 DEF IInv, TypeOK
<1>6. flight' \in [Tabs -> 0..MaxSeq]
  BY <1>1, ReadAssumption DEF IInv, TypeOK
<1>7. sync' \in [Tabs -> {"idle", "restore", "page", "merge", "merging"}]
  BY <1>1 DEF IInv, TypeOK
<1>8. TypeOK'
  BY <1>2, <1>5, <1>6, <1>7 DEF IInv, TypeOK
<1> QED
  BY <1>2, <1>5, <1>8, QuietStep, StepKeeps

\* A page has the positions of the server.
LEMMA FetchPageKeeps ==
  ASSUME IInv, NEW t \in Tabs, FetchPage(t)
  PROVE  IInv'
<1> DEFINE P == {[user |-> m, seq |-> server[m]] : m \in Members}
<1>1. /\ P \subseteq Cursors /\ \A c \in P : c.seq <= server[c.user]
  BY ReadAssumption DEF Cursors, IInv, TypeOK
<1>2. /\ UNCHANGED <<server, db, conn, reloads, shown, todo, answers, events, timer, flight,
                     wire, wanted>>
      /\ sync' = [sync EXCEPT ![t] = "merge"] /\ page' = [page EXCEPT ![t] = P]
  BY DEF FetchPage
<1> HIDE DEF P
<1>3. TypeOK' /\ \A q \in Tabs : page'[q] = page[q] \/ page'[q] = P
  BY <1>1, <1>2 DEF IInv, TypeOK
<1> QED
  BY <1>1, <1>2, <1>3, QuietStep, StepKeeps

\* A reload takes back what the tab displays, and restores the store.
LEMMA ReloadKeeps ==
  ASSUME IInv, NEW t \in Tabs, Reload(t)
  PROVE  IInv'
<1>1. db \in States /\ NoState \in States /\ Leq(NoState, db) /\ Leq(db, db)
  <2>1. db \in States
    BY DEF IInv, TypeOK
  <2> QED
    BY <2>1, StateFields, ReadAssumption DEF NoState, States, Leq
<1>2. /\ flight' \in [Tabs -> 0..MaxSeq]
      /\ wire' \subseteq [from : Tabs \cup {NoTab}, seq : Seqs]
      /\ answers' \subseteq answers
  BY GiveUpTypes DEF Reload, IInv
<1>3. UNCHANGED <<server, db>> /\ events' \subseteq events /\ conn' \in {conn, NoTab}
  BY DEF Reload
<1>4. [state |-> db, then |-> "none"] \in Results
  BY <1>1 DEF Results
<1>5. /\ shown' \in [Tabs -> States] /\ todo' \in [Tabs -> SUBSET Results]
      /\ \A q \in Tabs : shown'[q] = shown[q] \/ shown'[q] = NoState
      /\ \A q \in Tabs : \A r \in todo'[q] : r \in todo[q] \/ r = [state |-> db, then |-> "none"]
  BY <1>1, <1>4 DEF Reload, IInv, TypeOK
<1>6. /\ sync' \in [Tabs -> {"idle", "restore", "page", "merge", "merging"}]
      /\ page' \in [Tabs -> SUBSET Cursors] /\ \A q \in Tabs : page'[q] \subseteq page[q]
      /\ timer' \subseteq Tabs /\ wanted' \subseteq Tabs
  BY DEF Reload, IInv, TypeOK
<1>7. reloads' \in 0..MaxReloads
  BY ReadAssumption DEF Reload, IInv, TypeOK
<1>8. TypeOK'
  BY <1>2, <1>3, <1>5, <1>6, <1>7 DEF IInv, TypeOK
<1>9. /\ \A q \in Tabs : shown'[q] = shown[q] \/ Leq(shown'[q], db')
      /\ \A q \in Tabs : \A r \in todo'[q] : r \in todo[q] \/ Leq(r.state, db')
  BY <1>1, <1>3, <1>5
<1> QED
  BY <1>2, <1>3, <1>6, <1>8, <1>9, QuietStep, StepKeeps

----------------------------------------------------------------------------
(* The theorems *)

\* Every step keeps the invariant.
LEMMA NextIInv == IInv /\ [Next]_vars => IInv'
<1> SUFFICES ASSUME IInv, [Next]_vars PROVE IInv'
  OBVIOUS
<1>1. CASE UNCHANGED vars
  <2>1. UNCHANGED <<server, db, shown, todo, answers, events, page>> /\ TypeOK'
    BY <1>1 DEF vars, IInv, TypeOK
  <2> QED
    BY <2>1, LesserStep
<1>2. ASSUME NEW t \in Tabs,
             \/ MarkRead(t) \/ ReceiveEvent(t) \/ TimerFires(t) \/ ReceiveAnswer(t)
             \/ RequestFails(t) \/ Publish(t)
             \/ StartSync(t) \/ FetchPage(t) \/ MergePage(t) \/ FinishSync(t) \/ SyncFails(t)
             \/ Reload(t) \/ Connect(t) \/ Disconnect(t)
      PROVE  IInv'
  BY <1>2, MarkReadKeeps, ReceiveEventKeeps, FlushKeeps, ReceiveAnswerKeeps, GivenUpKeeps,
     PublishKeeps, StartSyncKeeps, FetchPageKeeps, MergePageKeeps, LostKeeps, ReloadKeeps
<1> QED
  BY <1>1, <1>2, ReadElsewhereKeeps, HandleReadKeeps, LostKeeps DEF Next

\* The invariant holds in every reachable state.
LEMMA Invariant == Spec => []IInv
  BY InitIInv, NextIInv, PTL DEF Spec

\* The variables keep their types; in particular flush never sends position 0, and an
\* answer always has a tab that may read it.
THEOREM TypeCorrect == Spec => []TypeOK
<1>1. IInv => TypeOK
  BY DEF IInv
<1> QED
  BY <1>1, Invariant, PTL

\* ReadCursorManager over the shared store: no marker runs ahead of the server, and no
\* tab ahead of the store, whatever is lost, late or reloaded.
THEOREM MarkersAreTrue == Spec => []MarkersTruthful
<1>1. IInv => MarkersTruthful
  <2> SUFFICES ASSUME IInv PROVE MarkersTruthful
    OBVIOUS
  <2>1. ASSUME NEW t \in Tabs PROVE Join(db, shown[t]) = db
    BY JoinIsBehind DEF IInv, TypeOK, StoreTrue
  <2> QED
    BY <2>1 DEF MarkersTruthful, IInv, StoreTrue
<1> QED
  BY <1>1, Invariant, PTL

----------------------------------------------------------------------------
(* Positions never move back *)

\* Neither the server's nor the stored positions move back, and a tab takes back a
\* marker that it displays only when it is reloaded.
NeverBack ==
    /\ Grows
    /\ \A t \in Tabs : Leq(shown[t], shown'[t]) \/ Reload(t)

\* What every transaction writes is ahead of what it has read.
LEMMA TransactGrows ==
  ASSUME IInv, NEW t \in Tabs,
         \/ MarkRead(t) \/ ReceiveEvent(t) \/ ReceiveAnswer(t) \/ StartSync(t) \/ MergePage(t)
  PROVE  Leq(db, db') /\ server' = server /\ shown' = shown
<1>0. db \in States /\ Leq(db, db)
  BY LeqOrder DEF IInv, TypeOK
<1>1. CASE MarkRead(t)
  <2>1. PICK n \in Seqs : db' = Advanced(db, n)
    BY <1>1 DEF MarkRead, Transact
  <2>2. n \in 0..MaxSeq
    BY ReadAssumption DEF Seqs
  <2> QED
    BY <1>0, <1>1, <2>1, <2>2, AdvancedFacts DEF MarkRead
<1>2. CASE ReceiveEvent(t)
  <2>1. PICK e \in events : db' = Merged(db, e)
    BY <1>2 DEF ReceiveEvent, Transact
  <2>2. e.user \in Members /\ e.seq \in 0..MaxSeq
    BY ReadAssumption DEF IInv, TypeOK, Seqs
  <2> QED
    BY <1>0, <1>2, <2>1, <2>2, MergedFacts DEF ReceiveEvent
<1>3. CASE ReceiveAnswer(t)
  <2>1. PICK a \in answers : db' = Merged(db, [user |-> "own", seq |-> a.seq])
    BY <1>3 DEF ReceiveAnswer, Transact
  <2>2. PICK c : c = [user |-> "own", seq |-> a.seq]
    OBVIOUS
  <2>3. c.user \in Members /\ c.seq \in 0..MaxSeq
    BY <2>2, ReadAssumption DEF IInv, TypeOK, Seqs, Members
  <2> QED
    BY <1>0, <1>3, <2>1, <2>2, <2>3, MergedFacts DEF ReceiveAnswer
<1>4. CASE StartSync(t)
  BY <1>0, <1>4 DEF StartSync, Transact
<1>5. CASE MergePage(t)
  <2>1. PICK c \in page[t] : db' = Merged(db, c)
    BY <1>5 DEF MergePage, Transact
  <2>2. c.user \in Members /\ c.seq \in 0..MaxSeq
    BY DEF IInv, TypeOK, Cursors
  <2> QED
    BY <1>0, <1>5, <2>1, <2>2, MergedFacts DEF MergePage
<1> QED
  BY <1>1, <1>2, <1>3, <1>4, <1>5

\* No step takes a position back.
LEMMA StepNeverBack == IInv /\ [Next]_vars => NeverBack
<1> SUFFICES ASSUME IInv, [Next]_vars PROVE NeverBack
  OBVIOUS
<1>0. /\ db \in States /\ Leq(db, db)
      /\ \A t \in Tabs : shown[t] \in States /\ Leq(shown[t], shown[t])
      /\ \A m \in Members : server[m] <= server[m]
  BY LeqOrder, ReadAssumption DEF IInv, TypeOK
<1>1. CASE UNCHANGED <<server, db, shown>>
  BY <1>0, <1>1 DEF NeverBack, Grows
<1>2. ASSUME NEW m \in Members, NEW n \in Seqs, Advance(m, n), UNCHANGED <<db, shown>>
      PROVE  NeverBack
  BY <1>0, <1>2, AdvanceTypes DEF NeverBack, Grows, IInv
<1>3. ASSUME NEW m \in Members, ReadElsewhere(m) PROVE NeverBack
  <2>1. Elsewhere[m] \in 0..MaxSeq
    BY ReadAssumption DEF Members
  <2>2. PICK n \in Seqs : Advance(m, n)
    BY <1>3, <2>1, ReadAssumption DEF ReadElsewhere, Seqs
  <2> QED
    BY <1>2, <1>3, <2>2 DEF ReadElsewhere
<1>4. CASE HandleRead
  <2>1. PICK c \in wire : Advance("own", c.seq)
    BY <1>4 DEF HandleRead
  <2>2. c.seq \in Seqs
    BY DEF IInv, TypeOK
  <2> QED
    BY <1>2, <1>4, <2>1, <2>2 DEF HandleRead, Members
<1>5. ASSUME NEW t \in Tabs, Publish(t) PROVE NeverBack
  <2>1. PICK r \in todo[t] : shown' = [shown EXCEPT ![t] = Join(shown[t], r.state)]
    BY <1>5 DEF Publish
  <2>2. r.state \in States /\ Leq(shown[t], Join(shown[t], r.state))
    BY <1>0, JoinFacts DEF IInv, TypeOK, Results
  <2>3. \A q \in Tabs : Leq(shown[q], shown'[q])
    BY <1>0, <2>1, <2>2 DEF IInv, TypeOK
  <2> QED
    BY <1>0, <1>5, <2>3 DEF Publish, NeverBack, Grows
<1>6. ASSUME NEW t \in Tabs, Reload(t) PROVE NeverBack
  <2>1. \A q \in Tabs \ {t} : shown'[q] = shown[q]
    BY <1>6 DEF Reload, IInv, TypeOK
  <2> QED
    BY <1>0, <1>6, <2>1 DEF Reload, NeverBack, Grows
<1>7. ASSUME NEW t \in Tabs,
             \/ MarkRead(t) \/ ReceiveEvent(t) \/ ReceiveAnswer(t) \/ StartSync(t) \/ MergePage(t)
      PROVE  NeverBack
  BY <1>0, <1>7, TransactGrows DEF NeverBack, Grows
<1>8. ASSUME NEW t \in Tabs,
             \/ TimerFires(t) \/ RequestFails(t) \/ FetchPage(t) \/ FinishSync(t)
             \/ SyncFails(t) \/ Connect(t) \/ Disconnect(t)
      PROVE  UNCHANGED <<server, db, shown>>
  BY <1>8 DEF TimerFires, RequestFails, FetchPage, FinishSync, SyncFails, Connect, Disconnect
<1>9. CASE LoseEvent \/ LoseCommand \/ UNCHANGED vars
  BY <1>1, <1>9 DEF LoseEvent, LoseCommand, vars
<1> QED
  BY <1>1, <1>3, <1>4, <1>5, <1>6, <1>7, <1>8, <1>9 DEF Next

\* mergeChatReadCursor, advanceLocalReadCursor, publish and ChatReadService.advance, in
\* whatever order answers, events and pages come: a read position never moves back.
THEOREM PositionsNeverBack == Spec => [][NeverBack]_vars
  BY StepNeverBack, Invariant, PTL DEF Spec

----------------------------------------------------------------------------
(* Opening a chat: the canonical pair of a request *)

\* The two parts of canonical_user_pair.
Low(r) == IF asked[r].user < asked[r].target THEN asked[r].user ELSE asked[r].target
High(r) == IF asked[r].user < asked[r].target THEN asked[r].target ELSE asked[r].user

\* The row of direct_chat_pairs that stands for the two users of request r.
IsPairOf(r, p) == p.low = Low(r) /\ p.high = High(r)

\* canonical_user_pair returns the smaller and the larger user.
LEMMA CanonicalParts ==
  ASSUME NEW r \in Requests
  PROVE  CanonicalPair(r) = <<Low(r), High(r)>>
  BY DEF CanonicalPair, Low, High

\* The lookup of the pair finds the chats of the rows that stand for it.
LEMMA LookupFinds ==
  ASSUME NEW r \in Requests, NEW c
  PROVE  c \in PairChatId(r) <=> \E p \in pairs : IsPairOf(r, p) /\ p.chat = c
<1>1. \A p : <<p.low, p.high>> = CanonicalPair(r) <=> IsPairOf(r, p)
  BY CanonicalParts DEF IsPairOf
<1> QED
  BY <1>1 DEF PairChatId

\* Two different users have a strictly ordered pair.
LEMMA PairOrdered ==
  ASSUME NEW r \in Requests, asked[r].user \in Nat, asked[r].target \in Nat,
         asked[r].user # asked[r].target
  PROVE  /\ Low(r) \in Nat /\ High(r) \in Nat /\ Low(r) < High(r)
         /\ {Low(r), High(r)} = {asked[r].user, asked[r].target}
  BY DEF Low, High

\* The order in which the two users are asked about does not matter.
LEMMA PairUnordered ==
  ASSUME NEW r \in Requests, NEW q \in Requests,
         asked[r].user \in Nat, asked[r].target \in Nat,
         asked[q].user \in Nat, asked[q].target \in Nat,
         {asked[r].user, asked[r].target} = {asked[q].user, asked[q].target}
  PROVE  Low(r) = Low(q) /\ High(r) = High(q)
  BY DEF Low, High

----------------------------------------------------------------------------
(* Opening a chat: the inductive invariant *)

ChatsLabels == {"start", "find", "chat", "members", "pair", "commit", "winner", "get", "end"}
ChatsAnswers == {"none", "chat", "self_chat", "target_not_found", "integrity_error",
            "chat_not_found", "failed"}

\* The types of the tables and of the requests' local variables.
ChatsTypeOK ==
    /\ chats \subseteq Requests
    /\ members \subseteq Requests \X Nat
    /\ pairs \subseteq Pair
    /\ pc \in [Requests -> ChatsLabels]
    /\ asked \in [Requests -> [user : Nat, target : Nat]]
    /\ found \in [Requests -> Requests \cup {None}]
    /\ answer \in [Requests -> ChatsAnswers]

\* A transaction that goes on has two different users.
TwoUsers ==
    \A r \in Requests : pc[r] \notin {"start", "end"} \/ answer[r] = "chat"
                            => asked[r].user # asked[r].target

\* The rows of a chat appear together, when the request with its id commits.
RowsTogether ==
    /\ \A p \in pairs : p.low < p.high /\ p.chat \in chats /\ pc[p.chat] \in {"get", "end"}
    /\ \A c \in chats : \E p \in pairs : p.chat = c
    /\ \A m \in members : m[1] \in chats
    /\ \A p \in pairs, u \in Nat : <<p.chat, u>> \in members <=> u \in {p.low, p.high}

\* The unique constraint, and the primary key.
OnePair ==
    \A p, q \in pairs : (p.low = q.low /\ p.high = q.high) \/ p.chat = q.chat => p = q

\* The transaction that holds the index entry of a pair is alone with it, and the
\* pair is not committed yet.
Exclusive ==
    \A r \in Requests : pc[r] = "commit" =>
        /\ \A p \in pairs : ~IsPairOf(r, p)
        /\ \A q \in Requests \ {r} :
            pc[q] = "commit" => ~(Low(q) = Low(r) /\ High(q) = High(r))

\* A request that lost finds the winner; a chat that was found is the one of the pair.
Found ==
    \A r \in Requests :
        /\ pc[r] = "winner" => \E p \in pairs : IsPairOf(r, p)
        /\ pc[r] = "get" \/ answer[r] = "chat"
            => \E p \in pairs : IsPairOf(r, p) /\ p.chat = found[r]
        /\ answer[r] \notin {"integrity_error", "chat_not_found"}
        /\ pc[r] # "end" => answer[r] = "none"

ChatsIInv == ChatsTypeOK /\ TwoUsers /\ RowsTogether /\ OnePair /\ Exclusive /\ Found

\* Before the first request nothing is stored.
LEMMA ChatsInitIInv == ChatsInit => ChatsIInv
  BY DEF ChatsInit, ChatsIInv, ChatsTypeOK, TwoUsers, RowsTogether, OnePair, Exclusive, Found, ChatsLabels,
         ChatsAnswers

----------------------------------------------------------------------------
(* Every step keeps it *)

\* The pair of a request follows from what it was asked.
LEMMA SamePair ==
  ASSUME NEW r \in Requests, asked'[r] = asked[r]
  PROVE  Low(r)' = Low(r) /\ High(r)' = High(r)
  BY DEF Low, High

\* A step that writes no row and asks nothing: request r only moves on.
MovesOn(r, label, c, status) ==
    /\ pc[r] \notin {"start", "end"} /\ label # "start"
    /\ pc' = [pc EXCEPT ![r] = label]
    /\ found' = [found EXCEPT ![r] = c]
    /\ answer' = [answer EXCEPT ![r] = status]
    /\ UNCHANGED <<rows, asked>>

\* What a label and an answer promise of the committed rows.
Promised(r, label, c, status) ==
    /\ pc[r] = "get" => label = "end"
    /\ label # "end" => status = "none"
    /\ label = "commit" =>
        /\ \A p \in pairs : ~IsPairOf(r, p)
        /\ \A q \in Requests \ {r} :
            pc[q] = "commit" => ~(Low(q) = Low(r) /\ High(q) = High(r))
    /\ label = "winner" => \E p \in pairs : IsPairOf(r, p)
    /\ label = "get" \/ status = "chat" => \E p \in pairs : IsPairOf(r, p) /\ p.chat = c

\* Moving on keeps the invariant when what is promised already holds.
LEMMA MoveOn ==
  ASSUME ChatsIInv, NEW r \in Requests, NEW label \in ChatsLabels, NEW c \in Requests \cup {None},
         NEW status \in ChatsAnswers \ {"integrity_error", "chat_not_found"},
         MovesOn(r, label, c, status), Promised(r, label, c, status)
  PROVE  ChatsIInv'
<1> USE DEF ChatsIInv, MovesOn, Promised
<1>0. \A q \in Requests : Low(q)' = Low(q) /\ High(q)' = High(q)
  BY SamePair
<1>1. ChatsTypeOK'
  BY DEF ChatsTypeOK, rows
<1>2. TwoUsers'
  BY DEF ChatsTypeOK, TwoUsers
<1>3. RowsTogether'
  BY DEF ChatsTypeOK, RowsTogether, rows
<1>4. OnePair'
  BY DEF OnePair, rows
<1>5. Exclusive'
  BY <1>0 DEF ChatsTypeOK, Exclusive, IsPairOf, rows
<1>6. Found'
  BY <1>0 DEF ChatsTypeOK, Found, IsPairOf, rows
<1> QED
  BY <1>1, <1>2, <1>3, <1>4, <1>5, <1>6

\* The first lookup continues with the chat of the pair, if there is one.
LEMMA FindPairKeeps ==
  ASSUME ChatsIInv, NEW r \in Requests, FindPair(r)
  PROVE  ChatsIInv'
<1> USE DEF FindPair, Goto
<1>1. answer[r] = "none" /\ answer' = [answer EXCEPT ![r] = "none"]
  BY DEF ChatsIInv, ChatsTypeOK, Found
<1>2. CASE Goto(r, "chat") /\ UNCHANGED found
  <2>1. found[r] \in Requests \cup {None} /\ MovesOn(r, "chat", found[r], "none")
    BY <1>1, <1>2 DEF ChatsIInv, ChatsTypeOK, MovesOn
  <2>2. Promised(r, "chat", found[r], "none")
    BY DEF Promised
  <2> QED
    BY <2>1, <2>2, MoveOn DEF ChatsLabels, ChatsAnswers
<1>3. CASE Goto(r, "get") /\ \E c \in PairChatId(r) : found' = [found EXCEPT ![r] = c]
  <2>1. PICK c \in PairChatId(r) : found' = [found EXCEPT ![r] = c]
    BY <1>3
  <2>2. PICK p \in pairs : IsPairOf(r, p) /\ p.chat = c
    BY <2>1, LookupFinds
  <2>3. c \in Requests
    BY <2>2 DEF ChatsIInv, ChatsTypeOK, Pair
  <2>4. MovesOn(r, "get", c, "none") /\ Promised(r, "get", c, "none")
    BY <1>1, <1>3, <2>1, <2>2 DEF MovesOn, Promised
  <2> QED
    BY <2>3, <2>4, MoveOn DEF ChatsLabels, ChatsAnswers
<1> QED
  BY <1>2, <1>3

\* The rows that a transaction inserts before the pair are its own.
LEMMA InsertRowsKeep ==
  ASSUME ChatsIInv, NEW r \in Requests, InsertChat(r) \/ InsertMembers(r)
  PROVE  ChatsIInv'
<1>1. answer[r] = "none" /\ answer' = [answer EXCEPT ![r] = "none"]
  BY DEF ChatsIInv, ChatsTypeOK, Found, InsertChat, InsertMembers
<1>2. found' = [found EXCEPT ![r] = found[r]] /\ found[r] \in Requests \cup {None}
  BY DEF ChatsIInv, ChatsTypeOK, InsertChat, InsertMembers
<1>3. PICK label \in {"members", "pair"} : Goto(r, label)
  BY DEF InsertChat, InsertMembers
<1>4. MovesOn(r, label, found[r], "none") /\ Promised(r, label, found[r], "none")
  BY <1>1, <1>2, <1>3 DEF InsertChat, InsertMembers, Goto, MovesOn, Promised
<1> QED
  BY <1>2, <1>4, MoveOn DEF ChatsLabels, ChatsAnswers

\* The INSERT of the pair waits for the transactions that hold its index entry.
LEMMA InsertPairKeeps ==
  ASSUME ChatsIInv, NEW r \in Requests, InsertPair(r)
  PROVE  ChatsIInv'
<1> DEFINE label == IF PairChatId(r) = {} THEN "commit" ELSE "winner"
<1>1. answer[r] = "none" /\ answer' = [answer EXCEPT ![r] = "none"]
  BY DEF ChatsIInv, ChatsTypeOK, Found, InsertPair
<1>2. found' = [found EXCEPT ![r] = found[r]] /\ found[r] \in Requests \cup {None}
  BY DEF ChatsIInv, ChatsTypeOK, InsertPair
<1>3. ASSUME NEW q \in Requests \ {r}, pc[q] = "commit"
      PROVE  ~(Low(q) = Low(r) /\ High(q) = High(r))
  <2>1. CanonicalPair(q) # CanonicalPair(r)
    BY <1>3 DEF InsertPair, Inserting
  <2> QED
    BY <2>1, CanonicalParts
<1>4. IF PairChatId(r) = {} THEN \A p \in pairs : ~IsPairOf(r, p)
      ELSE \E p \in pairs : IsPairOf(r, p)
  BY LookupFinds
<1>5. MovesOn(r, label, found[r], "none")
  BY <1>1, <1>2 DEF InsertPair, Goto, MovesOn
<1>6. Promised(r, label, found[r], "none")
  BY <1>3, <1>4 DEF InsertPair, Promised
<1>7. label \in ChatsLabels
  BY DEF ChatsLabels
<1> HIDE DEF label
<1> QED
  BY <1>2, <1>5, <1>6, <1>7, MoveOn DEF ChatsAnswers

\* The loser finds the winner's chat: the INSERT failed because it is committed.
LEMMA FindWinnerKeeps ==
  ASSUME ChatsIInv, NEW r \in Requests, FindWinner(r)
  PROVE  ChatsIInv'
<1>1. answer[r] = "none"
  BY DEF ChatsIInv, ChatsTypeOK, Found, FindWinner
<1>2. PICK w \in pairs : IsPairOf(r, w)
  BY DEF ChatsIInv, Found, FindWinner
<1>3. PairChatId(r) # {}
  BY <1>2, LookupFinds
<1>4. PICK c \in PairChatId(r) : found' = [found EXCEPT ![r] = c]
  BY <1>3 DEF FindWinner
<1>5. PICK p \in pairs : IsPairOf(r, p) /\ p.chat = c
  BY <1>4, LookupFinds
<1>6. c \in Requests
  BY <1>5 DEF ChatsIInv, ChatsTypeOK, Pair
<1>7. answer' = [answer EXCEPT ![r] = "none"] /\ Goto(r, "get")
  BY <1>1, <1>3 DEF FindWinner, ChatsIInv, ChatsTypeOK
<1>8. MovesOn(r, "get", c, "none") /\ Promised(r, "get", c, "none")
  BY <1>4, <1>5, <1>7 DEF FindWinner, Goto, MovesOn, Promised
<1> QED
  BY <1>6, <1>8, MoveOn DEF ChatsLabels, ChatsAnswers

\* The chat of the pair is visible to its requester.
LEMMA GetChatKeeps ==
  ASSUME ChatsIInv, NEW r \in Requests, GetChat(r)
  PROVE  ChatsIInv'
<1>1. PICK p \in pairs : IsPairOf(r, p) /\ p.chat = found[r]
  BY DEF GetChat, ChatsIInv, Found
<1>2. asked[r].user \in {p.low, p.high}
  BY <1>1 DEF IsPairOf, Low, High
<1>3. End(r, "chat")
  BY <1>1, <1>2 DEF GetChat
<1>4. found' = [found EXCEPT ![r] = found[r]] /\ found[r] \in Requests \cup {None}
  BY DEF ChatsIInv, ChatsTypeOK, GetChat
<1>5. MovesOn(r, "end", found[r], "chat") /\ Promised(r, "end", found[r], "chat")
  BY <1>1, <1>3, <1>4 DEF GetChat, End, Goto, MovesOn, Promised
<1> QED
  BY <1>4, <1>5, MoveOn DEF ChatsLabels, ChatsAnswers

\* A request that fails answers with no chat.
LEMMA FailKeeps ==
  ASSUME ChatsIInv, NEW r \in Requests, Fail(r)
  PROVE  ChatsIInv'
<1>1. found' = [found EXCEPT ![r] = found[r]] /\ found[r] \in Requests \cup {None}
  BY DEF ChatsIInv, ChatsTypeOK, Fail
<1>2. MovesOn(r, "end", found[r], "failed") /\ Promised(r, "end", found[r], "failed")
  BY <1>1 DEF Fail, End, Goto, MovesOn, Promised
<1> QED
  BY <1>1, <1>2, MoveOn DEF ChatsLabels, ChatsAnswers

\* The checks let only two different users through.
LEMMA OpenKeeps ==
  ASSUME ChatsIInv, NEW r \in Requests, Open(r)
  PROVE  ChatsIInv'
<1> USE DEF ChatsIInv
<1>1. PICK user \in Users, target \in Users \cup Strangers :
        /\ asked' = [asked EXCEPT ![r] = [user |-> user, target |-> target]]
        /\ \/ user = target /\ End(r, "self_chat")
           \/ target \in Strangers /\ End(r, "target_not_found")
           \/ user # target /\ Goto(r, "find") /\ UNCHANGED answer
  BY DEF Open
<1>2. user \in Nat /\ target \in Nat
  BY ChatsAssumption
<1>3. \A q \in Requests \ {r} : Low(q)' = Low(q) /\ High(q)' = High(q)
  BY <1>1, SamePair DEF ChatsTypeOK
<1>4. /\ UNCHANGED <<rows, found>>
      /\ \A q \in Requests \ {r} : pc'[q] = pc[q] /\ answer'[q] = answer[q]
                                    /\ asked'[q] = asked[q]
      /\ pc[r] = "start" /\ answer[r] = "none"
      /\ \/ pc'[r] = "end" /\ answer'[r] \in {"self_chat", "target_not_found"}
         \/ pc'[r] = "find" /\ answer'[r] = "none" /\ asked'[r].user # asked'[r].target
  BY <1>1 DEF Open, End, Goto, ChatsTypeOK, Found
<1>5. ChatsTypeOK'
  <2>1. asked' \in [Requests -> [user : Nat, target : Nat]]
    BY <1>1, <1>2 DEF ChatsTypeOK
  <2>2. pc' \in [Requests -> ChatsLabels] /\ answer' \in [Requests -> ChatsAnswers]
    BY <1>1 DEF End, Goto, ChatsTypeOK, ChatsLabels, ChatsAnswers
  <2> QED
    BY <2>1, <2>2, <1>4 DEF ChatsTypeOK, rows
<1>6. TwoUsers'
  BY <1>4 DEF TwoUsers
<1>7. RowsTogether'
  <2>1. \A p \in pairs : p.chat # r
    BY <1>4 DEF RowsTogether
  <2>2. \A p \in pairs : pc'[p.chat] \in {"get", "end"}
    BY <2>1, <1>4 DEF RowsTogether, ChatsTypeOK, Pair
  <2> QED
    BY <2>2, <1>4 DEF RowsTogether, rows
<1>8. OnePair'
  BY <1>4 DEF OnePair, rows
<1>9. Exclusive'
  BY <1>3, <1>4 DEF Exclusive, IsPairOf, rows
<1>10. Found'
  BY <1>3, <1>4 DEF Found, IsPairOf, rows
<1> QED
  BY <1>5, <1>6, <1>7, <1>8, <1>9, <1>10

\* The commit of a request that holds the index entry of its pair.
LEMMA CommitKeeps ==
  ASSUME ChatsIInv, NEW r \in Requests, Commit(r)
  PROVE  ChatsIInv'
<1> USE DEF ChatsIInv
<1> DEFINE new == [chat |-> r, low |-> Low(r), high |-> High(r)]
<1>0. \A q \in Requests : Low(q)' = Low(q) /\ High(q)' = High(q)
  BY SamePair DEF Commit
<1>1. /\ asked[r].user \in Nat /\ asked[r].target \in Nat
      /\ asked[r].user # asked[r].target /\ pc[r] = "commit" /\ answer[r] = "none"
  BY DEF Commit, ChatsTypeOK, TwoUsers, Found
<1>2. /\ Low(r) \in Nat /\ High(r) \in Nat /\ Low(r) < High(r)
      /\ {Low(r), High(r)} = {asked[r].user, asked[r].target}
  BY <1>1, PairOrdered
<1>3. /\ pairs' = pairs \cup {new}
      /\ \A m : m \in members' <=> m \in members \/ m = <<r, Low(r)>> \/ m = <<r, High(r)>>
      /\ chats' = chats \cup {r}
  BY <1>2, CanonicalParts DEF Commit
<1>4. /\ \A q \in Requests \ {r} : pc'[q] = pc[q] /\ found'[q] = found[q]
      /\ pc'[r] = "get" /\ found'[r] = r /\ UNCHANGED <<asked, answer>>
  BY DEF Commit, Goto, ChatsTypeOK
<1>5. /\ \A p \in pairs : ~IsPairOf(r, p)
      /\ \A q \in Requests \ {r} : pc[q] = "commit" => ~IsPairOf(q, new)
  BY <1>1 DEF Exclusive, IsPairOf
<1>6. r \notin chats /\ \A p \in pairs : p.chat # r
  BY <1>1 DEF RowsTogether
<1>7. new \in Pair /\ new.chat = r /\ new.low = Low(r) /\ new.high = High(r)
  BY <1>2 DEF Pair
<1> HIDE DEF new
<1>8. ChatsTypeOK'
  <2>1. members' \subseteq Requests \X Nat
    BY <1>2, <1>3 DEF ChatsTypeOK
  <2>2. pc' \in [Requests -> ChatsLabels] /\ found' \in [Requests -> Requests \cup {None}]
    BY DEF Commit, Goto, ChatsTypeOK, ChatsLabels
  <2> QED
    BY <2>1, <2>2, <1>3, <1>4, <1>7 DEF ChatsTypeOK
<1>9. TwoUsers'
  BY <1>1, <1>4 DEF TwoUsers
<1>10. RowsTogether'
  <2>1. \A p \in pairs' : p.low < p.high /\ p.chat \in chats' /\ pc'[p.chat] \in {"get", "end"}
    BY <1>2, <1>3, <1>4, <1>6, <1>7 DEF RowsTogether, ChatsTypeOK, Pair
  <2>2. \A c \in chats' : \E p \in pairs' : p.chat = c
    BY <1>3, <1>7 DEF RowsTogether
  <2>3. \A m \in members' : m[1] \in chats'
    BY <1>3 DEF RowsTogether
  <2>4. ASSUME NEW p \in pairs', NEW u \in Nat
        PROVE  <<p.chat, u>> \in members' <=> u \in {p.low, p.high}
    <3>1. CASE p = new
      <4>1. <<r, u>> \notin members
        BY <1>6 DEF RowsTogether
      <4> QED
        BY <3>1, <4>1, <1>3, <1>7
    <3>2. CASE p \in pairs
      BY <3>2, <1>3, <1>6 DEF RowsTogether
    <3> QED
      BY <3>1, <3>2, <1>3
  <2> QED
    BY <2>1, <2>2, <2>3, <2>4 DEF RowsTogether
<1>11. OnePair'
  BY <1>3, <1>5, <1>6, <1>7 DEF OnePair, IsPairOf
<1>12. Exclusive'
  BY <1>0, <1>3, <1>4, <1>5 DEF Exclusive, IsPairOf
<1>13. Found'
  BY <1>0, <1>1, <1>3, <1>4, <1>7 DEF Found, IsPairOf
<1> QED
  BY <1>8, <1>9, <1>10, <1>11, <1>12, <1>13

\* A step in which nothing changes.
LEMMA StutterKeeps == ChatsIInv /\ UNCHANGED chatsVars => ChatsIInv'
<1> SUFFICES ASSUME ChatsIInv, UNCHANGED chatsVars PROVE ChatsIInv'
  OBVIOUS
<1>1. \A q \in Requests : Low(q)' = Low(q) /\ High(q)' = High(q)
  BY SamePair DEF chatsVars
<1> QED
  BY <1>1 DEF ChatsIInv, ChatsTypeOK, TwoUsers, RowsTogether, OnePair, Exclusive, Found, IsPairOf,
              chatsVars, rows

\* Every step keeps the invariant.
LEMMA ChatsNextIInv == ChatsIInv /\ [ChatsNext]_chatsVars => ChatsIInv'
  BY StutterKeeps, OpenKeeps, FindPairKeeps, InsertRowsKeep, InsertPairKeeps, CommitKeeps,
     FindWinnerKeeps, GetChatKeeps, FailKeeps DEF ChatsNext, Step, AllEnded

\* The invariant contains the property.
LEMMA IInvSameChat == ChatsIInv => SameChat
<1> SUFFICES ASSUME ChatsIInv PROVE SameChat
  OBVIOUS
<1> USE DEF ChatsIInv
<1>1. ASSUME NEW c \in chats
      PROVE  \E p \in pairs : /\ p.chat = c /\ p.low < p.high
                              /\ {m[2] : m \in {x \in members : x[1] = c}} = {p.low, p.high}
  <2>1. PICK p \in pairs : p.chat = c /\ p.low < p.high
    BY <1>1 DEF RowsTogether
  <2>2. p.low \in Nat /\ p.high \in Nat
    BY DEF ChatsTypeOK, Pair
  <2>3. \A u \in Nat : <<c, u>> \in members <=> u \in {p.low, p.high}
    BY <2>1 DEF RowsTogether
  <2>4. \A m \in members : m = <<m[1], m[2]>> /\ m[2] \in Nat
    BY DEF ChatsTypeOK
  <2>5. ASSUME NEW u PROVE u \in {m[2] : m \in {x \in members : x[1] = c}} <=> u \in {p.low, p.high}
    <3>1. ASSUME u \in {p.low, p.high}
          PROVE  \E m \in members : m[1] = c /\ m[2] = u
      <4>1. <<c, u>> \in members
        BY <3>1, <2>2, <2>3
      <4> QED
        BY <4>1
    <3>2. ASSUME NEW m \in members, m[1] = c, m[2] = u PROVE u \in {p.low, p.high}
      BY <3>2, <2>3, <2>4
    <3> QED
      BY <3>1, <3>2
  <2> QED
    BY <2>1, <2>5
<1>2. ASSUME NEW p \in pairs, NEW q \in pairs, {p.low, p.high} = {q.low, q.high}
      PROVE  p = q
  <2>1. p.low < p.high /\ q.low < q.high /\ p \in Pair /\ q \in Pair
    BY DEF RowsTogether, ChatsTypeOK
  <2>2. p.low = q.low /\ p.high = q.high
    BY <1>2, <2>1 DEF Pair
  <2> QED
    BY <2>2 DEF OnePair
<1>3. ASSUME NEW r \in Requests, NEW q \in Requests, answer[r] = "chat", answer[q] = "chat",
             {asked[r].user, asked[r].target} = {asked[q].user, asked[q].target}
      PROVE  found[r] = found[q]
  <2>1. Low(r) = Low(q) /\ High(r) = High(q)
    BY <1>3, PairUnordered DEF ChatsTypeOK
  <2>2. PICK p \in pairs : IsPairOf(r, p) /\ p.chat = found[r]
    BY <1>3 DEF Found
  <2>3. PICK w \in pairs : IsPairOf(q, w) /\ w.chat = found[q]
    BY <1>3 DEF Found
  <2>4. p = w
    BY <2>1, <2>2, <2>3 DEF IsPairOf, OnePair
  <2> QED
    BY <2>2, <2>3, <2>4
<1> QED
  BY <1>1, <1>2, <1>3 DEF SameChat, Found

\* open_direct_chat, for any number of users and of concurrent requests: the
\* requests about two users are answered with the same chat, whoever asks; no
\* request is refused because another was faster; and every chat that exists has
\* exactly the two members of its pair, which no other chat has.
THEOREM SameChatSafe == ChatsSpec => []SameChat
<1>1. ChatsSpec => []ChatsIInv
  BY ChatsInitIInv, ChatsNextIInv, PTL DEF ChatsSpec
<1> QED
  BY <1>1, IInvSameChat, PTL

----------------------------------------------------------------------------
(* The store of a tab: the inductive invariant *)

\* What an operation is: the fields of its record, and what those that begin,
\* choose or read a chat carry.
OpFields == {"kind", "at", "run", "scope", "n", "chat", "chats", "token", "rows", "next",
             "was", "status"}
HistoryFields == {"kept", "loading", "loaded", "previous", "cursor"}
QuietKinds == {"discover", "retry", "receipt", "event", "read"}
TrackedKinds == {"history", "send", "mailbox", "search"}
ChoiceKinds == {"start", "chats", "select", "open"}

IsHistory(h) ==
    /\ DOMAIN h = HistoryFields
    /\ h.kept \in BOOLEAN /\ h.loading \in BOOLEAN /\ h.loaded \in BOOLEAN /\ h.previous \in BOOLEAN

\* Where those wait that choose a chat, and the awaits of the preference.
Places == {"metadata", "load", "history", "list", "cache", "get", "create", "restore", "write", "clear"}

\* The operations that begin a lifecycle or choose a chat.
ChoiceOps ==
    [kind : ChoiceKinds, at : Places, run : Nat, scope : Nat, n : Nat, chat : Chats \cup {NoChat},
     chats : SUBSET Chats, token : Nat, rows : {{}}, next : {0}, was : {NoHistory},
     status : {"none"}]

Placed(o) ==
    <<o.kind, o.at>> \in {<<"start", "metadata">>, <<"start", "load">>, <<"start", "history">>,
                          <<"chats", "list">>, <<"chats", "cache">>, <<"select", "get">>,
                          <<"select", "history">>, <<"open", "create">>, <<"open", "history">>}
InLine(o) ==
    <<o.kind, o.at>> \in {<<"start", "restore">>, <<"chats", "restore">>, <<"select", "write">>,
                          <<"select", "clear">>, <<"open", "write">>}

\* An operation belongs to a lifecycle that has begun; a selection and an opening are
\* of a chat.
IsChoice(o) == o \in ChoiceOps /\ o.run # 0 /\ o.run <= runs /\ (o.kind \in {"select", "open"} => o.chat \in Chats)

IsOp(o) ==
    /\ DOMAIN o = OpFields /\ o.kind \in QuietKinds \cup TrackedKinds \cup ChoiceKinds
    /\ o.run \in Nat /\ o.run <= runs
    /\ At(o, "discover", "cache") => o.chat \in Chats
    /\ o.kind = "history" => o.chat \in Chats /\ IsHistory(o.was) /\ ~o.was.loading
    /\ o.kind \in ChoiceKinds => IsChoice(o) /\ Placed(o)

StoreFields ==
    {"selected", "loadingChat", "opening", "chats", "loadingChats", "loadingMailbox", "searching",
     "results", "sending", "peerRead", "history", "shown", "selection", "searchRequest", "loads",
     "reload", "requests", "tokens", "recent", "discovered"}

IsStore(b) ==
    /\ DOMAIN b = StoreFields
    /\ b.selected \in Chats \cup {NoChat} /\ b.loadingChat \in Chats \cup {NoChat}
    /\ b.opening \in BOOLEAN /\ b.loadingChats \in BOOLEAN /\ b.loadingMailbox \in BOOLEAN
    /\ b.searching \in BOOLEAN /\ b.sending \in BOOLEAN /\ b.loads \in BOOLEAN /\ b.reload \in BOOLEAN
    /\ b.selection \in Nat /\ b.searchRequest \in Nat /\ b.tokens \in Nat
    /\ DOMAIN b.history = Chats /\ \A c \in Chats : IsHistory(b.history[c])
    /\ b.requests \in [Chats -> Nat]

Shapes ==
    /\ run \in Nat /\ runs \in Nat /\ run <= runs /\ scope \in Nat
    /\ existing \subseteq Chats /\ cached \subseteq Chats /\ pref \in Chats \cup {NoChat}
    /\ unsettled \in BOOLEAN
    /\ IsStore(store)
    /\ \A o \in ops : IsOp(o)
    /\ queue \in Seq(ChoiceOps)
    /\ \A i \in DOMAIN queue : IsChoice(queue[i]) /\ InLine(queue[i])

\* All operations, wherever they wait.
Items(q) == {q[i] : i \in DOMAIN q}
Pending == ops \cup Items(queue)

\* Each mark of the store has an operation of this lifecycle that will take it off.
OpeningOwned == store.opening => \E o \in Pending : Current(o) /\ o.kind = "open"
SearchOwned ==
    /\ store.searching => \E o \in ops : IsSearch(o) /\ o.kind = "search"
    /\ ~store.searching => store.results \in {0, store.searchRequest}
SendingOwned == store.sending => \E o \in ops : Current(o) /\ o.kind = "send"
Starting == \E o \in Pending : Current(o) /\ o.kind = "start"
ChatsOwned == store.loadingChats => Starting \/ \E o \in ops : Current(o) /\ At(o, "chats", "list")
MailboxOwned ==
    /\ store.reload => store.loads
    /\ store.loads => \E o \in ops : Current(o) /\ o.kind = "mailbox"
    /\ store.loadingMailbox => store.loads \/ Starting
Requested(b, S, r) ==
    \A c \in Chats : b.history[c].loading =>
        \E o \in S : o.kind = "history" /\ o.run = r /\ o.chat = c /\ o.token = b.requests[c]
HistoryOwned == Requested(store, ops, run)
SelectionOwned ==
    store.loadingChat # NoChat => \E o \in Pending : IsCurrent(o) /\ o.kind = "select"

MarksOwned ==
    run # 0 => /\ OpeningOwned /\ SearchOwned /\ SendingOwned /\ ChatsOwned /\ MailboxOwned
               /\ HistoryOwned /\ SelectionOwned

\* Of the choices of lifecycle r that wait in S or in q the n-th, which is the last, is
\* alone with its number, and no two of them open a chat.
Chooses(o, r) == o.run = r /\ o.kind \in {"select", "open"}
Top(o, r, n) == Chooses(o, r) /\ o.n = n
Rivals(o, p, r, n) ==
    \/ Top(o, r, n) /\ Top(p, r, n)
    \/ o.run = r /\ p.run = r /\ o.kind = "open" /\ p.kind = "open"
Alone(S, q, r, n) ==
    /\ \A o, p \in S : Rivals(o, p, r, n) => o = p
    /\ \A i, j \in DOMAIN q : Rivals(q[i], q[j], r, n) => i = j
    /\ \A o \in S, i \in DOMAIN q : ~Rivals(o, q[i], r, n)
Numbered(P, r, n) == \A o \in P : Chooses(o, r) => o.n \in 1..n

\* The chat of the last choice is the selected one, from when it is applied until it
\* has failed.
Applied(o) ==
    <<o.kind, o.at>> \in {<<"select", "write">>, <<"select", "get">>, <<"open", "history">>,
                          <<"open", "write">>}
Chosen(P, r, n, c) == \A o \in P : Top(o, r, n) /\ Applied(o) => o.chat = c
OpensMarked == \A o \in Pending : Current(o) /\ o.kind = "open" => store.opening

ChoicesSound ==
    run # 0 => /\ Alone(ops, queue, run, store.selection)
               /\ Numbered(Pending, run, store.selection)
               /\ Chosen(Pending, run, store.selection, store.selected)
               /\ OpensMarked

\* Once the operations of q have written the preference v, it is chat c or none.
Writes(o) == o.at \in {"write", "clear"}
Written(o) == IF o.at = "clear" THEN NoChat ELSE o.chat
Fits(q, v, c) ==
    \/ (\A i \in DOMAIN q : ~Writes(q[i])) /\ v \in {c, NoChat}
    \/ \E i \in DOMAIN q : /\ Writes(q[i]) /\ \A j \in DOMAIN q : Writes(q[j]) => j <= i
                           /\ Written(q[i]) \in {c, NoChat}

\* Operations of lifecycle r wait behind those of earlier ones; none of them writes.
InOrder(q, r) == \A i, j \in DOMAIN q : i < j /\ q[i].run = r => q[j].run = r
WriteFree(q, r) == \A i \in DOMAIN q : ~(q[i].run = r /\ Writes(q[i]))

\* A restoration is still to come; the write of an opening is still to come.
Restoring == \E o \in Pending : Current(o) /\ o.kind \in {"start", "chats"}
WillWrite == \E o \in ops : Top(o, run, store.selection) /\ At(o, "open", "history")

PreferenceSound ==
    run # 0 =>
        /\ InOrder(queue, run)
        /\ \/ (unsettled \/ (store.selected = NoChat /\ Restoring)) /\ WriteFree(queue, run)
           \/ WillWrite
           \/ Fits(queue, pref, store.selected)

StoreIInv == Shapes /\ MarksOwned /\ ChoicesSound /\ PreferenceSound

----------------------------------------------------------------------------
(* The queue of preference operations *)

\* An operation that is appended comes last.
LEMMA AppendFacts ==
    ASSUME NEW q \in Seq(ChoiceOps), NEW x \in ChoiceOps
    PROVE  /\ Append(q, x) \in Seq(ChoiceOps)
           /\ DOMAIN q = 1..Len(q) /\ Len(q) \in Nat
           /\ DOMAIN Append(q, x) = 1..(Len(q) + 1)
           /\ \A i \in DOMAIN q : i \in DOMAIN Append(q, x) /\ Append(q, x)[i] = q[i]
           /\ Append(q, x)[Len(q) + 1] = x
           /\ Items(Append(q, x)) = Items(q) \cup {x}
  <1>1. /\ Append(q, x) \in Seq(ChoiceOps)
        /\ DOMAIN q = 1..Len(q) /\ Len(q) \in Nat
        /\ DOMAIN Append(q, x) = 1..(Len(q) + 1)
        /\ \A i \in DOMAIN q : i \in DOMAIN Append(q, x) /\ Append(q, x)[i] = q[i]
        /\ Append(q, x)[Len(q) + 1] = x
    OBVIOUS
  <1>2. \A i \in DOMAIN Append(q, x) : i \in DOMAIN q \/ i = Len(q) + 1
    BY <1>1
  <1>3. Len(q) + 1 \in DOMAIN Append(q, x)
    BY <1>1
  <1> DEFINE a == Append(q, x)
  <1> HIDE DEF a
  <1>4. /\ \A i \in DOMAIN a : i \in DOMAIN q \/ i = Len(q) + 1
        /\ Len(q) + 1 \in DOMAIN a /\ a[Len(q) + 1] = x
        /\ \A i \in DOMAIN q : i \in DOMAIN a /\ a[i] = q[i]
    BY <1>1, <1>2, <1>3 DEF a
  <1>5. Items(a) = Items(q) \cup {x}
    BY <1>4 DEF Items
  <1> QED BY <1>1, <1>5 DEF a

\* Without its head the queue has the others in their order.
LEMMA TailFacts ==
    ASSUME NEW q \in Seq(ChoiceOps), q # <<>>
    PROVE  /\ Tail(q) \in Seq(ChoiceOps) /\ Head(q) = q[1] /\ 1 \in DOMAIN q
           /\ Head(q) \in ChoiceOps
           /\ DOMAIN q = 1..Len(q) /\ Len(q) \in Nat
           /\ DOMAIN Tail(q) = 1..(Len(q) - 1)
           /\ \A i \in DOMAIN Tail(q) : i + 1 \in DOMAIN q /\ Tail(q)[i] = q[i + 1]
           /\ Head(q) \in Items(q) /\ Items(q) = Items(Tail(q)) \cup {Head(q)}
  <1>1. /\ Tail(q) \in Seq(ChoiceOps) /\ Head(q) = q[1] /\ 1 \in DOMAIN q
        /\ Head(q) \in ChoiceOps
        /\ DOMAIN q = 1..Len(q) /\ Len(q) \in Nat
        /\ DOMAIN Tail(q) = 1..(Len(q) - 1)
        /\ \A i \in DOMAIN Tail(q) : i + 1 \in DOMAIN q /\ Tail(q)[i] = q[i + 1]
    OBVIOUS
  <1>2. \A i \in DOMAIN q : i = 1 \/ (i - 1 \in DOMAIN Tail(q) /\ Tail(q)[i - 1] = q[i])
    BY <1>1
  <1> DEFINE a == Tail(q)
             h == Head(q)
  <1> HIDE DEF a, h
  <1>3. /\ \A i \in DOMAIN q : i = 1 \/ (i - 1 \in DOMAIN a /\ a[i - 1] = q[i])
        /\ \A i \in DOMAIN a : i + 1 \in DOMAIN q /\ a[i] = q[i + 1]
        /\ h = q[1] /\ 1 \in DOMAIN q
    BY <1>1, <1>2 DEF a, h
  <1>4. h \in Items(q) /\ Items(q) = Items(a) \cup {h}
    BY <1>3 DEF Items
  <1> QED BY <1>1, <1>4 DEF a, h

\* An empty queue has no operations.
LEMMA NoItems ==
    ASSUME NEW q \in Seq(ChoiceOps), q = <<>>
    PROVE  Items(q) = {} /\ \A i \in DOMAIN q : FALSE
  BY DEF Items

\* The order of lifecycles in the queue.
LEMMA InOrderTail ==
    ASSUME NEW q \in Seq(ChoiceOps), q # <<>>, NEW r, InOrder(q, r)
    PROVE  InOrder(Tail(q), r)
  <1> DEFINE a == Tail(q)
  <1>1. /\ \A i \in DOMAIN a : i + 1 \in DOMAIN q /\ a[i] = q[i + 1]
        /\ \A i \in DOMAIN a : i \in Int
    BY TailFacts
  <1> HIDE DEF a
  <1> QED BY <1>1 DEF InOrder, a

\* An operation of the lifecycle there is joins the end.
LEMMA InOrderAppend ==
    ASSUME NEW q \in Seq(ChoiceOps), NEW x \in ChoiceOps, NEW r, x.run = r, InOrder(q, r)
    PROVE  InOrder(Append(q, x), r)
  <1> DEFINE a == Append(q, x)
             n == Len(q)
  <1>1. /\ \A i \in DOMAIN a : i \in Int /\ (i \in DOMAIN q \/ i = n + 1)
        /\ \A i \in DOMAIN q : i \in DOMAIN a /\ a[i] = q[i]
        /\ a[n + 1] = x /\ n \in Nat
    BY AppendFacts
  <1>2. \A i, j \in DOMAIN a : i < j => i \in DOMAIN q
    BY AppendFacts
  <1> HIDE DEF a, n
  <1>3. InOrder(a, r)
    BY <1>1, <1>2 DEF InOrder
  <1> QED BY <1>3 DEF a

\* If the first operation is of lifecycle r so are all.
LEMMA AllOwn ==
    ASSUME NEW q \in Seq(ChoiceOps), q # <<>>, NEW r, InOrder(q, r), Head(q).run = r
    PROVE  \A i \in DOMAIN q : q[i].run = r
  BY TailFacts DEF InOrder

\* A queue without writes of lifecycle r stays so when its head leaves.
LEMMA WriteFreeTail ==
    ASSUME NEW q \in Seq(ChoiceOps), q # <<>>, NEW r, WriteFree(q, r)
    PROVE  WriteFree(Tail(q), r)
  <1> DEFINE a == Tail(q)
  <1>1. \A i \in DOMAIN a : i + 1 \in DOMAIN q /\ a[i] = q[i + 1]
    BY TailFacts
  <1> HIDE DEF a
  <1> QED BY <1>1 DEF WriteFree, a

\* So it does when an operation joins that does not write.
LEMMA WriteFreeAppend ==
    ASSUME NEW q \in Seq(ChoiceOps), NEW x \in ChoiceOps, NEW r, ~Writes(x), WriteFree(q, r)
    PROVE  WriteFree(Append(q, x), r)
  <1> DEFINE a == Append(q, x)
             n == Len(q)
  <1>1. /\ \A i \in DOMAIN a : i \in DOMAIN q \/ i = n + 1
        /\ \A i \in DOMAIN q : a[i] = q[i]
        /\ a[n + 1] = x
    BY AppendFacts
  <1> HIDE DEF a, n
  <1>3. WriteFree(a, r)
    BY <1>1 DEF WriteFree
  <1> QED BY <1>3 DEF a

\* What the preference will be in the end: a write that is appended decides.
LEMMA FitsWrite ==
    ASSUME NEW q \in Seq(ChoiceOps), NEW x \in ChoiceOps, NEW v, NEW c,
           Writes(x), Written(x) \in {c, NoChat}
    PROVE  Fits(Append(q, x), v, c)
  <1> DEFINE a == Append(q, x)
             n == Len(q)
  <1>1. /\ \A i \in DOMAIN a : i <= n + 1
        /\ n + 1 \in DOMAIN a /\ a[n + 1] = x
    BY AppendFacts
  <1> HIDE DEF a, n
  <1>3. Fits(a, v, c)
    BY <1>1 DEF Fits
  <1> QED BY <1>3 DEF a

\* Anything else that is appended does not.
LEMMA FitsAppend ==
    ASSUME NEW q \in Seq(ChoiceOps), NEW x \in ChoiceOps, NEW v, NEW c,
           ~Writes(x), Fits(q, v, c)
    PROVE  Fits(Append(q, x), v, c)
  <1> DEFINE a == Append(q, x)
             n == Len(q)
  <1>1. /\ \A i \in DOMAIN a : i \in DOMAIN q \/ i = n + 1
        /\ \A i \in DOMAIN q : i \in DOMAIN a /\ a[i] = q[i]
        /\ a[n + 1] = x
    BY AppendFacts
  <1> HIDE DEF a, n
  <1>3. Fits(a, v, c)
    BY <1>1 DEF Fits
  <1> QED BY <1>3 DEF a

\* A write that is done, and anything else that leaves the preference or clears it.
LEMMA FitsTail ==
    ASSUME NEW q \in Seq(ChoiceOps), q # <<>>, NEW v, NEW w, NEW c, Fits(q, v, c),
           w = (IF Writes(Head(q)) THEN Written(Head(q)) ELSE v) \/ w = NoChat
    PROVE  Fits(Tail(q), w, c)
  <1> DEFINE a == Tail(q)
             h == Head(q)
  <1>1. /\ \A i \in DOMAIN q : i \in Nat /\ (i = 1 \/ (i - 1 \in DOMAIN a /\ a[i - 1] = q[i]))
        /\ \A i \in DOMAIN a : i \in Nat /\ i + 1 \in DOMAIN q /\ a[i] = q[i + 1]
        /\ h = q[1] /\ 1 \in DOMAIN q
    BY TailFacts
  <1> HIDE DEF a, h
  <1>2. CASE \A i \in DOMAIN a : ~Writes(a[i])
    <2>1. w \in {c, NoChat}
      <3>1. CASE Writes(h)
        <4>1. \A i \in DOMAIN q : Writes(q[i]) => i = 1
          BY <1>1, <1>2
        <4>2. Written(h) \in {c, NoChat}
          BY <1>1, <4>1, <3>1 DEF Fits
        <4> QED BY <4>2, <3>1 DEF h
      <3>2. CASE ~Writes(h)
        <4>1. \A i \in DOMAIN q : ~Writes(q[i])
          BY <1>1, <1>2, <3>2
        <4>2. v \in {c, NoChat}
          BY <4>1 DEF Fits
        <4> QED BY <4>2, <3>2 DEF h
      <3> QED BY <3>1, <3>2
    <2> QED BY <2>1, <1>2 DEF Fits, a
  <1>3. CASE \E k \in DOMAIN a : Writes(a[k])
    <2>1. PICK k \in DOMAIN a : Writes(a[k])
      BY <1>3
    <2>2. PICK i \in DOMAIN q : /\ Writes(q[i]) /\ \A j \in DOMAIN q : Writes(q[j]) => j <= i
                                /\ Written(q[i]) \in {c, NoChat}
      BY <1>1, <2>1 DEF Fits
    <2>3. i - 1 \in DOMAIN a /\ a[i - 1] = q[i]
      BY <1>1, <2>1, <2>2
    <2>4. \A j \in DOMAIN a : Writes(a[j]) => j <= i - 1
      BY <1>1, <2>2
    <2> QED BY <2>2, <2>3, <2>4 DEF Fits, a
  <1> QED BY <1>2, <1>3

\* No write waits: the preference is final.
LEMMA FitsNow ==
    ASSUME NEW q, NEW v, NEW c, \A i \in DOMAIN q : ~Writes(q[i]), v \in {c, NoChat}
    PROVE  Fits(q, v, c)
  BY DEF Fits

----------------------------------------------------------------------------
(* Choices that move between the operations and the queue *)

\* p is operation o at another of its awaits.
Alike(p, o) == p.kind = o.kind /\ p.run = o.run /\ p.n = o.n /\ p.chat = o.chat

\* Operations end.
LEMMA AloneFewer ==
    ASSUME NEW S, NEW T, T \subseteq S, NEW q, NEW r, NEW n, Alone(S, q, r, n)
    PROVE  Alone(T, q, r, n)
  BY DEF Alone

\* The head of the queue leaves.
LEMMA AloneTail ==
    ASSUME NEW S, NEW q \in Seq(ChoiceOps), q # <<>>, NEW r, NEW n, Alone(S, q, r, n)
    PROVE  Alone(S, Tail(q), r, n)
  <1> DEFINE a == Tail(q)
  <1>1. \A i \in DOMAIN a : i \in Nat /\ i + 1 \in DOMAIN q /\ a[i] = q[i + 1]
    BY TailFacts
  <1> HIDE DEF a
  <1>2. ASSUME NEW i \in DOMAIN a, NEW j \in DOMAIN a, Rivals(a[i], a[j], r, n) PROVE i = j
    <2>1. i + 1 = j + 1
      BY <1>1, <1>2 DEF Alone
    <2> QED BY <1>1, <2>1
  <1>3. \A o \in S, i \in DOMAIN a : ~Rivals(o, a[i], r, n)
    BY <1>1 DEF Alone
  <1> QED BY <1>2, <1>3 DEF Alone, a

\* The first operation of the queue has no rival in what remains, nor elsewhere.
LEMMA HeadAlone ==
    ASSUME NEW S, NEW q \in Seq(ChoiceOps), q # <<>>, NEW r, NEW n, Alone(S, q, r, n)
    PROVE  /\ \A o \in S : ~Rivals(o, Head(q), r, n) /\ ~Rivals(Head(q), o, r, n)
           /\ \A i \in DOMAIN Tail(q) : /\ ~Rivals(Head(q), Tail(q)[i], r, n)
                                        /\ ~Rivals(Tail(q)[i], Head(q), r, n)
  <1> DEFINE a == Tail(q)
             h == Head(q)
  <1>1. /\ \A i \in DOMAIN a : i \in Nat /\ i # 0 /\ i + 1 \in DOMAIN q /\ a[i] = q[i + 1]
        /\ h = q[1] /\ 1 \in DOMAIN q
    BY TailFacts
  <1> HIDE DEF a, h
  <1>2. \A o \in S : ~Rivals(o, h, r, n) /\ ~Rivals(h, o, r, n)
    BY <1>1 DEF Alone, Rivals
  <1>3. ASSUME NEW i \in DOMAIN a PROVE ~Rivals(h, a[i], r, n) /\ ~Rivals(a[i], h, r, n)
    <2>1. i + 1 \in DOMAIN q /\ a[i] = q[i + 1] /\ i + 1 # 1
      BY <1>1
    <2> QED BY <1>1, <2>1 DEF Alone
  <1> QED BY <1>2, <1>3 DEF a, h

\* Operations that choose nothing have no rivals.
LEMMA AloneMore ==
    ASSUME NEW S, NEW N, \A o \in N : o.kind \notin {"select", "open"},
           NEW q, NEW r, NEW n, Alone(S, q, r, n)
    PROVE  Alone(S \cup N, q, r, n)
  BY DEF Alone, Rivals, Top, Chooses

\* x joins the operations.
LEMMA AloneJoin ==
    ASSUME NEW S, NEW q, NEW r, NEW n, Alone(S, q, r, n), NEW x,
           \A o \in S : ~Rivals(o, x, r, n) /\ ~Rivals(x, o, r, n),
           \A i \in DOMAIN q : ~Rivals(x, q[i], r, n)
    PROVE  Alone(S \cup {x}, q, r, n)
  BY DEF Alone

\* x joins the queue.
LEMMA AloneEnd ==
    ASSUME NEW S, NEW q \in Seq(ChoiceOps), NEW r, NEW n, Alone(S, q, r, n), NEW x \in ChoiceOps,
           \A o \in S : ~Rivals(o, x, r, n),
           \A i \in DOMAIN q : ~Rivals(x, q[i], r, n) /\ ~Rivals(q[i], x, r, n)
    PROVE  Alone(S, Append(q, x), r, n)
  <1> DEFINE a == Append(q, x)
             m == Len(q)
  <1>1. /\ \A i \in DOMAIN a : i \in DOMAIN q \/ i = m + 1
        /\ \A i \in DOMAIN q : i \in DOMAIN a /\ a[i] = q[i]
        /\ a[m + 1] = x
    BY AppendFacts
  <1> HIDE DEF a, m
  <1>3. Alone(S, a, r, n)
    BY <1>1 DEF Alone
  <1> QED BY <1>3 DEF a

\* With the next number all choices so far are overtaken.
LEMMA AloneNext ==
    ASSUME NEW S, NEW q \in Seq(ChoiceOps), NEW r, NEW n \in Nat, Alone(S, q, r, n),
           Numbered(S \cup Items(q), r, n)
    PROVE  Alone(S, q, r, n + 1)
  <1>1. \A o \in S : ~Top(o, r, n + 1)
    BY DEF Numbered, Top
  <1>2. \A i \in DOMAIN q : q[i] \in Items(q)
    BY DEF Items
  <1>3. \A i \in DOMAIN q : ~Top(q[i], r, n + 1)
    BY <1>2 DEF Numbered, Top
  <1> QED BY <1>1, <1>3 DEF Alone, Rivals

\* Operation o goes on as p, in ops.
LEMMA AloneGoes ==
    ASSUME NEW S, NEW q, NEW r, NEW n, Alone(S, q, r, n), NEW o \in S, NEW p, Alike(p, o)
    PROVE  Alone((S \ {o}) \cup {p}, q, r, n)
  <1>1. \A x : (Rivals(x, p, r, n) <=> Rivals(x, o, r, n)) /\ (Rivals(p, x, r, n) <=> Rivals(o, x, r, n))
    BY DEF Alike, Rivals, Top, Chooses
  <1> QED BY <1>1 DEF Alone

\* It goes on as p, in the queue.
LEMMA AloneQueued ==
    ASSUME NEW S, NEW q \in Seq(ChoiceOps), NEW r, NEW n, Alone(S, q, r, n), NEW o \in S,
           NEW p \in ChoiceOps, Alike(p, o)
    PROVE  Alone(S \ {o}, Append(q, p), r, n)
  <1>1. \A x : (Rivals(x, p, r, n) <=> Rivals(x, o, r, n)) /\ (Rivals(p, x, r, n) <=> Rivals(o, x, r, n))
    BY DEF Alike, Rivals, Top, Chooses
  <1>2. Alone(S \ {o}, q, r, n)
    BY AloneFewer
  <1>3. \A x : Rivals(x, o, r, n) <=> Rivals(o, x, r, n)
    BY DEF Rivals
  <1>4. \A i \in DOMAIN q : ~Rivals(o, q[i], r, n)
    BY DEF Alone
  <1>5. \A x \in S \ {o} : ~Rivals(x, o, r, n)
    BY DEF Alone
  <1> QED BY <1>1, <1>2, <1>3, <1>4, <1>5, AloneEnd

\* The first of the queue goes on as p, in ops or at the end of the queue.
LEMMA AloneDequeued ==
    ASSUME NEW S, NEW q \in Seq(ChoiceOps), q # <<>>, NEW r, NEW n, Alone(S, q, r, n),
           NEW p \in ChoiceOps, Alike(p, Head(q))
    PROVE  /\ Alone(S \cup {p}, Tail(q), r, n)
           /\ Alone(S, Append(Tail(q), p), r, n)
  <1> DEFINE h == Head(q)
             a == Tail(q)
  <1>1. \A x : (Rivals(x, p, r, n) <=> Rivals(x, h, r, n)) /\ (Rivals(p, x, r, n) <=> Rivals(h, x, r, n))
    BY DEF Alike, Rivals, Top, Chooses
  <1>2. Alone(S, a, r, n) /\ a \in Seq(ChoiceOps)
    BY AloneTail, TailFacts
  <1>3. /\ \A o \in S : ~Rivals(o, h, r, n) /\ ~Rivals(h, o, r, n)
        /\ \A i \in DOMAIN a : ~Rivals(h, a[i], r, n) /\ ~Rivals(a[i], h, r, n)
    BY HeadAlone
  <1> HIDE DEF h, a
  <1>4. Alone(S \cup {p}, a, r, n) /\ Alone(S, Append(a, p), r, n)
    BY <1>1, <1>2, <1>3, AloneJoin, AloneEnd
  <1> QED BY <1>4 DEF a

----------------------------------------------------------------------------
(* What helpers do to the state of the store *)

\* The marks and the selection are the same in b and d.
SameMarks(b, d) ==
    /\ d.selected = b.selected /\ d.loadingChat = b.loadingChat /\ d.opening = b.opening
    /\ d.loadingChats = b.loadingChats /\ d.loadingMailbox = b.loadingMailbox
    /\ d.searching = b.searching /\ d.results = b.results /\ d.sending = b.sending
    /\ d.selection = b.selection /\ d.searchRequest = b.searchRequest
    /\ d.loads = b.loads /\ d.reload = b.reload
    /\ d.history = b.history /\ d.requests = b.requests

\* receive changes rows and discovered chats only.
LEMMA ReceiveMarks ==
    ASSUME NEW b, IsStore(b), NEW messages, NEW chatIds
    PROVE  /\ IsStore(Receive(b, messages, chatIds)) /\ SameMarks(b, Receive(b, messages, chatIds))
           /\ \A f \in StoreFields : f \notin {"shown", "discovered"} =>
                 Receive(b, messages, chatIds)[f] = b[f]
  <1> DEFINE m == mergeMessagesByChat(b.shown, {r \in messages : b.history[r.chat].kept})
  <1>1. Receive(b, messages, chatIds) = [[b EXCEPT !.shown = m] EXCEPT !.discovered = b.discovered \cup chatIds]
    BY DEF Receive, IsStore, StoreFields
  <1> HIDE DEF m
  <1> QED BY <1>1 DEF IsStore, StoreFields, SameMarks

\* Two steps that leave the marks alone.
LEMMA SameMarksTwice ==
    ASSUME NEW b, NEW d, NEW e, SameMarks(b, d), SameMarks(d, e)
    PROVE  SameMarks(b, e)
  BY DEF SameMarks

\* Publications and updates are received, or go nowhere.
LEMMA PublishedMarks ==
    ASSUME IsStore(store), NEW o, NEW messages
    PROVE  IsStore(Published(o, messages)) /\ SameMarks(store, Published(o, messages))
  BY ReceiveMarks DEF Published, SameMarks

\* So do updates that were held back.
LEMMA FlushedMarks ==
    ASSUME NEW b, IsStore(b), NEW u
    PROVE  IsStore(Flushed(b, u)) /\ SameMarks(b, Flushed(b, u))
  BY ReceiveMarks DEF Flushed, SameMarks

\* A read marker moves.
LEMMA MarkedMarks ==
    ASSUME NEW b, IsStore(b), NEW o
    PROVE  IsStore(Marked(b, o)) /\ SameMarks(b, Marked(b, o))
  <1> DEFINE m == Max({b.peerRead, known'})
  <1>1. Marked(b, o) = b \/ Marked(b, o) = [b EXCEPT !.peerRead = m]
    BY DEF Marked
  <1> HIDE DEF m
  <1> QED BY <1>1 DEF IsStore, StoreFields, SameMarks

\* Chats are fetched by operations of the lifecycle there is.
LEMMA DiscoverOps ==
    ASSUME run \in Nat, runs \in Nat, run <= runs, NEW b, NEW chatIds
    PROVE  \A p \in Discover(b, chatIds) : IsOp(p) /\ p.kind = "discover" /\ p.run = run
  BY DEF Discover, Op, At, IsOp, OpFields, QuietKinds, TrackedKinds, ChoiceKinds

\* The marks of a history: of chats that are not retained none remains.
SameButHistory(b, d) ==
    /\ d.selected = b.selected /\ d.loadingChat = b.loadingChat /\ d.opening = b.opening
    /\ d.loadingChats = b.loadingChats /\ d.loadingMailbox = b.loadingMailbox
    /\ d.searching = b.searching /\ d.results = b.results /\ d.sending = b.sending
    /\ d.selection = b.selection /\ d.searchRequest = b.searchRequest
    /\ d.loads = b.loads /\ d.reload = b.reload

\* retainHistory keeps every mark but those of the chats that it drops.
LEMMA RetainFacts ==
    ASSUME NEW b, IsStore(b), NEW c
    PROVE  /\ IsStore(retainHistory(b, c)) /\ SameButHistory(b, retainHistory(b, c))
           /\ \A S, r : Requested(b, S, r) => Requested(retainHistory(b, c), S, r)
  <1> DEFINE recent == <<c>> \o SelectSeq(b.recent, LAMBDA y : y # c)
             k == IF Len(recent) <= MaxCachedChats THEN recent ELSE SubSeq(recent, 1, MaxCachedChats)
             K == ToSet(k)
             q == [y \in Chats |-> IF y \in K THEN b.requests[y] ELSE 0]
             s == [y \in Chats |-> IF y \in K THEN b.shown[y] ELSE {}]
             h == [y \in Chats |-> IF y \in K THEN b.history[y] ELSE NoHistory]
             d == retainHistory(b, c)
  <1>1. d = [[[[b EXCEPT !.recent = k] EXCEPT !.requests = q] EXCEPT !.shown = s] EXCEPT !.history = h]
    BY DEF retainHistory, IsStore, StoreFields
  <1> HIDE DEF recent, k, K, d, s
  <1>2. /\ DOMAIN d = StoreFields /\ SameButHistory(b, d)
        /\ d.tokens = b.tokens /\ d.requests = q /\ d.history = h
    BY <1>1 DEF IsStore, StoreFields, SameButHistory
  <1>3. q \in [Chats -> Nat]
    BY DEF IsStore
  <1>4. \A y \in Chats : IsHistory(h[y])
    BY DEF IsStore, IsHistory, NoHistory, HistoryFields
  <1>5. IsStore(d)
    BY <1>2, <1>3, <1>4 DEF IsStore, SameButHistory
  <1>6. \A S, r : Requested(b, S, r) => Requested(d, S, r)
    BY <1>2 DEF Requested, NoHistory
  <1> QED BY <1>2, <1>5, <1>6 DEF d

\* A request for a page marks its chat, and has an operation.
LEMMA BegunFacts ==
    ASSUME NEW b, IsStore(b), NEW c \in Chats, NEW previous \in BOOLEAN,
           run \in Nat, runs \in Nat, run <= runs
    PROVE  /\ IsStore(HistoryBegun(b, c, previous)) /\ SameButHistory(b, HistoryBegun(b, c, previous))
           /\ \A p \in HistoryOps(b, c, previous) : IsOp(p) /\ p.kind = "history" /\ p.run = run
           /\ \A S : Requested(b, S, run) =>
                 Requested(HistoryBegun(b, c, previous), S \cup HistoryOps(b, c, previous), run)
  <1> DEFINE d == HistoryBegun(b, c, previous)
             N == HistoryOps(b, c, previous)
             x == [Op("history", "read") EXCEPT !.chat = c, !.token = b.tokens + 1,
                      !.was = b.history[c], !.next = IF previous THEN b.history[c].cursor ELSE 0]
  <1>1. CASE ~CanLoad(b, c, previous)
    BY <1>1 DEF HistoryBegun, HistoryOps, SameButHistory, Requested
  <1>2. CASE CanLoad(b, c, previous)
    <2>1. N = {x}
      BY <1>2 DEF HistoryOps
    <2>2. /\ DOMAIN x = OpFields /\ x.kind = "history" /\ x.run = run /\ x.chat = c
          /\ x.token = b.tokens + 1 /\ x.was = b.history[c]
      BY DEF Op, OpFields
    <2>3. IsHistory(b.history[c]) /\ ~b.history[c].loading
      BY <1>2 DEF CanLoad, IsStore
    <2>4. IsOp(x)
      BY <2>2, <2>3 DEF IsOp, At, QuietKinds, TrackedKinds, ChoiceKinds
    <2>5. /\ DOMAIN d = StoreFields /\ SameButHistory(b, d) /\ d.tokens = b.tokens + 1
          /\ d.requests = [b.requests EXCEPT ![c] = b.tokens + 1]
          /\ DOMAIN d.history = Chats
          /\ d.history[c] = [b.history[c] EXCEPT !.kept = TRUE, !.loading = TRUE]
          /\ \A y \in Chats \ {c} : d.history[y] = b.history[y]
      BY <1>2 DEF HistoryBegun, IsStore, StoreFields, SameButHistory
    <2> HIDE DEF x, d, N
    <2>6. IsHistory(d.history[c])
      BY <2>5, <2>3 DEF IsHistory, HistoryFields
    <2>7. IsStore(d)
      BY <2>5, <2>6 DEF IsStore, SameButHistory
    <2>8. ASSUME NEW S, Requested(b, S, run) PROVE Requested(d, S \cup N, run)
      <3> SUFFICES ASSUME NEW y \in Chats, d.history[y].loading
                   PROVE  \E o \in S \cup N : /\ o.kind = "history" /\ o.run = run
                                              /\ o.chat = y /\ o.token = d.requests[y]
        BY DEF Requested
      <3>1. CASE y = c
        <4>1. d.requests[y] = b.tokens + 1
          BY <3>1, <2>5 DEF IsStore
        <4> QED BY <3>1, <4>1, <2>1, <2>2
      <3>2. CASE y # c
        BY <3>2, <2>5, <2>8 DEF IsStore, Requested
      <3> QED BY <3>1, <3>2
    <2>9. \A p \in N : IsOp(p) /\ p.kind = "history" /\ p.run = run
      BY <2>1, <2>2, <2>4
    <2> QED BY <2>5, <2>7, <2>8, <2>9 DEF d, N
  <1> QED BY <1>1, <1>2

----------------------------------------------------------------------------
(* Steps that choose nothing *)

\* The operations that choose a chat are the same after the step, as are the queue,
\* the preference and the selection.
ChoicesStay ==
    /\ run' = run /\ runs' = runs /\ queue' = queue /\ pref' = pref /\ unsettled' = unsettled
    /\ store'.selected = store.selected /\ store'.selection = store.selection
    /\ store'.opening = store.opening /\ store'.loadingChat = store.loadingChat
    /\ store'.loadingChats = store.loadingChats
    /\ \A o : o.kind \in ChoiceKinds => (o \in ops' <=> o \in ops)

\* A step that leaves the choices, the selection and the queue alone.
LEMMA ChoicesKept ==
    ASSUME StoreIInv, ChoicesStay
    PROVE  /\ ChoicesSound' /\ PreferenceSound' /\ (Starting' <=> Starting)
           /\ run # 0 => OpeningOwned' /\ ChatsOwned' /\ SelectionOwned'
  <1>1. \A o : o.kind \in ChoiceKinds => (o \in Pending' <=> o \in Pending)
    BY DEF ChoicesStay, Pending, Items
  <1>2. Starting' <=> Starting
    BY <1>1 DEF Starting, Current, ChoicesStay, ChoiceKinds
  <1>3. ASSUME run # 0 PROVE OpeningOwned' /\ ChatsOwned' /\ SelectionOwned'
    <2>1. OpeningOwned'
      BY <1>1, <1>3 DEF StoreIInv, MarksOwned, OpeningOwned, Current, ChoicesStay, ChoiceKinds
    <2>2. SelectionOwned'
      BY <1>1, <1>3 DEF StoreIInv, MarksOwned, SelectionOwned, IsCurrent, Current, ChoicesStay, ChoiceKinds
    <2>3. ChatsOwned'
      BY <1>2, <1>3 DEF StoreIInv, MarksOwned, ChatsOwned, Current, At, ChoicesStay, ChoiceKinds
    <2> QED BY <2>1, <2>2, <2>3
  <1>4. ChoicesSound'
    <2> SUFFICES ASSUME run # 0
                 PROVE  /\ Alone(ops', queue, run, store.selection)
                        /\ Numbered(Pending', run, store.selection)
                        /\ Chosen(Pending', run, store.selection, store.selected)
                        /\ OpensMarked'
      BY DEF ChoicesSound, ChoicesStay
    <2>1. Alone(ops', queue, run, store.selection)
      BY DEF StoreIInv, ChoicesSound, Alone, Rivals, Top, Chooses, ChoicesStay, ChoiceKinds
    <2>2. Numbered(Pending', run, store.selection)
      BY <1>1 DEF StoreIInv, ChoicesSound, Numbered, Chooses, ChoiceKinds
    <2>3. Chosen(Pending', run, store.selection, store.selected)
      BY <1>1 DEF StoreIInv, ChoicesSound, Chosen, Top, Chooses, ChoiceKinds
    <2>4. OpensMarked'
      BY <1>1 DEF StoreIInv, ChoicesSound, OpensMarked, Current, ChoicesStay, ChoiceKinds
    <2> QED BY <2>1, <2>2, <2>3, <2>4
  <1>5. PreferenceSound'
    <2>1. Restoring' <=> Restoring
      BY <1>1 DEF Restoring, Current, ChoicesStay, ChoiceKinds
    <2>2. WillWrite' <=> WillWrite
      BY DEF WillWrite, Top, Chooses, At, ChoicesStay, ChoiceKinds
    <2> QED BY <2>1, <2>2 DEF StoreIInv, PreferenceSound, ChoicesStay
  <1> QED BY <1>2, <1>3, <1>4, <1>5

\* Then what is left to show are the shapes, and the marks that calls take off.
Typed ==
    /\ run' = run /\ runs' = runs /\ scope' = scope
    /\ existing' \subseteq Chats /\ cached' \subseteq Chats
    /\ IsStore(store')

\* Such a step keeps the invariant if the other marks stay owned.
LEMMA TrackedStep ==
    ASSUME StoreIInv, Typed, ChoicesStay,
           \A o \in ops' : o \in ops \/ IsOp(o),
           run # 0 => SearchOwned' /\ SendingOwned' /\ MailboxOwned' /\ HistoryOwned'
    PROVE  StoreIInv'
  <1>1. Shapes'
    <2>1. \A o : IsOp(o)' <=> IsOp(o)
      BY DEF IsOp, IsChoice, Typed
    <2>2. \A o \in ops' : IsOp(o)'
      BY <2>1 DEF StoreIInv, Shapes
    <2> QED BY <2>2 DEF StoreIInv, Shapes, Typed, ChoicesStay, IsChoice
  <1>2. MarksOwned'
    BY ChoicesKept DEF MarksOwned, ChoicesStay
  <1> QED BY <1>1, <1>2, ChoicesKept DEF StoreIInv

\* Operation o goes on as one of more, or ends if no mark waits for it; the marks stay.
GoesOnIn(o, more) ==
    /\ ops' = (ops \ {o}) \cup more
    /\ o.kind \in QuietKinds \cup {"history", "send", "mailbox"}
    /\ \A p \in more : IsOp(p) /\ p.kind \in QuietKinds \cup {"history", "send", "mailbox"}
    /\ o.kind \in {"history", "send", "mailbox"} =>
          \E p \in more : /\ p.kind = o.kind /\ p.run = o.run
                          /\ p.chat = o.chat /\ p.token = o.token

\* A step of an operation that changes no mark, and goes on if it owns one.
LEMMA NeutralStep ==
    ASSUME StoreIInv, Typed, SameMarks(store, store'), UNCHANGED <<queue, pref, unsettled>>,
           NEW o \in ops, NEW more, GoesOnIn(o, more)
    PROVE  StoreIInv'
  <1>1. ChoicesStay
    BY DEF ChoicesStay, Typed, SameMarks, GoesOnIn, QuietKinds, ChoiceKinds
  <1>2. ASSUME run # 0 PROVE SearchOwned' /\ SendingOwned' /\ MailboxOwned' /\ HistoryOwned'
    <2>0. MarksOwned
      BY DEF StoreIInv
    <2>1. SearchOwned'
      BY <1>2, <2>0 DEF MarksOwned, SearchOwned, IsSearch, Current, SameMarks, GoesOnIn, QuietKinds, Typed
    <2>2. SendingOwned'
      BY <1>2, <2>0 DEF MarksOwned, SendingOwned, Current, SameMarks, GoesOnIn, Typed
    <2>3. MailboxOwned'
      BY <1>1, <1>2, <2>0, ChoicesKept
         DEF MarksOwned, MailboxOwned, Current, SameMarks, GoesOnIn, Typed
    <2>4. HistoryOwned'
      BY <1>2, <2>0 DEF MarksOwned, HistoryOwned, Requested, SameMarks, GoesOnIn, Typed
    <2> QED BY <2>1, <2>2, <2>3, <2>4
  <1>3. \A p \in ops' : p \in ops \/ IsOp(p)
    BY DEF GoesOnIn
  <1> QED BY <1>1, <1>2, <1>3, TrackedStep

\* Operations join, and the marks stay.
LEMMA JoiningStep ==
    ASSUME StoreIInv, Typed, SameMarks(store, store'), UNCHANGED <<queue, pref, unsettled>>,
           NEW more, ops' = ops \cup more,
           \A p \in more : IsOp(p) /\ p.kind \notin ChoiceKinds
    PROVE  StoreIInv'
  <1>1. ChoicesStay
    BY DEF ChoicesStay, Typed, SameMarks
  <1>2. ASSUME run # 0 PROVE SearchOwned' /\ SendingOwned' /\ MailboxOwned' /\ HistoryOwned'
    <2>0. MarksOwned
      BY DEF StoreIInv
    <2>1. SearchOwned' /\ SendingOwned'
      BY <1>2, <2>0 DEF MarksOwned, SearchOwned, SendingOwned, IsSearch, Current, SameMarks, Typed
    <2>3. MailboxOwned'
      BY <1>1, <1>2, <2>0, ChoicesKept DEF MarksOwned, MailboxOwned, Current, SameMarks, Typed
    <2>4. HistoryOwned'
      BY <1>2, <2>0 DEF MarksOwned, HistoryOwned, Requested, SameMarks, Typed
    <2> QED BY <2>1, <2>3, <2>4
  <1> QED BY <1>1, <1>2, TrackedStep

\* An operation that goes on is an operation.
LEMMA Continues ==
    ASSUME NEW o, IsOp(o), o.kind \notin ChoiceKinds, NEW p, DOMAIN p = OpFields,
           p.kind = o.kind, p.run = o.run, p.chat = o.chat, p.was = o.was,
           At(p, "discover", "cache") => o.chat \in Chats
    PROVE  IsOp(p)
  BY DEF IsOp, At

\* An operation that owns no mark may end.
LEMMA NoMore ==
    ASSUME NEW o, o.kind \in QuietKinds, Ends(o)
    PROVE  GoesOnIn(o, {})
  BY DEF GoesOnIn, Ends, QuietKinds

\* The step of operation o, which goes on as p, with chats to fetch.
LEMMA GoesOnAs ==
    ASSUME StoreIInv, NEW o \in ops, o.kind \in QuietKinds \cup {"history", "send", "mailbox"},
           NEW p, DOMAIN p = OpFields, p.kind = o.kind, p.run = o.run, p.chat = o.chat,
           p.token = o.token, p.was = o.was, At(p, "discover", "cache") => o.chat \in Chats,
           NEW new, \A x \in new : IsOp(x) /\ x.kind = "discover",
           ops' = (ops \ {o}) \cup {p} \cup new
    PROVE  GoesOnIn(o, {p} \cup new)
  <1>1. IsOp(o) /\ o.kind \notin ChoiceKinds
    BY DEF StoreIInv, Shapes, QuietKinds, ChoiceKinds
  <1>2. IsOp(p)
    BY <1>1, Continues
  <1> QED BY <1>2 DEF GoesOnIn, QuietKinds

\* The chats to fetch have well-formed operations.
LEMMA NewChatsOps ==
    ASSUME StoreIInv, NEW b
    PROVE  \A x \in NewChats(b) : IsOp(x) /\ x.kind = "discover"
  BY DiscoverOps DEF StoreIInv, Shapes, NewChats

\* The store is left alone.
LEMMA SameStore ==
    ASSUME StoreIInv, UNCHANGED <<run, runs, scope, store>>, existing' \subseteq Chats, cached' \subseteq Chats
    PROVE  Typed /\ SameMarks(store, store')
  BY DEF StoreIInv, Shapes, Typed, SameMarks

----------------------------------------------------------------------------
(* The steps of the operations that fetch, page, send and receive *)

\* A chat that is fetched is added to the list.
LEMMA ListedMarks ==
    ASSUME NEW b, IsStore(b), NEW chatIds
    PROVE  /\ IsStore([b EXCEPT !.chats = @ \cup chatIds])
           /\ SameMarks(b, [b EXCEPT !.chats = @ \cup chatIds])
  BY DEF IsStore, StoreFields, SameMarks

\* The chats that have been seen are no mark.
LEMMA DiscoveredMarks ==
    ASSUME NEW b, IsStore(b), NEW v
    PROVE  /\ IsStore([b EXCEPT !.discovered = v])
           /\ SameMarks(b, [b EXCEPT !.discovered = v])
  BY DEF IsStore, StoreFields, SameMarks

\* Fetching the chat of a message.
LEMMA DiscoverIInv ==
    ASSUME StoreIInv, NEW o \in ops, DiscoverStep(o)
    PROVE  StoreIInv'
  <1>0. /\ IsOp(o) /\ IsStore(store) /\ existing \subseteq Chats /\ cached \subseteq Chats
        /\ DOMAIN o = OpFields
    BY DEF StoreIInv, Shapes, IsOp
  <1>1. CASE DiscoverChat(o)
    <2>1. o.kind = "discover" /\ o.chat \in Chats
      BY <1>0, <1>1 DEF DiscoverChat, At
    <2>2. Typed /\ SameMarks(store, store')
      <3>1. CASE Current(o)
        BY <3>1, <1>0, <1>1, ListedMarks
           DEF DiscoverChat, Typed, backend, inbox, session
      <3>2. CASE ~Current(o)
        BY <3>2, <1>0, <1>1, SameStore DEF DiscoverChat, backend, inbox, session
      <3> QED BY <3>1, <3>2
    <2>3. \E more : GoesOnIn(o, more)
      <3>1. CASE Current(o)
        <4> DEFINE p == [o EXCEPT !.at = "cache"]
        <4>1. ops' = (ops \ {o}) \cup {p} \cup {}
          BY <3>1, <1>1 DEF DiscoverChat, Goes, Becomes
        <4>2. /\ DOMAIN p = OpFields /\ p.kind = o.kind /\ p.run = o.run /\ p.chat = o.chat
              /\ p.token = o.token /\ p.was = o.was
          BY <1>0 DEF OpFields
        <4> HIDE DEF p
        <4>3. GoesOnIn(o, {p} \cup {})
          BY <4>1, <4>2, <2>1, GoesOnAs DEF QuietKinds
        <4> QED BY <4>3
      <3>2. CASE ~Current(o)
        BY <3>2, <1>1, <2>1, NoMore DEF DiscoverChat, QuietKinds
      <3> QED BY <3>1, <3>2
    <2>4. UNCHANGED <<queue, pref, unsettled>>
      BY <1>1 DEF DiscoverChat, preference
    <2> QED BY <2>2, <2>3, <2>4, NeutralStep
  <1>2. CASE DiscoverCache(o)
    <2>1. o.kind = "discover" /\ o.chat \in Chats
      BY <1>0, <1>2 DEF DiscoverCache, At, IsOp
    <2>2. Typed /\ SameMarks(store, store') /\ UNCHANGED <<queue, pref, unsettled>>
      BY <1>0, <1>2, <2>1, SameStore DEF DiscoverCache, backend, session, preference
    <2>3. GoesOnIn(o, {})
      BY <1>2, <2>1, NoMore DEF DiscoverCache, QuietKinds
    <2> QED BY <2>2, <2>3, NeutralStep
  <1>3. CASE DiscoverFails(o)
    <2>1. o.kind = "discover"
      BY <1>3 DEF DiscoverFails, At
    <2>2. Typed /\ SameMarks(store, store') /\ UNCHANGED <<queue, pref, unsettled>>
      <3>1. CASE Current(o)
        BY <3>1, <1>0, <1>3, DiscoveredMarks
           DEF DiscoverFails, Typed, backend, inbox, session, preference
      <3>2. CASE ~Current(o)
        BY <3>2, <1>0, <1>3, SameStore DEF DiscoverFails, backend, inbox, session, preference
      <3> QED BY <3>1, <3>2
    <2>3. GoesOnIn(o, {})
      BY <1>3, <2>1, NoMore DEF DiscoverFails, QuietKinds
    <2> QED BY <2>2, <2>3, NeutralStep
  <1> QED BY <1>1, <1>2, <1>3 DEF DiscoverStep

\* p is operation o at its next await.
Onward(p, o) ==
    /\ DOMAIN p = OpFields /\ p.kind = o.kind /\ p.run = o.run /\ p.chat = o.chat
    /\ p.token = o.token /\ p.was = o.was

\* The forms in which an operation goes on with what it has read.
LEMMA OnwardForms ==
    ASSUME NEW o, DOMAIN o = OpFields, NEW a, NEW x, NEW y
    PROVE  /\ Onward([o EXCEPT !.at = a], o)
           /\ Onward([o EXCEPT !.at = a, !.rows = x], o)
           /\ Onward([o EXCEPT !.at = a, !.rows = x, !.next = y], o)
           /\ Onward([o EXCEPT !.at = a, !.rows = x, !.chats = y], o)
           /\ Onward([o EXCEPT !.at = a, !.status = x], o)
           /\ Onward([o EXCEPT !.at = a, !.n = x], o)
           /\ Onward([o EXCEPT !.at = a, !.next = x], o)
  BY DEF Onward, OpFields

\* An operation goes on and the store stays.
LEMMA StepOn ==
    ASSUME StoreIInv, NEW o \in ops, o.kind \in {"history", "send", "mailbox", "retry", "receipt", "event", "read"},
           Typed, SameMarks(store, store'), UNCHANGED <<queue, pref, unsettled>>,
           NEW p, Onward(p, o), NEW new, \A x \in new : IsOp(x) /\ x.kind = "discover",
           ops' = (ops \ {o}) \cup {p} \cup new
    PROVE  StoreIInv'
  <1>1. ~At(p, "discover", "cache") /\ o.kind \in QuietKinds \cup {"history", "send", "mailbox"}
    BY DEF Onward, At, QuietKinds
  <1>2. GoesOnIn(o, {p} \cup new)
    BY <1>1, GoesOnAs DEF Onward
  <1> QED BY <1>2, NeutralStep

\* An operation that no mark waits for ends.
LEMMA StepEnds ==
    ASSUME StoreIInv, NEW o \in ops, o.kind \in QuietKinds,
           Typed, SameMarks(store, store'), UNCHANGED <<queue, pref, unsettled>>,
           NEW new, \A x \in new : IsOp(x) /\ x.kind = "discover",
           ops' = (ops \ {o}) \cup new
    PROVE  StoreIInv'
  <1>1. GoesOnIn(o, new)
    BY DEF GoesOnIn, QuietKinds
  <1> QED BY <1>1, NeutralStep

\* An operation goes on and nothing else begins.
LEMMA StepOnly ==
    ASSUME StoreIInv, NEW o \in ops, o.kind \in {"history", "send", "mailbox", "retry", "receipt", "event", "read"},
           Typed, SameMarks(store, store'), UNCHANGED <<queue, pref, unsettled>>,
           NEW p, Onward(p, o), ops' = (ops \ {o}) \cup {p}
    PROVE  StoreIInv'
  <1>1. ~At(p, "discover", "cache") /\ IsOp(o) /\ o.kind \notin ChoiceKinds
    BY DEF Onward, At, StoreIInv, Shapes, ChoiceKinds
  <1>2. IsOp(p)
    BY <1>1, Continues DEF Onward
  <1>3. GoesOnIn(o, {p})
    BY <1>2 DEF GoesOnIn, Onward, QuietKinds
  <1> QED BY <1>3, NeutralStep

\* An operation that owns no mark ends and nothing else begins.
LEMMA StepGone ==
    ASSUME StoreIInv, NEW o \in ops, o.kind \in QuietKinds,
           Typed, SameMarks(store, store'), UNCHANGED <<queue, pref, unsettled>>, Ends(o)
    PROVE  StoreIInv'
  BY NoMore, NeutralStep

\* The facts that every step of an operation starts from.
LEMMA OpFacts ==
    ASSUME StoreIInv, NEW o \in ops
    PROVE  /\ IsOp(o) /\ DOMAIN o = OpFields /\ IsStore(store)
           /\ existing \subseteq Chats /\ cached \subseteq Chats
           /\ run \in Nat /\ runs \in Nat /\ run <= runs
  BY DEF StoreIInv, Shapes, IsOp

\* putOutgoing, its publication, the command and its acceptance.
LEMMA SendGoesOn ==
    ASSUME StoreIInv, NEW o \in ops,
           SendPut(o) \/ SendPending(o) \/ SendCommand(o) \/ SendAccept(o)
    PROVE  StoreIInv'
  <1>0. o.kind \in {"send", "retry"}
    BY DEF SendPut, SendPending, SendCommand, SendAccept, At
  <1>1. CASE SendPut(o)
    <2>1. PICK p : Onward(p, o) /\ ops' = (ops \ {o}) \cup {p}
      BY <1>1, OpFacts, OnwardForms DEF SendPut, Becomes
    <2>2. Typed /\ SameMarks(store, store') /\ UNCHANGED <<queue, pref, unsettled>>
      BY <1>1, OpFacts, SameStore DEF SendPut, backend, session, preference
    <2> QED BY <1>0, <2>1, <2>2, StepOnly
  <1>2. CASE SendPending(o)
    <2>1. PICK p : Onward(p, o) /\ ops' = (ops \ {o}) \cup {p} \cup NewChats(store')
      BY <1>2, OpFacts, OnwardForms DEF SendPending
    <2>2. Typed /\ SameMarks(store, store') /\ UNCHANGED <<queue, pref, unsettled>>
      BY <1>2, OpFacts, PublishedMarks DEF SendPending, Typed, backend, inbox, session, preference
    <2> QED BY <1>0, <2>1, <2>2, StepOn, NewChatsOps
  <1>3. CASE SendCommand(o)
    <2>1. PICK p : Onward(p, o) /\ ops' = (ops \ {o}) \cup {p}
      <3>1. Onward([o EXCEPT !.at = "accept", !.status = sent'], o)
        BY OpFacts, OnwardForms
      <3> QED BY <1>3, <3>1 DEF SendCommand, Becomes
    <2>2. Typed /\ SameMarks(store, store') /\ UNCHANGED <<queue, pref, unsettled>>
      BY <1>3, OpFacts, SameStore DEF SendCommand, inbox, session, preference
    <2> QED BY <1>0, <2>1, <2>2, StepOnly
  <1>4. CASE SendAccept(o)
    <2>1. PICK p : Onward(p, o) /\ ops' = (ops \ {o}) \cup {p}
      <3>1. Onward([o EXCEPT !.at = "shown", !.rows = Visible({OwnRow(own')})], o)
        BY OpFacts, OnwardForms
      <3> QED BY <1>4, <3>1 DEF SendAccept, Becomes
    <2>2. Typed /\ SameMarks(store, store') /\ UNCHANGED <<queue, pref, unsettled>>
      BY <1>4, OpFacts, SameStore DEF SendAccept, backend, session, preference
    <2> QED BY <1>0, <2>1, <2>2, StepOnly
  <1> QED BY <1>1, <1>2, <1>3, <1>4

\* An update that is held back or received changes no mark.
LEMMA QueueDeliveryMarks ==
    ASSUME IsStore(store), NEW o, NEW u, QueueDelivery(o, u)
    PROVE  IsStore(store') /\ SameMarks(store, store')
  BY FlushedMarks DEF QueueDelivery, SameMarks

\* Receipts.
LEMMA ReceiptIInv ==
    ASSUME StoreIInv, NEW o \in ops, ReceiptStep(o)
    PROVE  StoreIInv'
  <1>0. o.kind = "receipt" /\ o.kind \in QuietKinds
    BY DEF ReceiptStep, ReceiptCommit, ReceiptQueue, ReceiptFails, At, QuietKinds
  <1>1. CASE ReceiptCommit(o)
    <2>1. Typed /\ SameMarks(store, store') /\ UNCHANGED <<queue, pref, unsettled>>
      BY <1>1, OpFacts, SameStore DEF ReceiptCommit, backend, session, preference
    <2>2. CASE Current(o) /\ InScope(o)
      <3>1. PICK p : Onward(p, o) /\ ops' = (ops \ {o}) \cup {p}
        BY <1>1, <2>2, OpFacts, OnwardForms DEF ReceiptCommit, Goes, Becomes
      <3> QED BY <1>0, <2>1, <3>1, StepOnly
    <2>3. CASE ~(Current(o) /\ InScope(o))
      <3>1. Ends(o)
        BY <1>1, <2>3 DEF ReceiptCommit
      <3> QED BY <1>0, <2>1, <3>1, StepGone
    <2> QED BY <2>2, <2>3
  <1>2. CASE ReceiptQueue(o)
    <2>1. IsStore(store') /\ SameMarks(store, store')
      <3>1. CASE Current(o) /\ InScope(o)
        BY <1>2, <3>1, OpFacts, QueueDeliveryMarks DEF ReceiptQueue
      <3>2. CASE ~(Current(o) /\ InScope(o))
        BY <1>2, <3>2, OpFacts DEF ReceiptQueue, SameMarks
      <3> QED BY <3>1, <3>2
    <2>2. Typed /\ UNCHANGED <<queue, pref, unsettled>>
      BY <1>2, <2>1, OpFacts DEF ReceiptQueue, Typed, backend, session, preference
    <2>3. ops' = (ops \ {o}) \cup NewChats(store')
      BY <1>2 DEF ReceiptQueue
    <2> QED BY <1>0, <2>1, <2>2, <2>3, StepEnds, NewChatsOps
  <1>3. CASE ReceiptFails(o)
    <2>1. Typed /\ SameMarks(store, store') /\ UNCHANGED <<queue, pref, unsettled>>
      BY <1>3, OpFacts, SameStore DEF ReceiptFails, backend, inbox, session, preference
    <2>2. Ends(o)
      BY <1>3 DEF ReceiptFails
    <2> QED BY <1>0, <2>1, <2>2, StepGone
  <1> QED BY <1>1, <1>2, <1>3 DEF ReceiptStep

\* The steps of a load of the mailbox before its end.
LEMMA MailboxReadsOn ==
    ASSUME StoreIInv, NEW o \in ops,
           \/ MailboxSync(o) \/ MailboxPage(o) \/ MailboxReads(o) \/ MailboxMerge(o)
           \/ MailboxRecover(o) \/ MailboxJoin(o) \/ MailboxDecode(o)
    PROVE  StoreIInv'
  <1>0. o.kind = "mailbox"
    BY DEF MailboxSync, MailboxPage, MailboxReads, MailboxMerge, MailboxRecover, MailboxJoin, MailboxDecode, At
  <1>1. CASE MailboxSync(o)
    <2> DEFINE p == [o EXCEPT !.at = "page", !.rows = NewRows(stored + 1, mail),
                                             !.chats = ChatsOf(NewRows(stored + 1, mail))]
    <2>1. Onward(p, o) /\ ops' = (ops \ {o}) \cup {p}
      BY <1>1, OpFacts, OnwardForms DEF MailboxSync, Becomes
    <2>2. Typed /\ SameMarks(store, store') /\ UNCHANGED <<queue, pref, unsettled>>
      BY <1>1, OpFacts, SameStore DEF MailboxSync, backend, session, preference
    <2> HIDE DEF p
    <2> QED BY <1>0, <2>1, <2>2, StepOnly
  <1>2. CASE MailboxPage(o)
    <2> DEFINE p == [o EXCEPT !.at = IF sent = "none" THEN AfterMetadata ELSE "metadata", !.status = sent]
    <2>1. Onward(p, o) /\ ops' = (ops \ {o}) \cup {p}
      BY <1>2, OpFacts, OnwardForms DEF MailboxPage, Becomes
    <2>2. Typed /\ SameMarks(store, store') /\ UNCHANGED <<queue, pref, unsettled>>
      BY <1>2, OpFacts, SameStore DEF MailboxPage, backend, inbox, session, preference
    <2> HIDE DEF p
    <2> QED BY <1>0, <2>1, <2>2, StepOnly
  <1>3. CASE MailboxReads(o)
    <2> DEFINE p == [o EXCEPT !.at = "merge", !.n = read]
    <2>1. Onward(p, o) /\ ops' = (ops \ {o}) \cup {p}
      BY <1>3, OpFacts, OnwardForms DEF MailboxReads, Becomes
    <2>2. Typed /\ SameMarks(store, store') /\ UNCHANGED <<queue, pref, unsettled>>
      BY <1>3, OpFacts, MarkedMarks DEF MailboxReads, Typed, backend, inbox, session, preference
    <2> HIDE DEF p
    <2> QED BY <1>0, <2>1, <2>2, StepOnly
  <1>4. CASE MailboxMerge(o)
    <2> DEFINE p == [o EXCEPT !.at = "recover"]
    <2>1. Onward(p, o) /\ ops' = (ops \ {o}) \cup {p}
      BY <1>4, OpFacts, OnwardForms DEF MailboxMerge, Goes, Becomes
    <2>2. Typed /\ SameMarks(store, store') /\ UNCHANGED <<queue, pref, unsettled>>
      BY <1>4, OpFacts, MarkedMarks DEF MailboxMerge, Typed, backend, session, preference
    <2> HIDE DEF p
    <2> QED BY <1>0, <2>1, <2>2, StepOnly
  <1>5. CASE MailboxRecover(o)
    <2> DEFINE p == [o EXCEPT !.at = "recovered", !.status = IF own' = own THEN "none" ELSE own'.status]
    <2>1. Onward(p, o) /\ ops' = (ops \ {o}) \cup {p}
      <3>1. Onward(p, o)
        BY OpFacts, OnwardForms
      <3>2. ops' = (ops \ {o}) \cup {p}
        BY <1>5 DEF MailboxRecover, Becomes
      <3> QED BY <3>1, <3>2
    <2>2. Typed /\ SameMarks(store, store') /\ UNCHANGED <<queue, pref, unsettled>>
      BY <1>5, OpFacts, SameStore DEF MailboxRecover, session, preference
    <2> HIDE DEF p
    <2> QED BY <1>0, <2>1, <2>2, StepOnly
  <1>6. CASE MailboxJoin(o)
    <2> DEFINE p == [o EXCEPT !.at = "join"]
    <2>1. Onward(p, o) /\ ops' = (ops \ {o}) \cup {p}
      BY <1>6, OpFacts, OnwardForms DEF MailboxJoin, Goes, Becomes
    <2>2. Typed /\ SameMarks(store, store') /\ UNCHANGED <<queue, pref, unsettled>>
      BY <1>6, OpFacts, SameStore DEF MailboxJoin, backend, inbox, session, preference
    <2> HIDE DEF p
    <2> QED BY <1>0, <2>1, <2>2, StepOnly
  <1>7. CASE MailboxDecode(o)
    <2> DEFINE p == [o EXCEPT !.at = "apply", !.rows = Visible(@)]
    <2>1. Onward(p, o) /\ ops' = (ops \ {o}) \cup {p}
      <3>1. Onward(p, o)
        BY OpFacts DEF Onward, OpFields
      <3> QED BY <1>7, <3>1 DEF MailboxDecode, Becomes
    <2>2. Typed /\ SameMarks(store, store') /\ UNCHANGED <<queue, pref, unsettled>>
      BY <1>7, OpFacts, SameStore DEF MailboxDecode, backend, inbox, session, preference
    <2> HIDE DEF p
    <2> QED BY <1>0, <2>1, <2>2, StepOnly
  <1> QED BY <1>1, <1>2, <1>3, <1>4, <1>5, <1>6, <1>7

\* The steps of a load that publish updates.
LEMMA MailboxPublishes ==
    ASSUME StoreIInv, NEW o \in ops, MailboxMetadata(o) \/ MailboxRecovered(o)
    PROVE  StoreIInv'
  <1>0. o.kind = "mailbox"
    BY DEF MailboxMetadata, MailboxRecovered, Recovering, At
  <1>1. CASE MailboxMetadata(o)
    <2> DEFINE p == [o EXCEPT !.at = AfterMetadata]
    <2>1. Onward(p, o) /\ ops' = (ops \ {o}) \cup {p} \cup NewChats(store')
      BY <1>1, OpFacts, OnwardForms DEF MailboxMetadata
    <2>2. IsStore(store') /\ SameMarks(store, store')
      BY <1>1, OpFacts, QueueDeliveryMarks DEF MailboxMetadata
    <2>3. Typed /\ UNCHANGED <<queue, pref, unsettled>>
      BY <1>1, <2>2, OpFacts DEF MailboxMetadata, Typed, backend, session, preference
    <2> HIDE DEF p
    <2> QED BY <1>0, <2>1, <2>2, <2>3, StepOn, NewChatsOps
  <1>2. CASE MailboxRecovered(o)
    <2> DEFINE p == [o EXCEPT !.at = "decode"]
               m == IF o.status = "none" THEN {} ELSE Visible({OwnRow([own EXCEPT !.status = o.status])})
    <2>1. Onward(p, o) /\ ops' = (ops \ {o}) \cup {p} \cup NewChats(store')
      BY <1>2, OpFacts, OnwardForms DEF MailboxRecovered
    <2>2. store' = Published(o, m) \/ store' = Flushed(Published(o, m), due)
      BY <1>2 DEF MailboxRecovered
    <2> HIDE DEF p, m
    <2>3. IsStore(store') /\ SameMarks(store, store')
      BY <2>2, OpFacts, PublishedMarks, FlushedMarks, SameMarksTwice
    <2>4. Typed /\ UNCHANGED <<queue, pref, unsettled>>
      BY <1>2, <2>3, OpFacts DEF MailboxRecovered, Typed, backend, inbox, session, preference
    <2> QED BY <1>0, <2>1, <2>3, <2>4, StepOn, NewChatsOps
  <1> QED BY <1>1, <1>2

\* Events of the mailbox.
LEMMA EventIInv ==
    ASSUME StoreIInv, NEW o \in ops, EventStep(o)
    PROVE  StoreIInv'
  <1>0. o.kind = "event" /\ o.kind \in QuietKinds
    BY DEF EventStep, EventIngest, EventFilter, EventApply, EventFails, At, QuietKinds
  <1>1. CASE EventIngest(o)
    <2>1. PICK m : ops' = (ops \ {o}) \cup {[o EXCEPT !.at = "filter", !.rows = m, !.chats = ChatsOf(m)]}
      BY <1>1 DEF EventIngest, Becomes
    <2> DEFINE p == [o EXCEPT !.at = "filter", !.rows = m, !.chats = ChatsOf(m)]
    <2>2. Onward(p, o) /\ ops' = (ops \ {o}) \cup {p}
      BY <2>1, OpFacts, OnwardForms
    <2>3. Typed /\ SameMarks(store, store') /\ UNCHANGED <<queue, pref, unsettled>>
      BY <1>1, OpFacts, SameStore DEF EventIngest, backend, session, preference
    <2> HIDE DEF p
    <2> QED BY <1>0, <2>2, <2>3, StepOnly
  <1>2. CASE EventFilter(o)
    <2> DEFINE p == [o EXCEPT !.at = "apply", !.rows = Visible(@)]
    <2>1. Onward(p, o)
      BY OpFacts DEF Onward, OpFields
    <2>2. ops' = (ops \ {o}) \cup {p} \cup NewChats(store')
      BY <1>2 DEF EventFilter
    <2>3. IsStore(store') /\ SameMarks(store, store')
      BY <1>2, OpFacts, ReceiveMarks DEF EventFilter, SameMarks
    <2>4. Typed /\ UNCHANGED <<queue, pref, unsettled>>
      BY <1>2, <2>3, OpFacts DEF EventFilter, Typed, backend, inbox, session, preference
    <2> HIDE DEF p
    <2> QED BY <1>0, <2>1, <2>2, <2>3, <2>4, StepOn, NewChatsOps
  <1>3. CASE EventApply(o)
    <2> DEFINE new == IF Current(o) THEN Discover(store, ChatsOf(o.rows)) ELSE {}
    <2>1. ops' = (ops \ {o}) \cup new
      BY <1>3 DEF EventApply, Received
    <2>2. \A x \in new : IsOp(x) /\ x.kind = "discover"
      BY OpFacts, DiscoverOps
    <2>3. IsStore(store') /\ SameMarks(store, store')
      BY <1>3, OpFacts, ReceiveMarks DEF EventApply, Received, SameMarks
    <2>4. Typed /\ UNCHANGED <<queue, pref, unsettled>>
      BY <1>3, <2>3, OpFacts DEF EventApply, Typed, backend, inbox, session, preference
    <2> HIDE DEF new
    <2> QED BY <1>0, <2>1, <2>2, <2>3, <2>4, StepEnds
  <1>4. CASE EventFails(o)
    <2>1. Typed /\ SameMarks(store, store') /\ UNCHANGED <<queue, pref, unsettled>>
      BY <1>4, OpFacts, SameStore DEF EventFails, backend, inbox, session, preference
    <2>2. Ends(o)
      BY <1>4 DEF EventFails
    <2> QED BY <1>0, <2>1, <2>2, StepGone
  <1> QED BY <1>1, <1>2, <1>3, <1>4 DEF EventStep

\* Read positions.
LEMMA ReadIInv ==
    ASSUME StoreIInv, NEW o \in ops, ReadStep(o)
    PROVE  StoreIInv'
  <1>0. o.kind = "read" /\ o.kind \in QuietKinds
    BY DEF ReadStep, ReadCommit, ReadPublish, ReadFails, At, QuietKinds
  <1>1. CASE ReadCommit(o)
    <2> DEFINE p == [o EXCEPT !.at = "publish", !.next = peerRead']
    <2>1. Onward(p, o) /\ ops' = (ops \ {o}) \cup {p}
      BY <1>1, OpFacts, OnwardForms DEF ReadCommit, Becomes
    <2>2. Typed /\ SameMarks(store, store') /\ UNCHANGED <<queue, pref, unsettled>>
      BY <1>1, OpFacts, SameStore DEF ReadCommit, backend, session, preference
    <2> HIDE DEF p
    <2> QED BY <1>0, <2>1, <2>2, StepOnly
  <1>2. CASE ReadPublish(o)
    <2>1. Typed /\ SameMarks(store, store') /\ UNCHANGED <<queue, pref, unsettled>>
      BY <1>2, OpFacts, MarkedMarks DEF ReadPublish, Typed, backend, inbox, session, preference
    <2>2. Ends(o)
      BY <1>2 DEF ReadPublish
    <2> QED BY <1>0, <2>1, <2>2, StepGone
  <1>3. CASE ReadFails(o)
    <2>1. Typed /\ SameMarks(store, store') /\ UNCHANGED <<queue, pref, unsettled>>
      BY <1>3, OpFacts, SameStore DEF ReadFails, backend, inbox, session, preference
    <2>2. Ends(o)
      BY <1>3 DEF ReadFails
    <2> QED BY <1>0, <2>1, <2>2, StepGone
  <1> QED BY <1>1, <1>2, <1>3 DEF ReadStep

----------------------------------------------------------------------------
(* The steps that take marks off, and those that set them *)

\* The facts that hold of any two states whose choices, queue and store agree.
StillChosen ==
    /\ run' = run /\ runs' = runs /\ UNCHANGED <<queue, pref, unsettled>>
    /\ store'.selected = store.selected /\ store'.selection = store.selection
    /\ store'.opening = store.opening /\ store'.loadingChat = store.loadingChat
    /\ store'.loadingChats = store.loadingChats

\* Operation o of another kind ends, and new ones of other kinds begin.
LEMMA OthersStay ==
    ASSUME StillChosen, NEW o, o.kind \notin ChoiceKinds, NEW new,
           \A x \in new : x.kind \notin ChoiceKinds, ops' = (ops \ {o}) \cup new
    PROVE  ChoicesStay
  BY DEF ChoicesStay, StillChosen

\* Operations join that are no choices.
LEMMA OthersJoin ==
    ASSUME StillChosen, NEW new, \A x \in new : x.kind \notin ChoiceKinds, ops' = ops \cup new
    PROVE  ChoicesStay
  BY DEF ChoicesStay, StillChosen

\* The end of a request takes off its mark, or finds that it is not the last one.
LEMMA HistoryEnds ==
    ASSUME StoreIInv, NEW o \in ops, o.kind = "history", Ends(o), Typed,
           UNCHANGED <<queue, pref, unsettled>>, SameButHistory(store, store'),
           IF IsRequest(o)
           THEN /\ ~store'.history[o.chat].loading
                /\ \A c \in Chats \ {o.chat} : /\ store'.history[c] = store.history[c]
                                               /\ store'.requests[c] = store.requests[c]
           ELSE store' = store
    PROVE  StoreIInv'
  <1>1. ChoicesStay
    <2>1. ops' = (ops \ {o}) \cup {} /\ StillChosen /\ o.kind \notin ChoiceKinds
      BY DEF Ends, StillChosen, Typed, SameButHistory, ChoiceKinds
    <2> QED BY <2>1 DEF ChoicesStay, StillChosen, Ends
  <1>2. ASSUME run # 0 PROVE SearchOwned' /\ SendingOwned' /\ MailboxOwned' /\ HistoryOwned'
    <2>0. MarksOwned
      BY DEF StoreIInv
    <2>1. SearchOwned' /\ SendingOwned'
      BY <1>2, <2>0 DEF MarksOwned, SearchOwned, SendingOwned, IsSearch, Current, SameButHistory, Typed, Ends
    <2>2. MailboxOwned'
      BY <1>1, <1>2, <2>0, ChoicesKept DEF MarksOwned, MailboxOwned, Current, SameButHistory, Typed, Ends
    <2>3. HistoryOwned'
      <3> SUFFICES ASSUME NEW c \in Chats, store'.history[c].loading
                   PROVE  \E p \in ops' : /\ p.kind = "history" /\ p.run = run
                                          /\ p.chat = c /\ p.token = store'.requests[c]
        BY DEF HistoryOwned, Requested, Typed
      <3>1. store.history[c].loading /\ store'.requests[c] = store.requests[c]
        BY DEF IsRequest
      <3>2. PICK p \in ops : p.kind = "history" /\ p.run = run /\ p.chat = c /\ p.token = store.requests[c]
        BY <1>2, <2>0, <3>1 DEF MarksOwned, HistoryOwned, Requested
      <3>3. p # o
        BY <3>2 DEF IsRequest, Current
      <3> QED BY <3>1, <3>2, <3>3 DEF Ends
    <2> QED BY <2>1, <2>2, <2>3
  <1>3. \A p \in ops' : p \in ops
    BY DEF Ends
  <1> QED BY <1>1, <1>2, <1>3, TrackedStep

\* readChatHistory.
LEMMA HistoryIInv ==
    ASSUME StoreIInv, NEW o \in ops, HistoryStep(o)
    PROVE  StoreIInv'
  <1>0. o.kind = "history" /\ o.chat \in Chats /\ IsHistory(o.was) /\ ~o.was.loading
    BY OpFacts DEF HistoryStep, HistoryRead, HistoryApply, HistoryFails, At, IsOp
  <1>1. CASE HistoryRead(o)
    <2> DEFINE p == [o EXCEPT !.at = "apply", !.rows = Page(Before(o.chat, o.next)),
                              !.next = NextBefore(Before(o.chat, o.next))]
    <2>1. Onward(p, o) /\ ops' = (ops \ {o}) \cup {p}
      BY <1>1, OpFacts, OnwardForms DEF HistoryRead, Becomes
    <2>2. Typed /\ SameMarks(store, store') /\ UNCHANGED <<queue, pref, unsettled>>
      BY <1>1, OpFacts, SameStore DEF HistoryRead, backend, inbox, session, preference
    <2> HIDE DEF p
    <2> QED BY <1>0, <2>1, <2>2, StepOnly
  <1>2. CASE HistoryApply(o) \/ HistoryFails(o)
    <2>1. Ends(o) /\ UNCHANGED <<queue, pref, unsettled, run, runs, scope, existing, cached>>
      BY <1>2 DEF HistoryApply, HistoryFails, backend, inbox, session, preference
    <2>2. CASE ~IsRequest(o)
      <3>1. store' = store
        BY <1>2, <2>2 DEF HistoryApply, HistoryFails
      <3>2. Typed /\ SameButHistory(store, store')
        BY <2>1, <3>1, OpFacts DEF Typed, SameButHistory
      <3> QED BY <1>0, <2>1, <2>2, <3>1, <3>2, HistoryEnds
    <2>3. CASE IsRequest(o)
      <3>1. PICK m, h : /\ IsHistory(h) /\ ~h.loading
                        /\ store' = [store EXCEPT !.shown = m, !.requests[o.chat] = 0, !.history[o.chat] = h]
        <4>1. CASE HistoryApply(o)
          <5> DEFINE h == [kept |-> TRUE, loading |-> FALSE, loaded |-> TRUE,
                           previous |-> o.next # 0, cursor |-> o.next]
                     m == mergeMessagesByChat(store.shown, o.rows)
          <5>1. IsHistory(h) /\ ~h.loading
            BY DEF IsHistory, HistoryFields
          <5>2. store' = [store EXCEPT !.shown = mergeMessagesByChat(@, o.rows), !.requests[o.chat] = 0,
                                       !.history[o.chat] = h]
            BY <4>1, <2>3 DEF HistoryApply
          <5>3. store' = [store EXCEPT !.shown = m, !.requests[o.chat] = 0, !.history[o.chat] = h]
            BY <5>2
          <5> HIDE DEF h, m
          <5> QED BY <5>1, <5>3
        <4>2. CASE HistoryFails(o)
          <5> DEFINE h == [o.was EXCEPT !.kept = TRUE]
                     m == store.shown
          <5>1. IsHistory(h) /\ ~h.loading
            BY <1>0 DEF IsHistory, HistoryFields
          <5>2. store' = [store EXCEPT !.requests[o.chat] = 0, !.history[o.chat] = h]
            BY <4>2, <2>3 DEF HistoryFails
          <5> HIDE DEF h
          <5>3. store' = [store EXCEPT !.shown = store.shown, !.requests[o.chat] = 0, !.history[o.chat] = h]
            BY <5>2, OpFacts DEF IsStore, StoreFields
          <5> QED BY <5>1, <5>3
        <4> QED BY <1>2, <4>1, <4>2
      <3>2. /\ DOMAIN store' = StoreFields /\ SameButHistory(store, store')
            /\ store'.tokens = store.tokens
            /\ store'.requests = [store.requests EXCEPT ![o.chat] = 0]
            /\ store'.history = [store.history EXCEPT ![o.chat] = h]
        BY <3>1, OpFacts DEF IsStore, StoreFields, SameButHistory
      <3>3. IsStore(store')
        <4>1. store'.requests \in [Chats -> Nat] /\ DOMAIN store'.history = Chats
          BY <1>0, <3>2, OpFacts DEF IsStore
        <4>2. \A c \in Chats : store'.history[c] = IF c = o.chat THEN h ELSE store.history[c]
          BY <1>0, <3>2, OpFacts DEF IsStore
        <4>3. \A c \in Chats : IsHistory(store'.history[c])
          BY <3>1, <4>2, OpFacts DEF IsStore
        <4> QED BY <4>1, <4>3, <3>2, OpFacts DEF IsStore, SameButHistory
      <3>4. /\ ~store'.history[o.chat].loading
            /\ \A c \in Chats \ {o.chat} : /\ store'.history[c] = store.history[c]
                                           /\ store'.requests[c] = store.requests[c]
        BY <1>0, <3>1, <3>2, OpFacts DEF IsStore
      <3>5. Typed
        BY <2>1, <3>3, OpFacts DEF Typed
      <3> QED BY <1>0, <2>1, <2>3, <3>2, <3>4, <3>5, HistoryEnds
    <2> QED BY <2>2, <2>3
  <1> QED BY <1>1, <1>2 DEF HistoryStep

\* loadPreviousMessages.
LEMMA LoadPreviousIInv ==
    ASSUME StoreIInv, LoadPreviousMessages
    PROVE  StoreIInv'
  <1> DEFINE c == store.selected
             previous == store.history[c].loaded
             N == HistoryOps(store, c, previous)
  <1>0. /\ IsStore(store) /\ existing \subseteq Chats /\ cached \subseteq Chats
        /\ run \in Nat /\ runs \in Nat /\ run <= runs
    BY DEF StoreIInv, Shapes
  <1>1. c \in Chats /\ previous \in BOOLEAN
    BY <1>0 DEF LoadPreviousMessages, IsStore, IsHistory
  <1>2. /\ store' = HistoryBegun(store, c, previous) /\ ops' = ops \cup N
        /\ UNCHANGED <<queue, pref, unsettled, run, runs, scope, existing, cached>>
    BY DEF LoadPreviousMessages, backend, inbox, session, preference
  <1> HIDE DEF c, previous, N
  <1>3. /\ IsStore(store') /\ SameButHistory(store, store')
        /\ \A p \in N : IsOp(p) /\ p.kind = "history" /\ p.run = run
        /\ Requested(store, ops, run) => Requested(store', ops', run)
    BY <1>0, <1>1, <1>2, BegunFacts DEF N
  <1>4. Typed
    BY <1>0, <1>2, <1>3 DEF Typed
  <1>5. ChoicesStay
    BY <1>2, <1>3, OthersJoin DEF StillChosen, SameButHistory, ChoiceKinds
  <1>6. ASSUME run # 0 PROVE SearchOwned' /\ SendingOwned' /\ MailboxOwned' /\ HistoryOwned'
    <2>0. MarksOwned
      BY DEF StoreIInv
    <2>1. SearchOwned' /\ SendingOwned'
      BY <1>2, <1>3, <1>6, <2>0
         DEF MarksOwned, SearchOwned, SendingOwned, IsSearch, Current, SameButHistory
    <2>2. MailboxOwned'
      BY <1>2, <1>3, <1>5, <1>6, <2>0, ChoicesKept DEF MarksOwned, MailboxOwned, Current, SameButHistory
    <2>3. HistoryOwned'
      BY <1>2, <1>3, <1>6, <2>0 DEF MarksOwned, HistoryOwned
    <2> QED BY <2>1, <2>2, <2>3
  <1> QED BY <1>2, <1>3, <1>4, <1>5, <1>6, TrackedStep

\* A send ends: it takes off the mark of its lifecycle.
LEMMA SendEnds ==
    ASSUME StoreIInv, NEW o \in ops, o.kind \in {"send", "retry"}, Typed,
           UNCHANGED <<queue, pref, unsettled>>,
           NEW b, SameMarks(store, b),
           store' = IF o.kind = "send" /\ Current(o) THEN [b EXCEPT !.sending = FALSE] ELSE b,
           DOMAIN b = StoreFields,
           NEW new, \A x \in new : IsOp(x) /\ x.kind = "discover",
           ops' = (ops \ {o}) \cup new
    PROVE  StoreIInv'
  <1>1. /\ SameButHistory(store, [store' EXCEPT !.sending = store.sending])
        /\ store'.history = store.history /\ store'.requests = store.requests
        /\ store'.sending = IF o.kind = "send" /\ Current(o) THEN FALSE ELSE store.sending
    BY DEF SameMarks, SameButHistory, StoreFields
  <1>2. /\ store'.selected = store.selected /\ store'.loadingChat = store.loadingChat
        /\ store'.opening = store.opening /\ store'.loadingChats = store.loadingChats
        /\ store'.loadingMailbox = store.loadingMailbox /\ store'.searching = store.searching
        /\ store'.results = store.results /\ store'.selection = store.selection
        /\ store'.searchRequest = store.searchRequest
        /\ store'.loads = store.loads /\ store'.reload = store.reload
    BY DEF SameMarks, StoreFields
  <1>3. ChoicesStay
    BY <1>2, OthersStay DEF StillChosen, Typed, ChoiceKinds
  <1>4. ASSUME run # 0 PROVE SearchOwned' /\ SendingOwned' /\ MailboxOwned' /\ HistoryOwned'
    <2>0. MarksOwned
      BY DEF StoreIInv
    <2>1. SearchOwned'
      BY <1>2, <1>4, <2>0 DEF MarksOwned, SearchOwned, IsSearch, Current, Typed
    <2>2. SendingOwned'
      BY <1>1, <1>4, <2>0 DEF MarksOwned, SendingOwned, Current, Typed
    <2>3. MailboxOwned'
      BY <1>2, <1>3, <1>4, <2>0, ChoicesKept DEF MarksOwned, MailboxOwned, Current, Typed
    <2>4. HistoryOwned'
      BY <1>1, <1>4, <2>0 DEF MarksOwned, HistoryOwned, Requested, Typed
    <2> QED BY <2>1, <2>2, <2>3, <2>4
  <1> QED BY <1>3, <1>4, TrackedStep

\* The mark of sending is set or taken off.
LEMMA SendingForms ==
    ASSUME NEW b, IsStore(b)
    PROVE  IsStore([b EXCEPT !.sending = FALSE]) /\ IsStore([b EXCEPT !.sending = TRUE])
  BY DEF IsStore, StoreFields

\* All steps of sending a message.
LEMMA SendIInv ==
    ASSUME StoreIInv, NEW o \in ops, SendStep(o)
    PROVE  StoreIInv'
  <1>1. CASE SendShown(o)
    <2> DEFINE told == Published(o, o.rows)
               flushed == IF Held(o) THEN told ELSE Flushed(told, due)
               received == Receive(flushed, {OwnRow([own EXCEPT !.status = "accepted"])}, {o.chat})
               b == IF o.kind = "send" /\ Current(o) THEN received ELSE flushed
    <2>1. IsStore(told) /\ SameMarks(store, told)
      BY OpFacts, PublishedMarks
    <2>2. IsStore(flushed) /\ SameMarks(store, flushed)
      BY <2>1, FlushedMarks, SameMarksTwice
    <2>3. IsStore(received) /\ SameMarks(store, received)
      <3> HIDE DEF flushed
      <3>1. IsStore(received) /\ SameMarks(flushed, received)
        BY <2>2, ReceiveMarks
      <3> HIDE DEF received
      <3> QED BY <3>1, <2>2, SameMarksTwice
    <2>4. IsStore(b) /\ SameMarks(store, b)
      BY <2>2, <2>3
    <2>5. /\ o.kind \in {"send", "retry"}
          /\ store' = (IF o.kind = "send" /\ Current(o) THEN [b EXCEPT !.sending = FALSE] ELSE b)
          /\ ops' = (ops \ {o}) \cup NewChats(store')
          /\ UNCHANGED <<queue, pref, unsettled, run, runs, scope, existing, cached>>
      BY <1>1 DEF SendShown, backend, inbox, session, preference
    <2> HIDE DEF b
    <2>6. IsStore(store')
      BY <2>4, <2>5, SendingForms
    <2>7. Typed /\ DOMAIN b = StoreFields
      BY <2>4, <2>5, <2>6, OpFacts DEF Typed, IsStore
    <2>8. \A x \in NewChats(store') : IsOp(x) /\ x.kind = "discover"
      BY NewChatsOps
    <2> QED BY <2>4, <2>5, <2>7, <2>8, SendEnds
  <1>2. CASE SendFails(o)
    <2> DEFINE b == IF Held(o) THEN store ELSE Flushed(store, due)
    <2>4. IsStore(b) /\ SameMarks(store, b)
      BY OpFacts, FlushedMarks DEF SameMarks
    <2>5. /\ o.kind \in {"send", "retry"}
          /\ store' = (IF o.kind = "send" /\ Current(o) THEN [b EXCEPT !.sending = FALSE] ELSE b)
          /\ ops' = (ops \ {o}) \cup NewChats(store')
          /\ UNCHANGED <<queue, pref, unsettled, run, runs, scope, existing, cached>>
      BY <1>2 DEF SendFails, backend, inbox, session, preference
    <2> HIDE DEF b
    <2>6. IsStore(store')
      BY <2>4, <2>5, SendingForms
    <2>7. Typed /\ DOMAIN b = StoreFields
      BY <2>4, <2>5, <2>6, OpFacts DEF Typed, IsStore
    <2>8. \A x \in NewChats(store') : IsOp(x) /\ x.kind = "discover"
      BY NewChatsOps
    <2> QED BY <2>4, <2>5, <2>7, <2>8, SendEnds
  <1> QED BY <1>1, <1>2, SendGoesOn DEF SendStep

\* sendText of the store.
LEMMA SendTextIInv ==
    ASSUME StoreIInv, SendText
    PROVE  StoreIInv'
  <1> DEFINE x == [Op("send", "put") EXCEPT !.chat = store.selected]
  <1>0. /\ IsStore(store) /\ existing \subseteq Chats /\ cached \subseteq Chats
        /\ run \in Nat /\ runs \in Nat /\ run <= runs
    BY DEF StoreIInv, Shapes
  <1>1. /\ store' = [store EXCEPT !.sending = TRUE] /\ ops' = ops \cup {x}
        /\ UNCHANGED <<queue, pref, unsettled, run, runs, scope, existing, cached>>
    BY DEF SendText, backend, inbox, session, preference
  <1>2. DOMAIN x = OpFields /\ x.kind = "send" /\ x.run = run
    BY DEF Op, OpFields
  <1> HIDE DEF x
  <1>3. IsOp(x)
    BY <1>0, <1>2 DEF IsOp, At, QuietKinds, TrackedKinds, ChoiceKinds
  <1>4. /\ store'.selected = store.selected /\ store'.loadingChat = store.loadingChat
        /\ store'.opening = store.opening /\ store'.loadingChats = store.loadingChats
        /\ store'.loadingMailbox = store.loadingMailbox /\ store'.searching = store.searching
        /\ store'.results = store.results /\ store'.selection = store.selection
        /\ store'.searchRequest = store.searchRequest
        /\ store'.loads = store.loads /\ store'.reload = store.reload
        /\ store'.history = store.history /\ store'.requests = store.requests
    BY <1>0, <1>1 DEF IsStore, StoreFields
  <1>5. Typed
    BY <1>0, <1>1, SendingForms DEF Typed
  <1>6. ChoicesStay
    <2>1. ops' = ops \cup {x} /\ \A y \in {x} : y.kind \notin ChoiceKinds
      BY <1>1, <1>2 DEF ChoiceKinds
    <2> QED BY <2>1, <1>1, <1>4, OthersJoin DEF StillChosen
  <1>7. ASSUME run # 0 PROVE SearchOwned' /\ SendingOwned' /\ MailboxOwned' /\ HistoryOwned'
    <2>0. MarksOwned
      BY DEF StoreIInv
    <2>1. SearchOwned'
      BY <1>1, <1>4, <1>7, <2>0 DEF MarksOwned, SearchOwned, IsSearch, Current
    <2>2. SendingOwned'
      BY <1>1, <1>2 DEF SendingOwned, Current
    <2>3. MailboxOwned'
      BY <1>1, <1>4, <1>6, <1>7, <2>0, ChoicesKept DEF MarksOwned, MailboxOwned, Current
    <2>4. HistoryOwned'
      BY <1>1, <1>4, <1>7, <2>0 DEF MarksOwned, HistoryOwned, Requested
    <2> QED BY <2>1, <2>2, <2>3, <2>4
  <1> QED BY <1>1, <1>3, <1>5, <1>6, <1>7, TrackedStep

\* Two states of the store that differ in the marks of the mailbox, or of the search, at most.
SameButMailbox(b, d) ==
    /\ d.selected = b.selected /\ d.loadingChat = b.loadingChat /\ d.opening = b.opening
    /\ d.loadingChats = b.loadingChats /\ d.searching = b.searching /\ d.results = b.results
    /\ d.sending = b.sending /\ d.selection = b.selection /\ d.searchRequest = b.searchRequest
    /\ d.history = b.history /\ d.requests = b.requests

\* loadMailbox begins, or asks for a reload; it ends, and a reload begins.
LEMMA MailboxForms ==
    ASSUME NEW b, IsStore(b), NEW o
    PROVE  /\ IsStore(MailboxBegun(b)) /\ SameButMailbox(b, MailboxBegun(b))
           /\ MailboxBegun(b).loads /\ (MailboxBegun(b).reload => b.reload \/ b.loads)
           /\ MailboxBegun(b).tokens = b.tokens
           /\ IsStore(MailboxEnded(o, b)) /\ SameButMailbox(b, MailboxEnded(o, b))
           /\ Current(o) => /\ MailboxEnded(o, b).loads = (b.loads /\ b.reload)
                            /\ MailboxEnded(o, b).loadingMailbox = b.reload
                            /\ ~MailboxEnded(o, b).reload
           /\ ~Current(o) => MailboxEnded(o, b) = b
  <1> DEFINE m == MailboxBegun(b)
             e == MailboxEnded(o, b)
  <1>1. /\ IsStore(m) /\ SameButMailbox(b, m) /\ m.tokens = b.tokens
        /\ m.loads /\ (m.reload => b.reload \/ b.loads)
    <2>1. CASE b.loads
      <3>1. m = [b EXCEPT !.reload = TRUE]
        BY <2>1 DEF MailboxBegun
      <3> HIDE DEF m
      <3> QED BY <2>1, <3>1 DEF IsStore, StoreFields, SameButMailbox
    <2>2. CASE ~b.loads
      <3>1. m = [b EXCEPT !.loads = TRUE, !.loadingMailbox = TRUE]
        BY <2>2 DEF MailboxBegun
      <3> HIDE DEF m
      <3> QED BY <3>1 DEF IsStore, StoreFields, SameButMailbox
    <2> QED BY <2>1, <2>2
  <1>2. ASSUME Current(o)
        PROVE  /\ IsStore(e) /\ SameButMailbox(b, e)
               /\ e.loads = (b.loads /\ b.reload) /\ e.loadingMailbox = b.reload /\ ~e.reload
    <2>1. e = [b EXCEPT !.loads = b.loads /\ b.reload, !.loadingMailbox = b.reload, !.reload = FALSE]
      BY <1>2 DEF MailboxEnded
    <2> HIDE DEF e
    <2> QED BY <2>1 DEF IsStore, StoreFields, SameButMailbox
  <1>3. ASSUME ~Current(o)
        PROVE  e = b /\ SameButMailbox(b, e)
    BY <1>3 DEF MailboxEnded, SameButMailbox
  <1> HIDE DEF m, e
  <1>4. IsStore(e) /\ SameButMailbox(b, e)
    BY <1>2, <1>3
  <1> QED BY <1>1, <1>2, <1>3, <1>4 DEF m, e

\* A load of the mailbox has a well-formed operation.
LEMMA MailboxOp ==
    ASSUME run \in Nat, runs \in Nat, run <= runs
    PROVE  /\ IsOp(Op("mailbox", "sync")) /\ Op("mailbox", "sync").kind = "mailbox"
           /\ Op("mailbox", "sync").run = run
  BY DEF Op, IsOp, OpFields, At, QuietKinds, TrackedKinds, ChoiceKinds

\* A load of the mailbox ends.
LEMMA MailboxEnds ==
    ASSUME StoreIInv, NEW o \in ops, o.kind = "mailbox", Typed,
           UNCHANGED <<queue, pref, unsettled>>,
           NEW b, IsStore(b), SameMarks(store, b), store' = MailboxEnded(o, b),
           NEW new, \A x \in new : IsOp(x) /\ x.kind = "discover",
           ops' = (ops \ {o}) \cup NextMailbox(o) \cup new
    PROVE  StoreIInv'
  <1> DEFINE N == NextMailbox(o) \cup new
  <1>1. \A x \in NextMailbox(o) : IsOp(x) /\ x.kind = "mailbox" /\ x.run = run
    BY OpFacts, MailboxOp DEF NextMailbox
  <1>2. ops' = (ops \ {o}) \cup N /\ \A x \in N : IsOp(x) /\ x.kind \in {"mailbox", "discover"}
    BY <1>1
  <1>3. SameButMailbox(store, store')
    BY MailboxForms DEF SameButMailbox, SameMarks
  <1> HIDE DEF N
  <1>4. ChoicesStay
    BY <1>2, <1>3, OthersStay DEF StillChosen, SameButMailbox, Typed, ChoiceKinds
  <1>5. ASSUME run # 0 PROVE SearchOwned' /\ SendingOwned' /\ MailboxOwned' /\ HistoryOwned'
    <2>0. MarksOwned
      BY DEF StoreIInv
    <2>1. SearchOwned' /\ SendingOwned'
      BY <1>2, <1>3, <1>5, <2>0
         DEF MarksOwned, SearchOwned, SendingOwned, IsSearch, Current, SameButMailbox, Typed
    <2>2. HistoryOwned'
      BY <1>2, <1>3, <1>5, <2>0 DEF MarksOwned, HistoryOwned, Requested, SameButMailbox, Typed
    <2>3. MailboxOwned'
      <3>1. CASE Current(o)
        <4>1. /\ store'.loads = (store.loads /\ store.reload) /\ store'.loadingMailbox = store.reload
              /\ ~store'.reload
          <5>1. /\ MailboxEnded(o, b).loads = (b.loads /\ b.reload)
                /\ MailboxEnded(o, b).loadingMailbox = b.reload /\ ~MailboxEnded(o, b).reload
            BY <3>1, MailboxForms
          <5>2. b.loads = store.loads /\ b.reload = store.reload
            BY DEF SameMarks
          <5> QED BY <5>1, <5>2
        <4>2. store.reload => store.loads
          BY <1>5, <2>0 DEF MarksOwned, MailboxOwned
        <4>3. store.reload => \E p \in ops' : Current(p)' /\ p.kind = "mailbox"
          <5> SUFFICES ASSUME store.reload PROVE \E p \in ops' : Current(p)' /\ p.kind = "mailbox"
            OBVIOUS
          <5>1. Op("mailbox", "sync") \in ops'
            BY <3>1 DEF NextMailbox
          <5>2. Op("mailbox", "sync").kind = "mailbox" /\ Op("mailbox", "sync").run = run
            BY OpFacts, MailboxOp
          <5> QED BY <5>1, <5>2 DEF Current, Typed
        <4> QED BY <4>1, <4>2, <4>3 DEF MailboxOwned
      <3>2. CASE ~Current(o)
        <4>1. store' = b
          BY <3>2, MailboxForms
        <4> QED BY <1>2, <1>4, <1>5, <2>0, <3>2, <4>1, ChoicesKept
               DEF MarksOwned, MailboxOwned, Current, SameMarks, Typed
      <3> QED BY <3>1, <3>2
    <2> QED BY <2>1, <2>2, <2>3
  <1>6. \A p \in ops' : p \in ops \/ IsOp(p)
    BY <1>2
  <1> QED BY <1>4, <1>5, <1>6, TrackedStep

\* All steps of a load of the mailbox.
LEMMA MailboxIInv ==
    ASSUME StoreIInv, NEW o \in ops, MailboxStep(o)
    PROVE  StoreIInv'
  <1>1. CASE MailboxApply(o)
    <2> DEFINE b == IF Current(o) THEN Receive(store, o.rows, o.chats) ELSE store
    <2>1. IsStore(b) /\ SameMarks(store, b)
      BY OpFacts, ReceiveMarks DEF SameMarks
    <2>2. /\ store' = MailboxEnded(o, b) /\ o.kind = "mailbox"
          /\ ops' = (ops \ {o}) \cup NextMailbox(o) \cup NewChats(store')
          /\ UNCHANGED <<queue, pref, unsettled, run, runs, scope, existing, cached>>
      BY <1>1 DEF MailboxApply, MailboxEnded, At, backend, inbox, session, preference
    <2> HIDE DEF b
    <2>3. Typed
      BY <2>1, <2>2, OpFacts, MailboxForms DEF Typed
    <2>4. \A x \in NewChats(store') : IsOp(x) /\ x.kind = "discover"
      BY NewChatsOps
    <2> QED BY <2>1, <2>2, <2>3, <2>4, MailboxEnds
  <1>2. CASE MailboxFails(o)
    <2> DEFINE new == {x \in ops : FALSE}
    <2>1. /\ store' = MailboxEnded(o, store) /\ o.kind = "mailbox"
          /\ ops' = (ops \ {o}) \cup NextMailbox(o) \cup new
          /\ UNCHANGED <<queue, pref, unsettled, run, runs, scope, existing, cached>>
      BY <1>2 DEF MailboxFails, backend, inbox, session, preference
    <2>2. IsStore(store) /\ SameMarks(store, store)
      BY OpFacts DEF SameMarks
    <2>3. \A x \in new : IsOp(x) /\ x.kind = "discover"
      OBVIOUS
    <2> HIDE DEF new
    <2>4. Typed
      BY <2>1, <2>2, OpFacts, MailboxForms DEF Typed
    <2> QED BY <2>1, <2>2, <2>3, <2>4, MailboxEnds
  <1> QED BY <1>1, <1>2, MailboxReadsOn, MailboxPublishes DEF MailboxStep

\* The connection is ready: the mailbox is loaded, or will be again.
LEMMA ReadyIInv ==
    ASSUME StoreIInv, Ready
    PROVE  StoreIInv'
  <1>0. /\ IsStore(store) /\ existing \subseteq Chats /\ cached \subseteq Chats
        /\ run \in Nat /\ runs \in Nat /\ run <= runs
    BY DEF StoreIInv, Shapes
  <1>1. /\ store' = MailboxBegun(store) /\ ops' = ops \cup MailboxOps(store)
        /\ UNCHANGED <<queue, pref, unsettled, run, runs, scope, existing, cached>>
    BY DEF Ready, backend, inbox, session, preference
  <1>2. \A x \in MailboxOps(store) : IsOp(x) /\ x.kind = "mailbox" /\ x.run = run
    BY <1>0, MailboxOp DEF MailboxOps
  <1>3. Typed /\ SameButMailbox(store, store')
    BY <1>0, <1>1, MailboxForms DEF Typed
  <1>4. ChoicesStay
    BY <1>1, <1>2, <1>3, OthersJoin DEF StillChosen, SameButMailbox, ChoiceKinds
  <1>5. ASSUME run # 0 PROVE SearchOwned' /\ SendingOwned' /\ MailboxOwned' /\ HistoryOwned'
    <2>0. MarksOwned
      BY DEF StoreIInv
    <2>1. SearchOwned' /\ SendingOwned'
      BY <1>1, <1>3, <1>5, <2>0
         DEF MarksOwned, SearchOwned, SendingOwned, IsSearch, Current, SameButMailbox
    <2>2. HistoryOwned'
      BY <1>1, <1>3, <1>5, <2>0 DEF MarksOwned, HistoryOwned, Requested, SameButMailbox
    <2>3. MailboxOwned'
      <3>1. store'.loads
        BY <1>0, <1>1, MailboxForms
      <3>2. \E p \in ops' : Current(p)' /\ p.kind = "mailbox"
        <4>1. CASE store.loads
          BY <4>1, <1>1, <1>5, <2>0 DEF MarksOwned, MailboxOwned, Current
        <4>2. CASE ~store.loads
          <5>1. Op("mailbox", "sync") \in ops'
            BY <4>2, <1>1 DEF MailboxOps
          <5> QED BY <5>1, <1>0, <1>1, MailboxOp DEF Current
        <4> QED BY <4>1, <4>2
      <3> QED BY <3>1, <3>2 DEF MailboxOwned
    <2> QED BY <2>1, <2>2, <2>3
  <1> QED BY <1>1, <1>2, <1>3, <1>4, <1>5, TrackedStep

\* The people that are searched for.
SameButSearch(b, d) ==
    /\ d.selected = b.selected /\ d.loadingChat = b.loadingChat /\ d.opening = b.opening
    /\ d.loadingChats = b.loadingChats /\ d.loadingMailbox = b.loadingMailbox
    /\ d.sending = b.sending /\ d.selection = b.selection
    /\ d.loads = b.loads /\ d.reload = b.reload
    /\ d.history = b.history /\ d.requests = b.requests

\* The fields of a search are set and nothing else.
LEMMA SearchMarks ==
    ASSUME StoreIInv, Typed, UNCHANGED <<queue, pref, unsettled>>, SameButSearch(store, store'),
           \A o : o.kind # "search" => (o \in ops' <=> o \in ops),
           \A o \in ops' : o \in ops \/ IsOp(o),
           run # 0 => SearchOwned'
    PROVE  StoreIInv'
  <1>1. ChoicesStay
    BY DEF ChoicesStay, SameButSearch, Typed, ChoiceKinds
  <1>2. ASSUME run # 0 PROVE SearchOwned' /\ SendingOwned' /\ MailboxOwned' /\ HistoryOwned'
    <2>0. MarksOwned
      BY DEF StoreIInv
    <2>1. SendingOwned' /\ HistoryOwned'
      BY <1>2, <2>0 DEF MarksOwned, SendingOwned, HistoryOwned, Requested, Current, SameButSearch, Typed
    <2>2. MailboxOwned'
      BY <1>1, <1>2, <2>0, ChoicesKept DEF MarksOwned, MailboxOwned, Current, SameButSearch, Typed
    <2> QED BY <1>2, <2>1, <2>2
  <1> QED BY <1>1, <1>2, TrackedStep

\* A search begins, and overtakes the one before.
LEMMA FindPeopleIInv ==
    ASSUME StoreIInv, FindPeople
    PROVE  StoreIInv'
  <1> DEFINE x == [Op("search", "users") EXCEPT !.n = store.searchRequest + 1]
  <1>0. /\ IsStore(store) /\ existing \subseteq Chats /\ cached \subseteq Chats
        /\ run \in Nat /\ runs \in Nat /\ run <= runs
    BY DEF StoreIInv, Shapes
  <1>1. /\ store' = [store EXCEPT !.searchRequest = @ + 1, !.searching = TRUE] /\ ops' = ops \cup {x}
        /\ UNCHANGED <<queue, pref, unsettled, run, runs, scope, existing, cached>>
    BY DEF FindPeople, backend, inbox, session, preference
  <1>2. DOMAIN x = OpFields /\ x.kind = "search" /\ x.run = run /\ x.n = store.searchRequest + 1
    BY DEF Op, OpFields
  <1> HIDE DEF x
  <1>3. IsOp(x)
    BY <1>0, <1>2 DEF IsOp, At, QuietKinds, TrackedKinds, ChoiceKinds
  <1>4. Typed /\ SameButSearch(store, store')
    BY <1>0, <1>1 DEF Typed, IsStore, StoreFields, SameButSearch
  <1>5. SearchOwned'
    <2>1. store'.searchRequest = store.searchRequest + 1 /\ store'.searching
      BY <1>0, <1>1 DEF IsStore, StoreFields
    <2> QED BY <1>1, <1>2, <2>1 DEF SearchOwned, IsSearch, Current
  <1> QED BY <1>1, <1>2, <1>3, <1>4, <1>5, SearchMarks

\* A search ends; only the last one is applied.
LEMMA SearchIInv ==
    ASSUME StoreIInv, NEW o \in ops, SearchUsers(o)
    PROVE  StoreIInv'
  <1>1. /\ o.kind = "search" /\ Ends(o)
        /\ UNCHANGED <<queue, pref, unsettled, run, runs, scope, existing, cached>>
    BY DEF SearchUsers, At, backend, inbox, session, preference
  <1>2. CASE IsSearch(o)
    <2>1. PICK n \in {0, o.n} : store' = [store EXCEPT !.results = n, !.searching = FALSE]
      BY <1>2 DEF SearchUsers
    <2>2. Typed /\ SameButSearch(store, store')
      BY <1>1, <2>1, OpFacts DEF Typed, IsStore, StoreFields, SameButSearch
    <2>3. SearchOwned'
      <3>1. ~store'.searching /\ store'.results = n /\ store'.searchRequest = store.searchRequest
        BY <2>1, OpFacts DEF IsStore, StoreFields
      <3> QED BY <1>2, <3>1 DEF SearchOwned, IsSearch
    <2> QED BY <1>1, <2>2, <2>3, SearchMarks DEF Ends
  <1>3. CASE ~IsSearch(o)
    <2>1. store' = store
      BY <1>3 DEF SearchUsers
    <2>2. Typed /\ SameButSearch(store, store')
      BY <1>1, <2>1, OpFacts DEF Typed, SameButSearch
    <2>3. run # 0 => SearchOwned'
      BY <1>1, <1>3, <2>1 DEF StoreIInv, MarksOwned, SearchOwned, IsSearch, Current, Ends
    <2> QED BY <1>1, <2>2, <2>3, SearchMarks DEF Ends
  <1> QED BY <1>2, <1>3

\* The inputs that begin operations no mark waits for, and the end of the session.
LEMMA JoiningIInv ==
    ASSUME StoreIInv, RetryMessage \/ Receipt \/ Arrive \/ PeerReads \/ SignOut
    PROVE  StoreIInv'
  <1>0. /\ IsStore(store) /\ existing \subseteq Chats /\ cached \subseteq Chats
        /\ run \in Nat /\ runs \in Nat /\ run <= runs
    BY DEF StoreIInv, Shapes
  <1>1. /\ UNCHANGED <<store, queue, pref, unsettled, run, runs, scope, existing, cached>>
    BY DEF RetryMessage, Receipt, Arrive, PeerReads, SignOut, backend, inbox, session, preference
  <1>2. Typed /\ SameMarks(store, store')
    BY <1>0, <1>1, SameStore
  <1>3. CASE ops' = ops
    <2> DEFINE more == {x \in ops : FALSE}
    <2>1. ops' = ops \cup more /\ \A p \in more : IsOp(p) /\ p.kind \notin ChoiceKinds
      BY <1>3
    <2> HIDE DEF more
    <2> QED BY <1>1, <1>2, <2>1, JoiningStep
  <1>4. CASE ops' # ops
    <2>1. PICK x : /\ ops' = ops \cup {x} /\ DOMAIN x = OpFields /\ x.run = run
                   /\ x.kind \in {"retry", "receipt", "event", "read"}
      <3>1. CASE RetryMessage
        <4> DEFINE x == [Op("retry", "send") EXCEPT !.chat = own.chat]
        <4>1. ops' = ops \cup {x} /\ DOMAIN x = OpFields /\ x.run = run /\ x.kind = "retry"
          BY <3>1 DEF RetryMessage, Op, OpFields
        <4> QED BY <4>1
      <3>2. CASE Receipt
        <4> DEFINE x == Op("receipt", "commit")
        <4>1. ops' = ops \cup {x} /\ DOMAIN x = OpFields /\ x.run = run /\ x.kind = "receipt"
          BY <3>2, <1>4 DEF Receipt, Op, OpFields
        <4> QED BY <4>1
      <3>3. CASE Arrive
        <4> DEFINE x == [Op("event", "ingest") EXCEPT !.n = mail']
        <4>1. ops' = ops \cup {x} /\ DOMAIN x = OpFields /\ x.run = run /\ x.kind = "event"
          BY <3>3, <1>4 DEF Arrive, Op, OpFields
        <4> QED BY <4>1
      <3>4. CASE PeerReads
        <4> DEFINE x == [Op("read", "commit") EXCEPT !.n = read']
        <4>1. ops' = ops \cup {x} /\ DOMAIN x = OpFields /\ x.run = run /\ x.kind = "read"
          BY <3>4, <1>4 DEF PeerReads, Op, OpFields
        <4> QED BY <4>1
      <3>5. CASE SignOut
        BY <3>5, <1>4 DEF SignOut
      <3> QED BY <3>1, <3>2, <3>3, <3>4, <3>5
    <2>2. IsOp(x) /\ x.kind \notin ChoiceKinds
      BY <1>0, <2>1 DEF IsOp, At, QuietKinds, TrackedKinds, ChoiceKinds
    <2> DEFINE more == {x}
    <2>3. ops' = ops \cup more /\ \A p \in more : IsOp(p) /\ p.kind \notin ChoiceKinds
      BY <2>1, <2>2
    <2> HIDE DEF more
    <2> QED BY <1>1, <1>2, <2>3, JoiningStep
  <1> QED BY <1>3, <1>4

----------------------------------------------------------------------------
(* Choices that go on, and choices that end *)

\* No operation begins.
Nothing == {}

\* Whatever chooses nothing joins in N, and the queue keeps its shape.
Carries(o, N) ==
    /\ queue' \in Seq(ChoiceOps)
    /\ \A x \in Items(queue') : x \in Items(queue) \/ (IsChoice(x) /\ InLine(x))
    /\ \A x \in ops' : x \in ops \/ IsOp(x)
    /\ \A x \in ops : x = o \/ x \in ops'
    /\ \A x \in Pending : x = o \/ x \in Pending'
    /\ N \subseteq ops' /\ \A x \in N : x.kind \notin {"select", "open"}

\* Operation o goes on as p, in ops or in the queue.
PassesTo(o, p, N) ==
    /\ Carries(o, N) /\ Alike(p, o) /\ p \in Pending'
    /\ \A x \in Pending' : x \in Pending \/ x = p \/ x \in N
    /\ \A n : Alone(ops, queue, run, n) => Alone(ops', queue', run, n)

\* Operation o ends.
Leaves(o, N) ==
    /\ Carries(o, N)
    /\ \A x \in Pending' : x \in Pending \/ x \in N
    /\ \A n : Alone(ops, queue, run, n) =>
          Alone(ops', queue', run, n) /\ (Rivals(o, o, run, n) => o \notin Pending')

\* The facts about the queue that these lemmas start from.
LEMMA QueueFacts ==
    ASSUME StoreIInv
    PROVE  /\ queue \in Seq(ChoiceOps)
           /\ \A x \in Items(queue) : IsChoice(x) /\ InLine(x) /\ x \in ChoiceOps
           /\ \A x \in ops : IsOp(x)
  <1>1. \A x \in Items(queue) : IsChoice(x) /\ InLine(x)
    BY DEF StoreIInv, Shapes, Items
  <1> QED BY <1>1 DEF StoreIInv, Shapes, IsChoice

\* After an await of its own.
LEMMA PassInOps ==
    ASSUME StoreIInv, NEW o \in ops, NEW p, Alike(p, o), IsOp(p),
           NEW N, \A x \in N : IsOp(x) /\ x.kind \notin {"select", "open"},
           ops' = (ops \ {o}) \cup {p} \cup N, queue' = queue
    PROVE  PassesTo(o, p, N)
  <1>1. Carries(o, N)
    BY QueueFacts DEF Carries, Pending
  <1>2. \A n : Alone(ops, queue, run, n) => Alone(ops', queue', run, n)
    <2> SUFFICES ASSUME NEW n, Alone(ops, queue, run, n) PROVE Alone(ops', queue, run, n)
      OBVIOUS
    <2>1. Alone((ops \ {o}) \cup {p}, queue, run, n)
      BY AloneGoes
    <2> QED BY <2>1, AloneMore
  <1> QED BY <1>1, <1>2 DEF PassesTo, Pending

\* Its preference is written or read.
LEMMA PassToQueue ==
    ASSUME StoreIInv, NEW o \in ops, NEW p, Alike(p, o), p \in ChoiceOps, IsChoice(p), InLine(p),
           ops' = ops \ {o}, queue' = Append(queue, p)
    PROVE  PassesTo(o, p, Nothing)
  <1>1. queue' \in Seq(ChoiceOps) /\ Items(queue') = Items(queue) \cup {p}
    BY QueueFacts, AppendFacts
  <1>2. Carries(o, Nothing)
    BY <1>1 DEF Carries, Pending, Nothing
  <1>3. \A n : Alone(ops, queue, run, n) => Alone(ops', queue', run, n)
    BY QueueFacts, AloneQueued
  <1> QED BY <1>1, <1>2, <1>3 DEF PassesTo, Pending

\* Its storage call has ended.
LEMMA PassFromQueue ==
    ASSUME StoreIInv, queue # <<>>, NEW p, Alike(p, Head(queue)), p \in ChoiceOps, IsOp(p),
           NEW N, \A x \in N : IsOp(x) /\ x.kind \notin {"select", "open"},
           ops' = ops \cup {p} \cup N, queue' = Tail(queue)
    PROVE  PassesTo(Head(queue), p, N)
  <1> DEFINE o == Head(queue)
  <1>1. queue' \in Seq(ChoiceOps) /\ Items(queue) = Items(queue') \cup {o}
    BY QueueFacts, TailFacts
  <1> HIDE DEF o
  <1>2. Carries(o, N)
    BY <1>1 DEF Carries, Pending
  <1>3. \A n : Alone(ops, queue, run, n) => Alone(ops', queue', run, n)
    <2> SUFFICES ASSUME NEW n, Alone(ops, queue, run, n) PROVE Alone(ops', queue', run, n)
      OBVIOUS
    <2>1. Alone(ops \cup {p}, queue', run, n)
      BY QueueFacts, AloneDequeued
    <2> QED BY <2>1, AloneMore
  <1>4. Alike(p, o)
    BY DEF o
  <1>5. PassesTo(o, p, N)
    BY <1>1, <1>2, <1>3, <1>4 DEF PassesTo, Pending
  <1> QED BY <1>5 DEF o

\* Its write has failed, and the preference is cleared.
LEMMA PassInQueue ==
    ASSUME StoreIInv, queue # <<>>, NEW p, Alike(p, Head(queue)), p \in ChoiceOps, IsChoice(p), InLine(p),
           ops' = ops, queue' = Append(Tail(queue), p)
    PROVE  PassesTo(Head(queue), p, Nothing)
  <1> DEFINE o == Head(queue)
             a == Tail(queue)
  <1>1. a \in Seq(ChoiceOps) /\ Items(queue) = Items(a) \cup {o}
    BY QueueFacts, TailFacts
  <1>2. queue' \in Seq(ChoiceOps) /\ Items(queue') = Items(a) \cup {p}
    BY <1>1, AppendFacts
  <1>3. \A n : Alone(ops, queue, run, n) => Alone(ops', queue', run, n)
    BY QueueFacts, AloneDequeued
  <1>4. Alike(p, o)
    OBVIOUS
  <1> HIDE DEF o, a
  <1>5. Carries(o, Nothing)
    BY <1>1, <1>2 DEF Carries, Pending, Nothing
  <1>6. PassesTo(o, p, Nothing)
    BY <1>1, <1>2, <1>3, <1>4, <1>5 DEF PassesTo, Pending
  <1> QED BY <1>6 DEF o

\* A choice that waits for a call ends.
LEMMA LeaveOps ==
    ASSUME StoreIInv, NEW o \in ops,
           NEW N, \A x \in N : IsOp(x) /\ x.kind \notin {"select", "open"},
           ops' = (ops \ {o}) \cup N, queue' = queue
    PROVE  Leaves(o, N)
  <1>1. Carries(o, N)
    BY QueueFacts DEF Carries, Pending
  <1>2. ASSUME NEW n, Alone(ops, queue, run, n)
        PROVE  Alone(ops', queue', run, n) /\ (Rivals(o, o, run, n) => o \notin Pending')
    <2>1. Alone(ops \ {o}, queue, run, n)
      BY <1>2, AloneFewer
    <2>2. Alone(ops', queue', run, n)
      BY <2>1, AloneMore
    <2>3. ASSUME Rivals(o, o, run, n) PROVE o \notin Pending'
      <3>1. o \notin Items(queue)
        BY <1>2, <2>3 DEF Alone, Items
      <3>2. o \notin N
        BY <2>3 DEF Rivals, Top, Chooses
      <3> QED BY <3>1, <3>2 DEF Pending
    <2> QED BY <2>2, <2>3
  <1> QED BY <1>1, <1>2 DEF Leaves, Pending

\* A choice that waits in the queue ends.
LEMMA LeaveQueue ==
    ASSUME StoreIInv, queue # <<>>, ops' = ops, queue' = Tail(queue)
    PROVE  Leaves(Head(queue), Nothing)
  <1> DEFINE o == Head(queue)
             a == Tail(queue)
  <1>1. a \in Seq(ChoiceOps) /\ Items(queue) = Items(a) \cup {o}
    BY QueueFacts, TailFacts
  <1>2. ASSUME NEW n, Alone(ops, queue, run, n)
        PROVE  Alone(ops', queue', run, n) /\ (Rivals(o, o, run, n) => o \notin Pending')
    <2>1. Alone(ops', queue', run, n)
      BY <1>2, QueueFacts, AloneTail
    <2>2. /\ \A x \in ops : ~Rivals(x, o, run, n)
          /\ \A i \in DOMAIN a : ~Rivals(o, a[i], run, n)
      BY <1>2, QueueFacts, HeadAlone
    <2> HIDE DEF o, a
    <2>3. queue' = a
      BY DEF a
    <2> QED BY <2>1, <2>2, <2>3 DEF Pending, Items
  <1> HIDE DEF o, a
  <1>3. queue' = a
    BY DEF a
  <1>4. Carries(o, Nothing)
    BY <1>1, <1>3 DEF Carries, Pending, Nothing
  <1>5. Leaves(o, Nothing)
    BY <1>1, <1>2, <1>3, <1>4 DEF Leaves, Pending
  <1> QED BY <1>5 DEF o

\* The last choice is the only one with its number.
LEMMA TopUnique ==
    ASSUME NEW S, NEW q, NEW r, NEW n, Alone(S, q, r, n),
           NEW o \in S \cup Items(q), NEW p \in S \cup Items(q), Rivals(o, p, r, n)
    PROVE  o = p
  <1>1. Rivals(p, o, r, n)
    BY DEF Rivals
  <1> QED BY <1>1 DEF Alone, Items

\* The marks of the calls stay, and so does the list of chats unless it has come.
CallsMarked ==
    /\ store'.sending = store.sending /\ store'.loadingMailbox = store.loadingMailbox
    /\ store'.loads = store.loads /\ store'.reload = store.reload
    /\ \/ /\ store'.searching = store.searching /\ store'.results = store.results
          /\ store'.searchRequest = store.searchRequest
       \/ ~store'.searching /\ store'.results = 0
    /\ Requested(store, ops, run) => Requested(store', ops', run)

\* The shapes after the step of a choice.
LEMMA CarriesShapes ==
    ASSUME StoreIInv, Typed, pref' \in Chats \cup {NoChat}, unsettled' \in BOOLEAN,
           NEW o, NEW N, Carries(o, N)
    PROVE  Shapes'
  <1>1. \A x : (IsOp(x)' <=> IsOp(x)) /\ (IsChoice(x)' <=> IsChoice(x)) /\ (InLine(x)' <=> InLine(x))
    BY DEF IsOp, IsChoice, Typed, InLine
  <1>2. \A x \in ops' : IsOp(x)
    BY QueueFacts DEF Carries
  <1>3. \A x \in Items(queue') : IsChoice(x) /\ InLine(x)
    BY QueueFacts DEF Carries
  <1>4. \A i \in DOMAIN queue' : IsChoice(queue'[i]) /\ InLine(queue'[i])
    BY <1>3 DEF Items
  <1>5. (\A i \in DOMAIN queue : IsChoice(queue[i]) /\ InLine(queue[i]))'
    BY <1>4 DEF IsChoice, InLine, Typed
  <1>6. \A x \in ops' : IsOp(x)'
    BY <1>1, <1>2
  <1>7. queue' \in Seq(ChoiceOps)
    BY DEF Carries
  <1> QED BY <1>5, <1>6, <1>7 DEF StoreIInv, Shapes, Typed

\* The marks after it.
LEMMA CarriesMarks ==
    ASSUME StoreIInv, Typed, NEW o, NEW N, Carries(o, N), o.kind \in ChoiceKinds, CallsMarked,
           Starting => Starting',
           store'.loadingChats => store.loadingChats /\ ~(Current(o) /\ At(o, "chats", "list")),
           run # 0 => OpeningOwned' /\ SelectionOwned'
    PROVE  MarksOwned'
  <1> SUFFICES ASSUME run # 0 PROVE MarksOwned'
    BY DEF MarksOwned, Typed
  <1>0. MarksOwned /\ \A x \in ops : x = o \/ x \in ops'
    BY DEF StoreIInv, Carries
  <1>1. SearchOwned'
    BY <1>0 DEF MarksOwned, SearchOwned, IsSearch, Current, CallsMarked, Typed, ChoiceKinds
  <1>2. SendingOwned'
    BY <1>0 DEF MarksOwned, SendingOwned, Current, CallsMarked, Typed, ChoiceKinds
  <1>3. MailboxOwned'
    BY <1>0 DEF MarksOwned, MailboxOwned, Current, CallsMarked, Typed, ChoiceKinds
  <1>4. HistoryOwned'
    BY <1>0 DEF MarksOwned, HistoryOwned, CallsMarked, Typed
  <1>5. ChatsOwned'
    BY <1>0 DEF MarksOwned, ChatsOwned, Current, At, Typed
  <1> QED BY <1>1, <1>2, <1>3, <1>4, <1>5 DEF MarksOwned

\* A choice that goes on keeps what it owns.
LEMMA PassOwns ==
    ASSUME StoreIInv, Typed, NEW o, NEW p, NEW N, PassesTo(o, p, N),
           store'.opening = store.opening, store'.loadingChat = store.loadingChat,
           store'.selection = store.selection
    PROVE  /\ Starting => Starting'
           /\ Restoring => Restoring'
           /\ run # 0 => OpeningOwned' /\ SelectionOwned'
  <1>0. /\ \A x \in Pending : x = o \/ x \in Pending'
        /\ p \in Pending' /\ Alike(p, o) /\ run' = run
    BY DEF PassesTo, Carries, Typed
  <1>1. Starting => Starting'
    BY <1>0 DEF Starting, Current, Alike
  <1>2. Restoring => Restoring'
    BY <1>0 DEF Restoring, Current, Alike
  <1>3. run # 0 => OpeningOwned'
    BY <1>0 DEF StoreIInv, MarksOwned, OpeningOwned, Current, Alike
  <1>4. run # 0 => SelectionOwned'
    BY <1>0 DEF StoreIInv, MarksOwned, SelectionOwned, IsCurrent, Current, Alike
  <1> QED BY <1>1, <1>2, <1>3, <1>4

\* A choice that goes on does so as the last one, or with the selection that there is.
LEMMA PassSound ==
    ASSUME StoreIInv, Typed, NEW o \in Pending, NEW p, NEW N, PassesTo(o, p, N),
           store'.opening = store.opening, store'.selection = store.selection,
           \/ store'.selected = store.selected
           \/ Top(o, run, store.selection)
           \/ store.selection = 0,
           Top(p, run, store.selection) /\ Applied(p) => p.chat = store'.selected
    PROVE  ChoicesSound'
  <1> SUFFICES ASSUME run # 0 PROVE ChoicesSound'
    BY DEF ChoicesSound, Typed
  <1> DEFINE n == store.selection
  <1>0. /\ Alone(ops, queue, run, n) /\ Numbered(Pending, run, n)
        /\ Chosen(Pending, run, n, store.selected) /\ OpensMarked
    BY DEF StoreIInv, ChoicesSound
  <1>1. /\ \A x \in Pending' : x \in Pending \/ x = p \/ x \in N
        /\ \A x \in N : x.kind \notin {"select", "open"}
        /\ Alike(p, o) /\ p \in Pending'
    BY DEF PassesTo, Carries
  <1>2. Alone(ops', queue', run, n)
    BY <1>0 DEF PassesTo
  <1>3. Numbered(Pending', run, n)
    BY <1>0, <1>1 DEF Numbered, Chooses, Alike
  <1>4. Chosen(Pending', run, n, store'.selected)
    <2> SUFFICES ASSUME NEW x \in Pending', Top(x, run, n), Applied(x) PROVE x.chat = store'.selected
      BY DEF Chosen
    <2>1. CASE x = p
      BY <2>1
    <2>2. CASE x # p
      <3>1. x \in Pending
        BY <1>1, <2>2 DEF Top, Chooses
      <3>2. ~Top(o, run, n)
        <4> SUFFICES ASSUME Top(o, run, n) PROVE FALSE
          OBVIOUS
        <4>1. Rivals(x, p, run, n)
          BY <1>1 DEF Rivals, Top, Chooses, Alike
        <4>2. x = p
          BY <1>1, <1>2, <4>1, TopUnique DEF Pending
        <4> QED BY <2>2, <4>2
      <3>3. n # 0
        <4>1. x.n \in 1..n
          BY <1>0, <3>1 DEF Numbered, Top
        <4> QED BY <4>1
      <3> QED BY <1>0, <3>1, <3>2, <3>3 DEF Chosen
    <2> QED BY <2>1, <2>2
  <1>5. OpensMarked'
    BY <1>0, <1>1 DEF OpensMarked, Current, Alike, Typed
  <1> QED BY <1>2, <1>3, <1>4, <1>5 DEF ChoicesSound, Typed

\* A choice goes on: what remains is that the preference is sound.
LEMMA PassIInv ==
    ASSUME StoreIInv, Typed, pref' \in Chats \cup {NoChat}, unsettled' \in BOOLEAN,
           NEW o \in Pending, NEW p, NEW N, PassesTo(o, p, N), o.kind \in ChoiceKinds, CallsMarked,
           store'.opening = store.opening, store'.loadingChat = store.loadingChat,
           store'.selection = store.selection,
           \/ store'.selected = store.selected
           \/ Top(o, run, store.selection)
           \/ store.selection = 0,
           Top(p, run, store.selection) /\ Applied(p) => p.chat = store'.selected,
           store'.loadingChats => store.loadingChats /\ ~(Current(o) /\ At(o, "chats", "list")),
           PreferenceSound'
    PROVE  StoreIInv'
  <1>1. Carries(o, N)
    BY DEF PassesTo
  <1>2. Shapes'
    BY <1>1, CarriesShapes
  <1>3. MarksOwned'
    BY <1>1, PassOwns, CarriesMarks
  <1>4. ChoicesSound'
    BY PassSound
  <1> QED BY <1>2, <1>3, <1>4 DEF StoreIInv

\* When a choice ends the others stay sound.
LEMMA LeaveSound ==
    ASSUME StoreIInv, Typed, NEW o \in Pending, NEW N, Leaves(o, N),
           store'.selection = store.selection, store'.selected = store.selected,
           IF o.kind = "open" /\ Current(o) THEN ~store'.opening ELSE store'.opening = store.opening
    PROVE  ChoicesSound'
  <1> SUFFICES ASSUME run # 0 PROVE ChoicesSound'
    BY DEF ChoicesSound, Typed
  <1> DEFINE n == store.selection
  <1>0. /\ Alone(ops, queue, run, n) /\ Numbered(Pending, run, n)
        /\ Chosen(Pending, run, n, store.selected) /\ OpensMarked
    BY DEF StoreIInv, ChoicesSound
  <1>1. /\ run' = run
        /\ \A x \in Pending' : x \in Pending \/ x \in N
        /\ \A x \in N : x.kind \notin {"select", "open"}
    BY DEF Leaves, Carries, Typed
  <1>2. Alone(ops', queue', run, n) /\ (Rivals(o, o, run, n) => o \notin Pending')
    BY <1>0 DEF Leaves
  <1>3. Numbered(Pending', run, n)
    BY <1>0, <1>1 DEF Numbered, Chooses
  <1>4. Chosen(Pending', run, n, store'.selected)
    BY <1>0, <1>1 DEF Chosen, Top, Chooses
  <1>5. OpensMarked'
    <2>1. CASE o.kind = "open" /\ Current(o)
      <3> SUFFICES ASSUME NEW x \in Pending', x.run = run, x.kind = "open" PROVE FALSE
        BY <1>1 DEF OpensMarked, Current
      <3>1. x \in Pending
        BY <1>1
      <3>2. Rivals(x, o, run, n) /\ Rivals(o, o, run, n)
        BY <2>1 DEF Rivals, Current
      <3>3. x = o
        BY <1>0, <3>1, <3>2, TopUnique DEF Pending
      <3> QED BY <1>2, <3>2, <3>3
    <2>2. CASE ~(o.kind = "open" /\ Current(o))
      BY <1>0, <1>1, <2>2 DEF OpensMarked, Current
    <2> QED BY <2>1, <2>2
  <1> QED BY <1>1, <1>2, <1>3, <1>4, <1>5 DEF ChoicesSound

\* Its marks have gone, and those of the others have their owners.
LEMMA LeaveOwns ==
    ASSUME StoreIInv, Typed, NEW o, NEW N, Leaves(o, N), store'.selection = store.selection,
           IF o.kind = "open" /\ Current(o) THEN ~store'.opening ELSE store'.opening = store.opening,
           IF o.kind = "select" /\ IsCurrent(o) THEN store'.loadingChat = NoChat
           ELSE store'.loadingChat = store.loadingChat
    PROVE  run # 0 => OpeningOwned' /\ SelectionOwned'
  <1>1. run' = run /\ \A x \in Pending : x = o \/ x \in Pending'
    BY DEF Leaves, Carries, Typed
  <1>2. run # 0 => OpeningOwned'
    BY <1>1 DEF StoreIInv, MarksOwned, OpeningOwned, Current
  <1>3. run # 0 => SelectionOwned'
    BY <1>1 DEF StoreIInv, MarksOwned, SelectionOwned, IsCurrent, Current
  <1> QED BY <1>2, <1>3

\* A choice that ends takes its marks off.
LEMMA LeaveIInv ==
    ASSUME StoreIInv, Typed, pref' \in Chats \cup {NoChat}, unsettled' \in BOOLEAN,
           NEW o \in Pending, NEW N, Leaves(o, N), o.kind \in ChoiceKinds, CallsMarked,
           Starting => Starting',
           store'.selection = store.selection, store'.selected = store.selected,
           IF o.kind = "open" /\ Current(o) THEN ~store'.opening ELSE store'.opening = store.opening,
           IF o.kind = "select" /\ IsCurrent(o) THEN store'.loadingChat = NoChat
           ELSE store'.loadingChat = store.loadingChat,
           store'.loadingChats => store.loadingChats /\ ~(Current(o) /\ At(o, "chats", "list")),
           PreferenceSound'
    PROVE  StoreIInv'
  <1>1. Carries(o, N)
    BY DEF Leaves
  <1>2. Shapes'
    BY <1>1, CarriesShapes
  <1>3. MarksOwned'
    BY <1>1, LeaveOwns, CarriesMarks
  <1>4. ChoicesSound'
    BY LeaveSound
  <1> QED BY <1>2, <1>3, <1>4 DEF StoreIInv

----------------------------------------------------------------------------
(* The preference that will be there in the end *)

\* Neither the queue nor the preference changes.
LEMMA PrefStays ==
    ASSUME StoreIInv, run' = run, queue' = queue, pref' = pref, unsettled => unsettled',
           store'.selected = store.selected,
           store.selected = NoChat /\ Restoring => Restoring' \/ unsettled',
           WillWrite => WillWrite'
    PROVE  PreferenceSound'
  BY DEF StoreIInv, PreferenceSound

\* The first operation of the queue ends; a write has been done.
LEMMA PrefDequeued ==
    ASSUME StoreIInv, run' = run, queue # <<>>, queue' = Tail(queue),
           pref' = (IF Writes(Head(queue)) THEN Written(Head(queue)) ELSE pref) \/ pref' = NoChat,
           unsettled => unsettled' \/ (Writes(Head(queue)) /\ Head(queue).run = run),
           store'.selected = store.selected,
           store.selected = NoChat /\ Restoring => Restoring' \/ unsettled',
           WillWrite => WillWrite'
    PROVE  PreferenceSound'
  <1> SUFFICES ASSUME run # 0 PROVE PreferenceSound'
    BY DEF PreferenceSound
  <1>0. queue \in Seq(ChoiceOps) /\ InOrder(queue, run)
    BY QueueFacts DEF StoreIInv, PreferenceSound
  <1>1. InOrder(queue', run)
    BY <1>0, InOrderTail
  <1>2. CASE (unsettled \/ (store.selected = NoChat /\ Restoring)) /\ WriteFree(queue, run)
    <2>1. WriteFree(queue', run)
      BY <1>0, <1>2, WriteFreeTail
    <2>2. ~(Writes(Head(queue)) /\ Head(queue).run = run)
      BY <1>0, <1>2, TailFacts DEF WriteFree
    <2> QED BY <1>1, <1>2, <2>1, <2>2 DEF PreferenceSound
  <1>3. CASE WillWrite
    BY <1>1, <1>3 DEF PreferenceSound
  <1>4. CASE Fits(queue, pref, store.selected)
    <2>1. Fits(queue', pref', store.selected)
      BY <1>0, <1>4, FitsTail
    <2> QED BY <1>1, <2>1 DEF PreferenceSound
  <1> QED BY <1>2, <1>3, <1>4 DEF StoreIInv, PreferenceSound

\* A restoration of this lifecycle joins the queue.
LEMMA PrefAsked ==
    ASSUME StoreIInv, run' = run, NEW x \in ChoiceOps, ~Writes(x), x.run = run,
           queue' = Append(queue, x), pref' = pref, unsettled => unsettled',
           store'.selected = store.selected, Restoring => Restoring', WillWrite => WillWrite'
    PROVE  PreferenceSound'
  <1> SUFFICES ASSUME run # 0 PROVE PreferenceSound'
    BY DEF PreferenceSound
  <1>0. queue \in Seq(ChoiceOps) /\ InOrder(queue, run)
    BY QueueFacts DEF StoreIInv, PreferenceSound
  <1>1. InOrder(queue', run)
    BY <1>0, InOrderAppend
  <1>2. CASE (unsettled \/ (store.selected = NoChat /\ Restoring)) /\ WriteFree(queue, run)
    <2>1. WriteFree(queue', run)
      BY <1>0, <1>2, WriteFreeAppend
    <2> QED BY <1>1, <1>2, <2>1 DEF PreferenceSound
  <1>3. CASE WillWrite
    BY <1>1, <1>3 DEF PreferenceSound
  <1>4. CASE Fits(queue, pref, store.selected)
    <2>1. Fits(queue', pref', store.selected)
      BY <1>0, <1>4, FitsAppend
    <2> QED BY <1>1, <2>1 DEF PreferenceSound
  <1> QED BY <1>2, <1>3, <1>4 DEF StoreIInv, PreferenceSound

\* The write of the selected chat, or of none, joins the queue a.
LEMMA PrefWritten ==
    ASSUME StoreIInv, run' = run, NEW a \in Seq(ChoiceOps), run # 0 => InOrder(a, run),
           NEW x \in ChoiceOps, Writes(x), x.run = run, queue' = Append(a, x),
           Written(x) \in {store'.selected, NoChat}
    PROVE  PreferenceSound'
  <1>1. run # 0 => InOrder(queue', run)
    BY InOrderAppend
  <1>2. Fits(queue', pref', store'.selected)
    BY FitsWrite
  <1> QED BY <1>1, <1>2 DEF PreferenceSound

\* The order of the queue, and of what remains of it.
LEMMA OrderFacts ==
    ASSUME StoreIInv
    PROVE  /\ run # 0 => InOrder(queue, run)
           /\ queue # <<>> => Tail(queue) \in Seq(ChoiceOps) /\ (run # 0 => InOrder(Tail(queue), run))
  BY QueueFacts, TailFacts, InOrderTail DEF StoreIInv, PreferenceSound

\* Until there has been a choice nothing is written for this lifecycle.
LEMMA NothingWritten ==
    ASSUME StoreIInv, run # 0, store.selection = 0
    PROVE  WriteFree(queue, run) /\ ~WillWrite
  <1>0. Numbered(Pending, run, 0)
    BY DEF StoreIInv, ChoicesSound
  <1>1. \A x \in Pending : ~Chooses(x, run)
    BY <1>0 DEF Numbered
  <1>2. \A x \in Items(queue) : Writes(x) => x.kind \in {"select", "open"}
    BY QueueFacts DEF InLine, Writes
  <1>3. \A i \in DOMAIN queue : queue[i] \in Items(queue) /\ queue[i] \in Pending
    BY DEF Items, Pending
  <1> QED BY <1>1, <1>2, <1>3 DEF WriteFree, WillWrite, Top, Chooses, Pending

\* Opening operations that go on to write stay.
LEMMA WillWriteStays ==
    ASSUME run' = run, store'.selection = store.selection, NEW o, \A x \in ops : x = o \/ x \in ops',
           ~(Top(o, run, store.selection) /\ At(o, "open", "history"))
    PROVE  WillWrite => WillWrite'
  BY DEF WillWrite

\* A restoration other than o is still to come.
LEMMA RestoringStays ==
    ASSUME run' = run, NEW o, \A x \in Pending : x = o \/ x \in Pending',
           ~(Current(o) /\ o.kind \in {"start", "chats"})
    PROVE  Restoring => Restoring'
  BY DEF Restoring, Current

\* A start other than o is still to come.
LEMMA StartingStays ==
    ASSUME run' = run, NEW o, \A x \in Pending : x = o \/ x \in Pending',
           ~(Current(o) /\ o.kind = "start")
    PROVE  Starting => Starting'
  BY DEF Starting, Current

----------------------------------------------------------------------------
(* Selections *)

\* p is the choice o, which waits for a now.
Turned(p, o, a) == p \in ChoiceOps /\ Alike(p, o) /\ p.at = a

\* A choice goes on at place a.
LEMMA TurnedAt ==
    ASSUME NEW o \in ChoiceOps, NEW a \in Places
    PROVE  Turned([o EXCEPT !.at = a], o, a)
  BY DEF ChoiceOps, Turned, Alike

\* It goes on with a history request to wait for.
LEMMA TurnedAwaiting ==
    ASSUME NEW o \in ChoiceOps, NEW a \in Places, NEW t \in Nat
    PROVE  Turned([o EXCEPT !.at = a, !.token = t], o, a)
  BY DEF ChoiceOps, Turned, Alike

\* It goes on with the chats that it has read.
LEMMA TurnedWith ==
    ASSUME NEW o \in ChoiceOps, NEW a \in Places, NEW C \in SUBSET Chats
    PROVE  Turned([o EXCEPT !.at = a, !.chats = C], o, a)
  BY DEF ChoiceOps, Turned, Alike

\* It is an operation still.
LEMMA TurnedOp ==
    ASSUME NEW o, IsChoice(o), NEW a, NEW p, Turned(p, o, a)
    PROVE  IsChoice(p) /\ (Placed(p) => IsOp(p))
  <1>1. IsChoice(p)
    BY DEF IsChoice, Turned, Alike
  <1>2. p.kind \in ChoiceKinds /\ p.run \in Nat /\ DOMAIN p = OpFields
    BY DEF Turned, ChoiceOps, OpFields
  <1> QED BY <1>1, <1>2 DEF IsOp, IsChoice, At, ChoiceKinds

\* The facts about a choice among the operations.
LEMMA ChoiceFacts ==
    ASSUME StoreIInv, NEW o \in ops, o.kind \in ChoiceKinds
    PROVE  /\ IsChoice(o) /\ o \in ChoiceOps /\ Placed(o) /\ o \in Pending
           /\ o.kind \in {"select", "open"} => o.chat \in Chats
           /\ pref \in Chats \cup {NoChat} /\ unsettled \in BOOLEAN
  BY OpFacts DEF IsOp, IsChoice, Pending, StoreIInv, Shapes

\* Marks other than those of choices stay owned when their fields stay.
LEMMA SameCalls ==
    ASSUME store'.sending = store.sending, store'.loadingMailbox = store.loadingMailbox,
           store'.loads = store.loads, store'.reload = store.reload,
           store'.searching = store.searching, store'.results = store.results,
           store'.searchRequest = store.searchRequest,
           store'.history = store.history, store'.requests = store.requests,
           NEW o, o.kind # "history", \A x \in ops : x = o \/ x \in ops'
    PROVE  CallsMarked
  BY DEF CallsMarked, Requested

\* Between lifecycles only the shapes matter.
LEMMA IdleStep ==
    ASSUME run' = 0, Shapes'
    PROVE  StoreIInv'
  BY DEF StoreIInv, MarksOwned, ChoicesSound, PreferenceSound

\* A step that leaves the selection and the marks alone.
SameSelection ==
    /\ store'.selected = store.selected /\ store'.selection = store.selection
    /\ store'.opening = store.opening /\ store'.loadingChat = store.loadingChat

\* The chat of a selection is fetched.
LEMMA SelectGetIInv ==
    ASSUME StoreIInv, NEW o \in ops, SelectGet(o)
    PROVE  StoreIInv'
  <1> DEFINE p == [o EXCEPT !.at = "history"]
  <1>0. /\ o.kind = "select" /\ o.at = "get" /\ o.kind \in ChoiceKinds
        /\ ops' = (ops \ {o}) \cup {p} \cup Nothing
        /\ UNCHANGED <<queue, pref, unsettled, run, runs, scope, existing, cached>>
    BY DEF SelectGet, At, Goes, Becomes, Nothing, ChoiceKinds, backend, inbox, session, preference
  <1>1. /\ IsChoice(o) /\ o \in ChoiceOps /\ Placed(o) /\ o \in Pending /\ o.chat \in Chats
        /\ pref \in Chats \cup {NoChat} /\ unsettled \in BOOLEAN
    BY <1>0, ChoiceFacts
  <1>2. Turned(p, o, "history")
    BY <1>1, TurnedAt DEF Places
  <1> HIDE DEF p
  <1>3. IsOp(p)
    BY <1>0, <1>1, <1>2, TurnedOp DEF Placed, Turned, Alike
  <1>4. PassesTo(o, p, Nothing)
    BY <1>0, <1>2, <1>3, PassInOps DEF Turned, Nothing
  <1>5. run # 0 /\ IsCurrent(o) => o.chat = store.selected
    BY <1>0, <1>1 DEF StoreIInv, ChoicesSound, Chosen, Top, Chooses, Applied, IsCurrent, Current
  <1>6. /\ IsStore(store') /\ (run # 0 => store'.selected = store.selected)
        /\ store'.selection = store.selection /\ store'.opening = store.opening
        /\ store'.loadingChat = store.loadingChat /\ store'.loadingChats = store.loadingChats
        /\ store'.sending = store.sending /\ store'.loadingMailbox = store.loadingMailbox
        /\ store'.loads = store.loads /\ store'.reload = store.reload
        /\ store'.searching = store.searching /\ store'.results = store.results
        /\ store'.searchRequest = store.searchRequest
        /\ store'.history = store.history /\ store'.requests = store.requests
    <2>1. store' = store \/ (IsCurrent(o) /\ store' = [store EXCEPT !.selected = o.chat, !.chats = @ \cup {o.chat}])
      BY DEF SelectGet
    <2> QED BY <1>1, <1>5, <2>1, OpFacts DEF IsStore, StoreFields
  <1>7. Typed
    BY <1>0, <1>6, OpFacts DEF Typed
  <1>8. CallsMarked
    BY <1>0, <1>4, <1>6, SameCalls DEF PassesTo, Carries
  <1>9. PreferenceSound'
    <2>1. CASE run = 0
      BY <1>0, <2>1 DEF PreferenceSound
    <2>2. CASE run # 0
      BY <2>2, <1>0, <1>4, <1>6, <1>7, PassOwns, WillWriteStays, PrefStays DEF PassesTo, Carries, At
    <2> QED BY <2>1, <2>2
  <1>10. CASE run # 0
    BY <1>0, <1>1, <1>2, <1>4, <1>6, <1>7, <1>8, <1>9, <1>10, PassIInv DEF Turned, Alike, Applied, At
  <1>11. CASE run = 0
    <2>1. Shapes'
      BY <1>0, <1>1, <1>4, <1>7, CarriesShapes DEF PassesTo
    <2> QED BY <2>1, <1>0, <1>11, IdleStep
  <1> QED BY <1>10, <1>11

\* The token that is awaited is a number.
LEMMA AwaitedNat ==
    ASSUME NEW b, IsStore(b), NEW c
    PROVE  Awaited(b, c) \in Nat
  <1>1. b.tokens + 1 \in Nat
    BY DEF IsStore
  <1> QED BY <1>1 DEF Awaited, CanLoad

\* A chat is selected: what remains of the queue is a, and o is gone from it.
LEMMA SelectIInv ==
    ASSUME StoreIInv, run # 0, NEW c \in Chats, NEW a \in Seq(ChoiceOps),
           InOrder(a, run), Alone(ops, a, run, store.selection), Items(a) \subseteq Items(queue),
           NEW o, o.kind \in {"select", "chats"}, ~At(o, "chats", "list"),
           \A y \in Pending : y = o \/ y \in ops \/ y \in Items(a),
           \A y \in ops : y \in Pending, o.kind = "select" => o \notin Pending,
           Select(store, c, ops, a),
           UNCHANGED <<run, runs, scope, existing, cached, unsettled>>,
           pref' \in Chats \cup {NoChat}
    PROVE  StoreIInv'
  <1> DEFINE b == [store EXCEPT !.selection = @ + 1, !.selected = c, !.loadingChat = c]
             s == retainHistory(b, c)
             N == HistoryOps(s, c, FALSE)
             x == [Op("select", "write") EXCEPT !.n = s.selection, !.chat = c, !.token = Awaited(s, c)]
             n == store.selection
  <1>0. /\ IsStore(store) /\ existing \subseteq Chats /\ cached \subseteq Chats /\ unsettled \in BOOLEAN
        /\ run \in Nat /\ runs \in Nat /\ run <= runs /\ scope \in Nat /\ n \in Nat
    BY DEF StoreIInv, Shapes, IsStore
  <1>1. store' = HistoryBegun(s, c, FALSE) /\ ops' = ops \cup N /\ queue' = Append(a, x)
    BY DEF Select
  <1>2. /\ IsStore(b) /\ b.selection = n + 1 /\ b.selected = c /\ b.loadingChat = c
        /\ b.opening = store.opening /\ b.loadingChats = store.loadingChats
        /\ b.sending = store.sending /\ b.loadingMailbox = store.loadingMailbox
        /\ b.loads = store.loads /\ b.reload = store.reload
        /\ b.searching = store.searching /\ b.results = store.results
        /\ b.searchRequest = store.searchRequest
        /\ b.history = store.history /\ b.requests = store.requests
    BY <1>0 DEF IsStore, StoreFields
  <1> HIDE DEF b
  <1>3. IsStore(s) /\ SameButHistory(b, s) /\ \A S, r : Requested(b, S, r) => Requested(s, S, r)
    BY <1>2, RetainFacts
  <1>4. x \in ChoiceOps /\ x.kind = "select" /\ x.at = "write" /\ x.run = run /\ x.n = n + 1 /\ x.chat = c
    <2>1. s.selection = n + 1 /\ Awaited(s, c) \in Nat
      BY <1>2, <1>3, AwaitedNat DEF SameButHistory
    <2>2. "select" \in ChoiceKinds /\ "write" \in Places /\ c \in Chats \cup {NoChat} /\ n + 1 \in Nat
      BY <1>0 DEF ChoiceKinds, Places
    <2> DEFINE t == Awaited(s, c)
    <2>3. x = [Op("select", "write") EXCEPT !.n = n + 1, !.chat = c, !.token = t]
      BY <2>1
    <2> HIDE DEF s, t, x
    <2>4. x \in ChoiceOps
      <3>1. t \in Nat
        BY <2>1 DEF t
      <3> QED BY <1>0, <2>2, <2>3, <3>1 DEF Op, ChoiceOps
    <2>5. x.kind = "select" /\ x.at = "write" /\ x.run = run /\ x.n = n + 1 /\ x.chat = c
      BY <2>3 DEF Op
    <2> QED BY <2>4, <2>5
  <1> HIDE DEF s, N, x
  <1>5. /\ IsStore(store') /\ SameButHistory(s, store')
        /\ \A p \in N : IsOp(p) /\ p.kind = "history" /\ p.run = run
        /\ \A S : Requested(s, S, run) => Requested(store', S \cup N, run)
    BY <1>0, <1>1, <1>3, BegunFacts DEF N
  <1>6. SameButHistory(b, store')
    BY <1>3, <1>5 DEF SameButHistory
  <1>7. CallsMarked
    <2>1. Requested(store, ops, run) => Requested(store', ops', run)
      <3>1. Requested(store, ops, run) => Requested(b, ops, run)
        BY <1>2 DEF Requested
      <3> QED BY <3>1, <1>1, <1>3, <1>5
    <2> QED BY <1>2, <1>6, <2>1 DEF CallsMarked, SameButHistory
  <1>8. Typed
    BY <1>0, <1>5 DEF Typed
  <1>9. queue' \in Seq(ChoiceOps) /\ Items(queue') = Items(a) \cup {x}
    BY <1>1, <1>4, AppendFacts
  <1>10. IsChoice(x) /\ InLine(x) /\ Writes(x) /\ Written(x) = c
    BY <1>0, <1>4 DEF IsChoice, InLine, Writes, Written
  <1>11. Carries(o, N)
    BY <1>1, <1>5, <1>9, <1>10 DEF Carries, Pending
  <1>12. Shapes'
    BY <1>0, <1>8, <1>11, CarriesShapes
  <1>13. MarksOwned'
    <2>1. Starting => Starting'
      BY <1>11, <1>8 DEF Starting, Current, Carries, Typed
    <2>2. OpeningOwned'
      BY <1>2, <1>6, <1>8, <1>11 DEF StoreIInv, MarksOwned, OpeningOwned, Current, Carries, Typed, SameButHistory
    <2>3. SelectionOwned'
      <3>1. x \in Pending' /\ store'.selection = n + 1
        BY <1>2, <1>6, <1>9 DEF Pending, SameButHistory
      <3> QED BY <3>1, <1>4, <1>8 DEF SelectionOwned, IsCurrent, Current, Typed
    <2>4. store'.loadingChats = store.loadingChats /\ o.kind \in ChoiceKinds
      BY <1>2, <1>6 DEF SameButHistory, ChoiceKinds
    <2> QED BY <1>7, <1>8, <1>11, <2>1, <2>2, <2>3, <2>4, CarriesMarks
  <1>14. ChoicesSound'
    <2>0. Numbered(Pending, run, n) /\ OpensMarked
      BY DEF StoreIInv, ChoicesSound
    <2>1. \A y \in ops \cup Items(a) : y \in Pending
      BY DEF Pending
    <2>2. Numbered(ops \cup Items(a), run, n)
      BY <2>0, <2>1 DEF Numbered
    <2>3. Alone(ops, a, run, n + 1)
      BY <1>0, <2>2, AloneNext
    <2>4. \A y \in ops \cup Items(a) : ~Top(y, run, n + 1)
      BY <1>0, <2>2 DEF Numbered, Top
    <2>5. \A y \in ops \cup Items(a) : ~Rivals(x, y, run, n + 1) /\ ~Rivals(y, x, run, n + 1)
      BY <1>4, <2>4 DEF Rivals
    <2>6. Alone(ops, queue', run, n + 1)
      BY <1>1, <1>4, <2>3, <2>5, AloneEnd DEF Items
    <2>7. Alone(ops', queue', run, n + 1)
      BY <1>1, <1>5, <2>6, AloneMore
    <2>8. \A y \in Pending' : y \in ops \cup Items(a) \/ y = x \/ y \in N
      BY <1>1, <1>9 DEF Pending
    <2>9. Numbered(Pending', run, n + 1)
      BY <1>0, <1>4, <1>5, <2>2, <2>8 DEF Numbered, Chooses
    <2>10. Chosen(Pending', run, n + 1, c)
      BY <1>4, <1>5, <2>4, <2>8 DEF Chosen, Top, Chooses
    <2>11. OpensMarked'
      BY <1>2, <1>4, <1>5, <1>6, <1>8, <2>0, <2>1, <2>8
         DEF OpensMarked, Current, SameButHistory, Typed
    <2>12. store'.selection = n + 1 /\ store'.selected = c
      BY <1>2, <1>6 DEF SameButHistory
    <2> QED BY <2>7, <2>9, <2>10, <2>11, <2>12, <1>8 DEF ChoicesSound, Typed
  <1>15. PreferenceSound'
    <2>1. store'.selected = c
      BY <1>2, <1>6 DEF SameButHistory
    <2> QED BY <1>1, <1>4, <1>8, <1>10, <2>1, PrefWritten DEF Typed
  <1> QED BY <1>12, <1>13, <1>14, <1>15 DEF StoreIInv

\* The visitor selects a chat.
LEMMA SelectChatIInv ==
    ASSUME StoreIInv, NEW c \in Chats, SelectChat(c)
    PROVE  StoreIInv'
  <1> DEFINE o == [kind |-> "select", at |-> "none"]
  <1>1. /\ run # 0 /\ Select(store, c, ops, queue) /\ pref' \in Chats \cup {NoChat}
        /\ UNCHANGED <<run, runs, scope, existing, cached, unsettled>>
    BY DEF SelectChat, StoreIInv, Shapes, backend, inbox, session
  <1>2. /\ queue \in Seq(ChoiceOps) /\ InOrder(queue, run) /\ Alone(ops, queue, run, store.selection)
        /\ Items(queue) \subseteq Items(queue)
    BY <1>1, QueueFacts, OrderFacts DEF StoreIInv, ChoicesSound
  <1>3. o.kind = "select" /\ ~At(o, "chats", "list")
    BY DEF At
  <1>4. o \notin Pending
    <2>1. \A y \in Pending : DOMAIN y = OpFields
      BY QueueFacts DEF Pending, IsOp, IsChoice, ChoiceOps, OpFields
    <2>2. DOMAIN o # OpFields
      <3>1. "run" \in OpFields /\ "run" \notin DOMAIN o
        BY DEF OpFields
      <3> QED BY <3>1
    <2> QED BY <2>1, <2>2
  <1> HIDE DEF o
  <1>5. /\ \A y \in Pending : y = o \/ y \in ops \/ y \in Items(queue)
        /\ \A y \in ops : y \in Pending
    BY DEF Pending
  <1> QED BY <1>1, <1>2, <1>3, <1>4, <1>5, SelectIInv

\* A choice goes on; nothing is written and the marks stay.
LEMMA TurnsInOps ==
    ASSUME StoreIInv, NEW o \in ops, o.kind \in ChoiceKinds, NEW a, NEW p, Turned(p, o, a),
           Placed(p), Applied(p) => Applied(o),
           ~At(o, "open", "history"), ~At(o, "chats", "list"),
           ops' = (ops \ {o}) \cup {p}, Typed, SameMarks(store, store'),
           UNCHANGED <<queue, pref, unsettled>>
    PROVE  StoreIInv'
  <1>0. /\ IsChoice(o) /\ o \in Pending /\ run' = run
        /\ pref' \in Chats \cup {NoChat} /\ unsettled' \in BOOLEAN
    BY ChoiceFacts DEF Typed
  <1>1. IsOp(p) /\ Alike(p, o)
    BY <1>0, TurnedOp DEF Turned
  <1>2. ops' = (ops \ {o}) \cup {p} \cup Nothing /\ \A x \in Nothing : IsOp(x) /\ x.kind \notin {"select", "open"}
    BY DEF Nothing
  <1>3. PassesTo(o, p, Nothing)
    BY <1>1, <1>2, PassInOps
  <1>4. SameSelection /\ store'.loadingChats = store.loadingChats
    BY DEF SameMarks, SameSelection
  <1>5. \A x \in ops : x = o \/ x \in ops'
    BY <1>2
  <1>6. CallsMarked
    <2>1. o.kind # "history"
      BY DEF ChoiceKinds
    <2> QED BY <1>5, <2>1, SameCalls DEF SameMarks
  <1>7. PreferenceSound'
    <2>1. Restoring => Restoring'
      BY <1>3, <1>4, PassOwns DEF SameSelection
    <2>2. WillWrite => WillWrite'
      BY <1>0, <1>4, <1>5, WillWriteStays DEF SameSelection
    <2> QED BY <1>0, <1>4, <2>1, <2>2, PrefStays DEF SameSelection
  <1>8. CASE run = 0
    <2>1. Shapes'
      BY <1>0, <1>3, CarriesShapes DEF PassesTo
    <2> QED BY <1>0, <1>8, <2>1, IdleStep
  <1>9. CASE run # 0
    <2>1. Top(p, run, store.selection) /\ Applied(p) => p.chat = store'.selected
      BY <1>0, <1>1, <1>4, <1>9 DEF StoreIInv, ChoicesSound, Chosen, Top, Chooses, Alike, SameSelection
    <2> QED BY <1>0, <1>3, <1>4, <1>6, <1>7, <2>1, PassIInv DEF SameSelection
  <1> QED BY <1>8, <1>9

\* An operation of an ended lifecycle ends.
LEMMA StaleEnds ==
    ASSUME StoreIInv, NEW o \in ops, o.kind \in ChoiceKinds, ~Current(o), ops' = ops \ {o},
           UNCHANGED <<store, queue, pref, run, runs, scope>>,
           existing' \subseteq Chats, cached' \subseteq Chats,
           unsettled' \in BOOLEAN, unsettled => unsettled'
    PROVE  StoreIInv'
  <1>0. /\ o \in Pending /\ IsStore(store) /\ pref' \in Chats \cup {NoChat}
    BY ChoiceFacts, OpFacts
  <1>1. Typed
    BY <1>0 DEF Typed
  <1>2. ops' = (ops \ {o}) \cup Nothing /\ \A x \in Nothing : IsOp(x) /\ x.kind \notin {"select", "open"}
    BY DEF Nothing
  <1>3. Leaves(o, Nothing)
    BY <1>2, LeaveOps
  <1>4. /\ \A x \in ops : x = o \/ x \in ops'
        /\ \A x \in Pending : x = o \/ x \in Pending'
    BY <1>3 DEF Leaves, Carries
  <1>5. CallsMarked
    <2>1. o.kind # "history"
      BY DEF ChoiceKinds
    <2> QED BY <1>4, <2>1, SameCalls
  <1>6. (Starting => Starting') /\ (Restoring => Restoring') /\ (WillWrite => WillWrite')
    BY <1>4, StartingStays, RestoringStays, WillWriteStays DEF Top, Chooses, Current
  <1>7. PreferenceSound'
    BY <1>6, PrefStays
  <1> QED BY <1>0, <1>1, <1>3, <1>5, <1>6, <1>7, LeaveIInv DEF IsCurrent

\* A selection ends after its history.
LEMMA SelectHistoryIInv ==
    ASSUME StoreIInv, NEW o \in ops, SelectHistory(o)
    PROVE  StoreIInv'
  <1>0. /\ o.kind = "select" /\ o.at = "history" /\ o.kind \in ChoiceKinds /\ ops' = ops \ {o}
        /\ UNCHANGED <<queue, pref, unsettled, run, runs, scope, existing, cached>>
    BY DEF SelectHistory, At, Ends, ChoiceKinds, backend, inbox, session, preference
  <1>1. /\ o \in Pending /\ IsStore(store) /\ pref' \in Chats \cup {NoChat} /\ unsettled' \in BOOLEAN
        /\ existing \subseteq Chats /\ cached \subseteq Chats
    BY <1>0, ChoiceFacts, OpFacts
  <1>2. /\ IsStore(store') /\ store'.selected = store.selected /\ store'.selection = store.selection
        /\ store'.opening = store.opening /\ store'.loadingChats = store.loadingChats
        /\ store'.loadingChat = (IF IsCurrent(o) THEN NoChat ELSE store.loadingChat)
        /\ store'.sending = store.sending /\ store'.loadingMailbox = store.loadingMailbox
        /\ store'.loads = store.loads /\ store'.reload = store.reload
        /\ store'.searching = store.searching /\ store'.results = store.results
        /\ store'.searchRequest = store.searchRequest
        /\ store'.history = store.history /\ store'.requests = store.requests
    BY <1>1 DEF SelectHistory, IsStore, StoreFields
  <1>3. Typed
    BY <1>0, <1>1, <1>2 DEF Typed
  <1>4. ops' = (ops \ {o}) \cup Nothing /\ \A x \in Nothing : IsOp(x) /\ x.kind \notin {"select", "open"}
    BY <1>0 DEF Nothing
  <1>5. Leaves(o, Nothing)
    BY <1>0, <1>4, LeaveOps
  <1>6. /\ \A x \in ops : x = o \/ x \in ops'
        /\ \A x \in Pending : x = o \/ x \in Pending'
    BY <1>5 DEF Leaves, Carries
  <1>7. CallsMarked
    BY <1>0, <1>2, <1>6, SameCalls
  <1>8. (Starting => Starting') /\ (Restoring => Restoring') /\ (WillWrite => WillWrite')
    BY <1>0, <1>2, <1>6, StartingStays, RestoringStays, WillWriteStays DEF At
  <1>9. PreferenceSound'
    BY <1>0, <1>2, <1>8, PrefStays
  <1> QED BY <1>0, <1>1, <1>2, <1>3, <1>5, <1>7, <1>8, <1>9, LeaveIInv DEF At

\* getChat fails: the selection is taken back, or has been overtaken.
LEMMA SelectGetFailsIInv ==
    ASSUME StoreIInv, NEW o \in ops, SelectGetFails(o)
    PROVE  StoreIInv'
  <1>0. /\ o.kind = "select" /\ o.at = "get" /\ o.kind \in ChoiceKinds
        /\ Deselect(o, ops \ {o}, queue)
        /\ UNCHANGED <<pref, unsettled, run, runs, scope, existing, cached>>
    BY DEF SelectGetFails, At, ChoiceKinds, backend, inbox, session
  <1>1. /\ o \in Pending /\ IsChoice(o) /\ o \in ChoiceOps /\ IsStore(store)
        /\ pref' \in Chats \cup {NoChat} /\ unsettled' \in BOOLEAN
        /\ existing \subseteq Chats /\ cached \subseteq Chats
    BY <1>0, ChoiceFacts, OpFacts
  <1>2. CASE ~IsCurrent(o)
    <2> DEFINE p == [o EXCEPT !.at = "history"]
    <2>1. ops' = (ops \ {o}) \cup {p} /\ UNCHANGED <<queue, store>>
      BY <1>0, <1>2 DEF Deselect
    <2>2. Turned(p, o, "history")
      BY <1>1, TurnedAt DEF Places
    <2> HIDE DEF p
    <2>3. Placed(p) /\ ~Applied(p) /\ ~At(o, "open", "history") /\ ~At(o, "chats", "list")
      BY <1>0, <2>2 DEF Turned, Alike, Placed, Applied, At
    <2>4. Typed /\ SameMarks(store, store')
      BY <1>0, <1>1, <2>1, SameStore
    <2> QED BY <1>0, <2>1, <2>2, <2>3, <2>4, TurnsInOps
  <1>3. CASE IsCurrent(o)
    <2> DEFINE p == [o EXCEPT !.at = "clear"]
    <2>1. /\ ops' = ops \ {o} /\ queue' = Append(queue, p)
          /\ store' = [store EXCEPT !.selected = NoChat]
      BY <1>0, <1>3 DEF Deselect
    <2>2. Turned(p, o, "clear")
      BY <1>1, TurnedAt DEF Places
    <2> HIDE DEF p
    <2>3. /\ p \in ChoiceOps /\ Alike(p, o) /\ IsChoice(p) /\ InLine(p) /\ ~Applied(p)
          /\ Writes(p) /\ Written(p) = NoChat /\ p.run = run
      <3>1. IsChoice(p)
        BY <1>1, <2>2, TurnedOp
      <3> QED BY <1>0, <1>3, <2>2, <3>1
            DEF Turned, Alike, InLine, Applied, Writes, Written, IsCurrent, Current
    <2>4. PassesTo(o, p, Nothing)
      BY <2>1, <2>3, PassToQueue
    <2>5. /\ IsStore(store') /\ store'.selected = NoChat /\ store'.selection = store.selection
          /\ store'.opening = store.opening /\ store'.loadingChats = store.loadingChats
          /\ store'.loadingChat = store.loadingChat
          /\ store'.sending = store.sending /\ store'.loadingMailbox = store.loadingMailbox
          /\ store'.loads = store.loads /\ store'.reload = store.reload
          /\ store'.searching = store.searching /\ store'.results = store.results
          /\ store'.searchRequest = store.searchRequest
          /\ store'.history = store.history /\ store'.requests = store.requests
      BY <1>1, <2>1 DEF IsStore, StoreFields
    <2>6. Typed
      BY <1>0, <1>1, <2>5 DEF Typed
    <2>7. CallsMarked
      BY <1>0, <2>4, <2>5, SameCalls DEF PassesTo, Carries
    <2>8. PreferenceSound'
      <3>1. queue \in Seq(ChoiceOps) /\ (run # 0 => InOrder(queue, run)) /\ run' = run
        BY <1>0, QueueFacts, OrderFacts
      <3> QED BY <2>1, <2>3, <3>1, PrefWritten
    <2>9. Top(o, run, store.selection)
      BY <1>0, <1>3 DEF Top, Chooses, IsCurrent, Current
    <2> QED BY <1>0, <1>1, <2>3, <2>4, <2>5, <2>6, <2>7, <2>8, <2>9, PassIInv DEF At
  <1> QED BY <1>2, <1>3

----------------------------------------------------------------------------
(* Openings *)

\* An opening begins: it takes the number of the selection and its mark.
LEMMA OpenDirectChatIInv ==
    ASSUME StoreIInv, NEW c \in Chats, OpenDirectChat(c)
    PROVE  StoreIInv'
  <1> DEFINE n == store.selection
             x == [Op("open", "create") EXCEPT !.n = n + 1, !.chat = c]
  <1>0. /\ IsStore(store) /\ existing \subseteq Chats /\ cached \subseteq Chats /\ unsettled \in BOOLEAN
        /\ run \in Nat /\ runs \in Nat /\ run <= runs /\ scope \in Nat /\ n \in Nat
        /\ pref \in Chats \cup {NoChat}
    BY DEF StoreIInv, Shapes, IsStore
  <1>1. /\ run # 0 /\ ~store.opening /\ ops' = ops \cup {x}
        /\ store' = [store EXCEPT !.selection = @ + 1, !.opening = TRUE, !.loadingChat = NoChat]
        /\ UNCHANGED <<queue, pref, unsettled, run, runs, scope, existing, cached>>
    BY DEF OpenDirectChat, backend, inbox, session, preference
  <1>2. x \in ChoiceOps /\ x.kind = "open" /\ x.at = "create" /\ x.run = run /\ x.n = n + 1 /\ x.chat = c
    <2>1. "open" \in ChoiceKinds /\ "create" \in Places /\ n + 1 \in Nat
      BY <1>0 DEF ChoiceKinds, Places
    <2>2. x \in ChoiceOps
      BY <1>0, <2>1 DEF Op, ChoiceOps
    <2>3. x.kind = "open" /\ x.at = "create" /\ x.run = run /\ x.n = n + 1 /\ x.chat = c
      BY DEF Op
    <2> QED BY <2>2, <2>3
  <1> HIDE DEF x
  <1>3. IsOp(x) /\ x.kind \in ChoiceKinds
    <2>1. DOMAIN x = OpFields
      BY <1>2 DEF ChoiceOps, OpFields
    <2> QED BY <1>0, <1>1, <1>2, <2>1 DEF IsOp, IsChoice, Placed, At, ChoiceKinds
  <1>4. /\ IsStore(store') /\ store'.selected = store.selected /\ store'.selection = n + 1
        /\ store'.opening /\ store'.loadingChats = store.loadingChats /\ store'.loadingChat = NoChat
        /\ store'.sending = store.sending /\ store'.loadingMailbox = store.loadingMailbox
        /\ store'.loads = store.loads /\ store'.reload = store.reload
        /\ store'.searching = store.searching /\ store'.results = store.results
        /\ store'.searchRequest = store.searchRequest
        /\ store'.history = store.history /\ store'.requests = store.requests
    BY <1>0, <1>1 DEF IsStore, StoreFields
  <1>5. Typed
    BY <1>0, <1>1, <1>4 DEF Typed
  <1>6. Carries(x, Nothing)
    BY <1>1, <1>3, QueueFacts DEF Carries, Pending, Nothing
  <1>7. CallsMarked
    BY <1>1, <1>2, <1>4, SameCalls
  <1>8. Shapes'
    BY <1>0, <1>1, <1>5, <1>6, CarriesShapes
  <1>9. MarksOwned'
    <2>1. Starting => Starting'
      BY <1>1 DEF Starting, Current, Pending
    <2>2. OpeningOwned' /\ SelectionOwned'
      BY <1>1, <1>2, <1>4 DEF OpeningOwned, SelectionOwned, Current, Pending
    <2>3. ~At(x, "chats", "list")
      BY <1>2 DEF At
    <2> QED BY <1>3, <1>4, <1>5, <1>6, <1>7, <2>1, <2>2, <2>3, CarriesMarks
  <1>10. /\ Alone(ops, queue, run, n) /\ Numbered(Pending, run, n)
         /\ \A y \in Pending : ~(y.run = run /\ y.kind = "open")
    BY <1>1 DEF StoreIInv, ChoicesSound, OpensMarked, Current
  <1>11. ChoicesSound'
    <2>1. Alone(ops, queue, run, n + 1)
      BY <1>0, <1>10, QueueFacts, AloneNext DEF Pending
    <2>2. \A y \in Pending : ~Top(y, run, n + 1)
      BY <1>0, <1>10 DEF Numbered, Top
    <2>3. \A y \in Pending : ~Rivals(x, y, run, n + 1) /\ ~Rivals(y, x, run, n + 1)
      BY <1>10, <2>2 DEF Rivals
    <2>4. Alone(ops', queue, run, n + 1)
      <3>1. /\ \A y \in ops : ~Rivals(y, x, run, n + 1) /\ ~Rivals(x, y, run, n + 1)
            /\ \A i \in DOMAIN queue : ~Rivals(x, queue[i], run, n + 1)
        BY <2>3 DEF Pending, Items
      <3> QED BY <1>1, <2>1, <3>1, AloneJoin
    <2>5. \A y \in Pending' : y \in Pending \/ y = x
      BY <1>1 DEF Pending
    <2>6. Numbered(Pending', run, n + 1)
      BY <1>0, <1>2, <1>10, <2>5 DEF Numbered, Chooses
    <2>7. Chosen(Pending', run, n + 1, store'.selected)
      BY <1>2, <2>2, <2>5 DEF Chosen, Applied
    <2>8. OpensMarked'
      BY <1>4 DEF OpensMarked
    <2> QED BY <1>1, <1>4, <2>4, <2>6, <2>7, <2>8 DEF ChoicesSound
  <1>12. PreferenceSound'
    <2>1. ~WillWrite
      BY <1>10 DEF WillWrite, At, Top, Chooses, Pending
    <2>2. Restoring => Restoring'
      BY <1>1 DEF Restoring, Current, Pending
    <2> QED BY <1>1, <1>4, <2>1, <2>2, PrefStays
  <1> QED BY <1>8, <1>9, <1>11, <1>12 DEF StoreIInv

\* An opening of this lifecycle ends without a choice.
LEMMA OpenGivesUp ==
    ASSUME StoreIInv, NEW o \in ops, o.kind = "open", Current(o), ~(IsCurrent(o) /\ o.at = "history"),
           ops' = ops \ {o}, NEW b, IsStore(b), SameMarks(store, b), store' = [b EXCEPT !.opening = FALSE],
           UNCHANGED <<queue, pref, unsettled, run, runs, scope, cached>>, existing' \subseteq Chats
    PROVE  StoreIInv'
  <1>0. /\ o.kind \in ChoiceKinds /\ o \in Pending
        /\ pref' \in Chats \cup {NoChat} /\ unsettled' \in BOOLEAN /\ cached \subseteq Chats
    BY ChoiceFacts, OpFacts DEF ChoiceKinds
  <1>2. /\ IsStore(store') /\ store'.selected = store.selected /\ store'.selection = store.selection
        /\ ~store'.opening /\ store'.loadingChats = store.loadingChats
        /\ store'.loadingChat = store.loadingChat
        /\ store'.sending = store.sending /\ store'.loadingMailbox = store.loadingMailbox
        /\ store'.loads = store.loads /\ store'.reload = store.reload
        /\ store'.searching = store.searching /\ store'.results = store.results
        /\ store'.searchRequest = store.searchRequest
        /\ store'.history = store.history /\ store'.requests = store.requests
    BY DEF IsStore, StoreFields, SameMarks
  <1>3. Typed
    BY <1>0, <1>2 DEF Typed
  <1>4. ops' = (ops \ {o}) \cup Nothing /\ \A x \in Nothing : IsOp(x) /\ x.kind \notin {"select", "open"}
    BY <1>0 DEF Nothing
  <1>5. Leaves(o, Nothing)
    BY <1>0, <1>4, LeaveOps
  <1>6. /\ \A x \in ops : x = o \/ x \in ops'
        /\ \A x \in Pending : x = o \/ x \in Pending'
    BY <1>5 DEF Leaves, Carries
  <1>7. CallsMarked
    BY <1>0, <1>2, <1>6, SameCalls
  <1>8. (Starting => Starting') /\ (Restoring => Restoring')
    BY <1>0, <1>2, <1>6, StartingStays, RestoringStays
  <1>9. WillWrite => WillWrite'
    BY <1>2, <1>6, WillWriteStays DEF At, Top, IsCurrent
  <1>10. PreferenceSound'
    BY <1>0, <1>2, <1>8, <1>9, PrefStays
  <1> QED BY <1>0, <1>2, <1>3, <1>5, <1>7, <1>8, <1>10, LeaveIInv DEF At

\* The chat of an opening is created, and selected if nothing has overtaken it.
LEMMA OpenCreateIInv ==
    ASSUME StoreIInv, NEW o \in ops, OpenCreate(o)
    PROVE  StoreIInv'
  <1> DEFINE listed == [store EXCEPT !.chats = @ \cup {o.chat}]
             b == [listed EXCEPT !.searchRequest = @ + 1, !.selected = o.chat,
                                 !.searching = FALSE, !.results = 0]
             chosen == retainHistory(b, o.chat)
             N == HistoryOps(chosen, o.chat, FALSE)
             p == [o EXCEPT !.at = "history", !.token = Awaited(chosen, o.chat)]
  <1>0. /\ o.kind = "open" /\ o.at = "create" /\ o.kind \in ChoiceKinds
        /\ existing' = existing \cup {o.chat}
        /\ UNCHANGED <<queue, pref, unsettled, run, runs, scope, cached>>
    BY DEF OpenCreate, At, ChoiceKinds, inbox, session, preference
  <1>1. /\ o \in Pending /\ IsChoice(o) /\ o \in ChoiceOps /\ IsStore(store) /\ o.chat \in Chats
        /\ pref' \in Chats \cup {NoChat} /\ unsettled' \in BOOLEAN
        /\ existing' \subseteq Chats /\ cached \subseteq Chats
        /\ run \in Nat /\ runs \in Nat /\ run <= runs
    BY <1>0, ChoiceFacts, OpFacts
  <1>2. IsStore(listed) /\ SameMarks(store, listed)
    BY <1>1, ListedMarks
  <1>3. CASE IsCurrent(o)
    <2>1. store' = HistoryBegun(chosen, o.chat, FALSE) /\ ops' = (ops \ {o}) \cup N \cup {p}
      BY <1>3 DEF OpenCreate
    <2>2. /\ IsStore(b) /\ b.selection = store.selection /\ b.selected = o.chat
          /\ b.loadingChat = store.loadingChat
          /\ b.opening = store.opening /\ b.loadingChats = store.loadingChats
          /\ b.sending = store.sending /\ b.loadingMailbox = store.loadingMailbox
          /\ b.loads = store.loads /\ b.reload = store.reload /\ ~b.searching /\ b.results = 0
          /\ b.history = store.history /\ b.requests = store.requests
      <3> HIDE DEF listed
      <3> QED BY <1>1, <1>2 DEF IsStore, StoreFields, SameMarks
    <2> HIDE DEF listed, b
    <2>3. IsStore(chosen) /\ SameButHistory(b, chosen) /\ \A S, r : Requested(b, S, r) => Requested(chosen, S, r)
      BY <2>2, RetainFacts
    <2>4. Turned(p, o, "history")
      <3>1. Awaited(chosen, o.chat) \in Nat
        BY <2>3, AwaitedNat
      <3> HIDE DEF chosen
      <3> DEFINE t == Awaited(chosen, o.chat)
      <3> HIDE DEF t
      <3>2. Turned([o EXCEPT !.at = "history", !.token = t], o, "history")
        BY <1>1, <3>1, TurnedAwaiting DEF Places, t
      <3> QED BY <3>2 DEF t
    <2> HIDE DEF chosen, N, p
    <2>5. /\ IsStore(store') /\ SameButHistory(chosen, store')
          /\ \A x \in N : IsOp(x) /\ x.kind = "history" /\ x.run = run
          /\ \A S : Requested(chosen, S, run) => Requested(store', S \cup N, run)
      BY <1>1, <2>1, <2>3, BegunFacts DEF N
    <2>6. SameButHistory(b, store')
      BY <2>3, <2>5 DEF SameButHistory
    <2>7. IsOp(p) /\ Alike(p, o) /\ At(p, "open", "history")
      BY <1>0, <1>1, <2>4, TurnedOp DEF Turned, Alike, Placed, At
    <2>8. PassesTo(o, p, N)
      <3>1. ops' = (ops \ {o}) \cup {p} \cup N /\ \A x \in N : IsOp(x) /\ x.kind \notin {"select", "open"}
        BY <2>1, <2>5
      <3> QED BY <1>0, <2>7, <3>1, PassInOps
    <2>9. CallsMarked
      <3>1. ASSUME Requested(store, ops, run) PROVE Requested(store', ops', run)
        <4>1. Requested(b, ops \ {o}, run)
          BY <1>0, <2>2, <3>1 DEF Requested
        <4>2. Requested(store', (ops \ {o}) \cup N, run)
          BY <2>3, <2>5, <4>1
        <4> QED BY <2>1, <4>2 DEF Requested
      <3> QED BY <2>2, <2>6, <3>1 DEF CallsMarked, SameButHistory
    <2>10. Typed
      BY <1>0, <1>1, <2>5 DEF Typed
    <2>11. /\ store'.selected = o.chat /\ store'.selection = store.selection
           /\ store'.opening = store.opening /\ store'.loadingChat = store.loadingChat
           /\ store'.loadingChats = store.loadingChats
      BY <2>2, <2>6 DEF SameButHistory
    <2>12. Top(o, run, store.selection) /\ Top(p, run, store.selection) /\ p.chat = o.chat
      BY <1>0, <1>3, <2>7 DEF Top, Chooses, IsCurrent, Current, Alike
    <2>13. PreferenceSound'
      <3>1. p \in ops'
        BY <2>1
      <3>2. WillWrite'
        BY <1>0, <2>7, <2>11, <2>12, <3>1 DEF WillWrite
      <3> QED BY <1>0, <3>2, OrderFacts DEF PreferenceSound
    <2> QED BY <1>0, <1>1, <2>8, <2>9, <2>10, <2>11, <2>12, <2>13, PassIInv DEF At
  <1>4. CASE ~IsCurrent(o)
    <2>1. ops' = ops \ {o} /\ store' = IF Current(o) THEN [listed EXCEPT !.opening = FALSE] ELSE store
      BY <1>4 DEF OpenCreate, Ends, Opened
    <2> HIDE DEF listed
    <2>2. CASE Current(o)
      BY <1>0, <1>1, <1>2, <1>4, <2>1, <2>2, OpenGivesUp
    <2>3. CASE ~Current(o)
      BY <1>0, <1>1, <2>1, <2>3, StaleEnds
    <2> QED BY <2>2, <2>3
  <1> QED BY <1>3, <1>4

\* All steps of an opening.
LEMMA OpenIInv ==
    ASSUME StoreIInv, NEW o \in ops, OpenStep(o)
    PROVE  StoreIInv'
  <1>1. CASE OpenHistory(o)
    <2>0. /\ o.kind = "open" /\ o.at = "history" /\ o.kind \in ChoiceKinds /\ ops' = ops \ {o}
          /\ UNCHANGED <<pref, unsettled, run, runs, scope, existing, cached>>
      BY <1>1 DEF OpenHistory, At, Ends, ChoiceKinds, backend, inbox, session
    <2>1. /\ o \in Pending /\ IsChoice(o) /\ o \in ChoiceOps /\ IsStore(store)
          /\ pref' \in Chats \cup {NoChat} /\ unsettled' \in BOOLEAN
          /\ existing \subseteq Chats /\ cached \subseteq Chats
      BY <2>0, ChoiceFacts, OpFacts
    <2>2. CASE IsCurrent(o)
      <3> DEFINE p == [o EXCEPT !.at = "write"]
      <3>1. queue' = Append(queue, p) /\ store' = store
        BY <1>1, <2>2 DEF OpenHistory
      <3>2. Turned(p, o, "write")
        BY <2>1, TurnedAt DEF Places
      <3> HIDE DEF p
      <3>3. /\ p \in ChoiceOps /\ Alike(p, o) /\ IsChoice(p) /\ InLine(p)
            /\ Writes(p) /\ Written(p) = o.chat /\ p.run = run
        <4>1. IsChoice(p)
          BY <2>1, <3>2, TurnedOp
        <4> QED BY <2>0, <2>2, <3>2, <4>1
              DEF Turned, Alike, InLine, Writes, Written, IsCurrent, Current
      <3>4. PassesTo(o, p, Nothing)
        BY <2>0, <3>1, <3>3, PassToQueue
      <3>5. Typed
        BY <2>0, <2>1, <3>1 DEF Typed
      <3>6. CallsMarked
        BY <2>0, <3>1, <3>4, SameCalls DEF PassesTo, Carries
      <3>7. Top(o, run, store.selection)
        BY <2>0, <2>2 DEF Top, Chooses, IsCurrent, Current
      <3>8. run # 0 => o.chat = store.selected
        BY <2>0, <2>1, <3>7 DEF StoreIInv, ChoicesSound, Chosen, Applied
      <3>9. PreferenceSound'
        <4>1. queue \in Seq(ChoiceOps) /\ (run # 0 => InOrder(queue, run)) /\ run' = run
          BY <2>0, QueueFacts, OrderFacts
        <4>2. CASE run # 0
          BY <3>1, <3>3, <3>8, <4>1, <4>2, PrefWritten
        <4>3. CASE run = 0
          BY <4>1, <4>3 DEF PreferenceSound
        <4> QED BY <4>2, <4>3
      <3>10. CASE run # 0
        BY <2>0, <2>1, <3>1, <3>3, <3>4, <3>5, <3>6, <3>7, <3>8, <3>9, <3>10, PassIInv DEF At, Alike
      <3>11. CASE run = 0
        BY <2>0, <2>1, <3>4, <3>5, <3>11, CarriesShapes, IdleStep DEF PassesTo
      <3> QED BY <3>10, <3>11
    <2>3. CASE ~IsCurrent(o)
      <3>1. queue' = queue /\ store' = IF Current(o) THEN [store EXCEPT !.opening = FALSE] ELSE store
        BY <1>1, <2>3 DEF OpenHistory, Opened
      <3>2. SameMarks(store, store)
        BY DEF SameMarks
      <3>3. CASE Current(o)
        BY <2>0, <2>1, <2>3, <3>1, <3>2, <3>3, OpenGivesUp
      <3>4. CASE ~Current(o)
        BY <2>0, <2>1, <3>1, <3>4, StaleEnds
      <3> QED BY <3>3, <3>4
    <2> QED BY <2>2, <2>3
  <1>2. CASE OpenFails(o)
    <2>0. /\ o.kind = "open" /\ o.at = "create" /\ o.kind \in ChoiceKinds /\ ops' = ops \ {o}
          /\ UNCHANGED <<queue, pref, unsettled, run, runs, scope, existing, cached>>
          /\ store' = IF Current(o) THEN [store EXCEPT !.opening = FALSE] ELSE store
      BY <1>2 DEF OpenFails, Opened, At, Ends, ChoiceKinds, backend, inbox, session, preference
    <2>1. /\ IsStore(store) /\ unsettled \in BOOLEAN
          /\ existing \subseteq Chats /\ cached \subseteq Chats
      BY <2>0, ChoiceFacts, OpFacts
    <2>2. SameMarks(store, store)
      BY DEF SameMarks
    <2>3. CASE Current(o)
      BY <2>0, <2>1, <2>2, <2>3, OpenGivesUp
    <2>4. CASE ~Current(o)
      BY <2>0, <2>1, <2>4, StaleEnds
    <2> QED BY <2>3, <2>4
  <1> QED BY <1>1, <1>2, OpenCreateIInv DEF OpenStep

----------------------------------------------------------------------------
(* The start of a lifecycle, and its list of chats *)

\* A restoration of this lifecycle joins the queue.
LEMMA AsksPreference ==
    ASSUME StoreIInv, NEW o \in ops, o.kind \in {"start", "chats"}, Current(o), ~At(o, "chats", "list"),
           NEW p, Turned(p, o, "restore"), ops' = ops \ {o}, queue' = Append(queue, p),
           Typed, SameMarks(store, store'), UNCHANGED <<pref, unsettled>>
    PROVE  StoreIInv'
  <1>0. /\ o.kind \in ChoiceKinds /\ IsChoice(o) /\ o \in Pending /\ run' = run
        /\ pref' \in Chats \cup {NoChat} /\ unsettled' \in BOOLEAN
    BY ChoiceFacts DEF ChoiceKinds, Typed
  <1>1. /\ p \in ChoiceOps /\ Alike(p, o) /\ IsChoice(p) /\ InLine(p) /\ ~Writes(p)
        /\ p.run = run /\ ~Applied(p)
    <2>1. IsChoice(p)
      BY <1>0, TurnedOp
    <2> QED BY <2>1 DEF Turned, Alike, InLine, Writes, Applied, Current
  <1>2. PassesTo(o, p, Nothing)
    BY <1>1, PassToQueue
  <1>3. SameSelection /\ store'.loadingChats = store.loadingChats
    BY DEF SameMarks, SameSelection
  <1>4. \A x \in ops : x = o \/ x \in ops'
    OBVIOUS
  <1>5. CallsMarked
    <2>1. o.kind # "history"
      OBVIOUS
    <2> QED BY <1>4, <2>1, SameCalls DEF SameMarks
  <1>6. PreferenceSound'
    <2>1. Restoring => Restoring'
      BY <1>2, <1>3, PassOwns DEF SameSelection
    <2>2. WillWrite => WillWrite'
      BY <1>0, <1>3, <1>4, WillWriteStays DEF SameSelection, At
    <2> QED BY <1>0, <1>1, <1>3, <2>1, <2>2, PrefAsked DEF SameSelection
  <1> QED BY <1>0, <1>1, <1>2, <1>3, <1>5, <1>6, PassIInv DEF SameSelection

\* The start reads the chats and asks for the preference.
LEMMA StartMetadataIInv ==
    ASSUME StoreIInv, NEW o \in ops, StartMetadata(o)
    PROVE  StoreIInv'
  <1> DEFINE m == Marked(store, o)
             v == IF cached = {} /\ store.selection = 0 THEN NoChat ELSE store.selected
             d == [m EXCEPT !.chats = @ \cup cached, !.discovered = @ \cup cached, !.selected = v]
  <1>0. /\ o.kind = "start" /\ o.at = "metadata" /\ o.kind \in ChoiceKinds
        /\ UNCHANGED <<pref, unsettled, run, runs, scope, existing, cached>>
    BY DEF StartMetadata, At, ChoiceKinds, backend, inbox
  <1>1. /\ o \in Pending /\ IsChoice(o) /\ o \in ChoiceOps /\ IsStore(store)
        /\ pref' \in Chats \cup {NoChat} /\ unsettled' \in BOOLEAN
        /\ existing \subseteq Chats /\ cached \subseteq Chats
    BY <1>0, ChoiceFacts, OpFacts
  <1>2. IsStore(m) /\ SameMarks(store, m)
    BY <1>1, MarkedMarks
  <1>3. store' = IF ~Current(o) THEN m ELSE d
    <2>1. m.selected = store.selected
      BY <1>2 DEF SameMarks
    <2> HIDE DEF m
    <2>2. Marked(store, o) = m
      BY DEF m
    <2> QED BY <2>1, <2>2 DEF StartMetadata
  <1> HIDE DEF m
  <1>4. /\ IsStore(d) /\ d.selected = v
        /\ v = store.selected => SameMarks(store, d)
        /\ d.loadingChat = store.loadingChat /\ d.opening = store.opening
        /\ d.loadingChats = store.loadingChats /\ d.loadingMailbox = store.loadingMailbox
        /\ d.searching = store.searching /\ d.results = store.results /\ d.sending = store.sending
        /\ d.selection = store.selection /\ d.searchRequest = store.searchRequest
        /\ d.loads = store.loads /\ d.reload = store.reload
        /\ d.history = store.history /\ d.requests = store.requests
    BY <1>1, <1>2 DEF IsStore, StoreFields, SameMarks
  <1>5. CASE Current(o) /\ cached # {}
    <2> DEFINE p == [o EXCEPT !.at = "restore", !.chats = cached]
    <2>1. ops' = ops \ {o} /\ queue' = Append(queue, p)
      BY <1>5 DEF StartMetadata, Ends
    <2>2. Turned(p, o, "restore")
      BY <1>1, TurnedWith DEF Places
    <2>3. Typed /\ SameMarks(store, store')
      BY <1>0, <1>1, <1>3, <1>4, <1>5 DEF Typed
    <2> HIDE DEF p
    <2> QED BY <1>0, <1>5, <2>1, <2>2, <2>3, AsksPreference DEF At
  <1>6. CASE ~(Current(o) /\ cached # {})
    <2> DEFINE p == [o EXCEPT !.at = "load"]
    <2>1. ops' = (ops \ {o}) \cup {p} /\ queue' = queue
      BY <1>6 DEF StartMetadata, Goes, Becomes
    <2>2. Turned(p, o, "load")
      BY <1>1, TurnedAt DEF Places
    <2> HIDE DEF p
    <2>3. Placed(p) /\ ~Applied(p) /\ ~At(o, "open", "history") /\ ~At(o, "chats", "list")
      BY <1>0, <2>2 DEF Turned, Alike, Placed, Applied, At
    <2>4. Typed
      BY <1>0, <1>1, <1>2, <1>3, <1>4 DEF Typed
    <2>5. CASE ~Current(o) \/ store.selection # 0
      <3>1. SameMarks(store, store')
        BY <1>2, <1>3, <1>4, <2>5
      <3> QED BY <1>0, <2>1, <2>2, <2>3, <2>4, <3>1, TurnsInOps
    <2>6. CASE Current(o) /\ store.selection = 0
      <3>1. store' = d /\ store'.selected = NoChat
        BY <1>3, <1>4, <1>6, <2>6
      <3>2. IsOp(p) /\ Alike(p, o)
        BY <1>1, <2>2, <2>3, TurnedOp DEF Turned
      <3>3. PassesTo(o, p, Nothing)
        <4>1. ops' = (ops \ {o}) \cup {p} \cup Nothing /\ \A x \in Nothing : IsOp(x) /\ x.kind \notin {"select", "open"}
          BY <2>1 DEF Nothing
        <4> QED BY <2>1, <3>2, <4>1, PassInOps
      <3>4. CallsMarked
        BY <1>0, <1>4, <3>1, <3>3, SameCalls DEF PassesTo, Carries
      <3>5. PreferenceSound'
        <4> SUFFICES ASSUME run # 0 PROVE PreferenceSound'
          BY <1>0 DEF PreferenceSound
        <4>1. Restoring'
          BY <1>0, <2>6, <3>2, <3>3 DEF Restoring, Current, PassesTo, Alike
        <4>2. WriteFree(queue, run) /\ InOrder(queue, run)
          BY <2>6, NothingWritten, OrderFacts
        <4> QED BY <1>0, <2>1, <3>1, <4>1, <4>2 DEF PreferenceSound
      <3> QED BY <1>0, <1>1, <1>4, <2>3, <2>4, <2>6, <3>1, <3>3, <3>4, <3>5, PassIInv
    <2> QED BY <2>5, <2>6
  <1> QED BY <1>5, <1>6

\* The start cannot read the chats.
LEMMA StartFailsIInv ==
    ASSUME StoreIInv, NEW o \in ops, StartFails(o)
    PROVE  StoreIInv'
  <1> DEFINE p == [o EXCEPT !.at = "load"]
  <1>0. /\ o.kind = "start" /\ o.kind \in ChoiceKinds /\ ops' = (ops \ {o}) \cup {p}
        /\ UNCHANGED <<store, queue, pref, unsettled, run, runs, scope, existing, cached>>
    BY DEF StartFails, At, Goes, Becomes, ChoiceKinds, backend, inbox, session, preference
  <1>1. IsChoice(o) /\ o \in ChoiceOps /\ existing \subseteq Chats /\ cached \subseteq Chats
    BY <1>0, ChoiceFacts, OpFacts
  <1>2. Turned(p, o, "load")
    BY <1>1, TurnedAt DEF Places
  <1> HIDE DEF p
  <1>3. Placed(p) /\ ~Applied(p) /\ ~At(o, "open", "history") /\ ~At(o, "chats", "list")
    BY <1>0, <1>2 DEF Turned, Alike, Placed, Applied, At
  <1>4. Typed /\ SameMarks(store, store')
    BY <1>0, <1>1, SameStore
  <1> QED BY <1>0, <1>2, <1>3, <1>4, TurnsInOps

\* start goes on with the list of chats and the mailbox.
LEMMA StartLoadIInv ==
    ASSUME StoreIInv, NEW o \in ops, StartLoad(o)
    PROVE  StoreIInv'
  <1> DEFINE y == [Op("chats", "list") EXCEPT !.n = store.selection]
             N == MailboxOps(store) \cup {y}
  <1>0. /\ o.kind = "start" /\ o.kind \in ChoiceKinds /\ Load(o, ops \ {o})
        /\ UNCHANGED <<queue, pref, unsettled, run, runs, scope, existing, cached>>
    BY DEF StartLoad, ChoiceKinds, backend, inbox, session, preference
  <1>1. /\ o \in Pending /\ IsStore(store)
        /\ pref' \in Chats \cup {NoChat} /\ unsettled' \in BOOLEAN
        /\ existing \subseteq Chats /\ cached \subseteq Chats
        /\ run \in Nat /\ runs \in Nat /\ run <= runs /\ scope \in Nat
    BY <1>0, ChoiceFacts, OpFacts DEF StoreIInv, Shapes
  <1>2. CASE ~Current(o)
    <2>1. ops' = ops \ {o} /\ store' = store
      BY <1>0, <1>2 DEF Load
    <2> QED BY <1>0, <1>1, <1>2, <2>1, StaleEnds
  <1>3. CASE Current(o)
    <2>1. store' = MailboxBegun(store) /\ ops' = (ops \ {o}) \cup N
      BY <1>0, <1>3 DEF Load
    <2>2. y \in ChoiceOps /\ y.kind = "chats" /\ y.at = "list" /\ y.run = run
      <3>1. "chats" \in ChoiceKinds /\ "list" \in Places /\ store.selection \in Nat
        BY <1>1 DEF ChoiceKinds, Places, IsStore
      <3>2. y \in ChoiceOps
        BY <1>1, <3>1 DEF Op, ChoiceOps
      <3> QED BY <3>2 DEF Op
    <2> HIDE DEF y
    <2>3. IsOp(y)
      <3>1. DOMAIN y = OpFields
        BY <2>2 DEF ChoiceOps, OpFields
      <3>2. run # 0
        BY <1>0, <1>3, ChoiceFacts DEF IsChoice, Current
      <3> QED BY <1>1, <2>2, <3>1, <3>2 DEF IsOp, IsChoice, Placed, At, ChoiceKinds
    <2>4. \A x \in N : IsOp(x) /\ x.kind \in {"mailbox", "chats"}
      BY <1>1, <2>2, <2>3, MailboxOp DEF MailboxOps
    <2>5. y \in ops' /\ (~store.loads => Op("mailbox", "sync") \in ops')
      BY <2>1 DEF MailboxOps
    <2> HIDE DEF N
    <2>6. Leaves(o, N)
      BY <1>0, <2>1, <2>4, LeaveOps
    <2>7. Typed /\ SameButMailbox(store, store') /\ store'.loads
      BY <1>0, <1>1, <2>1, MailboxForms DEF Typed
    <2>8. /\ Carries(o, N) /\ \A x \in ops : x = o \/ x \in ops'
      BY <2>6 DEF Leaves, Carries
    <2>9. Shapes'
      BY <1>1, <2>7, <2>8, CarriesShapes
    <2>10. ChoicesSound'
      BY <1>0, <1>1, <2>6, <2>7, LeaveSound DEF SameButMailbox
    <2>11. MarksOwned'
      <3> SUFFICES ASSUME run # 0 PROVE MarksOwned'
        BY <1>0 DEF MarksOwned
      <3>0. MarksOwned
        BY DEF StoreIInv
      <3>1. OpeningOwned' /\ SelectionOwned'
        BY <1>0, <2>6, <2>7, LeaveOwns DEF SameButMailbox
      <3>2. SearchOwned' /\ SendingOwned'
        BY <1>0, <2>7, <2>8, <3>0
           DEF MarksOwned, SearchOwned, SendingOwned, IsSearch, Current, SameButMailbox
      <3>3. HistoryOwned'
        BY <1>0, <2>7, <2>8, <3>0 DEF MarksOwned, HistoryOwned, Requested, SameButMailbox
      <3>4. ChatsOwned'
        BY <1>0, <2>2, <2>5 DEF ChatsOwned, Current, At
      <3>5. MailboxOwned'
        <4>1. \E p \in ops' : Current(p)' /\ p.kind = "mailbox"
          <5>1. CASE store.loads
            BY <5>1, <1>0, <2>8, <3>0 DEF MarksOwned, MailboxOwned, Current
          <5>2. CASE ~store.loads
            BY <5>2, <1>0, <1>1, <2>5, MailboxOp DEF Current
          <5> QED BY <5>1, <5>2
        <4> QED BY <2>7, <4>1 DEF MailboxOwned
      <3> QED BY <3>1, <3>2, <3>3, <3>4, <3>5 DEF MarksOwned
    <2>12. PreferenceSound'
      <3>1. Restoring'
        BY <1>0, <2>2, <2>5 DEF Restoring, Current, Pending
      <3>2. WillWrite => WillWrite'
        BY <1>0, <2>7, <2>8, WillWriteStays DEF SameButMailbox, At
      <3> QED BY <1>0, <2>7, <3>1, <3>2, PrefStays DEF SameButMailbox
    <2> QED BY <2>9, <2>10, <2>11, <2>12 DEF StoreIInv
  <1> QED BY <1>2, <1>3

\* All steps of a start.
LEMMA StartIInv ==
    ASSUME StoreIInv, NEW o \in ops, StartStep(o)
    PROVE  StoreIInv'
  BY StartMetadataIInv, StartFailsIInv, StartLoadIInv DEF StartStep

\* loadChats.
LEMMA ChatsListIInv ==
    ASSUME StoreIInv, NEW o \in ops, ChatsList(o)
    PROVE  StoreIInv'
  <1>0. /\ o.kind = "chats" /\ o.at = "list" /\ o.kind \in ChoiceKinds
        /\ UNCHANGED <<queue, pref, unsettled, run, runs, scope, existing, cached>>
    BY DEF ChatsList, At, ChoiceKinds, backend, inbox, session, preference
  <1>1. /\ o \in Pending /\ IsChoice(o) /\ o \in ChoiceOps /\ IsStore(store)
        /\ pref' \in Chats \cup {NoChat} /\ unsettled' \in BOOLEAN
        /\ existing \subseteq Chats /\ cached \subseteq Chats
    BY <1>0, ChoiceFacts, OpFacts
  <1>2. CASE ~Current(o)
    <2>1. ops' = ops \ {o} /\ store' = store
      BY <1>2 DEF ChatsList, Ends
    <2> QED BY <1>0, <1>1, <1>2, <2>1, StaleEnds
  <1>3. CASE Current(o)
    <2> DEFINE p == [o EXCEPT !.at = "cache", !.chats = existing]
               d == [store EXCEPT !.chats = @ \cup existing, !.loadingChats = FALSE]
    <2>1. ops' = (ops \ {o}) \cup {p} \cup Nothing /\ store' = d
      BY <1>3 DEF ChatsList, Becomes, Nothing
    <2>2. Turned(p, o, "cache")
      BY <1>1, TurnedWith DEF Places
    <2> HIDE DEF p
    <2>3. IsOp(p) /\ Alike(p, o) /\ ~Applied(p)
      <3>1. Placed(p)
        BY <1>0, <2>2 DEF Turned, Alike, Placed
      <3> QED BY <1>0, <1>1, <2>2, <3>1, TurnedOp DEF Turned, Alike, Applied
    <2>4. PassesTo(o, p, Nothing)
      <3>1. \A x \in Nothing : IsOp(x) /\ x.kind \notin {"select", "open"}
        BY DEF Nothing
      <3> QED BY <1>0, <2>1, <2>3, <3>1, PassInOps
    <2>5. /\ IsStore(store') /\ ~store'.loadingChats
          /\ store'.selected = store.selected /\ store'.loadingChat = store.loadingChat
          /\ store'.opening = store.opening /\ store'.loadingMailbox = store.loadingMailbox
          /\ store'.searching = store.searching /\ store'.results = store.results
          /\ store'.sending = store.sending /\ store'.selection = store.selection
          /\ store'.searchRequest = store.searchRequest
          /\ store'.loads = store.loads /\ store'.reload = store.reload
          /\ store'.history = store.history /\ store'.requests = store.requests
      BY <1>1, <2>1 DEF IsStore, StoreFields
    <2> HIDE DEF d
    <2>6. Typed
      BY <1>0, <1>1, <2>5 DEF Typed
    <2>7. CallsMarked
      BY <1>0, <2>4, <2>5, SameCalls DEF PassesTo, Carries
    <2>8. PreferenceSound'
      <3>1. Restoring => Restoring'
        BY <2>4, <2>5, <2>6, PassOwns
      <3>2. WillWrite => WillWrite'
        BY <1>0, <2>4, <2>5, WillWriteStays DEF PassesTo, Carries, At
      <3> QED BY <1>0, <2>5, <3>1, <3>2, PrefStays
    <2> QED BY <1>0, <1>1, <2>3, <2>4, <2>5, <2>6, <2>7, <2>8, PassIInv
  <1> QED BY <1>2, <1>3

\* loadChats ends without restore.
LEMMA ChatsEnd ==
    ASSUME StoreIInv, NEW o \in ops, o.kind = "chats", Current(o), ops' = ops \ {o}, Forgone(o),
           UNCHANGED <<queue, pref, run, runs, scope, existing>>, cached' \subseteq Chats,
           IsStore(store'), store'.loadingChats => store.loadingChats /\ ~At(o, "chats", "list"),
           store'.selected = store.selected, store'.loadingChat = store.loadingChat,
           store'.opening = store.opening, store'.loadingMailbox = store.loadingMailbox,
           store'.searching = store.searching, store'.results = store.results,
           store'.sending = store.sending, store'.selection = store.selection,
           store'.searchRequest = store.searchRequest,
           store'.loads = store.loads, store'.reload = store.reload,
           store'.history = store.history, store'.requests = store.requests
    PROVE  StoreIInv'
  <1>0. /\ o.kind \in ChoiceKinds /\ o \in Pending /\ existing \subseteq Chats
        /\ pref' \in Chats \cup {NoChat} /\ unsettled' \in BOOLEAN
        /\ unsettled => unsettled'
        /\ store.selected = NoChat => unsettled'
    BY ChoiceFacts, OpFacts DEF ChoiceKinds, Forgone
  <1>1. Typed
    BY <1>0 DEF Typed
  <1>2. ops' = (ops \ {o}) \cup Nothing /\ \A x \in Nothing : IsOp(x) /\ x.kind \notin {"select", "open"}
    BY DEF Nothing
  <1>3. Leaves(o, Nothing)
    BY <1>2, LeaveOps
  <1>4. /\ \A x \in ops : x = o \/ x \in ops'
        /\ \A x \in Pending : x = o \/ x \in Pending'
    BY <1>3 DEF Leaves, Carries
  <1>5. CallsMarked
    BY <1>4, SameCalls
  <1>6. (Starting => Starting') /\ (WillWrite => WillWrite')
    BY <1>4, StartingStays, WillWriteStays DEF At
  <1>7. PreferenceSound'
    BY <1>0, <1>6, PrefStays
  <1> QED BY <1>0, <1>1, <1>3, <1>5, <1>6, <1>7, LeaveIInv

\* All steps of loadChats.
LEMMA ChatsIInvStep ==
    ASSUME StoreIInv, NEW o \in ops, ChatsStep(o)
    PROVE  StoreIInv'
  <1>1. CASE ChatsCache(o)
    <2>0. /\ o.kind = "chats" /\ o.at = "cache" /\ o.kind \in ChoiceKinds /\ ops' = ops \ {o}
          /\ cached' = cached \cup o.chats
          /\ UNCHANGED <<store, pref, run, runs, scope, existing>>
      BY <1>1 DEF ChatsCache, At, Ends, ChoiceKinds, backend, session
    <2>1. /\ o \in Pending /\ IsChoice(o) /\ o \in ChoiceOps /\ IsStore(store)
          /\ unsettled \in BOOLEAN /\ existing \subseteq Chats /\ cached' \subseteq Chats
      BY <2>0, ChoiceFacts, OpFacts DEF ChoiceOps
    <2>2. CASE IsCurrent(o)
      <3> DEFINE p == [o EXCEPT !.at = "restore"]
      <3>1. queue' = Append(queue, p) /\ unsettled' = unsettled
        BY <1>1, <2>2 DEF ChatsCache
      <3>2. Turned(p, o, "restore")
        BY <2>1, TurnedAt DEF Places
      <3> HIDE DEF p
      <3>3. Typed /\ SameMarks(store, store')
        BY <2>0, <2>1, SameStore
      <3> QED BY <2>0, <2>2, <3>1, <3>2, <3>3, AsksPreference DEF IsCurrent, At
    <2>3. CASE ~IsCurrent(o)
      <3>1. queue' = queue /\ Forgone(o)
        BY <1>1, <2>3 DEF ChatsCache
      <3>2. CASE Current(o)
        BY <2>0, <2>1, <3>1, <3>2, ChatsEnd DEF At
      <3>3. CASE ~Current(o)
        BY <2>0, <2>1, <3>1, <3>3, StaleEnds DEF Forgone
      <3> QED BY <3>2, <3>3
    <2> QED BY <2>2, <2>3
  <1>2. CASE ChatsFail(o)
    <2>0. /\ o.kind = "chats" /\ o.kind \in ChoiceKinds /\ ops' = ops \ {o} /\ Forgone(o)
          /\ UNCHANGED <<queue, pref, run, runs, scope, existing, cached>>
          /\ store' = IF Current(o) THEN [store EXCEPT !.loadingChats = FALSE] ELSE store
      BY <1>2 DEF ChatsFail, Ends, ChoiceKinds, backend, inbox, session
    <2>1. /\ IsStore(store) /\ unsettled \in BOOLEAN /\ existing \subseteq Chats /\ cached \subseteq Chats
      BY <2>0, ChoiceFacts, OpFacts
    <2>2. CASE Current(o)
      <3>1. /\ IsStore(store') /\ ~store'.loadingChats
            /\ store'.selected = store.selected /\ store'.loadingChat = store.loadingChat
            /\ store'.opening = store.opening /\ store'.loadingMailbox = store.loadingMailbox
            /\ store'.searching = store.searching /\ store'.results = store.results
            /\ store'.sending = store.sending /\ store'.selection = store.selection
            /\ store'.searchRequest = store.searchRequest
            /\ store'.loads = store.loads /\ store'.reload = store.reload
            /\ store'.history = store.history /\ store'.requests = store.requests
        BY <2>0, <2>1, <2>2 DEF IsStore, StoreFields
      <3> QED BY <2>0, <2>1, <2>2, <3>1, ChatsEnd
    <2>3. CASE ~Current(o)
      BY <2>0, <2>1, <2>3, StaleEnds DEF Forgone
    <2> QED BY <2>2, <2>3
  <1> QED BY <1>1, <1>2, ChatsListIInv DEF ChatsStep

----------------------------------------------------------------------------
(* The first operation of the queue *)

\* The facts about it.
LEMMA HeadFacts ==
    ASSUME StoreIInv, queue # <<>>
    PROVE  LET o == Head(queue)
           IN /\ IsChoice(o) /\ InLine(o) /\ o \in ChoiceOps /\ o \in Pending /\ o.kind \in ChoiceKinds
              /\ IsStore(store) /\ existing \subseteq Chats /\ cached \subseteq Chats
              /\ pref \in Chats \cup {NoChat} /\ unsettled \in BOOLEAN
              /\ run \in Nat /\ runs \in Nat /\ run <= runs /\ scope \in Nat
              /\ o.kind \in {"select", "open"} => o.chat \in Chats
  <1> DEFINE o == Head(queue)
  <1>1. o \in Items(queue)
    BY QueueFacts, TailFacts
  <1> HIDE DEF o
  <1>2. IsChoice(o) /\ InLine(o) /\ o \in ChoiceOps /\ o \in Pending
    BY <1>1, QueueFacts DEF Pending
  <1>3. o.kind \in ChoiceKinds /\ (o.kind \in {"select", "open"} => o.chat \in Chats)
    BY <1>2 DEF ChoiceOps, IsChoice
  <1> QED BY <1>2, <1>3 DEF o, StoreIInv, Shapes

\* The first operation goes on in ops; the store stays.
LEMMA HeadGoesOn ==
    ASSUME StoreIInv, queue # <<>>, NEW o, o = Head(queue), NEW a, NEW p, Turned(p, o, a), Placed(p),
           Applied(p) => Applied(o) \/ ~IsCurrent(o),
           ops' = ops \cup {p}, queue' = Tail(queue), Typed, SameMarks(store, store'),
           pref' \in Chats \cup {NoChat}, unsettled' \in BOOLEAN, PreferenceSound'
    PROVE  StoreIInv'
  <1>0. IsChoice(o) /\ InLine(o) /\ o \in ChoiceOps /\ o \in Pending /\ o.kind \in ChoiceKinds
    BY HeadFacts
  <1>1. IsOp(p) /\ Alike(p, o) /\ p \in ChoiceOps
    BY <1>0, TurnedOp DEF Turned
  <1>2. PassesTo(o, p, Nothing)
    <2>1. ops' = ops \cup {p} \cup Nothing /\ \A x \in Nothing : IsOp(x) /\ x.kind \notin {"select", "open"}
      BY DEF Nothing
    <2> QED BY <1>1, <2>1, PassFromQueue
  <1>3. SameSelection /\ store'.loadingChats = store.loadingChats
    BY DEF SameMarks, SameSelection
  <1>4. CallsMarked
    <2>1. o.kind # "history" /\ \A x \in ops : x = o \/ x \in ops'
      BY <1>0 DEF ChoiceKinds
    <2> QED BY <2>1, SameCalls DEF SameMarks
  <1>5. ~At(o, "chats", "list")
    BY <1>0 DEF InLine, At
  <1>6. CASE run = 0
    <2>1. Shapes'
      BY <1>2, CarriesShapes DEF PassesTo
    <2> QED BY <1>6, <2>1, IdleStep DEF Typed
  <1>7. CASE run # 0
    <2>1. Top(p, run, store.selection) /\ Applied(p) => p.chat = store'.selected
      BY <1>0, <1>1, <1>3, <1>7
         DEF StoreIInv, ChoicesSound, Chosen, Top, Chooses, Alike, SameSelection, IsCurrent, Current
    <2> QED BY <1>0, <1>2, <1>3, <1>4, <1>5, <2>1, PassIInv DEF SameSelection
  <1> QED BY <1>6, <1>7

\* What waits beside the first operation stays.
LEMMA HeadPasses ==
    ASSUME StoreIInv, queue # <<>>, run' = run, store'.selection = store.selection,
           \A x \in ops : x \in ops', queue' = Tail(queue)
    PROVE  /\ WillWrite => WillWrite'
           /\ \A x \in Pending : x = Head(queue) \/ x \in Pending'
  <1>1. WillWrite => WillWrite'
    BY DEF WillWrite
  <1>2. Items(queue) = Items(queue') \cup {Head(queue)}
    BY QueueFacts, TailFacts
  <1> QED BY <1>1, <1>2 DEF Pending

\* The preference after a write that was done.
LEMMA WriteSettles ==
    ASSUME StoreIInv, queue # <<>>, NEW o, o = Head(queue), run' = run, queue' = Tail(queue),
           Writes(o), pref' = Written(o), Settling(o),
           store'.selected = store.selected, store'.selection = store.selection,
           \A x \in ops : x \in ops'
    PROVE  PreferenceSound'
  <1>1. WillWrite => WillWrite'
    BY HeadPasses
  <1>2. o.kind \in {"select", "open"}
    BY HeadFacts DEF InLine, Writes
  <1>3. Restoring => Restoring'
    BY <1>2, HeadPasses, RestoringStays
  <1>4. unsettled => unsettled' \/ (Writes(o) /\ o.run = run)
    BY DEF Settling, IsCurrent, Current
  <1> QED BY <1>1, <1>3, <1>4, PrefDequeued

\* An opening ends with its write, done or not.
LEMMA OpenWritten ==
    ASSUME StoreIInv, queue # <<>>, NEW o, o = Head(queue), o.kind = "open",
           queue' = Tail(queue), ops' = ops, store' = Opened(o, store),
           UNCHANGED <<run, runs, scope, existing, cached>>,
           pref' \in Chats \cup {NoChat}, unsettled' \in BOOLEAN, PreferenceSound'
    PROVE  StoreIInv'
  <1>0. /\ o \in Pending /\ o.kind \in ChoiceKinds /\ IsStore(store) /\ InLine(o)
        /\ existing \subseteq Chats /\ cached \subseteq Chats
    BY HeadFacts
  <1>1. /\ IsStore(store') /\ store'.selected = store.selected /\ store'.selection = store.selection
        /\ store'.opening = (IF Current(o) THEN FALSE ELSE store.opening)
        /\ store'.loadingChats = store.loadingChats
        /\ store'.loadingChat = store.loadingChat
        /\ store'.sending = store.sending /\ store'.loadingMailbox = store.loadingMailbox
        /\ store'.loads = store.loads /\ store'.reload = store.reload
        /\ store'.searching = store.searching /\ store'.results = store.results
        /\ store'.searchRequest = store.searchRequest
        /\ store'.history = store.history /\ store'.requests = store.requests
    BY <1>0 DEF Opened, IsStore, StoreFields
  <1>2. Typed
    BY <1>0, <1>1 DEF Typed
  <1>3. Leaves(o, Nothing)
    BY LeaveQueue
  <1>4. CallsMarked
    BY <1>1, SameCalls
  <1>5. Starting => Starting'
    BY <1>3, StartingStays DEF Leaves, Carries
  <1> QED BY <1>0, <1>1, <1>2, <1>3, <1>4, <1>5, LeaveIInv DEF At

\* The preference of a choice is written.
LEMMA WriteIInv ==
    ASSUME StoreIInv, queue # <<>>, NEW o, o = Head(queue), Write(o),
           UNCHANGED <<run, runs, scope, existing, cached>>
    PROVE  StoreIInv'
  <1>0. /\ o \in Pending /\ o.kind \in ChoiceKinds /\ IsStore(store) /\ InLine(o) /\ o \in ChoiceOps
        /\ existing \subseteq Chats /\ cached \subseteq Chats /\ unsettled \in BOOLEAN
        /\ o.kind \in {"select", "open"} => o.chat \in Chats
    BY HeadFacts
  <1>1. /\ o.at = "write" /\ o.kind \in {"select", "open"} /\ Writes(o) /\ Written(o) = o.chat
        /\ pref' = o.chat /\ queue' = Tail(queue) /\ Settling(o)
    BY <1>0 DEF Write, InLine, Writes, Written
  <1>2. pref' \in Chats \cup {NoChat} /\ unsettled' \in BOOLEAN
    BY <1>0, <1>1 DEF Settling
  <1>3. CASE o.kind = "open"
    <2>1. store' = Opened(o, store) /\ ops' = ops
      BY <1>3 DEF Write
    <2>2. store'.selected = store.selected /\ store'.selection = store.selection
      BY <1>0, <2>1 DEF Opened, IsStore, StoreFields
    <2>3. PreferenceSound'
      BY <1>1, <2>1, <2>2, WriteSettles
    <2> QED BY <1>1, <1>2, <1>3, <2>1, <2>3, OpenWritten
  <1>4. CASE o.kind = "select"
    <2> DEFINE a == IF IsCurrent(o) THEN "get" ELSE "history"
               p == [o EXCEPT !.at = a]
    <2>1. store' = store /\ ops' = ops \cup {p}
      BY <1>4 DEF Write
    <2>2. a \in Places
      BY DEF Places
    <2>3. Placed(p) /\ Turned(p, o, a)
      <3> HIDE DEF a
      <3>1. Turned(p, o, a)
        BY <1>0, <2>2, TurnedAt
      <3> HIDE DEF p
      <3>2. a \in {"get", "history"}
        BY DEF a
      <3> QED BY <1>4, <3>1, <3>2 DEF Turned, Alike, Placed
    <2> HIDE DEF p, a
    <2>4. PreferenceSound'
      BY <1>1, <2>1, WriteSettles
    <2>5. Applied(o)
      BY <1>1, <1>4 DEF Applied
    <2>6. Typed /\ SameMarks(store, store')
      BY <1>0, <2>1, SameStore
    <2> QED BY <1>1, <1>2, <2>1, <2>3, <2>4, <2>5, <2>6, HeadGoesOn
  <1> QED BY <1>1, <1>3, <1>4

\* The preference of a choice that was taken back is cleared.
LEMMA ClearIInv ==
    ASSUME StoreIInv, queue # <<>>, NEW o, o = Head(queue), Clear(o),
           UNCHANGED <<run, runs, scope, existing, cached>>
    PROVE  StoreIInv'
  <1> DEFINE p == [o EXCEPT !.at = "history"]
  <1>0. /\ o \in Pending /\ o.kind \in ChoiceKinds /\ IsStore(store) /\ InLine(o) /\ o \in ChoiceOps
        /\ existing \subseteq Chats /\ cached \subseteq Chats /\ unsettled \in BOOLEAN
    BY HeadFacts
  <1>1. /\ o.at = "clear" /\ o.kind = "select" /\ Writes(o) /\ Written(o) = NoChat
        /\ pref' = NoChat /\ queue' = Tail(queue) /\ Settling(o)
        /\ ops' = ops \cup {p} /\ store' = store
    BY <1>0 DEF Clear, GoesOn, InLine, Writes, Written
  <1>2. pref' \in Chats \cup {NoChat} /\ unsettled' \in BOOLEAN
    BY <1>0, <1>1 DEF Settling
  <1>3. Turned(p, o, "history")
    BY <1>0, TurnedAt DEF Places
  <1> HIDE DEF p
  <1>4. Placed(p) /\ ~Applied(p)
    BY <1>1, <1>3 DEF Turned, Alike, Placed, Applied
  <1>5. PreferenceSound'
    BY <1>1, WriteSettles
  <1>6. Typed /\ SameMarks(store, store')
    BY <1>0, <1>1, SameStore
  <1> QED BY <1>1, <1>2, <1>3, <1>4, <1>5, <1>6, HeadGoesOn

\* Storage fails: what is left of the queue may still write.
LEMMA FailsUnsettled ==
    ASSUME StoreIInv, queue # <<>>, run' = run, queue' = Tail(queue), pref' = pref, unsettled',
           store'.selected = store.selected, WillWrite => WillWrite'
    PROVE  PreferenceSound'
  <1> SUFFICES ASSUME run # 0 PROVE PreferenceSound'
    BY DEF PreferenceSound
  <1> DEFINE a == Tail(queue)
  <1>0. queue \in Seq(ChoiceOps) /\ InOrder(a, run)
    BY QueueFacts, OrderFacts
  <1>1. CASE WriteFree(queue, run)
    <2>1. WriteFree(a, run)
      BY <1>0, <1>1, WriteFreeTail
    <2> QED BY <1>0, <2>1 DEF PreferenceSound
  <1>2. CASE WillWrite
    BY <1>0, <1>2 DEF PreferenceSound
  <1>3. CASE Fits(queue, pref, store.selected)
    <2>1. Fits(a, NoChat, store.selected)
      BY <1>0, <1>3, FitsTail
    <2> HIDE DEF a
    <2>2. Fits(a, pref, store.selected) \/ WriteFree(a, run)
      BY <2>1 DEF Fits, WriteFree
    <2>3. queue' = a
      BY DEF a
    <2> QED BY <1>0, <2>2, <2>3 DEF PreferenceSound
  <1> QED BY <1>1, <1>2, <1>3 DEF StoreIInv, PreferenceSound

\* A restoration of loadChats ends.
LEMMA RestoreEnds ==
    ASSUME StoreIInv, queue # <<>>, NEW o, o = Head(queue), o.kind = "chats",
           queue' = Tail(queue), UNCHANGED <<ops, store, run, runs, scope, existing, cached>>,
           pref' \in Chats \cup {NoChat}, unsettled' \in BOOLEAN, PreferenceSound'
    PROVE  StoreIInv'
  <1>0. /\ o \in Pending /\ o.kind \in ChoiceKinds /\ IsStore(store) /\ InLine(o)
        /\ existing \subseteq Chats /\ cached \subseteq Chats
    BY HeadFacts
  <1>2. Typed
    BY <1>0 DEF Typed
  <1>3. Leaves(o, Nothing)
    BY LeaveQueue
  <1>4. CallsMarked
    BY SameCalls
  <1>5. Starting => Starting'
    BY <1>3, StartingStays DEF Leaves, Carries
  <1>6. ~At(o, "chats", "list")
    BY <1>0 DEF InLine, At
  <1> QED BY <1>0, <1>2, <1>3, <1>4, <1>5, <1>6, LeaveIInv

\* A call of the preference fails.
LEMMA PreferenceFailsIInv ==
    ASSUME StoreIInv, queue # <<>>, NEW o, o = Head(queue), PreferenceFails(o),
           UNCHANGED <<run, runs, scope, existing, cached>>
    PROVE  StoreIInv'
  <1>0. /\ o \in Pending /\ o.kind \in ChoiceKinds /\ IsStore(store) /\ InLine(o) /\ o \in ChoiceOps
        /\ existing \subseteq Chats /\ cached \subseteq Chats /\ IsChoice(o)
        /\ pref' \in Chats \cup {NoChat} /\ unsettled' \in BOOLEAN /\ unsettled' /\ pref' = pref
    BY HeadFacts DEF PreferenceFails
  <1>1. \/ At(o, "select", "write") /\ Deselect(o, ops, Tail(queue))
        \/ o.kind = "select" /\ GoesOn(o, "history") /\ UNCHANGED store
        \/ o.kind = "open" /\ queue' = Tail(queue) /\ store' = Opened(o, store) /\ UNCHANGED ops
        \/ o.kind = "start" /\ GoesOn(o, "load") /\ UNCHANGED store
        \/ o.kind = "chats" /\ queue' = Tail(queue) /\ UNCHANGED <<ops, store>>
    <2>1. CASE At(o, "select", "write")
      BY <2>1 DEF PreferenceFails, At
    <2>2. CASE o.kind = "select" /\ o.at = "clear"
      BY <2>2 DEF PreferenceFails, At
    <2>3. CASE o.kind = "open" /\ o.at = "write"
      BY <2>3 DEF PreferenceFails, At
    <2>4. CASE o.kind = "start" /\ o.at = "restore"
      BY <2>4 DEF PreferenceFails, At
    <2>5. CASE o.kind = "chats" /\ o.at = "restore"
      BY <2>5 DEF PreferenceFails, At
    <2> QED BY <1>0, <2>1, <2>2, <2>3, <2>4, <2>5 DEF InLine, At
  <1>2. ASSUME NEW w, w \in {"history", "load"}, GoesOn(o, w), store' = store,
               <<o.kind, w>> \in {<<"select", "history">>, <<"start", "load">>}
        PROVE  StoreIInv'
    <2> DEFINE p == [o EXCEPT !.at = w]
    <2>1. ops' = ops \cup {p} /\ queue' = Tail(queue)
      BY <1>2 DEF GoesOn
    <2>2. Turned(p, o, w)
      <3>1. w \in Places
        BY <1>2 DEF Places
      <3> QED BY <1>0, <3>1, TurnedAt
    <2> HIDE DEF p
    <2>3. Placed(p) /\ ~Applied(p)
      BY <1>2, <2>2 DEF Turned, Alike, Placed, Applied
    <2>4. Typed /\ SameMarks(store, store')
      BY <1>0, <1>2, SameStore
    <2>5. PreferenceSound'
      BY <1>0, <1>2, <2>1, HeadPasses, FailsUnsettled
    <2> QED BY <1>0, <2>1, <2>2, <2>3, <2>4, <2>5, HeadGoesOn
  <1>3. CASE At(o, "select", "write") /\ Deselect(o, ops, Tail(queue)) /\ ~IsCurrent(o)
    <2>1. GoesOn(o, "history") /\ store' = store /\ o.kind = "select"
      BY <1>3 DEF Deselect, GoesOn, At
    <2> QED BY <1>2, <2>1
  <1>4. CASE At(o, "select", "write") /\ Deselect(o, ops, Tail(queue)) /\ IsCurrent(o)
    <2> DEFINE p == [o EXCEPT !.at = "clear"]
    <2>1. /\ ops' = ops /\ queue' = Append(Tail(queue), p) /\ o.kind = "select" /\ o.at = "write"
          /\ store' = [store EXCEPT !.selected = NoChat]
      BY <1>4 DEF Deselect, At
    <2>2. Turned(p, o, "clear")
      BY <1>0, TurnedAt DEF Places
    <2> HIDE DEF p
    <2>3. /\ p \in ChoiceOps /\ Alike(p, o) /\ IsChoice(p) /\ InLine(p) /\ ~Applied(p)
          /\ Writes(p) /\ Written(p) = NoChat /\ p.run = run
      <3>1. IsChoice(p)
        BY <1>0, <2>2, TurnedOp
      <3> QED BY <1>4, <2>1, <2>2, <3>1
            DEF Turned, Alike, InLine, Applied, Writes, Written, IsCurrent, Current
    <2>4. PassesTo(o, p, Nothing)
      BY <2>1, <2>3, PassInQueue
    <2>5. /\ IsStore(store') /\ store'.selected = NoChat /\ store'.selection = store.selection
          /\ store'.opening = store.opening /\ store'.loadingChats = store.loadingChats
          /\ store'.loadingChat = store.loadingChat
          /\ store'.sending = store.sending /\ store'.loadingMailbox = store.loadingMailbox
          /\ store'.loads = store.loads /\ store'.reload = store.reload
          /\ store'.searching = store.searching /\ store'.results = store.results
          /\ store'.searchRequest = store.searchRequest
          /\ store'.history = store.history /\ store'.requests = store.requests
      BY <1>0, <2>1 DEF IsStore, StoreFields
    <2>6. Typed
      BY <1>0, <2>5 DEF Typed
    <2>7. CallsMarked
      BY <2>1, <2>4, <2>5, SameCalls DEF PassesTo, Carries
    <2>8. PreferenceSound'
      BY <2>1, <2>3, OrderFacts, PrefWritten
    <2>9. Top(o, run, store.selection)
      BY <1>4, <2>1 DEF Top, Chooses, IsCurrent, Current
    <2> QED BY <1>0, <2>1, <2>3, <2>4, <2>5, <2>6, <2>7, <2>8, <2>9, PassIInv DEF At
  <1>5. CASE o.kind = "open" /\ queue' = Tail(queue) /\ store' = Opened(o, store) /\ UNCHANGED ops
    <2>1. store'.selected = store.selected /\ store'.selection = store.selection
      BY <1>0, <1>5 DEF Opened, IsStore, StoreFields
    <2>2. PreferenceSound'
      BY <1>0, <1>5, <2>1, HeadPasses, FailsUnsettled
    <2> QED BY <1>0, <1>5, <2>2, OpenWritten
  <1>6. CASE o.kind = "chats" /\ queue' = Tail(queue) /\ UNCHANGED <<ops, store>>
    <2>1. PreferenceSound'
      BY <1>0, <1>6, HeadPasses, FailsUnsettled
    <2> QED BY <1>0, <1>6, <2>1, RestoreEnds
  <1>7. CASE o.kind = "select" /\ GoesOn(o, "history") /\ UNCHANGED store
    BY <1>2, <1>7
  <1>8. CASE o.kind = "start" /\ GoesOn(o, "load") /\ UNCHANGED store
    BY <1>2, <1>8
  <1> QED BY <1>1, <1>3, <1>4, <1>5, <1>6, <1>7, <1>8

\* The restoration of a start: nothing to restore, or a choice has overtaken it.
LEMMA RestoreSkips ==
    ASSUME StoreIInv, queue # <<>>, NEW o, o = Head(queue), o.kind = "start", ~Writes(o),
           queue' = Tail(queue), ops' = ops \cup {[o EXCEPT !.at = "load"]}, store' = store,
           ~Current(o) \/ store.selection # 0, pref' = pref \/ pref' = NoChat,
           UNCHANGED <<run, runs, scope, existing, cached, unsettled>>
    PROVE  StoreIInv'
  <1> DEFINE p == [o EXCEPT !.at = "load"]
  <1>0. /\ o \in ChoiceOps /\ IsChoice(o) /\ existing \subseteq Chats /\ cached \subseteq Chats
        /\ pref' \in Chats \cup {NoChat} /\ unsettled' \in BOOLEAN
    BY HeadFacts
  <1>1. Turned(p, o, "load")
    BY <1>0, TurnedAt DEF Places
  <1>2. p \in ops' /\ \A x \in ops : x \in ops'
    OBVIOUS
  <1>3. ops' = ops \cup {p}
    OBVIOUS
  <1> HIDE DEF p
  <1>4. Placed(p) /\ ~Applied(p) /\ p.run = o.run /\ p.kind = "start"
    BY <1>1 DEF Turned, Alike, Placed, Applied
  <1>5. Typed /\ SameMarks(store, store')
    BY <1>0, SameStore
  <1>6. PreferenceSound'
    <2>1. (WillWrite => WillWrite') /\ \A x \in Pending : x = o \/ x \in Pending'
      BY <1>2, HeadPasses
    <2>2. Restoring => Restoring'
      BY <1>2, <1>4, <2>1 DEF Restoring, Current, Pending
    <2> QED BY <2>1, <2>2, PrefDequeued
  <1> QED BY <1>0, <1>1, <1>3, <1>4, <1>5, <1>6, HeadGoesOn

\* It has the first word: the chat that was found is selected, or none.
LEMMA RestoreSelects ==
    ASSUME StoreIInv, queue # <<>>, NEW o, o = Head(queue), o.kind = "start", o.at = "restore",
           Current(o), store.selection = 0, NEW c \in Chats \cup {NoChat}, Restored(o, c), pref' = c,
           UNCHANGED <<run, runs, scope, existing, cached, unsettled>>
    PROVE  StoreIInv'
  <1> DEFINE chosen == [store EXCEPT !.selected = c]
             r == retainHistory(chosen, c)
  <1>0. /\ o \in ChoiceOps /\ IsChoice(o) /\ o \in Pending /\ o.kind \in ChoiceKinds
        /\ existing \subseteq Chats /\ cached \subseteq Chats /\ IsStore(store)
        /\ pref' \in Chats \cup {NoChat} /\ unsettled' \in BOOLEAN
        /\ run \in Nat /\ runs \in Nat /\ run <= runs /\ queue' = Tail(queue)
    BY HeadFacts DEF Restored
  <1>1. run # 0 /\ WriteFree(queue, run)
    BY <1>0, NothingWritten DEF IsChoice, Current
  <1>2. /\ IsStore(chosen) /\ chosen.selection = store.selection /\ chosen.selected = c
        /\ chosen.loadingChat = store.loadingChat
        /\ chosen.opening = store.opening /\ chosen.loadingChats = store.loadingChats
        /\ chosen.sending = store.sending /\ chosen.loadingMailbox = store.loadingMailbox
        /\ chosen.loads = store.loads /\ chosen.reload = store.reload
        /\ chosen.searching = store.searching /\ chosen.results = store.results
        /\ chosen.searchRequest = store.searchRequest
        /\ chosen.history = store.history /\ chosen.requests = store.requests
    BY <1>0 DEF IsStore, StoreFields
  <1>3. queue \in Seq(ChoiceOps) /\ InOrder(queue, run) /\ InOrder(Tail(queue), run)
    BY <1>1, QueueFacts, OrderFacts
  <1>4. CASE c = NoChat
    <2> DEFINE p == [o EXCEPT !.at = "load"]
    <2>1. store' = chosen /\ ops' = ops \cup {p} \cup Nothing
      BY <1>4 DEF Restored, Nothing
    <2>2. Turned(p, o, "load")
      BY <1>0, TurnedAt DEF Places
    <2> HIDE DEF p, chosen
    <2>3. IsOp(p) /\ Alike(p, o) /\ p \in ChoiceOps /\ ~Applied(p)
      <3>1. Placed(p) /\ ~Applied(p)
        BY <2>2 DEF Turned, Alike, Placed, Applied
      <3> QED BY <1>0, <2>2, <3>1, TurnedOp DEF Turned
    <2>4. PassesTo(o, p, Nothing)
      <3>1. \A x \in Nothing : IsOp(x) /\ x.kind \notin {"select", "open"}
        BY DEF Nothing
      <3> QED BY <1>0, <2>1, <2>3, <3>1, PassFromQueue
    <2>5. CallsMarked
      BY <1>2, <2>1, <2>4, SameCalls DEF PassesTo, Carries
    <2>6. Typed
      BY <1>0, <1>2, <2>1 DEF Typed
    <2>7. PreferenceSound'
      <3>1. Restoring'
        BY <2>3, <2>4 DEF Restoring, Current, PassesTo, Alike
      <3>2. WriteFree(queue', run)
        BY <1>0, <1>1, <1>3, WriteFreeTail
      <3> QED BY <1>0, <1>2, <1>3, <1>4, <2>1, <3>1, <3>2 DEF PreferenceSound
    <2> QED BY <1>0, <1>2, <2>1, <2>3, <2>4, <2>5, <2>6, <2>7, PassIInv DEF At
  <1>5. CASE c # NoChat
    <2> DEFINE N == HistoryOps(r, c, FALSE)
               t == Awaited(r, c)
               p == [o EXCEPT !.at = "history", !.token = t]
    <2>1. store' = HistoryBegun(r, c, FALSE) /\ ops' = ops \cup N \cup {p}
      BY <1>5 DEF Restored
    <2> HIDE DEF chosen
    <2>2. IsStore(r) /\ SameButHistory(chosen, r) /\ \A S, q : Requested(chosen, S, q) => Requested(r, S, q)
      BY <1>2, RetainFacts
    <2>3. Turned(p, o, "history")
      <3>1. t \in Nat
        BY <2>2, AwaitedNat
      <3> HIDE DEF t
      <3> QED BY <1>0, <3>1, TurnedAwaiting DEF Places
    <2> HIDE DEF p, t, r, N
    <2>4. /\ IsStore(store') /\ SameButHistory(r, store')
          /\ \A x \in N : IsOp(x) /\ x.kind = "history" /\ x.run = run
          /\ \A S : Requested(r, S, run) => Requested(store', S \cup N, run)
      BY <1>0, <1>5, <2>1, <2>2, BegunFacts DEF N
    <2>5. SameButHistory(chosen, store')
      BY <2>2, <2>4 DEF SameButHistory
    <2>6. IsOp(p) /\ Alike(p, o) /\ p \in ChoiceOps /\ ~Applied(p)
      <3>1. Placed(p) /\ ~Applied(p)
        BY <2>3 DEF Turned, Alike, Placed, Applied
      <3> QED BY <1>0, <2>3, <3>1, TurnedOp DEF Turned
    <2>7. PassesTo(o, p, N)
      <3>1. ops' = ops \cup {p} \cup N /\ \A x \in N : IsOp(x) /\ x.kind \notin {"select", "open"}
        BY <2>1, <2>4
      <3> QED BY <1>0, <2>6, <3>1, PassFromQueue
    <2>8. CallsMarked
      <3>1. ASSUME Requested(store, ops, run) PROVE Requested(store', ops', run)
        <4>1. Requested(chosen, ops, run)
          BY <1>2, <3>1 DEF Requested
        <4>2. Requested(store', ops \cup N, run)
          BY <2>2, <2>4, <4>1
        <4> QED BY <2>1, <4>2 DEF Requested
      <3> QED BY <1>2, <2>5, <3>1 DEF CallsMarked, SameButHistory
    <2>9. Typed
      BY <1>0, <2>4 DEF Typed
    <2>10. /\ store'.selected = c /\ store'.selection = store.selection
           /\ store'.opening = store.opening /\ store'.loadingChat = store.loadingChat
           /\ store'.loadingChats = store.loadingChats
      BY <1>2, <2>5 DEF SameButHistory
    <2>11. PreferenceSound'
      <3> DEFINE a == Tail(queue)
      <3>1. \A i \in DOMAIN queue : queue[i].run = run
        BY <1>3, AllOwn DEF Current
      <3>2. \A i \in DOMAIN a : i + 1 \in DOMAIN queue /\ a[i] = queue[i + 1]
        BY <1>3, TailFacts
      <3> HIDE DEF a
      <3>3. \A i \in DOMAIN a : ~Writes(a[i])
        BY <1>1, <3>1, <3>2 DEF WriteFree
      <3>4. Fits(a, pref', c)
        BY <3>3, FitsNow
      <3> QED BY <1>0, <1>3, <2>10, <3>4 DEF PreferenceSound, a
    <2> QED BY <1>0, <2>6, <2>7, <2>8, <2>9, <2>10, <2>11, PassIInv DEF At
  <1> QED BY <1>4, <1>5

\* The restoration of loadChats.
LEMMA RestoreChats ==
    ASSUME StoreIInv, queue # <<>>, NEW o, o = Head(queue), o.kind = "chats", o.at = "restore",
           Restore(o), UNCHANGED <<run, runs, scope, existing, cached>>
    PROVE  StoreIInv'
  <1>0. /\ o \in ChoiceOps /\ IsChoice(o) /\ o \in Pending /\ o.chats \subseteq Chats
        /\ IsStore(store) /\ unsettled \in BOOLEAN /\ pref \in Chats \cup {NoChat}
    BY HeadFacts DEF ChoiceOps
  <1>1. /\ pref' \in o.chats \cup {NoChat} /\ (pref' = pref \/ pref' = NoChat)
        /\ pref' \in Chats \cup {NoChat} /\ ~Writes(o)
    BY <1>0 DEF Restore, Writes
  <1>2. CASE IsCurrent(o) /\ pref' # NoChat
    <2> DEFINE a == Tail(queue)
    <2>1. Select(store, pref', ops, a) /\ unsettled' = unsettled /\ pref' \in Chats
      BY <1>1, <1>2 DEF Restore, Restored
    <2>2. run # 0
      BY <1>0, <1>2 DEF IsChoice, IsCurrent, Current
    <2>3. /\ a \in Seq(ChoiceOps) /\ InOrder(a, run)
          /\ Alone(ops, a, run, store.selection)
          /\ Items(queue) = Items(a) \cup {o}
      BY <2>2, QueueFacts, OrderFacts, TailFacts, AloneTail DEF StoreIInv, ChoicesSound
    <2>4. /\ Items(a) \subseteq Items(queue) /\ ~At(o, "chats", "list")
          /\ \A y \in Pending : y = o \/ y \in ops \/ y \in Items(a)
          /\ \A y \in ops : y \in Pending
      BY <2>3 DEF Pending, At
    <2> HIDE DEF a
    <2> QED BY <1>1, <2>1, <2>2, <2>3, <2>4, SelectIInv
  <1>3. CASE ~(IsCurrent(o) /\ pref' # NoChat)
    <2>1. queue' = Tail(queue) /\ UNCHANGED <<ops, store>>
      BY <1>3 DEF Restore, Restored
    <2>2. (WillWrite => WillWrite') /\ \A x \in Pending : x = o \/ x \in Pending'
      BY <2>1, HeadPasses
    <2>3. CASE ~IsCurrent(o)
      <3>1. Forgone(o)
        BY <2>3 DEF Restore
      <3>2. unsettled' \in BOOLEAN /\ (unsettled => unsettled')
        BY <1>0, <3>1 DEF Forgone
      <3>3. store.selected = NoChat /\ Restoring => Restoring' \/ unsettled'
        <4>1. CASE Current(o)
          BY <3>1, <4>1 DEF Forgone
        <4>2. CASE ~Current(o)
          BY <2>2, <4>2, RestoringStays
        <4> QED BY <4>1, <4>2
      <3>4. PreferenceSound'
        BY <1>1, <2>1, <2>2, <3>2, <3>3, PrefDequeued
      <3> QED BY <1>1, <2>1, <3>2, <3>4, RestoreEnds
    <2>4. CASE IsCurrent(o) /\ pref' = NoChat
      <3>1. unsettled' = unsettled
        BY <2>4 DEF Restore
      <3>2. PreferenceSound'
        <4> DEFINE a == Tail(queue)
        <4> SUFFICES ASSUME run # 0 PROVE PreferenceSound'
          BY DEF PreferenceSound
        <4>1. queue \in Seq(ChoiceOps) /\ InOrder(queue, run) /\ InOrder(a, run)
          BY QueueFacts, OrderFacts
        <4>2. CASE WriteFree(queue, run)
          <5>1. \A i \in DOMAIN queue : queue[i].run = run
            BY <4>1, <2>4, AllOwn DEF IsCurrent, Current
          <5>2. \A i \in DOMAIN a : i + 1 \in DOMAIN queue /\ a[i] = queue[i + 1]
            BY <4>1, TailFacts
          <5> HIDE DEF a
          <5>3. \A i \in DOMAIN a : ~Writes(a[i])
            BY <4>2, <5>1, <5>2 DEF WriteFree
          <5>4. Fits(a, pref', store'.selected)
            BY <2>4, <5>3, FitsNow
          <5> QED BY <2>1, <4>1, <5>4 DEF PreferenceSound, a
        <4>3. CASE WillWrite
          BY <2>1, <2>2, <4>1, <4>3 DEF PreferenceSound
        <4>4. CASE Fits(queue, pref, store.selected)
          <5>1. Fits(a, pref', store.selected)
            BY <1>1, <2>4, <4>1, <4>4, FitsTail
          <5> QED BY <2>1, <4>1, <5>1 DEF PreferenceSound
        <4> QED BY <4>2, <4>3, <4>4 DEF StoreIInv, PreferenceSound
      <3> QED BY <1>0, <1>1, <2>1, <3>1, <3>2, RestoreEnds
    <2> QED BY <1>3, <2>3, <2>4
  <1> QED BY <1>2, <1>3

\* All ends of calls of the preference.
LEMMA PreferenceIInv ==
    ASSUME StoreIInv, PreferenceStep
    PROVE  StoreIInv'
  <1> DEFINE o == Head(queue)
  <1>0. /\ queue # <<>> /\ UNCHANGED <<run, runs, scope, existing, cached>>
        /\ Restore(o) \/ Write(o) \/ Clear(o) \/ PreferenceFails(o)
    BY DEF PreferenceStep, backend, inbox, session
  <1>1. o = Head(queue) /\ InLine(o) /\ o.chats \subseteq Chats /\ pref \in Chats \cup {NoChat}
    BY <1>0, HeadFacts DEF ChoiceOps
  <1> HIDE DEF o
  <1>2. CASE Restore(o)
    <2>1. /\ o.at = "restore" /\ o.kind \in {"start", "chats"} /\ ~Writes(o)
          /\ pref' = pref \/ pref' = NoChat
          /\ pref' \in Chats \cup {NoChat} /\ Restored(o, pref')
      BY <1>1, <1>2 DEF Restore, InLine, Writes
    <2>2. CASE o.kind = "chats"
      BY <1>0, <1>1, <1>2, <2>1, <2>2, RestoreChats
    <2>3. CASE o.kind = "start" /\ Current(o) /\ store.selection = 0
      <3>1. unsettled' = unsettled
        BY <1>2, <2>3 DEF Restore
      <3> QED BY <1>0, <1>1, <2>1, <2>3, <3>1, RestoreSelects
    <2>4. CASE o.kind = "start" /\ ~(Current(o) /\ store.selection = 0)
      <3>1. /\ unsettled' = unsettled /\ queue' = Tail(queue) /\ store' = store
            /\ ops' = ops \cup {[o EXCEPT !.at = "load"]}
        BY <1>2, <2>4 DEF Restore, Restored
      <3> QED BY <1>0, <1>1, <2>1, <2>4, <3>1, RestoreSkips
    <2> QED BY <2>1, <2>2, <2>3, <2>4
  <1>3. CASE Write(o)
    BY <1>0, <1>1, <1>3, WriteIInv
  <1>4. CASE Clear(o)
    BY <1>0, <1>1, <1>4, ClearIInv
  <1>5. CASE PreferenceFails(o)
    BY <1>0, <1>1, <1>5, PreferenceFailsIInv
  <1> QED BY <1>0, <1>2, <1>3, <1>4, <1>5

----------------------------------------------------------------------------
(* The steps of the lifecycle *)

\* A store that has just been created is well-formed, and nothing is requested.
LEMMA EmptyFacts ==
    /\ IsStore(Empty) /\ \A S, r : Requested(Empty, S, r)
    /\ Empty.selected = NoChat /\ Empty.selection = 0 /\ Empty.loadingChat = NoChat
    /\ ~Empty.opening /\ ~Empty.searching /\ Empty.results = 0 /\ ~Empty.sending
    /\ ~Empty.loads /\ ~Empty.reload
  <1>1. \A c \in Chats : Empty.history[c] = NoHistory
    BY DEF Empty
  <1>2. IsHistory(NoHistory) /\ ~NoHistory.loading
    BY DEF IsHistory, HistoryFields, NoHistory
  <1>3. DOMAIN Empty = StoreFields /\ DOMAIN Empty.history = Chats /\ Empty.requests \in [Chats -> Nat]
    BY DEF Empty, StoreFields
  <1>4. IsStore(Empty)
    BY <1>1, <1>2, <1>3 DEF IsStore, Empty
  <1>5. \A S, r : Requested(Empty, S, r)
    BY <1>1, <1>2 DEF Requested
  <1> QED BY <1>4, <1>5 DEF Empty

\* What is well-formed stays so when a lifecycle begins or ends.
LEMMA ShapesStay ==
    ASSUME StoreIInv, run' \in Nat, runs' \in Nat, run' <= runs', runs <= runs', scope' \in Nat,
           UNCHANGED <<existing, cached, pref, queue>>, unsettled' \in BOOLEAN, IsStore(store'),
           \A o \in ops' : o \in ops \/ IsOp(o)'
    PROVE  Shapes'
  <1>1. \A o : IsChoice(o) => IsChoice(o)'
    BY DEF IsChoice, ChoiceOps, StoreIInv, Shapes
  <1>2. \A o \in ops : IsOp(o) => IsOp(o)'
    BY <1>1 DEF IsOp, At, StoreIInv, Shapes
  <1>3. (\A i \in DOMAIN queue : IsChoice(queue[i]) /\ InLine(queue[i]))'
    BY <1>1 DEF StoreIInv, Shapes, InLine
  <1>4. (\A o \in ops : IsOp(o))'
    BY <1>2 DEF StoreIInv, Shapes
  <1> QED BY <1>3, <1>4 DEF StoreIInv, Shapes

\* A lifecycle begins: all that still waits is of earlier ones.
LEMMA StartIsSound ==
    ASSUME StoreIInv, Start
    PROVE  StoreIInv'
  <1>a. PICK o : o = [Op("start", "metadata") EXCEPT !.run = run']
    OBVIOUS
  <1>0. /\ run' = runs + 1 /\ runs' = runs + 1 /\ store' = Empty /\ ops' = ops \cup {o}
        /\ UNCHANGED <<existing, cached, pref, queue, scope>> /\ unsettled' = FALSE
    BY <1>a DEF Start, backend, inbox
  <1>1. /\ runs \in Nat /\ scope \in Nat /\ queue \in Seq(ChoiceOps)
        /\ \A x \in ops : x.run \in Nat /\ x.run <= runs
        /\ \A i \in DOMAIN queue : queue[i].run \in Nat /\ queue[i].run <= runs
    BY DEF StoreIInv, Shapes, IsOp, IsChoice, ChoiceOps
  <1>2. /\ o.kind = "start" /\ o.at = "metadata" /\ o.run = run' /\ o \in ChoiceOps /\ DOMAIN o = OpFields
    <2>1. "start" \in ChoiceKinds /\ "metadata" \in Places
      BY DEF ChoiceKinds, Places
    <2>2. run' \in Nat
      BY <1>0, <1>1
    <2>3. /\ o = [kind |-> "start", at |-> "metadata", run |-> run', scope |-> scope, n |-> 0,
                  chat |-> NoChat, chats |-> {}, token |-> 0, rows |-> {}, next |-> 0,
                  was |-> NoHistory, status |-> "none"]
      BY <1>a DEF Op
    <2> QED BY <1>1, <2>1, <2>2, <2>3 DEF ChoiceOps, OpFields
  <1>3. IsOp(o)'
    <2>1. IsChoice(o)'
      BY <1>0, <1>1, <1>2 DEF IsChoice
    <2> QED BY <1>0, <1>1, <1>2, <2>1 DEF IsOp, Placed, At, ChoiceKinds
  <1>4. Shapes'
    <2>1. /\ run' \in Nat /\ runs' \in Nat /\ run' <= runs' /\ runs <= runs' /\ scope' \in Nat
      BY <1>0, <1>1
    <2>4. unsettled' \in BOOLEAN
      BY <1>0
    <2>2. \A x \in ops' : x \in ops \/ IsOp(x)'
      BY <1>0, <1>3
    <2>3. IsStore(store')
      BY <1>0, EmptyFacts
    <2> QED BY <1>0, <2>1, <2>2, <2>3, <2>4, ShapesStay
  <1>5. run' # 0 /\ \A x \in Pending' : x = o \/ x.run # run'
    BY <1>0, <1>1 DEF Pending, Items
  <1>6. o \in Pending' /\ Current(o)'
    BY <1>0, <1>2 DEF Pending, Current
  <1>7. MarksOwned'
    <2>1. Starting'
      BY <1>2, <1>6 DEF Starting
    <2>2. HistoryOwned'
      BY <1>0, EmptyFacts DEF HistoryOwned
    <2> QED BY <1>0, <2>1, <2>2, EmptyFacts DEF MarksOwned, OpeningOwned, SearchOwned, SendingOwned,
              ChatsOwned, MailboxOwned, SelectionOwned
  <1>8. ChoicesSound'
    <2>1. \A x \in Pending' : ~Chooses(x, run')
      BY <1>2, <1>5 DEF Chooses
    <2>2. \A x, y \in Pending' : ~Rivals(x, y, run', store'.selection)
      BY <1>2, <1>5, <2>1 DEF Rivals, Top
    <2>3. Alone(ops', queue', run', store'.selection)
      BY <2>2 DEF Alone, Pending, Items
    <2>4. OpensMarked'
      BY <1>2, <1>5 DEF OpensMarked, Current
    <2> QED BY <2>1, <2>3, <2>4 DEF ChoicesSound, Numbered, Chosen, Top
  <1>9. PreferenceSound'
    <2>1. Restoring'
      BY <1>2, <1>6 DEF Restoring
    <2>2. InOrder(queue', run') /\ WriteFree(queue', run')
      BY <1>0, <1>1 DEF InOrder, WriteFree
    <2> QED BY <1>0, <2>1, <2>2, EmptyFacts DEF PreferenceSound
  <1> QED BY <1>4, <1>7, <1>8, <1>9 DEF StoreIInv

\* A lifecycle ends, or the next session begins while there is none.
LEMMA IdleIInv ==
    ASSUME StoreIInv, Dispose \/ SignIn
    PROVE  StoreIInv'
  <1>1. /\ run' = 0 /\ UNCHANGED <<runs, ops, existing, cached, pref, queue, unsettled>>
        /\ store' \in {store, Empty} /\ scope' \in {scope, scope + 1}
    BY DEF Dispose, SignIn, backend, inbox, preference
  <1>2. runs \in Nat /\ scope' \in Nat /\ unsettled' \in BOOLEAN /\ IsStore(store')
    BY <1>1, EmptyFacts DEF StoreIInv, Shapes
  <1>3. Shapes'
    BY <1>1, <1>2, ShapesStay
  <1> QED BY <1>1, <1>3, IdleStep

\* Nothing happens.
LEMMA StutterIInv ==
    ASSUME StoreIInv, UNCHANGED storeVars
    PROVE  StoreIInv'
  <1>1. UNCHANGED <<run, runs, scope, existing, cached, pref, queue, unsettled, store, ops>>
    BY DEF storeVars, backend, inbox, preference, session
  <1>2. Shapes'
    BY <1>1 DEF StoreIInv, Shapes, IsOp, IsChoice, At
  <1>3. MarksOwned'
    BY <1>1 DEF StoreIInv, MarksOwned, OpeningOwned, SearchOwned, SendingOwned, Starting, ChatsOwned,
           MailboxOwned, HistoryOwned, SelectionOwned, Pending, Current, IsCurrent, IsSearch
  <1>4. ChoicesSound'
    BY <1>1 DEF StoreIInv, ChoicesSound, OpensMarked, Pending, Current
  <1>5. PreferenceSound'
    BY <1>1 DEF StoreIInv, PreferenceSound, Restoring, WillWrite, Pending, Current
  <1> QED BY <1>2, <1>3, <1>4, <1>5 DEF StoreIInv

----------------------------------------------------------------------------
(* The invariant, and what follows from it at rest *)

\* A store that has come to rest before: nothing is marked.
LEMMA SettledFacts ==
    ASSUME NEW s \in Scenarios
    PROVE  /\ IsStore(Settled(s)) /\ \A S, r : Requested(Settled(s), S, r)
           /\ Settled(s).selected = s.pref /\ Settled(s).loadingChat = NoChat
           /\ ~Settled(s).opening /\ ~Settled(s).searching /\ Settled(s).results = 0
           /\ ~Settled(s).sending /\ ~Settled(s).loads /\ ~Settled(s).reload
           /\ ~Settled(s).loadingChats /\ ~Settled(s).loadingMailbox
  <1> DEFINE retained == retainHistory(Empty, s.pref)
             all == Before(s.pref, 0)
             h == [kept |-> TRUE, loading |-> FALSE, loaded |-> TRUE,
                   previous |-> NextBefore(all) # 0, cursor |-> NextBefore(all)]
             chosen == [retained EXCEPT !.selection = 1, !.selected = s.pref,
                          !.shown[s.pref] = Page(all), !.history[s.pref] = h]
             b == IF s.pref = NoChat THEN Empty ELSE chosen
  <1>1. s.pref \in Chats \cup {NoChat}
    BY ChatStoreAssumption
  <1>2. IsHistory(h) /\ ~h.loading
    BY DEF IsHistory, HistoryFields
  <1>3. Settled(s) = [b EXCEPT !.chats = s.existing, !.discovered = s.cached,
                               !.loadingChats = FALSE, !.loadingMailbox = FALSE]
    BY DEF Settled
  <1>4. /\ IsStore(b) /\ \A S, r : Requested(b, S, r)
        /\ b.selected = s.pref /\ b.loadingChat = NoChat
        /\ ~b.opening /\ ~b.searching /\ b.results = 0 /\ ~b.sending /\ ~b.loads /\ ~b.reload
    <2>1. CASE s.pref = NoChat
      BY <2>1, EmptyFacts
    <2>2. CASE s.pref # NoChat
      <3>1. /\ IsStore(retained) /\ SameButHistory(Empty, retained)
            /\ \A S, r : Requested(retained, S, r)
        BY EmptyFacts, RetainFacts
      <3>2. s.pref \in Chats /\ b = chosen
        BY <1>1, <2>2
      <3> HIDE DEF retained, h, all
      <3>3. /\ DOMAIN chosen = StoreFields /\ chosen.selection = 1 /\ chosen.selected = s.pref
            /\ chosen.history = [retained.history EXCEPT ![s.pref] = h]
            /\ \A f \in StoreFields : f \notin {"selection", "selected", "shown", "history"} =>
                  chosen[f] = retained[f]
        BY <3>1 DEF IsStore, StoreFields
      <3> HIDE DEF chosen, b
      <3>4. \A c \in Chats : /\ IsHistory(chosen.history[c])
                             /\ chosen.history[c].loading => retained.history[c].loading
        BY <1>2, <3>1, <3>2, <3>3 DEF IsStore
      <3>5. IsStore(chosen)
        BY <1>1, <3>1, <3>3, <3>4 DEF IsStore, StoreFields
      <3>6. \A S, r : Requested(chosen, S, r)
        <4>1. Requested(retained, {}, 0)
          BY <3>1
        <4> QED BY <3>4, <4>1 DEF Requested
      <3>7. /\ chosen.loadingChat = NoChat
            /\ ~chosen.opening /\ ~chosen.searching /\ chosen.results = 0 /\ ~chosen.sending
            /\ ~chosen.loads /\ ~chosen.reload
        BY <3>1, <3>3, EmptyFacts DEF SameButHistory, StoreFields
      <3> QED BY <3>2, <3>3, <3>5, <3>6, <3>7
    <2> QED BY <2>1, <2>2
  <1> HIDE DEF b
  <1>5. IsStore(Settled(s)) /\ Settled(s).history = b.history
    BY <1>3, <1>4 DEF IsStore, StoreFields
  <1>6. \A S, r : Requested(Settled(s), S, r)
    <2>1. \A c \in Chats : ~b.history[c].loading
      <3>1. Requested(b, {}, 0)
        BY <1>4
      <3> QED BY <3>1 DEF Requested
    <2> QED BY <1>5, <2>1 DEF Requested
  <1> QED BY <1>3, <1>4, <1>5, <1>6 DEF IsStore, StoreFields

\* A browser starts in it.
LEMMA StoreInitIInv ==
    ASSUME StoreInit
    PROVE  StoreIInv
  <1>1. PICK s \in Scenarios :
            /\ existing = s.existing /\ pref = s.pref /\ cached \in {s.existing, s.cached}
            /\ queue = <<>> /\ ops = {} /\ scope = 1 /\ unsettled = FALSE /\ runs = run
            /\ \/ run = 1 /\ store = Settled(s)
               \/ run = 0 /\ store = Empty
    BY DEF StoreInit
  <1>2. /\ existing \subseteq Chats /\ cached \subseteq Chats /\ pref \in Chats \cup {NoChat}
        /\ queue \in Seq(ChoiceOps) /\ Items(queue) = {} /\ \A i \in DOMAIN queue : FALSE
    <2>1. queue \in Seq(ChoiceOps)
      BY <1>1
    <2>2. Items(queue) = {} /\ \A i \in DOMAIN queue : FALSE
      BY <1>1, <2>1, NoItems
    <2>3. /\ s.cached \subseteq s.existing /\ s.existing \subseteq Chats
          /\ s.pref \in s.existing \cup {NoChat}
      BY ChatStoreAssumption
    <2> QED BY <1>1, <2>1, <2>2, <2>3
  <1>3. Shapes
    <2>1. IsStore(store)
      BY <1>1, SettledFacts, EmptyFacts
    <2>2. run \in Nat /\ runs \in Nat /\ run <= runs /\ scope \in Nat
      BY <1>1
    <2>3. unsettled \in BOOLEAN
      BY <1>1
    <2> QED BY <1>1, <1>2, <2>1, <2>2, <2>3 DEF Shapes
  <1>4. Pending = {}
    BY <1>1, <1>2 DEF Pending
  <1>5. ASSUME run # 0 PROVE MarksOwned /\ ChoicesSound /\ PreferenceSound
    <2>1. store = Settled(s)
      BY <1>1, <1>5
    <2>2. MarksOwned
      BY <2>1, SettledFacts DEF MarksOwned, OpeningOwned, SearchOwned, SendingOwned, ChatsOwned,
            MailboxOwned, HistoryOwned, SelectionOwned
    <2>3. ChoicesSound
      BY <1>1, <1>2, <1>4 DEF ChoicesSound, Alone, Numbered, Chosen, OpensMarked
    <2>4. PreferenceSound
      <3>1. Fits(queue, pref, store.selected)
        BY <1>1, <1>2, <2>1, SettledFacts DEF Fits
      <3> QED BY <1>2, <3>1 DEF PreferenceSound, InOrder
    <2> QED BY <2>2, <2>3, <2>4
  <1> QED BY <1>3, <1>5 DEF StoreIInv, MarksOwned, ChoicesSound, PreferenceSound

\* Every step keeps it.
LEMMA StoreNextIInv ==
    ASSUME StoreIInv, [StoreNext]_storeVars
    PROVE  StoreIInv'
  <1>1. CASE UNCHANGED storeVars
    BY <1>1, StutterIInv
  <1>2. ASSUME NEW o \in ops,
               \/ HistoryStep(o) \/ DiscoverStep(o) \/ SendStep(o) \/ ReceiptStep(o) \/ MailboxStep(o)
               \/ EventStep(o) \/ ReadStep(o)
        PROVE  StoreIInv'
    BY <1>2, HistoryIInv, DiscoverIInv, SendIInv, ReceiptIInv, MailboxIInv, EventIInv, ReadIInv
  <1>3. ASSUME NEW o \in ops,
               SelectStep(o) \/ OpenStep(o) \/ SearchUsers(o) \/ StartStep(o) \/ ChatsStep(o)
        PROVE  StoreIInv'
    BY <1>3, SelectGetIInv, SelectGetFailsIInv, SelectHistoryIInv, OpenIInv, SearchIInv, StartIInv,
       ChatsIInvStep DEF SelectStep
  <1>4. CASE PreferenceStep
    BY <1>4, PreferenceIInv
  <1>5. CASE Lifecycle
    BY <1>5, StartIsSound, IdleIInv, JoiningIInv DEF Lifecycle
  <1>6. CASE Visitor
    BY <1>6, SelectChatIInv, OpenDirectChatIInv, LoadPreviousIInv, FindPeopleIInv, SendTextIInv,
       JoiningIInv DEF Visitor
  <1>7. CASE Network
    BY <1>7, ReadyIInv, JoiningIInv DEF Network
  <1>8. CASE Rest
    BY <1>1, <1>8 DEF Rest
  <1> QED BY <1>1, <1>2, <1>3, <1>4, <1>5, <1>6, <1>7, <1>8 DEF StoreNext

\* The inductive invariant holds.
LEMMA StoreInvariant == StoreSpec => []StoreIInv
  <1>1. StoreInit => StoreIInv
    BY StoreInitIInv
  <1>2. StoreIInv /\ [StoreNext]_storeVars => StoreIInv'
    BY StoreNextIInv
  <1> QED BY <1>1, <1>2, PTL DEF StoreSpec

\* Once every operation has ended no mark is left: each would have an operation of
\* this lifecycle to take it off.
THEOREM NothingKeepsLoading == StoreSpec => []NothingLeftLoading
  <1>1. StoreIInv => NothingLeftLoading
    <2> SUFFICES ASSUME StoreIInv, Settles PROVE NothingLeftLoading
      BY DEF NothingLeftLoading
    <2>1. ops = {} /\ Pending = {} /\ run # 0
      BY NoItems DEF Settles, AtRest, Pending, StoreIInv, Shapes
    <2>2. IsStore(store)
      BY DEF StoreIInv, Shapes
    <2>3. ~Starting
      BY <2>1 DEF Starting
    <2>4. ~store.opening /\ ~store.sending /\ store.loadingChat = NoChat
      BY <2>1 DEF StoreIInv, MarksOwned, OpeningOwned, SendingOwned, SelectionOwned
    <2>5. ~store.searching /\ store.results \in {0, store.searchRequest}
      BY <2>1, <2>2 DEF StoreIInv, MarksOwned, SearchOwned, IsStore
    <2>6. ~store.loadingChats /\ ~store.loadingMailbox /\ ~store.loads
      BY <2>1, <2>3 DEF StoreIInv, MarksOwned, ChatsOwned, MailboxOwned
    <2>7. \A c \in Chats : ~store.history[c].loading
      BY <2>1 DEF StoreIInv, MarksOwned, HistoryOwned, Requested
    <2> QED BY <2>4, <2>5, <2>6, <2>7 DEF NothingLeftLoading
  <1> QED BY <1>1, StoreInvariant, PTL

\* Once every operation has ended the stored preference is the selected chat, or none.
THEOREM RestoresTheSelected == StoreSpec => []PreferenceFollowsSelection
  <1>1. StoreIInv => PreferenceFollowsSelection
    <2> SUFFICES ASSUME StoreIInv, Settles, ~unsettled PROVE pref \in {store.selected, NoChat}
      BY DEF PreferenceFollowsSelection
    <2>1. /\ ops = {} /\ Pending = {} /\ run # 0 /\ \A i \in DOMAIN queue : FALSE
      BY NoItems DEF Settles, AtRest, Pending, StoreIInv, Shapes
    <2>2. ~Restoring /\ ~WillWrite
      BY <2>1 DEF Restoring, WillWrite
    <2>3. Fits(queue, pref, store.selected)
      BY <2>1, <2>2 DEF StoreIInv, PreferenceSound
    <2> QED BY <2>1, <2>3 DEF Fits
  <1> QED BY <1>1, StoreInvariant, PTL

----------------------------------------------------------------------------
(* What an operation of an ended lifecycle may still change *)

Mute(o) ==
    o.run # run =>
        \/ store' = store
        \/ /\ o.kind \in {"start", "read", "mailbox"} /\ o.scope = scope
           /\ store' = [store EXCEPT !.peerRead = store'.peerRead]
        \/ /\ o.kind \in {"send", "retry", "mailbox"} /\ scope \in {o.scope, due.scope}
           /\ store' = [store EXCEPT !.shown = store'.shown, !.discovered = store'.discovered]

\* Nothing leaves the queue, or one more operation waits in it.
Waits == queue' = queue \/ \E x : queue' = Append(queue, x)

\* A queue that has got longer is not its own tail.
LEMMA NotTail ==
    ASSUME NEW q \in Seq(ChoiceOps), q # <<>>
    PROVE  Tail(q) # q /\ \A x : Tail(q) # Append(q, x)
  <1>1. Len(q) \in Nat \ {0} /\ Len(Tail(q)) = Len(q) - 1
    BY TailFacts
  <1>2. \A x : Len(Append(q, x)) = Len(q) + 1
    OBVIOUS
  <1>3. Len(q) - 1 # Len(q) /\ Len(q) - 1 # Len(q) + 1
    <2>1. \A n \in Nat : n - 1 # n /\ n - 1 # n + 1
      OBVIOUS
    <2> QED BY <1>1, <2>1
  <1>4. Tail(q) # q
    BY <1>1, <1>3
  <1>5. ASSUME NEW x, Tail(q) = Append(q, x) PROVE FALSE
    BY <1>1, <1>2, <1>3, <1>5, Zenon
  <1> QED BY <1>4, <1>5

\* The operation whose step it is is the only one that moves.
LEMMA OneMoves ==
    ASSUME StoreIInv, NEW o, ops \ {o} \subseteq ops', Waits, Mute(o)
    PROVE  \A p \in Moved : Mute(p)
  <1>1. queue # <<>> => queue' # Tail(queue)
    BY NotTail, QueueFacts DEF Waits
  <1> QED BY <1>1 DEF Moved

\* None moves.
LEMMA NoneMoves ==
    ASSUME StoreIInv, ops \subseteq ops', Waits
    PROVE  \A p \in Moved : Mute(p)
  <1>1. queue # <<>> => queue' # Tail(queue)
    BY NotTail, QueueFacts DEF Waits
  <1> QED BY <1>1 DEF Moved

\* A step of operation o takes only o from the operations.
LEMMA StepsMove ==
    ASSUME NEW o \in ops,
           \/ HistoryStep(o) \/ DiscoverStep(o) \/ SendStep(o) \/ ReceiptStep(o) \/ MailboxStep(o)
           \/ EventStep(o) \/ ReadStep(o) \/ SelectStep(o) \/ OpenStep(o) \/ SearchUsers(o)
           \/ StartStep(o) \/ ChatsStep(o)
    PROVE  ops \ {o} \subseteq ops' /\ Waits
  <1>1. CASE HistoryStep(o) \/ DiscoverStep(o) \/ SendStep(o) \/ ReceiptStep(o)
    <2>1. queue' = queue
      BY <1>1 DEF HistoryStep, HistoryRead, HistoryApply, HistoryFails, DiscoverStep, DiscoverChat,
            DiscoverCache, DiscoverFails, SendStep, SendPut, SendPending, SendCommand, SendAccept,
            SendShown, SendFails, ReceiptStep, ReceiptCommit, ReceiptQueue, ReceiptFails, preference
    <2>2. ops \ {o} \subseteq ops'
      BY <1>1 DEF HistoryStep, HistoryRead, HistoryApply, HistoryFails, DiscoverStep, DiscoverChat,
            DiscoverCache, DiscoverFails, SendStep, SendPut, SendPending, SendCommand, SendAccept,
            SendShown, SendFails, ReceiptStep, ReceiptCommit, ReceiptQueue, ReceiptFails,
            Ends, Goes, Becomes
    <2> QED BY <2>1, <2>2 DEF Waits
  <1>2. CASE MailboxStep(o)
    <2>1. queue' = queue
      BY <1>2 DEF MailboxStep, MailboxSync, MailboxPage, MailboxMetadata, MailboxReads, MailboxMerge,
            MailboxRecover, MailboxJoin, MailboxRecovered, MailboxDecode, MailboxApply, MailboxFails,
            preference
    <2>2. ops \ {o} \subseteq ops'
      BY <1>2 DEF MailboxStep, MailboxSync, MailboxPage, MailboxMetadata, MailboxReads, MailboxMerge,
            MailboxRecover, MailboxJoin, MailboxRecovered, MailboxDecode, MailboxApply, MailboxFails,
            Ends, Goes, Becomes
    <2> QED BY <2>1, <2>2 DEF Waits
  <1>3. CASE EventStep(o) \/ ReadStep(o) \/ SearchUsers(o)
    <2>1. queue' = queue
      BY <1>3 DEF EventStep, EventIngest, EventFilter, EventApply, EventFails, ReadStep, ReadCommit,
            ReadPublish, ReadFails, SearchUsers, preference
    <2>2. ops \ {o} \subseteq ops'
      BY <1>3 DEF EventStep, EventIngest, EventFilter, EventApply, EventFails, ReadStep, ReadCommit,
            ReadPublish, ReadFails, SearchUsers, Received, Ends, Goes, Becomes
    <2> QED BY <2>1, <2>2 DEF Waits
  <1>4. CASE SelectStep(o) \/ OpenStep(o)
    BY <1>4 DEF SelectStep, SelectGet, SelectGetFails, SelectHistory, Deselect, OpenStep, OpenCreate,
          OpenHistory, OpenFails, Ends, Goes, Becomes, Waits, preference
  <1>5. CASE StartStep(o) \/ ChatsStep(o)
    BY <1>5 DEF StartStep, StartMetadata, StartFails, StartLoad, Load, ChatsStep, ChatsList, ChatsCache,
          ChatsFail, Ends, Goes, Becomes, Waits, preference
  <1> QED BY <1>1, <1>2, <1>3, <1>4, <1>5

\* Publications and updates reach the handlers of the session that they are of, and
\* change rows and discovered chats only.
OnlyRows(b, d) == d = [b EXCEPT !.shown = d.shown, !.discovered = d.discovered]

\* receive changes rows and discovered chats only.
LEMMA ReceivesRows ==
    ASSUME NEW b, IsStore(b), NEW messages, NEW chatIds
    PROVE  OnlyRows(b, Receive(b, messages, chatIds))
  <1> DEFINE v == mergeMessagesByChat(b.shown, {r \in messages : b.history[r.chat].kept})
             w == b.discovered \cup chatIds
             d == Receive(b, messages, chatIds)
  <1>1. d = [b EXCEPT !.shown = v, !.discovered = w]
    BY DEF Receive
  <1> HIDE DEF v, w, d
  <1>2. d.shown = v /\ d.discovered = w
    BY <1>1 DEF IsStore, StoreFields
  <1> QED BY <1>1, <1>2 DEF OnlyRows, d

\* So do two such changes.
LEMMA OnlyRowsTwice ==
    ASSUME NEW b, IsStore(b), NEW d, NEW e, OnlyRows(b, d), OnlyRows(d, e)
    PROVE  OnlyRows(b, e)
  <1> DEFINE v == d.shown
             w == d.discovered
             x == e.shown
             y == e.discovered
  <1>1. d = [b EXCEPT !.shown = v, !.discovered = w] /\ e = [d EXCEPT !.shown = x, !.discovered = y]
    BY DEF OnlyRows
  <1> HIDE DEF v, w, x, y
  <1>2. e = [b EXCEPT !.shown = x, !.discovered = y]
    BY <1>1 DEF IsStore, StoreFields
  <1> QED BY <1>2 DEF OnlyRows, x, y

\* An operation that publishes does so within its session or that of the update.
LEMMA PublishesMute ==
    ASSUME IsStore(store), NEW o, NEW messages, o.kind \in {"send", "retry", "mailbox"},
           NEW u, u.scope \in {o.scope, due.scope},
           \/ store' = Published(o, messages)
           \/ store' = Flushed(store, u)
           \/ store' = Flushed(Published(o, messages), u)
    PROVE  Mute(o)
  <1> DEFINE told == Published(o, messages)
  <1>1. told = store \/ (scope = o.scope /\ OnlyRows(store, told))
    BY ReceivesRows DEF Published, Listening
  <1>2. IsStore(told)
    BY PublishedMarks
  <1>3. \A d : IsStore(d) => Flushed(d, u) = d \/ (scope = u.scope /\ OnlyRows(d, Flushed(d, u)))
    <2> TAKE d
    <2> DEFINE m == Updates(d, u)
               x == ChatsOf(m)
    <2>1. Flushed(d, u) = d \/ (scope = u.scope /\ Flushed(d, u) = Receive(d, m, x))
      BY DEF Flushed, Listening
    <2> HIDE DEF m, x
    <2> QED BY <2>1, ReceivesRows
  <1> HIDE DEF told
  <1>4. store' = store \/ (scope \in {o.scope, due.scope} /\ OnlyRows(store, store'))
    <2>1. CASE store' = told
      BY <1>1, <2>1
    <2>2. CASE store' = Flushed(store, u)
      BY <1>3, <2>2
    <2>3. CASE store' = Flushed(told, u)
      <3>1. store' = told \/ (scope = u.scope /\ OnlyRows(told, store'))
        BY <1>2, <1>3, <2>3
      <3> QED BY <1>1, <3>1, OnlyRowsTwice
    <2> QED BY <2>1, <2>2, <2>3 DEF told
  <1> QED BY <1>4 DEF Mute, OnlyRows

\* A read marker moves in the session of the operation only.
LEMMA MarkedMute ==
    ASSUME IsStore(store), NEW o, o.kind \in {"start", "read", "mailbox"}, store' = Marked(store, o)
    PROVE  Mute(o)
  <1> DEFINE m == Max({store.peerRead, known'})
  <1>1. store' = store \/ (o.scope = scope /\ store' = [store EXCEPT !.peerRead = m])
    BY DEF Marked, Listening
  <1> HIDE DEF m
  <1>2. store' = [store EXCEPT !.peerRead = m] => store' = [store EXCEPT !.peerRead = store'.peerRead]
    BY DEF IsStore, StoreFields
  <1> QED BY <1>1, <1>2 DEF Mute

\* The step of an operation of an ended lifecycle.
LEMMA StepsMute ==
    ASSUME StoreIInv, NEW o \in ops,
           \/ HistoryStep(o) \/ DiscoverStep(o) \/ SendStep(o) \/ ReceiptStep(o) \/ MailboxStep(o)
           \/ EventStep(o) \/ ReadStep(o) \/ SelectStep(o) \/ OpenStep(o) \/ SearchUsers(o)
           \/ StartStep(o) \/ ChatsStep(o)
    PROVE  Mute(o)
  <1> SUFFICES ASSUME ~Current(o) PROVE Mute(o)
    BY DEF Mute, Current
  <1>0. IsStore(store) /\ ~IsCurrent(o) /\ ~IsRequest(o) /\ ~IsSearch(o)
    BY OpFacts DEF IsCurrent, IsRequest, IsSearch
  <1>1. CASE HistoryStep(o) \/ DiscoverStep(o)
    <2>1. store' = store
      BY <1>0, <1>1 DEF HistoryStep, HistoryRead, HistoryApply, HistoryFails, DiscoverStep, DiscoverChat,
            DiscoverCache, DiscoverFails
    <2> QED BY <2>1 DEF Mute
  <1>2. CASE ReceiptStep(o) \/ EventStep(o)
    <2>1. store' = store
      BY <1>2 DEF ReceiptStep, ReceiptCommit, ReceiptQueue, ReceiptFails, EventStep, EventIngest,
            EventFilter, EventApply, EventFails, Received
    <2> QED BY <2>1 DEF Mute
  <1>3. CASE SendStep(o)
    <2>1. CASE SendPut(o) \/ SendCommand(o) \/ SendAccept(o)
      BY <2>1 DEF SendPut, SendCommand, SendAccept, Mute
    <2>2. CASE SendPending(o)
      <3>1. store' = Published(o, o.rows) /\ o.kind = "send" /\ due.scope \in {o.scope, due.scope}
        BY <2>2 DEF SendPending, At
      <3> QED BY <1>0, <3>1, PublishesMute
    <2>3. CASE SendShown(o) \/ SendFails(o)
      <3>1. /\ o.kind \in {"send", "retry"} /\ due.scope \in {o.scope, due.scope}
            /\ store' \in {store, Published(o, o.rows), Flushed(store, due),
                           Flushed(Published(o, o.rows), due)}
        BY <2>3 DEF SendShown, SendFails
      <3>2. CASE store' = store
        BY <3>2 DEF Mute
      <3> QED BY <1>0, <3>1, <3>2, PublishesMute
    <2> QED BY <1>3, <2>1, <2>2, <2>3 DEF SendStep
  <1>4. CASE MailboxStep(o)
    <2>0. o.kind = "mailbox"
      BY <1>4 DEF MailboxStep, MailboxSync, MailboxPage, MailboxMetadata, MailboxReads, MailboxMerge,
            MailboxRecover, MailboxJoin, MailboxRecovered, MailboxDecode, MailboxApply, MailboxFails,
            Recovering, At
    <2>1. CASE \/ MailboxSync(o) \/ MailboxPage(o) \/ MailboxRecover(o) \/ MailboxJoin(o)
               \/ MailboxDecode(o) \/ MailboxApply(o) \/ MailboxFails(o)
      <3>1. store' = store
        BY <2>1 DEF MailboxSync, MailboxPage, MailboxRecover, MailboxJoin, MailboxDecode, MailboxApply,
              MailboxFails, MailboxEnded
      <3> QED BY <3>1 DEF Mute
    <2>2. CASE MailboxReads(o) \/ MailboxMerge(o)
      <3>1. store' = Marked(store, o)
        BY <2>2 DEF MailboxReads, MailboxMerge
      <3> QED BY <1>0, <2>0, <3>1, MarkedMute
    <2>3. CASE MailboxMetadata(o)
      <3> DEFINE u == [status |-> MergedMetadata(o.status), scope |-> scope]
      <3>1. o.scope = scope /\ (store' = store \/ store' = Flushed(store, u))
        BY <2>3 DEF MailboxMetadata, QueueDelivery, InScope
      <3>2. u.scope \in {o.scope, due.scope}
        BY <3>1
      <3> HIDE DEF u
      <3>3. CASE store' = store
        BY <3>3 DEF Mute
      <3> QED BY <1>0, <2>0, <3>1, <3>2, <3>3, PublishesMute
    <2>4. CASE MailboxRecovered(o)
      <3> DEFINE m == IF o.status = "none" THEN {} ELSE Visible({OwnRow([own EXCEPT !.status = o.status])})
      <3>1. store' = Published(o, m) \/ store' = Flushed(Published(o, m), due)
        BY <2>4 DEF MailboxRecovered
      <3>2. due.scope \in {o.scope, due.scope}
        OBVIOUS
      <3> HIDE DEF m
      <3> QED BY <1>0, <2>0, <3>1, <3>2, PublishesMute
    <2> QED BY <1>4, <2>1, <2>2, <2>3, <2>4 DEF MailboxStep
  <1>5. CASE ReadStep(o)
    <2>1. o.kind = "read" /\ (store' = store \/ store' = Marked(store, o))
      BY <1>5 DEF ReadStep, ReadCommit, ReadPublish, ReadFails, At
    <2> QED BY <1>0, <2>1, MarkedMute DEF Mute
  <1>6. CASE SelectStep(o) \/ OpenStep(o) \/ SearchUsers(o)
    <2>1. store' = store
      BY <1>0, <1>6 DEF SelectStep, SelectGet, SelectGetFails, SelectHistory, Deselect, OpenStep,
            OpenCreate, OpenHistory, OpenFails, Opened, SearchUsers
    <2> QED BY <2>1 DEF Mute
  <1>7. CASE StartStep(o)
    <2>1. o.kind = "start" /\ (store' = store \/ store' = Marked(store, o))
      BY <1>7 DEF StartStep, StartMetadata, StartFails, StartLoad, Load, At
    <2> QED BY <1>0, <2>1, MarkedMute DEF Mute
  <1>8. CASE ChatsStep(o)
    <2>1. store' = store
      BY <1>8 DEF ChatsStep, ChatsList, ChatsCache, ChatsFail
    <2> QED BY <2>1 DEF Mute
  <1> QED BY <1>1, <1>2, <1>3, <1>4, <1>5, <1>6, <1>7, <1>8

\* The end of a call of the preference: its operation is the head of the queue.
LEMMA PreferenceMute ==
    ASSUME StoreIInv, PreferenceStep
    PROVE  \A p \in Moved : Mute(p)
  <1>1. PICK o : o = Head(queue)
    OBVIOUS
  <1>2. queue # <<>> /\ (Restore(o) \/ Write(o) \/ Clear(o) \/ PreferenceFails(o))
    BY <1>1 DEF PreferenceStep
  <1>3. InLine(o)
    BY <1>1, <1>2, HeadFacts
  <1>4. ops \subseteq ops'
    <2>1. CASE Restore(o)
      BY <2>1 DEF Restore, Restored, Select
    <2>2. CASE Write(o) \/ Clear(o)
      BY <2>2 DEF Write, Clear, GoesOn
    <2>3. CASE PreferenceFails(o)
      BY <1>3, <2>3 DEF PreferenceFails, InLine, Deselect, GoesOn, At
    <2> QED BY <1>2, <2>1, <2>2, <2>3
  <1>5. Mute(o)
    <2> SUFFICES ASSUME ~Current(o), ~IsCurrent(o) PROVE store' = store
      BY DEF Mute, Current, IsCurrent
    <2>1. CASE Restore(o)
      BY <2>1 DEF Restore, Restored
    <2>2. CASE Write(o) \/ Clear(o)
      BY <2>2 DEF Write, Clear, Opened
    <2>3. CASE PreferenceFails(o)
      BY <1>3, <2>3 DEF PreferenceFails, InLine, Deselect, GoesOn, At, Opened
    <2> QED BY <1>2, <2>1, <2>2, <2>3
  <1> QED BY <1>1, <1>4, <1>5 DEF Moved

\* What the visitor, the network and the provider begin moves no operation.
LEMMA OthersMute ==
    ASSUME StoreIInv, Lifecycle \/ Visitor \/ Network \/ UNCHANGED storeVars
    PROVE  \A p \in Moved : Mute(p)
  <1>1. CASE Lifecycle
    <2>1. ops \subseteq ops' /\ queue' = queue
      BY <1>1 DEF Lifecycle, Start, SignOut, Dispose, SignIn, preference
    <2> QED BY <2>1, NoneMoves DEF Waits
  <1>2. CASE Visitor
    <2>1. ops \subseteq ops' /\ Waits
      BY <1>2 DEF Visitor, SelectChat, Select, OpenDirectChat, LoadPreviousMessages, FindPeople,
            SendText, RetryMessage, preference, Waits
    <2> QED BY <2>1, NoneMoves
  <1>3. CASE Network
    <2>1. ops \subseteq ops' /\ queue' = queue
      BY <1>3 DEF Network, Arrive, Ready, Receipt, PeerReads, preference
    <2> QED BY <2>1, NoneMoves DEF Waits
  <1>4. CASE UNCHANGED storeVars
    <2>1. ops \subseteq ops' /\ queue' = queue
      BY <1>4 DEF storeVars, preference
    <2> QED BY <2>1, NoneMoves DEF Waits
  <1> QED BY <1>1, <1>2, <1>3, <1>4

\* A result that comes late changes nothing in the store of a later lifecycle, but for
\* what OutgoingManager and ReadCursorManager publish within the session.
THEOREM LateResultsMute == StoreSpec => EndedRunsAreMute
  <1>1. ASSUME StoreIInv, [StoreNext]_storeVars PROVE \A o \in Moved : Mute(o)
    <2>1. ASSUME NEW o \in ops,
                 \/ HistoryStep(o) \/ DiscoverStep(o) \/ SendStep(o) \/ ReceiptStep(o) \/ MailboxStep(o)
                 \/ EventStep(o) \/ ReadStep(o) \/ SelectStep(o) \/ OpenStep(o) \/ SearchUsers(o)
                 \/ StartStep(o) \/ ChatsStep(o)
          PROVE  \A p \in Moved : Mute(p)
      <3>1. ops \ {o} \subseteq ops' /\ Waits
        BY <2>1, StepsMove
      <3>2. Mute(o)
        BY <1>1, <2>1, StepsMute
      <3> QED BY <1>1, <3>1, <3>2, OneMoves
    <2>2. CASE PreferenceStep
      BY <1>1, <2>2, PreferenceMute
    <2>3. CASE Lifecycle \/ Visitor \/ Network \/ Rest \/ UNCHANGED storeVars
      BY <1>1, <2>3, OthersMute DEF Rest
    <2> QED BY <1>1, <2>1, <2>2, <2>3 DEF StoreNext
  <1>2. StoreIInv /\ [StoreNext]_storeVars =>
           [\A o \in Moved : o.run # run =>
              \/ store' = store
              \/ /\ o.kind \in {"start", "read", "mailbox"} /\ o.scope = scope
                 /\ store' = [store EXCEPT !.peerRead = store'.peerRead]
              \/ /\ o.kind \in {"send", "retry", "mailbox"} /\ scope \in {o.scope, due.scope}
                 /\ store' = [store EXCEPT !.shown = store'.shown, !.discovered = store'.discovered]]_storeVars
    BY <1>1 DEF Mute
  <1> QED BY <1>2, StoreInvariant, PTL DEF StoreSpec, EndedRunsAreMute
=============================================================================
