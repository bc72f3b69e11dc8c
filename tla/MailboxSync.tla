----------------------------- MODULE MailboxSync -----------------------------
(***************************************************************************)
(* How a client brings its mailbox into the browser's durable inbox and    *)
(* acknowledges it: SyncManager over IndexedDBDurableInbox.                *)
(*                                                                         *)
(* Browser tabs share one IndexedDB database.  A tab runs its operations,  *)
(* synchronize and ingest, one at a time; the operations of two tabs       *)
(* interleave at every await.  A step of the model is one IndexedDB        *)
(* transaction or one server call, with the checks around it.  The guards  *)
(* of a step are the checks that would make the code throw: an operation   *)
(* that throws, or whose tab is closed, ends by Fail, and nothing that it  *)
(* has committed is undone.                                                *)
(*                                                                         *)
(* A device identity has a generation; writing a new identity clears all   *)
(* stores.  Generation g has the server mailbox srv[g].  The envelopes of  *)
(* a mailbox are named by their sequence numbers, which the server assigns *)
(* without gaps (MailboxGapless of MessageDelivery).                       *)
(***************************************************************************)
EXTENDS Naturals, FiniteSets

CONSTANTS
    Tabs,           \* browser tabs
    MaxSeq,         \* bound on the sequence numbers of a mailbox
    MaxGeneration,  \* bound on the identities a browser goes through
    PageLimit       \* the page size that the client asks for

ASSUME SyncAssumption ==
    /\ MaxSeq \in Nat
    /\ MaxGeneration \in Nat \ {0}
    /\ PageLimit \in Nat \ {0}

Seqs == 1..MaxSeq
Generations == 1..MaxGeneration

VARIABLES
    srv,        \* srv[g][n]: what the server keeps of envelope n of mailbox g
    live,       \* live[g]: envelopes that a realtime event still carries
    generation, \* the generation of the stored identity
    cursor,     \* cursor[g]: the stored mailbox cursor
    local,      \* local[g][n]: the stored row of envelope n
    filled,     \* the generations whose sequence backfill is finished
    pc,         \* pc[t]: the next step of tab t's operation, or "idle"
    job         \* job[t]: the local variables of tab t's operation

vars == <<srv, live, generation, cursor, local, filled, pc, job>>
server == <<srv, live>>
inbox == <<generation, cursor, local, filled>>

Row == [stored : BOOLEAN, payload : BOOLEAN, delivered : BOOLEAN]
NoRow == [stored |-> FALSE, payload |-> FALSE, delivered |-> FALSE]
Received == [stored |-> TRUE, payload |-> TRUE, delivered |-> FALSE]
ServerRow(s) == [stored |-> TRUE, payload |-> s = "held", delivered |-> s = "acked"]

NoJob == [gen |-> 1, ingests |-> 0, current |-> TRUE, cur |-> 0, after |-> 0,
          through |-> 0, dev |-> 1, page |-> <<>>, more |-> FALSE, todo |-> {},
          then |-> "idle"]

----------------------------------------------------------------------------
(* IndexedDBDurableInbox *)

\* Mutant: the server's copy replaces the local one.
MergeOverwriting(new, old) == [new EXCEPT !.stored = TRUE]

\* commitPage keeps a received payload and a receipt that the new copy lacks.
Merge(new, old) == [stored |-> TRUE, payload |-> new.payload \/ old.payload,
                    delivered |-> new.delivered \/ old.delivered]

\* Mutant: the generation is not validated.
ValidateNothing(g) == TRUE

\* validate: the scope of the operation is the stored identity.
Validate(g) == generation = g

\* Mutant: the expected cursor is not compared.
CommitAnyCursor(g, expected) == Validate(g)

CanCommit(g, expected) == Validate(g) /\ cursor[g] = expected

\* commitPage: one transaction stores the rows and the next cursor.
CommitPage(g, expected, rows, next) ==
    /\ CanCommit(g, expected)
    /\ next >= expected
    /\ local' = [local EXCEPT ![g] = [n \in Seqs |->
                    IF n \in DOMAIN rows THEN Merge(rows[n], @[n]) ELSE @[n]]]
    /\ cursor' = [cursor EXCEPT ![g] = next]
    /\ UNCHANGED <<generation, filled>>

\* Mutant: the rows are looked for past the cursor.
PendingPastCursor(g) == {n \in Seqs : local[g][n].payload /\ n > cursor[g]}

\* getPendingAcknowledgments, through the index on pending rows.
Pending(g) == {n \in Seqs : local[g][n].payload /\ ~local[g][n].delivered}

----------------------------------------------------------------------------
(* The server, as far as it can be seen here *)

Stored(g) == {n \in Seqs : srv[g][n] # "none"}

\* A delivery: the envelope is stored and a realtime event is published.
Deliver(g) ==
    \E n \in Seqs \ Stored(g) :
        /\ \A m \in Seqs : m < n => m \in Stored(g)
        /\ srv' = [srv EXCEPT ![g][n] = "held"]
        /\ live' = [live EXCEPT ![g] = @ \cup {n}]
        /\ UNCHANGED <<inbox, pc, job>>

\* The payload expires and is purged (EnvelopeStore).
Expire(g) ==
    \E n \in Seqs :
        /\ srv[g][n] = "held"
        /\ srv' = [srv EXCEPT ![g][n] = "expired"]
        /\ UNCHANGED <<live, inbox, pc, job>>

\* An event that reaches no tab.
LoseEvent(g) ==
    \E n \in live[g] :
        /\ live' = [live EXCEPT ![g] = @ \ {n}]
        /\ UNCHANGED <<srv, inbox, pc, job>>

\* The sequence numbers of a page of mailbox d, the first PageLimit after `after`.
PageSeqs(d, after) ==
    {n \in Stored(d) : n > after
        /\ Cardinality({m \in Stored(d) : after < m /\ m < n}) < PageLimit}
HasMore(d, after) == {n \in Stored(d) : n > after} # PageSeqs(d, after)

----------------------------------------------------------------------------
(* SyncManager *)

Running(t, label) == pc[t] = label
AssertCurrent(t) == job[t].current
Goto(t, label) == pc' = [pc EXCEPT ![t] = label]

\* An operation starts with the scope of the tab, which may be that of an
\* identity that another tab has replaced.
StartSync(t) ==
    /\ Running(t, "idle")
    /\ \E g \in 1..generation : job' = [job EXCEPT ![t] = [NoJob EXCEPT !.gen = g]]
    /\ Goto(t, "backfill")
    /\ UNCHANGED <<server, inbox>>

\* ingest(envelope), for an envelope of the tab's own device.
StartIngest(t) ==
    /\ Running(t, "idle")
    /\ \E g \in 1..generation : \E n \in live[g] :
        /\ live' = [live EXCEPT ![g] = @ \ {n}]
        /\ job' = [job EXCEPT ![t] = [NoJob EXCEPT !.gen = g, !.ingests = n]]
    /\ Goto(t, "ingest")
    /\ UNCHANGED <<srv, inbox>>

\* activate or deactivate replaces the scope object while an operation runs.
Deactivate(t) ==
    /\ pc[t] # "idle"
    /\ job' = [job EXCEPT ![t].current = FALSE]
    /\ UNCHANGED <<server, inbox, pc>>

\* The operation throws (a check fails, a call or a transaction fails), or the
\* tab is closed or reloaded.
Fail(t) ==
    /\ pc[t] # "idle"
    /\ Goto(t, "idle")
    /\ job' = [job EXCEPT ![t] = NoJob]
    /\ UNCHANGED <<server, inbox>>

(* backfillSequences *)

\* needsSequenceBackfill, and the cursor up to which rows are fetched again.
BackfillStart(t) ==
    LET g == job[t].gen
    IN /\ Running(t, "backfill")
       /\ Validate(g)
       /\ \/ /\ g \in filled
             /\ job' = [job EXCEPT ![t].then = "page"]
             /\ Goto(t, "pending")
          \/ /\ g \notin filled
             /\ job' = [job EXCEPT ![t].through = cursor[g]]
             /\ Goto(t, IF cursor[g] = 0 THEN "backfill_end" ELSE "backfill_fetch")
       /\ UNCHANGED <<server, inbox>>

\* A page as the server answers it, to a tab that holds the token of device d.
Fetch(t, d, after) ==
    job' = [job EXCEPT ![t].dev = d, ![t].more = HasMore(d, after),
                       ![t].page = [n \in PageSeqs(d, after) |-> ServerRow(srv[d][n])]]

\* validatePage: the envelopes are those of the scope's device that follow.
ValidatePage(j, after) ==
    LET seqs == DOMAIN j.page
    IN /\ seqs # {} => j.dev = j.gen
       /\ seqs = (after + 1)..(after + Cardinality(seqs))
       /\ ~(j.more /\ seqs = {})

\* nextSeq of the page, which validatePage has compared with its last envelope.
NextSeq(j, after) == after + Cardinality(DOMAIN j.page)

BackfillFetch(t) ==
    /\ Running(t, "backfill_fetch")
    /\ AssertCurrent(t)
    /\ \E d \in 1..generation : Fetch(t, d, job[t].after)
    /\ Goto(t, "backfill_cursor")
    /\ UNCHANGED <<server, inbox>>

BackfillCursor(t) ==
    /\ Running(t, "backfill_cursor")
    /\ AssertCurrent(t)
    /\ ValidatePage(job[t], job[t].after)
    /\ Validate(job[t].gen)
    /\ job' = [job EXCEPT ![t].cur = cursor[job[t].gen]]
    /\ Goto(t, "backfill_commit")
    /\ UNCHANGED <<server, inbox>>

BackfillCommit(t) ==
    LET j == job[t]
        next == NextSeq(j, j.after)
    IN /\ Running(t, "backfill_commit")
       /\ CommitPage(j.gen, j.cur, j.page, IF next > j.cur THEN next ELSE j.cur)
       /\ job' = [job EXCEPT ![t].after = next, ![t].page = <<>>, ![t].cur = 0]
       /\ Goto(t, IF next < j.through /\ j.more THEN "backfill_fetch" ELSE "backfill_end")
       /\ UNCHANGED server

BackfillEnd(t) ==
    LET g == job[t].gen
    IN /\ Running(t, "backfill_end")
       /\ AssertCurrent(t)
       /\ Validate(g)
       /\ filled' = filled \cup {g}
       /\ job' = [job EXCEPT ![t] = [NoJob EXCEPT !.gen = g, !.then = "page",
                                                  !.current = job[t].current]]
       /\ Goto(t, "pending")
       /\ UNCHANGED <<server, generation, cursor, local>>

(* pageMailbox *)

PageCursor(t) ==
    /\ Running(t, "page")
    /\ AssertCurrent(t)
    /\ Validate(job[t].gen)
    /\ job' = [job EXCEPT ![t].cur = cursor[job[t].gen]]
    /\ Goto(t, "page_fetch")
    /\ UNCHANGED <<server, inbox>>

PageFetch(t) ==
    /\ Running(t, "page_fetch")
    /\ \E d \in 1..generation : Fetch(t, d, job[t].cur)
    /\ Goto(t, "page_commit")
    /\ UNCHANGED <<server, inbox>>

\* After the page and its acknowledgements: the next page, or what called
\* pageMailbox.
PageCommit(t) ==
    LET j == job[t]
    IN /\ Running(t, "page_commit")
       /\ AssertCurrent(t)
       /\ ValidatePage(j, j.cur)
       /\ CommitPage(j.gen, j.cur, j.page, NextSeq(j, j.cur))
       /\ job' = [job EXCEPT ![t].page = <<>>, ![t].cur = 0, ![t].more = FALSE,
                     ![t].then = IF j.more THEN "page"
                                 ELSE IF j.ingests # 0 THEN "ingest_again" ELSE "idle"]
       /\ Goto(t, "pending")
       /\ UNCHANGED server

(* acknowledgePending *)

PendingRead(t) ==
    /\ Running(t, "pending")
    /\ Validate(job[t].gen)
    /\ job' = [job EXCEPT ![t].todo = Pending(job[t].gen)]
    /\ Goto(t, "ack")
    /\ UNCHANGED <<server, inbox>>

AckedBy(n, t) == [srv EXCEPT ![job[t].gen][n] = "acked"]

\* Mutant: the receipt is stored before the server has been asked.
AckBeforeAsking(t) ==
    /\ Running(t, "ack")
    /\ AssertCurrent(t)
    /\ \E n \in job[t].todo :
        job' = [job EXCEPT ![t].after = n, ![t].todo = @ \ {n}]
    /\ Goto(t, "receipt")
    /\ UNCHANGED <<server, inbox>>

\* The ACK is applied by the server and its receipt comes back.
AckRequest(t) ==
    /\ Running(t, "ack")
    /\ AssertCurrent(t)
    /\ \E n \in job[t].todo :
        /\ srv' = AckedBy(n, t)
        /\ job' = [job EXCEPT ![t].after = n, ![t].todo = @ \ {n}]
    /\ Goto(t, "receipt")
    /\ UNCHANGED <<live, inbox>>

\* The call fails, before or after the server has applied it; the row keeps its
\* place in the index and is tried again by a later operation.
AckUnanswered(t) ==
    /\ Running(t, "ack")
    /\ AssertCurrent(t)
    /\ \E n \in job[t].todo :
        /\ srv' \in {srv, AckedBy(n, t)}
        /\ job' = [job EXCEPT ![t].todo = @ \ {n}]
    /\ UNCHANGED <<live, inbox, pc>>

AckDone(t) ==
    /\ Running(t, "ack")
    /\ job[t].todo = {}
    /\ Goto(t, job[t].then)
    /\ job' = [job EXCEPT ![t] = IF job[t].then = "idle" THEN NoJob
                                 ELSE [job[t] EXCEPT !.then = "idle", !.after = 0]]
    /\ UNCHANGED <<server, inbox>>

ReceiptCursor(t) ==
    /\ Running(t, "receipt")
    /\ AssertCurrent(t)
    /\ Validate(job[t].gen)
    /\ job' = [job EXCEPT ![t].cur = cursor[job[t].gen]]
    /\ Goto(t, "receipt_commit")
    /\ UNCHANGED <<server, inbox>>

\* The receipt is stored with the payload of the pending row.
ReceiptCommit(t) ==
    LET j == job[t]
    IN /\ Running(t, "receipt_commit")
       /\ CommitPage(j.gen, j.cur, [n \in {j.after} |-> [Received EXCEPT !.delivered = TRUE]],
                     j.cur)
       /\ job' = [job EXCEPT ![t].after = 0, ![t].cur = 0]
       /\ Goto(t, "ack")
       /\ UNCHANGED server

\* "Lost receipt commit is safe to retry idempotently."
ReceiptLost(t) ==
    /\ Running(t, "receipt_commit")
    /\ AssertCurrent(t)
    /\ job' = [job EXCEPT ![t].after = 0, ![t].cur = 0]
    /\ Goto(t, "ack")
    /\ UNCHANGED <<server, inbox>>

(* ingest *)

\* Mutant: an event that is ahead of the cursor is taken as it comes.
IngestAhead(t) ==
    /\ Running(t, "ingest")
    /\ Validate(job[t].gen)
    /\ job' = [job EXCEPT ![t].cur = cursor[job[t].gen]]
    /\ Goto(t, "ingest_commit")
    /\ UNCHANGED <<server, inbox>>

IngestStart(t) ==
    LET c == cursor[job[t].gen]
    IN /\ Running(t, "ingest")
       /\ AssertCurrent(t)
       /\ Validate(job[t].gen)
       /\ \/ /\ job[t].ingests > c + 1
             /\ Goto(t, "page")
             /\ UNCHANGED job
          \/ /\ job[t].ingests <= c + 1
             /\ Goto(t, "ingest_commit")
             /\ job' = [job EXCEPT ![t].cur = c]
       /\ UNCHANGED <<server, inbox>>

\* The cursor is read again after the pages.
IngestAgain(t) ==
    LET c == cursor[job[t].gen]
    IN /\ Running(t, "ingest_again")
       /\ Validate(job[t].gen)
       /\ job[t].ingests <= c + 1
       /\ Goto(t, "ingest_commit")
       /\ job' = [job EXCEPT ![t].cur = c]
       /\ UNCHANGED <<server, inbox>>

IngestCommit(t) ==
    LET j == job[t]
    IN /\ Running(t, "ingest_commit")
       /\ AssertCurrent(t)
       /\ CommitPage(j.gen, j.cur, [n \in {j.ingests} |-> Received],
                     IF j.ingests > j.cur THEN j.ingests ELSE j.cur)
       /\ job' = [job EXCEPT ![t].ingests = 0, ![t].cur = 0, ![t].then = "idle"]
       /\ Goto(t, "pending")
       /\ UNCHANGED server

----------------------------------------------------------------------------
\* write: a new identity clears every store.
Reset ==
    /\ generation < MaxGeneration
    /\ generation' = generation + 1
    /\ cursor' = [g \in Generations |-> 0]
    /\ local' = [g \in Generations |-> [n \in Seqs |-> NoRow]]
    /\ filled' = {}
    /\ UNCHANGED <<server, pc, job>>

Init ==
    /\ srv = [g \in Generations |-> [n \in Seqs |-> "none"]]
    /\ live = [g \in Generations |-> {}]
    /\ generation = 1
    /\ cursor = [g \in Generations |-> 0]
    /\ local = [g \in Generations |-> [n \in Seqs |-> NoRow]]
    /\ filled = {}
    /\ pc = [t \in Tabs |-> "idle"]
    /\ job = [t \in Tabs |-> NoJob]

\* The steps of an operation in which no call and no transaction fails.
Advance(t) ==
    \/ BackfillStart(t) \/ BackfillFetch(t) \/ BackfillCursor(t) \/ BackfillCommit(t)
    \/ BackfillEnd(t) \/ PageCursor(t) \/ PageFetch(t) \/ PageCommit(t)
    \/ PendingRead(t) \/ AckRequest(t) \/ AckDone(t) \/ ReceiptCursor(t)
    \/ ReceiptCommit(t) \/ IngestStart(t) \/ IngestAgain(t) \/ IngestCommit(t)

Next ==
    \/ \E g \in 1..generation : Deliver(g) \/ Expire(g) \/ LoseEvent(g)
    \/ \E t \in Tabs :
        \/ StartSync(t) \/ StartIngest(t) \/ Advance(t)
        \/ AckUnanswered(t) \/ ReceiptLost(t) \/ Deactivate(t) \/ Fail(t)
    \/ Reset

Spec == Init /\ [][Next]_vars

\* A tab synchronizes when it starts and whenever its connection is ready, and
\* no connection lasts for ever; an operation that runs goes on or throws.
FairSpec ==
    /\ Spec
    /\ \A t \in Tabs : WF_vars(StartSync(t)) /\ WF_vars(Advance(t) \/ Fail(t))

----------------------------------------------------------------------------
(* Properties *)

TypeOK ==
    /\ srv \in [Generations -> [Seqs -> {"none", "held", "acked", "expired"}]]
    /\ live \in [Generations -> SUBSET Seqs]
    /\ generation \in Generations
    /\ cursor \in [Generations -> 0..MaxSeq]
    /\ local \in [Generations -> [Seqs -> Row]]
    /\ filled \subseteq Generations
    /\ \A t \in Tabs : job[t].gen \in Generations /\ job[t].todo \subseteq Seqs

\* "Gaps and failed transactions cannot advance the cursor": the inbox holds
\* exactly the envelopes up to the cursor, whatever order events, pages and the
\* commits of two tabs come in.
CursorCoversStored ==
    \A g \in Generations, n \in Seqs : local[g][n].stored = (n <= cursor[g])

\* A receipt is stored only for an envelope that the server has marked.
ReceiptIsTrue ==
    \A n \in Seqs : local[generation][n].delivered => srv[generation][n] = "acked"

\* An operation of a replaced identity never writes into the inbox again.
NoRowsOfOldGeneration ==
    \A g \in Generations : g # generation =>
        /\ cursor[g] = 0
        /\ g \notin filled
        /\ \A n \in Seqs : ~local[g][n].stored

\* Until the identity is replaced the cursor never moves back and no row loses
\* its payload or its receipt: two tabs, stale pages and late events included.
InboxOnlyGrows ==
    [][generation' = generation =>
        /\ cursor'[generation] >= cursor[generation]
        /\ \A n \in Seqs : Merge(local'[generation][n], local[generation][n])
                           = Merge(local'[generation][n], NoRow)]_vars

\* A step with the scope or the access token of an identity that is not the
\* stored one: the tab has not noticed yet that it was replaced.
Behind(t) ==
    \/ (StartSync(t) \/ StartIngest(t)) /\ job'[t].gen # generation
    \/ (BackfillFetch(t) \/ PageFetch(t)) /\ job'[t].dev # job[t].gen

\* A failure that comes from outside, not from a check of the operation: of a
\* call or of a transaction, a sign-out, a closed tab.
Fault(t) ==
    \/ AckUnanswered(t) \/ ReceiptLost(t) \/ Deactivate(t)
    \/ Fail(t) /\ ~Advance(t) /\ ENABLED Advance(t)

\* Every envelope that the server has for the stored identity is in the inbox,
\* with its receipt unless the payload had expired before.
Settled ==
    \A n \in Seqs : srv[generation][n] # "none" =>
        /\ local[generation][n].stored
        /\ local[generation][n].payload => local[generation][n].delivered

\* Once failures have ceased and the tabs use the stored identity, the inbox
\* catches up with the mailbox: whatever an interrupted operation left behind,
\* later ones complete it.
EverythingSettles ==
    <>[][\A t \in Tabs : ~Fault(t) /\ ~Behind(t)]_vars => []<>Settled

\* Who keeps a payload, in the terms of MailboxCustody.  The server having
\* purged on an ACK what the device has not stored is none of its states.
custody ==
    [g \in Generations |-> [n \in Seqs |->
        CASE g < generation -> "abandoned"
          [] g >= generation /\ srv[g][n] = "none" -> "unsent"
          [] g >= generation /\ srv[g][n] = "held" ->
                IF local[g][n].payload THEN "both" ELSE "server"
          [] g >= generation /\ srv[g][n] = "expired" ->
                IF local[g][n].payload THEN "device" ELSE "expired"
          [] g >= generation /\ srv[g][n] = "acked" ->
                IF local[g][n].payload THEN "device" ELSE "lost"]]

Custody == INSTANCE MailboxCustody WITH custody <- custody

\* The mailbox and the inbox together implement the custody of the payloads.
ImplementsCustody == Custody!Spec
=============================================================================
