-------------------------- MODULE MailboxSyncProofs --------------------------
(***************************************************************************)
(* Proofs about MailboxSync, for any number of tabs, identities and        *)
(* envelopes and any page size.                                            *)
(***************************************************************************)
EXTENDS MailboxSync, FiniteSetTheorems, TLAPS

----------------------------------------------------------------------------
(* The inductive invariant *)

Labels == {"idle", "backfill", "backfill_fetch", "backfill_cursor", "backfill_commit",
           "backfill_end", "page", "page_fetch", "page_commit", "pending", "ack",
           "receipt", "receipt_commit", "ingest", "ingest_again", "ingest_commit"}

\* The pages that a server can answer with.
Pages == UNION {[S -> Row] : S \in SUBSET Seqs}

\* The local variables of an operation.
Job == [gen : Generations, ingests : 0..MaxSeq, current : BOOLEAN, cur : 0..MaxSeq,
        after : 0..MaxSeq, through : 0..MaxSeq, dev : Generations, page : Pages,
        more : BOOLEAN, todo : SUBSET Seqs, then : {"idle", "page", "ingest_again"}]

\* What the rows of envelopes n and on the way are worth: the server has stored them,
\* and has marked those that carry a receipt.
RowsTrue(d, rows) ==
    \A n \in (DOMAIN rows) \cap Seqs :
        /\ rows[n] \in Row
        /\ srv[d][n] # "none"
        /\ rows[n].delivered => srv[d][n] = "acked"

\* What an operation with the local variables j, at label, has read and still relies
\* on.  What it has read of the inbox counts while its identity is the stored one.
JobFits(j, label) ==
    /\ j.gen <= generation
    /\ j.ingests # 0 => srv[j.gen][j.ingests] # "none"
    /\ RowsTrue(j.dev, j.page)
    /\ label = "backfill" => j.after = 0
    /\ label \in {"backfill_fetch", "backfill_cursor", "backfill_commit"} /\ j.gen = generation
        => j.after <= cursor[j.gen]
    /\ label = "backfill_commit" => ValidatePage(j, j.after)
    /\ j.gen = generation => \A n \in j.todo : local[j.gen][n].payload
    /\ label \in {"receipt", "receipt_commit"} =>
        /\ j.after \in Seqs
        /\ srv[j.gen][j.after] = "acked"
        /\ j.gen = generation => local[j.gen][j.after].payload
    /\ label = "ingest_commit" => j.ingests <= j.cur + 1

JobOK(t) == JobFits(job[t], pc[t])

Types ==
    /\ TypeOK
    /\ pc \in [Tabs -> Labels]
    /\ job \in [Tabs -> Job]

\* What the server has given away is in the inbox of the stored identity, and the
\* inbox has nothing that the server did not store.
Custodians ==
    /\ \A g \in Generations, n \in Seqs :
        /\ g > generation => srv[g][n] = "none"
        /\ local[g][n].payload \/ local[g][n].delivered => local[g][n].stored
        /\ local[g][n].payload => srv[g][n] # "none"
        /\ n \in live[g] => srv[g][n] # "none"
    /\ \A n \in Seqs : srv[generation][n] = "acked" => local[generation][n].payload

Shared ==
    Custodians /\ CursorCoversStored /\ NoRowsOfOldGeneration /\ ReceiptIsTrue

IInv == Types /\ Shared /\ \A t \in Tabs : JobOK(t)

----------------------------------------------------------------------------
(* Facts about the operators *)

\* Equality of truth values as an equivalence.
LEMMA TruthValues ==
  ASSUME NEW x \in BOOLEAN, NEW y \in BOOLEAN
  PROVE  (x <=> y) <=> (x = y)
  OBVIOUS

\* The same for a row of the inbox and the cursor.
LEMMA StoredUpTo ==
  ASSUME NEW row \in Row, NEW n, NEW c
  PROVE  (row.stored <=> n <= c) <=> (row.stored = (n <= c))
<1>1. row.stored \in BOOLEAN
  BY DEF Row
<1>2. (n <= c) \in BOOLEAN
  OBVIOUS
<1> QED
  BY <1>1, <1>2, TruthValues, Zenon

\* The rows are stored up to the cursor, as an equivalence.
LEMMA CoveredRows ==
  ASSUME local \in [Generations -> [Seqs -> Row]]
  PROVE  CursorCoversStored <=>
            \A g \in Generations, n \in Seqs : local[g][n].stored <=> n <= cursor[g]
<1>1. \A g \in Generations, n \in Seqs : local[g][n] \in Row
  OBVIOUS
<1>2. ASSUME NEW g \in Generations, NEW n \in Seqs
      PROVE  (local[g][n].stored <=> n <= cursor[g]) <=> (local[g][n].stored = (n <= cursor[g]))
  BY <1>1, StoredUpTo, Zenon
<1> QED
  BY <1>2, Zenon DEF CursorCoversStored

\* The page of an operation that holds none.
LEMMA EmptyPage == <<>> \in Pages /\ DOMAIN <<>> = {}
<1>1. DOMAIN <<>> = {}
  OBVIOUS
<1>2. <<>> \in [{} -> Row]
  OBVIOUS
<1> QED
  BY <1>1, <1>2 DEF Pages

\* A page holds rows, and finitely many.
LEMMA PageFacts ==
  ASSUME NEW page \in Pages
  PROVE  /\ DOMAIN page \subseteq Seqs
         /\ \A n \in DOMAIN page : page[n] \in Row
         /\ IsFiniteSet(DOMAIN page) /\ Cardinality(DOMAIN page) \in Nat
         /\ DOMAIN page = {} => Cardinality(DOMAIN page) = 0
<1>1. DOMAIN page \subseteq Seqs /\ \A n \in DOMAIN page : page[n] \in Row
  BY DEF Pages
<1>2. IsFiniteSet(Seqs)
  BY FS_Interval, SyncAssumption DEF Seqs
<1>3. IsFiniteSet(DOMAIN page)
  BY <1>1, <1>2, FS_Subset
<1> QED
  BY <1>1, <1>3, FS_CardinalityType, FS_EmptySet

\* The rows that commitPage writes.
LEMMA MergedRow ==
  ASSUME NEW new \in Row, NEW old \in Row
  PROVE  /\ Merge(new, old) \in Row
         /\ Merge(new, old).stored
         /\ Merge(new, old).payload <=> new.payload \/ old.payload
         /\ Merge(new, old).delivered <=> new.delivered \/ old.delivered
  BY DEF Merge, Row

\* A validated page continues where the client is: together they reach up to nextSeq.
LEMMA PageContinues ==
  ASSUME NEW j \in Job, NEW after \in 0..MaxSeq, ValidatePage(j, after)
  PROVE  /\ NextSeq(j, after) \in after..MaxSeq
         /\ \A n \in Seqs : n \in DOMAIN j.page <=> after < n /\ n <= NextSeq(j, after)
         /\ (DOMAIN j.page) # {} => j.dev = j.gen
<1> DEFINE c == Cardinality(DOMAIN j.page)
<1>1. j.page \in Pages
  BY DEF Job
<1>2. c \in Nat /\ DOMAIN j.page \subseteq Seqs
  BY <1>1, PageFacts
<1>3. DOMAIN j.page = (after + 1)..(after + c) /\ ((DOMAIN j.page) # {} => j.dev = j.gen)
  BY DEF ValidatePage
<1>4. MaxSeq \in Nat
  BY SyncAssumption
<1>5. after + c <= MaxSeq
  <2>1. CASE c = 0
    BY <2>1, <1>4
  <2>2. CASE c # 0
    <3>1. after + c \in (after + 1)..(after + c)
      BY <2>2, <1>2, <1>4
    <3>2. after + c \in Seqs
      BY <3>1, <1>2, <1>3
    <3> QED
      BY <3>2 DEF Seqs
  <2> QED
    BY <2>1, <2>2
<1>6. NextSeq(j, after) = after + c
  BY DEF NextSeq
<1> HIDE DEF c
<1> QED
  BY <1>2, <1>3, <1>4, <1>5, <1>6 DEF Seqs

\* At the beginning nothing is stored anywhere.
LEMMA InitIInv == Init => IInv
<1> SUFFICES ASSUME Init PROVE IInv
  OBVIOUS
<1> USE SyncAssumption DEF Init
<1>1. NoJob \in Job
  BY EmptyPage DEF NoJob, Job, Generations
<1>2. 1 \in Generations
  BY DEF Generations
<1>3. Types
  BY <1>1, <1>2 DEF Types, TypeOK, Labels, NoRow, Row, Job
<1>4. Shared
  <2>1. \A g \in Generations, n \in Seqs :
            /\ local[g][n].stored = FALSE /\ local[g][n].payload = FALSE
            /\ local[g][n].delivered = FALSE /\ srv[g][n] = "none" /\ cursor[g] = 0
            /\ n \notin live[g] /\ ~(n <= cursor[g])
    BY DEF NoRow, Seqs
  <2>2. Custodians
    BY <2>1, <1>2 DEF Custodians
  <2>3. CursorCoversStored
    BY <2>1, <1>3, CoveredRows DEF Types, TypeOK
  <2>4. NoRowsOfOldGeneration /\ ReceiptIsTrue
    BY <2>1, <1>2 DEF NoRowsOfOldGeneration, ReceiptIsTrue
  <2> QED
    BY <2>2, <2>3, <2>4 DEF Shared
<1>5. ASSUME NEW t \in Tabs PROVE JobOK(t)
  BY <1>2, <1>5, EmptyPage DEF JobOK, JobFits, RowsTrue, NoJob, Generations
<1> QED
  BY <1>3, <1>4, <1>5 DEF IInv

----------------------------------------------------------------------------
(* What a step may do to the tabs that do not take it *)

\* The server forgets no envelope and no receipt; within one identity the cursor
\* moves forward and payloads stay.
Progress ==
    /\ generation <= generation'
    /\ \A g \in Generations, n \in Seqs :
        /\ srv[g][n] # "none" => srv'[g][n] # "none"
        /\ srv[g][n] = "acked" => srv'[g][n] = "acked"
    /\ generation' = generation =>
        /\ cursor[generation] <= cursor'[generation]
        /\ \A n \in Seqs : local[generation][n].payload => local'[generation][n].payload

\* Rows under way stay true.
LEMMA RowsStayTrue ==
  ASSUME Progress, NEW d \in Generations, NEW rows, RowsTrue(d, rows)
  PROVE  RowsTrue(d, rows)'
  BY DEF RowsTrue, Progress

\* The fields of an operation.
LEMMA JobFields ==
  ASSUME Types, NEW t \in Tabs
  PROVE  /\ job[t] \in Job
         /\ job[t].gen \in Generations /\ job[t].dev \in Generations
         /\ job[t].ingests \in 0..MaxSeq /\ job[t].cur \in 0..MaxSeq
         /\ job[t].after \in 0..MaxSeq /\ job[t].through \in 0..MaxSeq
         /\ job[t].page \in Pages /\ job[t].todo \subseteq Seqs
         /\ job[t].then \in {"idle", "page", "ingest_again"}
         /\ job[t].more \in BOOLEAN /\ job[t].current \in BOOLEAN
  BY DEF Types, Job

\* What an operation relies on is not taken back.
LEMMA StillFits ==
  ASSUME Types, Types', Progress, NEW j \in Job, NEW label, JobFits(j, label)
  PROVE  JobFits(j, label)'
<1>0. /\ j.gen \in Generations /\ j.dev \in Generations /\ j.ingests \in 0..MaxSeq
      /\ j.todo \subseteq Seqs /\ MaxSeq \in Nat
      /\ generation \in Nat /\ generation' \in Nat /\ j.gen \in Nat
      /\ \A g \in Generations : cursor[g] \in Nat /\ cursor'[g] \in Nat
      /\ j.after \in Nat
  <2>1. /\ j.gen \in Generations /\ j.dev \in Generations /\ j.ingests \in 0..MaxSeq
        /\ j.todo \subseteq Seqs /\ j.after \in 0..MaxSeq
    BY DEF Job
  <2>2. /\ generation \in Generations /\ generation' \in Generations
        /\ \A g \in Generations : cursor[g] \in 0..MaxSeq /\ cursor'[g] \in 0..MaxSeq
    BY DEF Types, TypeOK
  <2>3. MaxSeq \in Nat /\ \A g \in Generations : g \in Nat
    BY SyncAssumption DEF Generations
  <2> QED
    BY <2>1, <2>2, <2>3
<1>1. j.gen <= generation'
  BY <1>0 DEF JobFits, Progress
<1>2. j.gen = generation' => j.gen = generation /\ generation' = generation
  BY <1>0 DEF JobFits, Progress
<1>3. j.ingests # 0 => srv'[j.gen][j.ingests] # "none"
  BY <1>0 DEF JobFits, Progress, Seqs
<1>4. RowsTrue(j.dev, j.page)'
  BY <1>0, RowsStayTrue DEF JobFits
<1>5. /\ label \in {"backfill_fetch", "backfill_cursor", "backfill_commit"}
      /\ j.gen = generation'
      => j.after <= cursor'[j.gen]
  BY <1>0, <1>2 DEF JobFits, Progress
<1>6. j.gen = generation' => \A n \in j.todo : local'[j.gen][n].payload
  BY <1>0, <1>2 DEF JobFits, Progress
<1>7. label \in {"receipt", "receipt_commit"} =>
        /\ j.after \in Seqs
        /\ srv'[j.gen][j.after] = "acked"
        /\ j.gen = generation' => local'[j.gen][j.after].payload
  BY <1>0, <1>2 DEF JobFits, Progress
<1>8. label = "backfill_commit" => ValidatePage(j, j.after)
  BY DEF JobFits
<1> QED
  BY <1>1, <1>3, <1>4, <1>5, <1>6, <1>7, <1>8 DEF JobFits, ValidatePage

\* A tab whose local variables are j after the step keeps its part.
LEMMA TabKeeps ==
  ASSUME Types, Types', Progress, NEW t \in Tabs, NEW j \in Job, NEW label,
         job'[t] = j, pc'[t] = label, JobFits(j, label)
  PROVE  JobOK(t)'
<1>1. JobFits(j, label)'
  BY StillFits
<1> QED
  BY <1>1 DEF JobOK, JobFits, RowsTrue, ValidatePage

\* An operation of another tab is not disturbed.
LEMMA OtherTab ==
  ASSUME Types, Types', Progress, NEW t \in Tabs, JobOK(t),
         pc'[t] = pc[t], job'[t] = job[t]
  PROVE  JobOK(t)'
<1>1. job[t] \in Job
  BY JobFields
<1>2. PICK j \in Job : j = job[t]
  BY <1>1
<1>3. PICK label : label = pc[t]
  OBVIOUS
<1>4. JobFits(j, label)
  BY <1>2, <1>3 DEF JobOK
<1> QED
  BY <1>2, <1>3, <1>4, TabKeeps

\* Tab t moves to label with the local variables j; the others do nothing.
TabMoves(t, j, label) == job' = [job EXCEPT ![t] = j] /\ pc' = [pc EXCEPT ![t] = label]

\* The types of the tabs' variables after a step of one.
LEMMA TabTypes ==
  ASSUME Types, NEW t \in Tabs, NEW j \in Job, NEW label \in Labels, TabMoves(t, j, label)
  PROVE  /\ pc' \in [Tabs -> Labels] /\ job' \in [Tabs -> Job]
         /\ \A q \in Tabs : job'[q].gen \in Generations /\ job'[q].todo \subseteq Seqs
         /\ job'[t] = j /\ pc'[t] = label
         /\ \A q \in Tabs \ {t} : pc'[q] = pc[q] /\ job'[q] = job[q]
<1>1. job' \in [Tabs -> Job] /\ pc' \in [Tabs -> Labels]
  BY DEF Types, TabMoves
<1>2. \A q \in Tabs : job'[q].gen \in Generations /\ job'[q].todo \subseteq Seqs
  BY <1>1 DEF Job
<1>3. /\ job'[t] = j /\ pc'[t] = label
      /\ \A q \in Tabs \ {t} : pc'[q] = pc[q] /\ job'[q] = job[q]
  BY DEF Types, TabMoves
<1> QED
  BY <1>1, <1>2, <1>3

\* A step of tab t keeps the invariant when the tables keep theirs, nothing is taken
\* back, and the tab's new local variables fit what it has read.
LEMMA TabStep ==
  ASSUME IInv, TypeOK', Shared', Progress, NEW t \in Tabs, NEW j \in Job,
         NEW label \in Labels, TabMoves(t, j, label), JobFits(j, label)
  PROVE  IInv'
<1>1. Types'
  BY TabTypes DEF Types, IInv
<1>2. JobOK(t)'
  BY <1>1, TabTypes, TabKeeps DEF IInv
<1>3. \A q \in Tabs \ {t} : JobOK(q)'
  BY <1>1, TabTypes, OtherTab DEF IInv
<1> QED
  BY <1>1, <1>2, <1>3 DEF IInv

\* A step in which the inbox and the server stay as they are.
LEMMA ReadingStep ==
  ASSUME IInv, NEW t \in Tabs, UNCHANGED <<server, inbox>>, NEW j \in Job,
         NEW label \in Labels, TabMoves(t, j, label), JobFits(j, label)
  PROVE  IInv'
<1>1. TypeOK'
  BY TabTypes DEF IInv, Types, TypeOK, server, inbox
<1>2. Shared'
  BY DEF IInv, Shared, Custodians, CursorCoversStored, NoRowsOfOldGeneration, ReceiptIsTrue,
         server, inbox
<1>3. Progress
  BY SyncAssumption DEF Progress, IInv, Types, TypeOK, server, inbox, Generations
<1> QED
  BY <1>1, <1>2, <1>3, TabStep

----------------------------------------------------------------------------
(* The steps that only read *)

\* Local variables that hold nothing of the inbox fit any state.
LEMMA BlankFits ==
  ASSUME Types, NEW j \in Job, j.gen <= generation,
         j.ingests # 0 => srv[j.gen][j.ingests] # "none",
         j.page = <<>>, j.todo = {}, j.after = 0,
         NEW label \in {"idle", "backfill", "backfill_fetch", "backfill_end", "page", "pending",
                        "ingest", "ingest_again"}
  PROVE  JobFits(j, label)
<1>1. cursor[j.gen] \in 0..MaxSeq
  BY DEF Types, TypeOK, Job
<1>2. 0 <= cursor[j.gen]
  BY <1>1, SyncAssumption
<1> QED
  BY <1>2, EmptyPage DEF JobFits, RowsTrue

\* The local variables of a tab at rest.
LEMMA RestFits ==
  ASSUME Types
  PROVE  NoJob \in Job /\ JobFits(NoJob, "idle")
<1>1. /\ NoJob \in Job /\ NoJob.gen = 1 /\ NoJob.ingests = 0 /\ NoJob.page = <<>>
      /\ NoJob.todo = {} /\ NoJob.after = 0
  BY EmptyPage, SyncAssumption DEF NoJob, Job, Generations
<1>2. 1 <= generation
  BY SyncAssumption DEF Types, TypeOK, Generations
<1> QED
  BY <1>1, <1>2, BlankFits

\* synchronize begins.
LEMMA StartSyncKeeps ==
  ASSUME IInv, NEW t \in Tabs, StartSync(t)
  PROVE  IInv'
<1>1. PICK g \in 1..generation : job' = [job EXCEPT ![t] = [NoJob EXCEPT !.gen = g]]
  BY DEF StartSync
<1> DEFINE j == [NoJob EXCEPT !.gen = g]
<1>2. g \in Generations /\ g <= generation
  BY SyncAssumption DEF IInv, Types, TypeOK, Generations
<1>3. j \in Job /\ j.gen = g /\ j.ingests = 0 /\ j.page = <<>> /\ j.todo = {} /\ j.after = 0
  <2>1. NoJob \in Job
    BY RestFits DEF IInv
  <2>2. j \in Job /\ j.gen = g
    BY <1>2, <2>1 DEF Job
  <2> QED
    BY <2>2 DEF NoJob
<1>4. TabMoves(t, j, "backfill") /\ UNCHANGED <<server, inbox>>
  BY <1>1 DEF TabMoves, StartSync, Goto
<1> HIDE DEF j
<1>5. JobFits(j, "backfill")
  BY <1>2, <1>3, BlankFits DEF IInv
<1> QED
  BY <1>3, <1>4, <1>5, ReadingStep DEF Labels

\* An operation throws or its tab is closed.
LEMMA FailKeeps ==
  ASSUME IInv, NEW t \in Tabs, Fail(t)
  PROVE  IInv'
<1>1. TabMoves(t, NoJob, "idle") /\ UNCHANGED <<server, inbox>>
  BY DEF TabMoves, Fail, Goto
<1> QED
  BY <1>1, RestFits, ReadingStep DEF Labels, IInv

\* The scope object is replaced under the operation.
LEMMA DeactivateKeeps ==
  ASSUME IInv, NEW t \in Tabs, Deactivate(t)
  PROVE  IInv'
<1> DEFINE j == [job[t] EXCEPT !.current = FALSE]
<1>0. job[t] \in Job /\ JobOK(t) /\ pc[t] \in Labels
  BY JobFields DEF IInv, Types
<1>1. /\ j \in Job /\ j.gen = job[t].gen /\ j.ingests = job[t].ingests /\ j.dev = job[t].dev
      /\ j.page = job[t].page /\ j.after = job[t].after /\ j.todo = job[t].todo
      /\ j.cur = job[t].cur /\ j.more = job[t].more
  BY <1>0 DEF Job
<1>2. TabMoves(t, j, pc[t]) /\ UNCHANGED <<server, inbox>>
  BY DEF TabMoves, Deactivate, IInv, Types
<1> HIDE DEF j
<1>3. JobFits(j, pc[t])
  BY <1>0, <1>1 DEF JobOK, JobFits, ValidatePage
<1> QED
  BY <1>0, <1>1, <1>2, <1>3, ReadingStep

\* needsSequenceBackfill.
LEMMA BackfillStartKeeps ==
  ASSUME IInv, NEW t \in Tabs, BackfillStart(t)
  PROVE  IInv'
<1>0. job[t] \in Job /\ JobOK(t) /\ pc[t] = "backfill" /\ UNCHANGED <<server, inbox>>
  BY JobFields DEF IInv, Types, BackfillStart, Running
<1>1. CASE job' = [job EXCEPT ![t].then = "page"] /\ Goto(t, "pending")
  <2> DEFINE j == [job[t] EXCEPT !.then = "page"]
  <2>1. /\ j \in Job /\ j.gen = job[t].gen /\ j.ingests = job[t].ingests /\ j.dev = job[t].dev
        /\ j.page = job[t].page /\ j.after = job[t].after /\ j.todo = job[t].todo
    BY <1>0 DEF Job
  <2>2. TabMoves(t, j, "pending")
    BY <1>1 DEF TabMoves, Goto
  <2> HIDE DEF j
  <2>3. JobFits(j, "pending")
    BY <1>0, <2>1 DEF JobOK, JobFits
  <2> QED
    BY <1>0, <2>1, <2>2, <2>3, ReadingStep DEF Labels
<1>2. ASSUME NEW label \in {"backfill_end", "backfill_fetch"},
             job' = [job EXCEPT ![t].through = cursor[job[t].gen]] /\ Goto(t, label)
      PROVE  IInv'
  <2> DEFINE j == [job[t] EXCEPT !.through = cursor[job[t].gen]]
  <2>0. cursor[job[t].gen] \in 0..MaxSeq
    BY <1>0 DEF IInv, Types, TypeOK, Job
  <2>1. /\ j \in Job /\ j.gen = job[t].gen /\ j.ingests = job[t].ingests /\ j.dev = job[t].dev
        /\ j.page = job[t].page /\ j.after = job[t].after /\ j.todo = job[t].todo
    BY <1>0, <2>0 DEF Job
  <2>2. TabMoves(t, j, label)
    BY <1>2 DEF TabMoves, Goto
  <2> HIDE DEF j
  <2>3. JobFits(j, label)
    <3>1. j.after = 0 /\ 0 <= cursor[j.gen]
      BY <1>0, <2>0, <2>1, SyncAssumption DEF JobOK, JobFits
    <3> QED
      BY <1>0, <2>1, <3>1 DEF JobOK, JobFits
  <2> QED
    BY <1>0, <2>1, <2>2, <2>3, ReadingStep DEF Labels
<1> QED
  BY <1>1, <1>2 DEF BackfillStart

\* A page is true of the mailbox from which it was read.
LEMMA FetchedPage ==
  ASSUME Types, NEW d \in 1..generation, NEW after \in 0..MaxSeq
  PROVE  LET page == [n \in PageSeqs(d, after) |-> ServerRow(srv[d][n])]
         IN page \in Pages /\ RowsTrue(d, page) /\ d \in Generations
<1> DEFINE page == [n \in PageSeqs(d, after) |-> ServerRow(srv[d][n])]
<1>1. d \in Generations
  BY SyncAssumption DEF Types, TypeOK, Generations
<1>2. PageSeqs(d, after) \subseteq Seqs /\ \A n \in PageSeqs(d, after) : srv[d][n] # "none"
  BY DEF PageSeqs, Stored
<1>3. \A x : ServerRow(x) \in Row /\ (ServerRow(x).delivered <=> x = "acked")
  BY DEF ServerRow, Row
<1>4. page \in [PageSeqs(d, after) -> Row]
  BY <1>3
<1>5. page \in Pages
  BY <1>2, <1>4 DEF Pages
<1>6. RowsTrue(d, page)
  BY <1>2, <1>3 DEF RowsTrue
<1> QED
  BY <1>1, <1>5, <1>6

\* The server answers a page request, of backfillSequences or of pageMailbox.
LEMMA FetchKeeps ==
  ASSUME IInv, NEW t \in Tabs, BackfillFetch(t) \/ PageFetch(t)
  PROVE  IInv'
<1>0. job[t] \in Job /\ JobOK(t) /\ UNCHANGED <<server, inbox>>
  BY JobFields DEF IInv, Types, BackfillFetch, PageFetch
<1>1. PICK d \in 1..generation, after \in 0..MaxSeq,
           label \in {"backfill_cursor", "page_commit"} :
        /\ Fetch(t, d, after) /\ Goto(t, label)
        /\ label = "backfill_cursor" => pc[t] = "backfill_fetch"
  BY <1>0, JobFields DEF BackfillFetch, PageFetch, Running, IInv
<1> DEFINE page == [n \in PageSeqs(d, after) |-> ServerRow(srv[d][n])]
           j == [job[t] EXCEPT !.dev = d, !.more = HasMore(d, after), !.page = page]
<1>2. page \in Pages /\ RowsTrue(d, page) /\ d \in Generations
  BY FetchedPage DEF IInv
<1>3. HasMore(d, after) \in BOOLEAN
  BY DEF HasMore
<1>4. TabMoves(t, j, label)
  BY <1>1 DEF TabMoves, Goto, Fetch
<1> HIDE DEF page
<1>5. /\ j \in Job /\ j.gen = job[t].gen /\ j.ingests = job[t].ingests /\ j.dev = d
      /\ j.page = page /\ j.after = job[t].after /\ j.todo = job[t].todo
  BY <1>0, <1>2, <1>3 DEF Job
<1> HIDE DEF j
<1>6. JobFits(j, label)
  BY <1>0, <1>1, <1>2, <1>5 DEF JobOK, JobFits
<1> QED
  BY <1>0, <1>4, <1>5, <1>6, ReadingStep DEF Labels

\* The cursor is read before a commit: of a page that continues, or of a receipt.
LEMMA CursorReadKeeps ==
  ASSUME IInv, NEW t \in Tabs, BackfillCursor(t) \/ PageCursor(t) \/ ReceiptCursor(t)
  PROVE  IInv'
<1>0. job[t] \in Job /\ JobOK(t) /\ UNCHANGED <<server, inbox>>
  BY JobFields DEF IInv, Types, BackfillCursor, PageCursor, ReceiptCursor
<1>1. PICK label \in {"backfill_commit", "page_fetch", "receipt_commit"} :
        /\ job' = [job EXCEPT ![t].cur = cursor[job[t].gen]] /\ Goto(t, label)
        /\ label = "backfill_commit" =>
            pc[t] = "backfill_cursor" /\ ValidatePage(job[t], job[t].after)
        /\ label = "receipt_commit" => pc[t] = "receipt"
  BY DEF BackfillCursor, PageCursor, ReceiptCursor, Running
<1> DEFINE j == [job[t] EXCEPT !.cur = cursor[job[t].gen]]
<1>2. cursor[job[t].gen] \in 0..MaxSeq
  BY <1>0 DEF IInv, Types, TypeOK, Job
<1>3. /\ j \in Job /\ j.gen = job[t].gen /\ j.ingests = job[t].ingests /\ j.dev = job[t].dev
      /\ j.page = job[t].page /\ j.after = job[t].after /\ j.todo = job[t].todo
      /\ j.more = job[t].more
  BY <1>0, <1>2 DEF Job
<1>4. TabMoves(t, j, label)
  BY <1>1 DEF TabMoves, Goto
<1> HIDE DEF j
<1>5. JobFits(j, label)
  BY <1>0, <1>1, <1>3 DEF JobOK, JobFits, ValidatePage
<1> QED
  BY <1>0, <1>3, <1>4, <1>5, ReadingStep DEF Labels

\* getPendingAcknowledgments finds rows with a payload.
LEMMA PendingReadKeeps ==
  ASSUME IInv, NEW t \in Tabs, PendingRead(t)
  PROVE  IInv'
<1>0. job[t] \in Job /\ JobOK(t) /\ UNCHANGED <<server, inbox>>
  BY JobFields DEF IInv, Types, PendingRead
<1> DEFINE j == [job[t] EXCEPT !.todo = Pending(job[t].gen)]
<1>1. Pending(job[t].gen) \subseteq Seqs /\ \A n \in Pending(job[t].gen) : local[job[t].gen][n].payload
  BY DEF Pending
<1>2. /\ j \in Job /\ j.gen = job[t].gen /\ j.ingests = job[t].ingests /\ j.dev = job[t].dev
      /\ j.page = job[t].page /\ j.todo = Pending(job[t].gen)
  BY <1>0, <1>1 DEF Job
<1>3. TabMoves(t, j, "ack")
  BY DEF TabMoves, PendingRead, Goto
<1> HIDE DEF j
<1>4. JobFits(j, "ack")
  BY <1>0, <1>1, <1>2 DEF JobOK, JobFits
<1> QED
  BY <1>0, <1>2, <1>3, <1>4, ReadingStep DEF Labels

\* The acknowledgements are done: the operation continues as it was called.
LEMMA AckDoneKeeps ==
  ASSUME IInv, NEW t \in Tabs, AckDone(t)
  PROVE  IInv'
<1>0. job[t] \in Job /\ JobOK(t) /\ UNCHANGED <<server, inbox>>
  BY JobFields DEF IInv, Types, AckDone
<1>1. CASE job[t].then = "idle"
  <2>1. TabMoves(t, NoJob, "idle")
    BY <1>1 DEF TabMoves, AckDone, Goto
  <2> QED
    BY <1>0, <2>1, RestFits, ReadingStep DEF Labels, IInv
<1>2. CASE job[t].then # "idle"
  <2> DEFINE j == [job[t] EXCEPT !.then = "idle", !.after = 0]
  <2>1. 0 \in 0..MaxSeq /\ job[t].then \in {"page", "ingest_again"}
    BY <1>0, <1>2, SyncAssumption DEF Job
  <2>2. /\ j \in Job /\ j.gen = job[t].gen /\ j.ingests = job[t].ingests /\ j.dev = job[t].dev
        /\ j.page = job[t].page /\ j.todo = job[t].todo /\ j.after = 0
    BY <1>0, <2>1 DEF Job
  <2>3. TabMoves(t, j, job[t].then)
    BY <1>2 DEF TabMoves, AckDone, Goto
  <2> HIDE DEF j
  <2>4. JobFits(j, job[t].then)
    BY <1>0, <2>1, <2>2 DEF JobOK, JobFits
  <2> QED
    BY <1>0, <2>1, <2>2, <2>3, <2>4, ReadingStep DEF Labels
<1> QED
  BY <1>1, <1>2

\* The commit of a receipt fails.
LEMMA ReceiptLostKeeps ==
  ASSUME IInv, NEW t \in Tabs, ReceiptLost(t)
  PROVE  IInv'
<1>0. job[t] \in Job /\ JobOK(t) /\ UNCHANGED <<server, inbox>>
  BY JobFields DEF IInv, Types, ReceiptLost
<1> DEFINE j == [job[t] EXCEPT !.after = 0, !.cur = 0]
<1>1. 0 \in 0..MaxSeq
  BY SyncAssumption
<1>2. /\ j \in Job /\ j.gen = job[t].gen /\ j.ingests = job[t].ingests /\ j.dev = job[t].dev
      /\ j.page = job[t].page /\ j.todo = job[t].todo
  BY <1>0, <1>1 DEF Job
<1>3. TabMoves(t, j, "ack")
  BY DEF TabMoves, ReceiptLost, Goto
<1> HIDE DEF j
<1>4. JobFits(j, "ack")
  BY <1>0, <1>2 DEF JobOK, JobFits
<1> QED
  BY <1>0, <1>2, <1>3, <1>4, ReadingStep DEF Labels

\* ingest compares the envelope with the cursor, before and after the pages.
LEMMA IngestReadKeeps ==
  ASSUME IInv, NEW t \in Tabs, IngestStart(t) \/ IngestAgain(t)
  PROVE  IInv'
<1>0. job[t] \in Job /\ JobOK(t) /\ UNCHANGED <<server, inbox>>
  BY JobFields DEF IInv, Types, IngestStart, IngestAgain
<1>1. CASE Goto(t, "page") /\ UNCHANGED job
  <2>1. TabMoves(t, job[t], "page")
    BY <1>0, <1>1 DEF TabMoves, Goto, IInv, Types
  <2>2. JobFits(job[t], "page")
    BY <1>0 DEF JobOK, JobFits
  <2> QED
    BY <1>0, <2>1, <2>2, ReadingStep DEF Labels
<1>2. CASE /\ job[t].ingests <= cursor[job[t].gen] + 1 /\ Goto(t, "ingest_commit")
           /\ job' = [job EXCEPT ![t].cur = cursor[job[t].gen]]
  <2> DEFINE j == [job[t] EXCEPT !.cur = cursor[job[t].gen]]
  <2>1. cursor[job[t].gen] \in 0..MaxSeq
    BY <1>0 DEF IInv, Types, TypeOK, Job
  <2>2. /\ j \in Job /\ j.gen = job[t].gen /\ j.ingests = job[t].ingests /\ j.dev = job[t].dev
        /\ j.page = job[t].page /\ j.todo = job[t].todo /\ j.cur = cursor[job[t].gen]
    BY <1>0, <2>1 DEF Job
  <2>3. TabMoves(t, j, "ingest_commit")
    BY <1>2 DEF TabMoves, Goto
  <2> HIDE DEF j
  <2>4. JobFits(j, "ingest_commit")
    BY <1>0, <1>2, <2>2 DEF JobOK, JobFits
  <2> QED
    BY <1>0, <2>2, <2>3, <2>4, ReadingStep DEF Labels
<1> QED
  BY <1>1, <1>2 DEF IngestStart, IngestAgain

----------------------------------------------------------------------------
(* The steps of the server *)

\* What may happen to an envelope on the server.  An ACK of the stored identity is
\* for a payload that the inbox has.
ServerMove(g, n) ==
    \/ srv'[g][n] = srv[g][n]
    \/ /\ g <= generation
       /\ \/ srv[g][n] = "none" /\ srv'[g][n] = "held"
          \/ srv[g][n] = "held" /\ srv'[g][n] = "expired"
          \/ srv'[g][n] = "acked" /\ (g = generation => local[g][n].payload)

\* Such a step keeps what the server and the inbox have in common.
LEMMA ServerKeeps ==
  ASSUME IInv, UNCHANGED inbox,
         srv' \in [Generations -> [Seqs -> {"none", "held", "acked", "expired"}]],
         live' \in [Generations -> SUBSET Seqs],
         \A g \in Generations, n \in Seqs : ServerMove(g, n),
         \A g \in Generations, n \in Seqs :
            n \in live'[g] => n \in live[g] \/ srv'[g][n] # "none"
  PROVE  Shared' /\ Progress
<1> USE DEF IInv
<1>0. /\ generation \in Nat /\ generation' = generation /\ generation \in Generations
      /\ \A g \in Generations : g \in Nat /\ cursor[g] \in Nat
      /\ cursor' = cursor /\ local' = local /\ filled' = filled
  BY SyncAssumption DEF Types, TypeOK, Generations, inbox
<1>1. \A g \in Generations, n \in Seqs :
        /\ srv[g][n] # "none" => srv'[g][n] # "none"
        /\ srv[g][n] = "acked" => srv'[g][n] = "acked"
        /\ g > generation => srv'[g][n] = srv[g][n]
  BY <1>0 DEF ServerMove
<1>2. Progress
  BY <1>0, <1>1 DEF Progress
<1>3. Custodians'
  <2>1. \A g \in Generations, n \in Seqs :
            /\ g > generation => srv'[g][n] = "none"
            /\ local[g][n].payload \/ local[g][n].delivered => local[g][n].stored
            /\ local[g][n].payload => srv'[g][n] # "none"
            /\ n \in live'[g] => srv'[g][n] # "none"
    BY <1>1 DEF Shared, Custodians
  <2>2. \A n \in Seqs : srv'[generation][n] = "acked" => local[generation][n].payload
    BY <1>0 DEF Shared, Custodians, ServerMove
  <2> QED
    BY <1>0, <2>1, <2>2 DEF Custodians
<1>4. CursorCoversStored' /\ NoRowsOfOldGeneration'
  BY <1>0 DEF Shared, CursorCoversStored, NoRowsOfOldGeneration
<1>5. ReceiptIsTrue'
  BY <1>0, <1>1 DEF Shared, ReceiptIsTrue
<1> QED
  BY <1>2, <1>3, <1>4, <1>5 DEF Shared

\* A step of the server alone.
LEMMA ServerStep ==
  ASSUME IInv, UNCHANGED <<inbox, pc, job>>, NEW g \in 1..generation,
         Deliver(g) \/ Expire(g) \/ LoseEvent(g)
  PROVE  /\ IInv' /\ \A x \in Generations, n \in Seqs : ServerMove(x, n)
<1> USE DEF IInv
<1>0. g \in Generations /\ g <= generation
  BY SyncAssumption DEF Types, TypeOK, Generations
<1>1. /\ srv' \in [Generations -> [Seqs -> {"none", "held", "acked", "expired"}]]
      /\ live' \in [Generations -> SUBSET Seqs]
      /\ \A x \in Generations, n \in Seqs : ServerMove(x, n)
      /\ \A x \in Generations, n \in Seqs :
            n \in live'[x] => n \in live[x] \/ srv'[x][n] # "none"
  <2>1. CASE Deliver(g)
    <3>1. PICK m \in Seqs \ Stored(g) :
            srv' = [srv EXCEPT ![g][m] = "held"] /\ live' = [live EXCEPT ![g] = @ \cup {m}]
      BY <2>1 DEF Deliver
    <3>2. srv[g][m] = "none"
      BY <3>1 DEF Stored
    <3> QED
      BY <1>0, <3>1, <3>2 DEF Types, TypeOK, ServerMove
  <2>2. CASE Expire(g)
    <3>1. PICK m \in Seqs :
            srv[g][m] = "held" /\ srv' = [srv EXCEPT ![g][m] = "expired"] /\ live' = live
      BY <2>2 DEF Expire
    <3> QED
      BY <1>0, <3>1 DEF Types, TypeOK, ServerMove
  <2>3. CASE LoseEvent(g)
    BY <1>0, <2>3 DEF LoseEvent, Types, TypeOK, ServerMove
  <2> QED
    BY <2>1, <2>2, <2>3
<1>2. Shared' /\ Progress
  BY <1>1, ServerKeeps
<1>3. Types'
  BY <1>1 DEF Types, TypeOK, inbox
<1>4. \A t \in Tabs : JobOK(t)'
  BY <1>2, <1>3, OtherTab
<1> QED
  BY <1>1, <1>2, <1>3, <1>4

\* ingest takes an event that the server has published.
LEMMA StartIngestKeeps ==
  ASSUME IInv, NEW t \in Tabs, StartIngest(t)
  PROVE  IInv'
<1>1. PICK g \in 1..generation : \E n \in live[g] :
        /\ live' = [live EXCEPT ![g] = @ \ {n}]
        /\ job' = [job EXCEPT ![t] = [NoJob EXCEPT !.gen = g, !.ingests = n]]
  BY DEF StartIngest
<1>1a. PICK n \in live[g] :
        /\ live' = [live EXCEPT ![g] = @ \ {n}]
        /\ job' = [job EXCEPT ![t] = [NoJob EXCEPT !.gen = g, !.ingests = n]]
  BY <1>1
<1> DEFINE j == [NoJob EXCEPT !.gen = g, !.ingests = n]
<1>2. g \in Generations /\ g <= generation
  BY SyncAssumption DEF IInv, Types, TypeOK, Generations
<1>3. n \in Seqs /\ n \in 0..MaxSeq /\ srv[g][n] # "none"
  <2>1. n \in Seqs
    BY <1>2 DEF IInv, Types, TypeOK
  <2> QED
    BY <1>2, <2>1, SyncAssumption DEF IInv, Shared, Custodians, Seqs
<1>4. j \in Job /\ j.gen = g /\ j.ingests = n /\ j.page = <<>> /\ j.todo = {} /\ j.after = 0
  <2>1. NoJob \in Job
    BY RestFits DEF IInv
  <2>2. j \in Job /\ j.gen = g /\ j.ingests = n
    BY <1>2, <1>3, <2>1 DEF Job
  <2> QED
    BY <2>2 DEF NoJob
<1>5. TabMoves(t, j, "ingest")
  BY <1>1a DEF TabMoves, StartIngest, Goto
<1> HIDE DEF j
<1>6. JobFits(j, "ingest")
  BY <1>2, <1>3, <1>4, BlankFits DEF IInv
<1>7. /\ srv' \in [Generations -> [Seqs -> {"none", "held", "acked", "expired"}]]
      /\ live' \in [Generations -> SUBSET Seqs] /\ UNCHANGED inbox
      /\ \A x \in Generations, m \in Seqs : ServerMove(x, m) /\ (m \in live'[x] => m \in live[x])
  BY <1>1a, <1>2 DEF StartIngest, IInv, Types, TypeOK, ServerMove
<1>8. Shared' /\ Progress
  BY <1>7, ServerKeeps
<1>9. TypeOK'
  BY <1>4, <1>5, <1>7, TabTypes DEF Labels, TypeOK, IInv, Types, inbox
<1> QED
  BY <1>4, <1>5, <1>6, <1>8, <1>9, TabStep DEF Labels

\* What an ACK of tab t does on the server: the envelope is in the inbox.
LEMMA AckMoves ==
  ASSUME IInv, NEW t \in Tabs, NEW n \in job[t].todo, UNCHANGED <<live, inbox>>,
         srv' \in {srv, AckedBy(n, t)}
  PROVE  /\ srv' \in [Generations -> [Seqs -> {"none", "held", "acked", "expired"}]]
         /\ \A x \in Generations, m \in Seqs : ServerMove(x, m)
         /\ Shared' /\ Progress
<1>1. /\ job[t].gen \in Generations /\ n \in Seqs /\ job[t].gen <= generation
      /\ job[t].gen = generation => local[job[t].gen][n].payload
  BY JobFields DEF IInv, JobOK, JobFits
<1>2. srv \in [Generations -> [Seqs -> {"none", "held", "acked", "expired"}]]
  BY DEF IInv, Types, TypeOK
<1>3. /\ srv' \in [Generations -> [Seqs -> {"none", "held", "acked", "expired"}]]
      /\ \A x \in Generations, m \in Seqs : ServerMove(x, m)
  BY <1>1, <1>2 DEF AckedBy, ServerMove
<1>4. live' \in [Generations -> SUBSET Seqs] /\ live' = live
  BY DEF IInv, Types, TypeOK
<1>5. Shared' /\ Progress
  BY <1>3, <1>4, ServerKeeps
<1> QED
  BY <1>3, <1>5

\* The server has answered an ACK.
LEMMA AckRequestKeeps ==
  ASSUME IInv, NEW t \in Tabs, AckRequest(t)
  PROVE  IInv'
<1>0. job[t] \in Job /\ JobOK(t) /\ UNCHANGED <<live, inbox>>
  BY JobFields DEF IInv, Types, AckRequest
<1>1. PICK n \in job[t].todo :
        srv' = AckedBy(n, t) /\ job' = [job EXCEPT ![t].after = n, ![t].todo = @ \ {n}]
  BY DEF AckRequest
<1> DEFINE j == [job[t] EXCEPT !.after = n, !.todo = @ \ {n}]
<1>2. /\ srv' \in [Generations -> [Seqs -> {"none", "held", "acked", "expired"}]]
      /\ Shared' /\ Progress
  BY <1>0, <1>1, AckMoves
<1>3. n \in Seqs /\ n \in 0..MaxSeq /\ job[t].gen \in Generations
  BY <1>0, SyncAssumption DEF Job, Seqs
<1>4. /\ j \in Job /\ j.gen = job[t].gen /\ j.ingests = job[t].ingests /\ j.dev = job[t].dev
      /\ j.page = job[t].page /\ j.todo = job[t].todo \ {n} /\ j.after = n
  BY <1>0, <1>3 DEF Job
<1>5. TabMoves(t, j, "receipt")
  BY <1>1 DEF TabMoves, AckRequest, Goto
<1>6. srv'[job[t].gen][n] = "acked"
  BY <1>1, <1>3 DEF AckedBy, IInv, Types, TypeOK
<1> HIDE DEF j
<1>7. TypeOK'
  BY <1>0, <1>2, <1>4, <1>5, TabTypes DEF Labels, TypeOK, IInv, Types, inbox
<1>8. Types'
  BY <1>4, <1>5, <1>7, TabTypes DEF Types, IInv, Labels
<1>9. JobFits(j, "ack")
  BY <1>0, <1>4 DEF JobOK, JobFits
<1>10. JobOK(t)'
  <2>1. PICK i \in Job : i = j
    BY <1>4
  <2>2. JobFits(i, "ack")'
    BY <1>2, <1>8, <1>9, <2>1, StillFits DEF IInv
  <2>3. job'[t] = i /\ pc'[t] = "receipt"
    BY <1>4, <1>5, <2>1, TabTypes DEF IInv, Labels
  <2>4. i.gen = generation => local[i.gen][n].payload
    BY <1>0, <1>1, <1>4, <2>1 DEF JobOK, JobFits
  <2>5. i.after = n /\ i.gen = job[t].gen /\ UNCHANGED inbox
    BY <1>0, <1>4, <2>1
  <2> QED
    BY <1>3, <1>6, <2>2, <2>3, <2>4, <2>5 DEF JobOK, JobFits, RowsTrue, ValidatePage, inbox
<1>11. \A q \in Tabs \ {t} : JobOK(q)'
  BY <1>2, <1>4, <1>5, <1>8, TabTypes, OtherTab DEF IInv, Labels
<1> QED
  BY <1>2, <1>8, <1>10, <1>11 DEF IInv

\* An ACK without an answer, which the server may have applied.
LEMMA AckUnansweredKeeps ==
  ASSUME IInv, NEW t \in Tabs, AckUnanswered(t)
  PROVE  IInv'
<1>0. job[t] \in Job /\ JobOK(t) /\ UNCHANGED <<live, inbox, pc>> /\ pc[t] = "ack"
  BY JobFields DEF IInv, Types, AckUnanswered, Running
<1>1. PICK n \in job[t].todo :
        srv' \in {srv, AckedBy(n, t)} /\ job' = [job EXCEPT ![t].todo = @ \ {n}]
  BY DEF AckUnanswered
<1> DEFINE j == [job[t] EXCEPT !.todo = @ \ {n}]
<1>2. /\ srv' \in [Generations -> [Seqs -> {"none", "held", "acked", "expired"}]]
      /\ Shared' /\ Progress
  BY <1>0, <1>1, AckMoves
<1>3. /\ j \in Job /\ j.gen = job[t].gen /\ j.ingests = job[t].ingests /\ j.dev = job[t].dev
      /\ j.page = job[t].page /\ j.todo = job[t].todo \ {n}
  BY <1>0 DEF Job
<1>4. TabMoves(t, j, "ack")
  BY <1>0, <1>1 DEF TabMoves, IInv, Types
<1> HIDE DEF j
<1>5. TypeOK'
  BY <1>0, <1>2, <1>3, <1>4, TabTypes DEF Labels, TypeOK, IInv, Types, inbox
<1>6. JobFits(j, "ack")
  BY <1>0, <1>3 DEF JobOK, JobFits
<1> QED
  BY <1>2, <1>3, <1>4, <1>5, <1>6, TabStep DEF Labels

----------------------------------------------------------------------------
(* The commits *)

\* A page that commitPage may write: its rows are true, and with them the inbox reaches
\* up to the next cursor without a gap.
Sound(g, rows, next) ==
    /\ RowsTrue(g, rows)
    /\ next \in 0..MaxSeq
    /\ \A n \in Seqs : n <= next <=> n <= cursor[g] \/ n \in DOMAIN rows

\* What may happen to a row of the inbox: it gets a payload or a receipt.
RowMove(g, n) ==
    \/ local'[g][n] = local[g][n]
    \/ /\ g = generation /\ srv[g][n] # "none"
       /\ local[g][n].payload => local'[g][n].payload
       /\ local[g][n].delivered => local'[g][n].delivered
       /\ local[g][n].stored => local'[g][n].stored

\* commitPage keeps what the inbox and the server have in common.
LEMMA CommitKeeps ==
  ASSUME IInv, NEW g \in Generations, NEW expected, NEW rows, NEW next,
         CommitPage(g, expected, rows, next), Sound(g, rows, next), UNCHANGED server
  PROVE  /\ Shared' /\ Progress
         /\ cursor' \in [Generations -> 0..MaxSeq] /\ local' \in [Generations -> [Seqs -> Row]]
         /\ generation' = generation /\ filled' = filled /\ cursor'[g] = next
         /\ \A x \in Generations, n \in Seqs : RowMove(x, n)
<1> USE DEF IInv
<1>1. /\ g = generation /\ cursor[g] = expected /\ next >= expected
      /\ cursor' = [cursor EXCEPT ![g] = next]
      /\ generation' = generation /\ filled' = filled /\ srv' = srv /\ live' = live
  BY DEF CommitPage, CanCommit, Validate, server
<1>2. /\ cursor \in [Generations -> 0..MaxSeq] /\ local \in [Generations -> [Seqs -> Row]]
      /\ next \in 0..MaxSeq /\ MaxSeq \in Nat /\ generation \in Nat
      /\ \A n \in Seqs : n \in Nat
  BY SyncAssumption DEF Types, TypeOK, Sound, Generations, Seqs
<1>3. \A x \in Generations : cursor'[x] = IF x = g THEN next ELSE cursor[x]
  BY <1>1, <1>2
<1>4. \A x \in Generations, n \in Seqs :
        local'[x][n] = IF x = g /\ n \in DOMAIN rows THEN Merge(rows[n], local[g][n])
                       ELSE local[x][n]
  BY <1>2 DEF CommitPage
<1>5. ASSUME NEW n \in Seqs, n \in DOMAIN rows
      PROVE  /\ rows[n] \in Row /\ local[g][n] \in Row /\ local'[g][n] \in Row
             /\ local'[g][n].stored
             /\ local'[g][n].payload <=> rows[n].payload \/ local[g][n].payload
             /\ local'[g][n].delivered <=> rows[n].delivered \/ local[g][n].delivered
             /\ srv[g][n] # "none"
             /\ rows[n].delivered => srv[g][n] = "acked"
  <2>1. rows[n] \in Row /\ local[g][n] \in Row /\ local'[g][n] = Merge(rows[n], local[g][n])
    BY <1>2, <1>4, <1>5 DEF Sound, RowsTrue
  <2>2. /\ local'[g][n] \in Row /\ local'[g][n].stored
        /\ local'[g][n].payload <=> rows[n].payload \/ local[g][n].payload
        /\ local'[g][n].delivered <=> rows[n].delivered \/ local[g][n].delivered
    BY <2>1, MergedRow
  <2> QED
    BY <2>1, <2>2, <1>5 DEF Sound, RowsTrue
<1>6. cursor' \in [Generations -> 0..MaxSeq]
  BY <1>1, <1>2
<1>7. local' \in [Generations -> [Seqs -> Row]]
  <2>1. \A x \in Generations, n \in Seqs : local'[x][n] \in Row
    BY <1>2, <1>4, <1>5
  <2>2. local' = [local EXCEPT ![g] = [n \in Seqs |-> local'[g][n]]]
    BY <1>2 DEF CommitPage
  <2> QED
    BY <1>2, <2>1, <2>2
<1>8. Progress
  <2>1. cursor[generation] <= cursor'[generation]
    BY <1>1, <1>2, <1>3
  <2>2. \A n \in Seqs : local[generation][n].payload => local'[generation][n].payload
    BY <1>1, <1>4, <1>5
  <2> QED
    BY <1>1, <1>2, <2>1, <2>2 DEF Progress
<1>9. Custodians'
  <2>1. \A x \in Generations, n \in Seqs :
            /\ local'[x][n].payload \/ local'[x][n].delivered => local'[x][n].stored
            /\ local'[x][n].payload => srv[x][n] # "none"
    BY <1>4, <1>5 DEF Shared, Custodians
  <2>2. \A n \in Seqs : srv[generation][n] = "acked" => local'[generation][n].payload
    BY <1>1, <1>4, <1>5 DEF Shared, Custodians
  <2> QED
    BY <1>1, <2>1, <2>2 DEF Shared, Custodians
<1>10. CursorCoversStored'
  <2>1. \A x \in Generations, n \in Seqs : local[x][n].stored <=> n <= cursor[x]
    BY <1>2, CoveredRows DEF Shared
  <2>2. ASSUME NEW n \in Seqs PROVE local'[g][n].stored <=> n <= next
    BY <1>4, <1>5, <2>1 DEF Sound
  <2>3. \A x \in Generations, n \in Seqs : local'[x][n].stored <=> n <= cursor'[x]
    BY <1>3, <1>4, <2>1, <2>2
  <2>4. \A x \in Generations, n \in Seqs : local'[x][n] \in Row
    BY <1>7
  <2>5. ASSUME NEW x \in Generations, NEW n \in Seqs
        PROVE  local'[x][n].stored = (n <= cursor'[x])
    <3>1. PICK row \in Row : row = local'[x][n]
      BY <2>4
    <3>2. PICK c : c = cursor'[x]
      OBVIOUS
    <3>3. row.stored <=> n <= c
      BY <2>3, <3>1, <3>2
    <3>4. row.stored = (n <= c)
      BY <3>3, StoredUpTo, Zenon
    <3> QED
      BY <3>1, <3>2, <3>4, Zenon
  <2> QED
    BY <2>5, Zenon DEF CursorCoversStored
<1>11. NoRowsOfOldGeneration'
  BY <1>1, <1>3, <1>4 DEF Shared, NoRowsOfOldGeneration
<1>12. ReceiptIsTrue'
  BY <1>1, <1>4, <1>5 DEF Shared, ReceiptIsTrue
<1>13. \A x \in Generations, n \in Seqs : RowMove(x, n)
  BY <1>1, <1>4, <1>5 DEF RowMove
<1> QED
  BY <1>1, <1>3, <1>2, <1>6, <1>7, <1>8, <1>9, <1>10, <1>11, <1>12, <1>13 DEF Shared

\* A commit of tab t, after which it goes on with the local variables j.
LEMMA CommitStep ==
  ASSUME IInv, NEW t \in Tabs, NEW expected, NEW rows, NEW next,
         CommitPage(job[t].gen, expected, rows, next), Sound(job[t].gen, rows, next),
         UNCHANGED server, NEW j \in Job, NEW label \in Labels, TabMoves(t, j, label),
         JobFits(j, label)
  PROVE  IInv'
<1>1. job[t].gen \in Generations
  BY JobFields DEF IInv
<1>2. /\ Shared' /\ Progress
      /\ cursor' \in [Generations -> 0..MaxSeq] /\ local' \in [Generations -> [Seqs -> Row]]
      /\ generation' = generation /\ filled' = filled
  BY <1>1, CommitKeeps
<1>3. TypeOK'
  BY <1>2, TabTypes DEF TypeOK, IInv, Types, server
<1> QED
  BY <1>2, <1>3, TabStep

\* What pageMailbox commits is sound.
LEMMA PageSound ==
  ASSUME IInv, NEW t \in Tabs, PageCommit(t)
  PROVE  Sound(job[t].gen, job[t].page, NextSeq(job[t], job[t].cur))
<1>0. job[t] \in Job /\ JobOK(t) /\ job[t].cur \in 0..MaxSeq /\ job[t].page \in Pages
  BY JobFields DEF IInv
<1>1. ValidatePage(job[t], job[t].cur) /\ cursor[job[t].gen] = job[t].cur
  BY DEF PageCommit, CommitPage, CanCommit
<1>2. /\ NextSeq(job[t], job[t].cur) \in job[t].cur..MaxSeq
      /\ \A n \in Seqs : n \in DOMAIN job[t].page
                            <=> job[t].cur < n /\ n <= NextSeq(job[t], job[t].cur)
      /\ (DOMAIN job[t].page) # {} => job[t].dev = job[t].gen
  BY <1>0, <1>1, PageContinues
<1>3. RowsTrue(job[t].gen, job[t].page)
  BY <1>0, <1>2 DEF JobOK, JobFits, RowsTrue
<1> QED
  BY <1>0, <1>1, <1>2, <1>3, SyncAssumption DEF Sound, Seqs

\* pageMailbox stores a page that continues at the cursor.
LEMMA PageCommitKeeps ==
  ASSUME IInv, NEW t \in Tabs, PageCommit(t)
  PROVE  IInv'
<1>0. job[t] \in Job /\ JobOK(t) /\ UNCHANGED server
  BY JobFields DEF IInv, PageCommit
<1> DEFINE l == IF job[t].more THEN "page"
                ELSE IF job[t].ingests # 0 THEN "ingest_again" ELSE "idle"
           j == [job[t] EXCEPT !.page = <<>>, !.cur = 0, !.more = FALSE, !.then = l]
<1>1. l \in {"page", "ingest_again", "idle"} /\ 0 \in 0..MaxSeq
  BY SyncAssumption
<1>2. TabMoves(t, j, "pending")
  BY DEF TabMoves, PageCommit, Goto
<1> HIDE DEF l
<1>3. /\ j \in Job /\ j.gen = job[t].gen /\ j.ingests = job[t].ingests /\ j.page = <<>>
      /\ j.todo = job[t].todo
  BY <1>0, <1>1, EmptyPage DEF Job
<1> HIDE DEF j
<1>4. JobFits(j, "pending")
  BY <1>0, <1>3, EmptyPage DEF JobOK, JobFits, RowsTrue
<1>5. CommitPage(job[t].gen, job[t].cur, job[t].page, NextSeq(job[t], job[t].cur))
  BY DEF PageCommit
<1> QED
  BY <1>0, <1>2, <1>3, <1>4, <1>5, PageSound, CommitStep DEF Labels

\* What backfillSequences commits is sound: the page starts at or below the cursor.
LEMMA BackfillSound ==
  ASSUME IInv, NEW t \in Tabs, BackfillCommit(t)
  PROVE  LET j == job[t]
             next == NextSeq(j, j.after)
         IN /\ Sound(j.gen, j.page, IF next > j.cur THEN next ELSE j.cur)
            /\ next \in 0..MaxSeq
<1> DEFINE j == job[t]
           next == NextSeq(j, j.after)
<1>0. /\ j \in Job /\ JobOK(t) /\ j.cur \in 0..MaxSeq /\ j.after \in 0..MaxSeq
      /\ pc[t] = "backfill_commit"
  BY JobFields DEF IInv, BackfillCommit, Running
<1>1. j.gen = generation /\ cursor[j.gen] = j.cur
  BY DEF BackfillCommit, CommitPage, CanCommit, Validate
<1>2. ValidatePage(j, j.after) /\ j.after <= j.cur /\ RowsTrue(j.dev, j.page)
  BY <1>0, <1>1 DEF JobOK, JobFits
<1>3. /\ next \in j.after..MaxSeq
      /\ \A n \in Seqs : n \in DOMAIN j.page <=> j.after < n /\ n <= next
      /\ (DOMAIN j.page) # {} => j.dev = j.gen
  BY <1>0, <1>2, PageContinues
<1>4. RowsTrue(j.gen, j.page)
  BY <1>2, <1>3 DEF RowsTrue
<1> HIDE DEF next, j
<1>5. MaxSeq \in Nat
  BY SyncAssumption
<1>6. /\ (IF next > j.cur THEN next ELSE j.cur) \in 0..MaxSeq
      /\ next \in 0..MaxSeq
      /\ \A n \in Seqs : n <= (IF next > j.cur THEN next ELSE j.cur)
                            <=> n <= cursor[j.gen] \/ n \in DOMAIN j.page
  BY <1>0, <1>1, <1>2, <1>3, <1>5 DEF Seqs
<1> QED
  BY <1>4, <1>6 DEF Sound, j, next

\* backfillSequences stores rows that the cursor has passed before, or continues.
LEMMA BackfillCommitKeeps ==
  ASSUME IInv, NEW t \in Tabs, BackfillCommit(t)
  PROVE  IInv'
<1> DEFINE next == NextSeq(job[t], job[t].after)
           top == IF next > job[t].cur THEN next ELSE job[t].cur
           label == IF next < job[t].through /\ job[t].more THEN "backfill_fetch"
                    ELSE "backfill_end"
           j == [job[t] EXCEPT !.after = next, !.page = <<>>, !.cur = 0]
<1>0. job[t] \in Job /\ JobOK(t) /\ UNCHANGED server
  BY JobFields DEF IInv, BackfillCommit
<1>1. Sound(job[t].gen, job[t].page, top) /\ next \in 0..MaxSeq /\ 0 \in 0..MaxSeq
  BY BackfillSound, SyncAssumption
<1>2. TabMoves(t, j, label) /\ CommitPage(job[t].gen, job[t].cur, job[t].page, top)
  BY DEF TabMoves, BackfillCommit, Goto
<1>3. next <= top /\ label \in {"backfill_fetch", "backfill_end"} /\ job[t].cur \in 0..MaxSeq
  BY <1>0, <1>1, SyncAssumption DEF Job
<1> HIDE DEF next, label, top
<1>4. /\ j \in Job /\ j.gen = job[t].gen /\ j.ingests = job[t].ingests /\ j.page = <<>>
      /\ j.todo = job[t].todo /\ j.after = next
  BY <1>0, <1>1, EmptyPage DEF Job
<1> HIDE DEF j
<1>5. /\ Shared' /\ Progress
      /\ cursor' \in [Generations -> 0..MaxSeq] /\ local' \in [Generations -> [Seqs -> Row]]
      /\ generation' = generation /\ filled' = filled /\ cursor'[job[t].gen] = top
  <2>1. job[t].gen \in Generations
    BY <1>0 DEF Job
  <2> QED
    BY <1>0, <1>1, <1>2, <2>1, CommitKeeps
<1>6. label \in Labels
  BY <1>3 DEF Labels
<1>7. TypeOK'
  BY <1>0, <1>2, <1>4, <1>5, <1>6, TabTypes DEF TypeOK, IInv, Types, server
<1>8. Types'
  BY <1>2, <1>4, <1>6, <1>7, TabTypes DEF Types, IInv
<1>9. JobFits(j, "backfill_end")
  BY <1>0, <1>4, EmptyPage DEF JobOK, JobFits, RowsTrue
<1>10. JobOK(t)'
  <2>1. PICK i \in Job : i = j
    BY <1>4
  <2>2. JobFits(i, "backfill_end")'
    BY <1>5, <1>8, <1>9, <2>1, StillFits DEF IInv
  <2>3. PICK l : l = label
    OBVIOUS
  <2>4. job'[t] = i /\ pc'[t] = l
    BY <1>2, <1>4, <1>6, <2>1, <2>3, TabTypes DEF IInv
  <2>5. i.after <= cursor'[i.gen]
    BY <1>3, <1>4, <1>5, <2>1
  <2> QED
    BY <1>3, <2>2, <2>3, <2>4, <2>5 DEF JobOK, JobFits, RowsTrue, ValidatePage
<1>11. \A q \in Tabs \ {t} : JobOK(q)'
  BY <1>2, <1>4, <1>5, <1>6, <1>8, TabTypes, OtherTab DEF IInv
<1> QED
  BY <1>5, <1>8, <1>10, <1>11 DEF IInv

\* What a receipt commits is sound: the row is in the inbox already.
LEMMA ReceiptSound ==
  ASSUME IInv, NEW t \in Tabs, ReceiptCommit(t)
  PROVE  Sound(job[t].gen, [n \in {job[t].after} |-> [Received EXCEPT !.delivered = TRUE]],
               job[t].cur)
<1> DEFINE rows == [n \in {job[t].after} |-> [Received EXCEPT !.delivered = TRUE]]
<1>0. /\ job[t] \in Job /\ JobOK(t) /\ job[t].cur \in 0..MaxSeq /\ job[t].gen \in Generations
      /\ pc[t] = "receipt_commit"
  BY JobFields DEF IInv, ReceiptCommit, Running
<1>1. job[t].gen = generation /\ cursor[job[t].gen] = job[t].cur
  BY DEF ReceiptCommit, CommitPage, CanCommit, Validate
<1>2. /\ job[t].after \in Seqs /\ srv[job[t].gen][job[t].after] = "acked"
      /\ local[job[t].gen][job[t].after].payload
  BY <1>0, <1>1 DEF JobOK, JobFits
<1>3. DOMAIN rows = {job[t].after} /\ rows[job[t].after] \in Row
  BY DEF Received, Row
<1>4. local[job[t].gen][job[t].after].stored
  BY <1>0, <1>2 DEF IInv, Shared, Custodians
<1>5. job[t].after <= cursor[job[t].gen]
  BY <1>0, <1>2, <1>4, CoveredRows DEF IInv, Shared, Types, TypeOK
<1> HIDE DEF rows
<1>6. RowsTrue(job[t].gen, rows)
  BY <1>2, <1>3 DEF RowsTrue
<1>7. Sound(job[t].gen, rows, job[t].cur)
  BY <1>0, <1>1, <1>3, <1>5, <1>6 DEF Sound
<1> QED
  BY <1>7 DEF rows

\* The receipt of an ACK is stored.
LEMMA ReceiptCommitKeeps ==
  ASSUME IInv, NEW t \in Tabs, ReceiptCommit(t)
  PROVE  IInv'
<1>0. job[t] \in Job /\ JobOK(t) /\ UNCHANGED server
  BY JobFields DEF IInv, ReceiptCommit
<1> DEFINE rows == [n \in {job[t].after} |-> [Received EXCEPT !.delivered = TRUE]]
           j == [job[t] EXCEPT !.after = 0, !.cur = 0]
<1>1. 0 \in 0..MaxSeq
  BY SyncAssumption
<1>2. TabMoves(t, j, "ack") /\ CommitPage(job[t].gen, job[t].cur, rows, job[t].cur)
  BY DEF TabMoves, ReceiptCommit, Goto
<1>3. /\ j \in Job /\ j.gen = job[t].gen /\ j.ingests = job[t].ingests /\ j.page = job[t].page
      /\ j.todo = job[t].todo /\ j.dev = job[t].dev
  BY <1>0, <1>1 DEF Job
<1> HIDE DEF j
<1>4. JobFits(j, "ack")
  BY <1>0, <1>3 DEF JobOK, JobFits
<1>5. Sound(job[t].gen, rows, job[t].cur)
  BY ReceiptSound
<1> HIDE DEF rows
<1> QED
  BY <1>0, <1>2, <1>3, <1>4, <1>5, CommitStep DEF Labels

\* What ingest commits is sound: the envelope is at most the next one.
LEMMA IngestSound ==
  ASSUME IInv, NEW t \in Tabs, IngestCommit(t)
  PROVE  LET j == job[t]
         IN Sound(j.gen, [n \in {j.ingests} |-> Received],
                  IF j.ingests > j.cur THEN j.ingests ELSE j.cur)
<1> DEFINE j == job[t]
           rows == [n \in {j.ingests} |-> Received]
           next == IF j.ingests > j.cur THEN j.ingests ELSE j.cur
<1>0. /\ j \in Job /\ JobOK(t) /\ j.cur \in 0..MaxSeq /\ j.ingests \in 0..MaxSeq
      /\ pc[t] = "ingest_commit" /\ MaxSeq \in Nat
  BY JobFields, SyncAssumption DEF IInv, IngestCommit, Running
<1>1. j.gen = generation /\ cursor[j.gen] = j.cur
  BY DEF IngestCommit, CommitPage, CanCommit, Validate
<1>2. j.ingests <= j.cur + 1 /\ (j.ingests # 0 => srv[j.gen][j.ingests] # "none")
  BY <1>0 DEF JobOK, JobFits
<1>3. DOMAIN rows = {j.ingests} /\ rows[j.ingests] \in Row /\ ~rows[j.ingests].delivered
  BY DEF Received, Row
<1> HIDE DEF rows, j
<1>4. RowsTrue(j.gen, rows)
  BY <1>2, <1>3 DEF RowsTrue, Seqs
<1>5. next \in 0..MaxSeq /\ \A n \in Seqs : n <= next <=> n <= cursor[j.gen] \/ n \in DOMAIN rows
  BY <1>0, <1>1, <1>2, <1>3 DEF Seqs
<1> QED
  BY <1>4, <1>5 DEF Sound, rows, j

\* The envelope of an event is stored.
LEMMA IngestCommitKeeps ==
  ASSUME IInv, NEW t \in Tabs, IngestCommit(t)
  PROVE  IInv'
<1>0. job[t] \in Job /\ JobOK(t) /\ UNCHANGED server
  BY JobFields DEF IInv, IngestCommit
<1> DEFINE rows == [n \in {job[t].ingests} |-> Received]
           next == IF job[t].ingests > job[t].cur THEN job[t].ingests ELSE job[t].cur
           j == [job[t] EXCEPT !.ingests = 0, !.cur = 0, !.then = "idle"]
<1>1. 0 \in 0..MaxSeq
  BY SyncAssumption
<1>2. TabMoves(t, j, "pending") /\ CommitPage(job[t].gen, job[t].cur, rows, next)
  BY DEF TabMoves, IngestCommit, Goto
<1>3. /\ j \in Job /\ j.gen = job[t].gen /\ j.ingests = 0 /\ j.page = job[t].page
      /\ j.todo = job[t].todo /\ j.dev = job[t].dev
  BY <1>0, <1>1 DEF Job
<1> HIDE DEF j
<1>4. JobFits(j, "pending")
  BY <1>0, <1>3 DEF JobOK, JobFits
<1>5. Sound(job[t].gen, rows, next)
  BY IngestSound
<1> HIDE DEF rows, next
<1> QED
  BY <1>0, <1>2, <1>3, <1>4, <1>5, CommitStep DEF Labels

\* The backfill of the stored identity is marked as finished.
LEMMA BackfillEndKeeps ==
  ASSUME IInv, NEW t \in Tabs, BackfillEnd(t)
  PROVE  IInv'
<1> DEFINE g == job[t].gen
           j == [NoJob EXCEPT !.gen = g, !.then = "page", !.current = job[t].current]
<1>0. /\ job[t] \in Job /\ JobOK(t) /\ UNCHANGED <<server, generation, cursor, local>>
      /\ g = generation /\ filled' = filled \cup {g} /\ g \in Generations
  BY JobFields DEF IInv, BackfillEnd, Validate
<1>1. TabMoves(t, j, "pending")
  BY DEF TabMoves, BackfillEnd, Goto
<1>2. j \in Job /\ j.gen = g /\ j.ingests = 0 /\ j.page = <<>> /\ j.todo = {} /\ j.after = 0
  <2>1. NoJob \in Job
    BY RestFits DEF IInv
  <2>2. j \in Job /\ j.gen = g
    BY <1>0, <2>1 DEF Job
  <2> QED
    BY <2>2 DEF NoJob
<1> HIDE DEF j
<1>3. JobFits(j, "pending")
  BY <1>0, <1>2, BlankFits, SyncAssumption DEF IInv, Generations
<1>4. TypeOK'
  BY <1>0, <1>1, <1>2, TabTypes DEF Labels, TypeOK, IInv, Types, server
<1>5. Shared'
  <2>1. Custodians' /\ CursorCoversStored' /\ ReceiptIsTrue'
    BY <1>0 DEF IInv, Shared, Custodians, CursorCoversStored, ReceiptIsTrue, server
  <2>2. NoRowsOfOldGeneration'
    BY <1>0 DEF IInv, Shared, NoRowsOfOldGeneration
  <2> QED
    BY <2>1, <2>2 DEF Shared
<1>6. Progress
  BY <1>0, SyncAssumption DEF Progress, IInv, Types, TypeOK, server, Generations
<1> QED
  BY <1>1, <1>2, <1>3, <1>4, <1>5, <1>6, TabStep DEF Labels

\* A new identity clears the inbox; the operations of the old one rely on nothing in it.
LEMMA ResetKeeps ==
  ASSUME IInv, Reset
  PROVE  IInv'
<1>0. /\ generation' = generation + 1 /\ generation' \in Generations
      /\ generation \in Nat /\ \A g \in Generations : g \in Nat
      /\ UNCHANGED <<srv, live, pc, job>>
  BY SyncAssumption DEF IInv, Types, TypeOK, Reset, Generations, server
<1>1. \A g \in Generations, n \in Seqs :
        /\ local'[g][n] = NoRow /\ cursor'[g] = 0
        /\ NoRow.stored = FALSE /\ NoRow.payload = FALSE /\ NoRow.delivered = FALSE
        /\ NoRow \in Row /\ ~(n <= cursor'[g])
  BY DEF Reset, NoRow, Row, Seqs
<1>2. Types'
  <2>1. local' \in [Generations -> [Seqs -> Row]] /\ cursor' \in [Generations -> 0..MaxSeq]
    BY <1>1, SyncAssumption DEF Reset
  <2> QED
    BY <1>0, <2>1 DEF IInv, Types, TypeOK, Reset
<1>3. Custodians'
  BY <1>0, <1>1 DEF IInv, Shared, Custodians
<1>4. CursorCoversStored'
  <2>1. ASSUME NEW g \in Generations, NEW n \in Seqs
        PROVE  local'[g][n].stored = (n <= cursor'[g])
    <3>1. PICK row \in Row : row = local'[g][n] /\ ~row.stored
      BY <1>1
    <3>2. PICK c : c = cursor'[g] /\ ~(n <= c)
      BY <1>1
    <3>3. row.stored = (n <= c)
      BY <3>1, <3>2, StoredUpTo, Zenon
    <3> QED
      BY <3>1, <3>2, <3>3, Zenon
  <2> QED
    BY <2>1, Zenon DEF CursorCoversStored
<1>5. NoRowsOfOldGeneration' /\ ReceiptIsTrue'
  BY <1>0, <1>1 DEF NoRowsOfOldGeneration, ReceiptIsTrue, Reset
<1>6. Progress
  BY <1>0 DEF Progress
<1>7. \A t \in Tabs : JobOK(t)'
  BY <1>0, <1>2, <1>6, OtherTab DEF IInv
<1> QED
  BY <1>2, <1>3, <1>4, <1>5, <1>7 DEF IInv, Shared

----------------------------------------------------------------------------
(* The invariants *)

\* A step in which nothing changes.
LEMMA StutterKeeps == IInv /\ UNCHANGED vars => IInv'
  BY DEF vars, IInv, Types, TypeOK, Shared, Custodians, CursorCoversStored,
         NoRowsOfOldGeneration, ReceiptIsTrue, JobOK, JobFits, RowsTrue, ValidatePage

\* Every step keeps the invariant.
LEMMA NextIInv == IInv /\ [Next]_vars => IInv'
<1> SUFFICES ASSUME IInv, [Next]_vars PROVE IInv'
  OBVIOUS
<1>1. ASSUME NEW g \in 1..generation, Deliver(g) \/ Expire(g) \/ LoseEvent(g) PROVE IInv'
  <2>1. UNCHANGED <<inbox, pc, job>>
    BY <1>1 DEF Deliver, Expire, LoseEvent
  <2> QED
    BY <1>1, <2>1, ServerStep
<1>2. ASSUME NEW t \in Tabs, Advance(t) PROVE IInv'
  BY <1>2, BackfillStartKeeps, FetchKeeps, CursorReadKeeps, BackfillCommitKeeps,
     BackfillEndKeeps, PageCommitKeeps, PendingReadKeeps, AckRequestKeeps, AckDoneKeeps,
     ReceiptCommitKeeps, IngestReadKeeps, IngestCommitKeeps DEF Advance
<1>3. ASSUME NEW t \in Tabs,
             \/ StartSync(t) \/ StartIngest(t) \/ AckUnanswered(t) \/ ReceiptLost(t)
             \/ Deactivate(t) \/ Fail(t)
      PROVE  IInv'
  BY <1>3, StartSyncKeeps, StartIngestKeeps, AckUnansweredKeeps, ReceiptLostKeeps,
     DeactivateKeeps, FailKeeps
<1> QED
  BY <1>1, <1>2, <1>3, ResetKeeps, StutterKeeps DEF Next

\* The invariant holds in every reachable state.
LEMMA Invariant == Spec => []IInv
  BY InitIInv, NextIInv, PTL DEF Spec

\* The variables keep their types: no page and no event moves a cursor past the bound.
THEOREM TypeCorrect == Spec => []TypeOK
<1>1. IInv => TypeOK
  BY DEF IInv, Types
<1> QED
  BY <1>1, Invariant, PTL

\* commitPage, called by synchronize and ingest of any number of tabs: the inbox holds
\* exactly the envelopes up to its cursor, whatever order pages, events and commits
\* come in.
THEOREM CursorHasNoGaps == Spec => []CursorCoversStored
<1>1. IInv => CursorCoversStored
  BY DEF IInv, Shared
<1> QED
  BY <1>1, Invariant, PTL

\* An operation that outlives its identity writes nothing into the inbox of the next.
THEOREM OldGenerationIsSilent == Spec => []NoRowsOfOldGeneration
<1>1. IInv => NoRowsOfOldGeneration
  BY DEF IInv, Shared
<1> QED
  BY <1>1, Invariant, PTL

\* A receipt in the inbox is one that the server has given.
THEOREM ReceiptsAreTrue == Spec => []ReceiptIsTrue
<1>1. IInv => ReceiptIsTrue
  BY DEF IInv, Shared
<1> QED
  BY <1>1, Invariant, PTL

----------------------------------------------------------------------------
(* What a step does to the mailbox and the inbox *)

\* While the identity is the same, a step moves envelopes on the server or writes rows
\* into the inbox, not both.
LEMMA OneSideMoves ==
  ASSUME IInv, [Next]_vars, generation' = generation
  PROVE  /\ \/ local' = local /\ \A g \in Generations, n \in Seqs : ServerMove(g, n)
            \/ srv' = srv /\ \A g \in Generations, n \in Seqs : RowMove(g, n)
         /\ cursor[generation] <= cursor'[generation]
<1>0. \A g \in Generations : cursor[g] \in Nat
  BY SyncAssumption DEF IInv, Types, TypeOK
<1>0a. generation \in Generations
  BY DEF IInv, Types, TypeOK
<1>1. CASE UNCHANGED <<srv, local, cursor>>
  BY <1>0, <1>0a, <1>1 DEF ServerMove
<1>2. ASSUME NEW g \in 1..generation, Deliver(g) \/ Expire(g) \/ LoseEvent(g)
      PROVE  /\ local' = local /\ \A x \in Generations, n \in Seqs : ServerMove(x, n)
             /\ cursor' = cursor
  <2>1. UNCHANGED <<inbox, pc, job>>
    BY <1>2 DEF Deliver, Expire, LoseEvent
  <2> QED
    BY <1>2, <2>1, ServerStep DEF inbox
<1>3. ASSUME NEW t \in Tabs, AckRequest(t) \/ AckUnanswered(t)
      PROVE  /\ local' = local /\ \A x \in Generations, n \in Seqs : ServerMove(x, n)
             /\ cursor' = cursor
  <2>1. PICK n \in job[t].todo : srv' \in {srv, AckedBy(n, t)} /\ UNCHANGED <<live, inbox>>
    BY <1>3 DEF AckRequest, AckUnanswered
  <2> QED
    BY <2>1, AckMoves DEF inbox
<1>4. ASSUME NEW t \in Tabs,
             BackfillCommit(t) \/ PageCommit(t) \/ ReceiptCommit(t) \/ IngestCommit(t)
      PROVE  /\ srv' = srv /\ \A x \in Generations, n \in Seqs : RowMove(x, n)
             /\ cursor[generation] <= cursor'[generation]
  <2>1. job[t].gen \in Generations /\ UNCHANGED server
    BY <1>4, JobFields DEF IInv, BackfillCommit, PageCommit, ReceiptCommit, IngestCommit
  <2>2. \E expected, rows, next :
            CommitPage(job[t].gen, expected, rows, next) /\ Sound(job[t].gen, rows, next)
    <3>1. CASE BackfillCommit(t)
      BY <3>1, BackfillSound DEF BackfillCommit
    <3>2. CASE PageCommit(t)
      BY <3>2, PageSound DEF PageCommit
    <3>3. CASE ReceiptCommit(t)
      BY <3>3, ReceiptSound DEF ReceiptCommit
    <3>4. CASE IngestCommit(t)
      BY <3>4, IngestSound DEF IngestCommit
    <3> QED
      BY <1>4, <3>1, <3>2, <3>3, <3>4
  <2>3. PICK expected, rows, next :
            CommitPage(job[t].gen, expected, rows, next) /\ Sound(job[t].gen, rows, next)
    BY <2>2
  <2> QED
    BY <2>1, <2>3, CommitKeeps DEF server, Progress
<1>5. CASE UNCHANGED vars
  BY <1>1, <1>5 DEF vars
<1>6. ASSUME NEW t \in Tabs,
             \/ StartSync(t) \/ StartIngest(t) \/ ReceiptLost(t) \/ Deactivate(t) \/ Fail(t)
             \/ BackfillStart(t) \/ BackfillFetch(t) \/ BackfillCursor(t) \/ BackfillEnd(t)
             \/ PageCursor(t) \/ PageFetch(t) \/ PendingRead(t) \/ AckDone(t)
             \/ ReceiptCursor(t) \/ IngestStart(t) \/ IngestAgain(t)
      PROVE  UNCHANGED <<srv, local, cursor>>
  BY <1>6 DEF StartSync, StartIngest, ReceiptLost, Deactivate, Fail, BackfillStart,
              BackfillFetch, BackfillCursor, BackfillEnd, PageCursor, PageFetch, PendingRead,
              AckDone, ReceiptCursor, IngestStart, IngestAgain, server, inbox
<1>7. ~Reset
  BY SyncAssumption DEF Reset, IInv, Types, TypeOK, Generations
<1>8. cursor' = cursor => cursor[generation] <= cursor'[generation]
  BY <1>0, <1>0a
<1> QED
  BY <1>1, <1>2, <1>3, <1>4, <1>5, <1>6, <1>7, <1>8 DEF Next, Advance

\* What InboxOnlyGrows says of a row: nothing that it has is lost.
LEMMA NothingLost ==
  ASSUME NEW new \in Row, NEW old \in Row,
         old.payload => new.payload, old.delivered => new.delivered
  PROVE  Merge(new, old) = Merge(new, NoRow)
<1>1. /\ (new.payload \/ old.payload) = (new.payload \/ NoRow.payload)
      /\ (new.delivered \/ old.delivered) = (new.delivered \/ NoRow.delivered)
  BY DEF Row, NoRow
<1> QED
  BY <1>1, Zenon DEF Merge

\* Two tabs, stale pages and late events included: until the identity is replaced, the
\* cursor never moves back and no row loses its payload or its receipt.
THEOREM InboxGrows == Spec => InboxOnlyGrows
<1> DEFINE Grow == generation' = generation =>
        /\ cursor'[generation] >= cursor[generation]
        /\ \A n \in Seqs : Merge(local'[generation][n], local[generation][n])
                           = Merge(local'[generation][n], NoRow)
<1>1. IInv /\ IInv' /\ [Next]_vars => [Grow]_vars
  <2> SUFFICES ASSUME IInv, IInv', [Next]_vars, generation' = generation
               PROVE  /\ cursor'[generation] >= cursor[generation]
                      /\ \A n \in Seqs : Merge(local'[generation][n], local[generation][n])
                                         = Merge(local'[generation][n], NoRow)
    OBVIOUS
  <2>1. /\ generation \in Generations /\ cursor[generation] \in Nat /\ cursor'[generation] \in Nat
        /\ \A n \in Seqs : local[generation][n] \in Row /\ local'[generation][n] \in Row
    BY SyncAssumption DEF IInv, Types, TypeOK
  <2>2. cursor'[generation] >= cursor[generation]
    BY <2>1, OneSideMoves
  <2>3. ASSUME NEW n \in Seqs
        PROVE  /\ local[generation][n].payload => local'[generation][n].payload
               /\ local[generation][n].delivered => local'[generation][n].delivered
    BY <2>1, OneSideMoves DEF RowMove
  <2>4. ASSUME NEW n \in Seqs
        PROVE  Merge(local'[generation][n], local[generation][n])
                = Merge(local'[generation][n], NoRow)
    BY <2>1, <2>3, NothingLost
  <2> QED
    BY <2>2, <2>4
<1>2. Spec => [][Grow]_vars
  BY <1>1, Invariant, PTL DEF Spec
<1> QED
  BY <1>2 DEF InboxOnlyGrows

----------------------------------------------------------------------------
(* The custody of the payloads *)

\* Who keeps a payload, once the invariant has excluded that it is lost.
KeeperIs(g, n, keeper) ==
    \/ g < generation /\ keeper = "abandoned"
    \/ /\ g >= generation
       /\ \/ srv[g][n] = "none" /\ keeper = "unsent"
          \/ srv[g][n] = "held" /\ local[g][n].payload /\ keeper = "both"
          \/ srv[g][n] = "held" /\ ~local[g][n].payload /\ keeper = "server"
          \/ srv[g][n] \in {"expired", "acked"} /\ local[g][n].payload /\ keeper = "device"
          \/ srv[g][n] = "expired" /\ ~local[g][n].payload /\ keeper = "expired"

\* The refinement mapping never says that a payload is lost.
LEMMA Keepers ==
  IInv => \A g \in Generations, n \in Seqs : KeeperIs(g, n, custody[g][n])
<1> SUFFICES ASSUME IInv, NEW g \in Generations, NEW n \in Seqs
             PROVE  KeeperIs(g, n, custody[g][n])
  OBVIOUS
<1>1. /\ srv[g][n] \in {"none", "held", "acked", "expired"} /\ g \in Nat /\ generation \in Nat
      /\ generation \in Generations
  BY SyncAssumption DEF IInv, Types, TypeOK, Generations
<1>2. srv[g][n] = "acked" /\ g >= generation => local[g][n].payload
  <2>1. g > generation => srv[g][n] = "none"
    BY DEF IInv, Shared, Custodians
  <2>2. g = generation /\ srv[g][n] = "acked" => local[g][n].payload
    BY DEF IInv, Shared, Custodians
  <2> QED
    BY <1>1, <2>1, <2>2
<1>3. custody[g][n] =
        CASE g < generation -> "abandoned"
          [] g >= generation /\ srv[g][n] = "none" -> "unsent"
          [] g >= generation /\ srv[g][n] = "held" ->
                IF local[g][n].payload THEN "both" ELSE "server"
          [] g >= generation /\ srv[g][n] = "expired" ->
                IF local[g][n].payload THEN "device" ELSE "expired"
          [] g >= generation /\ srv[g][n] = "acked" ->
                IF local[g][n].payload THEN "device" ELSE "lost"
  BY DEF custody
<1> QED
  BY <1>1, <1>2, <1>3 DEF KeeperIs

\* The mapping, as a function.
LEMMA CustodyShape == custody = [g \in Generations |-> [n \in Seqs |-> custody[g][n]]]
<1> DEFINE K(g, n) ==
        CASE g < generation -> "abandoned"
          [] g >= generation /\ srv[g][n] = "none" -> "unsent"
          [] g >= generation /\ srv[g][n] = "held" ->
                IF local[g][n].payload THEN "both" ELSE "server"
          [] g >= generation /\ srv[g][n] = "expired" ->
                IF local[g][n].payload THEN "device" ELSE "expired"
          [] g >= generation /\ srv[g][n] = "acked" ->
                IF local[g][n].payload THEN "device" ELSE "lost"
<1>1. custody = [g \in Generations |-> [n \in Seqs |-> K(g, n)]]
  BY Zenon DEF custody
<1> HIDE DEF K
<1>2. \A g \in Generations, n \in Seqs : custody[g][n] = K(g, n)
  BY <1>1
<1> QED
  BY <1>1, <1>2

\* Every payload has a keeper.
LEMMA CustodyTyped ==
  IInv => custody \in [Generations -> [Seqs -> Custody!Keepers]]
<1> SUFFICES ASSUME IInv PROVE custody \in [Generations -> [Seqs -> Custody!Keepers]]
  OBVIOUS
<1>1. \A g \in Generations, n \in Seqs : custody[g][n] \in Custody!Keepers
  BY Keepers DEF KeeperIs, Custody!Keepers
<1> QED
  BY <1>1, CustodyShape

\* At the beginning nothing was sent.
LEMMA InitCustody == Init => Custody!Init
<1> SUFFICES ASSUME Init PROVE Custody!Init
  OBVIOUS
<1>1. IInv
  BY InitIInv
<1>2. \A g \in Generations, n \in Seqs : srv[g][n] = "none" /\ ~(g < generation)
  BY SyncAssumption DEF Init, Generations
<1>3. \A g \in Generations, n \in Seqs : custody[g][n] = "unsent"
  BY <1>1, <1>2, Keepers DEF KeeperIs
<1> QED
  BY <1>3, CustodyShape DEF Custody!Init

\* While the identity is the same, what a step does to the server or to the inbox is one
\* of the moves of the custody.
LEMMA SameIdentityMoves ==
  ASSUME IInv, IInv', [Next]_vars, generation' = generation,
         NEW g \in Generations, NEW n \in Seqs, NEW k, NEW l,
         KeeperIs(g, n, k), KeeperIs(g, n, l)'
  PROVE  <<k, l>> \in Custody!Moves
<1>1. /\ g \in Nat /\ generation \in Nat
      /\ srv[g][n] \in {"none", "held", "acked", "expired"}
      /\ srv'[g][n] \in {"none", "held", "acked", "expired"}
  BY SyncAssumption DEF IInv, Types, TypeOK, Generations
<1>2. CASE g < generation
  BY <1>1, <1>2 DEF KeeperIs, Custody!Moves, Custody!Keepers
<1>3. CASE g >= generation /\ local' = local /\ ServerMove(g, n)
  <2>1. srv[g][n] = "none" => ~local[g][n].payload
    BY DEF IInv, Shared, Custodians
  <2> QED
    BY <1>1, <1>3, <2>1 DEF KeeperIs, ServerMove, Custody!Moves, Custody!Keepers
<1>4. CASE g >= generation /\ srv' = srv /\ RowMove(g, n)
  BY <1>1, <1>4 DEF KeeperIs, RowMove, Custody!Moves, Custody!Keepers
<1> QED
  BY <1>1, <1>2, <1>3, <1>4, OneSideMoves

\* A new identity abandons the mailbox of the one before.
LEMMA ResetMoves ==
  ASSUME IInv, IInv', Reset,
         NEW g \in Generations, NEW n \in Seqs, NEW k, NEW l,
         KeeperIs(g, n, k), KeeperIs(g, n, l)'
  PROVE  <<k, l>> \in Custody!Moves
<1>1. g \in Nat /\ generation \in Nat /\ generation' = generation + 1 /\ srv' = srv
  BY SyncAssumption DEF IInv, Types, TypeOK, Generations, Reset, server
<1>2. k \in Custody!Keepers
  BY DEF KeeperIs, Custody!Keepers
<1>3. CASE g < generation + 1
  BY <1>1, <1>2, <1>3 DEF KeeperIs, Custody!Moves
<1>4. CASE g > generation
  <2>1. srv[g][n] = "none"
    BY <1>4 DEF IInv, Shared, Custodians
  <2> QED
    BY <1>1, <1>4, <2>1 DEF KeeperIs, Custody!Moves, Custody!Keepers
<1> QED
  BY <1>1, <1>3, <1>4

\* Only a new identity changes the generation.
LEMMA OnlyResetReplaces == [Next]_vars => Reset \/ generation' = generation
<1>1. ASSUME NEW t \in Tabs, Advance(t) PROVE generation' = generation
  BY <1>1 DEF Advance, BackfillStart, BackfillFetch, BackfillCursor, BackfillCommit,
              BackfillEnd, PageCursor, PageFetch, PageCommit, PendingRead, AckRequest,
              AckDone, ReceiptCursor, ReceiptCommit, IngestStart, IngestAgain,
              IngestCommit, CommitPage, inbox
<1>2. ASSUME NEW t \in Tabs,
             \/ StartSync(t) \/ StartIngest(t) \/ AckUnanswered(t) \/ ReceiptLost(t)
             \/ Deactivate(t) \/ Fail(t)
      PROVE  generation' = generation
  BY <1>2 DEF StartSync, StartIngest, AckUnanswered, ReceiptLost, Deactivate, Fail, inbox
<1>3. ASSUME NEW g \in 1..generation, Deliver(g) \/ Expire(g) \/ LoseEvent(g)
      PROVE  generation' = generation
  BY <1>3 DEF Deliver, Expire, LoseEvent, inbox
<1> QED
  BY <1>1, <1>2, <1>3 DEF Next, vars

\* Every step is a step of the custody.
LEMMA CustodyStep == IInv /\ IInv' /\ [Next]_vars => [Custody!Next]_custody
<1> SUFFICES ASSUME IInv, IInv', [Next]_vars PROVE Custody!Next
  OBVIOUS
<1>1. (custody \in [Generations -> [Seqs -> Custody!Keepers]])'
  BY CustodyTyped, PTL
<1>2. \A g \in Generations, n \in Seqs : KeeperIs(g, n, custody[g][n])
  BY Keepers
<1>3. (\A g \in Generations, n \in Seqs : KeeperIs(g, n, custody[g][n]))'
  BY Keepers, PTL
<1>4. ASSUME NEW g \in Generations, NEW n \in Seqs
      PROVE  <<custody[g][n], custody'[g][n]>> \in Custody!Moves
  <2>1. KeeperIs(g, n, custody[g][n])
    BY <1>2
  <2>2. KeeperIs(g, n, custody[g][n])'
    BY <1>3
  <2>3. PICK k, l : k = custody[g][n] /\ l = custody'[g][n]
    OBVIOUS
  <2>4. KeeperIs(g, n, k) /\ KeeperIs(g, n, l)'
    BY <2>1, <2>2, <2>3 DEF KeeperIs
  <2>5. Reset \/ generation' = generation
    BY OnlyResetReplaces
  <2>6. CASE Reset
    BY <2>3, <2>4, <2>6, ResetMoves
  <2>7. CASE generation' = generation
    BY <2>3, <2>4, <2>7, SameIdentityMoves
  <2> QED
    BY <2>5, <2>6, <2>7
<1> QED
  BY <1>1, <1>4 DEF Custody!Next

\* The tabs, the server's mailbox and the inbox together keep what MailboxCustody
\* promises: no ACK, expiry, stale page or late event leaves a payload that nobody keeps.
THEOREM RefinesCustody == Spec => ImplementsCustody
  BY InitCustody, CustodyStep, Invariant, PTL DEF Spec, ImplementsCustody, Custody!Spec
=============================================================================
