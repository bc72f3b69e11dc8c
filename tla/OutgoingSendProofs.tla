-------------------------- MODULE OutgoingSendProofs --------------------------
(***************************************************************************)
(* Proofs about OutgoingSend, for any number of tabs, destination device   *)
(* sets, confirmation rounds and requests under way.                       *)
(***************************************************************************)
EXTENDS OutgoingSend, TLAPS

----------------------------------------------------------------------------
(* The inductive invariant *)

Labels == {"idle", "targets", "put", "send", "wait", "answer", "confirm", "confirm_find",
           "confirm_latest", "find", "latest", "accept"}

\* The steps of an operation that has its command.
Commanded == Labels \ {"idle", "targets", "accept"}

\* The local variables of an operation.
Job == [command : DeviceSets \cup {NoCommand}, recovers : BOOLEAN, replace : BOOLEAN,
        round : 0..(Rounds - 1), tries : 0..Confirmations, http : BOOLEAN,
        rejected : BOOLEAN, was : BOOLEAN, delivered : BOOLEAN]

SharedTypes ==
    /\ devSet \in DeviceSets
    /\ stored \in DeviceSets \cup {NoCommand}
    /\ acked \in BOOLEAN /\ late \in BOOLEAN /\ early \in BOOLEAN
    /\ ghosts \subseteq [command : DeviceSets, timedOut : BOOLEAN]
    /\ receipt \in {"none", "sent", "lost", "applied"}
    /\ row \in OutgoingRow
    /\ metadata \in {"none", "accepted", "delivered"}
    /\ page \in {"none", "accepted", "delivered"}

Types == SharedTypes /\ pc \in [Tabs -> Labels] /\ job \in [Tabs -> Job]

\* What an operation with the local variables j, at label, has learnt: an answer, a
\* lookup or an accepted row for a message that is stored, a receipt that was given.
JobFits(j, label) ==
    /\ j.delivered => acked
    /\ label = "accept" => stored # NoCommand
    /\ label = "find" /\ j.was => stored # NoCommand
    /\ label = "answer" /\ ~j.rejected => stored # NoCommand
    /\ label \in Commanded => j.command \in DeviceSets

JobOK(t) == JobFits(job[t], pc[t])

\* The same of the events and pages under way.
Carried ==
    /\ acked => stored # NoCommand
    /\ receipt # "none" => acked
    /\ late => stored # NoCommand
    /\ page # "none" => stored # NoCommand
    /\ page = "delivered" => acked

\* Where a receipt is, once it was applied: in the accepted row, or with the early
\* ones until the row is accepted; and in the metadata, if there are any.
ReceiptKept ==
    receipt = "applied" =>
        /\ row.accepted => row.delivered
        /\ ~row.accepted => early
        /\ metadata # "accepted"

Shared ==
    /\ Carried
    /\ ReceiptKept
    /\ StatusIsTrue
    /\ row.accepted => row.command # NoCommand

IInv == Types /\ Shared /\ \A t \in Tabs : JobOK(t)

----------------------------------------------------------------------------
(* The initial states *)

\* The local variables of a tab at rest.
LEMMA RestFits == NoJob \in Job /\ \A label \in {"idle", "targets"} : JobFits(NoJob, label)
  BY SendAssumption DEF NoJob, Job, JobFits, Commanded

\* At the start there is no command and every tab is at rest.
LEMMA InitIInv == Init => IInv
<1> SUFFICES ASSUME Init PROVE IInv
  OBVIOUS
<1>1. SharedTypes
  BY DEF Init, SharedTypes, NoRow, OutgoingRow
<1>2. pc \in [Tabs -> Labels] /\ job \in [Tabs -> Job]
  BY RestFits DEF Init, Labels
<1>3. Shared
  BY DEF Init, Shared, Carried, ReceiptKept, StatusIsTrue, NoRow
<1>4. \A t \in Tabs : JobOK(t)
  BY RestFits DEF Init, JobOK
<1> QED
  BY <1>1, <1>2, <1>3, <1>4 DEF IInv, Types

----------------------------------------------------------------------------
(* What a step may do to the tabs that do not take it *)

\* The server forgets neither the message nor its receipt.
Grows == (stored # NoCommand => stored' # NoCommand) /\ (acked => acked')

\* What an operation has learnt stays true.
LEMMA StillFits ==
  ASSUME Grows, NEW j, NEW label, JobFits(j, label)
  PROVE  JobFits(j, label)'
  BY DEF Grows, JobFits

\* A tab that does not move knows what it knew.
LEMMA OtherTab ==
  ASSUME Grows, NEW t \in Tabs, JobOK(t), pc'[t] = pc[t], job'[t] = job[t]
  PROVE  JobOK(t)'
<1>1. PICK j, label : j = job[t] /\ label = pc[t]
  OBVIOUS
<1>2. JobFits(j, label)'
  BY <1>1, StillFits DEF JobOK
<1> QED
  BY <1>1, <1>2 DEF JobOK, JobFits

\* A step in which no tab takes part.
LEMMA OutsideStep ==
  ASSUME IInv, SharedTypes', Shared', Grows, UNCHANGED <<pc, job>>
  PROVE  IInv'
<1>1. Types'
  BY DEF IInv, Types
<1>2. \A t \in Tabs : JobOK(t)'
  BY OtherTab DEF IInv
<1> QED
  BY <1>1, <1>2 DEF IInv

\* Tab t moves to label with the local variables j; the others do nothing.
TabMoves(t, j, label) == job' = [job EXCEPT ![t] = j] /\ pc' = [pc EXCEPT ![t] = label]

\* A step of tab t keeps the invariant when the tables keep theirs, nothing is taken
\* back, and the tab has learnt only what is true.
LEMMA TabStep ==
  ASSUME IInv, SharedTypes', Shared', Grows, NEW t \in Tabs, NEW j \in Job,
         NEW label \in Labels, TabMoves(t, j, label), JobFits(j, label)'
  PROVE  IInv'
<1>1. /\ job'[t] = j /\ pc'[t] = label
      /\ \A q \in Tabs \ {t} : pc'[q] = pc[q] /\ job'[q] = job[q]
  BY DEF IInv, Types, TabMoves
<1>2. Types'
  BY DEF IInv, Types, TabMoves
<1>3. JobOK(t)'
  BY <1>1 DEF JobOK, JobFits
<1>4. \A q \in Tabs \ {t} : JobOK(q)'
  BY <1>1, OtherTab DEF IInv
<1> QED
  BY <1>2, <1>3, <1>4 DEF IInv

\* A step in which the server and the inbox stay as they are; a request may be left
\* under way.
LEMMA ReadingStep ==
  ASSUME IInv, UNCHANGED <<server, events, inbox, page>>,
         ghosts' \subseteq [command : DeviceSets, timedOut : BOOLEAN],
         NEW t \in Tabs, NEW j \in Job, NEW label \in Labels, TabMoves(t, j, label),
         JobFits(j, label)
  PROVE  IInv'
<1>1. SharedTypes'
  BY DEF IInv, Types, SharedTypes, server, events, inbox
<1>2. Shared' /\ Grows
  BY DEF IInv, Shared, Carried, ReceiptKept, StatusIsTrue, Grows, server, events, inbox
<1>3. JobFits(j, label)'
  BY <1>2, StillFits
<1> QED
  BY <1>1, <1>2, <1>3, TabStep

\* The local variables of a tab.
LEMMA JobFields ==
  ASSUME IInv, NEW t \in Tabs
  PROVE  /\ job[t] \in Job /\ pc[t] \in Labels /\ JobFits(job[t], pc[t])
         /\ job[t].command \in DeviceSets \cup {NoCommand}
         /\ job[t].round \in 0..(Rounds - 1) /\ job[t].tries \in 0..Confirmations
         /\ job[t].recovers \in BOOLEAN /\ job[t].replace \in BOOLEAN
         /\ job[t].http \in BOOLEAN /\ job[t].rejected \in BOOLEAN
         /\ job[t].was \in BOOLEAN /\ job[t].delivered \in BOOLEAN
  BY DEF IInv, Types, Job, JobOK

\* What a tab knows with the local variables of an operation that got its message.
LEMMA AcceptFits ==
  ASSUME stored # NoCommand, NEW d \in BOOLEAN, d => acked
  PROVE  /\ [NoJob EXCEPT !.delivered = d] \in Job
         /\ JobFits([NoJob EXCEPT !.delivered = d], "accept")
<1> DEFINE j == [NoJob EXCEPT !.delivered = d]
<1>1. j \in Job /\ j.delivered = d
  BY RestFits DEF Job, NoJob
<1> HIDE DEF j
<1>2. JobFits(j, "accept")
  BY <1>1 DEF JobFits, Commanded
<1> QED
  BY <1>1, <1>2 DEF j

----------------------------------------------------------------------------
(* The operations of one tab *)

\* sendText begins.
LEMMA SendTextKeeps ==
  ASSUME IInv, NEW t \in Tabs, SendText(t)
  PROVE  IInv'
<1>1. job[t] \in Job /\ JobFits(job[t], "targets")
  BY JobFields DEF SendText, JobFits, Commanded
<1>2. PICK j \in Job : j = job[t]
  BY <1>1
<1>3. TabMoves(t, j, "targets")
  BY <1>2 DEF TabMoves, SendText, Goto, IInv, Types
<1>4. UNCHANGED <<server, events, inbox, page, ghosts>>
  BY DEF SendText
<1> QED
  BY <1>1, <1>2, <1>3, <1>4, ReadingStep DEF Labels, IInv, Types, SharedTypes

\* recoverOutgoing reads the row.
LEMMA RecoverKeeps ==
  ASSUME IInv, NEW t \in Tabs, Recover(t)
  PROVE  IInv'
<1> DEFINE j == [NoJob EXCEPT !.command = row.command, !.recovers = TRUE,
                              !.was = row.accepted, !.delivered = row.delivered]
<1>1. /\ row.command \in DeviceSets /\ row.accepted \in BOOLEAN /\ row.delivered \in BOOLEAN
      /\ row.accepted => stored # NoCommand
      /\ row.delivered => acked
  BY DEF IInv, Types, SharedTypes, OutgoingRow, Recover, Shared, StatusIsTrue
<1>2. /\ j \in Job /\ j.command = row.command /\ j.was = row.accepted
      /\ j.delivered = row.delivered
  BY <1>1, RestFits DEF Job, NoJob
<1>3. TabMoves(t, j, "find") /\ UNCHANGED <<server, events, inbox, page, ghosts>>
  BY DEF TabMoves, Recover, Goto
<1> HIDE DEF j
<1>4. JobFits(j, "find")
  BY <1>1, <1>2 DEF JobFits
<1> QED
  BY <1>2, <1>3, <1>4, ReadingStep DEF Labels, IInv, Types, SharedTypes

\* The envelopes are built for the devices that the server names.
LEMMA TargetsKeeps ==
  ASSUME IInv, NEW t \in Tabs, Targets(t)
  PROVE  IInv'
<1> DEFINE j == [job[t] EXCEPT !.command = devSet]
<1>1. devSet \in DeviceSets /\ job[t] \in Job /\ JobFits(job[t], "targets")
  BY JobFields DEF IInv, Types, SharedTypes, Targets
<1>2. j \in Job /\ j.command = devSet /\ j.delivered = job[t].delivered
  BY <1>1 DEF Job
<1>3. TabMoves(t, j, "put") /\ UNCHANGED <<server, events, inbox, page, ghosts>>
  BY DEF TabMoves, Targets, Goto
<1> HIDE DEF j
<1>4. JobFits(j, "put")
  BY <1>1, <1>2 DEF JobFits
<1> QED
  BY <1>2, <1>3, <1>4, ReadingStep DEF Labels, IInv, Types, SharedTypes

\* putOutgoing writes a row, or replaces one that is not accepted.
LEMMA PutKeeps ==
  ASSUME IInv, NEW t \in Tabs, Put(t)
  PROVE  IInv'
<1>1. /\ job[t] \in Job /\ JobFits(job[t], "send") /\ job[t].command \in DeviceSets
  BY JobFields DEF Put, JobFits, Commanded, Labels
<1>2. PICK j \in Job : j = job[t]
  BY <1>1
<1>3. TabMoves(t, j, "send") /\ UNCHANGED <<server, events, ghosts, early, metadata, page>>
  BY <1>2 DEF TabMoves, Put, Goto, IInv, Types
<1>4. UNCHANGED <<devSet, stored, acked, late, receipt>>
  BY <1>3 DEF server, events
<1>5. CASE UNCHANGED row
  BY <1>1, <1>2, <1>3, <1>5, ReadingStep DEF Labels, IInv, Types, SharedTypes, inbox
<1>6. CASE row' # row
  <2>1. ~row.accepted /\ row' = [NoRow EXCEPT !.command = job[t].command]
    BY <1>6 DEF Put, PutOutgoing, IInv, Shared
  <2>2. /\ row' \in OutgoingRow /\ row'.accepted = FALSE /\ row'.delivered = FALSE
        /\ row'.command \in DeviceSets
    BY <1>1, <2>1 DEF OutgoingRow, NoRow
  <2>3. SharedTypes'
    BY <1>3, <1>4, <2>2 DEF IInv, Types, SharedTypes
  <2>4. Shared' /\ Grows
    BY <1>3, <1>4, <2>1, <2>2 DEF IInv, Shared, Carried, ReceiptKept, StatusIsTrue, Grows
  <2>5. JobFits(j, "send")'
    BY <1>1, <1>2, <2>4, StillFits
  <2> QED
    BY <1>3, <2>3, <2>4, <2>5, TabStep DEF Labels
<1> QED
  BY <1>5, <1>6

\* sendCommand chooses the WebSocket or HTTP.
LEMMA SendCommandKeeps ==
  ASSUME IInv, NEW t \in Tabs, SendCommand(t)
  PROVE  IInv'
<1>1. PICK http \in BOOLEAN : job' = [job EXCEPT ![t].http = http]
  BY DEF SendCommand
<1> DEFINE j == [job[t] EXCEPT !.http = http]
<1>2. job[t] \in Job /\ JobFits(job[t], "send")
  BY JobFields DEF SendCommand
<1>3. j \in Job /\ j.command = job[t].command /\ j.delivered = job[t].delivered
  BY <1>2 DEF Job
<1>4. TabMoves(t, j, "wait") /\ UNCHANGED <<server, events, inbox, page, ghosts>>
  BY <1>1 DEF TabMoves, SendCommand, Goto
<1> HIDE DEF j
<1>5. JobFits(j, "wait")
  BY <1>2, <1>3 DEF JobFits, Commanded, Labels
<1> QED
  BY <1>3, <1>4, <1>5, ReadingStep DEF Labels, IInv, Types, SharedTypes

\* MessageService.send never forgets what is stored, and stores a command it is given.
LEMMA HandledFacts ==
  ASSUME IInv, NEW c \in DeviceSets
  PROVE  /\ Handled(c) \in DeviceSets \cup {NoCommand}
         /\ stored # NoCommand => Handled(c) = stored
  BY DEF Handled, IInv, Types, SharedTypes

\* What the server and the inbox have in common when the server handles a request, and
\* an event may be left.
LEMMA HandlingKeeps ==
  ASSUME IInv, NEW c \in DeviceSets, stored' = Handled(c), late' \in BOOLEAN,
         late' => late \/ Handled(c) # NoCommand,
         UNCHANGED <<devSet, acked, receipt, inbox, page>>,
         ghosts' \subseteq [command : DeviceSets, timedOut : BOOLEAN]
  PROVE  SharedTypes' /\ Shared' /\ Grows
<1>1. Grows /\ stored' \in DeviceSets \cup {NoCommand}
  BY HandledFacts DEF Grows
<1>2. SharedTypes'
  BY <1>1 DEF IInv, Types, SharedTypes, inbox
<1>3. Shared'
  BY <1>1 DEF Grows, IInv, Shared, Carried, ReceiptKept, StatusIsTrue, inbox
<1> QED
  BY <1>1, <1>2, <1>3

\* The server handles the request that an operation waits for.
LEMMA AnswerKeeps ==
  ASSUME IInv, NEW t \in Tabs, Answer(t)
  PROVE  IInv'
<1> DEFINE result == Handled(job[t].command)
<1> DEFINE j == [job[t] EXCEPT !.rejected = (result = NoCommand), !.delivered = acked]
<1>1. /\ job[t] \in Job /\ job[t].command \in DeviceSets /\ acked \in BOOLEAN
      /\ late \in BOOLEAN /\ ghosts \subseteq [command : DeviceSets, timedOut : BOOLEAN]
  BY JobFields DEF Answer, JobFits, Commanded, Labels, IInv, Types, SharedTypes
<1>2. /\ j \in Job /\ j.command = job[t].command /\ j.delivered = acked
      /\ j.rejected = (result = NoCommand)
  BY <1>1 DEF Job
<1>3. /\ TabMoves(t, j, "answer") /\ stored' = result
      /\ UNCHANGED <<devSet, acked, ghosts, late, receipt, inbox, page>>
  BY DEF TabMoves, Answer, Goto, events
<1>4. SharedTypes' /\ Shared' /\ Grows
  BY <1>1, <1>3, HandlingKeeps
<1> HIDE DEF j
<1>5. PICK i \in Job : i = j
  BY <1>2
<1>6. JobFits(i, "answer")'
  BY <1>1, <1>2, <1>3, <1>5 DEF JobFits
<1> QED
  BY <1>3, <1>4, <1>5, <1>6, TabStep DEF Labels

\* The answer arrives: the message, or delivery_targets_changed.
LEMMA ReceiveKeeps ==
  ASSUME IInv, NEW t \in Tabs, Receive(t)
  PROVE  IInv'
<1>0. UNCHANGED <<server, events, inbox, page, ghosts>>
  BY DEF Receive
<1>1. CASE ~job[t].rejected /\ GotoAccept(t, job[t].delivered)
  <2>1. stored # NoCommand /\ job[t].delivered \in BOOLEAN /\ (job[t].delivered => acked)
    BY <1>1, JobFields DEF Receive, JobFits
  <2>2. TabMoves(t, [NoJob EXCEPT !.delivered = job[t].delivered], "accept")
    BY <1>1 DEF GotoAccept, Goto, TabMoves
  <2> QED
    BY <1>0, <2>1, <2>2, AcceptFits, ReadingStep DEF Labels, IInv, Types, SharedTypes
<1>2. CASE /\ job[t].recovers \/ job[t].round + 1 < Rounds
           /\ Goto(t, "targets")
           /\ job' = [job EXCEPT ![t] = [NoJob EXCEPT !.replace = TRUE,
                            !.round = IF job[t].recovers THEN 0 ELSE job[t].round + 1]]
  <2> DEFINE r == IF job[t].recovers THEN 0 ELSE job[t].round + 1
  <2> DEFINE j == [NoJob EXCEPT !.replace = TRUE, !.round = r]
  <2>1. r \in 0..(Rounds - 1)
    BY <1>2, JobFields, SendAssumption
  <2>2. TabMoves(t, j, "targets")
    BY <1>2 DEF Goto, TabMoves
  <2> HIDE DEF r
  <2>3. j \in Job /\ j.delivered = FALSE
    BY <2>1, RestFits DEF Job, NoJob
  <2> HIDE DEF j
  <2>4. JobFits(j, "targets")
    BY <2>3 DEF JobFits, Commanded
  <2> QED
    BY <1>0, <2>2, <2>3, <2>4, ReadingStep DEF Labels, IInv, Types, SharedTypes
<1> QED
  BY <1>1, <1>2 DEF Receive

\* A request that is given up may stay under way.
LEMMA ForgetTyped ==
  ASSUME IInv, NEW g \in [command : DeviceSets, timedOut : BOOLEAN], Forget(g)
  PROVE  ghosts' \subseteq [command : DeviceSets, timedOut : BOOLEAN]
  BY DEF Forget, IInv, Types, SharedTypes

\* The answer does not come.
LEMMA UnconfirmedKeeps ==
  ASSUME IInv, NEW t \in Tabs, Unconfirmed(t)
  PROVE  IInv'
<1> DEFINE j == [job[t] EXCEPT !.tries = @ + 1, !.rejected = FALSE, !.delivered = FALSE]
<1>1. /\ job[t] \in Job /\ job[t].command \in DeviceSets /\ JobFits(job[t], pc[t])
      /\ job[t].tries + 1 \in 0..Confirmations
  BY JobFields, SendAssumption DEF Unconfirmed, JobFits, Commanded, Labels
<1>2. j \in Job /\ j.command = job[t].command /\ j.delivered = FALSE
  BY <1>1 DEF Job
<1>3. TabMoves(t, j, "confirm") /\ UNCHANGED <<server, receipt, inbox, page>>
  BY DEF TabMoves, Unconfirmed, Goto
<1>4. PICK timedOut \in BOOLEAN :
            IF pc[t] = "wait"
            THEN /\ Forget([command |-> job[t].command, timedOut |-> timedOut])
                 /\ UNCHANGED late
            ELSE /\ late' = (late \/ (timedOut /\ ~job[t].rejected))
                 /\ UNCHANGED ghosts
  BY DEF Unconfirmed
<1>5. ghosts' \subseteq [command : DeviceSets, timedOut : BOOLEAN]
  <2>1. CASE pc[t] = "wait"
    BY <1>1, <1>4, <2>1, ForgetTyped
  <2>2. CASE pc[t] # "wait"
    BY <1>4, <2>2 DEF IInv, Types, SharedTypes
  <2> QED
    BY <2>1, <2>2
<1>6. late' \in BOOLEAN /\ (late' => stored # NoCommand)
  <2>0. late \in BOOLEAN /\ (late => stored # NoCommand)
    BY DEF IInv, Types, SharedTypes, Shared, Carried
  <2>1. CASE pc[t] = "wait"
    BY <1>4, <2>0, <2>1
  <2>2. CASE pc[t] = "answer"
    <3>1. ~job[t].rejected => stored # NoCommand
      BY <1>1, <2>2 DEF JobFits
    <3> QED
      BY <1>4, <2>0, <2>2, <3>1
  <2> QED
    BY <2>1, <2>2 DEF Unconfirmed
<1>7. SharedTypes'
  BY <1>3, <1>5, <1>6 DEF IInv, Types, SharedTypes, server, inbox
<1>8. Shared' /\ Grows
  BY <1>3, <1>6 DEF IInv, Shared, Carried, ReceiptKept, StatusIsTrue, Grows, server, inbox
<1> HIDE DEF j
<1>9. PICK i \in Job : i = j
  BY <1>2
<1>10. JobFits(i, "confirm")'
  BY <1>1, <1>2, <1>9 DEF JobFits
<1> QED
  BY <1>3, <1>7, <1>8, <1>9, <1>10, TabStep DEF Labels

\* The row is looked at.
LEMMA CheckRowKeeps ==
  ASSUME IInv, NEW t \in Tabs,
         NEW at \in {"confirm", "confirm_latest", "latest"},
         NEW otherwise \in {"confirm_find", "send"}, CheckRow(t, at, otherwise)
  PROVE  IInv'
<1>0. UNCHANGED <<server, events, inbox, page, ghosts>>
  BY DEF CheckRow
<1>1. CASE row.accepted /\ GotoAccept(t, row.delivered)
  <2>1. stored # NoCommand /\ row.delivered \in BOOLEAN /\ (row.delivered => acked)
    BY <1>1 DEF IInv, Types, SharedTypes, OutgoingRow, Shared, StatusIsTrue
  <2>2. TabMoves(t, [NoJob EXCEPT !.delivered = row.delivered], "accept")
    BY <1>1 DEF GotoAccept, Goto, TabMoves
  <2> QED
    BY <1>0, <2>1, <2>2, AcceptFits, ReadingStep DEF Labels, IInv, Types, SharedTypes
<1>2. CASE Goto(t, otherwise) /\ UNCHANGED job
  <2>1. job[t] \in Job /\ JobFits(job[t], otherwise)
    BY JobFields DEF CheckRow, JobFits, Commanded, Labels
  <2>2. PICK j \in Job : j = job[t]
    BY <2>1
  <2>3. TabMoves(t, j, otherwise)
    BY <1>2, <2>2 DEF TabMoves, Goto, IInv, Types
  <2> QED
    BY <1>0, <2>1, <2>2, <2>3, ReadingStep DEF Labels, IInv, Types, SharedTypes
<1> QED
  BY <1>1, <1>2 DEF CheckRow

\* The server is asked for the message.  A lookup that misses what was accepted before
\* does not happen, and would not lead to a second send.
LEMMA FindSentKeeps ==
  ASSUME IInv, NEW t \in Tabs,
         NEW at \in {"confirm_find", "find"}, NEW missing \in {"confirm_latest", "latest", "accept"},
         FindSent(t, at, missing),
         missing = "accept" => at = "find" /\ job[t].was
  PROVE  IInv'
<1>0. UNCHANGED <<server, events, inbox, page, ghosts>>
  BY DEF FindSent
<1>1. CASE stored # NoCommand /\ GotoAccept(t, acked)
  <2>1. acked \in BOOLEAN
    BY DEF IInv, Types, SharedTypes
  <2>2. TabMoves(t, [NoJob EXCEPT !.delivered = acked], "accept")
    BY <1>1 DEF GotoAccept, Goto, TabMoves
  <2> QED
    BY <1>0, <1>1, <2>1, <2>2, AcceptFits, ReadingStep DEF Labels, IInv, Types, SharedTypes
<1>2. CASE stored = NoCommand /\ Goto(t, missing) /\ UNCHANGED job
  <2>1. job[t] \in Job /\ JobFits(job[t], missing)
    BY <1>2, JobFields DEF FindSent, JobFits, Commanded, Labels
  <2>2. PICK j \in Job : j = job[t]
    BY <2>1
  <2>3. TabMoves(t, j, missing)
    BY <1>2, <2>2 DEF TabMoves, Goto, IInv, Types
  <2> QED
    BY <1>0, <2>1, <2>2, <2>3, ReadingStep DEF Labels, IInv, Types, SharedTypes
<1> QED
  BY <1>1, <1>2 DEF FindSent

\* A lookup fails.
LEMMA ConfirmFailsKeeps ==
  ASSUME IInv, NEW t \in Tabs, ConfirmFails(t)
  PROVE  IInv'
<1> DEFINE j == [job[t] EXCEPT !.tries = @ + 1]
<1>1. /\ job[t] \in Job /\ JobFits(job[t], "confirm_find")
      /\ job[t].tries + 1 \in 0..Confirmations
  BY JobFields, SendAssumption DEF ConfirmFails
<1>2. j \in Job /\ j.command = job[t].command /\ j.delivered = job[t].delivered
  BY <1>1 DEF Job
<1>3. TabMoves(t, j, "confirm") /\ UNCHANGED <<server, events, inbox, page, ghosts>>
  BY DEF TabMoves, ConfirmFails, Goto
<1> HIDE DEF j
<1>4. JobFits(j, "confirm")
  BY <1>1, <1>2 DEF JobFits, Commanded, Labels
<1> QED
  BY <1>2, <1>3, <1>4, ReadingStep DEF Labels, IInv, Types, SharedTypes

\* The operation throws, or its tab is closed.
LEMMA FailKeeps ==
  ASSUME IInv, NEW t \in Tabs, Fail(t)
  PROVE  IInv'
<1>1. TabMoves(t, NoJob, "idle") /\ UNCHANGED <<server, events, inbox, page>>
  BY DEF Fail, End, Goto, TabMoves
<1>2. ghosts' \subseteq [command : DeviceSets, timedOut : BOOLEAN]
  <2>1. CASE pc[t] = "wait"
    <3>1. job[t].command \in DeviceSets
      BY <2>1, JobFields DEF JobFits, Commanded, Labels
    <3> QED
      BY <2>1, <3>1, ForgetTyped DEF Fail
  <2>2. CASE pc[t] # "wait"
    BY <2>2 DEF Fail, IInv, Types, SharedTypes
  <2> QED
    BY <2>1, <2>2
<1> QED
  BY <1>1, <1>2, RestFits, ReadingStep DEF Labels

----------------------------------------------------------------------------
(* What changes the row, and the events that no operation waits for *)

\* acceptOutgoing, for a message that is stored and with a receipt that was given.
LEMMA AcceptOutgoingKeeps ==
  ASSUME IInv, stored # NoCommand, NEW d \in BOOLEAN, d => acked, AcceptOutgoing(d),
         UNCHANGED <<server, receipt, page, ghosts>>, late' \in BOOLEAN
  PROVE  SharedTypes' /\ Shared' /\ Grows
<1>1. /\ row \in OutgoingRow /\ row.delivered \in BOOLEAN /\ early \in BOOLEAN
      /\ row.command \in DeviceSets
  BY DEF IInv, Types, SharedTypes, OutgoingRow, AcceptOutgoing
<1>2. /\ row' \in OutgoingRow /\ row'.accepted = TRUE /\ row'.command = row.command
      /\ row'.delivered = (d \/ row.delivered \/ early)
      /\ early' = FALSE /\ metadata' = metadata
  BY <1>1 DEF AcceptOutgoing, OutgoingRow
<1>3. SharedTypes'
  BY <1>2 DEF IInv, Types, SharedTypes, server
<1>4. Carried' /\ Grows
  BY DEF IInv, Shared, Carried, Grows, server
<1>5. StatusIsTrue'
  BY <1>1, <1>2 DEF IInv, Shared, StatusIsTrue, server
<1>6. ReceiptKept'
  BY <1>1, <1>2 DEF IInv, Shared, ReceiptKept
<1> QED
  BY <1>1, <1>2, <1>3, <1>4, <1>5, <1>6, SendAssumption DEF Shared

\* acceptOutgoing at the end of an operation.
LEMMA AcceptKeeps ==
  ASSUME IInv, NEW t \in Tabs, Accept(t)
  PROVE  IInv'
<1>1. stored # NoCommand /\ job[t].delivered \in BOOLEAN /\ (job[t].delivered => acked)
  BY JobFields DEF Accept, JobFits
<1>2. /\ TabMoves(t, NoJob, "idle") /\ UNCHANGED <<server, late, receipt, page, ghosts>>
      /\ AcceptOutgoing(job[t].delivered) /\ late \in BOOLEAN
  BY DEF Accept, End, Goto, TabMoves, events, IInv, Types, SharedTypes
<1>3. SharedTypes' /\ Shared' /\ Grows
  BY <1>1, <1>2, AcceptOutgoingKeeps
<1>4. JobFits(NoJob, "idle")'
  BY DEF JobFits, NoJob, Commanded
<1> QED
  BY <1>2, <1>3, <1>4, RestFits, TabStep DEF Labels

\* A late message.accepted.
LEMMA AcceptedEventKeeps ==
  ASSUME IInv, AcceptedEvent
  PROVE  IInv'
<1>1. stored # NoCommand /\ acked \in BOOLEAN
  BY DEF AcceptedEvent, IInv, Types, SharedTypes, Shared, Carried
<1>2. PICK d \in {FALSE, acked} : AcceptOutgoing(d)
  BY DEF AcceptedEvent
<1>3. UNCHANGED <<server, receipt, page, ghosts, pc, job>> /\ late' = FALSE
  BY DEF AcceptedEvent
<1> QED
  BY <1>1, <1>2, <1>3, AcceptOutgoingKeeps, OutsideStep

\* A request that nobody waits for is handled.
LEMMA GhostHandledKeeps ==
  ASSUME IInv, NEW g \in ghosts, GhostHandled(g)
  PROVE  IInv'
<1>1. /\ g.command \in DeviceSets /\ g.timedOut \in BOOLEAN /\ late \in BOOLEAN
      /\ ghosts' \subseteq [command : DeviceSets, timedOut : BOOLEAN]
  BY DEF GhostHandled, IInv, Types, SharedTypes
<1>2. /\ stored' = Handled(g.command) /\ late' \in BOOLEAN
      /\ late' => late \/ Handled(g.command) # NoCommand
      /\ UNCHANGED <<devSet, acked, receipt, inbox, page, pc, job>>
  BY <1>1 DEF GhostHandled
<1> QED
  BY <1>1, <1>2, HandlingKeeps, OutsideStep

\* The recipient's receipt is applied: to the accepted row, or kept for it.
LEMMA DeliveredEventKeeps ==
  ASSUME IInv, DeliveredEvent
  PROVE  IInv'
<1>1. /\ row \in OutgoingRow /\ row.accepted \in BOOLEAN /\ early \in BOOLEAN
      /\ acked /\ stored # NoCommand
  BY DEF DeliveredEvent, IInv, Types, SharedTypes, OutgoingRow, Shared, Carried
<1>2. /\ row' \in OutgoingRow /\ row'.delivered = row.accepted
      /\ row'.accepted = row.accepted /\ row'.command = row.command
      /\ early' = (early \/ ~row.accepted) /\ receipt' = "applied"
      /\ metadata' = IF metadata = "none" THEN "none" ELSE "delivered"
      /\ UNCHANGED <<devSet, stored, acked, ghosts, late, page, pc, job>>
  BY <1>1 DEF DeliveredEvent, OutgoingRow, server
<1>3. SharedTypes'
  BY <1>1, <1>2 DEF IInv, Types, SharedTypes
<1>4. Carried' /\ StatusIsTrue' /\ Grows
  BY <1>1, <1>2 DEF IInv, Shared, Carried, StatusIsTrue, Grows
<1>5. ReceiptKept' /\ (row'.accepted => row'.command # NoCommand)
  BY <1>1, <1>2 DEF IInv, Shared, ReceiptKept
<1> QED
  BY <1>2, <1>3, <1>4, <1>5, OutsideStep DEF Shared

\* A page of sent metadata is merged: it takes no receipt back.
LEMMA MetadataMergeKeeps ==
  ASSUME IInv, MetadataMerge
  PROVE  IInv'
<1> DEFINE prior == IF metadata # "none" THEN metadata = "delivered"
                    ELSE row.accepted /\ row.delivered
           delivered == page = "delivered" \/ prior \/ early
<1>1. /\ row \in OutgoingRow /\ row.accepted \in BOOLEAN /\ row.delivered \in BOOLEAN
      /\ early \in BOOLEAN /\ stored # NoCommand
  BY DEF MetadataMerge, IInv, Types, SharedTypes, OutgoingRow, Shared, Carried
<1>2. delivered \in BOOLEAN
  BY <1>1
<1>3. delivered => acked
  BY DEF IInv, Shared, Carried, StatusIsTrue
<1>4. receipt = "applied" => delivered
  <2>1. metadata \in {"none", "accepted", "delivered"}
    BY DEF IInv, Types, SharedTypes
  <2> QED
    BY <1>1, <2>1 DEF IInv, Shared, ReceiptKept
<1>5. /\ page' = "none" /\ metadata' = IF delivered THEN "delivered" ELSE "accepted"
      /\ row' = IF row.accepted THEN [row EXCEPT !.delivered = delivered] ELSE row
      /\ UNCHANGED <<devSet, stored, acked, ghosts, late, receipt, early, pc, job>>
  BY DEF MetadataMerge, server, events
<1> HIDE DEF delivered, prior
<1>6. /\ row' \in OutgoingRow /\ row'.accepted = row.accepted /\ row'.command = row.command
      /\ row.accepted => row'.delivered = delivered
      /\ ~row.accepted => row'.delivered = row.delivered
  BY <1>1, <1>2, <1>5 DEF OutgoingRow
<1>7. SharedTypes'
  BY <1>5, <1>6 DEF IInv, Types, SharedTypes
<1>8. Carried' /\ StatusIsTrue' /\ Grows
  BY <1>1, <1>3, <1>5, <1>6 DEF IInv, Shared, Carried, StatusIsTrue, Grows
<1>9. ReceiptKept' /\ (row'.accepted => row'.command # NoCommand)
  BY <1>1, <1>4, <1>5, <1>6 DEF IInv, Shared, ReceiptKept
<1> QED
  BY <1>5, <1>7, <1>8, <1>9, OutsideStep DEF Shared

\* The devices change, the recipient acknowledges, an event is lost, a page is fetched.
LEMMA OthersKeep ==
  ASSUME IInv, ChangeDevices \/ RecipientAcks \/ EventLost \/ MetadataFetch
  PROVE  IInv'
<1>0. acked \in BOOLEAN /\ late \in BOOLEAN
  BY DEF IInv, Types, SharedTypes
<1>1. /\ devSet' \in DeviceSets /\ stored' = stored /\ UNCHANGED <<ghosts, inbox, pc, job>>
      /\ acked' \in BOOLEAN /\ (acked => acked') /\ (acked' => stored # NoCommand)
  <2>1. devSet \in DeviceSets /\ (acked => stored # NoCommand)
    BY DEF IInv, Types, SharedTypes, Shared, Carried
  <2>2. CASE ChangeDevices
    BY <1>0, <2>1, <2>2 DEF ChangeDevices
  <2>3. CASE RecipientAcks
    BY <1>0, <2>1, <2>3 DEF RecipientAcks
  <2>4. CASE EventLost \/ MetadataFetch
    BY <1>0, <2>1, <2>4 DEF EventLost, MetadataFetch, server
  <2> QED
    BY <2>2, <2>3, <2>4
<1>2. /\ receipt' \in {receipt, "sent", "lost"} /\ (receipt' # "none" => acked')
      /\ late' \in BOOLEAN /\ (late' => late)
  <2>1. receipt # "none" => acked
    BY DEF IInv, Shared, Carried
  <2>2. CASE ChangeDevices
    BY <1>0, <2>1, <2>2 DEF ChangeDevices, events
  <2>3. CASE RecipientAcks
    BY <1>0, <2>3 DEF RecipientAcks
  <2>4. CASE EventLost
    <3>1. CASE receipt = "sent" /\ receipt' = "lost" /\ late' = late
      BY <1>0, <2>1, <2>4, <3>1 DEF EventLost, server
    <3>2. CASE late' = FALSE /\ receipt' = receipt
      BY <2>1, <2>4, <3>2 DEF EventLost, server
    <3> QED
      BY <2>4, <3>1, <3>2 DEF EventLost
  <2>5. CASE MetadataFetch
    BY <1>0, <2>1, <2>5 DEF MetadataFetch, server, events
  <2> QED
    BY <2>2, <2>3, <2>4, <2>5
<1>3. /\ page' \in {"none", "accepted", "delivered"}
      /\ (page' # "none" => stored # NoCommand) /\ (page' = "delivered" => acked')
  BY <1>0 DEF ChangeDevices, RecipientAcks, EventLost, MetadataFetch, server, IInv, Types,
              SharedTypes, Shared, Carried
<1>4. SharedTypes'
  BY <1>1, <1>2, <1>3 DEF IInv, Types, SharedTypes, inbox
<1>5. Carried' /\ Grows
  BY <1>1, <1>2, <1>3 DEF IInv, Shared, Carried, Grows
<1>6. StatusIsTrue' /\ (row'.accepted => row'.command # NoCommand)
  BY <1>1 DEF IInv, Shared, StatusIsTrue, inbox
<1>7. ReceiptKept'
  BY <1>1, <1>2 DEF IInv, Shared, ReceiptKept, inbox
<1> QED
  BY <1>1, <1>4, <1>5, <1>6, <1>7, OutsideStep DEF Shared

----------------------------------------------------------------------------
(* The theorems *)

\* Every step keeps the invariant.
LEMMA NextIInv == IInv /\ [Next]_vars => IInv'
<1> SUFFICES ASSUME IInv, [Next]_vars PROVE IInv'
  OBVIOUS
<1>1. ASSUME NEW t \in Tabs, Advance(t) PROVE IInv'
  <2>1. CASE ConfirmLocal(t) \/ ConfirmLatest(t) \/ RecoverLatest(t)
    BY <2>1, CheckRowKeeps DEF ConfirmLocal, ConfirmLatest, RecoverLatest
  <2>2. CASE ConfirmFind(t)
    BY <2>2, FindSentKeeps DEF ConfirmFind
  <2>3. CASE RecoverFind(t)
    BY <2>3, FindSentKeeps DEF RecoverFind
  <2> QED
    BY <1>1, <2>1, <2>2, <2>3, TargetsKeeps, PutKeeps, SendCommandKeeps, AnswerKeeps,
       ReceiveKeeps, AcceptKeeps DEF Advance
<1>2. ASSUME NEW t \in Tabs,
             SendText(t) \/ Recover(t) \/ Unconfirmed(t) \/ ConfirmFails(t) \/ Fail(t)
      PROVE  IInv'
  BY <1>2, SendTextKeeps, RecoverKeeps, UnconfirmedKeeps, ConfirmFailsKeeps, FailKeeps
<1>3. CASE UNCHANGED vars
  <2>1. UNCHANGED <<server, ghosts, events, inbox, page, pc, job>>
    BY <1>3 DEF vars
  <2>2. SharedTypes'
    BY <2>1 DEF IInv, Types, SharedTypes, server, events, inbox
  <2>3. Shared' /\ Grows
    BY <2>1 DEF IInv, Shared, Carried, ReceiptKept, StatusIsTrue, Grows, server, events, inbox
  <2> QED
    BY <2>1, <2>2, <2>3, OutsideStep
<1> QED
  BY <1>1, <1>2, <1>3, GhostHandledKeeps, AcceptedEventKeeps, DeliveredEventKeeps,
     MetadataMergeKeeps, OthersKeep DEF Next

\* The invariant holds in every reachable state.
LEMMA Invariant == Spec => []IInv
  BY InitIInv, NextIInv, PTL DEF Spec

\* The variables keep their types; in particular an operation confirms at most
\* Confirmations times and tries at most Rounds target sets.
THEOREM TypeCorrect == Spec => []TypeOK
<1>1. IInv => TypeOK
  BY DEF IInv, Types, SharedTypes, TypeOK, Job
<1> QED
  BY <1>1, Invariant, PTL

\* OutgoingManager and DurableInbox, in any number of tabs: a message shown as accepted
\* is stored by the server, one shown as delivered was acknowledged by its recipient.
THEOREM StatusTrue == Spec => []StatusIsTrue
<1>1. IInv => StatusIsTrue
  BY DEF IInv, Shared
<1> QED
  BY <1>1, Invariant, PTL

\* applyDeliveryReceipt, acceptOutgoing and mergeSentMetadata in any order: a receipt
\* that was applied is in the row as soon as the row is accepted.
THEOREM ReceiptsKept == Spec => []ReceiptNotLost
<1>1. IInv => ReceiptNotLost
  BY DEF IInv, Shared, ReceiptKept, ReceiptNotLost
<1> QED
  BY <1>1, Invariant, PTL

\* putOutgoing and acceptOutgoing: an accepted command is neither replaced nor taken
\* back, whatever tab was about to replace it.
THEOREM AcceptanceStays == Spec => AcceptanceKept
<1> DEFINE Kept == row.accepted => row'.accepted /\ row'.command = row.command
<1>1. IInv /\ [Next]_vars => [Kept]_vars
  <2> SUFFICES ASSUME IInv, Next, row.accepted
               PROVE  row'.accepted /\ row'.command = row.command
    BY DEF vars
  <2>1. row \in OutgoingRow /\ row.command # NoCommand
    BY DEF IInv, Types, SharedTypes, Shared
  <2>2. CASE row' = row
    BY <2>2
  <2>3. ASSUME NEW d, AcceptOutgoing(d) PROVE row'.accepted /\ row'.command = row.command
    BY <2>1, <2>3 DEF AcceptOutgoing, OutgoingRow
  <2>4. ASSUME NEW t \in Tabs, Put(t) PROVE row' = row
    BY <2>1, <2>4 DEF Put, PutOutgoing
  <2>5. CASE DeliveredEvent \/ MetadataMerge
    BY <2>1, <2>5 DEF DeliveredEvent, MetadataMerge, OutgoingRow
  <2>6. ASSUME NEW t \in Tabs,
               \/ SendText(t) \/ Recover(t) \/ Unconfirmed(t) \/ ConfirmFails(t) \/ Fail(t)
               \/ Targets(t) \/ SendCommand(t) \/ Answer(t) \/ Receive(t)
        PROVE  row' = row
    BY <2>6 DEF SendText, Recover, Unconfirmed, ConfirmFails, Fail, Targets, SendCommand,
                Answer, Receive, inbox
  <2>7. ASSUME NEW t \in Tabs,
               \/ ConfirmLocal(t) \/ ConfirmFind(t) \/ ConfirmLatest(t)
               \/ RecoverFind(t) \/ RecoverLatest(t)
        PROVE  row' = row
    BY <2>7 DEF ConfirmLocal, ConfirmFind, ConfirmLatest, RecoverFind, RecoverLatest,
                CheckRow, FindSent, inbox
  <2>8. CASE \/ ChangeDevices \/ RecipientAcks \/ EventLost \/ MetadataFetch
             \/ \E g \in ghosts : GhostHandled(g)
    BY <2>2, <2>8 DEF ChangeDevices, RecipientAcks, EventLost, MetadataFetch, GhostHandled, inbox
  <2>9. CASE AcceptedEvent \/ \E t \in Tabs : Accept(t)
    BY <2>3, <2>9 DEF AcceptedEvent, Accept
  <2> QED
    BY <2>2, <2>4, <2>5, <2>6, <2>7, <2>8, <2>9 DEF Next, Advance
<1>2. Spec => [][Kept]_vars
  BY <1>1, Invariant, PTL DEF Spec
<1> QED
  BY <1>2 DEF AcceptanceKept
=============================================================================
