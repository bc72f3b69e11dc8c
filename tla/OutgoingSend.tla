---------------------------- MODULE OutgoingSend ----------------------------
(***************************************************************************)
(* One outgoing message of a device, from the user's send to its receipt:  *)
(* OutgoingManager over IndexedDBDurableInbox, in several browser tabs,    *)
(* with requests and answers that are lost or late.                        *)
(*                                                                         *)
(* Every request carries the one client message id; a command is named by  *)
(* the set of devices that its envelopes are built for.  The server stores *)
(* the first command whose targets are the current devices and answers     *)
(* every later one with that message (AcceptedOnce of MessageDelivery).    *)
(* A step is one IndexedDB transaction, one call or one answer.  A check   *)
(* that throws is a guard, and the operation that throws ends by Fail.     *)
(***************************************************************************)
EXTENDS Naturals, FiniteSets

CONSTANTS
    Tabs,           \* browser tabs of the sending device
    DeviceSets,     \* destination device sets, and so commands
    NoCommand,      \* marks the absence of a command
    Confirmations,  \* rounds of sendAndConfirm, 3 in the code
    Rounds,         \* target sets that sendNewText tries, 2 in the code
    MaxGhosts,      \* bound on the requests under way that nobody waits for
    Receipts        \* whether the recipient acknowledges within the instance

ASSUME SendAssumption ==
    /\ NoCommand \notin DeviceSets
    /\ Confirmations \in Nat
    /\ Rounds \in Nat \ {0}
    /\ MaxGhosts \in Nat
    /\ Receipts \in BOOLEAN

VARIABLES
    devSet,     \* the destination devices of the chat
    stored,     \* the command that the server has stored, or NoCommand
    acked,      \* the server has the recipient's receipt
    ghosts,     \* requests under way that no operation waits for
    late,       \* a message.accepted event for a request that timed out
    receipt,    \* the message.delivered event: "none", "sent", "lost", "applied"
    row,        \* the row of the store outgoing
    early,      \* the store receipts has a receipt for this message
    metadata,   \* the row of sentMetadata: "none", "accepted" or "delivered"
    page,       \* a page of sent metadata that is being applied
    begun,      \* the user has sent the message
    pc,         \* pc[t]: the next step of tab t's operation, or "idle"
    job         \* job[t]: the local variables of tab t's operation

server == <<devSet, stored, acked>>
events == <<late, receipt>>
inbox == <<row, early, metadata>>
vars == <<server, ghosts, events, inbox, page, begun, pc, job>>

OutgoingRow == [command : DeviceSets \cup {NoCommand}, accepted : BOOLEAN,
                delivered : BOOLEAN]
NoRow == [command |-> NoCommand, accepted |-> FALSE, delivered |-> FALSE]
NoJob == [command |-> NoCommand, recovers |-> FALSE, replace |-> FALSE, round |-> 0,
          tries |-> 0, http |-> FALSE, rejected |-> FALSE, was |-> FALSE,
          delivered |-> FALSE]

Goto(t, label) == pc' = [pc EXCEPT ![t] = label]
\* An operation ends with acceptOutgoing of the message it got.
GotoAccept(t, delivered) ==
    Goto(t, "accept") /\ job' = [job EXCEPT ![t] = [NoJob EXCEPT !.delivered = delivered]]
End(t) == Goto(t, "idle") /\ job' = [job EXCEPT ![t] = NoJob]

----------------------------------------------------------------------------
(* The server *)

ChangeDevices ==
    /\ devSet' \in DeviceSets \ {devSet}
    /\ UNCHANGED <<stored, acked, ghosts, events, inbox, page, begun, pc, job>>

\* The recipient acknowledges its envelope and the sender's devices are told.
RecipientAcks ==
    /\ Receipts /\ stored # NoCommand /\ ~acked
    /\ acked' = TRUE
    /\ receipt' = "sent"
    /\ UNCHANGED <<devSet, stored, ghosts, late, inbox, page, begun, pc, job>>

\* MessageService.send for a command: the message that is stored afterwards.
Handled(c) == IF stored = NoCommand /\ c = devSet THEN c ELSE stored

\* A request that its sender gives up is lost, or is still under way.
Forget(g) ==
    \/ UNCHANGED ghosts
    \/ Cardinality(ghosts \cup {g}) <= MaxGhosts /\ ghosts' = ghosts \cup {g}

----------------------------------------------------------------------------
(* IndexedDBDurableInbox *)

\* Mutant: a rejected command is replaced even when it was accepted meanwhile.
PutReplacing(c, replace) == row' = [NoRow EXCEPT !.command = c]

\* putOutgoing.
PutOutgoing(c, replace) ==
    \/ /\ row.command = NoCommand \/ (replace /\ ~row.accepted)
       /\ row' = [NoRow EXCEPT !.command = c]
    \/ /\ ~replace
       /\ row.command = c
       /\ UNCHANGED row

\* acceptOutgoing: the receipts known to the message, to the row and to the
\* store of early receipts are merged, and the early one is deleted.
AcceptOutgoing(delivered) ==
    /\ row.command # NoCommand
    /\ row' = [row EXCEPT !.accepted = TRUE, !.delivered = delivered \/ @ \/ early]
    /\ early' = FALSE
    /\ UNCHANGED metadata

----------------------------------------------------------------------------
(* OutgoingManager: the operations of one tab *)

\* sendText without a client message id.
SendText(t) ==
    /\ ~begun
    /\ pc[t] = "idle"
    /\ begun' = TRUE
    /\ Goto(t, "targets")
    /\ UNCHANGED <<server, ghosts, events, inbox, page, job>>

\* retryOutgoing, sendText for a known id and recoverOutgoing: the row is read
\* and recoverCommand starts.
Recover(t) ==
    /\ pc[t] = "idle"
    /\ row.command # NoCommand
    /\ job' = [job EXCEPT ![t] = [NoJob EXCEPT !.command = row.command, !.recovers = TRUE,
                                     !.was = row.accepted, !.delivered = row.delivered]]
    /\ Goto(t, "find")
    /\ UNCHANGED <<server, ghosts, events, inbox, page, begun>>

\* sendNewText: the destination devices are fetched and the envelopes built.
Targets(t) ==
    /\ pc[t] = "targets"
    /\ job' = [job EXCEPT ![t].command = devSet]
    /\ Goto(t, "put")
    /\ UNCHANGED <<server, ghosts, events, inbox, page, begun>>

Put(t) ==
    /\ pc[t] = "put"
    /\ PutOutgoing(job[t].command, job[t].replace)
    /\ Goto(t, "send")
    /\ UNCHANGED <<server, ghosts, events, early, metadata, page, begun, job>>

\* sendCommand: over the WebSocket when it is ready, else over HTTP.
SendCommand(t) ==
    /\ pc[t] = "send"
    /\ \E http \in BOOLEAN : job' = [job EXCEPT ![t].http = http]
    /\ Goto(t, "wait")
    /\ UNCHANGED <<server, ghosts, events, inbox, page, begun>>

\* The server handles the request that an operation waits for.
Answer(t) ==
    LET result == Handled(job[t].command)
    IN /\ pc[t] = "wait"
       /\ stored' = result
       /\ job' = [job EXCEPT ![t].rejected = (result = NoCommand), ![t].delivered = acked]
       /\ Goto(t, "answer")
       /\ UNCHANGED <<devSet, acked, ghosts, events, inbox, page, begun>>

\* Mutant: the row is not marked for replacement after a rejection.
ReceiveWithoutReplacing(t) ==
    /\ pc[t] = "answer"
    /\ \/ ~job[t].rejected /\ GotoAccept(t, job[t].delivered)
       \/ job[t].rejected /\ Goto(t, "targets") /\ job' = [job EXCEPT ![t] = NoJob]
    /\ UNCHANGED <<server, ghosts, events, inbox, page, begun>>

\* The answer arrives.  After delivery_targets_changed sendNewText starts once
\* more with fresh envelopes, and recoverCommand goes over to sendNewText.
Receive(t) ==
    LET j == job[t]
    IN /\ pc[t] = "answer"
       /\ \/ /\ ~j.rejected
             /\ GotoAccept(t, j.delivered)
          \/ /\ j.rejected
             /\ j.recovers \/ j.round + 1 < Rounds
             /\ Goto(t, "targets")
             /\ job' = [job EXCEPT ![t] = [NoJob EXCEPT !.replace = TRUE,
                            !.round = IF j.recovers THEN 0 ELSE j.round + 1]]
       /\ UNCHANGED <<server, ghosts, events, inbox, page, begun>>

\* Mutant: an answer that does not come is taken for an acceptance.
AssumeAccepted(t) ==
    /\ pc[t] \in {"wait", "answer"}
    /\ GotoAccept(t, FALSE)
    /\ UNCHANGED <<server, ghosts, events, inbox, page, begun>>

\* The answer does not come: a timeout, a lost connection, a network or server
\* error.  The request may still be handled.  After a timeout the WebSocket
\* manager keeps its id, and a late message.accepted is passed on.  The command
\* is then confirmed, up to three times.
Unconfirmed(t) ==
    LET j == job[t]
        mayBeLate == IF j.http THEN {FALSE} ELSE BOOLEAN
    IN /\ pc[t] \in {"wait", "answer"}
       /\ \E timedOut \in mayBeLate :
            IF pc[t] = "wait"
            THEN /\ Forget([command |-> j.command, timedOut |-> timedOut])
                 /\ UNCHANGED late
            ELSE /\ late' = (late \/ (timedOut /\ ~j.rejected))
                 /\ UNCHANGED ghosts
       /\ j.tries < Confirmations
       /\ Goto(t, "confirm")
       /\ job' = [job EXCEPT ![t].tries = @ + 1,
                             ![t].rejected = FALSE, ![t].delivered = FALSE]
       /\ UNCHANGED <<server, receipt, inbox, page, begun>>

\* The row says whether the command was accepted meanwhile.
CheckRow(t, at, otherwise) ==
    /\ pc[t] = at
    /\ \/ /\ row.accepted
          /\ GotoAccept(t, row.delivered)
       \/ /\ ~row.accepted
          /\ Goto(t, otherwise)
          /\ UNCHANGED job
    /\ UNCHANGED <<server, ghosts, events, inbox, page, begun>>

\* findSentMessage, answered by MessageService.lookup.
FindSent(t, at, missing) ==
    /\ pc[t] = at
    /\ \/ /\ stored # NoCommand
          /\ GotoAccept(t, acked)
       \/ /\ stored = NoCommand
          /\ Goto(t, missing)
          /\ UNCHANGED job
    /\ UNCHANGED <<server, ghosts, events, inbox, page, begun>>

\* sendAndConfirm after an unconfirmed send: the row, the server, the row again,
\* and the same command once more.
ConfirmLocal(t) == CheckRow(t, "confirm", "confirm_find")
ConfirmFind(t) == FindSent(t, "confirm_find", "confirm_latest")
ConfirmLatest(t) == CheckRow(t, "confirm_latest", "send")

\* A lookup that fails is an unconfirmed attempt.
ConfirmFails(t) ==
    /\ pc[t] = "confirm_find"
    /\ job[t].tries < Confirmations
    /\ job' = [job EXCEPT ![t].tries = @ + 1]
    /\ Goto(t, "confirm")
    /\ UNCHANGED <<server, ghosts, events, inbox, page, begun>>

\* recoverCommand: "A formerly accepted message must never become a new send."
RecoverFind(t) == FindSent(t, "find", IF job[t].was THEN "accept" ELSE "latest")
RecoverLatest(t) == CheckRow(t, "latest", "send")

Accept(t) ==
    /\ pc[t] = "accept"
    /\ AcceptOutgoing(job[t].delivered)
    /\ End(t)
    /\ UNCHANGED <<server, ghosts, events, page, begun>>

\* The operation throws, or the tab is closed or reloaded.
Fail(t) ==
    /\ pc[t] # "idle"
    /\ End(t)
    /\ IF pc[t] = "wait"
       THEN Forget([command |-> job[t].command, timedOut |-> FALSE])
       ELSE UNCHANGED ghosts
    /\ UNCHANGED <<server, events, inbox, page, begun>>

----------------------------------------------------------------------------
(* Events and requests that no operation waits for *)

GhostHandled(g) ==
    /\ g \in ghosts
    /\ ghosts' = ghosts \ {g}
    /\ stored' = Handled(g.command)
    /\ late' = (late \/ (g.timedOut /\ Handled(g.command) # NoCommand))
    /\ UNCHANGED <<devSet, acked, receipt, inbox, page, begun, pc, job>>

\* handleAccepted; the event was written when the request was handled.
AcceptedEvent ==
    /\ late
    /\ late' = FALSE
    /\ \E delivered \in {FALSE, acked} : AcceptOutgoing(delivered)
    /\ UNCHANGED <<server, ghosts, receipt, page, begun, pc, job>>

\* Mutant: a receipt for a message that is not accepted yet is dropped.
DeliveredEventDropped ==
    /\ receipt = "sent"
    /\ receipt' = "applied"
    /\ row' = [row EXCEPT !.delivered = row.accepted]
    /\ metadata' = IF metadata = "none" THEN "none" ELSE "delivered"
    /\ UNCHANGED <<server, ghosts, late, early, page, begun, pc, job>>

\* handleDeliveryReceipt, applyDeliveryReceipt.
DeliveredEvent ==
    /\ receipt = "sent"
    /\ receipt' = "applied"
    /\ metadata' = IF metadata = "none" THEN "none" ELSE "delivered"
    /\ row' = [row EXCEPT !.delivered = row.accepted]
    /\ early' = (early \/ ~row.accepted)
    /\ UNCHANGED <<server, ghosts, late, page, begun, pc, job>>

EventLost ==
    /\ \/ receipt = "sent" /\ receipt' = "lost" /\ UNCHANGED late
       \/ late /\ late' = FALSE /\ UNCHANGED receipt
    /\ UNCHANGED <<server, ghosts, inbox, page, begun, pc, job>>

\* recoverSentMetadata: the page is fetched, then its messages are merged.
MetadataFetch ==
    /\ page = "none"
    /\ stored # NoCommand
    /\ page' = IF acked THEN "delivered" ELSE "accepted"
    /\ UNCHANGED <<server, ghosts, events, inbox, begun, pc, job>>

\* mergeSentMetadata: what the page lacks is taken from the metadata stored
\* before, or from the outgoing row if there is none; the row gets the result.
MetadataMerge ==
    LET prior == IF metadata # "none" THEN metadata = "delivered"
                 ELSE row.accepted /\ row.delivered
        delivered == page = "delivered" \/ prior \/ early
    IN /\ page # "none"
       /\ page' = "none"
       /\ metadata' = IF delivered THEN "delivered" ELSE "accepted"
       /\ row' = IF row.accepted THEN [row EXCEPT !.delivered = delivered] ELSE row
       /\ UNCHANGED <<server, ghosts, events, early, begun, pc, job>>

----------------------------------------------------------------------------
Init ==
    /\ devSet \in DeviceSets
    /\ stored = NoCommand
    /\ acked = FALSE
    /\ ghosts = {}
    /\ late = FALSE
    /\ receipt = "none"
    /\ row = NoRow
    /\ early = FALSE
    /\ metadata = "none"
    /\ page = "none"
    /\ begun = FALSE
    /\ pc = [t \in Tabs |-> "idle"]
    /\ job = [t \in Tabs |-> NoJob]

Advance(t) ==
    \/ Targets(t) \/ Put(t) \/ SendCommand(t) \/ Answer(t) \/ Receive(t)
    \/ ConfirmLocal(t) \/ ConfirmFind(t) \/ ConfirmLatest(t)
    \/ RecoverFind(t) \/ RecoverLatest(t) \/ Accept(t)

Next ==
    \/ ChangeDevices \/ RecipientAcks
    \/ \E t \in Tabs :
        \/ SendText(t) \/ Recover(t) \/ Advance(t)
        \/ Unconfirmed(t) \/ ConfirmFails(t) \/ Fail(t)
    \/ \E g \in ghosts : GhostHandled(g)
    \/ AcceptedEvent \/ DeliveredEvent \/ EventLost
    \/ MetadataFetch \/ MetadataMerge

Spec == Init /\ [][Next]_vars

\* An operation that runs goes on or throws; loadMailbox recovers the pending
\* commands whenever the connection is ready, and no connection lasts for ever.
FairSpec ==
    /\ Spec
    /\ \A t \in Tabs : WF_vars(Recover(t)) /\ WF_vars(Advance(t) \/ Fail(t))

----------------------------------------------------------------------------
(* Properties *)

TypeOK ==
    /\ devSet \in DeviceSets
    /\ stored \in DeviceSets \cup {NoCommand}
    /\ ghosts \subseteq [command : DeviceSets, timedOut : BOOLEAN]
    /\ receipt \in {"none", "sent", "lost", "applied"}
    /\ row \in OutgoingRow
    /\ metadata \in {"none", "accepted", "delivered"}
    /\ page \in {"none", "accepted", "delivered"}
    /\ \A t \in Tabs : /\ job[t].tries \in 0..Confirmations
                       /\ job[t].round \in 0..(Rounds - 1)
                       /\ job[t].command \in DeviceSets \cup {NoCommand}

\* What the user sees is true of the server: a message shown as accepted is
\* stored, one shown as delivered was acknowledged by its recipient.  No lost
\* answer, no lookup and no late event is taken for either.
StatusIsTrue ==
    /\ row.accepted \/ metadata # "none" => stored # NoCommand
    /\ row.delivered \/ early \/ metadata = "delivered" => acked

\* A receipt that was applied before the acceptance, by whichever tab, is in the
\* accepted row: "Retain early receipts and merge them atomically".
ReceiptNotLost == receipt = "applied" /\ row.accepted => row.delivered

\* An accepted command is never replaced or taken back, although a send may be
\* replacing what a late answer or event has just accepted.
AcceptanceKept ==
    [][row.accepted => row'.accepted /\ row'.command = row.command]_vars

\* What makes an attempt fail from outside, not by one of its own checks.
Fault(t) ==
    \/ Unconfirmed(t) \/ ConfirmFails(t)
    \/ Fail(t) /\ ~Advance(t) /\ ENABLED Advance(t)

\* Once failures and changes of the devices have ceased, a stored command is
\* accepted, wherever the operation that stored it was interrupted.
EventuallyAccepted ==
    <>[][~ChangeDevices /\ \A t \in Tabs : ~Fault(t)]_vars =>
        (row.command # NoCommand ~> row.accepted)
=============================================================================
