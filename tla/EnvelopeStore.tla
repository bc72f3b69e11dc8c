---------------------------- MODULE EnvelopeStore ----------------------------
(***************************************************************************)
(* The life of a stored payload: a row of message_envelopes is created     *)
(* with the message, its payload is removed by the recipient's ACK or once *)
(* it has expired, by whichever of four transactions comes first: the ACK, *)
(* a mailbox page, a lookup by client message id, the purge job.           *)
(*                                                                         *)
(* Every transaction reads the wall clock before its first statement and   *)
(* may be overtaken before it uses that time.  Rows that an uncommitted    *)
(* transaction has updated or selected FOR UPDATE are in rowLock; an       *)
(* UPDATE waits for them, SKIP LOCKED passes over them.  Times are         *)
(* positive; 0 stands for NULL.                                            *)
(***************************************************************************)
EXTENDS Naturals, FiniteSets

CONSTANTS
    Envelopes,      \* the rows that may be created
    Messages,       \* the messages they belong to
    Recipients,     \* the recipient devices
    MessageOf,      \* MessageOf[e]: message_id
    RecipientOf,    \* RecipientOf[e]: recipient_device_id
    Requests,       \* transactions, each run at most once
    Kind,           \* Kind[r]: "ack", "mailbox", "lookup" or "purge"
    Retention,      \* PAYLOAD_RETENTION in clock units
    BatchSize,      \* batch_size of the purge job
    MaxTime,        \* bound on the clock
    Free            \* marks a row that nobody has locked

ASSUME StoreAssumption ==
    /\ MessageOf \in [Envelopes -> Messages]
    /\ RecipientOf \in [Envelopes -> Recipients]
    /\ Kind \in [Requests -> {"ack", "mailbox", "lookup", "purge"}]
    /\ Retention \in Nat \ {0}
    /\ BatchSize \in Nat \ {0}
    /\ MaxTime \in Nat \ {0}
    /\ Free \notin Requests

VARIABLES
    clock,      \* the wall clock
    row,        \* row[e]: the committed row of e
    rowLock,    \* rowLock[e]: the transaction that has locked e's row
    pc,         \* pc[r]: the statement that transaction r executes next
    now,        \* now[r]: the time that r has read
    scope,      \* scope[r]: the rows that r is about
    held        \* held[r]: the rows as r's session sees or returns them

vars == <<clock, row, rowLock, pc, now, scope, held>>

Row == [expires : Nat, payload : BOOLEAN, delivered : Nat, purged : Nat]
NoRow == [expires |-> 0, payload |-> FALSE, delivered |-> 0, purged |-> 0]
Exists(e) == row[e].expires # 0
Due(x, t) == x.payload /\ x.expires <= t

\* coalesce(column, value) of SQL.
Coalesce(x, y) == IF x # 0 THEN x ELSE y

\* Mutant: the repeated ACK overwrites the times of the first.
AcknowledgedAgain(x, t) ==
    [x EXCEPT !.delivered = t, !.payload = FALSE, !.purged = t]

\* The columns that the UPDATE of MessageRepository.acknowledge sets.
Acknowledged(x, t) ==
    [x EXCEPT !.delivered = Coalesce(@, t), !.payload = FALSE,
              !.purged = Coalesce(@, t)]

\* Mutant: the UPDATE purges without looking at expires_at.
PurgedEarly(x, t) ==
    IF x.payload THEN [x EXCEPT !.payload = FALSE, !.purged = t] ELSE x

\* The UPDATE that purge_expired_for_device, purge_expired_for_message and
\* purge_envelopes share: its WHERE clause and the columns it sets.
Purged(x, t) ==
    IF Due(x, t) THEN [x EXCEPT !.payload = FALSE, !.purged = t] ELSE x

Unlocked(e, r) == rowLock[e] \in {Free, r}
Unlock(r) == rowLock' = [e \in Envelopes |-> IF rowLock[e] = r THEN Free ELSE rowLock[e]]
Goto(r, label) == pc' = [pc EXCEPT ![r] = label]

----------------------------------------------------------------------------
Tick == clock < MaxTime /\ clock' = clock + 1
        /\ UNCHANGED <<row, rowLock, pc, now, scope, held>>

\* send stores the envelopes of a message with their expiry (_create_envelopes).
Store(m) ==
    /\ \A e \in Envelopes : MessageOf[e] = m => ~Exists(e)
    /\ row' = [e \in Envelopes |->
                  IF MessageOf[e] = m
                  THEN [NoRow EXCEPT !.expires = clock + Retention, !.payload = TRUE]
                  ELSE row[e]]
    /\ UNCHANGED <<clock, rowLock, pc, now, scope, held>>

\* The entry of each handler: the request names its rows and the time is read.
\* purge_expired_batch takes its rows later, from the whole table.
Start(r, rows) ==
    /\ pc[r] = "start"
    /\ now' = [now EXCEPT ![r] = clock]
    /\ scope' = [scope EXCEPT ![r] = rows]
    /\ Goto(r, Kind[r])
    /\ UNCHANGED <<clock, row, rowLock, held>>

StartAck(r) ==
    Kind[r] = "ack" /\ \E e \in Envelopes, d \in Recipients :
        Exists(e) /\ Start(r, {x \in {e} : RecipientOf[x] = d})
StartMailbox(r) ==
    Kind[r] = "mailbox" /\ \E d \in Recipients :
        Start(r, {e \in Envelopes : RecipientOf[e] = d})
StartPurge(r) == Kind[r] = "purge" /\ Start(r, {})

\* MessageService.acknowledge: one UPDATE and the commit.  A device that asks for
\* the envelope of another matches no row and gets EnvelopeNotFoundError.
Acknowledge(r) ==
    /\ Kind[r] = "ack"
    /\ pc[r] = "ack"
    /\ \A e \in scope[r] : rowLock[e] = Free
    /\ row' = [e \in Envelopes |-> IF e \in scope[r] THEN Acknowledged(row[e], now[r])
                                                   ELSE row[e]]
    /\ Goto(r, "end")
    /\ UNCHANGED <<clock, rowLock, now, scope, held>>

\* MessageService.mailbox: the UPDATE locks the device's expired rows until the
\* commit, other transactions still see them unpurged.
MailboxPurge(r) ==
    /\ Kind[r] = "mailbox"
    /\ pc[r] = "mailbox"
    /\ \A e \in scope[r] : Due(row[e], now[r]) => rowLock[e] = Free
    /\ rowLock' = [e \in Envelopes |->
                      IF e \in scope[r] /\ Due(row[e], now[r]) THEN r ELSE rowLock[e]]
    /\ Goto(r, "page")
    /\ UNCHANGED <<clock, row, now, scope, held>>

\* The page is selected in the same transaction, which then commits.
MailboxPage(r) ==
    /\ Kind[r] = "mailbox"
    /\ pc[r] = "page"
    /\ row' = [e \in Envelopes |-> IF rowLock[e] = r THEN Purged(row[e], now[r])
                                                   ELSE row[e]]
    /\ held' = [held EXCEPT ![r] = [e \in {x \in scope[r] : Exists(x)} |-> row'[e]]]
    /\ Unlock(r)
    /\ Goto(r, "end")
    /\ UNCHANGED <<clock, now, scope>>

\* MessageService.lookup: the rows of the message are loaded into the session,
\* and the time is read after that.
LookupLoad(r) ==
    /\ Kind[r] = "lookup"
    /\ pc[r] = "start"
    /\ \E m \in Messages :
        LET rows == {e \in Envelopes : MessageOf[e] = m}
        IN /\ \A e \in rows : Exists(e)
           /\ scope' = [scope EXCEPT ![r] = rows]
           /\ held' = [held EXCEPT ![r] = [e \in rows |-> row[e]]]
    /\ now' = [now EXCEPT ![r] = clock]
    /\ Goto(r, "lookup")
    /\ UNCHANGED <<clock, row, rowLock>>

\* Mutant: the UPDATE passes over rows that another transaction has locked.
LookupPurgeSkipping(r) ==
    /\ Kind[r] = "lookup"
    /\ pc[r] = "lookup"
    /\ LET mine == {e \in scope[r] : rowLock[e] = Free}
       IN /\ row' = [e \in Envelopes |-> IF e \in mine THEN Purged(row[e], now[r])
                                                     ELSE row[e]]
          /\ held' = [held EXCEPT ![r] = [e \in scope[r] |->
                         IF e \in mine /\ Due(row[e], now[r])
                         THEN Purged(held[r][e], now[r])
                         ELSE held[r][e]]]
    /\ Goto(r, "end")
    /\ UNCHANGED <<clock, rowLock, now, scope>>

\* The UPDATE and the commit.  synchronize_session="fetch" updates the session's
\* objects of the rows that the UPDATE matched, and the second query finds the
\* objects of the first in the session and returns them as they are.
LookupPurge(r) ==
    /\ Kind[r] = "lookup"
    /\ pc[r] = "lookup"
    /\ \A e \in scope[r] : Due(row[e], now[r]) => rowLock[e] = Free
    /\ row' = [e \in Envelopes |-> IF e \in scope[r] THEN Purged(row[e], now[r])
                                                   ELSE row[e]]
    /\ held' = [held EXCEPT ![r] = [e \in scope[r] |->
                   IF Due(row[e], now[r]) THEN Purged(held[r][e], now[r])
                                          ELSE held[r][e]]]
    /\ Goto(r, "end")
    /\ UNCHANGED <<clock, rowLock, now, scope>>

\* purge_expired_batch: lock_expired_batch takes up to batch_size expired rows
\* that nobody has locked, the oldest expiry first.
PurgeLock(r) ==
    /\ Kind[r] = "purge"
    /\ pc[r] = "purge"
    /\ LET due == {e \in Envelopes : Due(row[e], now[r]) /\ rowLock[e] = Free}
       IN \E batch \in SUBSET due :
            /\ Cardinality(batch) =
                 IF Cardinality(due) < BatchSize THEN Cardinality(due) ELSE BatchSize
            /\ \A e \in batch, f \in due \ batch : row[e].expires <= row[f].expires
            /\ scope' = [scope EXCEPT ![r] = batch]
            /\ rowLock' = [e \in Envelopes |-> IF e \in batch THEN r ELSE rowLock[e]]
    /\ Goto(r, "purge_commit")
    /\ UNCHANGED <<clock, row, now, held>>

\* purge_envelopes and the commit.
PurgeCommit(r) ==
    /\ Kind[r] = "purge"
    /\ pc[r] = "purge_commit"
    /\ row' = [e \in Envelopes |-> IF e \in scope[r] THEN Purged(row[e], now[r])
                                                   ELSE row[e]]
    /\ Unlock(r)
    /\ Goto(r, "end")
    /\ UNCHANGED <<clock, now, scope, held>>

\* A transaction that loses its connection is rolled back.
Rollback(r) ==
    /\ pc[r] \notin {"start", "end"}
    /\ Unlock(r)
    /\ held' = [held EXCEPT ![r] = <<>>]
    /\ Goto(r, "end")
    /\ UNCHANGED <<clock, row, now, scope>>

AllEnded == (\A r \in Requests : pc[r] = "end") /\ UNCHANGED vars

Init ==
    /\ clock = 1
    /\ row = [e \in Envelopes |-> NoRow]
    /\ rowLock = [e \in Envelopes |-> Free]
    /\ pc = [r \in Requests |-> "start"]
    /\ now = [r \in Requests |-> 0]
    /\ scope = [r \in Requests |-> {}]
    /\ held = [r \in Requests |-> <<>>]

Next ==
    \/ Tick
    \/ \E m \in Messages : Store(m)
    \/ \E r \in Requests :
        \/ StartAck(r) \/ StartMailbox(r) \/ StartPurge(r)
        \/ Acknowledge(r) \/ MailboxPurge(r) \/ MailboxPage(r)
        \/ LookupLoad(r) \/ LookupPurge(r) \/ PurgeLock(r) \/ PurgeCommit(r)
        \/ Rollback(r)
    \/ AllEnded

Spec == Init /\ [][Next]_vars

----------------------------------------------------------------------------
(* Properties *)

TypeOK ==
    /\ clock \in 1..MaxTime
    /\ row \in [Envelopes -> Row]
    /\ rowLock \in [Envelopes -> Requests \cup {Free}]
    /\ pc \in [Requests -> {"start", "ack", "mailbox", "page", "lookup", "purge",
                            "purge_commit", "end"}]
    /\ now \in [Requests -> Nat]
    /\ scope \in [Requests -> SUBSET Envelopes]

\* "Other devices retain their payload until their own ACK or the existing
\* 45-day expiry": a payload is gone only if its own device has acknowledged it
\* or it was purged at a time when it had expired; and the constraint
\* ck_message_envelopes_payload_purge_state holds of every committed row.
PayloadKeptUntilDue ==
    \A e \in Envelopes : Exists(e) =>
        /\ row[e].payload = (row[e].purged = 0)
        /\ row[e].delivered # 0 => ~row[e].payload
        /\ ~row[e].payload => row[e].delivered # 0 \/ row[e].purged >= row[e].expires

\* Concurrent and repeated ACKs, and an ACK after an expiry, preserve the first
\* receipt and purge times, and a removed payload never comes back.
FirstTimesKept ==
    [][\A e \in Envelopes : Exists(e) =>
          /\ row[e].delivered # 0 => row'[e].delivered = row[e].delivered
          /\ row[e].purged # 0 => row'[e].purged = row[e].purged
          /\ row'[e].payload => row[e].payload]_vars

\* A mailbox page carries no payload that had expired when it was asked for.
PageHidesExpired ==
    \A r \in Requests : Kind[r] = "mailbox" /\ pc[r] = "end" =>
        \A e \in DOMAIN held[r] : ~Due(held[r][e], now[r])

\* A lookup purges and commits before it answers: an expired payload is in its
\* answer only if some other transaction has removed it from the store between
\* the lookup's two reads (the session still has the object of the first), so a
\* payload that the answer calls available and expired is never one still stored.
LookupPurgesFirst ==
    \A r \in Requests : Kind[r] = "lookup" /\ pc[r] = "end" =>
        \A e \in DOMAIN held[r] : Due(held[r][e], now[r]) => ~row[e].payload

\* Neither kind of answer offers an expired payload that is still stored: a
\* mailbox page because it is read after its own UPDATE, a lookup because it
\* purges between its two reads.
AnswersCurrent == PageHidesExpired /\ LookupPurgesFirst
=============================================================================
