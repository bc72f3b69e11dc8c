---------------------------- MODULE MessageState ----------------------------
(***************************************************************************)
(* The display rows of a chat and how new rows are merged into them        *)
(* (messageState.ts).  The array of the code is sorted by createdAt and    *)
(* history id after every merge, so that a set of rows stands for it.      *)
(*                                                                         *)
(* A row has its chat, the id of its message (a pending row has an id of   *)
(* its own), the key of the command that created it or NoKey, a status, or *)
(* "none" for what others have sent, and the time it is sorted by.         *)
(***************************************************************************)
EXTENDS Naturals, FiniteSetsExt

NoKey == "none"
Statuses == {"none", "pending", "accepted", "delivered", "read"}

rank == [s \in Statuses |-> CASE s \in {"none", "pending"} -> 0 [] s = "accepted" -> 1
                              [] s = "delivered" -> 2 [] s = "read" -> 3]

\* Mutant: the newest status wins.
LatestStatus(previous, incoming) == IF incoming = "none" THEN previous ELSE incoming

selectStatus(previous, incoming) ==
    IF incoming = "none" \/ (previous # "none" /\ rank[previous] > rank[incoming])
    THEN previous
    ELSE incoming

\* The row that message m replaces, as a set: the one with its id, or else, as
\* long as one of the two is pending, the one of the same command.
Prior(rows, m) ==
    LET same == {r \in rows : r.id = m.id}
        command == {r \in rows : m.command # NoKey /\ r.command = m.command}
    IN IF same # {} THEN same
       ELSE {r \in command : r.status = "pending" \/ m.status = "pending"}

\* A pending row that comes after the accepted one is dropped.
Overtaken(prior, m) ==
    m.status = "pending" /\ \E p \in prior : p.status \notin {"none", "pending"}

\* { ...prior, ...message } with the better status and the first createdAt.
Combined(p, m) == [m EXCEPT !.command = IF @ = NoKey THEN p.command ELSE @,
                            !.status = selectStatus(p.status, m.status), !.at = p.at]

mergeMessage(rows, m) ==
    LET prior == Prior(rows, m)
    IN IF Overtaken(prior, m) THEN rows
       ELSE IF prior = {} THEN rows \cup {m}
       ELSE (rows \ prior) \cup {Combined(p, m) : p \in prior}

\* The rows of one batch are of different messages, so that their order is free.
mergeMessages(rows, batch) == FoldSet(LAMBDA m, r : mergeMessage(r, m), rows, batch)

mergeMessagesByChat(shown, batch) ==
    [c \in DOMAIN shown |-> mergeMessages(shown[c], {m \in batch : m.chat = c})]
=============================================================================
