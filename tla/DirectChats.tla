----------------------------- MODULE DirectChats -----------------------------
(***************************************************************************)
(* DirectChatService.open_direct_chat: several requests open a chat        *)
(* between the same two users at once.  Each request inserts the chat, its *)
(* two members and the pair in one transaction; the unique constraint on   *)
(* the pair decides who wins, and the others answer with the winner's chat.*)
(*                                                                         *)
(* A step is one statement, at READ COMMITTED.  The rows that a running    *)
(* transaction has inserted follow from its pc; nobody else sees them, but *)
(* an INSERT of the same pair waits for that transaction to end.  The chat *)
(* that request r creates has the id r (a fresh UUID in the code).         *)
(***************************************************************************)
EXTENDS Naturals, FiniteSets

CONSTANTS
    Users,      \* ids of the active users
    Strangers,  \* ids that no active user has
    Requests,   \* concurrent requests
    None        \* marks the absence of a chat

ASSUME ChatsAssumption ==
    /\ Users \subseteq Nat /\ Strangers \subseteq Nat
    /\ Users \cap Strangers = {}
    /\ None \notin Requests

VARIABLES
    chats,      \* the committed rows of chats
    members,    \* the committed rows of chat_members: <<chat, user>>
    pairs,      \* the committed rows of direct_chat_pairs
    pc,         \* pc[r]: the statement that request r executes next
    asked,      \* asked[r]: the requester and the target of request r
    found,      \* found[r]: the chat id that r goes on with
    answer      \* answer[r]: how request r was answered

rows == <<chats, members, pairs>>
chatsVars == <<rows, pc, asked, found, answer>>

Pair == [chat : Requests, low : Nat, high : Nat]
Goto(r, label) == pc' = [pc EXCEPT ![r] = label]
End(r, status) == Goto(r, "end") /\ answer' = [answer EXCEPT ![r] = status]

\* canonical_user_pair, for two different users.
CanonicalPair(r) ==
    IF asked[r].user < asked[r].target THEN <<asked[r].user, asked[r].target>>
    ELSE <<asked[r].target, asked[r].user>>

\* _pair_chat_id.
PairChatId(r) ==
    {p.chat : p \in {q \in pairs : <<q.low, q.high>> = CanonicalPair(r)}}

\* The transactions whose INSERT of r's pair is not committed yet.
Inserting(r) ==
    {q \in Requests \ {r} : pc[q] = "commit" /\ CanonicalPair(q) = CanonicalPair(r)}

\* The checks before the first use of the pair.
Open(r) ==
    /\ pc[r] = "start"
    /\ \E user \in Users, target \in Users \cup Strangers :
        /\ asked' = [asked EXCEPT ![r] = [user |-> user, target |-> target]]
        /\ \/ user = target /\ End(r, "self_chat")
           \/ target \in Strangers /\ End(r, "target_not_found")
           \/ /\ user # target /\ target \in Users
              /\ Goto(r, "find")
              /\ UNCHANGED answer
    /\ UNCHANGED <<rows, found>>

FindPair(r) ==
    /\ pc[r] = "find"
    /\ \/ /\ PairChatId(r) = {}
          /\ Goto(r, "chat")
          /\ UNCHANGED found
       \/ /\ \E c \in PairChatId(r) : found' = [found EXCEPT ![r] = c]
          /\ Goto(r, "get")
    /\ UNCHANGED <<rows, asked, answer>>

\* The two flushes: the chat, then its members.
InsertChat(r) == pc[r] = "chat" /\ Goto(r, "members") /\ UNCHANGED <<rows, asked, found, answer>>
InsertMembers(r) == pc[r] = "members" /\ Goto(r, "pair") /\ UNCHANGED <<rows, asked, found, answer>>

\* The flush of the commit inserts the pair.  After a violation of the unique
\* constraint the transaction is rolled back.
InsertPair(r) ==
    /\ pc[r] = "pair"
    /\ Inserting(r) = {}
    /\ Goto(r, IF PairChatId(r) = {} THEN "commit" ELSE "winner")
    /\ UNCHANGED <<rows, asked, found, answer>>

Commit(r) ==
    /\ pc[r] = "commit"
    /\ chats' = chats \cup {r}
    /\ members' = members \cup {<<r, u>> : u \in {asked[r].user, asked[r].target}}
    /\ pairs' = pairs \cup {[chat |-> r, low |-> CanonicalPair(r)[1],
                             high |-> CanonicalPair(r)[2]]}
    /\ found' = [found EXCEPT ![r] = r]
    /\ Goto(r, "get")
    /\ UNCHANGED <<asked, answer>>

\* Mutant: the loser answers with the chat that it wanted to create.
WinnerOwnChat(r) ==
    /\ pc[r] = "winner"
    /\ found' = [found EXCEPT ![r] = r]
    /\ Goto(r, "get")
    /\ UNCHANGED <<rows, asked, answer>>

\* The loser looks for the winner's chat.
FindWinner(r) ==
    /\ pc[r] = "winner"
    /\ \/ /\ PairChatId(r) = {}
          /\ End(r, "integrity_error")
          /\ UNCHANGED found
       \/ /\ \E c \in PairChatId(r) : found' = [found EXCEPT ![r] = c]
          /\ Goto(r, "get")
          /\ UNCHANGED answer
    /\ UNCHANGED <<rows, asked>>

\* get_direct_chat: the chat with its pair, if the requester is one of the two.
GetChat(r) ==
    LET authorized == {p \in pairs : p.chat = found[r] /\ asked[r].user \in {p.low, p.high}}
    IN /\ pc[r] = "get"
       /\ End(r, IF authorized = {} THEN "chat_not_found" ELSE "chat")
       /\ UNCHANGED <<rows, asked, found>>

\* A lost connection or a stopped process; an open transaction is rolled back.
Fail(r) ==
    /\ pc[r] \notin {"start", "end"}
    /\ End(r, "failed")
    /\ UNCHANGED <<rows, asked, found>>

AllEnded == (\A r \in Requests : pc[r] = "end") /\ UNCHANGED chatsVars

ChatsInit ==
    /\ chats = {} /\ members = {} /\ pairs = {}
    /\ pc = [r \in Requests |-> "start"]
    /\ asked = [r \in Requests |-> [user |-> 0, target |-> 0]]
    /\ found = [r \in Requests |-> None]
    /\ answer = [r \in Requests |-> "none"]

Step(r) ==
    \/ FindPair(r) \/ InsertChat(r) \/ InsertMembers(r) \/ InsertPair(r) \/ Commit(r)
    \/ FindWinner(r) \/ GetChat(r)

ChatsNext == (\E r \in Requests : Open(r) \/ Step(r) \/ Fail(r)) \/ AllEnded

ChatsSpec == ChatsInit /\ [][ChatsNext]_chatsVars

----------------------------------------------------------------------------
(* Properties *)

\* The requests about the same two users, whoever of them asks, are answered
\* with the same chat, and no request of a user is refused because another was
\* faster.  Losing the race leaves nothing behind: a chat that exists has exactly
\* the two members of its pair, and no two chats have the same members.
SameChat ==
    /\ \A c \in chats : \E p \in pairs :
        p.chat = c /\ p.low < p.high /\ {m[2] : m \in {x \in members : x[1] = c}} = {p.low, p.high}
    /\ \A p, q \in pairs : {p.low, p.high} = {q.low, q.high} => p = q
    /\ \A r \in Requests :
        /\ answer[r] \notin {"integrity_error", "chat_not_found"}
        /\ \A q \in Requests :
            answer[r] = "chat" /\ answer[q] = "chat"
            /\ {asked[r].user, asked[r].target} = {asked[q].user, asked[q].target}
                => found[r] = found[q]
=============================================================================
