-------------------------- MODULE MCMessageDelivery --------------------------
(***************************************************************************)
(* The instance of MessageDelivery for TLC.                                *)
(***************************************************************************)
EXTENDS MessageDelivery, TLC

CONSTANTS
    r1, r2, r3, r4, r5, r6, r7, \* requests
    a, b,                       \* chats
    none

\* Two chats of user 1, who has the devices 1 and 2: deliveries from devices 3
\* and 4, in different chats, meet on both mailboxes of user 1, and a device of
\* user 1 may use one client message id in both chats.  A login may register
\* device 5.
TwoChats == (a :> {1, 2}) @@ (b :> {1, 3})
FiveDevices == (1 :> 1) @@ (2 :> 1) @@ (3 :> 2) @@ (4 :> 3) @@ (5 :> none)

Sends == {r1, r2, r3}
Reads == {r4, r5}
Mix == [r \in Sends |-> "send"] @@ [r \in Reads |-> "read"]
           @@ (r6 :> "login") @@ (r7 :> "revoke")
MixSymmetry == {p @@ q : p \in Permutations(Sends), q \in Permutations(Reads)}

\* TLC explores three sends over both chats, and in chat a, by the devices 1 and
\* 3, any three of the requests and two sends with two reads: further requests
\* do not start.
Begun == {r \in Requests : pc[r] # "start"}
InChatA(r) ==
    IF Kind[r] \in {"send", "read"} THEN req[r].chat = a /\ req[r].dev \in {1, 3}
    ELSE req[r].user \in TwoChats[a]
MayStart(r) ==
    \/ Begun \cup {r} \subseteq Sends
    \/ /\ Cardinality(Begun) < 3 \/ Begun \cup {r} \subseteq {r1, r2} \cup Reads
       /\ \A q \in Begun : InChatA(q)
FewRequests == Begun \subseteq Sends \/ \A r \in Begun : InChatA(r)

BoundedNext ==
    \/ \E r \in Requests :
        \/ MayStart(r) /\ (SendStart(r) \/ ReadStart(r) \/ DeviceStart(r))
        \/ Step(r) \/ Rollback(r)
    \/ (\A r \in Begun : pc[r] = "end") /\ UNCHANGED vars
BoundedSpec == Init /\ [][BoundedNext]_vars
=============================================================================
