--------------------------- MODULE MailboxCustody ---------------------------
(***************************************************************************)
(* What the mailbox promises about one envelope's payload: it is kept by   *)
(* the server, then by the server and the device, then by the device       *)
(* alone.  It is nowhere only if it expired before the device had it, or   *)
(* if the device's local store was given up for a new identity.            *)
(***************************************************************************)
EXTENDS Naturals

CONSTANTS
    Generations,    \* local-store generations, one server mailbox for each
    Seqs            \* mailbox sequence numbers

VARIABLE custody    \* custody[g][n]: who keeps payload n of mailbox g

Keepers == {"unsent", "server", "both", "device", "expired", "abandoned"}

\* The changes that may happen to one payload: it is stored by the server,
\* received, released by the server on the device's ACK or at its expiry, or
\* expires unreceived, when the device may still get a copy that was under way;
\* and a mailbox may be abandoned at any time.
Moves ==
    {<<"unsent", "server">>, <<"server", "both">>, <<"both", "device">>,
     <<"server", "expired">>, <<"expired", "device">>}
    \cup {<<k, k>> : k \in Keepers} \cup {<<k, "abandoned">> : k \in Keepers}

Init == custody = [g \in Generations |-> [n \in Seqs |-> "unsent"]]

Next == /\ custody' \in [Generations -> [Seqs -> Keepers]]
        /\ \A g \in Generations, n \in Seqs :
               <<custody[g][n], custody'[g][n]>> \in Moves

Spec == Init /\ [][Next]_custody
=============================================================================
