--------------------------- MODULE MCEnvelopeStore ---------------------------
(***************************************************************************)
(* The instance of EnvelopeStore for TLC: one message with envelopes for   *)
(* two devices, and one transaction of each kind.                          *)
(***************************************************************************)
EXTENDS EnvelopeStore, TLC

CONSTANTS r1, r2, r3, r4, r5

Rows == {<<"m1", "d1">>, <<"m1", "d2">>}
RowMessage == [e \in Rows |-> e[1]]
RowRecipient == [e \in Rows |-> e[2]]

\* The ACK is repeated.
Transactions ==
    (r1 :> "ack") @@ (r2 :> "mailbox") @@ (r3 :> "lookup") @@ (r4 :> "purge") @@ (r5 :> "ack")

\* The two ACKs are alike.
AckSymmetry == Permutations({r1, r5})
=============================================================================
