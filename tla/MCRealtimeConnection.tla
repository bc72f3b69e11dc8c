------------------------- MODULE MCRealtimeConnection -------------------------
(***************************************************************************)
(* Instances of RealtimeConnection for TLC.                                *)
(***************************************************************************)
EXTENDS RealtimeConnection, TLC

CONSTANTS tab1, tab2, s1, s2

\* Sockets are alike.
SocketSymmetry == Permutations({s1, s2})
=============================================================================
