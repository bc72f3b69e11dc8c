---------------------------- MODULE MCReadCursors ----------------------------
(***************************************************************************)
(* Instances of ReadCursors for TLC.                                       *)
(***************************************************************************)
EXTENDS ReadCursors

\* Two own positions are enough for one to be read while the other is being
\* sent; one of the peer's is enough for an event that is lost.
ReadBounds == [own |-> 2, peer |-> 1]
=============================================================================
