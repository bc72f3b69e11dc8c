--------------------------- MODULE MCOutgoingSend ---------------------------
(***************************************************************************)
(* The instance of OutgoingSend for TLC.                                   *)
(***************************************************************************)
EXTENDS OutgoingSend

CONSTANTS tab1, few, more
=============================================================================
