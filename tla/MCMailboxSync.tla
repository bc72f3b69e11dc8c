---------------------------- MODULE MCMailboxSync ----------------------------
(***************************************************************************)
(* Instances of MailboxSync for TLC.                                       *)
(***************************************************************************)
EXTENDS MailboxSync

CONSTANTS tab1, tab2
=============================================================================
