--------------------------- MODULE MCAuthSessions ---------------------------
(***************************************************************************)
(* Instances of AuthSessions for TLC: one device that is signed in.        *)
(***************************************************************************)
EXTENDS AuthSessions, TLC

CONSTANTS r1, r2, r3, r4, r5, s1, d1

SignedIn == s1 :> d1
Mix == (r1 :> "refresh") @@ (r2 :> "refresh") @@ (r3 :> "logout") @@ (r4 :> "login") @@ (r5 :> "revoke")
=============================================================================
