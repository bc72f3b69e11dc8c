-------------------------- MODULE MCClientSession --------------------------
(***************************************************************************)
(* Instances of ClientSession for TLC.                                     *)
(***************************************************************************)
EXTENDS ClientSession, TLC

\* The tabs run the same code.
TabSymmetry == Permutations(Tabs)

Mounted == {t \in Tabs : tab[t] # Fresh}
CallsOf(t) == {k \in Kinds : tab[t].call[k].at # "idle"}

\* TLC explores what one tab can do alone with up to three calls under way; and
\* with a second tab, or with a request that was given up and is still on its
\* way, what concerns the cookie and the lock: restoring, refreshing, signing
\* out and reloading, with up to two calls in a tab.
CookieRaces ==
    \/ /\ Cardinality(Mounted) + Cardinality(orphans) <= 1
       /\ \A t \in Mounted : Cardinality(CallsOf(t)) <= 3
    \/ /\ Cardinality(Mounted) + Cardinality(orphans) = 2
       /\ \A t \in Mounted :
            /\ tab[t].active
            /\ CallsOf(t) \cap {"login", "other"} = {}
            /\ Cardinality(CallsOf(t)) <= 2
============================================================================
