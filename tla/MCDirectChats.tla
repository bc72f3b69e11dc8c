---- MODULE MCDirectChats ----
EXTENDS DirectChats, TLC
\* Requests start in the same state and are told apart by nothing else.
RequestSymmetry == Permutations(Requests)
====
