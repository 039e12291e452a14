----------------------------- MODULE MCLifecycle -----------------------------
(* Lifecycle for TLC: gNodeBs and listener threads are interchangeable.    *)
EXTENDS Lifecycle, TLC

Symmetry == Permutations(Responders) \cup Permutations(Nodes)
=============================================================================
