----------------------- MODULE MCSubscriptionHandler -----------------------
(* SubscriptionHandler for TLC: threads and gNodeBs are model values and   *)
(* interchangeable.                                                        *)
EXTENDS SubscriptionHandler, TLC

Symmetry == Permutations(Callers) \cup Permutations(Responders)
                \cup Permutations(Nodes)
=============================================================================
