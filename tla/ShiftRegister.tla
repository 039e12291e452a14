---------------------------- MODULE ShiftRegister ----------------------------
(* What a sliding window promises: a row of bins, oldest first, that moves *)
(* along by whole bins, takes events into the newest one, and whose total  *)
(* is the sum of the bins.                                                 *)
EXTENDS Integers, Sums

CONSTANTS Sizes, Events

VARIABLES bins, total

Empty(n) == [i \in 1..n |-> 0]

Init == /\ \E n \in Sizes : bins = Empty(n)
        /\ total = 0

Slide(k, e) ==
    LET n == Cardinality(DOMAIN bins) IN
    /\ k \in 0..n
    /\ bins' = [i \in 1..n |-> (IF i + k <= n THEN bins[i + k] ELSE 0)
                               + (IF i = n THEN e ELSE 0)]
    /\ total' = SumOver(bins', 1..n)

Reset(n) == bins' = Empty(n) /\ total' = 0

Next == \/ \E e \in Events, k \in 0..Cardinality(DOMAIN bins) : Slide(k, e)
        \/ \E n \in Sizes : Reset(n)

Spec == Init /\ [][Next]_<<bins, total>>
=============================================================================
