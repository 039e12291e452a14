------------------------------ MODULE WindowOps ------------------------------
(***************************************************************************)
(* The class sliding_window (src/protector-plugin/sliding_window.cc) as    *)
(* operators on its state, a record: a circular buffer with one slot per   *)
(* second, the sum of its slots, and the time since the leading edge.      *)
(*                                                                         *)
(* Time is counted in ticks; update_window works in whole seconds.  The    *)
(* absolute time of leading_edge_ is replaced by its age: the code only    *)
(* ever subtracts it from now().  The age stops at the window's length,    *)
(* beyond which every update clears the window.                            *)
(***************************************************************************)
EXTENDS Integers, Sums

CONSTANTS
    MIN_WINDOW_SIZE,
    MAX_WINDOW_SIZE,
    Second            \* ticks in a second

ASSUME WindowAssumption ==
    /\ MIN_WINDOW_SIZE \in Nat \ {0}
    /\ MAX_WINDOW_SIZE \in Nat
    /\ Second \in Nat \ {0}

(* What the constructor throws on and resize_window refuses.               *)
LegalSize(n) == n >= MIN_WINDOW_SIZE /\ n <= MAX_WINDOW_SIZE

NewWindow(n) ==
    [size |-> n, slot |-> [i \in 0..(n - 1) |-> 0], head |-> n - 1, tail |-> 0,
     net_events |-> 0, edge_age |-> 0]

(* resize_window, and clear() with the window's own size.                  *)
Resized(w, n) == IF LegalSize(n) THEN NewWindow(n) ELSE w

(* Whole seconds since the leading edge: duration_cast truncates.  (A      *)
(* plausible bug: it rounds up.)                                           *)
MutantShift(w) == (w.edge_age + Second - 1) \div Second
Shift(w) == w.edge_age \div Second

(* The leading edge moves to now() when a second has passed, and the rest  *)
(* of the fraction is lost.  (A plausible bug: it moves at every update.)  *)
MutantEdgeAge(w) == 0
EdgeAge(w) == IF Shift(w) >= 1 THEN 0 ELSE w.edge_age

(* The slots that fall out of the window.  (A plausible bug: the tail is   *)
(* advanced before its slot is emptied.)                                   *)
MutantDropped(w) == {(w.tail + i) % w.size : i \in 1..Shift(w)}
Dropped(w) == {(w.tail + i) % w.size : i \in 0..(Shift(w) - 1)}

(* head and tail wrap around.  (A plausible bug: one too late.)            *)
MutantAdvanced(w, i) == (i + Shift(w)) % (w.size + 1)
Advanced(w, i) == (i + Shift(w)) % w.size

(* update_window.                                                          *)
Updated(w, events) ==
    LET head    == Advanced(w, w.head)
        cleared == NewWindow(w.size)
    IN
    IF Shift(w) >= w.size
    THEN [cleared EXCEPT !.slot[w.size - 1] = events, !.net_events = events]
    ELSE [w EXCEPT
            !.slot = [i \in DOMAIN w.slot |->
                        (IF i \in Dropped(w) THEN 0 ELSE w.slot[i])
                        + (IF i = head THEN events ELSE 0)],
            !.head = head,
            !.tail = Advanced(w, w.tail),
            !.net_events = @ - SumOver(w.slot, Dropped(w)) + events,
            !.edge_age = EdgeAge(w)]

(* A tick of the clock.                                                    *)
Ticked(w) ==
    [w EXCEPT !.edge_age = IF @ < w.size * Second THEN @ + 1 ELSE @]

(* The slots, oldest first.                                                *)
InOrder(w) == [i \in 1..w.size |-> w.slot[(w.tail + i - 1) % w.size]]
=============================================================================
