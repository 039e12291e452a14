---------------------------- MODULE SlidingWindow ----------------------------
(***************************************************************************)
(* One sliding window (src/protector-plugin/sliding_window.{hpp,cc}) over  *)
(* time: it is updated, resized and cleared at any moment.  "arrivals" is  *)
(* a history variable, the ages of the events the window was told of, to   *)
(* state what net_events means.                                            *)
(***************************************************************************)
EXTENDS WindowOps

CONSTANTS
    Sizes,      \* what resize_window is called with, illegal sizes included
    Events,     \* what update_window is called with
    MaxEvents   \* bound: events remembered at a time

(* Both methods take an unsigned int.                                      *)
ASSUME SlidingAssumption ==
    Sizes \subseteq Nat /\ Events \subseteq Nat /\ MaxEvents \in Nat

LegalSizes == {n \in Sizes : LegalSize(n)}

(* An event this old has left every window.                                *)
Horizon == 2 * MAX_WINDOW_SIZE * Second
Ages == 0..(Horizon - 1)

VARIABLES
    window,    \* the object's state
    arrivals,  \* age at the last update -> number of events of that age
    idle       \* ticks since the last update

vars == <<window, arrivals, idle>>

Count(ages) == SumOver(arrivals, ages)

TypeOK ==
    /\ window.size \in LegalSizes
    /\ window.slot \in [0..(window.size - 1) -> 0..MaxEvents]
    /\ window.tail \in 0..(window.size - 1)
    /\ window.head = (window.tail + window.size - 1) % window.size
    /\ window.edge_age \in 0..(window.size * Second)
    /\ arrivals \in [Ages -> 0..MaxEvents]
    /\ idle \in 0..Horizon

Init ==
    /\ \E n \in LegalSizes : window = NewWindow(n)
    /\ arrivals = [a \in Ages |-> 0]
    /\ idle = 0

Tick ==
    /\ window' = Ticked(window)
    /\ idle' = IF idle < Horizon THEN idle + 1 ELSE idle
    /\ UNCHANGED arrivals

Update(e) ==
    /\ window' = Updated(window, e)
    /\ arrivals' = [a \in Ages |-> IF a = 0
                                   THEN e + (IF idle = 0 THEN arrivals[0] ELSE 0)
                                   ELSE IF a >= idle THEN arrivals[a - idle] ELSE 0]
    /\ Count(Ages)' <= MaxEvents
    /\ idle' = 0

Resize(n) ==
    /\ window' = Resized(window, n)
    /\ IF LegalSize(n) THEN arrivals' = [a \in Ages |-> 0] /\ idle' = 0
                       ELSE UNCHANGED <<arrivals, idle>>

Clear == Resize(window.size)

Next ==
    \/ Tick
    \/ \E e \in Events : Update(e)
    \/ \E n \in Sizes : Resize(n)
    \/ Clear

Spec == Init /\ [][Next]_vars

-----------------------------------------------------------------------------
(* Properties.                                                             *)

(* The circular buffer is a shift register: however head and tail wrap,    *)
(* the slots in order move along by whole seconds and the incrementally    *)
(* kept net_events is their sum.                                           *)
Register == INSTANCE ShiftRegister WITH
              Sizes <- LegalSizes, bins <- InOrder(window),
              total <- window.net_events
ImplementsRegister == Register!Spec

(* At an update of a window of W seconds, no event of the last W - 1       *)
(* seconds is missing from net_events, although the slots are a second     *)
(* wide and the leading edge starts a new second at every shift.           *)
RecentCounted ==
    Count({a \in Ages : a <= (window.size - 1) * Second}) <= window.net_events

(* ... and none that is 2W - 1 seconds old is still counted: the fraction  *)
(* of a second each shift loses can nearly double the window, never more.  *)
OldDropped ==
    window.net_events <= Count({a \in Ages : a < (2 * window.size - 1) * Second})
=============================================================================
