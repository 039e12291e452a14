------------------------- MODULE SubscriptionService -------------------------
(***************************************************************************)
(* What the subscription handler promises its callers, without tables,     *)
(* locks, messages or time: a set of subscribed ids, at most one admitted  *)
(* call per id, and a call that reports SUCCESS only if it changed the set *)
(* in the way it was asked to.                                             *)
(*                                                                         *)
(* A session is where one caller is: idle; asked; admitted (it holds its   *)
(* id); decided (it still holds the id, and its answer is fixed);          *)
(* answered (the id is free again).                                        *)
(***************************************************************************)
CONSTANTS Callers, Ids

VARIABLES
    subscribed,  \* the ids with a subscription
    session      \* caller -> its session

Idle == [phase |-> "idle"]
At(phase, c) == [phase |-> phase, call |-> c]
Told(phase, c, res) == [phase |-> phase, call |-> c, result |-> res]

Holds(t, id) == /\ session[t].phase \in {"admitted", "decided"}
                /\ session[t].call.id = id

Init ==
    /\ subscribed = {}
    /\ session = [t \in Callers |-> Idle]

Step(t, from, next) ==
    /\ session[t].phase = from
    /\ session' = [session EXCEPT ![t] = next]

Ask(t, op, id) ==
    /\ Step(t, "idle", At("asked", [op |-> op, id |-> id]))
    /\ UNCHANGED subscribed

(* Only one call at a time is admitted for an id.                          *)
Admit(t) ==
    /\ Step(t, "asked", At("admitted", session[t].call))
    /\ \A u \in Callers : ~Holds(u, session[t].call.id)
    /\ UNCHANGED subscribed

(* A subscriber is refused as a duplicate only while another call holds    *)
(* its id; a deleter's refusals rest on look-ups that may be out of date.  *)
Refuse(t, res) ==
    /\ Step(t, "asked", Told("answered", session[t].call, res))
    /\ \/ res = "ERR_ENCODE"
       \/ res = "ERR_DUPLICATE" /\ \E u \in Callers : Holds(u, session[t].call.id)
       \/ res \in {"ERR_MISSING", "ERR_DUPLICATE"} /\ session[t].call.op = "delete"
    /\ UNCHANGED subscribed

(* The one step that changes the set, and only as the call asked.          *)
Grant(t) ==
    LET c == session[t].call IN
    /\ Step(t, "admitted", Told("decided", c, "SUCCESS"))
    /\ \/ /\ c.op = "subscribe"
          /\ c.id \notin subscribed
          /\ subscribed' = subscribed \cup {c.id}
       \/ /\ c.op = "delete"
          /\ c.id \in subscribed
          /\ subscribed' = subscribed \ {c.id}

Deny(t, res) ==
    LET c == session[t].call IN
    /\ Step(t, "admitted", Told("decided", c, res))
    /\ \/ res = "ERR_FAIL"
       \/ res = "ERR_DUPLICATE" /\ c.op = "subscribe" /\ c.id \in subscribed
    /\ UNCHANGED subscribed

(* Sending failed, or no answer came in time: nothing has changed.         *)
GiveUp(t, res) ==
    /\ Step(t, "admitted", Told("answered", session[t].call, res))
    /\ res \in {"ERR_TX", "ERR_TIMEOUT"}
    /\ UNCHANGED subscribed

(* A late answer to an earlier call for the same id can decide a call that *)
(* has not been sent yet.  If sending then fails, the call reports that    *)
(* instead of what was decided.                                            *)
Release(t) ==
    /\ session[t].phase = "decided"
    /\ \E res \in {session[t].result, "ERR_TX"} :
          Step(t, "decided", Told("answered", session[t].call, res))
    /\ UNCHANGED subscribed

Leave(t) ==
    /\ Step(t, "answered", Idle)
    /\ UNCHANGED subscribed

Forget ==
    /\ \A t \in Callers : session[t] = Idle
    /\ subscribed' = {}
    /\ UNCHANGED session

Refusals == {"ERR_ENCODE", "ERR_MISSING", "ERR_DUPLICATE"}

Serve(t) ==
    \/ \E op \in {"subscribe", "delete"}, id \in Ids : Ask(t, op, id)
    \/ Admit(t) \/ Grant(t) \/ Release(t) \/ Leave(t)
    \/ \E res \in Refusals : Refuse(t, res)
    \/ \E res \in {"ERR_FAIL", "ERR_DUPLICATE"} : Deny(t, res)
    \/ \E res \in {"ERR_TX", "ERR_TIMEOUT"} : GiveUp(t, res)

(* A call served always moves on; saying so first spares TLC the search    *)
(* through Serve for the many steps of the handler that stutter here.      *)
Next ==
    \/ \E t \in Callers : session'[t] # session[t] /\ Serve(t)
    \/ Forget

Spec == Init /\ [][Next]_<<subscribed, session>>
=============================================================================
