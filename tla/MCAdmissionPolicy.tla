-------------------------- MODULE MCAdmissionPolicy --------------------------
(* AdmissionPolicy for TLC: two instances that want the same class, or     *)
(* classes of their own, and messages the schema lets through: without a   *)
(* payload every parameter is -1; an UPDATE may name another class than    *)
(* its instance has.  Windows of 15 to 300 seconds are scaled down to one  *)
(* or two ticks.                                                           *)
EXTENDS AdmissionPolicy, TLC

P(e, w, th, rate) == [enforce |-> e, window_size |-> w, threshold |-> th,
                      block_rate |-> rate]
MCInitialParams == P(FALSE, 1, 0, 20)
MCDefaultParams == P(TRUE, 1, 1, 10)
Blocking == P(TRUE, MAX_WINDOW_SIZE, 1, 100)
Relaxed  == P(FALSE, 1, 1, 100)
Sampling == P(TRUE, 1, 0, 50)
Nothing  == P(FALSE, -1, -1, -1)
MCParams == {Blocking, Relaxed, Sampling, Nothing}

Message(op, i, class, params) ==
    [op |-> op, instance |-> i, class |-> class, params |-> params]
Delete(i) == Message("DELETE", i, -1, Nothing)

MCClasses  == {-1, 0, 1, 2}

MCMessages == {Message("CREATE", 1, 1, Blocking), Message("CREATE", 2, 1, Blocking),
               Message("CREATE", 2, 2, Relaxed), Message("CREATE", 1, -1, Nothing),
               Message("UPDATE", 1, 1, Sampling), Message("UPDATE", 2, -1, Nothing),
               Message("UPDATE", 2, 1, Relaxed), Delete(1), Delete(2)}

(* Two policies, the first of them deleted and created again.              *)
MCTwoPolicies == {Message("CREATE", 1, 1, Blocking), Message("CREATE", 2, 2, Relaxed),
                  Delete(1)}

(* One policy, created, deleted and created again.                         *)
MCOnePolicy == {Message("CREATE", 1, 1, Blocking), Delete(1)}
=============================================================================
