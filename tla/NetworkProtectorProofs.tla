------------------------ MODULE NetworkProtectorProofs ------------------------
(***************************************************************************)
(* The counters of the protector agree and its decisions stand, for any    *)
(* number of listeners, policies and requests and any sizes of windows.    *)
(* The lemmas about single actions serve the modules that compose the      *)
(* protector with its callers as well.                                     *)
(***************************************************************************)
EXTENDS NetworkProtector, WindowOpsProofs

-----------------------------------------------------------------------------
(* The inductive invariant.                                                *)

AllParams == Params \cup {InitialParams, DefaultParams}

PolicyShape(p) ==
    p = [params |-> p.params, window |-> p.window, req |-> p.req, rej |-> p.rej]
PolicyOK(p) ==
    /\ PolicyShape(p)
    /\ p.params \in AllParams
    /\ WindowOK(p.window)
    /\ p.req \in Nat /\ p.rej \in Nat
    /\ p.rej <= p.req
    /\ p.window.net_events <= p.req

PoliciesOK ==
    /\ IsFiniteSet(Active) /\ Active \subseteq Classes
    /\ policy_list = [id \in Active |-> policy_list[id]]
    /\ \A id \in Active : PolicyOK(policy_list[id])

(* The totals cover the policies there are.                                *)
TotalsOK ==
    /\ net_requests \in 0..MaxRequests
    /\ net_rejects \in 0..net_requests
    /\ Total("req") <= net_requests
    /\ Total("rej") <= net_rejects + Uncounted

(* Whoever decides holds the mutex; a rejection that is not yet counted    *)
(* still has its request to be counted against, in its policy and in the   *)
(* total.                                                                  *)
Pending(d) ==
    /\ d.policy \in Active
    /\ d.accept => ~d.counted
    /\ ~d.accept =>
          /\ Exceeded(policy_list[d.policy])
          /\ ~d.counted => policy_list[d.policy].rej < policy_list[d.policy].req
          /\ net_rejects < net_requests
DecidingOK ==
    /\ m_access \in Listeners \cup {Nobody}
    /\ deciding \in [Listeners -> Decisions \cup {Nobody}]
    /\ \A t \in Listeners : deciding[t] # Nobody =>
          m_access = t /\ Pending(deciding[t])

ProtectorInv == PoliciesOK /\ TotalsOK /\ DecidingOK

-----------------------------------------------------------------------------
(* The sums of the policies' counters.                                     *)

Column(list, field) == [id \in DOMAIN list |-> list[id][field]]
Sum(list, field) == SumOver(Column(list, field), DOMAIN list)

ListOK(list) ==
    /\ IsFiniteSet(DOMAIN list)
    /\ \A id \in DOMAIN list : list[id].req \in Nat /\ list[id].rej \in Nat

CounterFields == {"req", "rej"}

(* A policy that is changed, or added, changes the sums by as much.        *)
Put(list, id, p) == [k \in DOMAIN list \cup {id} |-> IF k = id THEN p ELSE list[k]]

(* A sum of counters over the policies' map is a number ...                *)
LEMMA SumNatural ==
    ASSUME NEW list, ListOK(list), NEW field \in CounterFields
    PROVE  Sum(list, field) \in Nat
<1>1. \A k \in DOMAIN list : Column(list, field)[k] \in Nat
  BY DEF ListOK, Column, CounterFields
<1> QED
  BY <1>1, SumNat DEF ListOK, Sum

(* ... it follows the one policy that is replaced ...                      *)
LEMMA SumReplaced ==
    ASSUME NEW list, ListOK(list), NEW id \in DOMAIN list, NEW p,
           p.req \in Nat, p.rej \in Nat, NEW field \in CounterFields,
           NEW new, new = Put(list, id, p)
    PROVE  Sum(new, field) = Sum(list, field) + (p[field] - list[id][field])
<1> DEFINE f == Column(list, field)
           g == Column(new, field)
           S == DOMAIN list
<1>1. /\ DOMAIN new = S /\ IsFiniteSet(S)
      /\ \A k \in S : f[k] \in Int /\ g[k] \in Int
      /\ g[id] = p[field] /\ f[id] = list[id][field]
      /\ \A k \in S \ {id} : f[k] = g[k]
  <2>1. DOMAIN new = S /\ IsFiniteSet(S)
    BY DEF Put, ListOK
  <2>2. \A k \in S : new[k] = IF k = id THEN p ELSE list[k]
    BY DEF Put
  <2>3. \A k \in S : list[k][field] \in Int /\ p[field] \in Int
    BY DEF ListOK, CounterFields
  <2>4. \A k \in S : f[k] = list[k][field] /\ g[k] = new[k][field]
    BY <2>1 DEF Column
  <2> HIDE DEF f, g, S
  <2> QED
    BY <2>1, <2>2, <2>3, <2>4 DEF S
<1>2. SumOver(g, S) = SumOver(f, S) + (g[id] - f[id])
  <2> HIDE DEF f, g
  <2> QED
    BY <1>1, SumChanged
<1> QED
  BY <1>1, <1>2 DEF Sum

(* ... or added.                                                           *)
LEMMA SumAdded ==
    ASSUME NEW list, ListOK(list), NEW id, id \notin DOMAIN list, NEW p,
           p.req \in Nat, p.rej \in Nat, NEW field \in CounterFields,
           NEW new, new = Put(list, id, p)
    PROVE  Sum(new, field) = Sum(list, field) + p[field]
<1> DEFINE f == Column(list, field)
           g == Column(new, field)
           S == DOMAIN list
           T == S \cup {id}
<1>1. /\ DOMAIN new = T /\ IsFiniteSet(S) /\ IsFiniteSet(T)
      /\ \A k \in T : g[k] \in Int
      /\ \A k \in S : f[k] \in Int
      /\ g[id] = p[field] /\ \A k \in S : f[k] = g[k]
      /\ T \ {id} = S /\ id \in T
  <2>1. DOMAIN new = T /\ IsFiniteSet(S) /\ IsFiniteSet(T)
    BY FS_AddElement DEF Put, ListOK
  <2>2. \A k \in T : new[k] = IF k = id THEN p ELSE list[k]
    BY DEF Put
  <2>3. /\ p[field] \in Int
        /\ \A k \in S : list[k][field] \in Int
    BY DEF ListOK, CounterFields
  <2>4. /\ \A k \in S : f[k] = list[k][field]
        /\ \A k \in T : g[k] = new[k][field]
    BY <2>1 DEF Column
  <2>5. T \ {id} = S /\ id \in T /\ id \notin S
    OBVIOUS
  <2> HIDE DEF f, g, S
  <2> QED
    BY <2>1, <2>2, <2>3, <2>4, <2>5
<1>2. SumOver(g, T) = g[id] + SumOver(g, S) /\ SumOver(g, S) = SumOver(f, S)
      /\ SumOver(f, S) \in Int
  <2> HIDE DEF f, g, S, T
  <2>1. SumOver(g, T) = g[id] + SumOver(g, S)
    BY <1>1, SumRemove
  <2>2. SumOver(g, S) = SumOver(f, S) /\ SumOver(f, S) \in Int
    BY <1>1, SumCong, SumInt
  <2> QED
    BY <2>1, <2>2
<1>3. g[id] \in Int /\ Sum(list, field) = SumOver(f, S)
      /\ Sum(new, field) = SumOver(g, T)
  BY <1>1 DEF Sum
<1> HIDE DEF f, g, S, T
<1> QED
  BY <1>1, <1>2, <1>3

(* A policy that is deleted takes its part of the sums with it.            *)
LEMMA SumWithout ==
    ASSUME NEW list, ListOK(list), NEW id, NEW new,
           new = [k \in DOMAIN list \ {id} |-> list[k]], NEW field \in CounterFields
    PROVE  ListOK(new) /\ Sum(new, field) <= Sum(list, field)
<1> DEFINE f == Column(list, field)
           g == Column(new, field)
           S == DOMAIN list
           T == DOMAIN new
<1>1. /\ IsFiniteSet(S) /\ T = S \ {id} /\ IsFiniteSet(T)
      /\ \A k \in S : f[k] \in Nat
      /\ \A k \in T : g[k] = f[k]
  BY FS_RemoveElement DEF ListOK, Column, CounterFields
<1>2. ListOK(new)
  BY <1>1 DEF ListOK
<1> HIDE DEF f, g, S, T
<1>3. SumOver(g, T) = SumOver(f, T) /\ SumOver(f, T) \in Nat
  BY <1>1, SumCong, SumNat
<1>4. id \in S => SumOver(f, S) = f[id] + SumOver(f, T)
  BY <1>1, SumRemove
<1>5. id \notin S => T = S
  BY <1>1
<1> QED
  BY <1>1, <1>2, <1>3, <1>4, <1>5 DEF Sum, f, g, S, T

(* Sums of equal counters are equal.                                       *)
LEMMA SumSame ==
    ASSUME NEW list, ListOK(list), NEW new, DOMAIN new = DOMAIN list, NEW field \in CounterFields,
           \A id \in DOMAIN list : new[id][field] = list[id][field]
    PROVE  Sum(new, field) = Sum(list, field)
<1>1. \A id \in DOMAIN list : Column(new, field)[id] = Column(list, field)[id]
  BY DEF Column
<1> QED
  BY <1>1, SumCong DEF Sum, ListOK

(* No policy counts more than the sums.                                    *)
LEMMA SumBound ==
    ASSUME NEW list, ListOK(list), NEW field \in CounterFields, NEW id \in DOMAIN list
    PROVE  list[id][field] <= Sum(list, field)
<1>1. \A k \in DOMAIN list : Column(list, field)[k] = list[k][field]
                             /\ list[k][field] \in Nat
  BY DEF Column, ListOK, CounterFields
<1> QED
  BY <1>1, SumTerm DEF Sum, ListOK

(* The model's totals over the policies, as such a sum.                    *)
LEMMA TotalIsSum == \A field : Total(field) = Sum(policy_list, field)
BY DEF Total, Sum, Column, Active

(* The invariant makes policy_list a map of counters.                      *)
LEMMA InvList == PoliciesOK => ListOK(policy_list)
BY DEF PoliciesOK, PolicyOK, ListOK, Active

-----------------------------------------------------------------------------
(* What a single action does to the invariant.                             *)

LEMMA NewPolicyOK ==
    ASSUME NEW p \in AllParams, LegalSize(p.window_size)
    PROVE  /\ PolicyOK(NewPolicy(p))
           /\ NewPolicy(p).req = 0 /\ NewPolicy(p).rej = 0
<1>1. WindowOK(NewWindow(p.window_size)) /\ NewWindow(p.window_size).net_events = 0
  BY ProtectorAssumption, NewWindowOK DEF AllParams
<1> QED
  BY <1>1 DEF PolicyOK, PolicyShape, NewPolicy

(* The policy a request is put to, inserted by operator[] perhaps, is      *)
(* sound.                                                                  *)
LEMMA LookupOK ==
    ASSUME PoliciesOK, NEW id
    PROVE  PolicyOK(Lookup(id))
BY ProtectorAssumption, NewPolicyOK DEF PoliciesOK, Lookup, AllParams

(* Counting a request into a policy.                                       *)
LEMMA CountedOK ==
    ASSUME NEW p, PolicyOK(p)
    PROVE  /\ PolicyOK(Counted(p))
           /\ Counted(p).req = p.req + 1 /\ Counted(p).rej = p.rej
           /\ Counted(p).params = p.params
<1> DEFINE w == Updated(p.window, 1)
<1>1. WindowOK(w) /\ w.net_events <= p.window.net_events + 1
  BY UpdatedOK DEF PolicyOK
<1>2. w.net_events \in Nat /\ p.window.net_events \in Nat
  BY <1>1, WindowFacts DEF PolicyOK
<1>3. /\ PolicyShape(Counted(p))
      /\ Counted(p).params = p.params /\ Counted(p).window = w
      /\ Counted(p).req = p.req + 1 /\ Counted(p).rej = p.rej
  <2>1. PICK a, b, c, d : p = [params |-> a, window |-> b, req |-> c, rej |-> d]
    BY DEF PolicyOK, PolicyShape
  <2>2. p.params = a /\ p.window = b /\ p.req = c /\ p.rej = d
    BY <2>1
  <2>3. Counted(p) = [p EXCEPT !.req = c + 1, !.window = w]
    BY <2>2 DEF Counted
  <2> HIDE DEF w
  <2>4. Counted(p) = [params |-> a, window |-> w, req |-> c + 1, rej |-> d]
    BY <2>1, <2>3
  <2> QED
    BY <2>2, <2>4 DEF PolicyShape
<1> HIDE DEF w
<1> QED
  BY <1>1, <1>2, <1>3 DEF PolicyOK

(* The map with a policy put into it.                                      *)
LEMMA WithOK ==
    ASSUME PoliciesOK, NEW id \in Classes, NEW p, PolicyOK(p),
           policy_list' = With(id, p)
    PROVE  PoliciesOK' /\ Active' = Active \cup {id}
           /\ \A k \in Active' : policy_list'[k] = IF k = id THEN p ELSE policy_list[k]
<1>1. policy_list' = [k \in Active \cup {id} |-> IF k = id THEN p ELSE policy_list[k]]
  BY DEF With
<1>2. IsFiniteSet(Active \cup {id})
  BY FS_AddElement DEF PoliciesOK
<1> QED
  BY <1>1, <1>2 DEF PoliciesOK, Active

(* The holder of the mutex alone may have a rejection half counted.        *)
LEMMA UncountedIs ==
    ASSUME DecidingOK
    PROVE  /\ m_access = Nobody => Uncounted = 0
           /\ \A t \in Listeners : m_access = t /\ deciding[t] # Nobody =>
                 Uncounted = IF deciding[t].counted THEN 1 ELSE 0
           /\ Uncounted \in 0..1
BY ProtectorAssumption DEF DecidingOK, Uncounted

(* The constructor inserts the default policy.                             *)
LEMMA InitOK == ProtectorInit => ProtectorInv
<1> SUFFICES ASSUME ProtectorInit PROVE ProtectorInv
  OBVIOUS
<1> DEFINE p == NewPolicy(InitialParams)
           none == [k \in {} |-> p]
<1>1. PolicyOK(p) /\ p.req = 0 /\ p.rej = 0
  BY ProtectorAssumption, NewPolicyOK DEF AllParams
<1>2. policy_list = [id \in {0} |-> p] /\ Active = {0}
  BY DEF ProtectorInit, Active
<1> HIDE DEF p
<1>3. PoliciesOK
  BY <1>1, <1>2, ProtectorAssumption, FS_Singleton DEF PoliciesOK
<1>4. ASSUME NEW field \in CounterFields PROVE Total(field) = 0
  <2>1. \A id \in Active : Column(policy_list, field)[id] = 0
    BY <1>1, <1>2 DEF Column, CounterFields
  <2> QED
    BY <1>2, <2>1, SumZero, FS_Singleton, TotalIsSum DEF Sum, Active
<1>5. DecidingOK
  BY DEF ProtectorInit, DecidingOK
<1>6. TotalsOK
  BY <1>4, <1>5, UncountedIs, ProtectorAssumption DEF ProtectorInit, TotalsOK, CounterFields
<1> QED
  BY <1>3, <1>5, <1>6 DEF ProtectorInv

(* The first half of operator(): the request is counted and decided ...    *)
LEMMA DecideOK ==
    ASSUME ProtectorInv, NEW t \in Listeners, NEW profile, Decide(t, profile)
    PROVE  ProtectorInv'
<1> PICK id : id = PolicyOf(profile)
  OBVIOUS
<1> PICK q : q = Lookup(id)
  OBVIOUS
<1> PICK p : p = Counted(q)
  OBVIOUS
<1>1. /\ m_access = Nobody /\ m_access' = t
      /\ net_requests < MaxRequests /\ net_requests' = net_requests + 1
      /\ net_rejects' = net_rejects
      /\ policy_list' = With(id, p)
  BY DEF Decide
<1>2. PICK accept \in Verdicts(p) :
          deciding' = [deciding EXCEPT ![t] =
                         [policy |-> id, accept |-> accept, counted |-> FALSE]]
  BY DEF Decide
<1>3. id \in Classes
  BY ProtectorAssumption DEF PolicyOf, ProtectorInv, PoliciesOK
<1>4. PolicyOK(q) /\ (id \in Active => q = policy_list[id])
      /\ (id \notin Active => q.req = 0 /\ q.rej = 0)
  BY LookupOK, ProtectorAssumption, NewPolicyOK DEF ProtectorInv, Lookup, AllParams
<1>5. PolicyOK(p) /\ p.req = q.req + 1 /\ p.rej = q.rej
  BY <1>4, CountedOK
<1>6. PoliciesOK' /\ Active' = Active \cup {id} /\ policy_list'[id] = p
  BY <1>1, <1>3, <1>5, WithOK DEF ProtectorInv
<1>7. DecidingOK'
  <2>1. \A s \in Listeners : deciding[s] = Nobody
    BY <1>1, ProtectorAssumption DEF ProtectorInv, DecidingOK
  <2>2. deciding' = [deciding EXCEPT ![t] = [policy |-> id, accept |-> accept, counted |-> FALSE]]
        /\ accept \in BOOLEAN /\ (~accept => Exceeded(p))
    BY <1>2 DEF Verdicts
  <2>3. [policy |-> id, accept |-> accept, counted |-> FALSE] \in Decisions
    BY <1>3, <2>2, ProtectorAssumption DEF Decisions
  <2>4. ~accept => policy_list'[id].rej < policy_list'[id].req /\ net_rejects' < net_requests'
    BY <1>1, <1>4, <1>5, <1>6 DEF PolicyOK, ProtectorInv, TotalsOK
  <2>5. Pending([policy |-> id, accept |-> accept, counted |-> FALSE])'
    BY <1>6, <2>2, <2>4 DEF Pending, Exceeded
  <2> QED
    BY <1>1, <2>1, <2>2, <2>3, <2>5 DEF ProtectorInv, DecidingOK
<1>8. TotalsOK'
  <2>1. ListOK(policy_list)
    BY InvList DEF ProtectorInv
  <2>2. policy_list' = Put(policy_list, id, p)
    BY <1>1 DEF With, Active, Put
  <2>3. p.req \in Nat /\ p.rej \in Nat /\ q.req \in Nat /\ q.rej \in Nat
    BY <1>4, <1>5 DEF PolicyOK
  <2>4. ASSUME NEW field \in CounterFields
        PROVE  /\ Sum(policy_list', field) = Sum(policy_list, field) + (p[field] - q[field])
               /\ Sum(policy_list, field) \in Nat
    <3>1. Sum(policy_list, field) \in Nat
      BY <2>1, SumNatural
    <3>2. CASE id \in Active
      <4>1. id \in DOMAIN policy_list /\ q = policy_list[id]
        BY <1>4, <3>2 DEF Active
      <4> QED
        BY <2>1, <2>2, <2>3, <3>1, <4>1, SumReplaced
    <3>3. CASE id \notin Active
      <4>1. p[field] - q[field] = p[field] /\ id \notin DOMAIN policy_list
        BY <1>4, <2>3, <3>3 DEF CounterFields, Active
      <4> QED
        BY <2>1, <2>2, <2>3, <3>1, <4>1, SumAdded
    <3> QED
      BY <3>2, <3>3
  <2>5. /\ Sum(policy_list', "req") = Sum(policy_list, "req") + (p.req - q.req)
        /\ Sum(policy_list', "rej") = Sum(policy_list, "rej") + (p.rej - q.rej)
        /\ Sum(policy_list, "req") \in Nat /\ Sum(policy_list, "rej") \in Nat
    BY <2>4 DEF CounterFields
  <2>6. /\ Total("req")' = Total("req") + 1 /\ Total("req") \in Nat
        /\ Total("rej")' = Total("rej") /\ Total("rej") \in Nat
    BY <1>5, <2>3, <2>5, TotalIsSum DEF Total, Sum, Column, Active
  <2>7. Uncounted = 0 /\ Uncounted' = 0
    <3>1. Uncounted = 0
      BY <1>1, UncountedIs DEF ProtectorInv
    <3>2. \A s \in Listeners : deciding'[s] # Nobody => ~deciding'[s].counted
      BY <1>1, <1>2, ProtectorAssumption DEF ProtectorInv, DecidingOK
    <3> QED
      BY <3>1, <3>2 DEF Uncounted
  <2> QED
    BY <1>1, <2>6, <2>7, ProtectorAssumption DEF ProtectorInv, TotalsOK
<1> QED
  BY <1>6, <1>7, <1>8 DEF ProtectorInv

(* Nothing but the policies changes, and no policy that a pending verdict  *)
(* rests on: what the control methods and the clock have in common.        *)
LEMMA OnlyPolicies ==
    ASSUME ProtectorInv, PoliciesOK',
           UNCHANGED <<net_requests, net_rejects, m_access, deciding>>,
           Total("req")' <= Total("req"), Total("rej")' <= Total("rej"),
           Total("req")' \in Nat, Total("rej")' \in Nat,
           \/ m_access = Nobody
           \/ /\ Active' = Active
              /\ \A id \in Active :
                    /\ policy_list'[id].params = policy_list[id].params
                    /\ policy_list'[id].window.net_events = policy_list[id].window.net_events
                    /\ policy_list'[id].req = policy_list[id].req
                    /\ policy_list'[id].rej = policy_list[id].rej
    PROVE  ProtectorInv'
<1>1. TotalsOK'
  <2>1. Total("req") \in Nat /\ Total("rej") \in Nat
    BY SumNatural, InvList, TotalIsSum DEF CounterFields, ProtectorInv
  <2>2. Uncounted' = Uncounted /\ Uncounted \in 0..1
    BY UncountedIs DEF ProtectorInv, Uncounted
  <2> QED
    BY <2>1, <2>2, ProtectorAssumption DEF ProtectorInv, TotalsOK
<1>2. DecidingOK'
  <2>1. CASE m_access = Nobody
    <3>1. \A t \in Listeners : deciding[t] = Nobody
      BY <2>1, ProtectorAssumption DEF ProtectorInv, DecidingOK
    <3> QED
      BY <3>1 DEF ProtectorInv, DecidingOK
  <2>2. CASE m_access # Nobody
    <3>1. ASSUME NEW d, Pending(d) PROVE Pending(d)'
      BY <2>2, <3>1 DEF Pending, Exceeded
    <3> QED
      BY <3>1 DEF ProtectorInv, DecidingOK
  <2> QED
    BY <2>1, <2>2
<1> QED
  BY <1>1, <1>2 DEF ProtectorInv

(* Totals over the policies are numbers.                                   *)
LEMMA TotalNatural ==
    ASSUME PoliciesOK, NEW field \in CounterFields
    PROVE  Total(field) \in Nat
BY SumNatural, InvList, TotalIsSum

(* The same counters under the same ids have the same sums.                *)
LEMMA TotalKept ==
    ASSUME PoliciesOK, PoliciesOK', Active' = Active, NEW field \in CounterFields,
           \A id \in Active : policy_list'[id][field] = policy_list[id][field]
    PROVE  Total(field)' = Total(field)
<1>1. ListOK(policy_list)
  BY InvList
<1>2. Sum(policy_list', field) = Sum(policy_list, field)
  BY <1>1, SumSame DEF Active
<1> QED
  BY <1>2, TotalIsSum DEF Total, Sum, Column, Active

(* ... then its policy counts a rejection ...                              *)
LEMMA CountRejectionOK ==
    ASSUME ProtectorInv, NEW t \in Listeners, CountRejection(t)
    PROVE  ProtectorInv'
<1> PICK d : d = deciding[t]
  OBVIOUS
<1> PICK id : id = d.policy
  OBVIOUS
<1> PICK q : q = policy_list[id]
  OBVIOUS
<1>0. PICK p : p = [q EXCEPT !.rej = @ + 1]
  OBVIOUS
<1>1. /\ m_access = t /\ d # Nobody /\ ~d.accept /\ ~d.counted
      /\ policy_list' = [policy_list EXCEPT ![id].rej = @ + 1]
      /\ deciding' = [deciding EXCEPT ![t].counted = TRUE]
      /\ UNCHANGED <<net_requests, net_rejects, m_access>>
  BY DEF CountRejection
<1>2. d \in Decisions /\ Pending(d)
  BY <1>1 DEF ProtectorInv, DecidingOK
<1>3. /\ id \in Active /\ q.rej < q.req /\ net_rejects < net_requests
      /\ PolicyOK(q) /\ Exceeded(q)
  BY <1>1, <1>2 DEF Pending, ProtectorInv, PoliciesOK
<1>4. /\ PolicyShape(p) /\ p.params = q.params /\ p.window = q.window
      /\ p.req = q.req /\ p.rej = q.rej + 1
  BY <1>0, <1>3 DEF PolicyOK, PolicyShape
<1>5. PolicyOK(p)
  BY <1>3, <1>4 DEF PolicyOK
<1>6. policy_list' = With(id, p)
  BY <1>0, <1>1, <1>3 DEF With, ProtectorInv, PoliciesOK, Active
<1>7. PoliciesOK' /\ Active' = Active /\ policy_list'[id] = p
  <2>1. PoliciesOK /\ id \in Classes /\ Active \cup {id} = Active
    BY <1>3 DEF ProtectorInv, PoliciesOK
  <2>2. PoliciesOK' /\ Active' = Active \cup {id} /\ policy_list'[id] = p
    BY <1>5, <1>6, <2>1, WithOK
  <2> QED
    BY <2>1, <2>2
<1>8. deciding'[t] = [policy |-> id, accept |-> FALSE, counted |-> TRUE]
      /\ \A s \in Listeners \ {t} : deciding'[s] = Nobody
  BY <1>1, <1>2 DEF ProtectorInv, DecidingOK, Decisions
<1>9. DecidingOK'
  <2>1. deciding' \in [Listeners -> Decisions \cup {Nobody}]
    BY <1>1, <1>2 DEF ProtectorInv, DecidingOK, Decisions
  <2>2. Exceeded(p)
    BY <1>3, <1>4 DEF Exceeded
  <2>3. Pending([policy |-> id, accept |-> FALSE, counted |-> TRUE])'
    BY <1>1, <1>3, <1>7, <2>2 DEF Pending, Exceeded
  <2>4. \A s \in Listeners : deciding'[s] # Nobody => m_access' = s /\ Pending(deciding[s])'
    BY <1>1, <1>8, <2>3
  <2> QED
    BY <1>1, <2>1, <2>4 DEF ProtectorInv, DecidingOK
<1>10. Uncounted = 0 /\ Uncounted' = 1
  <2>1. m_access' = t /\ deciding'[t] # Nobody /\ deciding'[t].counted
    <3>1. deciding'[t] \in Decisions
      BY <1>3, <1>8, ProtectorAssumption DEF ProtectorInv, PoliciesOK, Decisions
    <3>2. deciding'[t] # Nobody
      BY <3>1, NobodyAssumption
    <3>3. deciding'[t].counted = TRUE
      BY <1>8
    <3> QED
      BY <1>1, <3>2, <3>3
  <2>2. Uncounted = 0
    BY <1>1, UncountedIs DEF ProtectorInv
  <2> QED
    BY <2>1, <2>2 DEF Uncounted
<1>11. TotalsOK'
  <2>1. ListOK(policy_list) /\ id \in DOMAIN policy_list
        /\ policy_list' = Put(policy_list, id, p) /\ q = policy_list[id]
    BY <1>3, <1>6, InvList DEF ProtectorInv, With, Put, Active
  <2>2. p.req \in Nat /\ p.rej \in Nat /\ q.req \in Nat /\ q.rej \in Nat
    BY <1>3, <1>5 DEF PolicyOK
  <2>3. ASSUME NEW field \in CounterFields
        PROVE  Sum(policy_list', field) = Sum(policy_list, field) + (p[field] - q[field])
    BY <2>1, <2>2, SumReplaced
  <2>4. /\ Sum(policy_list', "req") = Sum(policy_list, "req") + (p.req - q.req)
        /\ Sum(policy_list', "rej") = Sum(policy_list, "rej") + (p.rej - q.rej)
        /\ Sum(policy_list, "req") \in Nat /\ Sum(policy_list, "rej") \in Nat
    BY <2>1, <2>3, SumNatural DEF CounterFields
  <2>5. /\ Total("req")' = Total("req") /\ Total("req") \in Nat
        /\ Total("rej")' = Total("rej") + 1 /\ Total("rej") \in Nat
    BY <1>4, <2>2, <2>4, TotalIsSum DEF Total, Sum, Column, Active
  <2> QED
    BY <1>1, <1>10, <2>5, ProtectorAssumption DEF ProtectorInv, TotalsOK
<1> QED
  BY <1>7, <1>9, <1>11 DEF ProtectorInv

(* ... and the total: the mutex is released.                               *)
LEMMA ConcludeOK ==
    ASSUME ProtectorInv, NEW t \in Listeners, Conclude(t)
    PROVE  ProtectorInv'
<1> PICK d : d = deciding[t]
  OBVIOUS
<1>1. /\ m_access = t /\ d # Nobody /\ m_access' = Nobody
      /\ d.accept \/ d.counted
      /\ net_rejects' = IF d.accept THEN net_rejects ELSE net_rejects + 1
      /\ UNCHANGED <<policy_list, net_requests>>
      /\ deciding' = [deciding EXCEPT ![t] = Nobody]
  BY DEF Conclude, TotalRejects
<1>2. d \in Decisions /\ Pending(d)
  BY <1>1 DEF ProtectorInv, DecidingOK
<1>3. DecidingOK'
  <2>1. \A s \in Listeners : deciding'[s] = Nobody
    BY <1>1, ProtectorAssumption DEF ProtectorInv, DecidingOK
  <2>2. deciding' \in [Listeners -> Decisions \cup {Nobody}]
    BY <1>1 DEF ProtectorInv, DecidingOK
  <2> QED
    BY <1>1, <2>1, <2>2 DEF DecidingOK
<1>4. PoliciesOK' /\ Total("req")' = Total("req") /\ Total("rej")' = Total("rej")
  BY <1>1 DEF ProtectorInv, PoliciesOK, Total, Active
<1>5. Total("req") \in Nat /\ Total("rej") \in Nat
  BY SumNatural, InvList, TotalIsSum DEF CounterFields, ProtectorInv
<1>6. Uncounted = (IF d.counted THEN 1 ELSE 0) /\ Uncounted' = 0
  <2>1. Uncounted = IF d.counted THEN 1 ELSE 0
    BY <1>1, UncountedIs DEF ProtectorInv
  <2>2. \A s \in Listeners : deciding'[s] = Nobody
    BY <1>1, ProtectorAssumption DEF ProtectorInv, DecidingOK
  <2> QED
    BY <2>1, <2>2 DEF Uncounted
<1>7. TotalsOK'
  <2>1. CASE d.accept
    <3>1. Uncounted = 0 /\ net_rejects' = net_rejects
      BY <1>1, <1>2, <1>6, <2>1 DEF Pending
    <3> QED
      BY <1>1, <1>4, <1>5, <1>6, <3>1, ProtectorAssumption DEF ProtectorInv, TotalsOK
  <2>2. CASE ~d.accept
    <3>1. Uncounted = 1 /\ net_rejects' = net_rejects + 1 /\ net_rejects < net_requests
      BY <1>1, <1>2, <1>6, <2>2 DEF Pending
    <3> QED
      BY <1>1, <1>4, <1>5, <1>6, <3>1, ProtectorAssumption DEF ProtectorInv, TotalsOK
  <2> QED
    BY <2>1, <2>2
<1> QED
  BY <1>3, <1>4, <1>7 DEF ProtectorInv

(* configure, which resizes the window and keeps the counters.             *)
LEMMA ConfigureOK ==
    ASSUME ProtectorInv, NEW p \in Params, NEW id, NEW ok, Configure(p, id, ok)
    PROVE  ProtectorInv'
<1>1. /\ m_access = Nobody
      /\ UNCHANGED <<net_requests, net_rejects, m_access, deciding>>
  BY DEF Configure, Control, Free
<1>2. CASE ~ok
  <2>1. policy_list' = policy_list
    BY <1>2 DEF Configure
  <2>2. PoliciesOK' /\ Total("req")' = Total("req") /\ Total("rej")' = Total("rej")
    BY <2>1 DEF ProtectorInv, PoliciesOK, Total, Active
  <2> QED
    BY <1>1, <2>2, OnlyPolicies, TotalNatural DEF ProtectorInv, CounterFields
<1>3. CASE ok
  <2> PICK q : q = policy_list[id]
    OBVIOUS
  <2> PICK w : w = Resized(q.window, p.window_size)
    OBVIOUS
  <2> PICK r : r = [q EXCEPT !.params = p, !.window = w]
    OBVIOUS
  <2>1. /\ id \in Active /\ LegalSize(p.window_size) /\ p.window_size \in Int
        /\ PolicyOK(q) /\ id \in Classes
    BY <1>3, ProtectorAssumption DEF Configure, ProtectorInv, PoliciesOK
  <2>2. WindowOK(w) /\ w.net_events = 0
    BY <2>1, ResizedOK DEF PolicyOK
  <2>3. PolicyShape(r) /\ r.params = p /\ r.window = w /\ r.req = q.req /\ r.rej = q.rej
    BY <2>1 DEF PolicyOK, PolicyShape
  <2>4. PolicyOK(r)
    BY <2>1, <2>2, <2>3 DEF PolicyOK, AllParams
  <2>5. policy_list' = With(id, r)
    <3>1. policy_list' = [policy_list EXCEPT ![id].params = p,
                                ![id].window = Resized(@, p.window_size)]
      BY <1>3 DEF Configure
    <3>2. policy_list' = [policy_list EXCEPT ![id] = r]
      BY <3>1, <2>1
    <3> QED
      BY <2>1, <3>2 DEF With, ProtectorInv, PoliciesOK, Active
  <2>6. /\ PoliciesOK' /\ Active' = Active \cup {id}
        /\ \A k \in Active' : policy_list'[k] = IF k = id THEN r ELSE policy_list[k]
    BY <2>1, <2>4, <2>5, WithOK DEF ProtectorInv
  <2>7. ASSUME NEW field \in CounterFields PROVE Total(field)' = Total(field)
    <3>1. Active' = Active
      BY <2>1, <2>6
    <3>2. \A k \in Active : policy_list'[k][field] = policy_list[k][field]
      BY <2>3, <2>6, <3>1 DEF CounterFields
    <3> QED
      BY <2>6, <3>1, <3>2, TotalKept DEF ProtectorInv
  <2>8. /\ Total("req")' = Total("req") /\ Total("rej")' = Total("rej")
        /\ Total("req") \in Nat /\ Total("rej") \in Nat
    BY <2>7, TotalNatural DEF CounterFields, ProtectorInv
  <2> QED
    BY <1>1, <2>6, <2>8, OnlyPolicies
<1> QED
  BY <1>2, <1>3

(* add_policy, for a class there is or not.                                *)
LEMMA AddPolicyOK ==
    ASSUME ProtectorInv, NEW p \in Params, NEW id \in Classes, NEW ok, AddPolicy(p, id, ok)
    PROVE  ProtectorInv'
<1>1. /\ m_access = Nobody
      /\ UNCHANGED <<net_requests, net_rejects, m_access, deciding>>
  BY DEF AddPolicy, Control, Free
<1>2. CASE ~ok
  <2>1. policy_list' = policy_list
    BY <1>2 DEF AddPolicy
  <2>2. PoliciesOK' /\ Total("req")' = Total("req") /\ Total("rej")' = Total("rej")
    BY <2>1 DEF ProtectorInv, PoliciesOK, Total, Active
  <2> QED
    BY <1>1, <2>2, OnlyPolicies, TotalNatural DEF ProtectorInv, CounterFields
<1>3. CASE ok
  <2> PICK q : q = NewPolicy(p)
    OBVIOUS
  <2>1. id \notin Active /\ PolicyOK(q) /\ q.req = 0 /\ q.rej = 0
        /\ policy_list' = With(id, q)
    BY <1>3, NewPolicyOK DEF AddPolicy, AllParams
  <2>2. PoliciesOK'
    BY <2>1, WithOK DEF ProtectorInv
  <2>3. ListOK(policy_list) /\ id \notin DOMAIN policy_list
        /\ policy_list' = Put(policy_list, id, q)
    BY <2>1, InvList DEF ProtectorInv, With, Put, Active
  <2>4. ASSUME NEW field \in CounterFields
        PROVE  Sum(policy_list', field) = Sum(policy_list, field) + q[field]
    BY <2>1, <2>3, SumAdded
  <2>5. /\ Sum(policy_list', "req") = Sum(policy_list, "req") + q.req
        /\ Sum(policy_list', "rej") = Sum(policy_list, "rej") + q.rej
        /\ Sum(policy_list, "req") \in Nat /\ Sum(policy_list, "rej") \in Nat
    BY <2>3, <2>4, SumNatural DEF CounterFields
  <2>6. /\ Total("req")' = Total("req") /\ Total("req") \in Nat
        /\ Total("rej")' = Total("rej") /\ Total("rej") \in Nat
    BY <2>1, <2>5, TotalIsSum DEF Total, Sum, Column, Active
  <2> QED
    BY <1>1, <2>2, <2>6, OnlyPolicies
<1> QED
  BY <1>2, <1>3

(* delete_policy: the totals keep what the policy counted.                 *)
LEMMA DeletePolicyOK ==
    ASSUME ProtectorInv, NEW id, NEW ok, DeletePolicy(id, ok)
    PROVE  ProtectorInv'
<1>1. /\ m_access = Nobody
      /\ UNCHANGED <<net_requests, net_rejects, m_access, deciding>>
      /\ policy_list' = [k \in Active \ {id} |-> policy_list[k]]
  BY DEF DeletePolicy, Control, Free, Without
<1>2. Active' = Active \ {id} /\ IsFiniteSet(Active')
      /\ \A k \in Active' : policy_list'[k] = policy_list[k]
  BY <1>1, FS_RemoveElement DEF ProtectorInv, PoliciesOK, Active
<1>3. PoliciesOK'
  BY <1>1, <1>2 DEF ProtectorInv, PoliciesOK
<1>4. ListOK(policy_list) /\ policy_list' = [k \in DOMAIN policy_list \ {id} |-> policy_list[k]]
  BY <1>1, InvList DEF ProtectorInv, Active
<1>5. ASSUME NEW field \in CounterFields
      PROVE  Sum(policy_list', field) <= Sum(policy_list, field)
             /\ Sum(policy_list', field) \in Nat
  BY <1>4, SumWithout, SumNatural
<1>6. /\ Total("req")' <= Total("req") /\ Total("rej")' <= Total("rej")
      /\ Total("req")' \in Nat /\ Total("rej")' \in Nat
  BY <1>5, TotalIsSum DEF CounterFields, Total, Sum, Column, Active
<1> QED
  BY <1>1, <1>3, <1>6, OnlyPolicies

(* Time passes in all windows.                                             *)
LEMMA TickWindowsOK ==
    ASSUME ProtectorInv, TickWindows
    PROVE  ProtectorInv'
<1>1. /\ UNCHANGED <<net_requests, net_rejects, m_access, deciding>>
      /\ policy_list' = [id \in Active |->
                           [policy_list[id] EXCEPT !.window = Ticked(@)]]
  BY DEF TickWindows
<1>2. ASSUME NEW id \in Active
      PROVE  /\ PolicyOK(policy_list'[id])
             /\ policy_list'[id].params = policy_list[id].params
             /\ policy_list'[id].window.net_events = policy_list[id].window.net_events
             /\ policy_list'[id].req = policy_list[id].req
             /\ policy_list'[id].rej = policy_list[id].rej
  <2> PICK q : q = policy_list[id]
    OBVIOUS
  <2> PICK w : w = Ticked(q.window)
    OBVIOUS
  <2> PICK r : r = [q EXCEPT !.window = w]
    OBVIOUS
  <2>1. PolicyOK(q) /\ policy_list'[id] = r
    BY <1>1 DEF ProtectorInv, PoliciesOK
  <2>2. WindowOK(w) /\ w.net_events = q.window.net_events
    BY <2>1, TickedOK DEF PolicyOK
  <2>3. PolicyShape(r) /\ r.params = q.params /\ r.window = w /\ r.req = q.req /\ r.rej = q.rej
    BY <2>1 DEF PolicyOK, PolicyShape
  <2> QED
    BY <2>1, <2>2, <2>3 DEF PolicyOK
<1>3. Active' = Active
  BY <1>1 DEF Active
<1>4. PoliciesOK'
  BY <1>1, <1>2, <1>3 DEF ProtectorInv, PoliciesOK
<1>5. ASSUME NEW field \in CounterFields PROVE Total(field)' = Total(field)
  BY <1>2, <1>3, <1>4, TotalKept DEF ProtectorInv, CounterFields
<1>6. /\ Total("req")' = Total("req") /\ Total("rej")' = Total("rej")
      /\ Total("req") \in Nat /\ Total("rej") \in Nat
  BY <1>5, TotalNatural DEF CounterFields, ProtectorInv
<1> QED
  BY <1>1, <1>2, <1>3, <1>4, <1>6, OnlyPolicies

(* clear() forgets policies and totals together.                           *)
LEMMA ClearPoliciesOK ==
    ASSUME ProtectorInv, ClearPolicies
    PROVE  ProtectorInv'
<1>1. /\ m_access = Nobody /\ UNCHANGED <<m_access, deciding>>
      /\ net_requests' = 0 /\ net_rejects' = 0
      /\ policy_list' = [id \in Active |->
                           [policy_list[id] EXCEPT
                              !.window = Resized(@, @.size), !.req = 0, !.rej = 0]]
  BY DEF ClearPolicies
<1>2. ASSUME NEW id \in Active
      PROVE  /\ PolicyOK(policy_list'[id])
             /\ policy_list'[id].req = 0 /\ policy_list'[id].rej = 0
  <2> PICK q : q = policy_list[id]
    OBVIOUS
  <2> PICK w : w = Resized(q.window, q.window.size)
    OBVIOUS
  <2> PICK r : r = [q EXCEPT !.window = w, !.req = 0, !.rej = 0]
    OBVIOUS
  <2>1. PolicyOK(q) /\ policy_list'[id] = r
    BY <1>1 DEF ProtectorInv, PoliciesOK
  <2>2. WindowOK(w) /\ w.net_events = 0
    <3>1. WindowOK(q.window)
      BY <2>1 DEF PolicyOK
    <3>2. q.window.size \in Int /\ LegalSize(q.window.size)
      BY <3>1 DEF WindowOK
    <3> QED
      BY <3>1, <3>2, ResizedOK
  <2>3. PolicyShape(r) /\ r.params = q.params /\ r.window = w /\ r.req = 0 /\ r.rej = 0
    BY <2>1 DEF PolicyOK, PolicyShape
  <2> QED
    BY <2>1, <2>2, <2>3 DEF PolicyOK
<1>3. Active' = Active
  BY <1>1 DEF Active
<1>4. PoliciesOK'
  BY <1>1, <1>2, <1>3 DEF ProtectorInv, PoliciesOK
<1>5. ASSUME NEW field \in CounterFields PROVE Total(field)' = 0
  <2>1. IsFiniteSet(DOMAIN policy_list')
        /\ \A id \in DOMAIN policy_list' : Column(policy_list', field)[id] = 0
    BY <1>2, <1>3, <1>4 DEF PoliciesOK, Column, CounterFields, Active
  <2>2. Sum(policy_list', field) = 0
    BY <2>1, SumZero DEF Sum
  <2> QED
    BY <2>2, TotalIsSum DEF Total, Sum, Column, Active
<1>6. \A t \in Listeners : deciding[t] = Nobody
  BY <1>1, ProtectorAssumption DEF ProtectorInv, DecidingOK
<1>7. DecidingOK'
  BY <1>1, <1>6 DEF ProtectorInv, DecidingOK
<1>8. TotalsOK'
  <2>1. Total("req")' = 0 /\ Total("rej")' = 0
    BY <1>5 DEF CounterFields
  <2>2. 0 \in 0..MaxRequests /\ 0 \in 0..0 /\ 0 <= 0 /\ 0 <= 0 + 0
    BY ProtectorAssumption
  <2>3. Uncounted' = 0
    BY <1>1, <1>6 DEF Uncounted
  <2> QED
    BY <1>1, <2>1, <2>2, <2>3 DEF TotalsOK
<1> QED
  BY <1>4, <1>7, <1>8 DEF ProtectorInv

-----------------------------------------------------------------------------
(* The specification, and what follows from its invariant.                 *)

LEMMA ProtectorStep == ProtectorInv /\ [ProtectorNext]_protectorVars => ProtectorInv'
<1> SUFFICES ASSUME ProtectorInv, [ProtectorNext]_protectorVars PROVE ProtectorInv'
  OBVIOUS
<1>1. ASSUME NEW t \in Listeners, NEW s \in Profiles, Decide(t, s) PROVE ProtectorInv'
  BY <1>1, DecideOK
<1>2. ASSUME NEW t \in Listeners, CountRejection(t) \/ Conclude(t) PROVE ProtectorInv'
  BY <1>2, CountRejectionOK, ConcludeOK
<1>3. ASSUME NEW p \in Params, NEW id \in Classes, NEW ok \in BOOLEAN, Configure(p, id, ok)
      PROVE  ProtectorInv'
  BY <1>3, ConfigureOK
<1>4. ASSUME NEW p \in Params, NEW id \in Classes, NEW ok \in BOOLEAN, AddPolicy(p, id, ok)
      PROVE  ProtectorInv'
  BY <1>4, AddPolicyOK
<1>5. ASSUME NEW id \in Classes, NEW ok \in BOOLEAN, DeletePolicy(id, ok)
      PROVE  ProtectorInv'
  BY <1>5, DeletePolicyOK
<1>6. CASE ClearPolicies
  BY <1>6, ClearPoliciesOK
<1>7. CASE TickWindows
  BY <1>7, TickWindowsOK
<1>8. CASE UNCHANGED protectorVars
  BY <1>8 DEF protectorVars, ProtectorInv, PoliciesOK, TotalsOK, DecidingOK, Pending,
              Exceeded, Total, Active, Uncounted
<1> QED
  BY <1>1, <1>2, <1>3, <1>4, <1>5, <1>6, <1>7, <1>8 DEF ProtectorNext

(* Types, for any window sizes: the slots of every window, its indices and *)
(* its sum stay in the ranges of their C++ arrays and counters.            *)
LEMMA InvTypes == ProtectorInv => ProtectorTypeOK
<1> SUFFICES ASSUME ProtectorInv PROVE ProtectorTypeOK
  OBVIOUS
<1>1. ASSUME NEW id \in Active PROVE policy_list[id] \in Policies
  <2> PICK p : p = policy_list[id]
    OBVIOUS
  <2> PICK w : w = p.window
    OBVIOUS
  <2> PICK n : n = w.size
    OBVIOUS
  <2>1. PolicyOK(p) /\ WindowOK(w)
    BY DEF ProtectorInv, PoliciesOK, PolicyOK
  <2>2. p.req <= MaxRequests
    <3>1. p.req <= Sum(policy_list, "req")
      BY SumBound, InvList DEF ProtectorInv, Active, CounterFields
    <3>2. Sum(policy_list, "req") \in Nat /\ Sum(policy_list, "req") <= net_requests
      BY TotalNatural, TotalIsSum DEF ProtectorInv, TotalsOK, CounterFields
    <3> QED
      BY <2>1, <3>1, <3>2, ProtectorAssumption DEF ProtectorInv, TotalsOK, PolicyOK
  <2>3. /\ p.req \in 0..MaxRequests /\ p.rej \in 0..MaxRequests
        /\ w.net_events \in 0..MaxRequests
    BY <2>1, <2>2, ProtectorAssumption, WindowFacts DEF PolicyOK
  <2>4. n \in MIN_WINDOW_SIZE..MAX_WINDOW_SIZE /\ n \in Nat \ {0}
    BY <2>1, WindowAssumption DEF WindowOK, LegalSize
  <2>5. w.slot \in [0..(n - 1) -> 0..MaxRequests]
    <3>1. w.slot \in [0..(n - 1) -> Nat]
      BY <2>1 DEF WindowOK, Slots
    <3>2. \A i \in 0..(n - 1) : w.slot[i] <= w.net_events
      BY <2>1, WindowFacts DEF Slots
    <3>3. \A i \in 0..(n - 1) : w.slot[i] \in 0..MaxRequests
      <4> SUFFICES ASSUME NEW i \in 0..(n - 1) PROVE w.slot[i] \in 0..MaxRequests
        OBVIOUS
      <4>1. w.slot[i] \in Nat /\ w.slot[i] <= w.net_events
        BY <3>1, <3>2
      <4> QED
        BY <2>3, <4>1, ProtectorAssumption
    <3> QED
      BY <3>1, <3>3
  <2>6. w.head \in 0..(MAX_WINDOW_SIZE - 1) /\ w.tail \in 0..(MAX_WINDOW_SIZE - 1)
    <3>1. w.head \in 0..(n - 1) /\ w.tail \in 0..(n - 1)
      BY <2>1, WindowFacts DEF WindowOK, Slots
    <3> QED
      BY <2>4, <3>1, WindowAssumption
  <2>7. w.edge_age \in 0..(MAX_WINDOW_SIZE * Second)
    <3>1. w.edge_age \in 0..(n * Second)
      BY <2>1 DEF WindowOK
    <3>2. n * Second <= MAX_WINDOW_SIZE * Second /\ n * Second \in Nat
          /\ MAX_WINDOW_SIZE * Second \in Nat
      BY <2>4, WindowAssumption
    <3> QED
      BY <3>1, <3>2
  <2>8. WindowShape(w) /\ PolicyShape(p) /\ p.params \in AllParams
    BY <2>1 DEF WindowOK, PolicyOK
  <2> QED
    BY <2>3, <2>4, <2>5, <2>6, <2>7, <2>8 DEF Policies, WindowShape, PolicyShape, AllParams
<1> QED
  BY <1>1, ProtectorAssumption DEF ProtectorInv, PoliciesOK, TotalsOK, DecidingOK,
     ProtectorTypeOK

(* The counters' agreement, as the runs check it.                          *)
LEMMA InvCounters == ProtectorInv => CountersAgree
<1> SUFFICES ASSUME ProtectorInv PROVE CountersAgree
  OBVIOUS
<1>1. /\ m_access = Nobody => Uncounted = 0
      /\ Uncounted \in 0..1
  BY UncountedIs DEF ProtectorInv
<1>2. Uncounted = 1 => net_rejects < net_requests
  BY DEF ProtectorInv, DecidingOK, Pending, Uncounted
<1>3. net_rejects + Uncounted <= net_requests
  BY <1>1, <1>2, ProtectorAssumption DEF ProtectorInv, TotalsOK
<1>4. \A id \in Active : policy_list[id].rej <= policy_list[id].req
                        /\ policy_list[id].window.net_events <= policy_list[id].req
  BY DEF ProtectorInv, PoliciesOK, PolicyOK
<1>5. Total("req") <= net_requests /\ Total("rej") <= net_rejects + Uncounted
  BY DEF ProtectorInv, TotalsOK
<1> QED
  BY <1>1, <1>3, <1>4, <1>5 DEF CountersAgree

(* The standing of a decision, as the runs check it.                       *)
LEMMA InvDecision == ProtectorInv => DecisionStands
BY DEF ProtectorInv, DecidingOK, Pending, Exceeded, DecisionStands

(* The inductive invariant holds in every behaviour of the protector, for  *)
(* any listeners, classes and parameters.                                  *)
THEOREM ProtectorInvariant == ProtectorSpec => []ProtectorInv
BY InitOK, ProtectorStep, PTL DEF ProtectorSpec

(* The types of the protector's state.                                     *)
THEOREM ProtectorTyping == ProtectorSpec => []ProtectorTypeOK
BY ProtectorInvariant, InvTypes, PTL

(* The counters of the policies and the totals agree, up to the one        *)
(* rejection that is being counted, for any number of policies and         *)
(* requests and any sequence of control calls.                             *)
THEOREM CountersAgreeAlways == ProtectorSpec => []CountersAgree
BY ProtectorInvariant, InvCounters, PTL

(* Until a verdict is counted, its policy is in the map and still calls    *)
(* for it.                                                                 *)
THEOREM DecisionStandsAlways == ProtectorSpec => []DecisionStands
BY ProtectorInvariant, InvDecision, PTL
=============================================================================
