------------------------ MODULE AdmissionPolicyProofs ------------------------
(***************************************************************************)
(* The policy wrapper around the protector, for any number of listeners,   *)
(* policy instances, messages and reports.  What concerns counters,        *)
(* reports and the default policy holds for any number of policy threads;  *)
(* the agreement of the two maps, and the replies, only with one: the      *)
(* wrapper has no lock.                                                    *)
(***************************************************************************)
EXTENDS AdmissionPolicy, NetworkProtectorProofs

-----------------------------------------------------------------------------
(* The inductive invariant: types.                                         *)

Replies == [instance : Instances \cup {NoClass}, status : Statuses]

WrapperOK ==
    /\ policy_table \in [Instances -> Classes \cup {NoClass}]
    /\ notify \in Replies
    /\ stage \in [Listeners -> Stages]
    /\ request \in [Listeners -> Messages \cup {NoMessage}]
    /\ found \in [Listeners -> Classes \cup {NoClass}]
    /\ reply \in [Listeners -> Replies]
    /\ \A t \in Listeners : stage[t] \notin {"idle"} => request[t] \in Messages

MetricsRecords ==
    [stage : MetricStages, cursor : Instances \cup {0}, id : Classes \cup {Totals},
     requests : Int, request_count : Int, deleted : BOOLEAN]
Reports == [calls : Int, requests : Int, accepts : Int, deleted : SUBSET Classes]

MetricsOK ==
    /\ metrics \in MetricsRecords
    /\ DOMAIN counters \subseteq Classes \cup {Totals}
    /\ \A id \in DOMAIN counters : counters[id] \in [requests : Int, rejects : Int]
    /\ reported \in Reports

TypeInv == ProtectorInv /\ WrapperOK /\ MetricsOK

-----------------------------------------------------------------------------
(* The objects as they are constructed.                                    *)
LEMMA InitTypes == Init => TypeInv
<1> SUFFICES ASSUME Init PROVE TypeInv
  OBVIOUS
<1>1. ProtectorInv
  BY InitOK DEF Init
<1>2. WrapperOK
  BY DEF Init, WrapperOK, Replies, NoReply, Statuses, Stages
<1>3. MetricsOK
  <2>1. metrics \in MetricsRecords /\ reported \in Reports
    BY DEF Init, MetricsRecords, Reports, MetricStages, Totals
  <2>2. DOMAIN counters = {}
    BY DEF Init
  <2> QED
    BY <2>1, <2>2 DEF MetricsOK
<1> QED
  BY <1>1, <1>2, <1>3 DEF TypeInv

(* setPolicy.                                                              *)
LEMMA WrapperTypes ==
    ASSUME TypeInv, NEW t \in PolicyThreads,
           \/ \E m \in Messages : Accept(t, m)
           \/ Reject(t) \/ SetPolicyStep(t)
    PROVE  WrapperOK'
<1> t \in Listeners
  BY AdmissionAssumption
<1> USE DEF TypeInv, WrapperOK
<1>1. ASSUME NEW m \in Messages, Accept(t, m) PROVE WrapperOK'
  BY <1>1, AdmissionAssumption DEF Accept, Replies, Goto, Stages
<1>2. CASE Reject(t)
  BY <1>2 DEF Reject, Replies, Statuses
<1>3. CASE Find(t)
  <2>1. request[t].instance \in Instances
    BY <1>3, AdmissionAssumption DEF Find, ClassOf
  <2>2. found' = [found EXCEPT ![t] = policy_table[request[t].instance]]
        /\ UNCHANGED <<policy_table, notify, request>>
    BY <1>3 DEF Find, ClassOf
  <2>3. found' \in [Listeners -> Classes \cup {NoClass}]
    BY <2>1, <2>2
  <2>4. /\ Goto(t, "answer") \/ Goto(t, "apply")
        /\ UNCHANGED reply \/ \E ok \in BOOLEAN : Outcome(t, ok)
        /\ stage[t] = "find"
    BY <1>3 DEF Find, ClassOf
  <2>5. reply' \in [Listeners -> Replies]
    BY <2>4 DEF Replies, Statuses, Outcome
  <2>6. stage' \in [Listeners -> Stages]
        /\ \A u \in Listeners : stage'[u] \notin {"idle"} => stage[u] \notin {"idle"}
    BY <2>4 DEF Goto, Stages
  <2> QED
    BY <2>2, <2>3, <2>5, <2>6
<1>4. CASE Apply(t)
  <2>1. PICK ok : Outcome(t, ok) /\ Goto(t, IF ok /\ request[t].op # "UPDATE" THEN "record" ELSE "answer")
    BY <1>4 DEF Apply
  <2>2. UNCHANGED <<policy_table, notify, request, found>>
    BY <1>4 DEF Apply
  <2> QED
    BY <1>4, <2>1, <2>2 DEF Apply, Replies, Statuses, Outcome, Goto, Stages
<1>5. CASE Record(t)
  BY <1>5, AdmissionAssumption DEF Record, Goto, Stages, ErasedEntry
<1>6. CASE Answer(t)
  BY <1>6 DEF Answer, Replies, Goto, Stages
<1>7. CASE Replied(t)
  BY <1>7 DEF Replied, Replies, NoReply, Statuses, Goto, Stages
<1> QED
  BY <1>1, <1>2, <1>3, <1>4, <1>5, <1>6, <1>7 DEF SetPolicyStep

(* The scan leads to the end of the table or to an instance in it.         *)
LEMMA NextListed ==
    ASSUME TypeInv, NEW i \in Instances, i \in NextKeys(metrics.cursor, Listed \cup {0})
    PROVE  i \in Listed /\ policy_table[i] \in Classes
<1>1. i \in Nat /\ i # 0
  BY AdmissionAssumption
<1>2. i \in Listed
  BY <1>1 DEF NextKeys
<1> QED
  BY <1>2 DEF Listed, TypeInv, WrapperOK

(* What getMetrics reads is a number: a policy's counter, a total, or -1.  *)
LEMMA CounterTypes ==
    ASSUME TypeInv, NEW id
    PROVE  /\ CounterOf(id, net_requests, "req") \in Int
           /\ CounterOf(id, net_rejects, "rej") \in Int
           /\ id \in Classes \cup {Totals} => Previous(id) \in [requests : Int, rejects : Int]
<1>1. net_requests \in Int /\ net_rejects \in Int
  BY ProtectorAssumption DEF TypeInv, ProtectorInv, TotalsOK
<1>2. \A k \in Active : policy_list[k].req \in Int /\ policy_list[k].rej \in Int
  BY DEF TypeInv, ProtectorInv, PoliciesOK, PolicyOK
<1>3. Previous(id) \in [requests : Int, rejects : Int]
  BY DEF TypeInv, MetricsOK, Previous, NoBase
<1> QED
  BY <1>1, <1>2, <1>3 DEF CounterOf

(* getMetrics keeps numbers in its locals and in the map of the last       *)
(* report.                                                                 *)
LEMMA MetricsTypes ==
    ASSUME TypeInv, MetricsStep
    PROVE  MetricsOK'
<1> USE DEF TypeInv, MetricsOK
<1>1. Totals \in Classes \cup {Totals} /\ 0 \in Instances \cup {0}
  OBVIOUS
<1> Returned \in MetricsRecords
  <2> PICK zero \in Int : zero = 0
    OBVIOUS
  <2> PICK no \in BOOLEAN : no = FALSE
    OBVIOUS
  <2>1. [metrics EXCEPT !.requests = zero, !.request_count = zero, !.deleted = no]
          \in MetricsRecords
    BY DEF MetricsRecords
  <2> QED
    BY <2>1 DEF Returned
<1>2. CASE BeginMetrics
  BY <1>2 DEF BeginMetrics, MetricsRecords, Reports, MetricStages
<1>3. CASE ScanTotals
  <2>1. metrics' = [Returned EXCEPT !.stage = "requests", !.id = Totals]
        /\ UNCHANGED <<counters, reported>>
    BY <1>3 DEF ScanTotals
  <2>2. metrics' \in MetricsRecords
    BY <1>1, <2>1 DEF MetricsRecords, MetricStages
  <2> QED
    BY <2>1, <2>2
<1>4. ASSUME NEW i \in Instances, ScanPolicy(i) PROVE MetricsOK'
  <2>1. policy_table[i] \in Classes
    BY <1>4, NextListed DEF ScanPolicy
  <2> QED
    <3>1. metrics' = [Returned EXCEPT !.stage = "requests", !.cursor = i,
                                      !.id = policy_table[i]]
          /\ UNCHANGED <<counters, reported>>
      BY <1>4 DEF ScanPolicy
    <3>2. metrics' \in MetricsRecords
      BY <2>1, <3>1 DEF MetricsRecords, MetricStages
    <3> QED
      BY <3>1, <3>2
<1>5. CASE ReadRequests
  <2> PICK c : c = CounterOf(metrics.id, net_requests, "req")
    OBVIOUS
  <2> PICK b : b = (metrics.id \in reported.deleted)
    OBVIOUS
  <2>1. c \in Int /\ b \in BOOLEAN
    BY CounterTypes
  <2>2. metrics' = [metrics EXCEPT !.stage = "rejects", !.requests = c, !.deleted = b]
        /\ reported' = [reported EXCEPT !.deleted = @ \ (Active \cap {metrics.id})]
        /\ UNCHANGED counters
    BY <1>5 DEF ReadRequests
  <2>3. metrics' \in MetricsRecords
    BY <2>1, <2>2 DEF MetricsRecords, MetricStages
  <2>4. reported' \in Reports
    BY <2>2 DEF Reports
  <2> QED
    BY <2>2, <2>3, <2>4
<1>6. CASE ProcessCounters
  <2> PICK id : id = metrics.id
    OBVIOUS
  <2> PICK rejects : rejects = CounterOf(id, net_rejects, "rej")
    OBVIOUS
  <2> PICK rc : rc = metrics.requests - Previous(id).requests
    OBVIOUS
  <2> PICK ac : ac = rc - (rejects - Previous(id).rejects)
    OBVIOUS
  <2>1. id \in Classes \cup {Totals} /\ rejects \in Int /\ metrics.requests \in Int
        /\ Previous(id) \in [requests : Int, rejects : Int]
    BY CounterTypes DEF MetricsRecords
  <2>2. rc \in Int /\ ac \in Int
    BY <2>1
  <2>3. /\ metrics' = [metrics EXCEPT !.stage = IF id = Totals THEN "expire" ELSE "scan",
                                      !.request_count = rc]
        /\ counters' = [k \in DOMAIN counters \cup {id} |->
                          IF k = id THEN Base(id, metrics.requests, rejects)
                          ELSE counters[k]]
        /\ reported' = IF id = Totals
                       THEN [reported EXCEPT !.requests = @ + rc, !.accepts = @ + ac]
                       ELSE reported
    BY <1>6 DEF ProcessCounters
  <2>4. metrics' \in MetricsRecords
    BY <2>2, <2>3 DEF MetricsRecords, MetricStages
  <2>5. reported' \in Reports
    <3> PICK x : x = reported.requests + rc
      OBVIOUS
    <3> PICK y : y = reported.accepts + ac
      OBVIOUS
    <3>0. x \in Int /\ y \in Int
      BY <2>2 DEF Reports
    <3>1. [reported EXCEPT !.requests = x, !.accepts = y] \in Reports
      BY <3>0 DEF Reports
    <3> QED
      BY <2>3, <3>1
  <2>6. DOMAIN counters' \subseteq Classes \cup {Totals}
    BY <2>1, <2>3
  <2>7. ASSUME NEW k \in DOMAIN counters' PROVE counters'[k] \in [requests : Int, rejects : Int]
    BY <2>1, <2>3 DEF Base
  <2> QED
    BY <2>4, <2>5, <2>6, <2>7
<1>7. ASSUME NEW id \in DOMAIN counters, Expire(id) PROVE MetricsOK'
  <2>1. metrics' = [Returned EXCEPT !.id = id] /\ UNCHANGED reported
        /\ DOMAIN counters' \subseteq DOMAIN counters
        /\ \A k \in DOMAIN counters' : counters'[k] = counters[k]
    BY <1>7 DEF Expire
  <2>2. metrics' \in MetricsRecords
    BY <2>1 DEF MetricsRecords
  <2> QED
    BY <2>1, <2>2
<1>8. CASE EndMetrics
  <2>1. metrics' = [Returned EXCEPT !.stage = "sleep", !.cursor = 0, !.id = Totals]
        /\ UNCHANGED <<counters, reported>>
    BY <1>8 DEF EndMetrics
  <2>2. metrics' \in MetricsRecords
    BY <1>1, <2>1 DEF MetricsRecords, MetricStages
  <2> QED
    BY <2>1, <2>2
<1> QED
  BY <1>2, <1>3, <1>4, <1>5, <1>6, <1>7, <1>8 DEF MetricsStep

-----------------------------------------------------------------------------
(* What each kind of step leaves alone, and what it does to the counters.  *)

(* No policy disappears and no counter goes down.                          *)
Grows ==
    /\ Active \subseteq Active'
    /\ \A id \in Active : policy_list'[id].req >= policy_list[id].req
    /\ net_requests' >= net_requests
    /\ net_rejects' >= net_rejects

(* Where the protector is left alone, its counters are not turned back.    *)
LEMMA SameGrows == TypeInv /\ UNCHANGED protectorVars => Grows
<1> SUFFICES ASSUME TypeInv, UNCHANGED protectorVars PROVE Grows
  OBVIOUS
<1>1. /\ net_requests \in Int /\ net_rejects \in Int
      /\ \A id \in Active : policy_list[id].req \in Int
  BY ProtectorAssumption DEF TypeInv, ProtectorInv, TotalsOK, PoliciesOK, PolicyOK
<1> QED
  BY <1>1 DEF protectorVars, Grows, Active

(* The counters getMetrics reads are natural numbers.                      *)
LEMMA PolicyNumbers ==
    ASSUME TypeInv
    PROVE  /\ net_requests \in Nat /\ net_rejects \in Nat
           /\ \A id \in Active : policy_list[id].req \in Nat /\ policy_list[id].rej \in Nat
BY ProtectorAssumption DEF TypeInv, ProtectorInv, TotalsOK, PoliciesOK, PolicyOK

(* A request is counted: the totals and its policy go up.                  *)
LEMMA DecideGrows ==
    ASSUME TypeInv, NEW t \in Listeners, NEW s, Decide(t, s)
    PROVE  Grows
<1> PICK id : id = PolicyOf(s)
  OBVIOUS
<1> PICK p : p = Counted(Lookup(id))
  OBVIOUS
<1>1. policy_list' = With(id, p) /\ net_requests' = net_requests + 1
      /\ net_rejects' = net_rejects
  BY DEF Decide
<1>2. id \in Active => p.req = policy_list[id].req + 1
  BY CountedOK DEF Lookup, TypeInv, ProtectorInv, PoliciesOK
<1>3. Active' = Active \cup {id}
      /\ \A k \in Active : policy_list'[k] = IF k = id THEN p ELSE policy_list[k]
  BY <1>1 DEF With, Active
<1> QED
  BY <1>1, <1>2, <1>3, PolicyNumbers DEF Grows

(* Deciding requests only adds to counters, and at most adds the default   *)
(* policy.                                                                 *)
LEMMA TrafficGrows ==
    ASSUME TypeInv, Traffic
    PROVE  Grows
<1>1. ASSUME NEW t \in Listeners, NEW s \in Profiles, Decide(t, s) PROVE Grows
  BY <1>1, DecideGrows
<1>2. ASSUME NEW t \in Listeners, CountRejection(t) PROVE Grows
  <2>1. /\ policy_list' = [policy_list EXCEPT ![deciding[t].policy].rej = @ + 1]
        /\ UNCHANGED <<net_requests, net_rejects>>
    BY <1>2 DEF CountRejection
  <2>2. ASSUME NEW k \in Active PROVE policy_list'[k].req = policy_list[k].req
    <3>1. PolicyShape(policy_list[k])
      BY DEF TypeInv, ProtectorInv, PoliciesOK, PolicyOK
    <3> QED
      BY <2>1, <3>1 DEF PolicyShape, Active
  <2>3. Active' = Active
    BY <2>1 DEF Active
  <2> QED
    BY <2>1, <2>2, <2>3, PolicyNumbers DEF Grows
<1>3. ASSUME NEW t \in Listeners, Conclude(t) PROVE Grows
  <2>1. /\ net_rejects' = IF deciding[t].accept THEN net_rejects ELSE net_rejects + 1
        /\ UNCHANGED <<policy_list, net_requests>>
    BY <1>3 DEF Conclude, TotalRejects
  <2> QED
    BY <2>1, PolicyNumbers DEF Grows, Active
<1>4. ASSUME TickWindows PROVE Grows
  <2>1. Active' = Active /\ UNCHANGED <<net_requests, net_rejects>>
    BY <1>4 DEF TickWindows, Active
  <2>2. ASSUME NEW k \in Active PROVE policy_list'[k].req = policy_list[k].req
    <3>1. PolicyShape(policy_list[k])
      BY DEF TypeInv, ProtectorInv, PoliciesOK, PolicyOK
    <3>2. policy_list'[k] = [policy_list[k] EXCEPT !.window = Ticked(@)]
      BY <1>4 DEF TickWindows
    <3> QED
      BY <3>1, <3>2 DEF PolicyShape
  <2> QED
    BY <2>1, <2>2, PolicyNumbers DEF Grows
<1> QED
  BY <1>1, <1>2, <1>3, <1>4 DEF Traffic

(* add_policy adds its class or leaves the map as it is.                   *)
LEMMA AddGrows ==
    ASSUME TypeInv, NEW p, NEW id, NEW ok, AddPolicy(p, id, ok)
    PROVE  /\ Grows /\ UNCHANGED <<net_requests, net_rejects>>
           /\ ok => id \notin Active /\ Active' = Active \cup {id}
           /\ ~ok => Active' = Active
           /\ \A k \in Active : policy_list'[k] = policy_list[k]
<1>1. /\ UNCHANGED <<net_requests, net_rejects>>
      /\ ok = (id \notin Active /\ LegalParams(p, id) /\ LegalSize(p.window_size))
      /\ policy_list' = IF ok THEN With(id, NewPolicy(p)) ELSE policy_list
  BY DEF AddPolicy, Control
<1>2. ok => id \notin Active
  BY <1>1
<1>3. /\ \A k \in Active : policy_list'[k] = policy_list[k]
      /\ ok => Active' = Active \cup {id}
      /\ ~ok => Active' = Active
  BY <1>1, <1>2 DEF With, Active
<1> QED
  BY <1>1, <1>2, <1>3, PolicyNumbers DEF Grows

(* configure changes neither the classes nor any counter.                  *)
LEMMA ConfigureGrows ==
    ASSUME TypeInv, NEW p, NEW id, NEW ok, Configure(p, id, ok)
    PROVE  /\ Grows /\ UNCHANGED <<net_requests, net_rejects>>
           /\ Active' = Active
           /\ ok => id \in Active
           /\ \A k \in Active : policy_list'[k].req = policy_list[k].req
                                /\ policy_list'[k].rej = policy_list[k].rej
<1>1. /\ UNCHANGED <<net_requests, net_rejects>>
      /\ ok = (LegalParams(p, id) /\ id \in Active /\ LegalSize(p.window_size))
      /\ policy_list' = IF ok THEN [policy_list EXCEPT
                                      ![id].params = p,
                                      ![id].window = Resized(@, p.window_size)]
                        ELSE policy_list
  BY DEF Configure, Control
<1>2. ok => id \in Active
  BY <1>1
<1>3. Active' = Active
  BY <1>1 DEF Active
<1>4. ASSUME NEW k \in Active
      PROVE  policy_list'[k].req = policy_list[k].req /\ policy_list'[k].rej = policy_list[k].rej
  <2>1. PolicyShape(policy_list[k])
    BY DEF TypeInv, ProtectorInv, PoliciesOK, PolicyOK
  <2> QED
    BY <1>1, <2>1 DEF PolicyShape, Active
<1>5. Grows
  <2>1. \A k \in Active : policy_list[k].req \in Nat /\ policy_list'[k].req >= policy_list[k].req
    <3> SUFFICES ASSUME NEW k \in Active
                 PROVE  policy_list[k].req \in Nat /\ policy_list'[k].req >= policy_list[k].req
      OBVIOUS
    <3>1. policy_list[k].req \in Nat
      BY PolicyNumbers
    <3> QED
      BY <1>4, <3>1
  <2>2. net_requests' >= net_requests /\ net_rejects' >= net_rejects
    BY <1>1, PolicyNumbers
  <2> QED
    BY <1>3, <2>1, <2>2 DEF Grows
<1> QED
  BY <1>1, <1>2, <1>3, <1>4, <1>5

(* delete_policy takes one class away, if it is there.                     *)
LEMMA DeleteShrinks ==
    ASSUME NEW id, NEW ok, DeletePolicy(id, ok)
    PROVE  /\ ok <=> id \in Active
           /\ Active' = Active \ {id}
           /\ \A k \in Active' : policy_list'[k] = policy_list[k]
           /\ UNCHANGED <<net_requests, net_rejects>>
BY DEF DeletePolicy, Without, Active, Control

-----------------------------------------------------------------------------
(* The types and the protector's own invariant.                            *)

LEMMA ProtectorKept == TypeInv /\ UNCHANGED protectorVars => ProtectorInv'
BY ProtectorStep DEF TypeInv

(* The call of the protector in setPolicy keeps the protector's invariant  *)
(* ...                                                                     *)
LEMMA ApplyProtector ==
    ASSUME TypeInv, NEW t \in PolicyThreads, Apply(t)
    PROVE  ProtectorInv'
<1>1. request[t] \in Messages
  BY AdmissionAssumption DEF Apply, TypeInv, WrapperOK
<1>2. request[t].class \in Classes /\ request[t].params \in Params
  BY <1>1, AdmissionAssumption
<1>3. PICK ok \in BOOLEAN :
        \/ AddPolicy(request[t].params, request[t].class, ok)
        \/ Configure(request[t].params, request[t].class, ok)
        \/ DeletePolicy(found[t], ok)
  BY DEF Apply
<1> QED
  BY <1>2, <1>3, AddPolicyOK, ConfigureOK, DeletePolicyOK DEF TypeInv

(* ... and what it records of the deleted class is a class.                *)
LEMMA ApplyMetrics ==
    ASSUME TypeInv, NEW t \in PolicyThreads, Apply(t)
    PROVE  MetricsOK'
<1>1. UNCHANGED <<counters, metrics>>
  BY DEF Apply
<1>2. reported' \in Reports
  <2>1. CASE UNCHANGED reported
    BY <2>1 DEF TypeInv, MetricsOK
  <2>2. ASSUME NEW ok \in BOOLEAN, DeletePolicy(found[t], ok), Deleted(found[t], ok)
        PROVE  reported' \in Reports
    <3>1. ok => found[t] \in Classes
      BY <2>2, DeleteShrinks DEF TypeInv, ProtectorInv, PoliciesOK
    <3> QED
      BY <2>2, <3>1 DEF Deleted, Reports, TypeInv, MetricsOK
  <2> QED
    BY <2>1, <2>2 DEF Apply
<1> QED
  BY <1>1, <1>2 DEF TypeInv, MetricsOK

(* Every step keeps the types.                                             *)
LEMMA TypeStep == TypeInv /\ [Next]_vars => TypeInv'
<1> SUFFICES ASSUME TypeInv, [Next]_vars PROVE TypeInv'
  OBVIOUS
<1>1. CASE Traffic
  <2>1. ProtectorInv'
    BY <1>1, DecideOK, CountRejectionOK, ConcludeOK, TickWindowsOK DEF Traffic, TypeInv
  <2> QED
    BY <1>1, <2>1 DEF Traffic, policyVars, metricVars, TypeInv, WrapperOK, MetricsOK
<1>2. ASSUME NEW t \in PolicyThreads,
             (\E m \in Messages : Accept(t, m)) \/ Reject(t) \/ SetPolicyStep(t)
      PROVE  TypeInv'
  <2>1. WrapperOK'
    BY <1>2, WrapperTypes
  <2>2. CASE Apply(t)
    BY <2>1, <2>2, ApplyProtector, ApplyMetrics DEF TypeInv
  <2>3. CASE ~Apply(t)
    <3>1. UNCHANGED <<protectorVars, metricVars>>
      BY <1>2, <2>3 DEF SetPolicyStep, Accept, Reject, Find, ClassOf, Record, Answer, Replied
    <3>2. MetricsOK'
      BY <3>1 DEF metricVars, TypeInv, MetricsOK
    <3> QED
      BY <2>1, <3>1, <3>2, ProtectorKept DEF TypeInv
  <2> QED
    BY <2>2, <2>3
<1>3. CASE MetricsStep
  <2>1. Unmoved
    BY <1>3 DEF MetricsStep, BeginMetrics, ScanPolicy, ScanTotals, ReadRequests,
                ProcessCounters, Expire, EndMetrics
  <2>2. WrapperOK'
    BY <2>1 DEF Unmoved, policyVars, TypeInv, WrapperOK
  <2> QED
    BY <1>3, <2>1, <2>2, MetricsTypes, ProtectorKept DEF Unmoved, TypeInv
<1>4. CASE UNCHANGED vars
  <2>1. UNCHANGED protectorVars /\ WrapperOK' /\ MetricsOK'
    BY <1>4 DEF vars, policyVars, metricVars, TypeInv, WrapperOK, MetricsOK
  <2> QED
    BY <2>1, ProtectorKept DEF TypeInv
<1> QED
  BY <1>1, <1>2, <1>3, <1>4 DEF Next

(* Any step of another thread lets the totals only grow.                   *)
LEMMA TotalsGrow ==
    ASSUME TypeInv, [Next]_vars
    PROVE  net_requests' >= net_requests /\ net_rejects' >= net_rejects
<1>1. CASE Traffic
  BY <1>1, TrafficGrows DEF Grows
<1>2. ASSUME NEW t \in PolicyThreads, Apply(t)
      PROVE  net_requests' >= net_requests /\ net_rejects' >= net_rejects
  <2>1. UNCHANGED <<net_requests, net_rejects>>
    BY <1>2, AddGrows, ConfigureGrows, DeleteShrinks DEF Apply
  <2> QED
    BY <2>1, PolicyNumbers
<1>3. CASE UNCHANGED protectorVars
  BY <1>3, PolicyNumbers DEF protectorVars
<1> QED
  BY <1>1, <1>2, <1>3 DEF Next, vars, SetPolicyStep, Accept, Reject, Find, ClassOf, Record, Answer,
     Replied, MetricsStep, BeginMetrics, ScanPolicy, ScanTotals, ReadRequests,
     ProcessCounters, Expire, EndMetrics, Unmoved

-----------------------------------------------------------------------------
(* The reports of the totals.                                              *)

ReportsOK ==
    /\ ReportsAddUp
    /\ Totals \notin DOMAIN counters => reported.requests = 0 /\ reported.accepts = 0
    /\ metrics.stage = "rejects" /\ metrics.id = Totals => metrics.requests <= net_requests

(* A step that leaves the reports and their totals alone keeps the sums.   *)
LEMMA ReportsQuiet ==
    ASSUME TypeInv, ReportsOK, [Next]_vars, UNCHANGED <<counters, metrics>>,
           reported'.requests = reported.requests, reported'.accepts = reported.accepts
    PROVE  ReportsOK'
<1>1. /\ net_requests \in Int /\ net_rejects \in Int
      /\ net_requests' \in Int /\ net_rejects' \in Int
  BY TypeStep, ProtectorAssumption DEF TypeInv, ProtectorInv, TotalsOK
<1>2. net_requests' >= net_requests /\ net_rejects' >= net_rejects
  BY TotalsGrow
<1>3. Totals \in DOMAIN counters =>
        counters[Totals].requests \in Int /\ counters[Totals].rejects \in Int
  BY DEF TypeInv, MetricsOK
<1>4. metrics.requests \in Int
  BY DEF TypeInv, MetricsOK, MetricsRecords
<1> QED
  BY <1>1, <1>2, <1>3, <1>4 DEF ReportsOK, ReportsAddUp

(* getMetrics, access by access: a total counts into the sum as it is      *)
(* recorded.                                                               *)
LEMMA MetricsReports ==
    ASSUME TypeInv, ReportsOK, MetricsStep
    PROVE  ReportsOK'
<1> UNCHANGED <<net_requests, net_rejects>>
  BY DEF MetricsStep, BeginMetrics, ScanPolicy, ScanTotals, ReadRequests,
         ProcessCounters, Expire, EndMetrics, Unmoved, protectorVars
<1>0. /\ metrics \in MetricsRecords /\ reported \in Reports
      /\ net_requests \in Int /\ net_rejects \in Int
  BY PolicyNumbers DEF TypeInv, MetricsOK
<1>1. CASE BeginMetrics
  <2>1. /\ reported'.requests = reported.requests /\ reported'.accepts = reported.accepts
        /\ metrics'.stage = "scan" /\ UNCHANGED counters
    BY <1>0, <1>1 DEF BeginMetrics, Reports, MetricsRecords
  <2> QED
    BY <2>1 DEF ReportsOK, ReportsAddUp
<1>2. CASE ScanTotals \/ \E i \in Instances : ScanPolicy(i)
  <2>1. metrics'.stage = "requests" /\ UNCHANGED <<counters, reported>>
    BY <1>0, <1>2 DEF ScanTotals, ScanPolicy, MetricsRecords, Returned
  <2> QED
    BY <2>1 DEF ReportsOK, ReportsAddUp
<1>3. CASE ReadRequests
  <2>1. /\ reported'.requests = reported.requests /\ reported'.accepts = reported.accepts
        /\ metrics'.id = metrics.id /\ UNCHANGED counters
        /\ metrics'.requests = CounterOf(metrics.id, net_requests, "req")
    BY <1>0, <1>3 DEF ReadRequests, Reports, MetricsRecords
  <2>2. metrics.id = Totals => metrics'.requests = net_requests
    BY <2>1 DEF CounterOf
  <2> QED
    BY <1>0, <2>1, <2>2 DEF ReportsOK, ReportsAddUp
<1>4. CASE ProcessCounters
  <2> PICK id : id = metrics.id
    OBVIOUS
  <2> PICK rejects : rejects = CounterOf(id, net_rejects, "rej")
    OBVIOUS
  <2> PICK prev : prev = Previous(id)
    OBVIOUS
  <2> PICK rc : rc = metrics.requests - prev.requests
    OBVIOUS
  <2> PICK ac : ac = rc - (rejects - prev.rejects)
    OBVIOUS
  <2>1. /\ metrics' = [metrics EXCEPT !.stage = IF id = Totals THEN "expire" ELSE "scan",
                                      !.request_count = rc]
        /\ counters' = [k \in DOMAIN counters \cup {id} |->
                          IF k = id THEN Base(id, metrics.requests, rejects)
                          ELSE counters[k]]
        /\ reported' = IF id = Totals
                       THEN [reported EXCEPT !.requests = @ + rc, !.accepts = @ + ac]
                       ELSE reported
        /\ metrics.stage = "rejects"
    BY <1>4 DEF ProcessCounters, MetricsAt
  <2>2. metrics'.stage # "rejects"
    BY <1>0, <2>1 DEF MetricsRecords
  <2>3. CASE id # Totals
    BY <2>1, <2>2, <2>3 DEF ReportsOK, ReportsAddUp
  <2>4. CASE id = Totals
    <3>1. rejects = net_rejects /\ metrics.requests <= net_requests
      BY <2>1, <2>4 DEF CounterOf, ReportsOK
    <3>2. Totals \in DOMAIN counters'
          /\ counters'[Totals].requests = metrics.requests
          /\ counters'[Totals].rejects = net_rejects
      BY <2>1, <2>4, <3>1 DEF Base
    <3>3. reported'.requests = reported.requests + rc
          /\ reported'.accepts = reported.accepts + ac
      BY <1>0, <2>1, <2>4 DEF Reports
    <3>4. reported.requests = prev.requests
          /\ reported.accepts = prev.requests - prev.rejects
      BY <2>4 DEF ReportsOK, ReportsAddUp, Previous, NoBase
    <3>5. prev.requests \in Int /\ prev.rejects \in Int /\ metrics.requests \in Int
      BY <1>0, <2>4, CounterTypes DEF MetricsRecords
    <3>6. reported'.requests = metrics.requests
          /\ reported'.accepts = metrics.requests - net_rejects
      BY <1>0, <3>1, <3>3, <3>4, <3>5
    <3> QED
      BY <1>0, <2>2, <3>1, <3>2, <3>6 DEF ReportsOK, ReportsAddUp
  <2> QED
    BY <2>3, <2>4
<1>5. ASSUME NEW id \in DOMAIN counters, Expire(id) PROVE ReportsOK'
  <2>1. /\ Totals \in DOMAIN counters' <=> Totals \in DOMAIN counters
        /\ Totals \in DOMAIN counters => counters'[Totals] = counters[Totals]
    BY <1>5 DEF Expire
  <2>2. metrics'.stage = "expire" /\ UNCHANGED reported
    BY <1>0, <1>5 DEF Expire, Returned, MetricsRecords, MetricsAt
  <2> QED
    BY <2>1, <2>2 DEF ReportsOK, ReportsAddUp
<1>6. CASE EndMetrics
  <2>1. metrics'.stage = "sleep" /\ UNCHANGED <<counters, reported>>
    BY <1>0, <1>6 DEF EndMetrics, Returned, MetricsRecords
  <2> QED
    BY <2>1 DEF ReportsOK, ReportsAddUp
<1> QED
  BY <1>1, <1>2, <1>3, <1>4, <1>5, <1>6 DEF MetricsStep

(* Every step keeps the sums of the reports.                               *)
LEMMA ReportsStep == TypeInv /\ ReportsOK /\ [Next]_vars => ReportsOK'
<1> SUFFICES ASSUME TypeInv, ReportsOK, [Next]_vars PROVE ReportsOK'
  OBVIOUS
<1>1. CASE MetricsStep
  BY <1>1, MetricsReports
<1>2. ASSUME NEW t \in PolicyThreads, Apply(t) PROVE ReportsOK'
  <2>1. UNCHANGED <<counters, metrics>>
    BY <1>2 DEF Apply
  <2>2. UNCHANGED reported \/ \E ok : Deleted(found[t], ok)
    BY <1>2 DEF Apply
  <2>3. reported'.requests = reported.requests /\ reported'.accepts = reported.accepts
    BY <2>2 DEF Deleted, TypeInv, MetricsOK, Reports
  <2> QED
    BY <2>1, <2>3, ReportsQuiet
<1>3. CASE UNCHANGED metricVars
  BY <1>3, ReportsQuiet DEF metricVars
<1> QED
  BY <1>1, <1>2, <1>3 DEF Next, vars, Traffic, SetPolicyStep, Accept, Reject, Find, ClassOf, Record,
     Answer, Replied

-----------------------------------------------------------------------------
(* Negative reports.  While reports are still made, every class that is in *)
(* the wrapper's table, or about to be, is in the protector's map or was   *)
(* deleted since a report last found it there; and the base of a report    *)
(* is no more than the policy's counter unless the policy was deleted.     *)

Seen == Active \cup reported.deleted
Current(id, n) ==
    id \in reported.deleted \/ (id \in Active /\ n <= policy_list[id].req)
Recording(t) == stage[t] = "record" /\ request[t].op = "CREATE"
Between(id) == metrics.stage = "rejects" /\ id = metrics.id

TableSeen ==
    /\ \A i \in Instances : policy_table[i] # NoClass => policy_table[i] \in Seen
    /\ \A t \in PolicyThreads : Recording(t) => request[t].class \in Seen
    /\ metrics.stage = "requests" /\ metrics.id # Totals => metrics.id \in Seen
BasesCurrent ==
    /\ \A id \in DOMAIN counters \ {Totals} :
          ~Between(id) => Current(id, counters[id].requests)
    /\ metrics.stage = "rejects" /\ metrics.id # Totals =>
          Current(metrics.id, metrics.requests)
KnownOK == Reporting => TableSeen /\ BasesCurrent

CountOK ==
    /\ metrics.stage = "rejects" /\ ~metrics.deleted =>
          Previous(metrics.id).requests <= metrics.requests
    /\ metrics.stage = "requests" => metrics.request_count = 0
    /\ NegativeOnlyIfDeleted

(* Where getMetrics is not moving: no class of the table is forgotten, no  *)
(* base stops being one.                                                   *)
LEMMA KnownQuiet ==
    ASSUME TypeInv, KnownOK, UNCHANGED <<counters, metrics>>,
           reported'.calls = reported.calls,
           Reporting => Seen \subseteq Seen',
           \A id : \A n \in Int : Reporting /\ Current(id, n) => Current(id, n)',
           \A i \in Instances :
              Reporting /\ policy_table'[i] \notin {NoClass, policy_table[i]} =>
                 policy_table'[i] \in Seen',
           \A t \in PolicyThreads : Reporting /\ Recording(t)' => request'[t].class \in Seen'
    PROVE  KnownOK'
<1>1. Reporting' <=> Reporting
  BY DEF Reporting
<1> SUFFICES ASSUME Reporting PROVE TableSeen' /\ BasesCurrent'
  BY <1>1 DEF KnownOK
<1>2. TableSeen /\ BasesCurrent
  BY DEF KnownOK
<1>3. TableSeen'
  BY <1>2 DEF TableSeen
<1>4. BasesCurrent'
  <2>1. \A id \in DOMAIN counters : counters[id].requests \in Int
    BY DEF TypeInv, MetricsOK
  <2>2. metrics.requests \in Int
    BY DEF TypeInv, MetricsOK, MetricsRecords
  <2>3. ASSUME NEW id \in DOMAIN counters' \ {Totals}, ~Between(id)'
        PROVE  Current(id, counters[id].requests)'
    <3>1. Current(id, counters[id].requests)
      BY <1>2, <2>3 DEF BasesCurrent, Between
    <3> PICK n \in Int : n = counters[id].requests
      BY <2>1, <2>3
    <3>2. Current(id, n)'
      BY <3>1
    <3> QED
      BY <3>2
  <2>4. ASSUME metrics'.stage = "rejects", metrics'.id # Totals
        PROVE  Current(metrics.id, metrics.requests)'
    <3>1. Current(metrics.id, metrics.requests)
      BY <1>2, <2>4 DEF BasesCurrent
    <3> PICK n \in Int : n = metrics.requests
      BY <2>2
    <3> PICK id : id = metrics.id
      OBVIOUS
    <3>2. Current(id, n)'
      BY <3>1
    <3> QED
      BY <3>2
  <2> QED
    BY <2>3, <2>4 DEF BasesCurrent
<1> QED
  BY <1>3, <1>4

(* Whatever lets the policies grow keeps what is seen and what is current. *)
LEMMA GrowsKnown ==
    ASSUME TypeInv, ProtectorInv', Grows, reported' = reported
    PROVE  /\ Seen \subseteq Seen'
           /\ \A id : \A n \in Int : Current(id, n) => Current(id, n)'
<1>1. Seen \subseteq Seen'
  BY DEF Seen, Grows
<1>2. ASSUME NEW id, NEW n \in Int, Current(id, n) PROVE Current(id, n)'
  <2>1. CASE id \in reported.deleted
    BY <2>1 DEF Current
  <2>2. CASE id \in Active /\ n <= policy_list[id].req
    <3>1. id \in Active' /\ policy_list'[id].req >= policy_list[id].req
      BY <2>2 DEF Grows
    <3>2. policy_list[id].req \in Nat /\ policy_list'[id].req \in Nat
      BY <2>2, <3>1 DEF TypeInv, ProtectorInv, PoliciesOK, PolicyOK
    <3> QED
      BY <2>2, <3>1, <3>2 DEF Current
  <2> QED
    BY <1>2, <2>1, <2>2 DEF Current
<1> QED
  BY <1>1, <1>2

(* An access of setPolicy: the class it records is active, or was deleted. *)
LEMMA KnownStepPolicy ==
    ASSUME TypeInv, KnownOK, NEW t \in PolicyThreads, SetPolicyStep(t)
    PROVE  KnownOK'
<1>1. TypeInv' /\ t \in Listeners
  BY TypeStep, AdmissionAssumption DEF Next
<1>2. stage \in [Listeners -> Stages] /\ PolicyThreads \subseteq Listeners
  BY AdmissionAssumption DEF TypeInv, WrapperOK
<1>3. ASSUME NEW s, s # "record", Goto(t, s),
             UNCHANGED request \/ \E x : request' = [request EXCEPT ![t] = x]
      PROVE  \A u \in PolicyThreads : Recording(u)' => Recording(u) /\ request'[u] = request[u]
  BY <1>1, <1>2, <1>3 DEF Goto, Recording, TypeInv, WrapperOK
<1>4. CASE Find(t)
  <2>1. /\ Goto(t, "answer") \/ Goto(t, "apply")
        /\ UNCHANGED <<protectorVars, metricVars, policy_table, request>>
    BY <1>4 DEF Find, ClassOf
  <2>2. \A u \in PolicyThreads : Recording(u)' => Recording(u) /\ request'[u] = request[u]
    BY <1>3, <2>1
  <2>3. Grows /\ UNCHANGED <<counters, metrics, reported, policy_table>>
    BY <2>1, SameGrows DEF metricVars
  <2>4. KnownOK /\ Reporting => \A u \in PolicyThreads : Recording(u) => request[u].class \in Seen
    BY DEF KnownOK, TableSeen
  <2> QED
    BY <1>1, <2>2, <2>3, <2>4, GrowsKnown, KnownQuiet DEF TypeInv
<1>5. CASE Answer(t) \/ Replied(t)
  <2>1. /\ Goto(t, "reply") \/ Goto(t, "idle")
        /\ UNCHANGED <<protectorVars, metricVars, policy_table>>
        /\ UNCHANGED request \/ \E x : request' = [request EXCEPT ![t] = x]
    BY <1>5 DEF Answer, Replied
  <2>2. \A u \in PolicyThreads : Recording(u)' => Recording(u) /\ request'[u] = request[u]
    BY <1>3, <2>1
  <2>3. Grows /\ UNCHANGED <<counters, metrics, reported, policy_table>>
    BY <2>1, SameGrows DEF metricVars
  <2>4. KnownOK /\ Reporting => \A u \in PolicyThreads : Recording(u) => request[u].class \in Seen
    BY DEF KnownOK, TableSeen
  <2> QED
    BY <1>1, <2>2, <2>3, <2>4, GrowsKnown, KnownQuiet DEF TypeInv
<1>6. CASE Record(t)
  <2>1. /\ Goto(t, "answer")
        /\ UNCHANGED <<protectorVars, metricVars, request>>
    BY <1>6 DEF Record
  <2>2. \A u \in PolicyThreads : Recording(u)' => Recording(u) /\ request'[u] = request[u]
    BY <1>3, <2>1
  <2>3. Grows /\ UNCHANGED <<counters, metrics, reported>>
    BY <2>1, SameGrows DEF metricVars
  <2>4. KnownOK /\ Reporting => \A u \in PolicyThreads : Recording(u) => request[u].class \in Seen
    BY DEF KnownOK, TableSeen
  <2>5. Seen' = Seen
    BY <2>1 DEF Seen, protectorVars, metricVars, Active
  <2>6. ASSUME NEW i \in Instances
        PROVE  Reporting /\ policy_table'[i] \notin {NoClass, policy_table[i]} =>
                  policy_table'[i] \in Seen'
    <3>1. \/ policy_table' = policy_table
          \/ \E k : policy_table' = [policy_table EXCEPT ![k] = NoClass]
          \/ /\ Recording(t)
             /\ \E k : policy_table' = [policy_table EXCEPT ![k] = request[t].class]
      BY <1>6 DEF Record, Recording, ErasedEntry
    <3> QED
      BY <2>4, <2>5, <3>1 DEF TypeInv, WrapperOK
  <2> QED
    BY <1>1, <2>2, <2>3, <2>4, <2>6, GrowsKnown, KnownQuiet DEF TypeInv
<1>7. CASE Apply(t)
  <2> PICK m : m = request[t]
    OBVIOUS
  <2>1. UNCHANGED <<counters, metrics, policy_table, request>>
    BY <1>7 DEF Apply
  <2>2. PICK ok \in BOOLEAN :
          /\ \/ m.op = "CREATE" /\ AddPolicy(m.params, m.class, ok) /\ UNCHANGED reported
             \/ m.op = "UPDATE" /\ Configure(m.params, m.class, ok) /\ UNCHANGED reported
             \/ m.op = "DELETE" /\ DeletePolicy(found[t], ok) /\ Deleted(found[t], ok)
          /\ Goto(t, IF ok /\ m.op # "UPDATE" THEN "record" ELSE "answer")
    BY <1>7 DEF Apply
  <2>3. \A u \in PolicyThreads : Recording(u)' =>
           \/ Recording(u) /\ request'[u] = request[u]
           \/ u = t /\ ok /\ m.op = "CREATE" /\ request'[u] = m
    BY <1>1, <1>2, <2>1, <2>2 DEF Goto, Recording, TypeInv, WrapperOK
  <2>4. KnownOK /\ Reporting => \A u \in PolicyThreads : Recording(u) => request[u].class \in Seen
    BY DEF KnownOK, TableSeen
  <2>5. CASE m.op # "DELETE"
    <3>1. Grows /\ UNCHANGED reported
          /\ (ok /\ m.op = "CREATE" => m.class \in Active')
      BY <2>2, <2>5, AddGrows, ConfigureGrows
    <3> QED
      BY <1>1, <2>1, <2>3, <2>4, <3>1, GrowsKnown, KnownQuiet DEF TypeInv, Seen
  <2>6. CASE m.op = "DELETE"
    <3>1. /\ ok <=> found[t] \in Active
          /\ Active' = Active \ {found[t]}
          /\ \A k \in Active' : policy_list'[k] = policy_list[k]
          /\ Deleted(found[t], ok)
      BY <2>2, <2>6, DeleteShrinks
    <3>2. reported'.calls = reported.calls
          /\ (Reporting => reported'.deleted = IF ok THEN reported.deleted \cup {found[t]}
                                               ELSE reported.deleted)
      BY <3>1 DEF Deleted, TypeInv, MetricsOK, Reports
    <3>3. Reporting => Seen \subseteq Seen'
      BY <3>1, <3>2 DEF Seen
    <3>4. ASSUME NEW id, NEW n \in Int, Reporting, Current(id, n) PROVE Current(id, n)'
      BY <3>1, <3>2, <3>4 DEF Current
    <3> QED
      BY <2>1, <2>3, <2>4, <2>6, <3>2, <3>3, <3>4, KnownQuiet
  <2> QED
    BY <2>5, <2>6
<1> QED
  BY <1>4, <1>5, <1>6, <1>7 DEF SetPolicyStep

(* A step of getMetrics that leaves the bases alone.                       *)
LEMMA KnownStepMetrics ==
    ASSUME TypeInv, ReportsOK, KnownOK, CountOK, MetricsStep
    PROVE  KnownOK' /\ CountOK'
<1>0. /\ metrics \in MetricsRecords /\ reported \in Reports
      /\ DOMAIN counters \subseteq Classes \cup {Totals}
  BY DEF TypeInv, MetricsOK
<1>1. UNCHANGED protectorVars /\ UNCHANGED <<policy_table, stage, request>>
  BY DEF MetricsStep, BeginMetrics, ScanPolicy, ScanTotals, ReadRequests,
         ProcessCounters, Expire, EndMetrics, Unmoved, policyVars
<1>2. /\ UNCHANGED <<Active, policy_list, net_requests>>
      /\ \A t \in PolicyThreads : Recording(t)' <=> Recording(t)
  BY <1>1 DEF protectorVars, Active, Recording
<1>3. CASE BeginMetrics
  <2>1. /\ metrics'.stage = "scan" /\ metrics'.request_count = metrics.request_count
        /\ metrics'.deleted = metrics.deleted
        /\ reported'.deleted = reported.deleted /\ UNCHANGED counters
        /\ Reporting /\ metrics.stage = "sleep"
    BY <1>0, <1>3 DEF BeginMetrics, Reports, MetricsRecords, Reporting, MetricsAt
  <2>2. TableSeen /\ BasesCurrent
    BY <2>1 DEF KnownOK
  <2>3. TableSeen' /\ BasesCurrent'
    BY <1>1, <1>2, <2>1, <2>2 DEF TableSeen, BasesCurrent, Seen, Current, Between
  <2>4. CountOK'
    BY <2>1 DEF CountOK, NegativeOnlyIfDeleted
  <2> QED
    BY <2>3, <2>4 DEF KnownOK
<1>4. CASE ScanTotals \/ \E i \in Instances : ScanPolicy(i)
  <2>1. /\ metrics'.stage = "requests" /\ metrics'.request_count = 0
        /\ UNCHANGED <<counters, reported>> /\ metrics.stage = "scan" /\ Reporting
    BY <1>0, <1>4 DEF ScanTotals, ScanPolicy, MetricsRecords, Returned, MetricsAt, Reporting
  <2>2. TableSeen /\ BasesCurrent
    BY <2>1 DEF KnownOK
  <2>3. metrics'.id = Totals \/ metrics'.id \in Seen
    <3>1. CASE ScanTotals
      BY <1>0, <3>1 DEF ScanTotals, MetricsRecords, Returned
    <3>2. ASSUME NEW i \in Instances, ScanPolicy(i) PROVE metrics'.id \in Seen
      <4>1. policy_table[i] # NoClass
        BY <3>2, NextListed DEF ScanPolicy, Listed
      <4>2. metrics'.id = policy_table[i]
        BY <1>0, <3>2 DEF ScanPolicy, MetricsRecords, Returned
      <4> QED
        BY <2>2, <4>1, <4>2 DEF TableSeen
    <3> QED
      BY <1>4, <3>1, <3>2
  <2>4. TableSeen' /\ BasesCurrent'
    BY <1>1, <1>2, <2>1, <2>2, <2>3 DEF TableSeen, BasesCurrent, Seen, Current, Between
  <2>5. CountOK'
    BY <2>1 DEF CountOK, NegativeOnlyIfDeleted
  <2> QED
    BY <2>4, <2>5 DEF KnownOK
<1>5. CASE ReadRequests
  <2> PICK id : id = metrics.id
    OBVIOUS
  <2>1. /\ metrics'.stage = "rejects" /\ metrics'.id = id
        /\ metrics'.request_count = metrics.request_count
        /\ metrics'.requests = CounterOf(id, net_requests, "req")
        /\ metrics'.deleted = (id \in reported.deleted)
        /\ reported'.deleted = reported.deleted \ (Active \cap {id})
        /\ UNCHANGED counters /\ metrics.stage = "requests" /\ Reporting
    BY <1>0, <1>5 DEF ReadRequests, MetricsRecords, Reports, MetricsAt, Reporting
  <2>2. TableSeen /\ BasesCurrent
    BY <2>1 DEF KnownOK
  <2>3. Seen' = Seen
    BY <1>2, <2>1 DEF Seen
  <2>4. id # Totals => id \in Seen
    BY <2>1, <2>2 DEF TableSeen
  <2>5. ASSUME id # Totals
        PROVE  IF id \in Active THEN metrics'.requests = policy_list[id].req
                                ELSE id \in reported'.deleted
    BY <2>1, <2>4, <2>5 DEF Seen, CounterOf
  <2>6. TableSeen'
    BY <1>1, <1>2, <2>1, <2>2, <2>3 DEF TableSeen
  <2>7. BasesCurrent'
    <3>1. ASSUME NEW k \in DOMAIN counters \ {Totals}, k # id
          PROVE  Current(k, counters[k].requests)'
      <4>1. Current(k, counters[k].requests)
        BY <2>1, <2>2, <3>1 DEF BasesCurrent, Between
      <4> QED
        BY <1>2, <2>1, <3>1, <4>1 DEF Current
    <3>2. id # Totals => Current(metrics.id, metrics.requests)'
      <4>1. \A k \in Active : policy_list[k].req \in Nat
        BY PolicyNumbers
      <4>2. \A n \in Nat : n <= n
        OBVIOUS
      <4> QED
        BY <1>2, <2>1, <2>5, <4>1, <4>2 DEF Current
    <3> QED
      BY <2>1, <3>1, <3>2 DEF BasesCurrent, Between
  <2>8. ASSUME ~metrics'.deleted PROVE Previous(id).requests <= metrics'.requests
    <3>1. CASE id = Totals
      <4>1. metrics'.requests = net_requests
        BY <2>1, <3>1 DEF CounterOf
      <4>2. Previous(id).requests <= net_requests
        BY <3>1, PolicyNumbers DEF Previous, NoBase, ReportsOK, ReportsAddUp
      <4> QED
        BY <4>1, <4>2
    <3>2. CASE id # Totals
      <4>1. id \in Active /\ metrics'.requests = policy_list[id].req
            /\ id \notin reported.deleted
        BY <2>1, <2>4, <2>5, <2>8, <3>2 DEF Seen
      <4>2. policy_list[id].req \in Nat
        BY <4>1, PolicyNumbers
      <4>3. id \in DOMAIN counters => counters[id].requests <= policy_list[id].req
        BY <2>1, <2>2, <3>2, <4>1 DEF BasesCurrent, Between, Current
      <4> QED
        BY <4>1, <4>2, <4>3 DEF Previous, NoBase
    <3> QED
      BY <3>1, <3>2
  <2>9. CountOK'
    <3>1. metrics'.request_count = 0
      BY <2>1 DEF CountOK
    <3>2. Previous(metrics.id)' = Previous(id)
      BY <2>1 DEF Previous
    <3> QED
      BY <2>1, <2>8, <3>1, <3>2 DEF CountOK, NegativeOnlyIfDeleted
  <2> QED
    BY <2>6, <2>7, <2>9 DEF KnownOK
<1>6. CASE ProcessCounters
  <2> PICK id : id = metrics.id
    OBVIOUS
  <2> PICK rejects : rejects = CounterOf(id, net_rejects, "rej")
    OBVIOUS
  <2> PICK rc : rc = metrics.requests - Previous(id).requests
    OBVIOUS
  <2>1. /\ metrics'.stage \in {"expire", "scan"} /\ metrics'.request_count = rc
        /\ metrics'.deleted = metrics.deleted
        /\ counters' = [k \in DOMAIN counters \cup {id} |->
                          IF k = id THEN Base(id, metrics.requests, rejects)
                          ELSE counters[k]]
        /\ metrics.stage = "rejects" /\ Reporting
    BY <1>0, <1>6 DEF ProcessCounters, MetricsRecords, MetricsAt, Reporting
  <2>2. reported'.deleted = reported.deleted
    BY <1>0, <1>6 DEF ProcessCounters, Reports
  <2>3. TableSeen /\ BasesCurrent
    BY <2>1 DEF KnownOK
  <2>4. TableSeen'
    BY <1>1, <1>2, <2>1, <2>2, <2>3 DEF TableSeen, Seen
  <2>5. ASSUME NEW k \in DOMAIN counters' \ {Totals}
        PROVE  Current(k, counters[k].requests)'
    <3>1. CASE k = id
      <4>1. Current(id, metrics.requests) /\ counters'[k].requests = metrics.requests
        BY <2>1, <2>3, <2>5, <3>1 DEF BasesCurrent, Base
      <4> QED
        BY <1>2, <2>2, <3>1, <4>1 DEF Current
    <3>2. CASE k # id
      <4>1. Current(k, counters[k].requests) /\ counters'[k] = counters[k]
        BY <2>1, <2>3, <2>5, <3>2 DEF BasesCurrent, Between
      <4> QED
        BY <1>2, <2>2, <4>1 DEF Current
    <3> QED
      BY <3>1, <3>2
  <2>6. BasesCurrent'
    BY <2>1, <2>5 DEF BasesCurrent, Between
  <2>7. CountOK'
    <3>1. metrics.requests \in Int /\ Previous(id).requests \in Int
      BY <1>0, CounterTypes DEF MetricsRecords
    <3>2. ~metrics.deleted => rc >= 0
      BY <2>1, <3>1 DEF CountOK
    <3>3. rc \in Int
      BY <3>1
    <3> QED
      BY <2>1, <3>2, <3>3 DEF CountOK, NegativeOnlyIfDeleted
  <2> QED
    BY <2>4, <2>6, <2>7 DEF KnownOK
<1>7. ASSUME NEW id \in DOMAIN counters, Expire(id) PROVE KnownOK' /\ CountOK'
  <2>1. DOMAIN counters' \subseteq DOMAIN counters
        /\ \A k \in DOMAIN counters' : counters'[k] = counters[k]
    BY <1>7 DEF Expire
  <2>2. /\ metrics'.stage = "expire" /\ metrics'.request_count = 0 /\ UNCHANGED reported
        /\ metrics.stage = "expire" /\ Reporting
    BY <1>0, <1>7 DEF Expire, Returned, MetricsRecords, MetricsAt, Reporting
  <2>3. TableSeen /\ BasesCurrent
    BY <2>2 DEF KnownOK
  <2>4. TableSeen'
    BY <1>1, <1>2, <2>2, <2>3 DEF TableSeen, Seen
  <2>5. BasesCurrent'
    BY <1>1, <1>2, <2>1, <2>2, <2>3 DEF BasesCurrent, Between, Current
  <2>6. CountOK'
    BY <2>2 DEF CountOK, NegativeOnlyIfDeleted
  <2> QED
    BY <2>4, <2>5, <2>6 DEF KnownOK
<1>8. CASE EndMetrics
  <2>1. /\ metrics'.stage = "sleep" /\ metrics'.request_count = 0
        /\ UNCHANGED <<counters, reported>>
        /\ metrics.stage = "expire" /\ Reporting
    BY <1>0, <1>8 DEF EndMetrics, Returned, MetricsRecords, MetricsAt, Reporting
  <2>2. TableSeen /\ BasesCurrent
    BY <2>1 DEF KnownOK
  <2>3. TableSeen' /\ BasesCurrent'
    BY <1>1, <1>2, <2>1, <2>2 DEF TableSeen, BasesCurrent, Seen, Current, Between
  <2>4. CountOK'
    BY <2>1 DEF CountOK, NegativeOnlyIfDeleted
  <2> QED
    BY <2>3, <2>4 DEF KnownOK
<1> QED
  BY <1>3, <1>4, <1>5, <1>6, <1>7, <1>8 DEF MetricsStep

(* A count is of its two reads, which only getMetrics makes.               *)
LEMMA CountQuiet == CountOK /\ UNCHANGED <<counters, metrics>> => CountOK'
BY DEF CountOK, NegativeOnlyIfDeleted, Previous

(* Every step keeps what is known of the bases and of the two reads.       *)
LEMMA KnownStep ==
    TypeInv /\ ReportsOK /\ KnownOK /\ CountOK /\ [Next]_vars => KnownOK' /\ CountOK'
<1> SUFFICES ASSUME TypeInv, ReportsOK, KnownOK, CountOK, [Next]_vars
             PROVE  KnownOK' /\ CountOK'
  OBVIOUS
<1>0. ProtectorInv'
  BY TypeStep DEF TypeInv
<1>1. CASE MetricsStep
  BY <1>1, KnownStepMetrics
<1>2. ASSUME NEW t \in PolicyThreads, SetPolicyStep(t) PROVE KnownOK' /\ CountOK'
  <2>1. UNCHANGED <<counters, metrics>>
    BY <1>2 DEF SetPolicyStep, Find, ClassOf, Apply, Record, Answer, Replied, metricVars
  <2> QED
    BY <1>2, <2>1, CountQuiet, KnownStepPolicy
<1>3. ASSUME Grows, UNCHANGED <<metricVars, policy_table>>,
             \A t \in PolicyThreads : Recording(t)' => Recording(t) /\ request'[t] = request[t]
      PROVE  KnownOK' /\ CountOK'
  <2>1. UNCHANGED <<counters, metrics, reported>>
    BY <1>3 DEF metricVars
  <2>2. Reporting => \A t \in PolicyThreads : Recording(t) => request[t].class \in Seen
    BY DEF KnownOK, TableSeen
  <2> QED
    BY <1>0, <1>3, <2>1, <2>2, CountQuiet, GrowsKnown, KnownQuiet
<1>4. CASE Traffic
  <2>1. Grows /\ UNCHANGED <<metricVars, policy_table, stage, request>>
    BY <1>4, TrafficGrows DEF Traffic, policyVars
  <2> QED
    BY <1>3, <2>1 DEF Recording
<1>5. ASSUME NEW t \in PolicyThreads,
             (\E m \in Messages : Accept(t, m)) \/ Reject(t)
      PROVE  KnownOK' /\ CountOK'
  <2>1. Grows /\ UNCHANGED <<metricVars, policy_table>>
    BY <1>5, SameGrows DEF Accept, Reject
  <2>2. \/ UNCHANGED <<stage, request>>
        \/ /\ Goto(t, "find")
           /\ \E m \in Messages : request' = [request EXCEPT ![t] = m]
    BY <1>5 DEF Accept, Reject
  <2>3. \A u \in PolicyThreads : Recording(u)' => Recording(u) /\ request'[u] = request[u]
    BY <2>2, AdmissionAssumption DEF Recording, Goto, TypeInv, WrapperOK
  <2> QED
    BY <1>3, <2>1, <2>3
<1>6. CASE UNCHANGED vars
  <2>1. Grows /\ UNCHANGED <<metricVars, policy_table, stage, request>>
    BY <1>6, SameGrows DEF vars, policyVars
  <2> QED
    BY <1>3, <2>1 DEF Recording
<1> QED
  BY <1>1, <1>2, <1>4, <1>5, <1>6 DEF Next

-----------------------------------------------------------------------------
(* One thread for policy messages: where the two maps and the call in      *)
(* progress stand.  The maps differ only between the protector's call and  *)
(* the entry in the table.                                                 *)

OnePolicyThread == \A t, u \in PolicyThreads : t = u

Injective ==
    \A i, j \in Instances : policy_table[i] = policy_table[j] /\ i # j => policy_table[i] = NoClass
Agreed == Active = Owned \cup {0}

AtApply(t) ==
    /\ found[t] = policy_table[request[t].instance]
    /\ request[t].op = "CREATE" <=> found[t] = NoClass
Creating(t) ==
    /\ request[t].class \notin Owned \cup {0}
    /\ policy_table[request[t].instance] = NoClass
    /\ Active = Owned \cup {0, request[t].class}
    /\ reply[t].status = "OK"
Deleting(t) ==
    /\ found[t] = policy_table[request[t].instance]
    /\ found[t] # NoClass
    /\ Active = (Owned \ {found[t]}) \cup {0}
    /\ reply[t].status = "DELETED"
AtRecord(t) ==
    /\ request[t].op \in {"CREATE", "DELETE"}
    /\ request[t].op = "CREATE" => Creating(t)
    /\ request[t].op = "DELETE" => Deleting(t)
Told(t) ==
    LET class == policy_table[request[t].instance] IN
    /\ reply[t].status = "OK" => class # NoClass
    /\ reply[t].status = "DELETED" => class = NoClass /\ found[t] \notin Active

ThreadOK(t) ==
    /\ stage[t] # "idle" => notify.instance = request[t].instance
    /\ stage[t] = "apply" => AtApply(t)
    /\ stage[t] = "record" => AtRecord(t)
    /\ stage[t] \in {"answer", "reply"} => Told(t)
    /\ stage[t] = "reply" => reply[t].instance = request[t].instance

TableOK ==
    /\ 0 \notin Owned /\ Injective
    /\ (\A t \in PolicyThreads : stage[t] # "record") => Agreed
    /\ \A t \in PolicyThreads : ThreadOK(t)

(* The empty table owns nothing, and the protector starts with policy 0.   *)
LEMMA InitTable == Init => TableOK
<1> SUFFICES ASSUME Init PROVE TableOK
  OBVIOUS
<1>1. Owned = {} /\ Active = {0}
  BY DEF Init, ProtectorInit, Owned, Active
<1>2. ASSUME NEW t \in PolicyThreads PROVE stage[t] = "idle"
  BY AdmissionAssumption DEF Init
<1>3. Injective
  BY DEF Init, Injective
<1> QED
  BY <1>1, <1>2, <1>3 DEF TableOK, ThreadOK, Agreed

(* A new entry adds its class to the owned ones, an erased one takes it    *)
(* away, as no other instance has it.                                      *)
LEMMA OwnedAdded ==
    ASSUME TypeInv, NEW i \in Instances, NEW c \in Classes, policy_table[i] = NoClass,
           policy_table' = [policy_table EXCEPT ![i] = c]
    PROVE  Owned' = Owned \cup {c}
<1>1. c # NoClass
  BY AdmissionAssumption, ProtectorAssumption
<1> QED
  BY <1>1 DEF Owned, TypeInv, WrapperOK

(* Erasing an entry of policy_table takes just its class from those in it. *)
LEMMA OwnedErased ==
    ASSUME TypeInv, Injective, NEW i \in Instances, policy_table[i] # NoClass,
           policy_table' = [policy_table EXCEPT ![i] = NoClass]
    PROVE  Owned' = Owned \ {policy_table[i]}
BY DEF Owned, Injective, TypeInv, WrapperOK

(* Traffic neither creates nor deletes a policy while there is a default   *)
(* one.                                                                    *)
LEMMA TrafficActive ==
    ASSUME Traffic, 0 \in Active
    PROVE  Active' = Active
BY DEF Traffic, Decide, CountRejection, Conclude, TickWindows, With, PolicyOf, Active

(* A step that touches no map of policies keeps their agreement.           *)
LEMMA TableQuiet ==
    ASSUME TableOK, Active' = Active, UNCHANGED policyVars
    PROVE  TableOK'
BY DEF TableOK, ThreadOK, AtApply, AtRecord, Creating, Deleting, Told, Injective, Agreed,
       Owned, policyVars

(* With one policy thread the default policy is always there.              *)
LEMMA DefaultActive == OnePolicyThread /\ TableOK => 0 \in Active
<1> SUFFICES ASSUME OnePolicyThread, TableOK PROVE 0 \in Active
  OBVIOUS
<1>1. ASSUME NEW t \in PolicyThreads, stage[t] = "record" PROVE 0 \in Active
  BY <1>1 DEF TableOK, ThreadOK, AtRecord, Creating, Deleting
<1> QED
  BY <1>1 DEF TableOK, Agreed

(* Every step keeps the agreement of the two maps.                         *)
LEMMA TableStep == OnePolicyThread /\ TypeInv /\ TableOK /\ [Next]_vars => TableOK'
<1> SUFFICES ASSUME OnePolicyThread, TypeInv, TableOK, [Next]_vars PROVE TableOK'
  OBVIOUS
<1>1. CASE Traffic
  BY <1>1, DefaultActive, TrafficActive, TableQuiet DEF Traffic
<1>2. CASE MetricsStep
  <2>1. Unmoved
    BY <1>2 DEF MetricsStep, BeginMetrics, ScanPolicy, ScanTotals, ReadRequests,
                ProcessCounters, Expire, EndMetrics
  <2> QED
    BY <2>1, TableQuiet DEF Unmoved, protectorVars, Active
<1>3. CASE UNCHANGED vars
  BY <1>3, TableQuiet DEF vars, protectorVars, Active
<1>4. ASSUME NEW t \in PolicyThreads,
             (\E m \in Messages : Accept(t, m)) \/ Reject(t) \/ SetPolicyStep(t)
      PROVE  TableOK'
  <2>0. /\ t \in Listeners /\ ThreadOK(t)
        /\ \A u \in PolicyThreads : u = t
        /\ 0 \notin Owned /\ Injective
        /\ stage[t] # "record" => Agreed
    BY AdmissionAssumption DEF TableOK, OnePolicyThread
  <2>1. /\ stage \in [Listeners -> Stages]
        /\ request \in [Listeners -> Messages \cup {NoMessage}]
        /\ found \in [Listeners -> Classes \cup {NoClass}]
        /\ reply \in [Listeners -> Replies]
        /\ notify \in Replies
    BY DEF TypeInv, WrapperOK
  <2>2. stage[t] # "idle" => request[t] \in Messages /\ request[t].instance \in Instances
                             /\ request[t].class \in Classes
                             /\ request[t].op \in {"CREATE", "UPDATE", "DELETE"}
    BY <2>0, AdmissionAssumption DEF TypeInv, WrapperOK
  <2>3. ASSUME 0 \notin Owned', Injective', stage'[t] # "record" => Agreed', ThreadOK(t)'
        PROVE  TableOK'
    BY <2>0, <2>3 DEF TableOK
  <2>4. ASSUME UNCHANGED <<policy_table, Active>>
        PROVE  Owned' = Owned /\ (0 \notin Owned' /\ Injective')
    BY <2>0, <2>4 DEF Owned, Injective
  <2>5. CASE ~Apply(t)
    <3>0. Active' = Active
      BY <1>4, <2>5 DEF SetPolicyStep, Accept, Reject, Find, ClassOf, Record, Answer, Replied,
                        protectorVars, Active
    <3>1. ASSUME NEW m \in Messages, Accept(t, m) PROVE TableOK'
      <4>1. /\ stage'[t] = "find" /\ request'[t] = m /\ notify'.instance = m.instance
            /\ UNCHANGED policy_table /\ stage[t] = "idle"
        BY <2>0, <2>1, <3>1 DEF Accept, Goto, Replies
      <4> QED
        BY <2>0, <2>3, <2>4, <3>0, <4>1 DEF ThreadOK, Agreed
    <3>2. CASE Reject(t)
      <4>1. stage'[t] = "idle" /\ UNCHANGED policy_table /\ stage[t] = "idle"
        BY <2>0, <2>1, <3>2 DEF Reject
      <4> QED
        BY <2>0, <2>3, <2>4, <3>0, <4>1 DEF ThreadOK, Agreed
    <3>3. CASE Find(t)
      <4> PICK class : class = policy_table[request[t].instance]
        OBVIOUS
      <4>1. /\ found'[t] = class /\ stage[t] = "find"
            /\ UNCHANGED <<policy_table, request, notify>>
        BY <2>0, <2>1, <3>3 DEF Find, ClassOf
      <4>2. \/ /\ request[t].op = "CREATE" /\ class # NoClass
               /\ Outcome(t, TRUE) /\ stage'[t] = "answer"
            \/ /\ request[t].op = "CREATE" <=> class = NoClass
               /\ stage'[t] = "apply"
            \/ Outcome(t, FALSE) /\ stage'[t] = "answer"
        BY <2>0, <2>1, <3>3 DEF Find, ClassOf, Goto, Known
      <4>3. CASE stage'[t] = "apply"
        BY <2>0, <2>3, <2>4, <3>0, <4>1, <4>2, <4>3 DEF ThreadOK, AtApply, Agreed
      <4>4. CASE stage'[t] = "answer"
        <5>1. reply'[t].status = "ERROR" \/ (reply'[t].status = "OK" /\ class # NoClass)
          BY <2>0, <2>1, <4>2, <4>4 DEF Outcome, Replies
        <5> QED
          BY <2>0, <2>3, <2>4, <3>0, <4>1, <4>4, <5>1 DEF ThreadOK, Told, Agreed
      <4> QED
        BY <4>2, <4>3, <4>4
    <3>4. CASE Record(t)
      <4> PICK m : m = request[t]
        OBVIOUS
      <4>1. /\ stage'[t] = "answer" /\ stage[t] = "record" /\ AtRecord(t)
            /\ UNCHANGED <<notify, request, found, reply>>
        BY <2>0, <2>1, <3>4 DEF Record, Goto, ThreadOK
      <4>2. CASE m.op = "CREATE"
        <5>1. Creating(t) /\ policy_table' = [policy_table EXCEPT ![m.instance] = m.class]
          BY <3>4, <4>1, <4>2 DEF Record, AtRecord, Creating
        <5>2. Owned' = Owned \cup {m.class}
          BY <2>2, <4>1, <5>1, OwnedAdded DEF Creating
        <5>3. policy_table \in [Instances -> Classes \cup {NoClass}]
          BY DEF TypeInv, WrapperOK
        <5>4. m.class # NoClass
          BY <2>2, <4>1, AdmissionAssumption, ProtectorAssumption
        <5>5. 0 \notin Owned' /\ Agreed'
          BY <2>0, <3>0, <5>1, <5>2 DEF Creating, Agreed
        <5>6. Injective'
          BY <2>0, <2>2, <4>1, <5>1, <5>3 DEF Injective, Creating, Owned
        <5>7. Told(t)' /\ notify'.instance = request'[t].instance
          BY <2>0, <2>2, <4>1, <5>1, <5>3, <5>4 DEF Told, Creating, ThreadOK
        <5> QED
          BY <2>3, <4>1, <5>5, <5>6, <5>7 DEF ThreadOK
      <4>3. CASE m.op = "DELETE"
        <5>1. Deleting(t) /\ policy_table' = [policy_table EXCEPT ![m.instance] = NoClass]
          BY <3>4, <4>1, <4>3 DEF Record, AtRecord, ErasedEntry
        <5>2. Owned' = Owned \ {found[t]}
          BY <2>0, <2>2, <4>1, <5>1, OwnedErased DEF Deleting
        <5>3. policy_table \in [Instances -> Classes \cup {NoClass}]
          BY DEF TypeInv, WrapperOK
        <5>4. 0 \notin Owned' /\ Agreed'
          BY <2>0, <3>0, <5>1, <5>2 DEF Deleting, Agreed
        <5>5. Injective'
          BY <2>0, <2>2, <4>1, <5>1, <5>3 DEF Injective
        <5>6. found[t] \in Owned
          BY <2>2, <4>1, <5>1 DEF Deleting, Owned
        <5>7. Told(t)' /\ notify'.instance = request'[t].instance
          BY <2>0, <2>2, <3>0, <4>1, <5>1, <5>3, <5>6 DEF Told, Deleting, ThreadOK
        <5> QED
          BY <2>3, <4>1, <5>4, <5>5, <5>7 DEF ThreadOK
      <4> QED
        BY <4>1, <4>2, <4>3 DEF AtRecord
    <3>5. CASE Answer(t)
      <4>1. /\ stage'[t] = "reply" /\ stage[t] = "answer"
            /\ notify'.instance = notify.instance
            /\ reply'[t].instance = notify.instance /\ reply'[t].status = reply[t].status
            /\ UNCHANGED <<policy_table, request, found>>
        BY <2>0, <2>1, <3>5 DEF Answer, Goto, Replies
      <4> QED
        BY <2>0, <2>3, <2>4, <3>0, <4>1 DEF ThreadOK, Told, Agreed
    <3>6. CASE Replied(t)
      <4>1. stage'[t] = "idle" /\ stage[t] = "reply" /\ UNCHANGED policy_table
        BY <2>0, <2>1, <3>6 DEF Replied, Goto
      <4> QED
        BY <2>0, <2>3, <2>4, <3>0, <4>1 DEF ThreadOK, Agreed
    <3> QED
      BY <1>4, <2>5, <3>1, <3>2, <3>3, <3>4, <3>5, <3>6 DEF SetPolicyStep
  <2>6. CASE Apply(t)
    <3> PICK m : m = request[t]
      OBVIOUS
    <3>1. stage[t] = "apply" /\ AtApply(t) /\ Agreed /\ notify.instance = m.instance
          /\ UNCHANGED <<policy_table, notify, request, found>>
      BY <2>0, <2>6 DEF Apply, ThreadOK
    <3>2. PICK ok \in BOOLEAN :
            /\ \/ m.op = "CREATE" /\ AddPolicy(m.params, m.class, ok)
               \/ m.op = "UPDATE" /\ Configure(m.params, m.class, ok)
               \/ m.op = "DELETE" /\ DeletePolicy(found[t], ok)
            /\ Outcome(t, ok)
            /\ Goto(t, IF ok /\ m.op # "UPDATE" THEN "record" ELSE "answer")
      BY <2>6 DEF Apply
    <3>3. /\ stage'[t] = IF ok /\ m.op # "UPDATE" THEN "record" ELSE "answer"
          /\ reply'[t].status = IF ~ok THEN "ERROR"
                                ELSE IF m.op = "DELETE" THEN "DELETED" ELSE "OK"
      BY <2>0, <2>1, <3>2 DEF Goto, Outcome, Replies
    <3>4. Owned' = Owned /\ Injective'
      BY <2>0, <3>1 DEF Owned, Injective
    <3>5. CASE m.op = "CREATE"
      <4>1. /\ ok => m.class \notin Active /\ Active' = Active \cup {m.class}
            /\ ~ok => Active' = Active
        BY <3>2, <3>5, AddGrows
      <4>2. CASE ok
        BY <2>0, <2>3, <3>1, <3>3, <3>4, <3>5, <4>1, <4>2
           DEF ThreadOK, AtRecord, Creating, AtApply, Agreed
      <4>3. CASE ~ok
        BY <2>0, <2>3, <3>1, <3>3, <3>4, <3>5, <4>1, <4>3 DEF ThreadOK, Told, Agreed
      <4> QED
        BY <4>2, <4>3
    <3>6. CASE m.op = "UPDATE"
      <4>1. Active' = Active
        BY <3>2, <3>6, ConfigureGrows
      <4> QED
        BY <2>0, <2>3, <3>1, <3>3, <3>4, <3>6, <4>1 DEF ThreadOK, Told, AtApply, Agreed
    <3>7. CASE m.op = "DELETE"
      <4>1. /\ ok <=> found[t] \in Active
            /\ Active' = Active \ {found[t]}
        BY <3>2, <3>7, DeleteShrinks
      <4>2. found[t] \in Owned /\ found[t] # NoClass /\ found[t] # 0
        BY <2>0, <2>2, <3>1, <3>7 DEF AtApply, Owned
      <4>3. ok /\ Active' = (Owned \ {found[t]}) \cup {0}
        BY <3>1, <4>1, <4>2 DEF Agreed
      <4> QED
        BY <2>0, <2>3, <3>1, <3>3, <3>4, <3>7, <4>2, <4>3
           DEF ThreadOK, AtRecord, Deleting, AtApply
    <3> QED
      BY <3>2, <3>5, <3>6, <3>7
  <2> QED
    BY <2>5, <2>6
<1> QED
  BY <1>1, <1>2, <1>3, <1>4 DEF Next

-----------------------------------------------------------------------------
(* The default policy, with any number of policy threads.  No message gets *)
(* hold of it: it is there, so that it cannot be created, so that no       *)
(* instance names its class, so that no DELETE finds it.                   *)

DefaultOK ==
    /\ DefaultPolicyKept
    /\ 0 \notin Owned
    /\ \A t \in PolicyThreads : found[t] # 0
    /\ \A t \in PolicyThreads : Recording(t) => request[t].class # 0

(* Every step keeps it so.                                                 *)
LEMMA DefaultStep == TypeInv /\ DefaultOK /\ [Next]_vars => DefaultOK'
<1> SUFFICES ASSUME TypeInv, DefaultOK, [Next]_vars PROVE DefaultOK'
  OBVIOUS
<1>0. /\ 0 \in Active /\ 0 \notin Owned /\ NoClass # 0
      /\ \A u \in PolicyThreads : found[u] # 0 /\ (Recording(u) => request[u].class # 0)
  BY AdmissionAssumption DEF DefaultOK, DefaultPolicyKept
<1>1. ASSUME UNCHANGED policyVars, 0 \in Active' PROVE DefaultOK'
  BY <1>0, <1>1 DEF DefaultOK, DefaultPolicyKept, Owned, Recording, policyVars
<1>2. CASE Traffic
  BY <1>0, <1>1, <1>2, TrafficActive DEF Traffic
<1>3. CASE MetricsStep \/ UNCHANGED vars
  <2>1. UNCHANGED <<protectorVars, policyVars>>
    BY <1>3 DEF MetricsStep, BeginMetrics, ScanPolicy, ScanTotals, ReadRequests,
                ProcessCounters, Expire, EndMetrics, Unmoved, vars
  <2> QED
    BY <1>0, <1>1, <2>1 DEF protectorVars, Active
<1>4. ASSUME NEW t \in PolicyThreads,
             (\E m \in Messages : Accept(t, m)) \/ Reject(t) \/ SetPolicyStep(t)
      PROVE  DefaultOK'
  <2>0. t \in Listeners /\ PolicyThreads \subseteq Listeners
    BY AdmissionAssumption
  <2>1. /\ stage \in [Listeners -> Stages]
        /\ request \in [Listeners -> Messages \cup {NoMessage}]
        /\ found \in [Listeners -> Classes \cup {NoClass}]
        /\ policy_table \in [Instances -> Classes \cup {NoClass}]
    BY DEF TypeInv, WrapperOK
  <2>2. stage[t] # "idle" => request[t] \in Messages /\ request[t].instance \in Instances
    BY <2>0, AdmissionAssumption DEF TypeInv, WrapperOK
  <2>3. /\ \A u \in Listeners \ {t} :
              stage'[u] = stage[u] /\ request'[u] = request[u] /\ found'[u] = found[u]
    BY <1>4, <2>0, <2>1 DEF SetPolicyStep, Accept, Reject, Find, ClassOf, Apply, Record, Answer, Replied,
                            Goto
  <2>4. ASSUME 0 \in Active', 0 \notin Owned', found'[t] # 0,
               Recording(t)' => request'[t].class # 0
        PROVE  DefaultOK'
    BY <1>0, <2>0, <2>3, <2>4 DEF DefaultOK, DefaultPolicyKept, Recording
  <2>5. ASSUME UNCHANGED policy_table PROVE 0 \notin Owned'
    BY <1>0, <2>5 DEF Owned
  <2>6. ASSUME UNCHANGED protectorVars PROVE 0 \in Active'
    BY <1>0, <2>6 DEF protectorVars, Active
  <2>7. ASSUME NEW m \in Messages, Accept(t, m) PROVE DefaultOK'
    <3>1. stage'[t] = "find" /\ UNCHANGED <<policy_table, found, protectorVars>>
      BY <2>0, <2>1, <2>7 DEF Accept, Goto
    <3> QED
      BY <1>0, <2>4, <2>5, <2>6, <3>1 DEF Recording
  <2>8. CASE Reject(t)
    <3>1. UNCHANGED <<policy_table, found, request, stage, protectorVars>>
      BY <2>8 DEF Reject
    <3> QED
      BY <1>0, <2>4, <2>5, <2>6, <3>1 DEF Recording
  <2>9. CASE Find(t)
    <3>1. /\ found'[t] = policy_table[request[t].instance] /\ stage[t] = "find"
          /\ stage'[t] \in {"apply", "answer"}
          /\ UNCHANGED <<policy_table, protectorVars>>
      BY <2>0, <2>1, <2>9 DEF Find, ClassOf, Goto
    <3>2. found'[t] # 0
      BY <1>0, <2>2, <3>1 DEF Owned
    <3> QED
      BY <2>4, <2>5, <2>6, <3>1, <3>2 DEF Recording
  <2>10. CASE Apply(t)
    <3>1. PICK ok \in BOOLEAN :
             /\ \/ /\ request[t].op = "CREATE"
                   /\ AddPolicy(request[t].params, request[t].class, ok)
                \/ /\ request[t].op = "UPDATE"
                   /\ Configure(request[t].params, request[t].class, ok)
                \/ /\ request[t].op = "DELETE"
                   /\ DeletePolicy(found[t], ok)
             /\ Goto(t, IF ok /\ request[t].op # "UPDATE" THEN "record" ELSE "answer")
      BY <2>10 DEF Apply
    <3>2. UNCHANGED <<policy_table, request, found>>
      BY <2>10 DEF Apply
    <3>3. stage'[t] = IF ok /\ request[t].op # "UPDATE" THEN "record" ELSE "answer"
      BY <2>0, <2>1, <3>1 DEF Goto
    <3>4. 0 \in Active'
      <4>1. ASSUME AddPolicy(request[t].params, request[t].class, ok) PROVE 0 \in Active'
        BY <1>0, <4>1 DEF AddPolicy, With, Active
      <4>2. ASSUME Configure(request[t].params, request[t].class, ok) PROVE 0 \in Active'
        BY <1>0, <4>2 DEF Configure, Active
      <4>3. ASSUME DeletePolicy(found[t], ok) PROVE 0 \in Active'
        BY <1>0, <4>3 DEF DeletePolicy, Without, Active
      <4> QED
        BY <3>1, <4>1, <4>2, <4>3
    <3>5. Recording(t)' => request'[t].class # 0
      BY <1>0, <3>1, <3>2, <3>3 DEF Recording, AddPolicy
    <3> QED
      BY <1>0, <2>4, <2>5, <3>2, <3>4, <3>5
  <2>11. CASE Record(t)
    <3>1. /\ stage[t] = "record" /\ stage'[t] = "answer"
          /\ UNCHANGED <<request, found, protectorVars>>
      BY <2>0, <2>1, <2>11 DEF Record, Goto
    <3>2. PICK x \in {request[t].class, NoClass} :
             /\ x # NoClass => request[t].op = "CREATE"
             /\ \/ policy_table' = [policy_table EXCEPT ![request[t].instance] = x]
                \/ UNCHANGED policy_table
      BY <2>11 DEF Record, ErasedEntry
    <3>3. x # 0
      BY <1>0, <3>1, <3>2 DEF Recording
    <3>4. 0 \notin Owned'
      BY <1>0, <2>1, <2>5, <3>2, <3>3 DEF Owned
    <3> QED
      BY <1>0, <2>4, <2>6, <3>1, <3>4 DEF Recording
  <2>12. CASE Answer(t) \/ Replied(t)
    <3>1. /\ stage'[t] \in {"reply", "idle"} /\ found'[t] \in {found[t], NoClass}
          /\ UNCHANGED <<policy_table, protectorVars>>
      BY <2>0, <2>1, <2>12 DEF Answer, Replied, Goto
    <3> QED
      BY <1>0, <2>4, <2>5, <2>6, <3>1 DEF Recording
  <2> QED
    BY <1>4, <2>7, <2>8, <2>9, <2>10, <2>11, <2>12 DEF SetPolicyStep
<1> QED
  BY <1>2, <1>3, <1>4 DEF Next

(* Every step is one of the protector's own or leaves it alone: setPolicy  *)
(* calls its methods with what they expect, or with no class at all.       *)
LEMMA ProtectorStepOnly == TypeInv /\ [Next]_vars => [ProtectorNext]_protectorVars
<1> SUFFICES ASSUME TypeInv, [Next]_vars PROVE [ProtectorNext]_protectorVars
  OBVIOUS
<1>1. CASE Traffic
  BY <1>1 DEF Traffic, ProtectorNext
<1>2. CASE MetricsStep \/ UNCHANGED vars
  BY <1>2 DEF MetricsStep, BeginMetrics, ScanPolicy, ScanTotals, ReadRequests,
              ProcessCounters, Expire, EndMetrics, Unmoved, vars
<1>3. ASSUME NEW t \in PolicyThreads, Apply(t) PROVE [ProtectorNext]_protectorVars
  <2>1. /\ request[t] \in Messages /\ found[t] \in Classes \cup {NoClass}
        /\ request[t].class \in Classes /\ request[t].params \in Params
    BY <1>3, AdmissionAssumption DEF Apply, TypeInv, WrapperOK
  <2>2. PICK ok \in BOOLEAN :
          \/ AddPolicy(request[t].params, request[t].class, ok)
          \/ Configure(request[t].params, request[t].class, ok)
          \/ DeletePolicy(found[t], ok)
    BY <1>3 DEF Apply
  <2>3. CASE DeletePolicy(found[t], ok) /\ found[t] \notin Classes
    <3>1. Active \subseteq Classes /\ policy_list = [id \in Active |-> policy_list[id]]
      BY DEF TypeInv, ProtectorInv, PoliciesOK, Active
    <3>2. policy_list' = policy_list
      BY <2>3, <3>1 DEF DeletePolicy, Without
    <3> QED
      BY <2>3, <3>2 DEF DeletePolicy, Control, protectorVars
  <2> QED
    BY <2>1, <2>2, <2>3 DEF ProtectorNext
<1>4. ASSUME NEW t \in PolicyThreads,
             \/ \E m \in Messages : Accept(t, m)
             \/ Reject(t) \/ Find(t) \/ Record(t) \/ Answer(t) \/ Replied(t)
      PROVE  UNCHANGED protectorVars
  BY <1>4 DEF Accept, Reject, Find, ClassOf, Record, Answer, Replied
<1> QED
  BY <1>1, <1>2, <1>3, <1>4 DEF Next, SetPolicyStep

-----------------------------------------------------------------------------
(* The theorems.                                                           *)

(* What the reports are based on, where a report is not begun yet.         *)
LEMMA InitReports == Init => ReportsOK /\ KnownOK /\ CountOK
<1> SUFFICES ASSUME Init PROVE ReportsOK /\ KnownOK /\ CountOK
  OBVIOUS
<1>1. /\ DOMAIN counters = {} /\ metrics.stage = "sleep" /\ metrics.request_count = 0
      /\ reported.requests = 0 /\ reported.accepts = 0
  BY DEF Init
<1>2. \A t \in PolicyThreads : stage[t] = "idle"
  BY AdmissionAssumption DEF Init
<1>3. ReportsOK
  BY <1>1 DEF ReportsOK, ReportsAddUp
<1>4. TableSeen /\ BasesCurrent
  BY <1>1, <1>2 DEF Init, TableSeen, BasesCurrent, Recording
<1>5. CountOK
  BY <1>1 DEF CountOK, NegativeOnlyIfDeleted
<1> QED
  BY <1>3, <1>4, <1>5 DEF KnownOK

AdmissionInv == TypeInv /\ ReportsOK /\ KnownOK /\ CountOK

(* The invariant, for any number of policy threads.                        *)
THEOREM AdmissionInvariant == Spec => []AdmissionInv
<1>1. Init => AdmissionInv
  BY InitTypes, InitReports DEF AdmissionInv
<1>2. AdmissionInv /\ [Next]_vars => AdmissionInv'
  BY TypeStep, ReportsStep, KnownStep DEF AdmissionInv
<1> QED
  BY <1>1, <1>2, PTL DEF Spec

(* The types of the wrapper's and the protector's state.                   *)
THEOREM AdmissionTyping == Spec => []TypeOK
<1>1. AdmissionInv => TypeOK
  BY InvTypes DEF AdmissionInv, TypeInv, WrapperOK, MetricsOK, TypeOK, Replies,
                  MetricsRecords
<1> QED
  BY <1>1, AdmissionInvariant, PTL

(* The protector's counters agree under the wrapper too, whatever policy   *)
(* messages and reports come in between.                                   *)
THEOREM AdmissionCounters == Spec => []CountersAgree
<1>1. AdmissionInv => CountersAgree
  BY InvCounters DEF AdmissionInv, TypeInv
<1> QED
  BY <1>1, AdmissionInvariant, PTL

(* No policy message changes the policy a decision is being counted for.   *)
THEOREM AdmissionDecision == Spec => []DecisionStands
<1>1. AdmissionInv => DecisionStands
  BY InvDecision DEF AdmissionInv, TypeInv
<1> QED
  BY <1>1, AdmissionInvariant, PTL

(* The reports of the totals add up, for any number of reports, requests   *)
(* and policy threads: nothing is reported twice or dropped.               *)
THEOREM ReportsAddUpAlways == Spec => []ReportsAddUp
<1>1. AdmissionInv => ReportsAddUp
  BY DEF AdmissionInv, ReportsOK
<1> QED
  BY <1>1, AdmissionInvariant, PTL

(* Only the deletion of a policy makes getMetrics report a negative count. *)
THEOREM NegativeOnlyIfDeletedAlways == Spec => []NegativeOnlyIfDeleted
<1>1. AdmissionInv => NegativeOnlyIfDeleted
  BY DEF AdmissionInv, CountOK
<1> QED
  BY <1>1, AdmissionInvariant, PTL

(* With one policy thread the wrapper's table and the protector's map      *)
(* agree between calls.                                                    *)
THEOREM TableMatchesAlways ==
    ASSUME OnePolicyThread
    PROVE  Spec => []TableMatchesPolicies
<1>1. Init => TypeInv /\ TableOK
  BY InitTypes, InitTable
<1>2. TypeInv /\ TableOK /\ [Next]_vars => (TypeInv /\ TableOK)'
  BY TypeStep, TableStep
<1>3. TypeInv /\ TableOK => TableMatchesPolicies
  BY DEF TableOK, TableMatchesPolicies, Settled, Agreed, Injective
<1> QED
  BY <1>1, <1>2, <1>3, PTL DEF Spec

(* With one policy thread every reply names its instance and tells what    *)
(* happened to the policy.                                                 *)
THEOREM ReplyTruthAlways ==
    ASSUME OnePolicyThread
    PROVE  Spec => []ReplyTellsTruth
<1>1. Init => TypeInv /\ TableOK
  BY InitTypes, InitTable
<1>2. TypeInv /\ TableOK /\ [Next]_vars => (TypeInv /\ TableOK)'
  BY TypeStep, TableStep
<1>3. ASSUME TypeInv, TableOK, NEW t \in PolicyThreads, stage[t] = "reply"
      PROVE  LET class == policy_table[request[t].instance] IN
             /\ reply[t].instance = request[t].instance
             /\ reply[t].status = "OK" => class \in Active
             /\ reply[t].status = "DELETED" => class = NoClass /\ found[t] \notin Active
  <2>1. ThreadOK(t) /\ Agreed
    BY <1>3 DEF TableOK, OnePolicyThread
  <2>2. request[t].instance \in Instances
    BY <1>3, AdmissionAssumption DEF TypeInv, WrapperOK
  <2> QED
    BY <1>3, <2>1, <2>2 DEF ThreadOK, Told, Agreed, Owned
<1>4. TypeInv /\ TableOK => ReplyTellsTruth
  BY <1>3 DEF ReplyTellsTruth
<1> QED
  BY <1>1, <1>2, <1>4, PTL DEF Spec

(* The default policy "never gets deleted", which the protector does not   *)
(* ensure by itself, holds under the wrapper: no policy message, and no    *)
(* number of threads that handle them, deletes it, nor makes an instance   *)
(* own it.                                                                 *)
THEOREM DefaultPolicyStays == Spec => [](DefaultPolicyKept /\ 0 \notin Owned)
<1>1. Init => TypeInv /\ DefaultOK
  <2>1. Init => DefaultOK
    BY AdmissionAssumption
       DEF Init, ProtectorInit, DefaultOK, DefaultPolicyKept, Active, Owned, Recording
  <2> QED
    BY <2>1, InitTypes
<1>2. TypeInv /\ DefaultOK /\ [Next]_vars => (TypeInv /\ DefaultOK)'
  BY TypeStep, DefaultStep
<1>3. DefaultOK => DefaultPolicyKept /\ 0 \notin Owned
  BY DEF DefaultOK
<1> QED
  BY <1>1, <1>2, <1>3, PTL DEF Spec

(* The wrapper uses the protector as its own specification allows, so that *)
(* what is proved of the protector alone holds under the wrapper.          *)
THEOREM AdmissionUsesProtector == Spec => ProtectorSpec
<1>1. Init => ProtectorInit
  BY DEF Init
<1>2. AdmissionInv /\ [Next]_vars => [ProtectorNext]_protectorVars
  BY ProtectorStepOnly DEF AdmissionInv
<1> QED
  BY <1>1, <1>2, AdmissionInvariant, PTL DEF Spec, ProtectorSpec
=============================================================================
