--------------------------- MODULE AdmissionPolicy ---------------------------
(***************************************************************************)
(* The policy wrapper (src/protector-plugin/admission_policy.cc) around    *)
(* the protector: setPolicy creates, updates and deletes policies named by *)
(* A1 policy instances, getMetrics reports counters to the collector.      *)
(*                                                                         *)
(* The wrapper has no lock.  Listener threads run setPolicy and decide     *)
(* requests, the metrics thread runs getMetrics; between any two accesses  *)
(* to the shared maps and to notify_message_ another thread may run.  One  *)
(* map operation is one step: what a torn std::map would do is left out.   *)
(***************************************************************************)
EXTENDS NetworkProtector

CONSTANTS
    PolicyThreads,  \* the listeners that receive A1 policy messages
    Instances,      \* policy_instance_id, numbered in the order of policy_table
    MaxReports,     \* bound: calls of getMetrics
    Messages,       \* the A1 messages that arrive
    NoClass,        \* no entry in policy_table, or in counters
    NoMessage       \* a listener has no A1 message in hand

ASSUME AdmissionAssumption ==
    /\ PolicyThreads \subseteq Listeners
    /\ NoClass \notin Int
    /\ Instances \subseteq Nat \ {0}
    /\ \A m \in Messages : m.op \in {"CREATE", "UPDATE", "DELETE"}
                           /\ m.instance \in Instances
                           /\ m.class \in Classes /\ m.params \in Params

(* The id under which getMetrics reports the totals.                       *)
Totals == -1

VARIABLES
    policy_table,  \* instance -> class
    notify,        \* notify_message_: its instance and status
    counters,      \* id -> what the last report of it was based on
    stage,         \* how far a listener is in setPolicy
    request,       \* listener -> the message
    found,         \* listener -> what find() on policy_table gave
    reply,         \* listener -> what it answers
    metrics,       \* the metrics thread: its stage, its iterators (cursor, id)
                   \* and the locals of process_counters
    reported       \* history: calls of getMetrics, what they reported of the totals,
                   \* and the ids deleted since they were last found and read

policyVars == <<policy_table, notify, stage, request, found, reply>>
metricVars == <<counters, metrics, reported>>
vars == <<protectorVars, policyVars, metricVars>>

Stages == {"idle", "find", "apply", "record", "answer", "reply"}
MetricStages == {"sleep", "scan", "requests", "rejects", "expire"}
NoReply == [instance |-> NoClass, status |-> "none"]
Statuses == {"none", "OK", "ERROR", "DELETED"}

TypeOK ==
    /\ ProtectorTypeOK
    /\ policy_table \in [Instances -> Classes \cup {NoClass}]
    /\ notify.instance \in Instances \cup {NoClass}
    /\ \A t \in Listeners :
          /\ stage[t] \in Stages
          /\ request[t] \in Messages \cup {NoMessage}
          /\ found[t] \in Classes \cup {NoClass}
          /\ reply[t].status \in Statuses
    /\ metrics.stage \in MetricStages
    /\ metrics.cursor \in Instances \cup {0}
    /\ \A id \in DOMAIN counters : id \in Classes \cup {Totals}

Init ==
    /\ ProtectorInit
    /\ policy_table = [i \in Instances |-> NoClass]
    /\ notify = NoReply
    /\ counters = [id \in {} |-> 0]
    /\ stage = [t \in Listeners |-> "idle"]
    /\ request = [t \in Listeners |-> NoMessage]
    /\ found = [t \in Listeners |-> NoClass]
    /\ reply = [t \in Listeners |-> NoReply]
    /\ metrics = [stage |-> "sleep", cursor |-> 0, id |-> Totals, requests |-> 0,
                  request_count |-> 0, deleted |-> FALSE]
    /\ reported = [calls |-> 0, requests |-> 0, accepts |-> 0, deleted |-> {}]

-----------------------------------------------------------------------------
(* setPolicy, run by listener t.                                           *)

Goto(t, s) == stage' = [stage EXCEPT ![t] = s]
Outcome(t, ok) == reply' = [reply EXCEPT ![t].status =
                              IF ~ok THEN "ERROR"
                              ELSE IF request[t].op = "DELETE" THEN "DELETED"
                              ELSE "OK"]

(* A message that passes the schema; its instance id goes straight into    *)
(* notify_message_, which all calls share.                                 *)
Accept(t, m) ==
    /\ stage[t] = "idle"
    /\ deciding[t] = Nobody
    /\ request' = [request EXCEPT ![t] = m]
    /\ notify' = [notify EXCEPT !.instance = m.instance]
    /\ Goto(t, "find")
    /\ UNCHANGED <<protectorVars, metricVars, policy_table, found, reply>>

(* A CREATE of an instance that exists is answered at once; an UPDATE or   *)
(* DELETE of one that does not is refused.  (A plausible bug: a second     *)
(* CREATE goes through to the protector.)                                  *)
MutantKnown(op, class) == op # "CREATE" /\ class # NoClass
Known(op, class) == class # NoClass

(* policy_table.find.  (A plausible bug: operator[], which gives an        *)
(* instance that is not there the class 0.)                                *)
MutantClassOf(i) == IF policy_table[i] = NoClass THEN 0 ELSE policy_table[i]
ClassOf(i) == policy_table[i]
Find(t) ==
    LET class == ClassOf(request[t].instance)
        op    == request[t].op
    IN
    /\ stage[t] = "find"
    /\ found' = [found EXCEPT ![t] = class]
    /\ \/ op = "CREATE" /\ Known(op, class) /\ Outcome(t, TRUE) /\ Goto(t, "answer")
       \/ op = "CREATE" /\ ~Known(op, class) /\ Goto(t, "apply") /\ UNCHANGED reply
       \/ op # "CREATE" /\ Known(op, class) /\ Goto(t, "apply") /\ UNCHANGED reply
       \/ op # "CREATE" /\ ~Known(op, class) /\ Outcome(t, FALSE) /\ Goto(t, "answer")
    /\ UNCHANGED <<protectorVars, metricVars, policy_table, notify, request>>

(* The protector's method.  A DELETE uses the class of the table, an       *)
(* UPDATE that of its payload.  (The history needs a deletion only while a *)
(* report is being made or still to come.)                                 *)
Reporting == metrics.stage # "sleep" \/ reported.calls < MaxReports
Deleted(id, ok) ==
    reported' = IF ok /\ Reporting
                THEN [reported EXCEPT !.deleted = @ \cup {id}]
                ELSE reported
Apply(t) ==
    LET m == request[t] IN
    /\ stage[t] = "apply"
    /\ \E ok \in BOOLEAN :
          /\ \/ m.op = "CREATE" /\ AddPolicy(m.params, m.class, ok) /\ UNCHANGED reported
             \/ m.op = "UPDATE" /\ Configure(m.params, m.class, ok) /\ UNCHANGED reported
             \/ m.op = "DELETE" /\ DeletePolicy(found[t], ok) /\ Deleted(found[t], ok)
          /\ Outcome(t, ok)
          /\ Goto(t, IF ok /\ m.op # "UPDATE" THEN "record" ELSE "answer")
    /\ UNCHANGED <<counters, metrics, policy_table, notify, request, found>>

(* policy_table.insert, which keeps an entry that is there, or erase.  (A  *)
(* plausible bug: the entry of a deleted policy is kept.)                  *)
MutantErasedEntry(t) == found[t]
ErasedEntry(t) == NoClass
Record(t) ==
    LET m == request[t] IN
    /\ stage[t] = "record"
    /\ \/ /\ m.op = "CREATE"
          /\ policy_table' = IF policy_table[m.instance] = NoClass
                             THEN [policy_table EXCEPT ![m.instance] = m.class]
                             ELSE policy_table
       \/ /\ m.op = "DELETE"
          /\ policy_table' = [policy_table EXCEPT ![m.instance] = ErasedEntry(t)]
    /\ Goto(t, "answer")
    /\ UNCHANGED <<protectorVars, metricVars, notify, request, found, reply>>

(* The status goes into notify_message_, which is written out.             *)
Answer(t) ==
    /\ stage[t] = "answer"
    /\ notify' = [notify EXCEPT !.status = reply[t].status]
    /\ reply' = [reply EXCEPT ![t].instance = notify.instance]
    /\ Goto(t, "reply")
    /\ UNCHANGED <<protectorVars, metricVars, policy_table, request, found>>

(* The listener sends the reply and listens again.                         *)
Replied(t) ==
    /\ stage[t] = "reply"
    /\ request' = [request EXCEPT ![t] = NoMessage]
    /\ found' = [found EXCEPT ![t] = NoClass]
    /\ reply' = [reply EXCEPT ![t] = NoReply]
    /\ Goto(t, "idle")
    /\ UNCHANGED <<protectorVars, metricVars, policy_table, notify>>

(* A message the schema rejects: nothing is extracted from it, so the      *)
(* reply carries whatever instance notify_message_ held before.            *)
Reject(t) ==
    /\ stage[t] = "idle"
    /\ deciding[t] = Nobody
    /\ notify' = [notify EXCEPT !.status = "ERROR"]
    /\ UNCHANGED <<protectorVars, metricVars, policy_table, stage, request, found, reply>>

SetPolicyStep(t) == Find(t) \/ Apply(t) \/ Record(t) \/ Answer(t) \/ Replied(t)

-----------------------------------------------------------------------------
(* getMetrics, run by the metrics thread.                                  *)

MetricsAt(s) == metrics.stage = s
Unmoved == UNCHANGED <<protectorVars, policyVars>>

(* The locals of process_counters are gone.                                *)
Returned == [metrics EXCEPT !.requests = 0, !.request_count = 0, !.deleted = FALSE]

BeginMetrics ==
    /\ MetricsAt("sleep")
    /\ reported.calls < MaxReports
    /\ reported' = [reported EXCEPT !.calls = @ + 1]
    /\ metrics' = [metrics EXCEPT !.stage = "scan"]
    /\ UNCHANGED counters /\ Unmoved

(* A range-for over a map with these keys goes from key "at" to the next   *)
(* one in order, or ends.  From a key erased under the loop it goes        *)
(* anywhere: the iterator is dangling.                                     *)
NextKeys(at, keys) ==
    {k \in keys : at \in keys => k > at /\ \A j \in keys : j > at => k <= j}
MayEnd(at, keys) == at \in keys => \A k \in keys : k <= at

(* The loop over policy_table, as the table is now; "cursor" is the last   *)
(* instance visited, 0 before the first.                                   *)
Listed == {i \in Instances : policy_table[i] # NoClass}

ScanPolicy(i) ==
    /\ MetricsAt("scan")
    /\ i \in NextKeys(metrics.cursor, Listed \cup {0})
    /\ metrics' = [Returned EXCEPT !.stage = "requests", !.cursor = i,
                                   !.id = policy_table[i]]
    /\ UNCHANGED <<counters, reported>> /\ Unmoved

ScanTotals ==
    /\ MetricsAt("scan")
    /\ MayEnd(metrics.cursor, Listed \cup {0})
    /\ metrics' = [Returned EXCEPT !.stage = "requests", !.id = Totals]
    /\ UNCHANGED <<counters, reported>> /\ Unmoved

(* get_requests and get_rejects: only the totals are read without the lock *)
(* and an unknown id gives -1.                                             *)
Readable(id) == id = Totals \/ m_access = Nobody
CounterOf(id, total, field) ==
    IF id = Totals THEN total ELSE IF id \in Active THEN policy_list[id][field] ELSE -1

ReadRequests ==
    /\ MetricsAt("requests")
    /\ Readable(metrics.id)
    /\ metrics' = [metrics EXCEPT !.stage = "rejects",
                     !.requests = CounterOf(metrics.id, net_requests, "req"),
                     !.deleted = metrics.id \in reported.deleted]
    /\ reported' = [reported EXCEPT !.deleted = @ \ (Active \cap {metrics.id})]
    /\ UNCHANGED counters /\ Unmoved

(* process_counters, from get_rejects on: the report is the difference to  *)
(* what the last one was based on, and the new base is kept.  (A plausible *)
(* bug: the base of the rejects is not brought forward; another: the base  *)
(* of the totals is taken for every policy.)                               *)
MutantBase(id, req, rej) ==
    [requests |-> req, rejects |-> IF id \in DOMAIN counters THEN counters[id].rejects ELSE rej]
Base(id, req, rej) == [requests |-> req, rejects |-> rej]
NoBase == [requests |-> 0, rejects |-> 0]
MutantPrevious(id) == IF Totals \in DOMAIN counters THEN counters[Totals] ELSE NoBase
Previous(id) == IF id \in DOMAIN counters THEN counters[id]
                                          ELSE NoBase
ProcessCounters ==
    LET id      == metrics.id
        rejects == CounterOf(id, net_rejects, "rej")
        rc      == metrics.requests - Previous(id).requests
        ac      == rc - (rejects - Previous(id).rejects)
    IN
    /\ MetricsAt("rejects")
    /\ Readable(id)
    /\ metrics' = [metrics EXCEPT !.stage = IF id = Totals THEN "expire" ELSE "scan",
                                  !.request_count = rc]
    /\ counters' = [k \in DOMAIN counters \cup {id} |->
                      IF k = id THEN Base(id, metrics.requests, rejects) ELSE counters[k]]
    /\ reported' = IF id = Totals
                   THEN [reported EXCEPT !.requests = @ + rc, !.accepts = @ + ac]
                   ELSE reported
    /\ Unmoved

(* "clear out counters for expired policies": a second range-for, over the *)
(* counters, which starts behind the smallest key, Totals; "id" is the key *)
(* it is at.  is_active looks into the protector's map without the mutex,  *)
(* so a decision or a policy message may come between any two of its       *)
(* look-ups; erase takes the key from under the iterator.                  *)
Expire(id) ==
    /\ MetricsAt("expire")
    /\ id \in NextKeys(metrics.id, DOMAIN counters)
    /\ counters' = IF id = Totals \/ id \in Active
                   THEN counters
                   ELSE [k \in DOMAIN counters \ {id} |-> counters[k]]
    /\ metrics' = [Returned EXCEPT !.id = id]
    /\ UNCHANGED reported /\ Unmoved

EndMetrics ==
    /\ MetricsAt("expire")
    /\ MayEnd(metrics.id, DOMAIN counters)
    /\ metrics' = [Returned EXCEPT !.stage = "sleep", !.cursor = 0, !.id = Totals]
    /\ UNCHANGED <<counters, reported>> /\ Unmoved

MetricsStep ==
    \/ BeginMetrics \/ ScanTotals \/ ReadRequests \/ ProcessCounters \/ EndMetrics
    \/ \E i \in Instances : ScanPolicy(i)
    \/ \E id \in DOMAIN counters : Expire(id)

-----------------------------------------------------------------------------

(* The protector's own steps; a listener does one thing at a time.         *)
Traffic ==
    /\ \/ \E t \in Listeners, s \in Profiles : stage[t] = "idle" /\ Decide(t, s)
       \/ \E t \in Listeners : CountRejection(t) \/ Conclude(t)
       \/ TickWindows
    /\ UNCHANGED <<policyVars, metricVars>>

Next ==
    \/ Traffic
    \/ \E t \in PolicyThreads, m \in Messages : Accept(t, m)
    \/ \E t \in PolicyThreads : Reject(t) \/ SetPolicyStep(t)
    \/ MetricsStep

Spec == Init /\ [][Next]_vars

-----------------------------------------------------------------------------
(* Properties.                                                             *)

Settled == \A t \in PolicyThreads : stage[t] \in {"idle", "find", "answer", "reply"}
Owned == {policy_table[i] : i \in Instances} \ {NoClass}

(* With one thread for policy messages, the wrapper's table and the        *)
(* protector's map agree between calls: every policy but the default one   *)
(* belongs to exactly one instance, through which it can be deleted.       *)
TableMatchesPolicies ==
    Settled =>
      /\ Active = Owned \cup {0}
      /\ 0 \notin Owned
      /\ \A i, j \in Instances :
            policy_table[i] = policy_table[j] /\ i # j => policy_table[i] = NoClass

(* A reply names the instance of its message and tells what happened to    *)
(* it: a policy reported OK is active, one reported DELETED is gone from   *)
(* both maps, whatever traffic and metrics do meanwhile.                   *)
ReplyTellsTruth ==
    \A t \in PolicyThreads : stage[t] = "reply" =>
      LET class == policy_table[request[t].instance] IN
      /\ reply[t].instance = request[t].instance
      /\ reply[t].status = "OK" => class \in Active
      /\ reply[t].status = "DELETED" => class = NoClass /\ found[t] \notin Active

(* The reports of the totals add up over all intervals to what the last    *)
(* one was based on: no request or rejection is reported twice or dropped, *)
(* although the two counters are read at different moments.                *)
ReportsAddUp ==
    Totals \in DOMAIN counters =>
      LET c == counters[Totals] IN
      /\ reported.requests = c.requests
      /\ reported.accepts = c.requests - c.rejects
      /\ c.requests <= net_requests /\ c.rejects <= net_rejects

(* A policy is reported with a negative number of requests only if it was  *)
(* deleted since a report last found it: it is gone from the protector but *)
(* not yet from the table, or was created again before the base of that    *)
(* report was cleared.  (That much the code does not exclude, although a   *)
(* report should "clear out counters for expired policies".)               *)
NegativeOnlyIfDeleted == metrics.request_count < 0 => metrics.deleted

(* "we may get the same create policy multiple times due to race           *)
(* conditions when the xapp starts up", so it "simply return[s] with OK":  *)
(* a CREATE is refused only for its parameters or a class someone else has.*)
RepeatedCreateOk ==
    \A t \in PolicyThreads :
      stage[t] = "reply" /\ request[t].op = "CREATE" /\ reply[t].status = "ERROR" =>
        LET m == request[t] IN
        \/ ~LegalParams(m.params, m.class) \/ ~LegalSize(m.params.window_size)
        \/ m.class \notin {n.class : n \in {k \in Messages : k.instance = m.instance}}
        \/ \E n \in Messages : n.class = m.class /\ n.instance # m.instance
=============================================================================
