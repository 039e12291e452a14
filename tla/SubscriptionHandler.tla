------------------------- MODULE SubscriptionHandler -------------------------
(***************************************************************************)
(* The subscription handler of the admission control xAPP                  *)
(* (src/E2AP-c/subscription/subscription_handler.{hpp,cc}): threads that   *)
(* subscribe to, or delete a subscription from, a gNodeB block in a timed  *)
(* wait on a condition variable; RMR listener threads run Response() for   *)
(* every E2AP PDU that arrives and wake them.                              *)
(*                                                                         *)
(* The network is a set of everything ever sent: an answer to a request    *)
(* may arrive never, late, many times and in any order.                    *)
(***************************************************************************)
EXTENDS Naturals

CONSTANTS
    Callers,      \* threads that call request_subscription(_delete)
    Responders,   \* RMR listener threads, which call Response()
    Nodes,        \* gNodeB ids
    FunctionIds,  \* RAN function ids the callers use
    TimeOut,      \* _time_out, in clock ticks
    NumRetries,   \* _num_retries
    NoFunction,   \* no answer is stored for an id
    NoThread,     \* the mutex is free
    NoMessage     \* a listener thread holds no message

Threads == Callers \cup Responders

ASSUME ThreadsAssumption ==
    /\ Callers \cap Responders = {}
    /\ NoThread \notin Threads
ASSUME IdsAssumption == FunctionIds \subseteq Nat /\ NoFunction \notin Nat
ASSUME TimeAssumption == TimeOut \in Nat /\ NumRetries \in Nat

-----------------------------------------------------------------------------

(* request_subscription overwrites the RIC request id with this value, and *)
(* shutdown_subscribe_deletes sets the same one: "requirement of           *)
(* subscription manager".                                                  *)
WireRequestId == 0

(* subscription_identifier: a caller builds <<node, function id>>, Response *)
(* builds <<node, request id>>.                                            *)
Ids == Nodes \X (FunctionIds \cup {WireRequestId})

(* The function id of the answer operator[] inserts: never set, zero here. *)
EmptyAnswer == 0

SubscribeStatus == {"request_pending", "request_success", "request_failed",
                    "request_duplicate"}
DeleteStatus == {"delete_request_pending", "delete_request_success",
                 "delete_request_failed"}
NoEntry == "no_entry"     \* find() == end(), get_request_status() == -1
Status == SubscribeStatus \cup DeleteStatus \cup {NoEntry}

Ops == {"subscribe", "delete"}
StatusOf(o) == IF o = "subscribe" THEN SubscribeStatus ELSE DeleteStatus
Pending(o) == IF o = "subscribe" THEN "request_pending"
                                 ELSE "delete_request_pending"

Results == {"SUCCESS", "ERR_TX", "ERR_TIMEOUT", "ERR_FAIL", "ERR_UNKNOWN",
            "ERR_DUPLICATE", "ERR_ENCODE", "ERR_MISSING"}
NoResult == "no_result"

Requests == [op : Ops, node : Nodes, request_id : {WireRequestId},
             function_id : FunctionIds]
Outcomes == {"successful", "unsuccessful"}

(* What Response can be handed: an answer, which echoes the request's ids, *)
(* or a PDU that is no answer to a subscription request.                   *)
Answer(req, o) == [op |-> req.op, outcome |-> o, node |-> req.node,
                   request_id |-> req.request_id,
                   function_id |-> req.function_id]
Answers == {Answer(req, o) : req \in Requests, o \in Outcomes}
OtherPDU == [op |-> "other"]

(* The stages of a call, and those of a listener thread.                   *)
CallerStages == {"idle", "encode", "check_subscription", "check_request",
                 "add", "transmit", "wait", "wake", "return"}
ListenerStages == {"listen", "respond", "notify"}

(* Between add_request_entry and delete_request_entry a call owns the      *)
(* request table's entry of its id.                                        *)
OwningStages == {"transmit", "wait", "wake"}

VARIABLES
    requests_table,          \* id -> status, or NoEntry
    subscription_responses,  \* id -> function id of the stored answer, or NoFunction
    data_lock,               \* _data_lock: the thread that holds it, or NoThread
    pc,                      \* the stage of every thread
    call,                    \* caller -> its operation and subscription id
    elapsed,                 \* caller -> ticks since "start", capped
    result,                  \* caller -> what the call returns
    inbox,                   \* listener -> the message it is handling
    sent                     \* every request transmitted so far

vars == <<requests_table, subscription_responses, data_lock, pc, call,
          elapsed, result, inbox, sent>>

Deadline == NumRetries * TimeOut
ElapsedCap == Deadline + 1     \* past this the value is "more than Deadline"

Calls == [op : Ops, id : Nodes \X FunctionIds]
NoCall == [op |-> "none"]

TypeOK ==
    /\ requests_table \in [Ids -> Status]
    /\ subscription_responses \in [Ids -> FunctionIds \cup {EmptyAnswer, NoFunction}]
    /\ data_lock \in Threads \cup {NoThread}
    /\ pc \in [Threads -> CallerStages \cup ListenerStages]
    /\ \A t \in Callers : pc[t] \in CallerStages
    /\ \A r \in Responders : pc[r] \in ListenerStages
    /\ call \in [Callers -> Calls \cup {NoCall}]
    /\ \A t \in Callers : pc[t] # "idle" => call[t] \in Calls
    /\ elapsed \in [Callers -> 0..ElapsedCap]
    /\ result \in [Callers -> Results \cup {NoResult}]
    /\ inbox \in [Responders -> Answers \cup {OtherPDU, NoMessage}]
    /\ \A r \in Responders : pc[r] = "respond" => inbox[r] \in Answers \cup {OtherPDU}
    /\ sent \subseteq Requests

Init ==
    /\ requests_table = [k \in Ids |-> NoEntry]
    /\ subscription_responses = [k \in Ids |-> NoFunction]
    /\ data_lock = NoThread
    /\ pc = [t \in Threads |-> IF t \in Callers THEN "idle" ELSE "listen"]
    /\ call = [t \in Callers |-> NoCall]
    /\ elapsed = [t \in Callers |-> 0]
    /\ result = [t \in Callers |-> NoResult]
    /\ inbox = [r \in Responders |-> NoMessage]
    /\ sent = {}

-----------------------------------------------------------------------------
(* Steps of a calling thread t.                                            *)

Goto(t, stage) == pc' = [pc EXCEPT ![t] = stage]
Unlock == data_lock' = NoThread

(* The call is over; its caller has not looked at the result yet.          *)
Return(t, res) ==
    /\ Goto(t, "return")
    /\ result' = [result EXCEPT ![t] = res]

(* std::lock_guard / std::unique_lock, and the re-acquisition in wait_for. *)
Lock(t) ==
    /\ data_lock = NoThread
    /\ pc[t] \in {"add", "transmit", "wake", "respond"}
    /\ t \in Responders => inbox[t].op # "other"
    /\ data_lock' = t
    /\ UNCHANGED <<requests_table, subscription_responses, pc, call, elapsed,
                   result, inbox, sent>>

Call(t, c) ==
    /\ pc[t] = "idle"
    /\ call' = [call EXCEPT ![t] = c]
    /\ Goto(t, IF c.op = "subscribe" THEN "encode" ELSE "check_subscription")
    /\ UNCHANGED <<requests_table, subscription_responses, data_lock, elapsed,
                   result, inbox, sent>>

(* What find() on a table shows a thread that does not hold the lock: the  *)
(* truth, or anything while another thread is inside a critical section    *)
(* and may be changing the table (a data race).                            *)
UnlockedFind(present) == IF data_lock = NoThread THEN {present} ELSE BOOLEAN

(* request_subscription_delete's two look-ups, made without the lock.      *)
CheckSubscription(t) ==
    /\ pc[t] = "check_subscription"
    /\ \E found \in UnlockedFind(subscription_responses[call[t].id] # NoFunction) :
          IF found
          THEN Goto(t, "check_request") /\ UNCHANGED result
          ELSE Return(t, "ERR_MISSING")
    /\ UNCHANGED <<requests_table, subscription_responses, data_lock, call,
                   elapsed, inbox, sent>>

CheckRequest(t) ==
    /\ pc[t] = "check_request"
    /\ \E found \in UnlockedFind(requests_table[call[t].id] # NoEntry) :
          IF found
          THEN Return(t, "ERR_DUPLICATE")
          ELSE Goto(t, "encode") /\ UNCHANGED result
    /\ UNCHANGED <<requests_table, subscription_responses, data_lock, call,
                   elapsed, inbox, sent>>

(* The ASN.1 encoder may refuse what the caller passed.                    *)
Encode(t) ==
    /\ pc[t] = "encode"
    /\ \/ Goto(t, "add") /\ UNCHANGED result
       \/ Return(t, "ERR_ENCODE")
    /\ UNCHANGED <<requests_table, subscription_responses, data_lock, call,
                   elapsed, inbox, sent>>

(* add_request_entry refuses an id that has an entry.  (A plausible bug:   *)
(* operator[] in place of find and insert, so that the entry is replaced.) *)
MutantAddOverwrites(id) == TRUE
Addable(id) == requests_table[id] = NoEntry

(* The first critical section: add_request_entry.                          *)
AddRequest(t) ==
    LET id == call[t].id IN
    /\ pc[t] = "add"
    /\ data_lock = t
    /\ IF Addable(id)
       THEN /\ requests_table' = [requests_table EXCEPT ![id] = Pending(call[t].op)]
            /\ Goto(t, "transmit")
            /\ UNCHANGED result
       ELSE /\ Return(t, "ERR_DUPLICATE")
            /\ UNCHANGED requests_table
    /\ Unlock
    /\ UNCHANGED <<subscription_responses, call, elapsed, inbox, sent>>

(* delete_request_entry.  (A plausible bug: the entry is left behind.)     *)
MutantKeepsEntry(id) == requests_table
Released(id) == [requests_table EXCEPT ![id] = NoEntry]

(* The request a call sends: its ids, with the RIC request id overwritten  *)
(* before encoding.  (A plausible bug: that is left out, and the id which  *)
(* the start-up gave, 2, goes out.)                                        *)
MutantOwnRequestId(c) == [op |-> c.op, node |-> c.id[1], request_id |-> 2,
                          function_id |-> c.id[2]]
RequestOf(c) == [op |-> c.op, node |-> c.id[1], request_id |-> WireRequestId,
                 function_id |-> c.id[2]]

(* The second critical section: tx() with the lock held, then the start    *)
(* time is taken and wait_for releases the lock.                           *)
Transmit(t) ==
    LET id == call[t].id IN
    /\ pc[t] = "transmit"
    /\ data_lock = t
    /\ \/ /\ sent' = sent \cup {RequestOf(call[t])}
          /\ elapsed' = [elapsed EXCEPT ![t] = 0]
          /\ Goto(t, "wait")
          /\ UNCHANGED <<requests_table, result>>
       \/ /\ requests_table' = Released(id)
          /\ Return(t, "ERR_TX")
          /\ UNCHANGED <<sent, elapsed>>
    /\ Unlock
    /\ UNCHANGED <<subscription_responses, call, inbox>>

(* wait_for wakes without a notification: _time_out is over, or spuriously. *)
TimedWake(t) ==
    /\ pc[t] = "wait"
    /\ Goto(t, "wake")
    /\ UNCHANGED <<requests_table, subscription_responses, data_lock, call,
                   elapsed, result, inbox, sent>>

(* f > _num_retries * _time_out.  "elapsed" counts whole ticks, so at the  *)
(* deadline itself the comparison can go either way.  (A plausible bug:    *)
(* the loop waits again whatever the time.)                                *)
MayExpire(t) == elapsed[t] >= Deadline
MutantWaitsOn(t) == TRUE
MayKeepWaiting(t) == elapsed[t] <= Deadline

KeepWaiting(t) ==
    /\ pc[t] = "wake"
    /\ data_lock = t
    /\ requests_table[call[t].id] = Pending(call[t].op)
    /\ MayKeepWaiting(t)
    /\ Goto(t, "wait")
    /\ Unlock
    /\ UNCHANGED <<requests_table, subscription_responses, call, elapsed,
                   result, inbox, sent>>

(* What the waiting loop makes of the status it finds.                     *)
ResultOf(o, status) ==
    CASE status = Pending(o)                          -> "ERR_TIMEOUT"
      [] o = "subscribe" /\ status = "request_success"   -> "SUCCESS"
      [] o = "subscribe" /\ status = "request_failed"    -> "ERR_FAIL"
      [] o = "subscribe" /\ status = "request_duplicate" -> "ERR_DUPLICATE"
      [] o = "delete" /\ status = "delete_request_success" -> "SUCCESS"
      [] o = "delete" /\ status = "delete_request_failed"  -> "ERR_FAIL"
      [] OTHER                                        -> "ERR_UNKNOWN"

(* The loop ends.  A successful subscriber reads its answer with           *)
(* operator[], which would insert an empty one if there were none.         *)
Finish(t) ==
    LET id     == call[t].id
        status == requests_table[id]
        res    == ResultOf(call[t].op, status)
    IN
    /\ pc[t] = "wake"
    /\ data_lock = t
    /\ status = Pending(call[t].op) => MayExpire(t)
    /\ subscription_responses' =
          IF status = "request_success" /\ subscription_responses[id] = NoFunction
          THEN [subscription_responses EXCEPT ![id] = EmptyAnswer]
          ELSE subscription_responses
    /\ requests_table' = Released(id)
    /\ Return(t, res)
    /\ Unlock
    /\ UNCHANGED <<call, elapsed, inbox, sent>>

(* The caller takes the result and goes on.                                *)
Leave(t) ==
    /\ pc[t] = "return"
    /\ Goto(t, "idle")
    /\ call' = [call EXCEPT ![t] = NoCall]
    /\ result' = [result EXCEPT ![t] = NoResult]
    /\ elapsed' = [elapsed EXCEPT ![t] = 0]
    /\ UNCHANGED <<requests_table, subscription_responses, data_lock, inbox, sent>>

-----------------------------------------------------------------------------
(* Steps of a listener thread r: Response().                               *)

Receive(r, m) ==
    /\ pc[r] = "listen"
    /\ inbox' = [inbox EXCEPT ![r] = m]
    /\ Goto(r, "respond")
    /\ UNCHANGED <<requests_table, subscription_responses, data_lock, call,
                   elapsed, result, sent>>

(* Not decodable, or not a subscription outcome: no lock is taken.         *)
IgnorePDU(r) ==
    /\ pc[r] = "respond"
    /\ inbox[r].op = "other"
    /\ inbox' = [inbox EXCEPT ![r] = NoMessage]
    /\ Goto(r, "listen")
    /\ UNCHANGED <<requests_table, subscription_responses, data_lock, call,
                   elapsed, result, sent>>

(* The id under which Response looks up the request an answer is for.      *)
AnswerId(m) == <<m.node, m.request_id>>

(* get_request_status(id) is the pending status of operation o.  (A        *)
(* plausible bug: any entry will do.)                                      *)
MutantAnyRequest(id, o) == requests_table[id] # NoEntry
Awaited(id, o) == requests_table[id] = Pending(o)

(* r holds the lock and handles an answer to an operation o.               *)
Handling(r, o) ==
    /\ pc[r] = "respond"
    /\ data_lock = r
    /\ inbox[r].op = o

(* valid_response: the status changes, and the waiters will be notified.   *)
(* (A plausible bug: notify_all is left out.)                              *)
MutantSilent(r) == Goto(r, "listen")
Announce(r) == Goto(r, "notify")
Conclude(r, status) ==
    /\ requests_table' = [requests_table EXCEPT ![AnswerId(inbox[r])] = status]
    /\ Announce(r)
    /\ inbox' = [inbox EXCEPT ![r] = NoMessage]
    /\ Unlock
    /\ UNCHANGED <<call, elapsed, result, sent>>

(* add_subscription_entry keeps the answer that is there.  (A plausible    *)
(* bug: it takes the new one.)                                             *)
MutantIsNew(id) == TRUE
IsNew(id) == subscription_responses[id] = NoFunction
SubscribeAnswered(r) ==
    LET m  == inbox[r]
        id == AnswerId(m)
    IN
    /\ Handling(r, "subscribe")
    /\ Awaited(id, "subscribe")
    /\ \/ /\ m.outcome = "successful"
          /\ subscription_responses' =
                IF IsNew(id) THEN [subscription_responses EXCEPT ![id] = m.function_id]
                             ELSE subscription_responses
          /\ Conclude(r, IF IsNew(id) THEN "request_success" ELSE "request_duplicate")
       \/ /\ m.outcome = "unsuccessful"
          /\ Conclude(r, "request_failed")
          /\ UNCHANGED subscription_responses

(* delete_subscription_entry.  (A plausible bug: the answer stays.)        *)
MutantNotErased(id) == subscription_responses
Erased(id) == [subscription_responses EXCEPT ![id] = NoFunction]
DeleteAnswered(r) ==
    LET m  == inbox[r]
        id == AnswerId(m)
        found == subscription_responses[id] # NoFunction
    IN
    /\ Handling(r, "delete")
    /\ Awaited(id, "delete")
    /\ \/ /\ m.outcome = "successful"
          /\ subscription_responses' = Erased(id)
          /\ Conclude(r, IF found THEN "delete_request_success"
                                  ELSE "delete_request_failed")
       \/ /\ m.outcome = "unsuccessful"
          /\ Conclude(r, "delete_request_failed")
          /\ UNCHANGED subscription_responses

(* No request of this kind is pending under the answer's id.               *)
AnswerIgnored(r) ==
    /\ \E o \in Ops : /\ Handling(r, o)
                      /\ ~Awaited(AnswerId(inbox[r]), o)
    /\ Goto(r, "listen")
    /\ inbox' = [inbox EXCEPT ![r] = NoMessage]
    /\ Unlock
    /\ UNCHANGED <<requests_table, subscription_responses, call, elapsed,
                   result, sent>>

(* notify_all, after the lock was released: every waiter wakes.            *)
Waiting(t) == pc[t] = "wait"
Notify(r) ==
    /\ pc[r] = "notify"
    /\ pc' = [t \in Threads |->
                IF t = r THEN "listen"
                ELSE IF Waiting(t) THEN "wake" ELSE pc[t]]
    /\ UNCHANGED <<requests_table, subscription_responses, data_lock, call,
                   elapsed, result, inbox, sent>>

-----------------------------------------------------------------------------

(* clear(), which only tests call, between flows and from the only thread. *)
Clear ==
    /\ \A t \in Threads : pc[t] \in {"idle", "listen"}
    /\ requests_table' = [k \in Ids |-> NoEntry]
    /\ subscription_responses' = [k \in Ids |-> NoFunction]
    /\ UNCHANGED <<data_lock, pc, call, elapsed, result, inbox, sent>>

(* The clock: one tick for every call that has taken its start time.       *)
Timed(t) == pc[t] \in {"wait", "wake"}
Tick ==
    /\ \E t \in Callers : Timed(t) /\ elapsed[t] < ElapsedCap
    /\ elapsed' = [t \in Callers |->
                     IF Timed(t) /\ elapsed[t] < ElapsedCap
                     THEN elapsed[t] + 1 ELSE elapsed[t]]
    /\ UNCHANGED <<requests_table, subscription_responses, data_lock, pc, call,
                   result, inbox, sent>>

(* What thread t does on its own once it runs.                             *)
InCall(t) ==
    \/ CheckSubscription(t) \/ CheckRequest(t) \/ Encode(t)
    \/ AddRequest(t) \/ Transmit(t)
    \/ TimedWake(t) \/ KeepWaiting(t) \/ Finish(t)
CallerStep(t) == InCall(t) \/ Leave(t)
ListenerStep(r) ==
    \/ IgnorePDU(r) \/ SubscribeAnswered(r) \/ DeleteAnswered(r)
    \/ AnswerIgnored(r) \/ Notify(r)

Deliverable == {Answer(req, o) : req \in sent, o \in Outcomes} \cup {OtherPDU}

Next ==
    \/ \E t \in Callers, c \in Calls : Call(t, c)
    \/ \E t \in Callers : CallerStep(t)
    \/ \E t \in Threads : Lock(t)
    \/ \E r \in Responders, m \in Deliverable : Receive(r, m)
    \/ \E r \in Responders : ListenerStep(r)
    \/ Clear
    \/ Tick

Spec == Init /\ [][Next]_vars

(* Threads run, the clock advances (so wait_for ends), and a thread is not *)
(* kept for ever from a mutex that is released again and again.  Nothing   *)
(* is assumed of the network.                                              *)
Fairness ==
    /\ \A t \in Callers : WF_vars(CallerStep(t))
    /\ \A r \in Responders : WF_vars(ListenerStep(r))
    /\ \A t \in Threads : SF_vars(Lock(t))
    /\ WF_vars(Tick)

FairSpec == Spec /\ Fairness

-----------------------------------------------------------------------------
(* Properties.                                                             *)

Owner(t, k) == pc[t] \in OwningStages /\ call[t].id = k

(* Every entry of the request table belongs to exactly one call in         *)
(* progress and shows a status of that call's kind; every call past        *)
(* add_request_entry has its entry.  The table is shared by all calling    *)
(* threads and written by the listener threads (set_request_status), and   *)
(* each call erases "its" entry blindly when it ends.                      *)
OwnerHasEntry ==
    \A t \in Callers : pc[t] \in OwningStages =>
       requests_table[call[t].id] \in StatusOf(call[t].op)
OneOwner ==
    \A t, u \in Callers, k \in Ids : Owner(t, k) /\ Owner(u, k) => t = u
EntryHasOwner ==
    \A k \in Ids : requests_table[k] # NoEntry => \E t \in Callers : Owner(t, k)
EntryOwned == OwnerHasEntry /\ OneOwner /\ EntryHasOwner

(* No call ever ends in the loop's last branch, "if we are here, some      *)
(* spurious status obtained": no interleaving of calls and answers shows   *)
(* a waiter a status that its loop does not handle.                        *)
NoSpuriousStatus == \A t \in Callers : result[t] # "ERR_UNKNOWN"

(* While a final status waits for its caller to wake, the subscription     *)
(* table agrees with it, whatever other calls and answers do in between:   *)
(* the successful subscriber's operator[] finds the answer and does not    *)
(* insert an empty one.                                                    *)
StatusMatchesTable ==
    \A k \in Ids :
      /\ requests_table[k] \in {"request_success", "request_duplicate"} =>
            subscription_responses[k] # NoFunction
      /\ requests_table[k] = "delete_request_success" =>
            subscription_responses[k] = NoFunction

Subscribed == {k \in Ids : subscription_responses[k] # NoFunction}

(* A status moves once, from pending to final, and while its call is       *)
(* blocked; the subscription table changes for an id only in the step that *)
(* gives that id's pending call its SUCCESS (or in clear()).  Late and     *)
(* repeated answers therefore never overwrite an answer already given.     *)
SubscribedNow(k) == requests_table[k] = "request_pending"
                    /\ requests_table'[k] = "request_success"
DeletedNow(k) == requests_table[k] = "delete_request_pending"
                 /\ requests_table'[k] = "delete_request_success"
StatusMovesOnce ==
    \A k \in Ids : requests_table'[k] # requests_table[k] =>
       \/ requests_table[k] = NoEntry
       \/ requests_table'[k] = NoEntry
       \/ requests_table[k] \in {"request_pending", "delete_request_pending"}
TableMovesWithStatus ==
    /\ \A k \in Subscribed' \ Subscribed : SubscribedNow(k)
    /\ \A k \in Subscribed \ Subscribed' : DeletedNow(k) \/ Clear
AnswerOnce == [][StatusMovesOnce /\ TableMovesWithStatus]_vars

(* A stranded call sits in wait_for although its answer was recorded, and  *)
(* no notify_all is on its way: it wakes when its _time_out is over.       *)
(* wait_for has no predicate and the lock is free between add_request_entry *)
(* and tx(), so an answer to an earlier request of the same id can be       *)
(* recorded and announced there, before the wait starts, and strand the    *)
(* call.  That is the only way: a call already waiting is never stranded   *)
(* by its answer, by the others' notifications, or by waiting again.       *)
Undecided(t) == requests_table[call[t].id] = Pending(call[t].op)
Stranded(t) ==
    /\ pc[t] = "wait" /\ ~Undecided(t)
    /\ \A r \in Responders : pc[r] # "notify"
OnlyEarlyAnswersStrand ==
    [][ \A t \in Callers :
          Stranded(t)' => Stranded(t) \/ (pc[t] = "transmit" /\ ~Undecided(t)) ]_vars

(* Every call returns, whether or not the network ever delivers an answer. *)
CallReturns == \A t \in Callers : pc[t] # "idle" ~> pc[t] = "idle"

(* The handler implements SubscriptionService: the subscribed ids are the  *)
(* keys of subscription_responses, and a call is decided when Response     *)
(* changes its status, before it wakes.                                    *)
Session(t) ==
    LET c == call[t]
        status == requests_table[c.id]
        phase == IF status = Pending(c.op) THEN "admitted" ELSE "decided"
    IN
    CASE pc[t] = "idle" -> [phase |-> "idle"]
      [] pc[t] = "return" ->
            [phase |-> "answered", call |-> c, result |-> result[t]]
      [] pc[t] \in OwningStages /\ phase = "admitted" ->
            [phase |-> phase, call |-> c]
      [] pc[t] \in OwningStages /\ phase = "decided" ->
            [phase |-> phase, call |-> c, result |-> ResultOf(c.op, status)]
      [] OTHER -> [phase |-> "asked", call |-> c]

Sessions == [t \in Callers |-> Session(t)]
Service == INSTANCE SubscriptionService WITH
             subscribed <- Subscribed, session <- Sessions
ImplementsService == Service!Spec

=============================================================================
