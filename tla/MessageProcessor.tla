--------------------------- MODULE MessageProcessor ---------------------------
(***************************************************************************)
(* The way of a message through the xAPP: a listener thread takes it from  *)
(* RMR (XaPP::_workThread), its message_processor decodes it and hands it  *)
(* to the protector all listeners share, or to the policy handler; the     *)
(* answer is encoded into the processor's buffer and sent (XaPP::Send).    *)
(*                                                                         *)
(* Each listener has a processor of its own; what only that thread touches *)
(* is done in one step.  The protector's state, its sgnb_data and its      *)
(* mutex are shared.  A PDU is a record of the fields the code looks at;   *)
(* "size" stands for the encoded size of the acknowledgement it calls for. *)
(* Subscription answers (SubscriptionHandler) are not repeated here, and   *)
(* of setPolicy (AdmissionPolicy) only what it asks of the protector is.   *)
(***************************************************************************)
EXTENDS NetworkProtector, Sequences

CONSTANTS
    Messages,      \* the RMR messages there can be
    Arrivals,      \* the sets of messages a run may be about
    NoMessage,     \* a listener has no message in hand
    NoCall,        \* no call process id
    NoId,          \* no SgNB UE X2AP id
    BufferSize,    \* _buffer_size, of the scratch buffer
    HeaderSize,    \* size of an encoded E2SM control header
    RequestSize,   \* what the E2AP control request adds to what it carries
    RejectSize,    \* size of an encoded SgNB Addition Request Reject
    LinkRetries    \* link_retries[]

ASSUME ProcessorAssumption ==
    /\ NoMessage \notin Messages
    /\ Arrivals \subseteq SUBSET Messages
    /\ {BufferSize, HeaderSize, RequestSize, RejectSize} \subseteq Nat \ {0}
    /\ LinkRetries \in [{"LOW_LATENCY", "HIGH_RELIABILITY"} -> Nat]
    /\ LinkRetries["LOW_LATENCY"] <= LinkRetries["HIGH_RELIABILITY"]
    /\ \A m \in Messages :
          /\ m.mtype = "RIC_INDICATION" => m.size \in Nat /\ m.profile \in Profiles
          /\ m.mtype = "A1_POLICY_REQ" =>
                m.params \in Params /\ m.class \in Classes

VARIABLES
    operating_mode,
    inbox,            \* messages RMR has not handed out yet
    at,               \* where a listener is in its loop
    message,          \* listener -> the message it works on
    indication_data,  \* listener -> fields of the last indication
    sgnb_data,        \* the protector's fields of the last request
    response,         \* listener -> what it is about to send
    attempts,         \* listener -> transmissions that asked for a retry
    _listen,
    decided,          \* history: message -> the verdict the protector counted
    outcome,          \* history: message -> how the processor finished it
    sent              \* history: message -> the answers on the network

listenerVars == <<at, message, indication_data, response, attempts>>
historyVars == <<decided, outcome, sent>>
vars == <<protectorVars, operating_mode, inbox, listenerVars, sgnb_data, _listen,
          historyVars>>

Modes == {"CONTROL", "REPORT", "E2SM_PROC_ONLY", "E2AP_PROC_ONLY"}
Places == {"check", "poll", "plugin", "deciding", "send", "exited"}
Errors == {"RMR_ERROR", "E2AP_INDICATION_ERROR", "E2AP_CONTROL_ERROR",
           "E2SM_INDICATION_HEADER_ERROR", "E2SM_CONTROL_HEADER_ERROR",
           "BUFFER_ERROR", "PLUGIN_ERROR"}
Nothing == [req_seq_no |-> 1, call_process_id |-> NoCall]
NoRequest == [menb_ue_x2ap_id |-> 0, sgnb_ue_x2ap_id |-> 0, erabs |-> {}, size |-> 0]

TypeOK ==
    /\ ProtectorTypeOK
    /\ operating_mode \in Modes
    /\ inbox \subseteq Messages
    /\ _listen \in BOOLEAN
    /\ \A t \in Listeners :
          /\ at[t] \in Places
          /\ message[t] \in Messages \cup {NoMessage}
          /\ attempts[t] \in 0..LinkRetries["HIGH_RELIABILITY"]
    /\ \A m \in Messages :
          /\ decided[m] \in {"no", "accepted", "rejected"}
          /\ outcome[m] \in {"none", "NO_ERROR", "SENT", "FAILED"} \cup Errors

Init ==
    /\ ProtectorInit
    /\ operating_mode \in Modes
    /\ inbox \in Arrivals
    /\ at = [t \in Listeners |-> "check"]
    /\ message = [t \in Listeners |-> NoMessage]
    /\ indication_data = [t \in Listeners |-> Nothing]
    /\ sgnb_data = NoRequest
    /\ response = [t \in Listeners |-> NoMessage]
    /\ attempts = [t \in Listeners |-> 0]
    /\ _listen = TRUE
    /\ decided = [m \in Messages |-> "no"]
    /\ outcome = [m \in Messages |-> "none"]
    /\ sent = [m \in Messages |-> <<>>]

(* How main() translates the operating mode.                               *)
ReportModeOnly == operating_mode # "CONTROL"

-----------------------------------------------------------------------------
(* The listener's loop, _workThread.                                       *)

Goto(t, place) == at' = [at EXCEPT ![t] = place]

(* The loop condition.                                                     *)
LoopAgain(t) ==
    /\ at[t] = "check"
    /\ Goto(t, IF _listen THEN "poll" ELSE "exited")
    /\ UNCHANGED <<protectorVars, operating_mode, inbox, message, indication_data,
                   response, attempts, sgnb_data, _listen, historyVars>>

(* epoll_wait, or rmr_torcv_msg, times out.                                *)
NothingReceived(t) ==
    /\ at[t] = "poll"
    /\ Goto(t, "check")
    /\ UNCHANGED <<protectorVars, operating_mode, inbox, message, indication_data,
                   response, attempts, sgnb_data, _listen, historyVars>>

(* operator() is left with nothing to send, in the given state.            *)
Finished(t, m, state) ==
    /\ outcome' = [outcome EXCEPT ![m] = state]
    /\ message' = [message EXCEPT ![t] = NoMessage]
    /\ response' = [response EXCEPT ![t] = NoMessage]
    /\ Goto(t, "check")

(* operator() returns true, with the answer in the message's buffer.       *)
Answering(t, m, answer) ==
    /\ message' = [message EXCEPT ![t] = m]
    /\ response' = [response EXCEPT ![t] = answer]
    /\ Goto(t, "send")
    /\ UNCHANGED outcome

Take(t, m) ==
    /\ at[t] = "poll"
    /\ m \in inbox
    /\ inbox' = inbox \ {m}
    /\ UNCHANGED <<operating_mode, attempts, _listen, sent>>

(* A type operator() does not know is logged.                              *)
ReceiveOther(t, m) ==
    /\ Take(t, m)
    /\ m.mtype \notin {"RIC_INDICATION", "A1_POLICY_REQ"}
    /\ Finished(t, m, "NO_ERROR")
    /\ UNCHANGED <<protectorVars, indication_data, sgnb_data, decided>>

-----------------------------------------------------------------------------
(* RIC_INDICATION: E2AP and E2SM.                                          *)

(* ric_indication::get_fields, which fails for a null message only, before *)
(* it writes a field.  Without the optional call process id, the pointer   *)
(* into an earlier PDU, freed by now, stays: what it points to is anything. *)
Fields(t, m) ==
    [req_seq_no |-> m.req_seq_no,
     call_process_id |->
        IF m.call_process_id # NoCall THEN m.call_process_id
        ELSE IF indication_data[t].call_process_id # NoCall THEN "dangling"
        ELSE NoCall]

(* What decoding can fail at, as far as the processing level looks.        *)
DecodingState == [rmr |-> "RMR_ERROR", e2ap |-> "E2AP_INDICATION_ERROR",
                  header |-> "E2SM_INDICATION_HEADER_ERROR"]
Looked == IF operating_mode = "E2AP_PROC_ONLY" THEN {"rmr", "e2ap"}
          ELSE DOMAIN DecodingState
Decoded(m) == IF m.fault \in Looked THEN DecodingState[m.fault] ELSE "NO_ERROR"

(* The plugin is called.  (A plausible bug: one processing level is        *)
(* forgotten.)                                                             *)
MutantForPlugin(m) == Decoded(m) = "NO_ERROR" /\ operating_mode # "E2AP_PROC_ONLY"
ForPlugin(m) ==
    Decoded(m) = "NO_ERROR" /\ operating_mode \notin {"E2AP_PROC_ONLY", "E2SM_PROC_ONLY"}

ReceiveIndication(t, m) ==
    /\ Take(t, m)
    /\ m.mtype = "RIC_INDICATION"
    /\ indication_data' = IF m.fault \in {"rmr", "e2ap"} THEN indication_data
                          ELSE [indication_data EXCEPT ![t] = Fields(t, m)]
    /\ IF ForPlugin(m)
       THEN /\ message' = [message EXCEPT ![t] = m]
            /\ Goto(t, "plugin")
            /\ UNCHANGED <<response, outcome>>
       ELSE Finished(t, m, Decoded(m))
    /\ UNCHANGED <<protectorVars, sgnb_data, decided>>

-----------------------------------------------------------------------------
(* RIC_INDICATION: the plugin and the answer.                              *)

(* sgnb_addition_request::get_fields, after sgnb_data was cleared.         *)
Extracted(m) == [menb_ue_x2ap_id |-> m.menb_ue_x2ap_id,
                 sgnb_ue_x2ap_id |-> m.sgnb_ue_x2ap_id, erabs |-> m.erabs, size |-> m.size]

(* The protector takes its mutex.  No SgNB Addition Request, or one whose  *)
(* E-RABs it cannot read: nothing is counted.                              *)
PluginRefuses(t) ==
    LET m == message[t] IN
    /\ at[t] = "plugin"
    /\ Free
    /\ m.fault \in {"x2ap", "erab"}
    /\ sgnb_data' = IF m.fault = "erab" THEN Extracted(m) ELSE sgnb_data
    /\ Finished(t, m, "PLUGIN_ERROR")
    /\ UNCHANGED <<protectorVars, operating_mode, inbox, indication_data, attempts,
                   _listen, decided, sent>>

PluginDecides(t) ==
    LET m == message[t] IN
    /\ at[t] = "plugin"
    /\ m.fault \notin {"x2ap", "erab"}
    /\ Decide(t, m.profile)
    /\ sgnb_data' = Extracted(m)
    /\ decided' = [decided EXCEPT ![m] =
                      IF deciding'[t].accept THEN "accepted" ELSE "rejected"]
    /\ Goto(t, "deciding")
    /\ UNCHANGED <<operating_mode, inbox, message, indication_data, response, attempts,
                   _listen, outcome, sent>>

(* The mutex holder counts a rejection for its policy.                     *)
PluginCounts(t) ==
    /\ at[t] = "deciding"
    /\ CountRejection(t)
    /\ UNCHANGED <<operating_mode, inbox, listenerVars, sgnb_data, _listen, historyVars>>

(* encode_sgnb_addition_response: its mandatory ids must be there, for an  *)
(* acknowledgement at least one E-RAB, and the PDU must fit.               *)
ResponseSize(accept) == IF accept THEN sgnb_data.size ELSE RejectSize
Encodable(accept) ==
    /\ sgnb_data.sgnb_ue_x2ap_id # NoId
    /\ accept => sgnb_data.erabs # {}
    /\ ResponseSize(accept) <= BufferSize

(* A response of size n is at the front of the scratch buffer and the      *)
(* control header goes behind it.  The control request, which carries      *)
(* both, is encoded into the payload of the RMR message; the limit its     *)
(* encoder is given, mlen, is the size of the scratch buffer all the same. *)
(* (A plausible bug: a request of that very size is taken for too long.)   *)
RequestLimit == BufferSize
MutantControlState(n) ==
    IF n = BufferSize \/ n + HeaderSize = BufferSize THEN "BUFFER_ERROR"
    ELSE IF n + HeaderSize > BufferSize THEN "E2SM_CONTROL_HEADER_ERROR"
    ELSE IF n + HeaderSize + RequestSize >= RequestLimit THEN "E2AP_CONTROL_ERROR"
    ELSE "NO_ERROR"
ControlState(n) ==
    IF n = BufferSize \/ n + HeaderSize = BufferSize THEN "BUFFER_ERROR"
    ELSE IF n + HeaderSize > BufferSize THEN "E2SM_CONTROL_HEADER_ERROR"
    ELSE IF n + HeaderSize + RequestSize > RequestLimit THEN "E2AP_CONTROL_ERROR"
    ELSE "NO_ERROR"

(* In report mode the protector encodes nothing and cannot fail.           *)
PluginState(accept) ==
    IF ReportModeOnly \/ Encodable(accept) THEN "NO_ERROR" ELSE "PLUGIN_ERROR"

(* Nobody waits for an answer.                                             *)
NoAnswer(m) == ReportModeOnly \/ m.type = "report"

(* The response, as the mutex holder encodes it.  (A plausible bug: the    *)
(* encoder is called for an acknowledgement whatever the verdict.)         *)
MutantX2AP(accept) == [accept |-> TRUE, menb_ue_x2ap_id |-> sgnb_data.menb_ue_x2ap_id]
X2AP(accept) == [accept |-> accept, menb_ue_x2ap_id |-> sgnb_data.menb_ue_x2ap_id]

(* The rest of the protector's operator(), with the mutex, and what the    *)
(* processor makes of the response: a RIC control request with the ids of  *)
(* the indication.                                                         *)
ControlRequest(t, x2ap) ==
    [mtype |-> "RIC_CONTROL_REQ",
     req_seq_no |-> indication_data[t].req_seq_no,
     call_process_id |-> indication_data[t].call_process_id,
     x2ap |-> x2ap]
PluginAnswers(t) ==
    LET m      == message[t]
        accept == deciding[t].accept
        state  == IF PluginState(accept) # "NO_ERROR" THEN PluginState(accept)
                  ELSE IF NoAnswer(m) THEN "NO_ERROR"
                  ELSE ControlState(ResponseSize(accept))
    IN
    /\ at[t] = "deciding"
    /\ Conclude(t)
    /\ IF state = "NO_ERROR" /\ ~NoAnswer(m)
       THEN Answering(t, m, ControlRequest(t, X2AP(accept)))
       ELSE Finished(t, m, state)
    /\ UNCHANGED <<operating_mode, inbox, indication_data, sgnb_data, attempts, _listen,
                   decided, sent>>

-----------------------------------------------------------------------------
(* A1_POLICY_REQ.                                                          *)

(* What setPolicy asks of the protector, if it gets so far: a CREATE and    *)
(* an UPDATE name a class, a DELETE has that of its instance, which is     *)
(* never the default one.                                                  *)
PolicyEffect(m) ==
    \/ UNCHANGED protectorVars
    \/ \E ok \in BOOLEAN :
          \/ m.op = "CREATE" /\ AddPolicy(m.params, m.class, ok)
          \/ m.op = "UPDATE" /\ Configure(m.params, m.class, ok)
          \/ m.op = "DELETE" /\ \E id \in Classes \ {0} : DeletePolicy(id, ok)

(* policy_handler.  A message without JSON or policy type leaves the       *)
(* response empty, and an empty message is not sent.  (A plausible bug:    *)
(* only a DELETE fills the response in.)                                   *)
MutantResponds(m) == m.decodable /\ m.op = "DELETE"
Responds(m) == m.decodable
ReceivePolicy(t, m) ==
    /\ Take(t, m)
    /\ m.mtype = "A1_POLICY_REQ"
    /\ \/ /\ ~Responds(m)
          /\ Finished(t, m, "NO_ERROR")
          /\ UNCHANGED protectorVars
       \/ /\ Responds(m)
          /\ PolicyEffect(m)
          /\ Answering(t, m, [mtype |-> "A1_POLICY_RESP", class |-> m.class])
    /\ UNCHANGED <<indication_data, sgnb_data, decided>>

-----------------------------------------------------------------------------
(* XaPP::Send.                                                             *)

Link(t) == IF response[t].mtype = "A1_POLICY_RESP" THEN "HIGH_RELIABILITY"
           ELSE "LOW_LATENCY"

Sending(t) ==
    /\ at[t] = "send"
    /\ UNCHANGED <<protectorVars, operating_mode, inbox, indication_data, sgnb_data,
                   _listen, decided>>

(* RMR takes the message.                                                  *)
SendOk(t) ==
    LET m == message[t] IN
    /\ Sending(t)
    /\ sent' = [sent EXCEPT ![m] = Append(@, response[t])]
    /\ attempts' = [attempts EXCEPT ![t] = 0]
    /\ Finished(t, m, "SENT")

(* RMR_ERR_RETRY, and the next transmission is still one of the retries,   *)
(* or no longer.  (Plausible bugs: the count wraps before the limit is     *)
(* reached; the limit is off by one.)                                      *)
MutantOneMore(i) == (i + 1) % 2
OneMore(i) == i + 1
MutantMayRetry(i, link) == i <= LinkRetries[link] + 1
MayRetry(i, link) == i <= LinkRetries[link]
SendAgain(t) ==
    /\ Sending(t)
    /\ MayRetry(OneMore(attempts[t]), Link(t))
    /\ attempts' = [attempts EXCEPT ![t] = OneMore(@)]
    /\ UNCHANGED <<at, message, response, outcome, sent>>
SendGivesUp(t) ==
    /\ Sending(t)
    /\ ~MayRetry(OneMore(attempts[t]), Link(t))
    /\ attempts' = [attempts EXCEPT ![t] = 0]
    /\ Finished(t, message[t], "FAILED")
    /\ UNCHANGED sent

(* Any other state, or no buffer, from RMR.                                *)
SendFails(t) ==
    /\ Sending(t)
    /\ attempts' = [attempts EXCEPT ![t] = 0]
    /\ Finished(t, message[t], "FAILED")
    /\ UNCHANGED sent

-----------------------------------------------------------------------------

(* XaPP::Stop, up to the joins.                                            *)
Stop ==
    /\ _listen
    /\ _listen' = FALSE
    /\ UNCHANGED <<protectorVars, operating_mode, inbox, listenerVars, sgnb_data,
                   historyVars>>

Joined == (\A t \in Listeners : at[t] = "exited") /\ UNCHANGED vars

Receive(t) ==
    \/ NothingReceived(t)
    \/ \E m \in inbox : ReceiveIndication(t, m) \/ ReceivePolicy(t, m) \/ ReceiveOther(t, m)
ListenerStep(t) ==
    \/ LoopAgain(t) \/ Receive(t)
    \/ PluginRefuses(t) \/ PluginDecides(t) \/ PluginCounts(t) \/ PluginAnswers(t)
    \/ SendOk(t) \/ SendAgain(t) \/ SendGivesUp(t) \/ SendFails(t)

Next ==
    \/ \E t \in Listeners : ListenerStep(t)
    \/ Stop
    \/ Joined

Spec == Init /\ [][Next]_vars

(* Threads run, epoll_wait times out, and who waits for the mutex gets it: *)
(* there are finitely many messages, so it cannot be taken for ever.       *)
Fairness == \A t \in Listeners : WF_vars(ListenerStep(t))
FairSpec == Spec /\ Fairness

-----------------------------------------------------------------------------
(* Properties.                                                             *)

Answers(m) == {sent[m][i] : i \in DOMAIN sent[m]}
Controls(m) == {a \in Answers(m) : a.mtype = "RIC_CONTROL_REQ"}

(* What the RAN receives for an indication is the answer to that very      *)
(* indication: its request, its call process if it names one, the UE of    *)
(* its SgNB request and the verdict the protector counted for it, although *)
(* all listeners share sgnb_data.                                          *)
AnswersMatch ==
    \A m \in Messages : \A a \in Controls(m) :
       /\ a.req_seq_no = m.req_seq_no
       /\ m.call_process_id # NoCall => a.call_process_id = m.call_process_id
       /\ a.x2ap.menb_ue_x2ap_id = m.menb_ue_x2ap_id
       /\ decided[m] = IF a.x2ap.accept THEN "accepted" ELSE "rejected"

(* The pipeline implements AdmissionService: whatever the threads, modes,  *)
(* buffers and retries do, a request is judged once, counted before it is  *)
(* answered, and answered at most once, as itself.                         *)
Judged(m) == \E t \in Listeners : message[t] = m /\ at[t] = "deciding"
Replies(m) ==
    [i \in DOMAIN sent[m] |->
       [req_seq_no |-> sent[m][i].req_seq_no,
        menb_ue_x2ap_id |-> sent[m][i].x2ap.menb_ue_x2ap_id,
        accept |-> sent[m][i].x2ap.accept]]
Case(m) ==
    IF decided[m] = "no" /\ sent[m] = <<>>
    THEN [phase |-> "open", accept |-> FALSE, answers |-> <<>>]
    ELSE [phase |-> IF Judged(m) THEN "judged" ELSE "counted",
          accept |-> decided[m] = "accepted",
          answers |-> Replies(m)]
Requests == {m \in Messages : m.mtype = "RIC_INDICATION"}
Service == INSTANCE AdmissionService WITH
    cases <- [m \in Requests |-> Case(m)],
    requests <- net_requests,
    rejects <- net_rejects
ImplementsService == Service!Spec

(* A message the processor is done with and never tried to send an answer  *)
(* to is of a type that has none; or a policy message that is no JSON; or  *)
(* an indication that was not counted, because it does not decode or the   *)
(* mode stops before the plugin; or one that was, where the mode or the    *)
(* RAN wants no answer, the answer does not fit, the request has no SgNB   *)
(* UE X2AP id, or is accepted and asks for no E-RAB.                       *)
Fits(m) ==
    LET n == IF decided[m] = "accepted" THEN m.size ELSE RejectSize IN
    n + HeaderSize + RequestSize <= RequestLimit
NotCountedOnlyIf(m) ==
    m.fault # "none" \/ operating_mode \in {"E2AP_PROC_ONLY", "E2SM_PROC_ONLY"}
CountedInVainOnlyIf(m) ==
    \/ operating_mode # "CONTROL" \/ m.type = "report"
    \/ ~Fits(m) \/ m.sgnb_ue_x2ap_id = NoId
    \/ decided[m] = "accepted" /\ m.erabs = {}
UnansweredOnlyIf ==
    \A m \in Messages : outcome[m] \notin {"none", "SENT", "FAILED"} =>
       \/ m.mtype \notin {"A1_POLICY_REQ", "RIC_INDICATION"}
       \/ m.mtype = "A1_POLICY_REQ" /\ ~m.decodable
       \/ m.mtype = "RIC_INDICATION" /\ decided[m] = "no" /\ NotCountedOnlyIf(m)
       \/ m.mtype = "RIC_INDICATION" /\ decided[m] # "no" /\ CountedInVainOnlyIf(m)

(* E2AP_PROC_ONLY "simply decodes and records the E2AP message", and the   *)
(* tests expect no request counted; REPORT executes the algorithm and does *)
(* not "send a response back to RAN".                                      *)
ModesKept ==
    /\ operating_mode \in {"E2AP_PROC_ONLY", "E2SM_PROC_ONLY"} => net_requests = 0
    /\ operating_mode # "CONTROL" => \A m \in Messages : Controls(m) = {}

(* After Stop every listener comes back to its loop and ends, so that Stop *)
(* returns: no message, no wait for the mutex and no retry keeps one.      *)
ListenersStop == ~_listen ~> \A t \in Listeners : at[t] = "exited"

(* "In this mode, the AC xAPP executes the full control loop where it also *)
(* sends back an SgNB Addition Response or Reject message": the answer to  *)
(* a request that was counted is at least handed to RMR.                   *)
ControlAnswers ==
    operating_mode = "CONTROL" =>
       \A m \in Messages : decided[m] # "no" => outcome[m] \in {"none", "SENT", "FAILED"}
=============================================================================
