------------------------ MODULE MessageProcessorProofs ------------------------
(***************************************************************************)
(* The pipeline from RMR to the protector and back, for any number of      *)
(* listeners and messages, any sizes of buffers and any number of retries: *)
(* answers match their requests although the listeners share the           *)
(* protector and its sgnb_data, and the pipeline implements                *)
(* AdmissionService.                                                       *)
(***************************************************************************)
EXTENDS MessageProcessor, NetworkProtectorProofs

-----------------------------------------------------------------------------
(* The inductive invariant: types.                                         *)

TypeInv ==
    /\ ProtectorInv
    /\ operating_mode \in Modes
    /\ inbox \subseteq Messages
    /\ _listen \in BOOLEAN
    /\ at \in [Listeners -> Places]
    /\ message \in [Listeners -> Messages \cup {NoMessage}]
    /\ indication_data = [t \in Listeners |-> indication_data[t]]
    /\ response = [t \in Listeners |-> response[t]]
    /\ attempts \in [Listeners -> 0..LinkRetries["HIGH_RELIABILITY"]]
    /\ decided \in [Messages -> {"no", "accepted", "rejected"}]
    /\ outcome \in [Messages -> {"none", "NO_ERROR", "SENT", "FAILED"} \cup Errors]
    /\ sent = [m \in Messages |-> sent[m]]

-----------------------------------------------------------------------------
(* The inductive invariant: what a listener has in hand, and what is known *)
(* of a message.                                                           *)

Away == {"check", "poll", "exited"}
Verdict(accept) == IF accept THEN "accepted" ELSE "rejected"

(* The ids a listener will answer with are those of its message.           *)
Matches(t, m) ==
    /\ indication_data[t].req_seq_no = m.req_seq_no
    /\ m.call_process_id # NoCall =>
          indication_data[t].call_process_id = m.call_process_id

GoodControl(m, a) ==
    /\ a.mtype = "RIC_CONTROL_REQ" /\ m.mtype = "RIC_INDICATION"
    /\ operating_mode = "CONTROL"
    /\ a.req_seq_no = m.req_seq_no
    /\ m.call_process_id # NoCall => a.call_process_id = m.call_process_id
    /\ a.x2ap.menb_ue_x2ap_id = m.menb_ue_x2ap_id
    /\ a.x2ap.accept \in BOOLEAN
    /\ decided[m] = Verdict(a.x2ap.accept)
GoodAnswer(m, a) ==
    GoodControl(m, a) \/ (a.mtype = "A1_POLICY_RESP" /\ m.mtype = "A1_POLICY_REQ")

(* The mutex holder alone touches sgnb_data: it is its request's until the *)
(* response is encoded.                                                    *)
Holding(t, m) ==
    /\ m_access = t
    /\ sgnb_data = Extracted(m)
    /\ decided[m] = Verdict(deciding[t].accept)

InHand(m) == m \in Messages \ inbox /\ outcome[m] = "none" /\ sent[m] = <<>>

ListenerOK(t) ==
    LET m == message[t] IN
    /\ at[t] \in Away => m = NoMessage
    /\ at[t] \notin Away => InHand(m)
    /\ at[t] \in {"plugin", "deciding"} =>
          m.mtype = "RIC_INDICATION" /\ ForPlugin(m) /\ Matches(t, m)
    /\ at[t] = "plugin" => decided[m] = "no"
    /\ at[t] = "deciding" => Holding(t, m)
    /\ at[t] = "send" => GoodAnswer(m, response[t])

Excused(m) ==
    \/ m.mtype \notin {"A1_POLICY_REQ", "RIC_INDICATION"}
    \/ m.mtype = "A1_POLICY_REQ" /\ ~m.decodable
    \/ m.mtype = "RIC_INDICATION" /\ decided[m] = "no" /\ NotCountedOnlyIf(m)
    \/ m.mtype = "RIC_INDICATION" /\ decided[m] # "no" /\ CountedInVainOnlyIf(m)

MessageOK(m) ==
    /\ m \in inbox => decided[m] = "no" /\ outcome[m] = "none" /\ sent[m] = <<>>
    /\ m.mtype # "RIC_INDICATION" => decided[m] = "no"
    /\ sent[m] = <<>> \/ \E a : sent[m] = <<a>> /\ GoodAnswer(m, a)
    /\ outcome[m] \notin {"none", "SENT", "FAILED"} => Excused(m)

(* No two listeners have the same message.                                 *)
Distinct ==
    \A t, u \in Listeners : t # u /\ message[t] # NoMessage => message[t] # message[u]

ModeOK == operating_mode \in {"E2AP_PROC_ONLY", "E2SM_PROC_ONLY"} => net_requests = 0

FlowInv ==
    /\ \A t \in Listeners : ListenerOK(t)
    /\ \A m \in Messages : MessageOK(m)
    /\ Distinct
    /\ ModeOK

PipelineInv == TypeInv /\ FlowInv

(* Nothing is decided, sent or in hand at first.                           *)
LEMMA InitFlow == Init => PipelineInv
<1> SUFFICES ASSUME Init PROVE PipelineInv
  OBVIOUS
<1>1. ProtectorInv /\ net_requests = 0
  BY InitOK DEF Init, ProtectorInit
<1>2. TypeInv
  <2>1. attempts \in [Listeners -> 0..LinkRetries["HIGH_RELIABILITY"]]
    BY ProcessorAssumption DEF Init
  <2> QED
    BY <1>1, <2>1, ProcessorAssumption DEF Init, TypeInv, Places
<1>3. \A t \in Listeners : ListenerOK(t)
  BY DEF Init, ListenerOK, Away
<1>4. \A m \in Messages : MessageOK(m)
  BY DEF Init, MessageOK
<1>5. Distinct /\ ModeOK
  BY <1>1 DEF Init, Distinct, ModeOK
<1> QED
  BY <1>2, <1>3, <1>4, <1>5 DEF PipelineInv, FlowInv

-----------------------------------------------------------------------------
(* A step of one listener with one message leaves the others what they     *)
(* have.                                                                   *)

Ours(t, m) == m \in inbox \/ message[t] = m

Frame(t, m) ==
    /\ operating_mode' = operating_mode /\ inbox' \subseteq inbox
    /\ \A u \in Listeners \ {t} :
          /\ at'[u] = at[u] /\ message'[u] = message[u] /\ response'[u] = response[u]
          /\ indication_data'[u] = indication_data[u] /\ deciding'[u] = deciding[u]
          /\ m_access = u => m_access' = u
    /\ sgnb_data' # sgnb_data => m_access = Nobody
    /\ \A k \in Messages \ {m} :
          decided'[k] = decided[k] /\ outcome'[k] = outcome[k] /\ sent'[k] = sent[k]

(* A step of one listener with its message is nothing to another listener  *)
(* ...                                                                     *)
LEMMA OthersKept ==
    ASSUME PipelineInv, NEW t \in Listeners, NEW m, Ours(t, m), Frame(t, m),
           NEW u \in Listeners, u # t
    PROVE  ListenerOK(u)'
<1> PICK n : n = message[u]
  OBVIOUS
<1>1. ListenerOK(u) /\ message'[u] = n /\ at'[u] = at[u]
  BY DEF PipelineInv, FlowInv, Frame
<1>2. CASE at[u] \in Away
  BY <1>1, <1>2 DEF ListenerOK, Away
<1>3. CASE at[u] \notin Away
  <2>1. InHand(n) /\ n # NoMessage
    BY <1>1, <1>3, ProcessorAssumption DEF ListenerOK, InHand
  <2>2. n # m
    BY <2>1 DEF Ours, InHand, PipelineInv, FlowInv, Distinct
  <2>3. decided'[n] = decided[n] /\ outcome'[n] = outcome[n] /\ sent'[n] = sent[n]
        /\ n \notin inbox' /\ operating_mode' = operating_mode
        /\ response'[u] = response[u] /\ indication_data'[u] = indication_data[u]
        /\ deciding'[u] = deciding[u]
    BY <2>1, <2>2 DEF InHand, Frame
  <2>4. InHand(n)'
    BY <2>1, <2>3 DEF InHand
  <2>5. at[u] \in {"plugin", "deciding"} =>
          n.mtype = "RIC_INDICATION" /\ ForPlugin(n)' /\ Matches(u, n)'
    BY <1>1, <2>3 DEF ListenerOK, ForPlugin, Decoded, Looked, Matches
  <2>6. at[u] = "deciding" => Holding(u, n)'
    <3> SUFFICES ASSUME at[u] = "deciding" PROVE Holding(u, n)'
      OBVIOUS
    <3>1. Holding(u, n)
      BY <1>1 DEF ListenerOK
    <3>2. m_access' = u /\ sgnb_data' = sgnb_data
      BY <3>1, ProtectorAssumption DEF Holding, Frame
    <3> QED
      BY <2>3, <3>1, <3>2 DEF Holding, Extracted
  <2>7. at[u] = "send" => GoodAnswer(n, response[u])'
    BY <1>1, <2>3 DEF ListenerOK, GoodAnswer, GoodControl
  <2> QED
    BY <1>1, <1>3, <2>3, <2>4, <2>5, <2>6, <2>7 DEF ListenerOK
<1> QED
  BY <1>2, <1>3

(* ... and nothing to another message.                                     *)
LEMMA MessagesKept ==
    ASSUME PipelineInv, NEW t \in Listeners, NEW m, Frame(t, m),
           NEW k \in Messages, k # m
    PROVE  MessageOK(k)'
<1>1. /\ MessageOK(k) /\ operating_mode' = operating_mode /\ inbox' \subseteq inbox
      /\ decided'[k] = decided[k] /\ outcome'[k] = outcome[k] /\ sent'[k] = sent[k]
  BY DEF PipelineInv, FlowInv, Frame
<1>2. Excused(k) => Excused(k)'
  BY <1>1 DEF Excused, NotCountedOnlyIf, CountedInVainOnlyIf, Fits
<1>3. \A a : GoodAnswer(k, a) => GoodAnswer(k, a)'
  BY <1>1 DEF GoodAnswer, GoodControl
<1> QED
  BY <1>1, <1>2, <1>3 DEF MessageOK

(* What is left to show of a step.                                         *)
LEMMA FlowKept ==
    ASSUME PipelineInv, NEW t \in Listeners, NEW m, Ours(t, m), Frame(t, m),
           ListenerOK(t)', m \in Messages => MessageOK(m)',
           message'[t] \in {m, NoMessage}, ModeOK'
    PROVE  FlowInv'
<1>1. \A u \in Listeners : ListenerOK(u)'
  BY OthersKept
<1>2. \A k \in Messages : MessageOK(k)'
  BY MessagesKept
<1>3. Distinct'
  <2>1. \A u \in Listeners : u # t => message'[u] = message[u]
    BY DEF Frame
  <2>2. \A u \in Listeners : u # t /\ message[u] # NoMessage => message[u] # m
    <3> SUFFICES ASSUME NEW u \in Listeners, u # t, message[u] # NoMessage
                 PROVE  message[u] # m
      OBVIOUS
    <3>1. ListenerOK(u)
      BY DEF PipelineInv, FlowInv
    <3> QED
      BY <3>1 DEF ListenerOK, InHand, Ours, PipelineInv, FlowInv, Distinct
  <2>3. \A u, v \in Listeners : u # v /\ message[u] # NoMessage => message[u] # message[v]
    BY DEF PipelineInv, FlowInv, Distinct
  <2> QED
    BY <2>1, <2>2, <2>3 DEF Distinct
<1> QED
  BY <1>1, <1>2, <1>3 DEF FlowInv
-----------------------------------------------------------------------------
(* Types, step by step.                                                    *)

LEMMA FinishedTypes ==
    ASSUME TypeInv, NEW t \in Listeners, NEW m \in Messages,
           NEW state \in {"NO_ERROR", "SENT", "FAILED"} \cup Errors, Finished(t, m, state)
    PROVE  /\ at' \in [Listeners -> Places]
           /\ message' \in [Listeners -> Messages \cup {NoMessage}]
           /\ response' = [u \in Listeners |-> response'[u]]
           /\ outcome' \in [Messages -> {"none", "NO_ERROR", "SENT", "FAILED"} \cup Errors]
BY DEF Finished, Goto, TypeInv, Places

(* The protector's invariant is about the protector's variables only.      *)
LEMMA ProtectorSame == TypeInv /\ UNCHANGED protectorVars => ProtectorInv'
BY ProtectorStep DEF TypeInv

(* The state in which processing ends is one of the known ones.            *)
LEMMA States ==
    /\ \A m : Decoded(m) \in {"NO_ERROR"} \cup Errors
    /\ \A n : ControlState(n) \in {"NO_ERROR"} \cup Errors
    /\ \A accept : PluginState(accept) \in {"NO_ERROR"} \cup Errors
BY DEF Decoded, Looked, DecodingState, ControlState, PluginState, Errors

(* A policy message keeps the protector's invariant, and what it changes   *)
(* is the policies.                                                        *)
LEMMA PolicyEffectOK ==
    ASSUME ProtectorInv, NEW m \in Messages, m.mtype = "A1_POLICY_REQ", PolicyEffect(m)
    PROVE  /\ ProtectorInv' /\ [ProtectorNext]_protectorVars
           /\ UNCHANGED <<net_requests, net_rejects, deciding, m_access>>
<1>1. m.params \in Params /\ m.class \in Classes
  BY ProcessorAssumption
<1>2. [ProtectorNext]_protectorVars
  BY <1>1 DEF PolicyEffect, ProtectorNext
<1>3. UNCHANGED <<net_requests, net_rejects, deciding, m_access>>
  BY DEF PolicyEffect, protectorVars, AddPolicy, Configure, DeletePolicy, Control
<1> QED
  BY <1>2, <1>3, ProtectorStep

(* Receiving a message keeps the types.                                    *)
LEMMA ReceiveTypes ==
    ASSUME TypeInv, NEW t \in Listeners, NEW m \in inbox,
           ReceiveIndication(t, m) \/ ReceivePolicy(t, m) \/ ReceiveOther(t, m)
    PROVE  TypeInv'
<1>0. /\ m \in Messages /\ inbox' \subseteq Messages
      /\ UNCHANGED <<operating_mode, attempts, _listen, sent, decided>>
  BY DEF TypeInv, ReceiveIndication, ReceivePolicy, ReceiveOther, Take
<1>1. ASSUME NEW s \in {"NO_ERROR"} \cup Errors, Finished(t, m, s),
             UNCHANGED indication_data \/ \E x : indication_data' = [indication_data EXCEPT ![t] = x],
             ProtectorInv'
      PROVE  TypeInv'
  BY <1>0, <1>1, FinishedTypes DEF TypeInv
<1>2. CASE ReceiveOther(t, m)
  BY <1>1, <1>2, ProtectorSame DEF ReceiveOther
<1>3. CASE ReceiveIndication(t, m)
  <2>1. /\ \/ UNCHANGED indication_data
           \/ \E x : indication_data' = [indication_data EXCEPT ![t] = x]
        /\ ProtectorInv'
    BY <1>3, ProtectorSame DEF ReceiveIndication
  <2>2. CASE Finished(t, m, Decoded(m))
    BY <1>1, <2>1, <2>2, States
  <2>3. CASE /\ message' = [message EXCEPT ![t] = m] /\ Goto(t, "plugin")
             /\ UNCHANGED <<response, outcome>>
    BY <1>0, <2>1, <2>3 DEF TypeInv, Goto, Places
  <2> QED
    BY <1>3, <2>2, <2>3 DEF ReceiveIndication
<1>4. CASE ReceivePolicy(t, m)
  <2>1. ProtectorInv' /\ UNCHANGED indication_data
    BY <1>0, <1>4, ProtectorSame, PolicyEffectOK DEF TypeInv, ReceivePolicy
  <2>2. Finished(t, m, "NO_ERROR") \/ \E a : Answering(t, m, a)
    BY <1>4 DEF ReceivePolicy
  <2>3. ASSUME NEW a, Answering(t, m, a) PROVE TypeInv'
    BY <1>0, <2>1, <2>3 DEF TypeInv, Answering, Goto, Places
  <2> QED
    BY <1>1, <2>1, <2>2, <2>3
<1> QED
  BY <1>2, <1>3, <1>4

(* A listener with work to do has a message, taken and not yet concluded.  *)
LEMMA HasMessage ==
    ASSUME PipelineInv, NEW t \in Listeners, at[t] \in {"plugin", "deciding", "send"}
    PROVE  /\ message[t] \in Messages /\ InHand(message[t])
           /\ at[t] \in {"plugin", "deciding"} =>
                 message[t].mtype = "RIC_INDICATION" /\ message[t].size \in Nat
BY ProcessorAssumption DEF PipelineInv, FlowInv, ListenerOK, Away, InHand

(* The call of the plugin keeps the types.                                 *)
LEMMA PluginTypes ==
    ASSUME PipelineInv, NEW t \in Listeners,
           PluginRefuses(t) \/ PluginDecides(t) \/ PluginCounts(t) \/ PluginAnswers(t)
    PROVE  TypeInv'
<1> PICK m : m = message[t]
  OBVIOUS
<1>0. m \in Messages /\ TypeInv
  BY HasMessage DEF PluginRefuses, PluginDecides, PluginCounts, PluginAnswers, PipelineInv
<1>1. CASE PluginRefuses(t)
  <2>1. Finished(t, m, "PLUGIN_ERROR") /\ "PLUGIN_ERROR" \in Errors
        /\ UNCHANGED <<protectorVars, operating_mode, inbox, indication_data, attempts,
                       _listen, decided, sent>>
    BY <1>1 DEF PluginRefuses, Errors
  <2> QED
    BY <1>0, <2>1, FinishedTypes, ProtectorSame DEF TypeInv
<1>2. CASE PluginDecides(t)
  <2>1. Decide(t, m.profile) /\ Goto(t, "deciding")
        /\ UNCHANGED <<operating_mode, inbox, message, indication_data, response, attempts,
                       _listen, outcome, sent>>
        /\ \E v \in {"accepted", "rejected"} : decided' = [decided EXCEPT ![m] = v]
    BY <1>2 DEF PluginDecides
  <2>2. ProtectorInv'
    BY <1>0, <2>1, DecideOK DEF TypeInv
  <2> QED
    BY <1>0, <2>1, <2>2 DEF TypeInv, Goto, Places
<1>3. CASE PluginAnswers(t)
  <2>1. /\ Conclude(t)
        /\ UNCHANGED <<operating_mode, inbox, indication_data, sgnb_data, attempts, _listen,
                       decided, sent>>
        /\ \/ \E a : Answering(t, m, a)
           \/ \E s \in {"NO_ERROR"} \cup Errors : Finished(t, m, s)
    BY <1>3, States DEF PluginAnswers
  <2>2. ProtectorInv'
    BY <1>0, <2>1, ConcludeOK DEF TypeInv
  <2>3. ASSUME NEW a, Answering(t, m, a) PROVE TypeInv'
    BY <1>0, <2>1, <2>2, <2>3 DEF TypeInv, Answering, Goto, Places
  <2>4. ASSUME NEW s \in {"NO_ERROR"} \cup Errors, Finished(t, m, s) PROVE TypeInv'
    BY <1>0, <2>1, <2>2, <2>4, FinishedTypes DEF TypeInv
  <2> QED
    BY <2>1, <2>3, <2>4
<1>4. CASE PluginCounts(t)
  <2>1. ProtectorInv'
    BY <1>0, <1>4, CountRejectionOK DEF PluginCounts, TypeInv
  <2> QED
    BY <1>0, <1>4, <2>1 DEF PluginCounts, TypeInv, listenerVars, historyVars
<1> QED
  BY <1>1, <1>2, <1>3, <1>4

(* Retries stay within the larger of the two limits.                       *)
LEMMA SendTypes ==
    ASSUME PipelineInv, NEW t \in Listeners,
           SendOk(t) \/ SendAgain(t) \/ SendGivesUp(t) \/ SendFails(t)
    PROVE  TypeInv'
<1> PICK m : m = message[t]
  OBVIOUS
<1>0. /\ m \in Messages /\ TypeInv
      /\ UNCHANGED <<protectorVars, operating_mode, inbox, indication_data, _listen, decided>>
  BY HasMessage DEF SendOk, SendAgain, SendGivesUp, SendFails, Sending, PipelineInv
<1>1. ProtectorInv'
  BY <1>0, ProtectorSame
<1>2. CASE SendAgain(t)
  <2>1. PICK n \in Nat : n = attempts[t]
    BY <1>0, ProcessorAssumption DEF TypeInv
  <2>2. /\ attempts' = [attempts EXCEPT ![t] = n + 1] /\ n + 1 <= LinkRetries[Link(t)]
        /\ UNCHANGED <<at, message, response, outcome, sent>>
    BY <1>2, <2>1 DEF SendAgain, OneMore, MayRetry
  <2>3. n + 1 \in 0..LinkRetries["HIGH_RELIABILITY"]
    BY <2>2, ProcessorAssumption DEF Link
  <2> QED
    BY <1>0, <1>1, <2>2, <2>3 DEF TypeInv
<1>3. CASE SendOk(t) \/ SendGivesUp(t) \/ SendFails(t)
  <2>1. /\ Finished(t, m, "SENT") \/ Finished(t, m, "FAILED")
        /\ attempts' = [attempts EXCEPT ![t] = 0]
        /\ UNCHANGED sent \/ \E x : sent' = [sent EXCEPT ![m] = x]
    BY <1>3 DEF SendOk, SendGivesUp, SendFails
  <2>2. 0 \in 0..LinkRetries["HIGH_RELIABILITY"]
    BY ProcessorAssumption
  <2> QED
    BY <1>0, <1>1, <2>1, <2>2, FinishedTypes DEF TypeInv
<1> QED
  BY <1>2, <1>3

(* Every step keeps the types.                                             *)
LEMMA TypeStep == PipelineInv /\ [Next]_vars => TypeInv'
<1> SUFFICES ASSUME PipelineInv, [Next]_vars PROVE TypeInv'
  OBVIOUS
<1>0. TypeInv
  BY DEF PipelineInv
<1>1. ASSUME NEW t \in Listeners, LoopAgain(t) \/ NothingReceived(t) PROVE TypeInv'
  <2>1. \E p \in Places : Goto(t, p)
    BY <1>1 DEF LoopAgain, NothingReceived, Places
  <2>2. ProtectorInv'
    BY <1>0, <1>1, ProtectorSame DEF LoopAgain, NothingReceived
  <2> QED
    BY <1>0, <1>1, <2>1, <2>2 DEF LoopAgain, NothingReceived, TypeInv, Goto, historyVars
<1>2. CASE Stop
  BY <1>0, <1>2, ProtectorSame DEF Stop, TypeInv, listenerVars, historyVars
<1>3. CASE UNCHANGED vars
  BY <1>0, <1>3, ProtectorSame DEF vars, TypeInv, listenerVars, historyVars
<1> QED
  BY <1>0, <1>1, <1>2, <1>3, ReceiveTypes, PluginTypes, SendTypes
     DEF Next, ListenerStep, Receive, Joined

-----------------------------------------------------------------------------
(* The flow, step by step.                                                 *)

(* Steps of the loop, with no message in hand.                             *)
LEMMA LoopFlow ==
    ASSUME PipelineInv, NEW t \in Listeners, LoopAgain(t) \/ NothingReceived(t)
    PROVE  FlowInv'
<1>1. /\ at[t] \in Away /\ at'[t] \in Away /\ message[t] = NoMessage
      /\ UNCHANGED <<protectorVars, operating_mode, inbox, message, indication_data,
                     response, sgnb_data, historyVars>>
      /\ \A u \in Listeners \ {t} : at'[u] = at[u]
  BY DEF LoopAgain, NothingReceived, PipelineInv, TypeInv, FlowInv, ListenerOK, Away, Goto
<1>2. Frame(t, NoMessage) /\ Ours(t, NoMessage)
  BY <1>1 DEF Frame, Ours, protectorVars, historyVars
<1>3. ListenerOK(t)'
  BY <1>1 DEF ListenerOK, Away
<1>4. ModeOK'
  BY <1>1 DEF PipelineInv, FlowInv, ModeOK, protectorVars
<1> QED
  BY <1>1, <1>2, <1>3, <1>4, FlowKept, ProcessorAssumption

(* Nothing but _listen or a count of retries changes.                      *)
LEMMA QuietFlow ==
    ASSUME PipelineInv,
           UNCHANGED <<protectorVars, operating_mode, inbox, at, message, indication_data,
                       response, sgnb_data, historyVars>>
    PROVE  FlowInv'
BY DEF PipelineInv, FlowInv, ListenerOK, MessageOK, Distinct, ModeOK, InHand, Holding, Matches,
       GoodAnswer, GoodControl, Excused, NotCountedOnlyIf, CountedInVainOnlyIf, Fits, ForPlugin, Decoded, Looked, Extracted,
       protectorVars, historyVars

(* A listener that is finished with its message has nothing in hand.       *)
LEMMA FinishedFlow ==
    ASSUME PipelineInv, NEW t \in Listeners, NEW m \in Messages, NEW state,
           Finished(t, m, state)
    PROVE  /\ ListenerOK(t)' /\ message'[t] = NoMessage /\ outcome'[m] = state
           /\ \A u \in Listeners \ {t} :
                 at'[u] = at[u] /\ message'[u] = message[u] /\ response'[u] = response[u]
           /\ \A k \in Messages \ {m} : outcome'[k] = outcome[k]
BY DEF Finished, Goto, PipelineInv, TypeInv, ListenerOK, Away

(* Receiving a message, each case of the dispatch.                         *)
LEMMA ReceiveFlow ==
    ASSUME PipelineInv, NEW t \in Listeners, NEW m \in inbox,
           ReceiveIndication(t, m) \/ ReceivePolicy(t, m) \/ ReceiveOther(t, m)
    PROVE  FlowInv'
<1>0. /\ m \in Messages /\ m \notin inbox' /\ inbox' \subseteq inbox /\ Ours(t, m)
      /\ UNCHANGED <<operating_mode, sent, decided, sgnb_data>>
      /\ decided[m] = "no" /\ outcome[m] = "none" /\ sent[m] = <<>>
  BY DEF ReceiveIndication, ReceivePolicy, ReceiveOther, Take, Ours, PipelineInv, TypeInv,
         FlowInv, MessageOK
<1>1. /\ UNCHANGED <<net_requests, deciding, m_access>>
      /\ ModeOK'
  <2>1. UNCHANGED <<net_requests, deciding, m_access>>
    BY <1>0, PolicyEffectOK DEF ReceiveIndication, ReceivePolicy, ReceiveOther, protectorVars,
       PipelineInv, TypeInv
  <2> QED
    BY <1>0, <2>1 DEF PipelineInv, FlowInv, ModeOK
<1>2. \A u \in Listeners \ {t} : indication_data'[u] = indication_data[u]
  <2>1. UNCHANGED indication_data
        \/ \E x : indication_data' = [indication_data EXCEPT ![t] = x]
    BY DEF ReceiveIndication, ReceivePolicy, ReceiveOther
  <2>2. indication_data = [u \in Listeners |-> indication_data[u]]
    BY DEF PipelineInv, TypeInv
  <2> QED
    BY <2>1, <2>2
<1>3. ASSUME NEW s, Finished(t, m, s), s \notin {"none", "SENT", "FAILED"} => Excused(m)'
      PROVE  FlowInv'
  <2>1. ListenerOK(t)' /\ Frame(t, m) /\ message'[t] = NoMessage /\ outcome'[m] = s
    BY <1>0, <1>1, <1>2, <1>3, FinishedFlow DEF Frame
  <2>2. MessageOK(m)'
    BY <1>0, <1>3, <2>1 DEF MessageOK
  <2> QED
    BY <1>0, <1>1, <2>1, <2>2, FlowKept
<1>4. ASSUME message' = [message EXCEPT ![t] = m],
             UNCHANGED response \/ \E a : response' = [response EXCEPT ![t] = a],
             UNCHANGED outcome, NEW p, Goto(t, p),
             ListenerOK(t)'
      PROVE  FlowInv'
  <2>1. Frame(t, m) /\ message'[t] = m
    BY <1>0, <1>1, <1>2, <1>4 DEF Frame, Goto, PipelineInv, TypeInv
  <2>2. MessageOK(m)'
    BY <1>0, <1>4 DEF MessageOK
  <2> QED
    BY <1>0, <1>1, <1>4, <2>1, <2>2, FlowKept
<1>5. CASE ReceiveOther(t, m)
  BY <1>0, <1>3, <1>5 DEF ReceiveOther, Excused
<1>6. CASE ReceiveIndication(t, m)
  <2>1. CASE ~ForPlugin(m) /\ Finished(t, m, Decoded(m))
    <3>1. NotCountedOnlyIf(m)' /\ m.mtype = "RIC_INDICATION" /\ decided'[m] = "no"
      BY <1>0, <1>6, <2>1
         DEF ReceiveIndication, NotCountedOnlyIf, ForPlugin, Decoded, Looked, DecodingState
    <3> QED
      BY <1>3, <2>1, <3>1 DEF Excused
  <2>2. CASE /\ ForPlugin(m) /\ message' = [message EXCEPT ![t] = m] /\ Goto(t, "plugin")
             /\ UNCHANGED <<response, outcome>>
    <3>1. at'[t] = "plugin" /\ message'[t] = m
      BY <2>2 DEF Goto, PipelineInv, TypeInv
    <3>2. m.fault \notin {"rmr", "e2ap"}
      BY <2>2 DEF ForPlugin, Decoded, Looked, DecodingState
    <3>3. Matches(t, m)'
      <4> PICK x : x = Fields(t, m)
        OBVIOUS
      <4>1. x.req_seq_no = m.req_seq_no
            /\ (m.call_process_id # NoCall => x.call_process_id = m.call_process_id)
        BY DEF Fields
      <4>2. indication_data' = [indication_data EXCEPT ![t] = x]
        BY <1>6, <3>2 DEF ReceiveIndication
      <4>3. indication_data'[t] = x
        BY <4>2 DEF PipelineInv, TypeInv
      <4> QED
        BY <4>1, <4>3 DEF Matches
    <3>4. ForPlugin(m)' /\ InHand(m)' /\ m.mtype = "RIC_INDICATION" /\ decided'[m] = "no"
      BY <1>0, <1>6, <2>2 DEF ReceiveIndication, ForPlugin, Decoded, Looked, InHand
    <3>5. ListenerOK(t)'
      BY <3>1, <3>3, <3>4 DEF ListenerOK, Away
    <3> QED
      BY <1>4, <2>2, <3>5
  <2> QED
    BY <1>6, <2>1, <2>2 DEF ReceiveIndication
<1>7. CASE ReceivePolicy(t, m)
  <2>1. m.mtype = "A1_POLICY_REQ"
    BY <1>7 DEF ReceivePolicy
  <2>2. CASE ~m.decodable /\ Finished(t, m, "NO_ERROR")
    BY <1>3, <2>1, <2>2 DEF Excused
  <2>3. CASE Answering(t, m, [mtype |-> "A1_POLICY_RESP", class |-> m.class])
    <3>1. at'[t] = "send" /\ message'[t] = m /\ response'[t].mtype = "A1_POLICY_RESP"
      BY <2>3 DEF Answering, Goto, PipelineInv, TypeInv
    <3>2. InHand(m)'
      BY <1>0, <2>3 DEF InHand, Answering
    <3>3. ListenerOK(t)'
      BY <2>1, <3>1, <3>2 DEF ListenerOK, Away, GoodAnswer
    <3> QED
      BY <1>4, <2>3, <3>3 DEF Answering
  <2> QED
    BY <1>7, <2>2, <2>3 DEF ReceivePolicy, Responds
<1> QED
  BY <1>5, <1>6, <1>7

(* The protector refuses, which excuses that nothing is counted.           *)
LEMMA RefusesFlow ==
    ASSUME PipelineInv, NEW t \in Listeners, PluginRefuses(t)
    PROVE  FlowInv'
<1> PICK m : m = message[t]
  OBVIOUS
<1>1. /\ at[t] = "plugin" /\ m_access = Nobody
      /\ Finished(t, m, "PLUGIN_ERROR") /\ m.fault # "none"
      /\ UNCHANGED <<protectorVars, operating_mode, inbox, indication_data, decided, sent>>
  BY DEF PluginRefuses, Free
<1>2. /\ m \in Messages /\ InHand(m) /\ m.mtype = "RIC_INDICATION" /\ decided[m] = "no"
      /\ MessageOK(m)
  BY <1>1, HasMessage DEF PipelineInv, FlowInv, ListenerOK
<1>3. /\ ListenerOK(t)' /\ Frame(t, m) /\ message'[t] = NoMessage
      /\ outcome'[m] = "PLUGIN_ERROR"
  BY <1>1, <1>2, FinishedFlow DEF Frame, protectorVars
<1>4. MessageOK(m)'
  BY <1>1, <1>2, <1>3 DEF MessageOK, Excused, NotCountedOnlyIf, InHand
<1>5. ModeOK' /\ Ours(t, m)
  BY <1>1 DEF PipelineInv, FlowInv, ModeOK, protectorVars, Ours
<1> QED
  BY <1>3, <1>4, <1>5, FlowKept

(* The verdict is recorded with the request's own fields.                  *)
LEMMA DecidesFlow ==
    ASSUME PipelineInv, NEW t \in Listeners, PluginDecides(t)
    PROVE  FlowInv'
<1> PICK m : m = message[t]
  OBVIOUS
<1>1. /\ at[t] = "plugin" /\ m_access = Nobody /\ m_access' = t
      /\ \E x : deciding' = [deciding EXCEPT ![t] = x]
      /\ sgnb_data' = Extracted(m)
      /\ decided' = [decided EXCEPT ![m] = Verdict(deciding'[t].accept)]
      /\ Goto(t, "deciding")
      /\ UNCHANGED <<operating_mode, inbox, message, indication_data, response, outcome, sent>>
  BY DEF PluginDecides, Decide, Verdict
<1>2. /\ m \in Messages /\ InHand(m) /\ m.mtype = "RIC_INDICATION" /\ ForPlugin(m)
      /\ Matches(t, m) /\ MessageOK(m)
  BY <1>1, HasMessage DEF PipelineInv, FlowInv, ListenerOK
<1>3. /\ at'[t] = "deciding" /\ message'[t] = m
      /\ \A u \in Listeners \ {t} : at'[u] = at[u] /\ deciding'[u] = deciding[u]
      /\ decided'[m] = Verdict(deciding'[t].accept)
      /\ \A k \in Messages \ {m} : decided'[k] = decided[k]
  BY <1>1, <1>2 DEF Goto, PipelineInv, TypeInv, ProtectorInv, DecidingOK
<1>4. Frame(t, m) /\ Ours(t, m)
  BY <1>1, <1>3, ProtectorAssumption DEF Frame, Ours
<1>5. ListenerOK(t)'
  <2>1. Holding(t, m)'
    BY <1>1, <1>3 DEF Holding, Extracted
  <2>2. ForPlugin(m)' /\ Matches(t, m)' /\ InHand(m)'
    BY <1>1, <1>2 DEF ForPlugin, Decoded, Looked, Matches, InHand
  <2> QED
    BY <1>2, <1>3, <2>1, <2>2 DEF ListenerOK, Away
<1>6. MessageOK(m)'
  BY <1>1, <1>2 DEF MessageOK, InHand
<1>7. ModeOK'
  BY <1>1, <1>2 DEF ForPlugin, ModeOK
<1> QED
  BY <1>3, <1>4, <1>5, <1>6, <1>7, FlowKept

(* Counting a rejection moves no message.                                  *)
LEMMA CountsFlow ==
    ASSUME PipelineInv, NEW t \in Listeners, PluginCounts(t)
    PROVE  FlowInv'
<1> PICK m : m = message[t]
  OBVIOUS
<1>1. /\ at[t] = "deciding" /\ deciding[t] # Nobody
      /\ deciding' = [deciding EXCEPT ![t].counted = TRUE]
      /\ UNCHANGED <<net_requests, m_access, operating_mode, inbox, at, message,
                     indication_data, response, sgnb_data, decided, outcome, sent>>
  BY DEF PluginCounts, CountRejection, listenerVars, historyVars
<1>2. /\ m \in Messages /\ InHand(m) /\ m.mtype = "RIC_INDICATION" /\ ForPlugin(m)
      /\ Matches(t, m) /\ Holding(t, m) /\ MessageOK(m)
  BY <1>1, HasMessage DEF PipelineInv, FlowInv, ListenerOK
<1>3. /\ deciding'[t].accept = deciding[t].accept
      /\ \A u \in Listeners \ {t} : deciding'[u] = deciding[u]
  <2> PICK d \in Decisions : d = deciding[t]
    BY <1>1 DEF PipelineInv, TypeInv, ProtectorInv, DecidingOK
  <2>1. /\ \A u \in Listeners \ {t} : deciding'[u] = deciding[u]
        /\ deciding'[t] = [d EXCEPT !.counted = TRUE]
    BY <1>1 DEF PipelineInv, TypeInv, ProtectorInv, DecidingOK
  <2> QED
    BY <2>1 DEF Decisions
<1>4. Frame(t, m) /\ Ours(t, m) /\ ModeOK'
  BY <1>1, <1>3 DEF Frame, Ours, PipelineInv, FlowInv, ModeOK
<1>5. ListenerOK(t)'
  <2>1. Holding(t, m)'
    BY <1>1, <1>2, <1>3 DEF Holding, Extracted
  <2>2. ForPlugin(m)' /\ Matches(t, m)' /\ InHand(m)'
    BY <1>1, <1>2 DEF ForPlugin, Decoded, Looked, Matches, InHand
  <2> QED
    BY <1>1, <1>2, <2>1, <2>2 DEF ListenerOK, Away
<1>6. MessageOK(m)'
  BY <1>1, <1>2 DEF MessageOK, InHand
<1> QED
  BY <1>1, <1>4, <1>5, <1>6, FlowKept

(* A response that is left unsent is excused by its size or its fields.    *)
LEMMA LeftUnsent ==
    ASSUME NEW m, m.mtype = "RIC_INDICATION", m.size \in Nat, NEW accept \in BOOLEAN,
           sgnb_data = Extracted(m), decided[m] = Verdict(accept),
           \/ NoAnswer(m) \/ PluginState(accept) # "NO_ERROR"
           \/ ControlState(ResponseSize(accept)) # "NO_ERROR"
    PROVE  Excused(m)
<1> PICK n : n = ResponseSize(accept)
  OBVIOUS
<1>1. /\ n = IF accept THEN m.size ELSE RejectSize
      /\ n \in Nat /\ HeaderSize \in Nat \ {0} /\ RequestSize \in Nat \ {0}
      /\ BufferSize \in Nat
  BY ProcessorAssumption DEF ResponseSize, Extracted
<1>2. decided[m] = "accepted" <=> accept
  BY DEF Verdict
<1>3. Fits(m) <=> n + HeaderSize + RequestSize <= BufferSize
  BY <1>1, <1>2 DEF Fits, RequestLimit
<1>0. CountedInVainOnlyIf(m) => Excused(m)
  BY DEF Excused, Verdict
<1>4. CASE NoAnswer(m)
  BY <1>0, <1>4 DEF NoAnswer, ReportModeOnly, CountedInVainOnlyIf
<1>5. CASE PluginState(accept) # "NO_ERROR"
  <2>1. ~Encodable(accept)
    BY <1>5 DEF PluginState
  <2>2. \/ m.sgnb_ue_x2ap_id = NoId
        \/ accept /\ m.erabs = {}
        \/ ~(n <= BufferSize)
    BY <2>1 DEF Encodable, Extracted
  <2>3. ~(n <= BufferSize) => ~Fits(m)
    BY <1>1, <1>3
  <2> QED
    BY <1>0, <1>2, <2>2, <2>3 DEF CountedInVainOnlyIf
<1>6. CASE ControlState(n) # "NO_ERROR"
  <2>1. ~Fits(m)
    BY <1>1, <1>3, <1>6 DEF ControlState, RequestLimit
  <2> QED
    BY <1>0, <2>1 DEF CountedInVainOnlyIf
<1> QED
  BY <1>4, <1>5, <1>6

(* The plugin's response, and the control message made of it.              *)
LEMMA AnswersFlow ==
    ASSUME PipelineInv, NEW t \in Listeners, PluginAnswers(t)
    PROVE  FlowInv'
<1> PICK m : m = message[t]
  OBVIOUS
<1> PICK accept : accept = deciding[t].accept
  OBVIOUS
<1>1. /\ at[t] = "deciding" /\ deciding[t] # Nobody
      /\ m_access = t /\ m_access' = Nobody /\ net_requests' = net_requests
      /\ deciding' = [deciding EXCEPT ![t] = Nobody]
      /\ UNCHANGED <<operating_mode, inbox, indication_data, sgnb_data, decided, sent>>
  BY DEF PluginAnswers, Conclude
<1>2. \/ /\ ~NoAnswer(m)
         /\ Answering(t, m, ControlRequest(t, X2AP(accept)))
      \/ /\ \/ NoAnswer(m) \/ PluginState(accept) # "NO_ERROR"
            \/ ControlState(ResponseSize(accept)) # "NO_ERROR"
         /\ \E s \in {"NO_ERROR"} \cup Errors : Finished(t, m, s)
  BY States DEF PluginAnswers
<1>3. /\ m \in Messages /\ InHand(m) /\ m.mtype = "RIC_INDICATION" /\ m.size \in Nat
      /\ Matches(t, m) /\ Holding(t, m) /\ MessageOK(m)
  BY <1>1, HasMessage DEF PipelineInv, FlowInv, ListenerOK
<1>4. /\ accept \in BOOLEAN
      /\ \A u \in Listeners \ {t} : deciding'[u] = deciding[u]
      /\ decided[m] = Verdict(accept)
  BY <1>1, <1>3 DEF PipelineInv, TypeInv, ProtectorInv, DecidingOK, Decisions, Holding
<1>5. ModeOK' /\ Ours(t, m)
  BY <1>1 DEF PipelineInv, FlowInv, ModeOK, Ours
<1>6. ASSUME NEW s, Finished(t, m, s), Excused(m) PROVE FlowInv'
  <2>1. ListenerOK(t)' /\ Frame(t, m) /\ message'[t] = NoMessage
    BY <1>1, <1>3, <1>4, <1>6, FinishedFlow DEF Frame
  <2>2. Excused(m)'
    BY <1>1, <1>6 DEF Excused, NotCountedOnlyIf, CountedInVainOnlyIf, Fits
  <2>3. MessageOK(m)'
    BY <1>1, <1>3, <2>2 DEF MessageOK, InHand
  <2> QED
    BY <1>5, <2>1, <2>3, FlowKept
<1>7. CASE ~NoAnswer(m) /\ Answering(t, m, ControlRequest(t, X2AP(accept)))
  <2>1. /\ at'[t] = "send" /\ message'[t] = m
        /\ response'[t] = ControlRequest(t, X2AP(accept))
        /\ UNCHANGED outcome
        /\ \A u \in Listeners \ {t} :
              at'[u] = at[u] /\ message'[u] = message[u] /\ response'[u] = response[u]
    BY <1>7 DEF Answering, Goto, PipelineInv, TypeInv
  <2>2. Frame(t, m)
    BY <1>1, <1>4, <2>1 DEF Frame
  <2>3. GoodControl(m, ControlRequest(t, X2AP(accept)))
    <3>1. operating_mode = "CONTROL"
      BY <1>7 DEF NoAnswer, ReportModeOnly
    <3> QED
      BY <1>3, <1>4, <3>1 DEF GoodControl, ControlRequest, X2AP, Matches, Holding, Extracted
  <2>4. GoodAnswer(m, response[t])'
    <3>1. \A a : GoodControl(m, a) => GoodControl(m, a)'
      BY <1>1 DEF GoodControl
    <3> QED
      BY <2>1, <2>3, <3>1 DEF GoodAnswer, GoodControl
  <2>5. ListenerOK(t)' /\ MessageOK(m)'
    <3>1. InHand(m)'
      BY <1>1, <1>3, <2>1 DEF InHand
    <3> QED
      BY <1>1, <1>3, <2>1, <2>4, <3>1 DEF ListenerOK, Away, MessageOK, InHand
  <2> QED
    BY <1>5, <2>1, <2>2, <2>5, FlowKept
<1> QED
  BY <1>2, <1>3, <1>4, <1>6, <1>7, LeftUnsent DEF Holding

(* One transmission, in each of its outcomes.                              *)
LEMMA SendFlow ==
    ASSUME PipelineInv, NEW t \in Listeners,
           SendOk(t) \/ SendAgain(t) \/ SendGivesUp(t) \/ SendFails(t)
    PROVE  FlowInv'
<1> PICK m : m = message[t]
  OBVIOUS
<1>1. /\ at[t] = "send"
      /\ UNCHANGED <<protectorVars, operating_mode, inbox, indication_data, sgnb_data, decided>>
  BY DEF SendOk, SendAgain, SendGivesUp, SendFails, Sending
<1>2. m \in Messages /\ InHand(m) /\ GoodAnswer(m, response[t]) /\ MessageOK(m)
      /\ ListenerOK(t)
  BY <1>1, HasMessage DEF PipelineInv, FlowInv, ListenerOK
<1>3. ModeOK' /\ Ours(t, m)
  BY <1>1 DEF PipelineInv, FlowInv, ModeOK, protectorVars, Ours
<1>4. \A a : GoodAnswer(m, a) => GoodAnswer(m, a)'
  BY <1>1 DEF GoodAnswer, GoodControl
<1>5. CASE SendAgain(t)
  <2>1. UNCHANGED <<at, message, response, outcome, sent>>
    BY <1>5 DEF SendAgain
  <2> QED
    BY <1>1, <2>1, QuietFlow DEF historyVars
<1>6. CASE SendOk(t)
  <2>1. Finished(t, m, "SENT") /\ sent' = [sent EXCEPT ![m] = Append(@, response[t])]
    BY <1>6 DEF SendOk
  <2>2. sent'[m] = <<response[t]>> /\ \A k \in Messages \ {m} : sent'[k] = sent[k]
    BY <1>2, <2>1 DEF PipelineInv, TypeInv, InHand
  <2>3. ListenerOK(t)' /\ Frame(t, m) /\ message'[t] = NoMessage /\ outcome'[m] = "SENT"
    BY <1>1, <1>2, <2>1, <2>2, FinishedFlow DEF Frame, protectorVars
  <2>4. MessageOK(m)'
    BY <1>1, <1>2, <1>4, <2>2, <2>3 DEF MessageOK, InHand
  <2> QED
    BY <1>3, <2>3, <2>4, FlowKept
<1>7. CASE SendGivesUp(t) \/ SendFails(t)
  <2>1. Finished(t, m, "FAILED") /\ UNCHANGED sent
    BY <1>7 DEF SendGivesUp, SendFails
  <2>2. ListenerOK(t)' /\ Frame(t, m) /\ message'[t] = NoMessage /\ outcome'[m] = "FAILED"
    BY <1>1, <1>2, <2>1, FinishedFlow DEF Frame, protectorVars
  <2>3. MessageOK(m)'
    BY <1>1, <1>2, <1>4, <2>1, <2>2 DEF MessageOK, InHand
  <2> QED
    BY <1>3, <2>2, <2>3, FlowKept
<1> QED
  BY <1>5, <1>6, <1>7

(* Every step keeps the flow of the messages.                              *)
LEMMA FlowStep == PipelineInv /\ [Next]_vars => FlowInv'
<1> SUFFICES ASSUME PipelineInv, [Next]_vars PROVE FlowInv'
  OBVIOUS
<1>1. CASE Stop \/ UNCHANGED vars
  BY <1>1, QuietFlow DEF Stop, vars, listenerVars, historyVars
<1> QED
  BY <1>1, LoopFlow, ReceiveFlow, RefusesFlow, DecidesFlow, CountsFlow, AnswersFlow, SendFlow
     DEF Next, ListenerStep, Receive, Joined

-----------------------------------------------------------------------------
(* The theorems.                                                           *)

(* The invariant of the pipeline.                                          *)
THEOREM PipelineInvariant == Spec => []PipelineInv
<1>1. PipelineInv /\ [Next]_vars => PipelineInv'
  BY TypeStep, FlowStep DEF PipelineInv
<1> QED
  BY <1>1, InitFlow, PTL DEF Spec

(* The types of the pipeline's and the protector's state.                  *)
THEOREM PipelineTyping == Spec => []TypeOK
<1>1. PipelineInv => TypeOK
  BY InvTypes DEF PipelineInv, TypeInv, TypeOK
<1> QED
  BY <1>1, PipelineInvariant, PTL

(* The processor uses the protector as its own specification allows, so    *)
(* that what is proved of the protector alone holds in the pipeline: the   *)
(* counters agree, and a decision stands, whichever listeners decide.      *)
THEOREM PipelineUsesProtector == Spec => ProtectorSpec
<1>1. Init => ProtectorInit
  BY DEF Init
<1>2. PipelineInv /\ [Next]_vars => [ProtectorNext]_protectorVars
  <2> SUFFICES ASSUME PipelineInv, [Next]_vars PROVE [ProtectorNext]_protectorVars
    OBVIOUS
  <2>1. ASSUME NEW t \in Listeners, PluginDecides(t) PROVE ProtectorNext
    <3>1. message[t].profile \in Profiles
      BY <2>1, HasMessage, ProcessorAssumption DEF PluginDecides
    <3> QED
      BY <2>1, <3>1 DEF PluginDecides, ProtectorNext
  <2>2. ASSUME NEW t \in Listeners, PluginCounts(t) \/ PluginAnswers(t) PROVE ProtectorNext
    BY <2>2 DEF PluginCounts, PluginAnswers, ProtectorNext
  <2>3. ASSUME NEW t \in Listeners, NEW m \in inbox, ReceivePolicy(t, m)
        PROVE  [ProtectorNext]_protectorVars
    <3>1. CASE UNCHANGED protectorVars
      BY <3>1
    <3>2. CASE PolicyEffect(m)
      BY <2>3, <3>2, PolicyEffectOK DEF ReceivePolicy, PipelineInv, TypeInv
    <3> QED
      BY <2>3, <3>1, <3>2 DEF ReceivePolicy
  <2>4. ASSUME NEW t \in Listeners,
               \/ \E m \in inbox : ReceiveIndication(t, m) \/ ReceiveOther(t, m)
               \/ LoopAgain(t) \/ NothingReceived(t) \/ PluginRefuses(t)
               \/ SendOk(t) \/ SendAgain(t) \/ SendGivesUp(t) \/ SendFails(t)
        PROVE  UNCHANGED protectorVars
    BY <2>4 DEF ReceiveIndication, ReceiveOther, LoopAgain, NothingReceived, PluginRefuses,
                Sending, SendOk, SendAgain, SendGivesUp, SendFails
  <2>5. Stop \/ Joined \/ UNCHANGED vars => UNCHANGED protectorVars
    BY DEF Stop, Joined, vars
  <2> QED
    BY <2>1, <2>2, <2>3, <2>4, <2>5 DEF Next, ListenerStep, Receive
<1> QED
  BY <1>1, <1>2, PipelineInvariant, PTL DEF Spec, ProtectorSpec

(* What the RAN receives for an indication is the answer to that very      *)
(* indication, for any number of listeners that share one sgnb_data.       *)
THEOREM AnswersMatchAlways == Spec => []AnswersMatch
<1>1. ASSUME PipelineInv, NEW m \in Messages, NEW a \in Controls(m)
      PROVE  GoodControl(m, a)
  <2>1. MessageOK(m)
    BY <1>1 DEF PipelineInv, FlowInv
  <2>2. a.mtype = "RIC_CONTROL_REQ" /\ a \in Answers(m)
    BY DEF Controls
  <2>3. ASSUME NEW b, sent[m] = <<b>>, GoodAnswer(m, b) PROVE GoodControl(m, a)
    BY <2>2, <2>3 DEF Answers, GoodAnswer
  <2>4. sent[m] # <<>>
    BY <2>2 DEF Answers
  <2> QED
    BY <2>1, <2>3, <2>4 DEF MessageOK
<1>2. PipelineInv => AnswersMatch
  BY <1>1 DEF AnswersMatch, GoodControl, Verdict
<1> QED
  BY <1>2, PipelineInvariant, PTL

(* A message of any type stays unanswered only for the reasons listed,     *)
(* whether it was counted or not.                                          *)
THEOREM UnansweredOnlyIfAlways == Spec => []UnansweredOnlyIf
<1>1. PipelineInv => UnansweredOnlyIf
  BY DEF PipelineInv, FlowInv, MessageOK, Excused, UnansweredOnlyIf
<1> QED
  BY <1>1, PipelineInvariant, PTL

(* Outside CONTROL mode the RAN gets no answer; where only the protocols   *)
(* are processed no request is counted.                                    *)
THEOREM ModesKeptAlways == Spec => []ModesKept
<1>1. ASSUME PipelineInv, operating_mode # "CONTROL", NEW m \in Messages
      PROVE  Controls(m) = {}
  <2>1. MessageOK(m)
    BY <1>1 DEF PipelineInv, FlowInv
  <2> QED
    BY <1>1, <2>1 DEF MessageOK, GoodAnswer, GoodControl, Controls, Answers
<1>2. PipelineInv => ModesKept
  BY <1>1 DEF PipelineInv, FlowInv, ModeOK, ModesKept
<1> QED
  BY <1>2, PipelineInvariant, PTL
-----------------------------------------------------------------------------
(* The pipeline implements AdmissionService.                               *)

Cases == [m \in Requests |-> Case(m)]

(* A step that changes neither verdicts, answers, who is judged nor the    *)
(* totals is not seen.                                                     *)
LEMMA CaseSame ==
    ASSUME NEW m, decided'[m] = decided[m], sent'[m] = sent[m], Judged(m)' <=> Judged(m)
    PROVE  Case(m)' = Case(m)
<1>1. Replies(m)' = Replies(m)
  BY DEF Replies
<1> QED
  BY <1>1 DEF Case

(* A step that decides, sends and counts nothing is none of the service.   *)
LEMMA Unseen ==
    ASSUME UNCHANGED <<decided, sent, net_requests, net_rejects>>,
           \A m \in Requests : Judged(m)' <=> Judged(m)
    PROVE  UNCHANGED <<Cases, net_requests, net_rejects>>
BY CaseSame DEF Cases

(* What a case looks like, by what the listeners have in hand.             *)
LEMMA OpenCase ==
    ASSUME NEW m, decided[m] = "no", sent[m] = <<>>
    PROVE  Case(m) = [phase |-> "open", accept |-> FALSE, answers |-> <<>>]
BY DEF Case

(* The case of a request decided and not answered ...                      *)
LEMMA DecidedCase ==
    ASSUME NEW m, decided[m] # "no", sent[m] = <<>>
    PROVE  Case(m) = [phase |-> IF Judged(m) THEN "judged" ELSE "counted",
                      accept |-> decided[m] = "accepted", answers |-> <<>>]
<1>1. Replies(m) = <<>>
  BY DEF Replies
<1> QED
  BY <1>1 DEF Case

(* The same after a step.                                                  *)
LEMMA DecidedCaseNext ==
    ASSUME NEW m, decided'[m] # "no", sent'[m] = <<>>
    PROVE  Case(m)' = [phase |-> IF Judged(m)' THEN "judged" ELSE "counted",
                       accept |-> decided'[m] = "accepted", answers |-> <<>>]
<1>1. Replies(m)' = <<>>
  BY DEF Replies
<1> QED
  BY <1>1 DEF Case

(* ... and, after the step, of one that has been answered.                 *)
LEMMA AnsweredCaseNext ==
    ASSUME NEW m, decided'[m] # "no", NEW a, sent'[m] = <<a>>
    PROVE  Case(m)' = [phase |-> IF Judged(m)' THEN "judged" ELSE "counted",
                       accept |-> decided'[m] = "accepted",
                       answers |-> <<[req_seq_no |-> a.req_seq_no,
                                      menb_ue_x2ap_id |-> a.x2ap.menb_ue_x2ap_id,
                                      accept |-> a.x2ap.accept]>>]
<1>1. Replies(m)' = <<[req_seq_no |-> a.req_seq_no,
                       menb_ue_x2ap_id |-> a.x2ap.menb_ue_x2ap_id,
                       accept |-> a.x2ap.accept]>>
  BY DEF Replies
<1> QED
  BY <1>1 DEF Case

(* One request at a time is judged: the mutex holder's.                    *)
LEMMA JudgedHolds ==
    ASSUME PipelineInv, NEW t \in Listeners, NEW m, message[t] = m, at[t] = "deciding"
    PROVE  m_access = t
BY DEF PipelineInv, FlowInv, ListenerOK, Holding

(* A case that is judged is held by a listener that is deciding.           *)
LEMMA PhaseJudged ==
    ASSUME NEW m, Case(m).phase = "judged"
    PROVE  Judged(m)
BY DEF Case

(* PluginDecides judges a request.                                         *)
LEMMA DecisionServed ==
    ASSUME PipelineInv, NEW t \in Listeners, PluginDecides(t)
    PROVE  Service!Next
<1> PICK m : m = message[t]
  OBVIOUS
<1>1. /\ at[t] = "plugin" /\ m_access = Nobody
      /\ decided' = [decided EXCEPT ![m] = Verdict(deciding'[t].accept)]
      /\ Goto(t, "deciding")
      /\ UNCHANGED <<message, sent>>
      /\ net_requests' = net_requests + 1 /\ net_rejects' = net_rejects
  BY DEF PluginDecides, Decide, Verdict
<1>2. /\ m \in Requests /\ m \in Messages /\ decided[m] = "no" /\ sent[m] = <<>>
  BY <1>1, HasMessage DEF PipelineInv, FlowInv, ListenerOK, InHand, Requests
<1>3. \A k : ~Judged(k)
  BY <1>1, JudgedHolds, ProtectorAssumption DEF Judged
<1>4. /\ Judged(m)' /\ \A k : k # m => ~Judged(k)'
      /\ decided'[m] = Verdict(deciding'[t].accept)
      /\ \A k \in Requests : k # m => decided'[k] = decided[k]
  BY <1>1, <1>2, <1>3 DEF Judged, Goto, PipelineInv, TypeInv, Requests
<1> PICK accept \in BOOLEAN : decided'[m] = Verdict(accept)
  BY <1>4 DEF Verdict
<1>5. Case(m) = Service!Open
  BY <1>2, OpenCase DEF Service!Open
<1>6. Case(m)' = [phase |-> "judged", accept |-> accept, answers |-> <<>>]
  <2>1. decided'[m] # "no" /\ sent'[m] = <<>>
    BY <1>1, <1>2 DEF Verdict
  <2>2. Case(m)' = [phase |-> IF Judged(m)' THEN "judged" ELSE "counted",
                    accept |-> decided'[m] = "accepted", answers |-> <<>>]
    BY <2>1, DecidedCaseNext
  <2>3. (decided'[m] = "accepted") = accept
    BY DEF Verdict
  <2> QED
    BY <1>4, <2>2, <2>3
<1>7. \A k \in Requests : k # m => Case(k)' = Case(k)
  BY <1>1, <1>3, <1>4, CaseSame
<1>8. Cases' = [Cases EXCEPT ![m].phase = "judged", ![m].accept = accept]
      /\ Cases[m] = Service!Open /\ Cases'[m] # Cases[m]
      /\ \A k \in Requests : Cases[k].phase # "judged"
  <2>1. \A k \in Requests : Cases[k].phase # "judged"
    BY <1>3, PhaseJudged DEF Cases
  <2>2. Case(m) = [phase |-> "open", accept |-> FALSE, answers |-> <<>>]
    BY <1>2, OpenCase
  <2> QED
    BY <1>2, <1>5, <1>6, <1>7, <2>1, <2>2 DEF Cases
<1>9. Service!Judge(m, accept)
  BY <1>1, <1>8 DEF Service!Judge, Cases
<1> QED
  BY <1>2, <1>8, <1>9 DEF Service!Next, Cases

(* PluginAnswers counts it.                                                *)
LEMMA AnswerServed ==
    ASSUME PipelineInv, NEW t \in Listeners, PluginAnswers(t)
    PROVE  Service!Next
<1> PICK m : m = message[t]
  OBVIOUS
<1>1. /\ at[t] = "deciding" /\ at'[t] \in {"send", "check"}
      /\ deciding[t] # Nobody
      /\ net_rejects' = IF deciding[t].accept THEN net_rejects ELSE net_rejects + 1
      /\ net_requests' = net_requests
      /\ \A u \in Listeners \ {t} : at'[u] = at[u] /\ message'[u] = message[u]
      /\ UNCHANGED <<decided, sent>>
  BY DEF PluginAnswers, Conclude, TotalRejects, Answering, Finished, Goto, PipelineInv, TypeInv
<1>2. /\ m \in Requests /\ sent[m] = <<>> /\ decided[m] = Verdict(deciding[t].accept)
      /\ m # NoMessage /\ deciding[t].accept \in BOOLEAN
  <2>1. m \in Messages /\ sent[m] = <<>> /\ m.mtype = "RIC_INDICATION" /\ Holding(t, m)
    BY <1>1, HasMessage DEF PipelineInv, FlowInv, ListenerOK, InHand
  <2>2. deciding[t].accept \in BOOLEAN
    BY <1>1 DEF PipelineInv, TypeInv, ProtectorInv, DecidingOK, Decisions
  <2> QED
    BY <2>1, <2>2, ProcessorAssumption DEF Requests, Holding
<1> PICK accept \in BOOLEAN : accept = deciding[t].accept
  BY <1>2
<1>3. Judged(m) /\ ~Judged(m)'
  BY <1>1, <1>2 DEF Judged, PipelineInv, FlowInv, Distinct
<1>4. \A k \in Requests : k # m => (Judged(k)' <=> Judged(k))
  BY <1>1 DEF Judged
<1>5. Case(m) = [phase |-> "judged", accept |-> accept, answers |-> <<>>]
      /\ Case(m)' = [phase |-> "counted", accept |-> accept, answers |-> <<>>]
  <2>1. decided[m] # "no" /\ decided'[m] # "no" /\ sent'[m] = <<>>
        /\ (decided[m] = "accepted") = accept /\ (decided'[m] = "accepted") = accept
    BY <1>1, <1>2 DEF Verdict
  <2>2. Case(m) = [phase |-> IF Judged(m) THEN "judged" ELSE "counted",
                   accept |-> decided[m] = "accepted", answers |-> <<>>]
    BY <1>2, <2>1, DecidedCase
  <2>3. Case(m)' = [phase |-> IF Judged(m)' THEN "judged" ELSE "counted",
                    accept |-> decided'[m] = "accepted", answers |-> <<>>]
    BY <2>1, DecidedCaseNext
  <2> QED
    BY <1>3, <2>1, <2>2, <2>3
<1>6. \A k \in Requests : k # m => Case(k)' = Case(k)
  BY <1>1, <1>4, CaseSame
<1>7. Cases' = [Cases EXCEPT ![m].phase = "counted"]
      /\ Cases[m].phase = "judged" /\ Cases[m].accept = accept /\ Cases'[m] # Cases[m]
  BY <1>2, <1>5, <1>6 DEF Cases
<1>8. Service!Count(m)
  BY <1>1, <1>7 DEF Service!Count, Cases
<1> QED
  BY <1>2, <1>7, <1>8 DEF Service!Next, Cases

(* SendOk answers a request, or sends a policy message's answer.           *)
LEMMA SendServed ==
    ASSUME PipelineInv, NEW t \in Listeners, SendOk(t)
    PROVE  Service!Next \/ UNCHANGED <<Cases, net_requests, net_rejects>>
<1> PICK m : m = message[t]
  OBVIOUS
<1> PICK a : a = response[t]
  OBVIOUS
<1>1. /\ at[t] = "send" /\ at'[t] = "check"
      /\ \A u \in Listeners \ {t} : at'[u] = at[u] /\ message'[u] = message[u]
      /\ sent' = [sent EXCEPT ![m] = Append(@, a)]
      /\ UNCHANGED <<decided, net_requests, net_rejects>>
  BY DEF SendOk, Sending, Finished, Goto, PipelineInv, TypeInv, protectorVars
<1>2. m \in Messages /\ sent[m] = <<>> /\ GoodAnswer(m, a)
  BY <1>1, HasMessage DEF PipelineInv, FlowInv, ListenerOK, InHand
<1>3. sent'[m] = <<a>> /\ \A k \in Messages : k # m => sent'[k] = sent[k]
  BY <1>1, <1>2 DEF PipelineInv, TypeInv
<1>4. \A k : Judged(k)' <=> Judged(k)
  BY <1>1 DEF Judged
<1>5. \A k \in Requests : k # m => Case(k)' = Case(k)
  BY <1>1, <1>3, <1>4, CaseSame DEF Requests
<1>6. CASE m \notin Requests
  BY <1>1, <1>5, <1>6 DEF Cases
<1>7. CASE m \in Requests
  <2>1. GoodControl(m, a)
    BY <1>2, <1>7 DEF GoodAnswer, Requests
  <2> PICK accept \in BOOLEAN : accept = a.x2ap.accept
    BY <2>1 DEF GoodControl
  <2>2. decided[m] # "no" /\ decided'[m] # "no"
        /\ (decided[m] = "accepted") = accept /\ (decided'[m] = "accepted") = accept
    BY <1>1, <2>1 DEF GoodControl, Verdict
  <2>3. ~Judged(m)
    BY <1>1, <1>2, ProcessorAssumption DEF Judged, PipelineInv, FlowInv, Distinct
  <2>4. Case(m) = [phase |-> "counted", accept |-> accept, answers |-> <<>>]
    <3>1. Case(m) = [phase |-> IF Judged(m) THEN "judged" ELSE "counted",
                     accept |-> decided[m] = "accepted", answers |-> <<>>]
      BY <1>2, <2>2, DecidedCase
    <3> QED
      BY <2>2, <2>3, <3>1
  <2> PICK b : b = [req_seq_no |-> m.req_seq_no, menb_ue_x2ap_id |-> m.menb_ue_x2ap_id,
                    accept |-> accept]
    OBVIOUS
  <2>5. Case(m)' = [phase |-> "counted", accept |-> accept, answers |-> <<b>>]
    <3>1. Case(m)' = [phase |-> IF Judged(m)' THEN "judged" ELSE "counted",
                      accept |-> decided'[m] = "accepted",
                      answers |-> <<[req_seq_no |-> a.req_seq_no,
                                     menb_ue_x2ap_id |-> a.x2ap.menb_ue_x2ap_id,
                                     accept |-> a.x2ap.accept]>>]
      BY <1>3, <2>2, AnsweredCaseNext
    <3> QED
      BY <1>4, <2>1, <2>2, <2>3, <3>1 DEF GoodControl
  <2>6. Cases' = [Cases EXCEPT ![m].answers = <<b>>]
        /\ Cases[m].phase = "counted" /\ Cases[m].answers = <<>>
        /\ Cases[m].accept = accept
    BY <1>5, <1>7, <2>4, <2>5 DEF Cases
  <2>7. Cases'[m].answers = <<b>> /\ <<b>> # <<>>
    BY <1>7, <2>5 DEF Cases
  <2>8. Service!Reply(m) /\ Cases'[m] # Cases[m]
    BY <1>1, <2>6, <2>7 DEF Service!Reply, Service!Answer, Cases
  <2> QED
    BY <1>7, <2>8 DEF Service!Next, Cases
<1> QED
  BY <1>6, <1>7

(* Every step is one of the service, or none of it.                        *)
LEMMA StepServed ==
    PipelineInv /\ [Next]_vars =>
       Service!Next \/ UNCHANGED <<Cases, net_requests, net_rejects>>
<1> SUFFICES ASSUME PipelineInv, [Next]_vars
             PROVE  Service!Next \/ UNCHANGED <<Cases, net_requests, net_rejects>>
  OBVIOUS
<1>1. ASSUME NEW t \in Listeners,
             LoopAgain(t) \/ NothingReceived(t) \/ PluginRefuses(t)
             \/ SendAgain(t) \/ SendGivesUp(t) \/ SendFails(t)
      PROVE  UNCHANGED <<Cases, net_requests, net_rejects>>
  <2>1. /\ UNCHANGED <<protectorVars, decided, sent>>
        /\ at[t] # "deciding" /\ at'[t] # "deciding"
        /\ \A u \in Listeners \ {t} : at'[u] = at[u] /\ message'[u] = message[u]
    BY <1>1 DEF LoopAgain, NothingReceived, PluginRefuses, SendAgain, SendGivesUp, SendFails,
                Sending, Finished, Goto, historyVars, PipelineInv, TypeInv
  <2> QED
    BY <2>1, Unseen DEF Judged, protectorVars
<1>2. ASSUME NEW t \in Listeners, NEW m \in inbox,
             ReceiveIndication(t, m) \/ ReceivePolicy(t, m) \/ ReceiveOther(t, m)
      PROVE  UNCHANGED <<Cases, net_requests, net_rejects>>
  <2>1. UNCHANGED <<net_requests, net_rejects, decided, sent>>
    BY <1>2, PolicyEffectOK DEF ReceiveIndication, ReceivePolicy, ReceiveOther, Take,
       protectorVars, PipelineInv, TypeInv
  <2>2. /\ at[t] # "deciding" /\ at'[t] # "deciding"
        /\ \A u \in Listeners \ {t} : at'[u] = at[u] /\ message'[u] = message[u]
    BY <1>2 DEF ReceiveIndication, ReceivePolicy, ReceiveOther, Take, Answering, Finished,
                Goto, PipelineInv, TypeInv
  <2> QED
    BY <2>1, <2>2, Unseen DEF Judged
<1>4. ASSUME NEW t \in Listeners, PluginCounts(t)
      PROVE  UNCHANGED <<Cases, net_requests, net_rejects>>
  <2>1. UNCHANGED <<net_requests, net_rejects, decided, sent, at, message>>
    BY <1>4 DEF PluginCounts, CountRejection, listenerVars, historyVars
  <2> QED
    BY <2>1, Unseen DEF Judged
<1>3. CASE Stop \/ UNCHANGED vars
  <2>1. UNCHANGED <<protectorVars, decided, sent, at, message>>
    BY <1>3 DEF Stop, vars, listenerVars, historyVars
  <2> QED
    BY <2>1, Unseen DEF Judged, protectorVars
<1> QED
  BY <1>1, <1>2, <1>3, <1>4, DecisionServed, AnswerServed, SendServed
     DEF Next, ListenerStep, Receive, Joined

(* A request is judged once, counted before it is answered, and answered   *)
(* at most once and as itself, whatever listeners, modes, buffers, policy  *)
(* messages and retries there are.                                         *)
THEOREM PipelineImplementsService == Spec => ImplementsService
<1>1. Init => Service!Init
  <2> SUFFICES ASSUME Init PROVE Service!Init
    OBVIOUS
  <2>1. net_requests = 0 /\ net_rejects = 0
    BY DEF Init, ProtectorInit
  <2>2. \A m \in Requests : Case(m) = Service!Open
    BY OpenCase DEF Init, Service!Open, Requests
  <2> QED
    BY <2>1, <2>2 DEF Service!Init
<1>2. PipelineInv /\ [Next]_vars =>
         Service!Next \/ UNCHANGED <<[m \in Requests |-> Case(m)], net_requests, net_rejects>>
  BY StepServed DEF Cases
<1> QED
  BY <1>1, <1>2, PipelineInvariant, PTL DEF Spec, ImplementsService, Service!Spec
=============================================================================
