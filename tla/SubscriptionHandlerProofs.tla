--------------------- MODULE SubscriptionHandlerProofs ---------------------
(***************************************************************************)
(* Theorems about SubscriptionHandler, for every set of threads, gNodeBs   *)
(* and RAN functions and every time-out.                                   *)
(***************************************************************************)
EXTENDS SubscriptionHandler, TLAPS

USE DEF Threads

(* Every id in play is one of Ids; the deadline is a number.               *)
LEMMA IdFacts ==
    /\ Nodes \X FunctionIds \subseteq Ids
    /\ \A m \in Answers : AnswerId(m) \in Ids /\ m.function_id \in FunctionIds
    /\ \A m \in Answers : m.op \in Ops
    /\ Deadline \in Nat /\ ElapsedCap \in Nat
BY TimeAssumption DEF Ids, Answers, Answer, Requests, AnswerId, Deadline,
   ElapsedCap

(* The types hold at the start ...                                         *)
LEMMA TypeInit == Init => TypeOK
BY ThreadsAssumption, IdFacts
   DEF Init, TypeOK, Status, CallerStages, ListenerStages

(* ... and every step keeps them.                                          *)
LEMMA TypeNext == TypeOK /\ [Next]_vars => TypeOK'
<1> SUFFICES ASSUME TypeOK, [Next]_vars PROVE TypeOK'
  OBVIOUS
<1> USE ThreadsAssumption, IdFacts DEF TypeOK, CallerStages, ListenerStages
<1>1. ASSUME NEW t \in Callers, NEW c \in Calls, Call(t, c) PROVE TypeOK'
  BY <1>1 DEF Call, Goto
<1>2. ASSUME NEW t \in Callers, CheckSubscription(t) PROVE TypeOK'
  BY <1>2 DEF CheckSubscription, Goto, Return, Results
<1>3. ASSUME NEW t \in Callers, CheckRequest(t) PROVE TypeOK'
  BY <1>3 DEF CheckRequest, Goto, Return, Results
<1>4. ASSUME NEW t \in Callers, Encode(t) PROVE TypeOK'
  BY <1>4 DEF Encode, Goto, Return, Results
<1>5. ASSUME NEW t \in Callers, AddRequest(t) PROVE TypeOK'
  BY <1>5 DEF AddRequest, Goto, Return, Results, Unlock, Pending, Status,
              SubscribeStatus, DeleteStatus, Calls
<1>6. ASSUME NEW t \in Callers, Transmit(t) PROVE TypeOK'
  BY <1>6 DEF Transmit, RequestOf, Released, Goto, Return, Results, Unlock, Status, Requests,
              Calls
<1>7. ASSUME NEW t \in Callers, TimedWake(t) PROVE TypeOK'
  BY <1>7 DEF TimedWake, Goto
<1>8. ASSUME NEW t \in Callers, KeepWaiting(t) PROVE TypeOK'
  BY <1>8 DEF KeepWaiting, Goto, Unlock
<1>9. ASSUME NEW t \in Callers, Finish(t) PROVE TypeOK'
  BY <1>9 DEF Finish, Released, Goto, Return, Unlock, Results, ResultOf, Status,
              EmptyAnswer, Calls
<1>10. ASSUME NEW t \in Callers, Leave(t) PROVE TypeOK'
  BY <1>10 DEF Leave, Goto
<1>11. ASSUME NEW t \in Threads, Lock(t) PROVE TypeOK'
  BY <1>11 DEF Lock
<1>12. ASSUME NEW r \in Responders, NEW m \in Deliverable, Receive(r, m)
       PROVE TypeOK'
  BY <1>12 DEF Receive, Goto, Deliverable, Answers, Requests
<1>13. ASSUME NEW r \in Responders, IgnorePDU(r) PROVE TypeOK'
  BY <1>13 DEF IgnorePDU, Goto
<1>14. ASSUME NEW r \in Responders, SubscribeAnswered(r) PROVE TypeOK'
  <2>1. inbox[r] \in Answers
    BY <1>14 DEF SubscribeAnswered, Handling, OtherPDU
  <2> QED
    BY <1>14, <2>1 DEF SubscribeAnswered, Conclude, Announce, Goto, Unlock,
                       Status, SubscribeStatus
<1>15. ASSUME NEW r \in Responders, DeleteAnswered(r) PROVE TypeOK'
  <2>1. inbox[r] \in Answers
    BY <1>15 DEF DeleteAnswered, Handling, OtherPDU
  <2> QED
    BY <1>15, <2>1 DEF DeleteAnswered, Conclude, Announce, Goto, Unlock,
                       Status, DeleteStatus, Erased
<1>16. ASSUME NEW r \in Responders, AnswerIgnored(r) PROVE TypeOK'
  BY <1>16 DEF AnswerIgnored, Goto, Unlock
<1>17. ASSUME NEW r \in Responders, Notify(r) PROVE TypeOK'
  BY <1>17 DEF Notify, Waiting
<1>18. CASE Clear
  BY <1>18 DEF Clear, Status
<1>19. CASE Tick
  BY <1>19 DEF Tick
<1>20. CASE UNCHANGED vars
  BY <1>20 DEF vars
<1> QED
  BY <1>1, <1>2, <1>3, <1>4, <1>5, <1>6, <1>7, <1>8, <1>9, <1>10, <1>11,
     <1>12, <1>13, <1>14, <1>15, <1>16, <1>17, <1>18, <1>19, <1>20
     DEF Next, CallerStep, InCall, ListenerStep

(* Every variable keeps its type.                                          *)
THEOREM TypeCorrect == Spec => []TypeOK
BY TypeInit, TypeNext, PTL DEF Spec

-----------------------------------------------------------------------------
(* Ownership of the request table's entries.                               *)

(* The stages in which a call owns no entry and the step keeps the table.  *)
LEMMA OwnedKept ==
    ASSUME TypeOK, EntryOwned,
           UNCHANGED <<requests_table, call>>,
           \A t \in Callers : pc'[t] \in OwningStages <=> pc[t] \in OwningStages
    PROVE  EntryOwned'
BY DEF EntryOwned, OwnerHasEntry, OneOwner, EntryHasOwner, Owner

(* An answer changes the status of an entry to another one of its kind.    *)
LEMMA OwnedAnswered ==
    ASSUME TypeOK, EntryOwned, NEW o \in Ops, NEW k \in Ids,
           NEW status \in StatusOf(o),
           requests_table[k] = Pending(o),
           requests_table' = [requests_table EXCEPT ![k] = status],
           UNCHANGED call,
           \A t \in Callers : pc'[t] = pc[t]
    PROVE  EntryOwned'
<1> USE DEF TypeOK, Ops, StatusOf, Pending, SubscribeStatus, DeleteStatus,
            Status, NoEntry
<1>1. status # NoEntry /\ requests_table[k] # NoEntry
  OBVIOUS
<1>2. OwnerHasEntry'
  <2> SUFFICES ASSUME NEW t \in Callers, pc[t] \in OwningStages
               PROVE  requests_table'[call[t].id] \in StatusOf(call[t].op)
    BY DEF OwnerHasEntry
  <2>1. requests_table[call[t].id] \in StatusOf(call[t].op)
    BY DEF EntryOwned, OwnerHasEntry
  <2>2. CASE call[t].id = k
    <3>1. StatusOf(call[t].op) = StatusOf(o)
      BY <2>1, <2>2
    <3> QED
      BY <2>2, <3>1
  <2>3. CASE call[t].id # k
    BY <2>1, <2>3
  <2> QED
    BY <2>2, <2>3
<1>3. OneOwner' /\ EntryHasOwner'
  BY <1>1 DEF EntryOwned, OneOwner, EntryHasOwner, Owner
<1> QED
  BY <1>2, <1>3 DEF EntryOwned

(* The end of a call: it erases its entry and no other call had it.        *)
LEMMA OwnedReleased ==
    ASSUME TypeOK, EntryOwned, NEW t \in Callers, pc[t] \in OwningStages,
           requests_table' = [requests_table EXCEPT ![call[t].id] = NoEntry],
           pc' = [pc EXCEPT ![t] = "return"],
           UNCHANGED call
    PROVE  EntryOwned'
<1> USE DEF TypeOK, OwningStages
<1>1. call[t].id \in Ids /\ Owner(t, call[t].id)
  BY IdFacts DEF Calls, Owner
<1>2. \A u \in Callers \ {t} : pc[u] \in OwningStages => call[u].id # call[t].id
  BY <1>1 DEF EntryOwned, OneOwner, Owner
<1>3. \A u \in Callers : pc'[u] \in OwningStages => u # t /\ pc'[u] = pc[u]
  OBVIOUS
<1>4. OwnerHasEntry'
  BY <1>2, <1>3, IdFacts DEF EntryOwned, OwnerHasEntry, Calls
<1>5. OneOwner'
  BY <1>3 DEF EntryOwned, OneOwner, Owner
<1>6. EntryHasOwner'
  BY <1>1 DEF EntryOwned, EntryHasOwner, Owner
<1> QED
  BY <1>4, <1>5, <1>6 DEF EntryOwned

(* Every step keeps the ownership of entries.                              *)
LEMMA OwnedNext == TypeOK /\ EntryOwned /\ [Next]_vars => EntryOwned'
<1> SUFFICES ASSUME TypeOK, EntryOwned, [Next]_vars PROVE EntryOwned'
  OBVIOUS
<1> USE ThreadsAssumption DEF OwningStages
<1>1. ASSUME NEW t \in Callers, NEW c \in Calls, Call(t, c) PROVE EntryOwned'
  BY <1>1 DEF Call, Goto, TypeOK, EntryOwned, OwnerHasEntry, OneOwner,
              EntryHasOwner, Owner
<1>2. ASSUME NEW t \in Callers, CheckSubscription(t) PROVE EntryOwned'
  BY <1>2, OwnedKept DEF CheckSubscription, Goto, Return, TypeOK
<1>3. ASSUME NEW t \in Callers, CheckRequest(t) PROVE EntryOwned'
  BY <1>3, OwnedKept DEF CheckRequest, Goto, Return, TypeOK
<1>4. ASSUME NEW t \in Callers, Encode(t) PROVE EntryOwned'
  BY <1>4, OwnedKept DEF Encode, Goto, Return, TypeOK
<1>5. ASSUME NEW t \in Callers, AddRequest(t) PROVE EntryOwned'
  <2>1. CASE requests_table[call[t].id] = NoEntry
    <3>1. call[t] \in Calls /\ call[t].id \in Ids
      BY <1>5, IdFacts DEF AddRequest, TypeOK, Calls
    <3>2. /\ requests_table' = [requests_table EXCEPT ![call[t].id] = Pending(call[t].op)]
          /\ pc' = [pc EXCEPT ![t] = "transmit"]
          /\ UNCHANGED call
      BY <1>5, <2>1 DEF AddRequest, Addable, Goto
    <3>3. Pending(call[t].op) \in StatusOf(call[t].op) /\ NoEntry \notin StatusOf(call[t].op)
      BY <3>1 DEF Calls, Ops, Pending, StatusOf, SubscribeStatus, DeleteStatus, NoEntry
    <3>4. \A u \in Callers : pc[u] \in OwningStages =>
             requests_table[call[u].id] \in StatusOf(call[u].op)
             /\ call[u].id # call[t].id
      <4>1. \A u \in Callers : pc[u] \in OwningStages =>
               call[u] \in Calls /\ requests_table[call[u].id] \in StatusOf(call[u].op)
        BY DEF EntryOwned, OwnerHasEntry, TypeOK
      <4>2. \A u \in Callers : pc[u] \in OwningStages => NoEntry \notin StatusOf(call[u].op)
        BY <4>1 DEF Calls, Ops, StatusOf, SubscribeStatus, DeleteStatus, NoEntry
      <4> QED
        BY <4>1, <4>2, <2>1
    <3>5. OwnerHasEntry'
      BY <3>1, <3>2, <3>3, <3>4 DEF OwnerHasEntry, TypeOK
    <3>6. OneOwner'
      BY <3>2, <3>4 DEF EntryOwned, OneOwner, Owner, TypeOK
    <3>7. EntryHasOwner'
      <4> SUFFICES ASSUME NEW k \in Ids, requests_table'[k] # NoEntry
                   PROVE  \E u \in Callers : Owner(u, k)'
        BY DEF EntryHasOwner
      <4>1. CASE k = call[t].id
        BY <4>1, <3>2 DEF Owner, TypeOK
      <4>2. CASE k # call[t].id
        <5>1. PICK u \in Callers : Owner(u, k)
          BY <4>2, <3>1, <3>2 DEF EntryOwned, EntryHasOwner, TypeOK
        <5> QED
          BY <5>1, <3>2 DEF Owner, TypeOK
      <4> QED
        BY <4>1, <4>2
    <3> QED
      BY <3>5, <3>6, <3>7 DEF EntryOwned
  <2>2. CASE requests_table[call[t].id] # NoEntry
    BY <1>5, <2>2, OwnedKept DEF AddRequest, Addable, Goto, Return, TypeOK
  <2> QED
    BY <2>1, <2>2
<1>6. ASSUME NEW t \in Callers, Transmit(t) PROVE EntryOwned'
  <2>1. CASE pc' = [pc EXCEPT ![t] = "wait"] /\ UNCHANGED requests_table
    BY <1>6, <2>1, OwnedKept DEF Transmit, TypeOK
  <2>2. CASE /\ requests_table' = [requests_table EXCEPT ![call[t].id] = NoEntry]
             /\ pc' = [pc EXCEPT ![t] = "return"]
    BY <1>6, <2>2, OwnedReleased DEF Transmit
  <2> QED
    BY <1>6, <2>1, <2>2 DEF Transmit, Released, Goto, Return
<1>7. ASSUME NEW t \in Callers, TimedWake(t) PROVE EntryOwned'
  BY <1>7, OwnedKept DEF TimedWake, Goto, TypeOK
<1>8. ASSUME NEW t \in Callers, KeepWaiting(t) PROVE EntryOwned'
  BY <1>8, OwnedKept DEF KeepWaiting, Goto, TypeOK
<1>9. ASSUME NEW t \in Callers, Finish(t) PROVE EntryOwned'
  BY <1>9, OwnedReleased DEF Finish, Released, Goto, Return
<1>10. ASSUME NEW t \in Callers, Leave(t) PROVE EntryOwned'
  BY <1>10 DEF Leave, Goto, TypeOK, EntryOwned, OwnerHasEntry, OneOwner,
               EntryHasOwner, Owner
<1>11. ASSUME NEW t \in Threads, Lock(t) PROVE EntryOwned'
  BY <1>11, OwnedKept DEF Lock
<1>12. ASSUME NEW r \in Responders, NEW m \in Deliverable, Receive(r, m)
       PROVE EntryOwned'
  BY <1>12, OwnedKept DEF Receive, Goto, TypeOK
<1>13. ASSUME NEW r \in Responders, IgnorePDU(r) PROVE EntryOwned'
  BY <1>13, OwnedKept DEF IgnorePDU, Goto, TypeOK
<1>14. ASSUME NEW r \in Responders, SubscribeAnswered(r) PROVE EntryOwned'
  <2>1. AnswerId(inbox[r]) \in Ids
    BY <1>14, IdFacts DEF SubscribeAnswered, Handling, OtherPDU, TypeOK
  <2>2. PICK status \in {"request_success", "request_failed", "request_duplicate"} :
           Conclude(r, status)
    BY <1>14 DEF SubscribeAnswered
  <2>3. status \in StatusOf("subscribe")
    BY DEF StatusOf, SubscribeStatus
  <2>4. requests_table[AnswerId(inbox[r])] = Pending("subscribe")
    BY <1>14 DEF SubscribeAnswered, Awaited
  <2>5. \A t \in Callers : pc'[t] = pc[t]
    BY <2>2 DEF Conclude, Announce, Goto, TypeOK
  <2> QED
    BY <2>1, <2>2, <2>3, <2>4, <2>5, OwnedAnswered DEF Conclude, Ops
<1>15. ASSUME NEW r \in Responders, DeleteAnswered(r) PROVE EntryOwned'
  <2>1. AnswerId(inbox[r]) \in Ids
    BY <1>15, IdFacts DEF DeleteAnswered, Handling, OtherPDU, TypeOK
  <2>2. PICK status \in {"delete_request_success", "delete_request_failed"} :
           Conclude(r, status)
    BY <1>15 DEF DeleteAnswered
  <2>3. status \in StatusOf("delete")
    BY DEF StatusOf, DeleteStatus
  <2>4. requests_table[AnswerId(inbox[r])] = Pending("delete")
    BY <1>15 DEF DeleteAnswered, Awaited
  <2>5. \A t \in Callers : pc'[t] = pc[t]
    BY <2>2 DEF Conclude, Announce, Goto, TypeOK
  <2> QED
    BY <2>1, <2>2, <2>3, <2>4, <2>5, OwnedAnswered DEF Conclude, Ops
<1>16. ASSUME NEW r \in Responders, AnswerIgnored(r) PROVE EntryOwned'
  BY <1>16, OwnedKept DEF AnswerIgnored, Goto, TypeOK
<1>17. ASSUME NEW r \in Responders, Notify(r) PROVE EntryOwned'
  <2>1. \A t \in Callers : pc'[t] \in OwningStages <=> pc[t] \in OwningStages
    BY <1>17 DEF Notify, Waiting, TypeOK
  <2> QED
    BY <1>17, <2>1, OwnedKept DEF Notify
<1>18. CASE Clear
  BY <1>18 DEF Clear, TypeOK, EntryOwned, OwnerHasEntry, OneOwner,
               EntryHasOwner, Owner
<1>19. CASE Tick
  BY <1>19, OwnedKept DEF Tick
<1>20. CASE UNCHANGED vars
  BY <1>20, OwnedKept DEF vars
<1> QED
  BY <1>1, <1>2, <1>3, <1>4, <1>5, <1>6, <1>7, <1>8, <1>9, <1>10, <1>11,
     <1>12, <1>13, <1>14, <1>15, <1>16, <1>17, <1>18, <1>19, <1>20
     DEF Next, CallerStep, InCall, ListenerStep

(* Every entry of the request table belongs to exactly one call in         *)
(* progress, of the kind its status shows, however calls and answers       *)
(* interleave.                                                             *)
THEOREM EntryOwnedAlways == Spec => []EntryOwned
<1>1. Init => EntryOwned
  BY ThreadsAssumption DEF Init, EntryOwned, OwnerHasEntry, OneOwner,
     EntryHasOwner, Owner, OwningStages, Threads
<1> QED
  BY <1>1, OwnedNext, TypeCorrect, PTL DEF Spec

-----------------------------------------------------------------------------
(* What a call reports.                                                    *)

(* A waiter's status is always one that its loop handles.                  *)
LEMMA HandledStatus ==
    ASSUME NEW o \in Ops, NEW status \in StatusOf(o)
    PROVE  ResultOf(o, status) # "ERR_UNKNOWN"
BY ZenonT(30) DEF ResultOf, Pending, StatusOf, Ops, SubscribeStatus, DeleteStatus

(* No step makes a call return ERR_UNKNOWN.                                *)
LEMMA SpuriousNext ==
    TypeOK /\ EntryOwned /\ NoSpuriousStatus /\ [Next]_vars => NoSpuriousStatus'
<1> SUFFICES ASSUME TypeOK, EntryOwned, NoSpuriousStatus, [Next]_vars
             PROVE  NoSpuriousStatus'
  OBVIOUS
<1> USE DEF NoSpuriousStatus, TypeOK
<1>1. ASSUME NEW t \in Callers, Finish(t) PROVE NoSpuriousStatus'
  <2>1. call[t].op \in Ops /\ requests_table[call[t].id] \in StatusOf(call[t].op)
    BY <1>1 DEF Finish, Released, EntryOwned, OwnerHasEntry, OwningStages, Calls
  <2>2. ResultOf(call[t].op, requests_table[call[t].id]) # "ERR_UNKNOWN"
    BY <2>1, HandledStatus
  <2> DEFINE res == ResultOf(call[t].op, requests_table[call[t].id])
  <2>3. result' = [result EXCEPT ![t] = res]
    BY <1>1 DEF Finish, Released, Return
  <2> HIDE DEF res
  <2> QED
    BY <2>2, <2>3 DEF res
<1>2. ASSUME NEW t \in Callers, CallerStep(t), ~Finish(t)
      PROVE  NoSpuriousStatus'
  BY <1>2 DEF CallerStep, InCall, CheckSubscription, CheckRequest, Encode, AddRequest,
              Transmit, TimedWake, KeepWaiting, Leave, Return, NoResult
<1>3. ASSUME NEW r \in Responders, ListenerStep(r) PROVE NoSpuriousStatus'
  BY <1>3 DEF ListenerStep, IgnorePDU, SubscribeAnswered, DeleteAnswered,
              AnswerIgnored, Notify, Conclude
<1>4. CASE \/ \E t \in Callers, c \in Calls : Call(t, c)
           \/ \E t \in Threads : Lock(t)
           \/ \E r \in Responders, m \in Deliverable : Receive(r, m)
           \/ Clear \/ Tick \/ UNCHANGED vars
  BY <1>4 DEF Call, Lock, Receive, Clear, Tick, vars
<1> QED
  BY <1>1, <1>2, <1>3, <1>4 DEF Next

(* No call ever returns SUBSCR_ERR_UNKNOWN.                                *)
THEOREM NoSpuriousStatusAlways == Spec => []NoSpuriousStatus
<1>1. Init => NoSpuriousStatus
  BY DEF Init, NoSpuriousStatus, NoResult
<1> QED
  BY <1>1, SpuriousNext, TypeCorrect, EntryOwnedAlways, PTL DEF Spec

-----------------------------------------------------------------------------
(* The subscription table.                                                 *)

(* How a step can change the two tables.                                   *)
LEMMA TableSteps ==
    ASSUME TypeOK, Next
    PROVE  \/ UNCHANGED <<requests_table, subscription_responses>>
           \/ Clear
           \/ \E t \in Callers : AddRequest(t) /\ UNCHANGED subscription_responses
                 /\ requests_table[call[t].id] = NoEntry
                 /\ requests_table' = [requests_table EXCEPT
                                         ![call[t].id] = Pending(call[t].op)]
           \/ \E t \in Callers : Transmit(t) /\ UNCHANGED subscription_responses
                 /\ requests_table' = [requests_table EXCEPT ![call[t].id] = NoEntry]
           \/ \E t \in Callers : Finish(t)
           \/ \E r \in Responders : SubscribeAnswered(r) \/ DeleteAnswered(r)
<1> USE DEF TypeOK
<1>1. ASSUME NEW t \in Callers, CallerStep(t)
      PROVE  \/ UNCHANGED <<requests_table, subscription_responses>>
             \/ AddRequest(t) /\ UNCHANGED subscription_responses
                 /\ requests_table[call[t].id] = NoEntry
                 /\ requests_table' = [requests_table EXCEPT
                                         ![call[t].id] = Pending(call[t].op)]
             \/ Transmit(t) /\ UNCHANGED subscription_responses
                 /\ requests_table' = [requests_table EXCEPT ![call[t].id] = NoEntry]
             \/ Finish(t)
  BY <1>1 DEF CallerStep, InCall, CheckSubscription, CheckRequest, Encode, AddRequest,
              Addable, Transmit, Released, TimedWake, KeepWaiting, Leave
<1>2. ASSUME NEW r \in Responders, ListenerStep(r)
      PROVE  \/ UNCHANGED <<requests_table, subscription_responses>>
             \/ SubscribeAnswered(r) \/ DeleteAnswered(r)
  BY <1>2 DEF ListenerStep, IgnorePDU, AnswerIgnored, Notify
<1>3. CASE \/ \E t \in Callers, c \in Calls : Call(t, c)
           \/ \E t \in Threads : Lock(t)
           \/ \E r \in Responders, m \in Deliverable : Receive(r, m)
           \/ Clear \/ Tick
  BY <1>3 DEF Call, Lock, Receive, Tick
<1> QED
  BY <1>1, <1>2, <1>3 DEF Next

(* Every step keeps final statuses in agreement with the table.            *)
LEMMA TableNext ==
    TypeOK /\ StatusMatchesTable /\ [Next]_vars => StatusMatchesTable'
<1> SUFFICES ASSUME TypeOK, StatusMatchesTable, Next PROVE StatusMatchesTable'
  BY DEF StatusMatchesTable, vars
<1> USE IdsAssumption DEF StatusMatchesTable, TypeOK, NoEntry
<1>1. CASE UNCHANGED <<requests_table, subscription_responses>>
  BY <1>1
<1>2. CASE Clear
  BY <1>2 DEF Clear
<1>3. ASSUME NEW t \in Callers, UNCHANGED subscription_responses,
             \/ requests_table' = [requests_table EXCEPT
                                     ![call[t].id] = Pending(call[t].op)]
             \/ requests_table' = [requests_table EXCEPT ![call[t].id] = NoEntry]
      PROVE  StatusMatchesTable'
  BY <1>3 DEF Pending
<1>4. ASSUME NEW t \in Callers, Finish(t) PROVE StatusMatchesTable'
  BY <1>4 DEF Finish, Released
<1>5. ASSUME NEW r \in Responders, SubscribeAnswered(r) PROVE StatusMatchesTable'
  <2>1. inbox[r] \in Answers
    BY <1>5 DEF SubscribeAnswered, Handling, OtherPDU
  <2>2. inbox[r].function_id # NoFunction
    BY <2>1, IdFacts
  <2> QED
    BY <1>5, <2>2 DEF SubscribeAnswered, Conclude, IsNew
<1>6. ASSUME NEW r \in Responders, DeleteAnswered(r) PROVE StatusMatchesTable'
  BY <1>6 DEF DeleteAnswered, Conclude, Erased
<1> QED
  BY <1>1, <1>2, <1>3, <1>4, <1>5, <1>6, TableSteps

(* A final status agrees with the subscription table until its caller has  *)
(* taken it, so operator[] never inserts an empty answer.                  *)
THEOREM StatusMatchesTableAlways == Spec => []StatusMatchesTable
<1>1. Init => StatusMatchesTable
  BY DEF Init, StatusMatchesTable, NoEntry
<1> QED
  BY <1>1, TableNext, TypeCorrect, PTL DEF Spec

(* A step moves a status and the subscription table only as AnswerOnce     *)
(* allows.                                                                 *)
LEMMA OnceStep ==
    TypeOK /\ StatusMatchesTable /\ [Next]_vars =>
       [StatusMovesOnce /\ TableMovesWithStatus]_vars
<1> SUFFICES ASSUME TypeOK, StatusMatchesTable, Next
             PROVE  StatusMovesOnce /\ TableMovesWithStatus
  OBVIOUS
<1> USE IdsAssumption
    DEF TypeOK, StatusMovesOnce, TableMovesWithStatus, Subscribed
<1>1. CASE UNCHANGED <<requests_table, subscription_responses>>
  BY <1>1
<1>2. CASE Clear
  BY <1>2 DEF Clear
<1>3. ASSUME NEW t \in Callers, UNCHANGED subscription_responses,
             \/ /\ requests_table[call[t].id] = NoEntry
                /\ requests_table' = [requests_table EXCEPT
                                        ![call[t].id] = Pending(call[t].op)]
             \/ requests_table' = [requests_table EXCEPT ![call[t].id] = NoEntry]
      PROVE  StatusMovesOnce /\ TableMovesWithStatus
  BY <1>3
<1>4. ASSUME NEW t \in Callers, Finish(t)
      PROVE  StatusMovesOnce /\ TableMovesWithStatus
  <2>1. call[t].id \in Ids
    BY <1>4, IdFacts DEF Finish, Released, Calls
  <2>2. UNCHANGED subscription_responses
    BY <1>4, <2>1 DEF Finish, Released, StatusMatchesTable
  <2> QED
    BY <1>4, <2>2 DEF Finish, Released
<1>5. ASSUME NEW r \in Responders, SubscribeAnswered(r)
      PROVE  StatusMovesOnce /\ TableMovesWithStatus
  <2>1. AnswerId(inbox[r]) \in Ids
    BY <1>5, IdFacts DEF SubscribeAnswered, Handling, OtherPDU
  <2> QED
    BY <1>5, <2>1 DEF SubscribeAnswered, Conclude, IsNew, Awaited, Pending,
                      SubscribedNow
<1>6. ASSUME NEW r \in Responders, DeleteAnswered(r)
      PROVE  StatusMovesOnce /\ TableMovesWithStatus
  <2>1. AnswerId(inbox[r]) \in Ids
    BY <1>6, IdFacts DEF DeleteAnswered, Handling, OtherPDU
  <2> QED
    BY <1>6, <2>1 DEF DeleteAnswered, Conclude, Erased, Awaited, Pending,
                      DeletedNow
<1> QED
  BY <1>1, <1>2, <1>3, <1>4, <1>5, <1>6, TableSteps

(* An answer that was given is never overwritten, and the subscription     *)
(* table changes only with the status of the call that asked for it.       *)
THEOREM AnswerOnceAlways == Spec => AnswerOnce
BY OnceStep, TypeCorrect, StatusMatchesTableAlways, PTL DEF Spec, AnswerOnce
-----------------------------------------------------------------------------
(* Notification.                                                           *)

(* Only an answer decides a call that waits, and its listener goes on to   *)
(* notify.                                                                 *)
LEMMA AnnouncedStep ==
    ASSUME TypeOK, EntryOwned, [Next]_vars,
           NEW t \in Callers, pc[t] = "wait", Undecided(t), pc'[t] = "wait", ~Undecided(t)'
    PROVE  \E r \in Responders : pc'[r] = "notify"
<1> USE DEF TypeOK, Undecided
<1>1. Owner(t, call[t].id) /\ call[t] \in Calls /\ call[t].id \in Ids
  BY IdFacts DEF Owner, OwningStages, Calls
<1>2. requests_table[call[t].id] # NoEntry
  BY DEF Pending, NoEntry
<1>3. ASSUME NEW u \in Callers, u # t, pc[u] \in OwningStages
      PROVE  call[u].id # call[t].id
  BY <1>1, <1>3 DEF EntryOwned, OneOwner, Owner
<1>4. Next /\ call'[t] = call[t]
  <2>1. Next
    BY DEF vars
  <2>2. ASSUME NEW u \in Callers, Leave(u) \/ \E c \in Calls : Call(u, c)
        PROVE  call'[t] = call[t]
    BY <2>2 DEF Leave, Call, Goto
  <2> QED
    BY <2>1, <2>2 DEF Next, CallerStep, InCall, ListenerStep, CheckSubscription,
       CheckRequest, Encode, AddRequest, Transmit, TimedWake, KeepWaiting, Finish,
       Lock, Receive, IgnorePDU, SubscribeAnswered, DeleteAnswered, AnswerIgnored,
       Conclude, Notify, Clear, Tick
<1>5. CASE UNCHANGED requests_table
  BY <1>4, <1>5
<1>6. CASE Clear
  BY <1>6 DEF Clear
<1>7. ASSUME NEW u \in Callers, requests_table[call[u].id] = NoEntry,
             requests_table' = [requests_table EXCEPT ![call[u].id] = Pending(call[u].op)]
      PROVE  FALSE
  BY <1>1, <1>2, <1>4, <1>7
<1>8. ASSUME NEW u \in Callers, Transmit(u) \/ Finish(u),
             requests_table' = [requests_table EXCEPT ![call[u].id] = NoEntry]
      PROVE  FALSE
  <2>1. u # t /\ pc[u] \in OwningStages
    BY <1>8 DEF Transmit, Finish, Return, Goto, OwningStages
  <2> QED
    BY <1>1, <1>3, <1>4, <1>8, <2>1
<1>9. ASSUME NEW r \in Responders, SubscribeAnswered(r) \/ DeleteAnswered(r)
      PROVE  pc'[r] = "notify"
  BY <1>9 DEF SubscribeAnswered, DeleteAnswered, Conclude, Announce, Goto, Threads
<1> QED
  BY <1>4, <1>5, <1>6, <1>7, <1>8, <1>9, TableSteps DEF Finish, Released

(* A notification wakes every call that waits.                             *)
LEMMA NotifiedStep ==
    ASSUME TypeOK, [Next]_vars, NEW t \in Callers, pc[t] = "wait", pc'[t] = "wait",
           NEW r \in Responders, pc[r] = "notify"
    PROVE  pc'[r] = "notify"
<1> USE ThreadsAssumption DEF TypeOK, Threads
<1>1. ASSUME NEW s \in Responders, Notify(s) PROVE FALSE
  BY <1>1 DEF Notify, Waiting
<1>2. ASSUME NEW u \in Callers, CallerStep(u) \/ \E c \in Calls : Call(u, c)
      PROVE  pc'[r] = "notify"
  BY <1>2 DEF CallerStep, InCall, Call, CheckSubscription, CheckRequest, Encode,
     AddRequest, Transmit, TimedWake, KeepWaiting, Finish, Leave, Goto, Return
<1>3. ASSUME NEW s \in Responders, ListenerStep(s), ~Notify(s)
      PROVE  pc'[r] = "notify"
  BY <1>3 DEF ListenerStep, IgnorePDU, SubscribeAnswered, DeleteAnswered,
     AnswerIgnored, Handling, Conclude, Goto, Announce
<1>4. ASSUME NEW s \in Responders, NEW m \in Deliverable, Receive(s, m)
      PROVE  pc'[r] = "notify"
  BY <1>4 DEF Receive, Goto
<1>5. CASE UNCHANGED vars \/ Clear \/ Tick \/ \E u \in Threads : Lock(u)
  BY <1>5 DEF vars, Clear, Tick, Lock
<1> QED
  BY <1>1, <1>2, <1>3, <1>4, <1>5 DEF Next

(* A call starts to wait only with the request sent, or again while it is  *)
(* pending; neither step changes a status.                                 *)
LEMMA WaitBegins ==
    ASSUME TypeOK, [Next]_vars, NEW t \in Callers, pc[t] # "wait", pc'[t] = "wait"
    PROVE  /\ pc[t] = "transmit" \/ Undecided(t)
           /\ UNCHANGED <<requests_table, call>>
<1> USE ThreadsAssumption DEF TypeOK, Threads
<1>1. CASE \E u \in Callers : KeepWaiting(u)
  BY <1>1 DEF KeepWaiting, Undecided, Goto
<1>2. CASE \E u \in Callers : Transmit(u)
  BY <1>2 DEF Transmit, Goto, Return
<1>3. CASE UNCHANGED vars
  BY <1>3 DEF vars
<1> QED
  BY <1>1, <1>2, <1>3 DEF Next, CallerStep, InCall, ListenerStep, Call,
     CheckSubscription, CheckRequest, Encode, AddRequest, TimedWake, Finish,
     Leave, Lock, Receive, IgnorePDU, SubscribeAnswered, DeleteAnswered,
     AnswerIgnored, Conclude, Notify, Clear, Tick, Goto, Return, Announce

(* A call is left waiting with a recorded answer, and with no notification *)
(* on its way, only if the answer was there before it began to wait.       *)
THEOREM OnlyEarlyAnswersStrandAlways == Spec => OnlyEarlyAnswersStrand
<1>1. ASSUME TypeOK, EntryOwned, [Next]_vars, NEW t \in Callers, Stranded(t)'
      PROVE  Stranded(t) \/ (pc[t] = "transmit" /\ ~Undecided(t))
  <2>1. pc'[t] = "wait" /\ ~Undecided(t)' /\ \A r \in Responders : pc'[r] # "notify"
    BY <1>1 DEF Stranded
  <2>2. CASE pc[t] = "wait"
    <3>1. ~Undecided(t)
      BY <1>1, <2>1, <2>2, AnnouncedStep
    <3>2. \A r \in Responders : pc[r] # "notify"
      BY <1>1, <2>1, <2>2, NotifiedStep
    <3> QED
      BY <2>2, <3>1, <3>2 DEF Stranded
  <2>3. CASE pc[t] # "wait"
    <3>1. (pc[t] = "transmit" \/ Undecided(t)) /\ UNCHANGED <<requests_table, call>>
      BY <1>1, <2>1, <2>3, WaitBegins
    <3>2. Undecided(t) = Undecided(t)'
      BY <3>1 DEF Undecided
    <3> QED
      BY <2>1, <3>1, <3>2
  <2> QED
    BY <2>2, <2>3
<1>2. TypeOK /\ EntryOwned /\ [Next]_vars =>
        [\A t \in Callers :
          Stranded(t)' => Stranded(t) \/ (pc[t] = "transmit" /\ ~Undecided(t))]_vars
  BY <1>1
<1> QED
  BY <1>2, TypeCorrect, EntryOwnedAlways, PTL DEF Spec, OnlyEarlyAnswersStrand
-----------------------------------------------------------------------------
(* The handler implements SubscriptionService.                             *)

(* Only a deletion looks up the tables first.                              *)
OnlyDeletesCheck ==
    \A t \in Callers : pc[t] \in {"check_subscription", "check_request"} =>
       call[t].op = "delete"

(* Only a delete looks up the tables before it adds its entry: by          *)
(* induction.                                                              *)
LEMMA ChecksNext == TypeOK /\ OnlyDeletesCheck /\ [Next]_vars => OnlyDeletesCheck'
<1> SUFFICES ASSUME TypeOK, OnlyDeletesCheck, [Next]_vars,
                    NEW t \in Callers, pc'[t] \in {"check_subscription", "check_request"}
             PROVE  call'[t].op = "delete"
  BY DEF OnlyDeletesCheck
<1> USE ThreadsAssumption DEF TypeOK, OnlyDeletesCheck, Goto, Return
<1>1. ASSUME NEW u \in Callers, NEW c \in Calls, Call(u, c) PROVE call'[t].op = "delete"
  BY <1>1 DEF Call, Calls, Ops
<1>2. ASSUME NEW u \in Callers, CallerStep(u) PROVE call'[t].op = "delete"
  BY <1>2 DEF CallerStep, InCall, CheckSubscription, CheckRequest, Encode, AddRequest,
              Transmit, TimedWake, KeepWaiting, Finish, Leave
<1>3. ASSUME NEW r \in Responders, ListenerStep(r) PROVE call'[t].op = "delete"
  BY <1>3 DEF ListenerStep, IgnorePDU, SubscribeAnswered, DeleteAnswered,
              AnswerIgnored, Notify, Conclude, Announce
<1>4. CASE \/ \E u \in Threads : Lock(u)
           \/ \E r \in Responders, m \in Deliverable : Receive(r, m)
           \/ Clear \/ Tick \/ UNCHANGED vars
  BY <1>4 DEF Lock, Receive, Clear, Tick, vars
<1> QED
  BY <1>1, <1>2, <1>3, <1>4 DEF Next

(* Only a delete is ever at the two look-ups.                              *)
LEMMA ChecksAlways == Spec => []OnlyDeletesCheck
<1>1. Init => OnlyDeletesCheck
  BY DEF Init, OnlyDeletesCheck, Threads
<1> QED
  BY <1>1, ChecksNext, TypeCorrect, PTL DEF Spec

(* The session of a caller, stage by stage.                                *)
SessionOf(stage, c, status, res) ==
    CASE stage = "idle" -> Service!Idle
      [] stage = "return" -> Service!Told("answered", c, res)
      [] stage \in OwningStages /\ status = Pending(c.op) -> Service!At("admitted", c)
      [] stage \in OwningStages /\ status # Pending(c.op) ->
            Service!Told("decided", c, ResultOf(c.op, status))
      [] OTHER -> Service!At("asked", c)

(* The session the mapping gives a caller, stage by stage.                 *)
LEMMA SessionFacts ==
    ASSUME NEW stage, NEW c, NEW status, NEW res
    PROVE  LET s == SessionOf(stage, c, status, res) IN
           /\ stage = "idle" => s = Service!Idle
           /\ stage = "return" => s = Service!Told("answered", c, res)
           /\ stage \in OwningStages /\ status = Pending(c.op) =>
                 s = Service!At("admitted", c)
           /\ stage \in OwningStages /\ status # Pending(c.op) =>
                 s = Service!Told("decided", c, ResultOf(c.op, status))
           /\ stage \in {"encode", "check_subscription", "check_request", "add"} =>
                 s = Service!At("asked", c)
<1> DEFINE s == SessionOf(stage, c, status, res)
<1>1. CASE stage = "idle"
  BY <1>1 DEF SessionOf, OwningStages
<1>2. CASE stage = "return"
  BY <1>2 DEF SessionOf, OwningStages
<1>3. CASE stage \in OwningStages
  BY <1>3 DEF SessionOf, OwningStages
<1>4. CASE stage \notin OwningStages \cup {"idle", "return"}
  BY <1>4 DEF SessionOf, OwningStages
<1> QED
  BY <1>1, <1>2, <1>3, <1>4 DEF OwningStages

(* It is the session that Sessions has, before and after a step.           *)
LEMMA SessionNow ==
    ASSUME NEW t \in Callers
    PROVE  /\ Sessions[t] =
                SessionOf(pc[t], call[t], requests_table[call[t].id], result[t])
           /\ Sessions'[t] =
                SessionOf(pc'[t], call'[t], requests_table'[call'[t].id], result'[t])
BY DEF Sessions, Session, SessionOf, Service!Idle, Service!At, Service!Told

(* Who holds an id there owns its entry here.                              *)
LEMMA HoldsFacts ==
    ASSUME TypeOK, NEW t \in Callers, NEW k
    PROVE  Service!Holds(t, k) <=> Owner(t, k)
<1> DEFINE s == SessionOf(pc[t], call[t], requests_table[call[t].id], result[t])
<1>1. Sessions[t] = s
  BY SessionNow
<1>2. CASE pc[t] \in OwningStages
  <2>1. s.phase \in {"admitted", "decided"} /\ s.call = call[t]
    BY <1>2, SessionFacts DEF Service!At, Service!Told
  <2> QED
    BY <1>1, <1>2, <2>1 DEF Service!Holds, Owner
<1>3. CASE pc[t] \notin OwningStages
  <2>1. s.phase \in {"idle", "answered", "asked"}
    <3>1. pc[t] \in {"idle", "return", "encode", "check_subscription", "check_request", "add"}
      BY <1>3 DEF TypeOK, CallerStages, OwningStages
    <3> QED
      BY <3>1, SessionFacts DEF Service!Idle, Service!At, Service!Told
  <2> QED
    BY <1>1, <1>3, <2>1 DEF Service!Holds, Owner
<1> QED
  BY <1>2, <1>3

(* A step that leaves a caller where it is leaves its session alone.       *)
LEMMA SessionKept ==
    ASSUME NEW t \in Callers,
           pc'[t] = pc[t] \/ {pc[t], pc'[t]} \subseteq OwningStages,
           call'[t] = call[t], result'[t] = result[t],
           \/ pc[t] \notin OwningStages
           \/ requests_table'[call[t].id] = requests_table[call[t].id]
    PROVE  Sessions'[t] = Sessions[t]
<1>1. CASE pc[t] \in OwningStages
  <2>1. pc'[t] \in OwningStages
    BY <1>1
  <2> QED
    BY <1>1, <2>1, SessionNow, SessionFacts
<1>2. CASE pc[t] \notin OwningStages
  <2>1. pc'[t] = pc[t]
    BY <1>2
  <2>2. \A c, s1, s2, r : SessionOf(pc[t], c, s1, r) = SessionOf(pc[t], c, s2, r)
    BY <1>2 DEF SessionOf
  <2> QED
    BY <2>1, <2>2, SessionNow
<1> QED
  BY <1>1, <1>2

(* A step that moves one session only.                                     *)
LEMMA OneSession ==
    ASSUME NEW t \in Callers, \A u \in Callers \ {t} : Sessions'[u] = Sessions[u]
    PROVE  Sessions' = [Sessions EXCEPT ![t] = Sessions'[t]]
BY DEF Sessions

(* A step of a caller t that touches no entry but its own leaves the       *)
(* sessions of the others alone.                                           *)
LEMMA OthersKept ==
    ASSUME TypeOK, EntryOwned, NEW t \in Callers,
           \A u \in Callers \ {t} : pc'[u] = pc[u] \/ {pc[u], pc'[u]} \subseteq OwningStages,
           \A u \in Callers \ {t} : call'[u] = call[u] /\ result'[u] = result[u],
           \/ UNCHANGED requests_table
           \/ /\ pc[t] \in OwningStages \/ requests_table[call[t].id] = NoEntry
              /\ \E status : requests_table' = [requests_table EXCEPT ![call[t].id] = status]
    PROVE  Sessions' = [Sessions EXCEPT ![t] = Sessions'[t]]
<1> SUFFICES ASSUME NEW u \in Callers \ {t} PROVE Sessions'[u] = Sessions[u]
  BY OneSession
<1>1. CASE UNCHANGED requests_table
  BY <1>1, SessionKept
<1>2. CASE pc[u] \notin OwningStages
  BY <1>2, SessionKept
<1>3. CASE pc[u] \in OwningStages /\ ~UNCHANGED requests_table
  <2>1. requests_table[call[u].id] \in StatusOf(call[u].op) /\ call[u] \in Calls
        /\ call[u].id \in Ids
    BY <1>3, IdFacts DEF EntryOwned, OwnerHasEntry, TypeOK, OwningStages, Calls
  <2>2. requests_table[call[u].id] # NoEntry
    BY <2>1 DEF Calls, Ops, StatusOf, SubscribeStatus, DeleteStatus, NoEntry
  <2>3. call[u].id # call[t].id
    BY <1>3, <2>1, <2>2 DEF EntryOwned, OneOwner, Owner
  <2>4. requests_table'[call[u].id] = requests_table[call[u].id]
    BY <1>3, <2>1, <2>3 DEF TypeOK
  <2> QED
    BY <2>4, SessionKept
<1> QED
  BY <1>1, <1>2, <1>3

(* A step of the service that is one caller's.                             *)
LEMMA Served ==
    ASSUME NEW t \in Callers, Service!Serve(t), Sessions'[t] # Sessions[t]
    PROVE  Service!Next
BY DEF Service!Next

(* ... and a step of the handler that the service does not see.            *)
LEMMA Unseen ==
    ASSUME UNCHANGED subscription_responses,
           \A t \in Callers : Sessions'[t] = Sessions[t]
    PROVE  UNCHANGED <<Subscribed, Sessions>>
BY DEF Sessions, Subscribed

(* The service's step for a call that begins ...                           *)
LEMMA CallServed ==
    ASSUME TypeOK, EntryOwned, NEW t \in Callers, NEW c \in Calls, Call(t, c)
    PROVE  Service!Next
<1> USE DEF TypeOK, Call, Goto
<1>1. Sessions' = [Sessions EXCEPT ![t] = Sessions'[t]]
  BY ThreadsAssumption, OthersKept
<1>2. Sessions[t] = Service!Idle /\ Sessions'[t] = Service!At("asked", c)
  BY SessionNow, SessionFacts
<1>3. c = [op |-> c.op, id |-> c.id] /\ c.op \in {"subscribe", "delete"} /\ c.id \in Ids
  BY IdFacts DEF Calls, Ops
<1>4. Service!Ask(t, c.op, c.id)
  BY <1>1, <1>2, <1>3 DEF Service!Ask, Service!Step, Service!Idle, Service!At, Subscribed
<1> QED
  BY <1>2, <1>3, <1>4, Served DEF Service!Serve, Service!Idle, Service!At

(* A call refused before it got an entry.                                  *)
LEMMA RefusalServed ==
    ASSUME TypeOK, EntryOwned, NEW t \in Callers, NEW res \in Service!Refusals,
           pc[t] \in {"encode", "check_subscription", "check_request", "add"},
           Return(t, res), UNCHANGED <<requests_table, subscription_responses, call>>,
           \/ res = "ERR_ENCODE"
           \/ res = "ERR_DUPLICATE" /\ requests_table[call[t].id] # NoEntry
           \/ res \in {"ERR_MISSING", "ERR_DUPLICATE"} /\ call[t].op = "delete"
    PROVE  Service!Next
<1> USE DEF TypeOK, Return, Goto
<1>1. Sessions' = [Sessions EXCEPT ![t] = Sessions'[t]]
  BY OthersKept
<1>2. /\ Sessions[t] = Service!At("asked", call[t])
      /\ Sessions'[t] = Service!Told("answered", call[t], res)
  BY SessionNow, SessionFacts
<1>3. requests_table[call[t].id] # NoEntry =>
         \E u \in Callers : Service!Holds(u, call[t].id)
  BY HoldsFacts, IdFacts DEF EntryOwned, EntryHasOwner, Calls
<1>4. Service!Refuse(t, res)
  BY <1>1, <1>2, <1>3
     DEF Service!Refuse, Service!Step, Service!At, Service!Told, Subscribed
<1> QED
  BY <1>2, <1>4, Served DEF Service!Serve, Service!At, Service!Told

(* ... for one whose entry is added ...                                    *)
LEMMA AdmissionServed ==
    ASSUME TypeOK, EntryOwned, NEW t \in Callers, AddRequest(t), Addable(call[t].id)
    PROVE  Service!Next
<1> USE DEF TypeOK, AddRequest, Addable, Goto
<1>1. call[t] \in Calls /\ call[t].id \in Ids
  BY IdFacts DEF Calls
<1>2. Sessions' = [Sessions EXCEPT ![t] = Sessions'[t]]
  BY OthersKept
<1>3. /\ Sessions[t] = Service!At("asked", call[t])
      /\ Sessions'[t] = Service!At("admitted", call[t])
  BY <1>1, SessionNow, SessionFacts DEF OwningStages
<1>4. \A u \in Callers : ~Service!Holds(u, call[t].id)
  <2> SUFFICES ASSUME NEW u \in Callers, Owner(u, call[t].id) PROVE FALSE
    BY HoldsFacts
  <2>1. requests_table[call[u].id] \in StatusOf(call[u].op) /\ call[u] \in Calls
    BY DEF EntryOwned, OwnerHasEntry, Owner, OwningStages
  <2> QED
    BY <2>1 DEF Owner, Calls, Ops, StatusOf, SubscribeStatus, DeleteStatus, NoEntry
<1>5. Service!Admit(t)
  BY <1>2, <1>3, <1>4 DEF Service!Admit, Service!Step, Service!At, Subscribed
<1> QED
  BY <1>3, <1>5, Served DEF Service!Serve, Service!At

(* A call over: it could not be sent, had no answer in time, or is told    *)
(* what was decided.                                                       *)
LEMMA EndServed ==
    ASSUME TypeOK, EntryOwned, NEW t \in Callers, NEW res, pc[t] \in OwningStages,
           Return(t, res), requests_table' = Released(call[t].id),
           UNCHANGED <<subscription_responses, call>>,
           IF requests_table[call[t].id] = Pending(call[t].op)
           THEN res \in {"ERR_TX", "ERR_TIMEOUT"}
           ELSE res \in {"ERR_TX", ResultOf(call[t].op, requests_table[call[t].id])}
    PROVE  Service!Next
<1> USE DEF TypeOK, Return, Goto, Released
<1>1. Sessions' = [Sessions EXCEPT ![t] = Sessions'[t]]
  BY OthersKept
<1>2. Sessions'[t] = Service!Told("answered", call[t], res)
  BY SessionNow, SessionFacts
<1>3. CASE requests_table[call[t].id] = Pending(call[t].op)
  <2>1. Sessions[t] = Service!At("admitted", call[t])
    BY <1>3, SessionNow, SessionFacts
  <2>2. Service!GiveUp(t, res)
    BY <1>1, <1>2, <1>3, <2>1
       DEF Service!GiveUp, Service!Step, Service!At, Service!Told, Subscribed
  <2> QED
    BY <1>2, <1>3, <2>1, <2>2, Served DEF Service!Serve, Service!At, Service!Told
<1>4. CASE requests_table[call[t].id] # Pending(call[t].op)
  <2> DEFINE was == ResultOf(call[t].op, requests_table[call[t].id])
  <2>1. Sessions[t] = Service!Told("decided", call[t], was)
    BY <1>4, SessionNow, SessionFacts
  <2> HIDE DEF was
  <2>2. Service!Release(t)
    BY <1>1, <1>2, <1>4, <2>1
       DEF Service!Release, Service!Step, Service!Told, Subscribed, was
  <2> QED
    BY <1>2, <2>1, <2>2, Served DEF Service!Serve, Service!Told
<1> QED
  BY <1>3, <1>4

(* ... for one that reports ...                                            *)
LEMMA LeaveServed ==
    ASSUME TypeOK, EntryOwned, NEW t \in Callers, Leave(t)
    PROVE  Service!Next
<1> USE DEF TypeOK, Leave, Goto
<1>1. Sessions' = [Sessions EXCEPT ![t] = Sessions'[t]]
  BY OthersKept
<1>2. /\ Sessions[t] = Service!Told("answered", call[t], result[t])
      /\ Sessions'[t] = Service!Idle
  BY SessionNow, SessionFacts
<1>3. Service!Leave(t)
  BY <1>1, <1>2 DEF Service!Leave, Service!Step, Service!Told, Service!Idle, Subscribed
<1> QED
  BY <1>2, <1>3, Served DEF Service!Serve, Service!Told, Service!Idle

(* An answer decides the call that owns the entry.                         *)
LEMMA DecisionServed ==
    ASSUME TypeOK, EntryOwned, NEW o \in Ops, NEW k \in Ids, NEW status \in StatusOf(o),
           status # Pending(o), requests_table[k] = Pending(o),
           requests_table' = [requests_table EXCEPT ![k] = status],
           UNCHANGED <<call, result>>, \A t \in Callers : pc'[t] = pc[t],
           \/ /\ ResultOf(o, status) = "SUCCESS"
              /\ \/ o = "subscribe" /\ k \notin Subscribed /\ Subscribed' = Subscribed \cup {k}
                 \/ o = "delete" /\ k \in Subscribed /\ Subscribed' = Subscribed \ {k}
           \/ /\ UNCHANGED subscription_responses
              /\ \/ ResultOf(o, status) = "ERR_FAIL"
                 \/ ResultOf(o, status) = "ERR_DUPLICATE" /\ o = "subscribe" /\ k \in Subscribed
    PROVE  Service!Next
<1> USE DEF TypeOK
<1>1. PICK t \in Callers : Owner(t, k)
  BY DEF EntryOwned, EntryHasOwner, Ops, Pending, NoEntry
<1>2. call[t] \in Calls /\ call[t].op = o /\ call[t].id = k
  <2>1. call[t] \in Calls /\ call[t].id = k /\ requests_table[k] \in StatusOf(call[t].op)
    BY <1>1 DEF Owner, OwningStages, EntryOwned, OwnerHasEntry
  <2> QED
    BY <2>1 DEF Calls, Ops, Pending, StatusOf, SubscribeStatus, DeleteStatus
<1>3. Sessions' = [Sessions EXCEPT ![t] = Sessions'[t]]
  BY <1>1, <1>2, OthersKept DEF Owner
<1> DEFINE res == ResultOf(o, status)
<1>4. /\ Sessions[t] = Service!At("admitted", call[t])
      /\ Sessions'[t] = Service!Told("decided", call[t], res)
  BY <1>1, <1>2, SessionNow, SessionFacts DEF Owner
<1>5. Sessions'[t] # Sessions[t]
  BY <1>4 DEF Service!At, Service!Told
<1>6. /\ Sessions[t].phase = "admitted" /\ Sessions[t].call = call[t]
  BY <1>4 DEF Service!At
<1> HIDE DEF res
<1>7. CASE /\ res = "SUCCESS"
           /\ \/ o = "subscribe" /\ k \notin Subscribed /\ Subscribed' = Subscribed \cup {k}
              \/ o = "delete" /\ k \in Subscribed /\ Subscribed' = Subscribed \ {k}
  <2>1. Service!Grant(t)
    BY <1>2, <1>3, <1>4, <1>6, <1>7 DEF Service!Grant, Service!Step
  <2> QED
    BY <2>1, <1>5, Served DEF Service!Serve
<1>8. CASE /\ UNCHANGED subscription_responses
           /\ \/ res = "ERR_FAIL"
              \/ res = "ERR_DUPLICATE" /\ o = "subscribe" /\ k \in Subscribed
  <2>1. Service!Deny(t, res)
    BY <1>2, <1>3, <1>4, <1>6, <1>8 DEF Service!Deny, Service!Step, Subscribed
  <2> QED
    BY <2>1, <1>5, <1>8, Served DEF Service!Serve
<1> QED
  BY <1>7, <1>8 DEF res

(* ... for a subscription the gNodeB answered ...                          *)
LEMMA SubscribeServed ==
    ASSUME TypeOK, EntryOwned, NEW r \in Responders, SubscribeAnswered(r)
    PROVE  Service!Next
<1> USE ThreadsAssumption, IdsAssumption DEF TypeOK
<1> DEFINE k == AnswerId(inbox[r])
<1>1. k \in Ids /\ inbox[r].function_id # NoFunction
  <2>1. inbox[r] \in Answers
    BY DEF SubscribeAnswered, Handling, OtherPDU
  <2> QED
    BY <2>1, IdFacts
<1>2. PICK status \in {"request_success", "request_failed", "request_duplicate"} :
        /\ Conclude(r, status)
        /\ status = "request_success" =>
             /\ subscription_responses[k] = NoFunction
             /\ subscription_responses' =
                  [subscription_responses EXCEPT ![k] = inbox[r].function_id]
        /\ status # "request_success" => UNCHANGED subscription_responses
        /\ status = "request_duplicate" => subscription_responses[k] # NoFunction
  BY DEF SubscribeAnswered, IsNew
<1>3. /\ status \in StatusOf("subscribe") /\ status # Pending("subscribe")
      /\ requests_table[k] = Pending("subscribe")
      /\ ResultOf("subscribe", status) =
           CASE status = "request_success" -> "SUCCESS"
             [] status = "request_failed" -> "ERR_FAIL"
             [] status = "request_duplicate" -> "ERR_DUPLICATE"
  BY DEF SubscribeAnswered, Awaited, StatusOf, SubscribeStatus, Pending, ResultOf
<1>4. \A t \in Callers : pc'[t] = pc[t]
  BY <1>2 DEF Conclude, Announce, Goto
<1>5. status = "request_success" =>
         k \notin Subscribed /\ Subscribed' = Subscribed \cup {k}
  BY <1>1, <1>2 DEF Subscribed
<1>6. status = "request_duplicate" => k \in Subscribed
  BY <1>1, <1>2 DEF Subscribed
<1> QED
  BY <1>1, <1>2, <1>3, <1>4, <1>5, <1>6, DecisionServed DEF Conclude, Ops

(* ... and for a delete it answered.                                       *)
LEMMA DeleteServed ==
    ASSUME TypeOK, EntryOwned, NEW r \in Responders, DeleteAnswered(r)
    PROVE  Service!Next
<1> USE ThreadsAssumption, IdsAssumption DEF TypeOK
<1> DEFINE k == AnswerId(inbox[r])
<1>1. k \in Ids
  BY IdFacts DEF DeleteAnswered, Handling, OtherPDU
<1>2. PICK status \in {"delete_request_success", "delete_request_failed"} :
        /\ Conclude(r, status)
        /\ status = "delete_request_success" =>
             /\ subscription_responses[k] # NoFunction
             /\ subscription_responses' = Erased(k)
        /\ status = "delete_request_failed" => UNCHANGED subscription_responses
  BY DEF DeleteAnswered, Erased
<1>3. /\ status \in StatusOf("delete") /\ status # Pending("delete")
      /\ requests_table[k] = Pending("delete")
      /\ ResultOf("delete", status) =
           IF status = "delete_request_success" THEN "SUCCESS" ELSE "ERR_FAIL"
  BY DEF DeleteAnswered, Awaited, StatusOf, DeleteStatus, Pending, ResultOf
<1>4. \A t \in Callers : pc'[t] = pc[t]
  BY <1>2 DEF Conclude, Announce, Goto
<1>5. status = "delete_request_success" =>
         k \in Subscribed /\ Subscribed' = Subscribed \ {k}
  BY <1>1, <1>2 DEF Subscribed, Erased
<1> QED
  BY <1>1, <1>2, <1>3, <1>4, <1>5, DecisionServed DEF Conclude, Ops

(* Every step of the handler is a step of the service, or is not seen.     *)
LEMMA StepServed ==
    TypeOK /\ EntryOwned /\ StatusMatchesTable /\ OnlyDeletesCheck /\ [Next]_vars =>
       [Service!Next]_<<Subscribed, Sessions>>
<1> SUFFICES ASSUME TypeOK, EntryOwned, StatusMatchesTable, OnlyDeletesCheck, [Next]_vars
             PROVE  Service!Next \/ UNCHANGED <<Subscribed, Sessions>>
  OBVIOUS
<1> USE ThreadsAssumption DEF TypeOK
<1>1. ASSUME NEW t \in Callers, CheckSubscription(t) \/ CheckRequest(t) \/ Encode(t)
      PROVE  Service!Next \/ UNCHANGED <<Subscribed, Sessions>>
  <2>1. CASE /\ UNCHANGED <<requests_table, subscription_responses, call, result>>
             /\ pc[t] \in {"check_subscription", "check_request", "encode"}
             /\ \E stage \in {"check_request", "encode", "add"} : Goto(t, stage)
    <3>1. Sessions' = [Sessions EXCEPT ![t] = Sessions'[t]]
      BY <2>1, OthersKept DEF Goto
    <3>2. Sessions'[t] = Sessions[t]
      BY <2>1, SessionNow, SessionFacts DEF Goto
    <3>3. \A u \in Callers : Sessions'[u] = Sessions[u]
      BY <3>1, <3>2 DEF Sessions
    <3> QED
      BY <3>3, <2>1, Unseen
  <2>2. CASE Return(t, "ERR_MISSING") /\ CheckSubscription(t)
    BY <2>2, RefusalServed DEF CheckSubscription, OnlyDeletesCheck, Service!Refusals
  <2>3. CASE Return(t, "ERR_DUPLICATE") /\ CheckRequest(t)
    BY <2>3, RefusalServed DEF CheckRequest, OnlyDeletesCheck, Service!Refusals
  <2>4. CASE Return(t, "ERR_ENCODE") /\ Encode(t)
    BY <2>4, RefusalServed DEF Encode, Service!Refusals
  <2> QED
    BY <1>1, <2>1, <2>2, <2>3, <2>4 DEF CheckSubscription, CheckRequest, Encode
<1>2. ASSUME NEW t \in Callers, AddRequest(t)
      PROVE  Service!Next
  <2>1. CASE Addable(call[t].id)
    BY <1>2, <2>1, AdmissionServed
  <2>2. CASE ~Addable(call[t].id)
    BY <1>2, <2>2, RefusalServed DEF AddRequest, Addable, Service!Refusals
  <2> QED
    BY <2>1, <2>2
<1>3. ASSUME NEW t \in Callers, Transmit(t)
      PROVE  Service!Next \/ UNCHANGED <<Subscribed, Sessions>>
  <2>1. CASE Goto(t, "wait") /\ UNCHANGED <<requests_table, result>>
    BY <1>3, <2>1, SessionKept, Unseen DEF Transmit, Goto, OwningStages
  <2>2. CASE Return(t, "ERR_TX") /\ requests_table' = Released(call[t].id)
    BY <1>3, <2>2, EndServed DEF Transmit, OwningStages
  <2> QED
    BY <1>3, <2>1, <2>2 DEF Transmit
<1>4. ASSUME NEW t \in Callers, TimedWake(t) \/ KeepWaiting(t)
      PROVE  UNCHANGED <<Subscribed, Sessions>>
  BY <1>4, SessionKept, Unseen DEF TimedWake, KeepWaiting, Goto, OwningStages
<1>5. ASSUME NEW t \in Callers, Finish(t)
      PROVE  Service!Next
  <2> DEFINE res == ResultOf(call[t].op, requests_table[call[t].id])
  <2>1. call[t].id \in Ids
    BY <1>5, IdFacts DEF Finish, Calls
  <2>2. UNCHANGED subscription_responses
    BY <1>5, <2>1 DEF Finish, StatusMatchesTable
  <2>3. requests_table[call[t].id] = Pending(call[t].op) => res = "ERR_TIMEOUT"
    BY DEF ResultOf, Pending
  <2>4. /\ pc[t] \in OwningStages /\ Return(t, res)
        /\ requests_table' = Released(call[t].id) /\ UNCHANGED call
    BY <1>5 DEF Finish, OwningStages
  <2>5. IF requests_table[call[t].id] = Pending(call[t].op)
        THEN res \in {"ERR_TX", "ERR_TIMEOUT"}
        ELSE res \in {"ERR_TX", ResultOf(call[t].op, requests_table[call[t].id])}
    BY <2>3
  <2> HIDE DEF res
  <2> QED
    BY <2>2, <2>4, <2>5, EndServed
<1>6. ASSUME NEW r \in Responders, IgnorePDU(r) \/ AnswerIgnored(r) \/ Notify(r)
      PROVE  UNCHANGED <<Subscribed, Sessions>>
  BY <1>6, SessionKept, Unseen
     DEF IgnorePDU, AnswerIgnored, Notify, Waiting, Goto, OwningStages, Threads
<1>7. CASE \/ \E t \in Threads : Lock(t)
           \/ \E r \in Responders, m \in Deliverable : Receive(r, m)
           \/ Tick \/ UNCHANGED vars
  BY <1>7, SessionKept, Unseen DEF Lock, Receive, Tick, vars, Goto
<1>8. CASE Clear
  <2>1. \A t \in Callers : pc[t] = "idle" /\ Sessions[t] = Service!Idle
                           /\ Sessions'[t] = Sessions[t]
    BY <1>8, SessionNow, SessionFacts DEF Clear, Threads, CallerStages
  <2> QED
    BY <1>8, <2>1 DEF Clear, Service!Next, Service!Forget, Subscribed, Sessions
<1> QED
  BY <1>1, <1>2, <1>3, <1>4, <1>5, <1>6, <1>7, <1>8, CallServed, LeaveServed,
     SubscribeServed, DeleteServed DEF Next, CallerStep, InCall, ListenerStep

(* The handler is a set of subscriptions that changes only as a call asked *)
(* for and is told, with one call at a time for each id, whatever threads, *)
(* late answers and time-outs do.                                          *)
THEOREM HandlerImplementsService == Spec => ImplementsService
<1>1. Init => Service!Init
  <2> SUFFICES ASSUME Init PROVE Service!Init
    OBVIOUS
  <2>1. Subscribed = {}
    BY DEF Init, Subscribed
  <2>2. \A t \in Callers : Sessions[t] = Service!Idle
    BY SessionNow, SessionFacts DEF Init, Threads
  <2> QED
    BY <2>1, <2>2 DEF Service!Init, Sessions
<1> QED
  BY <1>1, StepServed, TypeCorrect, EntryOwnedAlways, StatusMatchesTableAlways,
     ChecksAlways, PTL DEF Spec, ImplementsService, Service!Spec
=============================================================================
