-------------------------- MODULE MCMessageProcessor --------------------------
(* MessageProcessor for TLC: one message for every way through the code.   *)
(* The default policy blocks half of what comes, that of class 1, which    *)
(* messages create, change and delete, all of it; sizes around a buffer    *)
(* that leaves no room for more than a response of size 1.                 *)
EXTENDS MessageProcessor, TLC

P(e, w, th, rate) == [enforce |-> e, window_size |-> w, threshold |-> th,
                      block_rate |-> rate]
MCPolicy == P(TRUE, 1, 0, 50)
MCStrict == P(TRUE, 1, 0, 100)
MCProfiles == {-1, 1}
MCParams == {MCStrict, P(FALSE, 1, 0, 50)}
MCLinkRetries == [LOW_LATENCY |-> 1, HIGH_RELIABILITY |-> 2]

Indication(n, call, size) ==
    [mtype |-> "RIC_INDICATION", fault |-> "none", type |-> "insert",
     req_seq_no |-> n, call_process_id |-> call, menb_ue_x2ap_id |-> n,
     sgnb_ue_x2ap_id |-> n, erabs |-> {"erab"}, profile |-> -1, size |-> size]
Faulty(n, fault) == [Indication(n, "call", 1) EXCEPT !.fault = fault]
Policy(op, class) == [mtype |-> "A1_POLICY_REQ", decodable |-> TRUE, op |-> op,
                      class |-> class, params |-> MCStrict]
Relax == [Policy("UPDATE", 0) EXCEPT !.params = P(FALSE, 1, 0, 50)]
NoJSON == [Relax EXCEPT !.decodable = FALSE]

WithoutSgNBId == [Indication(3, NoCall, 1) EXCEPT !.sgnb_ue_x2ap_id = NoId]
WithoutErabs == [Indication(5, "call", 1) EXCEPT !.erabs = {}]
OfClass1 == [Indication(6, "call", 1) EXCEPT !.profile = 1]
Report == [Indication(4, NoCall, 1) EXCEPT !.type = "report"]

MCMessages ==
    {Indication(1, "call", 1), Indication(2, NoCall, 1), WithoutSgNBId, WithoutErabs, Report,
     Indication(12, NoCall, 2), Indication(13, NoCall, 3), Indication(14, NoCall, 4),
     Indication(16, NoCall, 6),
     Faulty(21, "rmr"), Faulty(22, "e2ap"), Faulty(23, "header"), Faulty(24, "x2ap"),
     Faulty(25, "erab"), OfClass1, Policy("CREATE", 1), Policy("DELETE", 1), Relax, NoJSON,
     [mtype |-> "unknown"]}

(* Any of them together with an ordinary one; and a request of class 1     *)
(* that meets the creation and the deletion of its policy.                 *)
MCOrdinary == {Indication(1, "call", 1), Indication(2, NoCall, 1), Relax}
MCArrivals ==
    {{m, n} : m \in MCMessages, n \in MCOrdinary}
    \cup {{OfClass1, Policy("CREATE", 1), Policy("DELETE", 1)}, {}}

(* What a RAN may well send: inserts that fit.                             *)
MCInserts == {Indication(1, "call", 1), WithoutSgNBId}
MCInsertArrivals == SUBSET MCInserts
=============================================================================
