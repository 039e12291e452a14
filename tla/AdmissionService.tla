--------------------------- MODULE AdmissionService ---------------------------
(***************************************************************************)
(* What the RAN, and whoever reads the counters, may rely on, without      *)
(* threads, buffers, modes or an RMR that fails: a request is judged at    *)
(* most once and by itself, is counted when it is judged, and is answered  *)
(* at most once, with the verdict that was counted and in the name of its  *)
(* own UE, and only after a rejection has been counted as one.             *)
(***************************************************************************)
EXTENDS Naturals, Sequences

CONSTANT Requests  \* the requests there can be

VARIABLES
    cases,     \* request -> how far it got, the verdict, the answers to it
    requests,  \* requests judged
    rejects    \* rejections counted

Phases == {"open", "judged", "counted"}
Open == [phase |-> "open", accept |-> FALSE, answers |-> <<>>]
Answer(r, accept) ==
    [req_seq_no |-> r.req_seq_no, menb_ue_x2ap_id |-> r.menb_ue_x2ap_id,
     accept |-> accept]

Init ==
    /\ cases = [r \in Requests |-> Open]
    /\ requests = 0
    /\ rejects = 0

(* One request at a time is being judged.                                  *)
Judge(r, accept) ==
    /\ cases[r] = Open
    /\ \A s \in Requests : cases[s].phase # "judged"
    /\ cases' = [cases EXCEPT ![r].phase = "judged", ![r].accept = accept]
    /\ requests' = requests + 1
    /\ UNCHANGED rejects

Count(r) ==
    /\ cases[r].phase = "judged"
    /\ cases' = [cases EXCEPT ![r].phase = "counted"]
    /\ rejects' = IF cases[r].accept THEN rejects ELSE rejects + 1
    /\ UNCHANGED requests

Reply(r) ==
    /\ cases[r].phase = "counted"
    /\ cases[r].answers = <<>>
    /\ cases' = [cases EXCEPT ![r].answers = <<Answer(r, cases[r].accept)>>]
    /\ UNCHANGED <<requests, rejects>>

(* Every step moves a case on.  Saying so first spares TLC the search in    *)
(* the many steps of the pipeline that stutter here.                       *)
Next ==
    \E r \in Requests : cases'[r] # cases[r] /\
       (\/ \E accept \in BOOLEAN : Judge(r, accept)
        \/ Count(r)
        \/ Reply(r))

Spec == Init /\ [][Next]_<<cases, requests, rejects>>
=============================================================================
