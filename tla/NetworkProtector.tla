--------------------------- MODULE NetworkProtector ---------------------------
(***************************************************************************)
(* The class protector (src/protector-plugin/NetworkProtector.{h,cc}): a   *)
(* table of rate policies, one per class of subscribers, each with its     *)
(* sliding window, and the admission decision for an SgNB Addition         *)
(* Request.  RMR listener threads run operator() and, through the policy   *)
(* wrapper, add, configure and delete policies; the mutex m_access         *)
(* serialises them.  Two readers do without it: get_requests and           *)
(* get_rejects for the totals, and is_active, which searches the map.      *)
(***************************************************************************)
EXTENDS WindowOps

CONSTANTS
    Listeners,      \* threads that call the protector
    Classes,        \* ids a caller names, legal or not
    Profiles,       \* subscriber_profile_id of a request
    Params,         \* policy parameters a caller passes, legal or not
    InitialParams,  \* the constructor's, for policy 0
    DefaultParams,  \* protector_policy()'s default arguments
    MaxRequests,    \* bound: requests per run
    Nobody          \* the mutex is free; a thread has no request in hand

ASSUME ProtectorAssumption ==
    /\ Nobody \notin Listeners
    /\ Classes \subseteq Int /\ 0 \in Classes
    /\ Profiles \subseteq Int
    /\ \A p \in Params \cup {InitialParams, DefaultParams} : p.window_size \in Int
    /\ LegalSize(InitialParams.window_size)
    /\ LegalSize(DefaultParams.window_size)
    /\ MaxRequests \in Nat

VARIABLES
    policy_list,   \* id -> policy; its domain is the set of ids in the map
    net_requests,
    net_rejects,
    m_access,      \* the listener that holds the mutex, or Nobody
    deciding       \* listener -> the request it decides: policy, verdict, and
                   \* whether the policy has counted the rejection already

protectorVars == <<policy_list, net_requests, net_rejects, m_access, deciding>>

Active == DOMAIN policy_list

(* protector_policy(...).                                                  *)
NewPolicy(p) ==
    [params |-> p, window |-> NewWindow(p.window_size), req |-> 0, rej |-> 0]

Policies == [params : Params \cup {InitialParams, DefaultParams},
             window : [size : MIN_WINDOW_SIZE..MAX_WINDOW_SIZE,
                       slot : UNION {[0..(n - 1) -> 0..MaxRequests] :
                                     n \in MIN_WINDOW_SIZE..MAX_WINDOW_SIZE},
                       head : 0..(MAX_WINDOW_SIZE - 1),
                       tail : 0..(MAX_WINDOW_SIZE - 1),
                       net_events : 0..MaxRequests,
                       edge_age : 0..(MAX_WINDOW_SIZE * Second)],
             req : 0..MaxRequests, rej : 0..MaxRequests]

Decisions == [policy : Int, accept : BOOLEAN, counted : BOOLEAN]
ASSUME NobodyAssumption == Nobody \notin Decisions

ProtectorTypeOK ==
    /\ Active \subseteq Classes
    /\ \A id \in Active : policy_list[id] \in Policies
    /\ net_requests \in 0..MaxRequests
    /\ net_rejects \in 0..MaxRequests
    /\ m_access \in Listeners \cup {Nobody}
    /\ \A t \in Listeners : deciding[t] # Nobody => deciding[t] \in Decisions

ProtectorInit ==
    /\ policy_list = [id \in {0} |-> NewPolicy(InitialParams)]
    /\ net_requests = 0
    /\ net_rejects = 0
    /\ m_access = Nobody
    /\ deciding = [t \in Listeners |-> Nobody]

-----------------------------------------------------------------------------
(* operator(): the decision.                                               *)

With(id, p) == [k \in Active \cup {id} |-> IF k = id THEN p ELSE policy_list[k]]

(* The request's own policy, or the default one; operator[] constructs a   *)
(* default policy with default arguments if there is none.                 *)
PolicyOf(profile) == IF profile \in Active THEN profile ELSE 0
Lookup(id) == IF id \in Active THEN policy_list[id] ELSE NewPolicy(DefaultParams)

(* The policy counts the request, in its window too.  (A plausible bug:    *)
(* the window is given the running total for the one request.)             *)
MutantCounted(p) == [p EXCEPT !.req = @ + 1, !.window = Updated(@, p.req + 1)]
Counted(p) == [p EXCEPT !.req = @ + 1, !.window = Updated(@, 1)]

(* The window is over the threshold of a policy that is enforced.          *)
Exceeded(p) == p.params.enforce /\ p.window.net_events > p.params.threshold

(* selectiveBlock draws a number in 1..100 and lets it pass if it is       *)
(* greater than the blocking rate.                                         *)
MayPass(p) == p.params.block_rate < 100
MayBlock(p) == p.params.block_rate >= 1
Verdicts(p) ==
    {accept \in BOOLEAN : IF accept THEN Exceeded(p) => MayPass(p)
                                    ELSE Exceeded(p) /\ MayBlock(p)}

(* Who may take m_access.  (A plausible bug: a method forgets the guard.)  *)
MutantFree == TRUE
Free == m_access = Nobody

(* Up to the verdict, the mutex held.  A PDU that does not decode, or is   *)
(* no SgNB Addition Request, changes nothing.                              *)
Decide(t, profile) ==
    LET id == PolicyOf(profile)
        p  == Counted(Lookup(id))
    IN
    /\ m_access = Nobody
    /\ net_requests < MaxRequests
    /\ m_access' = t
    /\ policy_list' = With(id, p)
    /\ net_requests' = net_requests + 1
    /\ \E accept \in Verdicts(p) :
          deciding' = [deciding EXCEPT ![t] =
                         [policy |-> id, accept |-> accept, counted |-> FALSE]]
    /\ UNCHANGED net_rejects

(* policy_ref->_rej++: the policy counts a rejection before the total does, *)
(* which is read without the mutex.                                        *)
CountRejection(t) ==
    /\ m_access = t
    /\ deciding[t] # Nobody
    /\ ~deciding[t].accept /\ ~deciding[t].counted
    /\ policy_list' = [policy_list EXCEPT ![deciding[t].policy].rej = @ + 1]
    /\ deciding' = [deciding EXCEPT ![t].counted = TRUE]
    /\ UNCHANGED <<net_requests, net_rejects, m_access>>

(* net_rejects++ for a rejection; the response is encoded, and the mutex   *)
(* released.  (A plausible bug: it is counted for the policy and not in    *)
(* the total.)                                                             *)
MutantTotalRejects(d) == net_rejects
TotalRejects(d) == IF d.accept THEN net_rejects ELSE net_rejects + 1
Conclude(t) ==
    /\ m_access = t
    /\ deciding[t] # Nobody
    /\ deciding[t].accept \/ deciding[t].counted
    /\ net_rejects' = TotalRejects(deciding[t])
    /\ deciding' = [deciding EXCEPT ![t] = Nobody]
    /\ m_access' = Nobody
    /\ UNCHANGED <<policy_list, net_requests>>

-----------------------------------------------------------------------------
(* The control methods.  Each takes the mutex for the whole call; "ok" is  *)
(* what it returns.                                                        *)

LegalParams(p, id) ==
    /\ p.window_size > 0
    /\ p.threshold >= 0
    /\ p.block_rate \in 0..100
    /\ id >= 0

Control == Free /\ UNCHANGED <<net_requests, net_rejects, m_access, deciding>>

(* configure.  The window starts afresh, the counters go on.               *)
Configure(p, id, ok) ==
    /\ Control
    /\ ok = (LegalParams(p, id) /\ id \in Active /\ LegalSize(p.window_size))
    /\ policy_list' =
          IF ok
          THEN [policy_list EXCEPT
                  ![id].params = p,
                  ![id].window = Resized(@, p.window_size)]
          ELSE policy_list

(* add_policy.  The policy's constructor throws on a window too large.     *)
AddPolicy(p, id, ok) ==
    /\ Control
    /\ ok = (id \notin Active /\ LegalParams(p, id) /\ LegalSize(p.window_size))
    /\ policy_list' = IF ok THEN With(id, NewPolicy(p)) ELSE policy_list

(* delete_policy.                                                          *)
Without(id) == [k \in Active \ {id} |-> policy_list[k]]
DeletePolicy(id, ok) ==
    /\ Control
    /\ ok = (id \in Active)
    /\ policy_list' = Without(id)

(* clear(), which only tests call.                                         *)
ClearPolicies ==
    /\ m_access = Nobody
    /\ policy_list' = [id \in Active |->
                         [policy_list[id] EXCEPT
                            !.window = Resized(@, @.size), !.req = 0, !.rej = 0]]
    /\ net_requests' = 0
    /\ net_rejects' = 0
    /\ UNCHANGED <<m_access, deciding>>

(* The clock every window reads.                                           *)
TickWindows ==
    /\ policy_list' = [id \in Active |->
                         [policy_list[id] EXCEPT !.window = Ticked(@)]]
    /\ UNCHANGED <<net_requests, net_rejects, m_access, deciding>>

ProtectorNext ==
    \/ \E t \in Listeners, s \in Profiles : Decide(t, s)
    \/ \E t \in Listeners : CountRejection(t) \/ Conclude(t)
    \/ \E p \in Params, id \in Classes, ok \in BOOLEAN :
          Configure(p, id, ok) \/ AddPolicy(p, id, ok)
    \/ \E id \in Classes, ok \in BOOLEAN : DeletePolicy(id, ok)
    \/ ClearPolicies
    \/ TickWindows

ProtectorSpec == ProtectorInit /\ [][ProtectorNext]_protectorVars

-----------------------------------------------------------------------------
(* Properties.                                                             *)

Total(field) == SumOver([id \in Active |-> policy_list[id][field]], Active)

(* The rejections that a policy has counted and the total has not.         *)
Uncounted == IF \E t \in Listeners : deciding[t] # Nobody /\ deciding[t].counted
             THEN 1 ELSE 0

(* The counters agree, whatever is added, configured or deleted: a policy  *)
(* has not rejected more than it was asked, has not more events in its     *)
(* window than requests, and the totals cover the policies there are       *)
(* (those of deleted policies stay in the totals).  For the totals, which  *)
(* are read without the mutex: the requests cover the policies' at every   *)
(* moment; the rejections do so up to the single one that its policy has   *)
(* counted and operator() is just about to count in the total, and without *)
(* exception whenever the mutex is free.                                   *)
CountersAgree ==
    /\ \A id \in Active : LET p == policy_list[id] IN
          p.rej <= p.req /\ p.window.net_events <= p.req
    /\ Total("req") <= net_requests
    /\ Total("rej") <= net_rejects + Uncounted
    /\ net_rejects + Uncounted <= net_requests
    /\ m_access = Nobody => Uncounted = 0

(* operator() keeps a pointer into the map while it decides: until the     *)
(* verdict is counted, the policy it decided by is still in the map, and a *)
(* rejection is still what that policy's parameters and window call for.   *)
DecisionStands ==
    \A t \in Listeners : deciding[t] # Nobody =>
       /\ deciding[t].policy \in Active
       /\ ~deciding[t].accept =>
             LET p == policy_list[deciding[t].policy] IN
             p.params.enforce /\ p.window.net_events > p.params.threshold

(* "there is always a default policy with id 0 (never gets deleted, can    *)
(* only be re-configured)", whatever policy messages arrive.  DeletePolicy *)
(* erases the id it is given: that it is never given 0 is the work of the  *)
(* wrapper, which takes the id from a table that only its own CREATEs fill *)
(* (NetworkProtector.cc:33, :292).                                         *)
DefaultPolicyKept == 0 \in Active
=============================================================================
