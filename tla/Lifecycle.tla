------------------------------ MODULE Lifecycle ------------------------------
(***************************************************************************)
(* The life of the xAPP (src/adm-ctrl-xapp.cc, admission_init_routines.cc, *)
(* xapp_utils.cc): the main thread waits for a route table, starts the     *)
(* metrics thread and the RMR listener threads, which run Response() of    *)
(* the subscription handler, subscribes to every configured gNodeB, waits  *)
(* for a signal, deletes every subscription, stops the listeners           *)
(* (XaPP::Stop), joins the metrics thread and destroys the plugins.        *)
(*                                                                         *)
(* The main thread is the handler's only caller.  run_program is cleared   *)
(* by a signal at any time, in the middle of a blocking call too; before   *)
(* the handlers are registered a signal kills the process.                 *)
(***************************************************************************)
EXTENDS SubscriptionHandler

CONSTANTS
    Main,         \* the main thread
    MaxAttempts,  \* MAX_SUBSCRIPTION_ATTEMPTS
    MaxWait,      \* MAX_WAIT_TIME
    FunctionId,   \* the one RAN function it subscribes to
    NoNode        \* no gNodeB is being subscribed to

ASSUME LifecycleAssumption ==
    /\ Callers = {Main}
    /\ FunctionId \in FunctionIds
    /\ MaxAttempts \in Nat
    /\ MaxWait \in Nat
    /\ NoNode \notin Nodes

VARIABLES
    run_program,    \* cleared by EndProgram
    phase,          \* how far main() is
    gNodeB_list,    \* the gNodeBs the startup loop has not come to
    current,        \* the gNodeB whose attempts are being made
    attempt,        \* attempts made for it, less the running one
    failed_gNodeBs, \* the gNodeBs recorded as not subscribed
    sub_ids,        \* the subscriptions shutdown has still to delete
    undeleted,      \* those whose delete it logged as failed
    _listen,        \* the listener threads keep receiving
    polling,        \* listeners that saw _listen set and sit in epoll_wait
    polls,          \* how often get_routes() has asked in vain
    metrics         \* where the metrics thread is

mainVars == <<phase, gNodeB_list, current, attempt, failed_gNodeBs, sub_ids,
              undeleted>>
bootVars == <<polls, metrics>>
lifeVars == <<mainVars, bootVars, run_program, _listen, polling>>
allVars == <<vars, lifeVars>>

Phases == {"routing", "starting", "subscribing", "running", "deleting", "stopping",
           "joining", "stopped", "aborted"}
MetricsPlaces == {"none", "looping", "collecting", "ended"}

LifeTypeOK ==
    /\ TypeOK
    /\ run_program \in BOOLEAN
    /\ phase \in Phases
    /\ gNodeB_list \subseteq Nodes
    /\ current \in Nodes \cup {NoNode}
    /\ attempt \in 0..MaxAttempts
    /\ failed_gNodeBs \subseteq Nodes
    /\ sub_ids \subseteq Ids
    /\ undeleted \subseteq Ids
    /\ _listen \in BOOLEAN
    /\ polling \subseteq Responders
    /\ polls \in 0..MaxWait
    /\ metrics \in MetricsPlaces

(* The gNodeBs are told apart by name: one given twice is subscribed once  *)
(* here.  The event trigger start-up encodes is the same at every start    *)
(* and fits: the exit(0) of an encoder that refuses it is left out.        *)
LifeInit ==
    /\ Init
    /\ run_program = TRUE
    /\ phase = "routing"
    /\ gNodeB_list = Nodes
    /\ current = NoNode
    /\ attempt = 0
    /\ failed_gNodeBs = {}
    /\ sub_ids = {}
    /\ undeleted = {}
    /\ _listen = FALSE
    /\ polling = {}
    /\ polls = 0
    /\ metrics = "none"

Id(n) == <<n, FunctionId>>
BetweenCalls == pc[Main] = "idle"
Returned == pc[Main] = "return"

-----------------------------------------------------------------------------
(* XaPP::get_routes and main() up to the call of startup().                *)

(* rmr_ready says no; the constructor throws after the last time.          *)
NotReady ==
    /\ phase = "routing"
    /\ polls < MaxWait
    /\ polls' = polls + 1
    /\ UNCHANGED <<vars, mainVars, run_program, _listen, polling, metrics>>
NoRoutes ==
    /\ phase = "routing"
    /\ polls = MaxWait
    /\ phase' = "aborted"
    /\ UNCHANGED <<vars, run_program, gNodeB_list, current, attempt, failed_gNodeBs,
                   sub_ids, undeleted, _listen, polling, bootVars>>

(* There are routes, and the count, a local variable, is gone: the plugin  *)
(* is made, and the metrics thread.                                        *)
Ready ==
    /\ phase = "routing"
    /\ polls < MaxWait
    /\ phase' = "starting"
    /\ polls' = 0
    /\ metrics' = "looping"
    /\ UNCHANGED <<vars, run_program, gNodeB_list, current, attempt, failed_gNodeBs,
                   sub_ids, undeleted, _listen, polling>>

(* StartThread for every listener, and signal().                           *)
StartListeners ==
    /\ phase = "starting"
    /\ phase' = "subscribing"
    /\ _listen' = TRUE
    /\ UNCHANGED <<vars, run_program, gNodeB_list, current, attempt, failed_gNodeBs,
                   sub_ids, undeleted, polling, bootVars>>

(* A signal before that has its default effect.                            *)
Killed ==
    /\ phase \in {"routing", "starting"}
    /\ phase' = "aborted"
    /\ UNCHANGED <<vars, run_program, gNodeB_list, current, attempt, failed_gNodeBs,
                   sub_ids, undeleted, _listen, polling, bootVars>>

-----------------------------------------------------------------------------
(* init::startup_subscribe_requests.                                       *)

(* EndProgram, on SIGINT or SIGTERM.                                       *)
Signal ==
    /\ phase \notin {"routing", "starting", "aborted"}
    /\ run_program
    /\ run_program' = FALSE
    /\ UNCHANGED <<vars, mainVars, _listen, polling, bootVars>>

NextNode(n) ==
    /\ phase = "subscribing"
    /\ current = NoNode
    /\ n \in gNodeB_list
    /\ gNodeB_list' = gNodeB_list \ {n}
    /\ current' = n
    /\ attempt' = 0
    /\ UNCHANGED <<vars, run_program, phase, failed_gNodeBs, sub_ids, undeleted,
                   _listen, polling, bootVars>>

(* add_subscription for the current gNodeB.                                *)
Attempt ==
    /\ phase = "subscribing"
    /\ current # NoNode
    /\ BetweenCalls
    /\ run_program
    /\ Call(Main, [op |-> "subscribe", id |-> Id(current)])
    /\ UNCHANGED lifeVars

(* The inner loop ends without a subscription.                             *)
GiveUpNode ==
    /\ failed_gNodeBs' = failed_gNodeBs \cup {current}
    /\ current' = NoNode
    /\ UNCHANGED attempt

(* "Shutdown signal received during subscription process."                 *)
Quit ==
    /\ phase = "subscribing"
    /\ current # NoNode
    /\ BetweenCalls
    /\ ~run_program
    /\ GiveUpNode
    /\ UNCHANGED <<vars, run_program, phase, gNodeB_list, sub_ids, undeleted,
                   _listen, polling, bootVars>>

(* What counts as a subscription.  (A plausible bug: only a time-out is    *)
(* taken for a failure.)                                                   *)
MutantSucceeded(res) == res # "ERR_TIMEOUT"
Succeeded(res) == res = "SUCCESS"

(* attempt > MAX_SUBSCRIPTION_ATTEMPTS, after the increment.  (A plausible *)
(* bug: tested before the increment.)                                      *)
MutantExhausted == attempt > MaxAttempts
Exhausted == attempt + 1 > MaxAttempts

(* attempt ++.  (A plausible bug: it is left out.)                         *)
MutantNotCounted == attempt
Counted == attempt + 1
AttemptEnds ==
    /\ phase = "subscribing"
    /\ Returned
    /\ Leave(Main)
    /\ \/ /\ Succeeded(result[Main])
          /\ current' = NoNode
          /\ UNCHANGED <<attempt, failed_gNodeBs>>
       \/ /\ ~Succeeded(result[Main])
          /\ IF Exhausted
             THEN GiveUpNode
             ELSE /\ attempt' = Counted
                  /\ UNCHANGED <<current, failed_gNodeBs>>
    /\ UNCHANGED <<run_program, phase, gNodeB_list, sub_ids, undeleted, _listen,
                   polling, bootVars>>

(* The loop is over; startup_get_policies sends a query, once, and does    *)
(* not look at what Send returns.                                          *)
StartupEnds ==
    /\ phase = "subscribing"
    /\ current = NoNode
    /\ gNodeB_list = {}
    /\ phase' = "running"
    /\ UNCHANGED <<vars, run_program, gNodeB_list, current, attempt,
                   failed_gNodeBs, sub_ids, undeleted, _listen, polling, bootVars>>

-----------------------------------------------------------------------------
(* init::shutdown_subscribe_deletes.                                       *)

(* main() sees the signal; get_subscription_keys takes a snapshot.  (A     *)
(* plausible bug: of one key only.)                                        *)
MutantSomeKeys == {k \in Subscribed : \A j \in Subscribed : j = k}
Keys == Subscribed
BeginShutdown ==
    /\ phase = "running"
    /\ ~run_program
    /\ phase' = "deleting"
    /\ sub_ids' = Keys
    /\ UNCHANGED <<vars, run_program, gNodeB_list, current, attempt,
                   failed_gNodeBs, undeleted, _listen, polling, bootVars>>

(* get_subscription finds the stored answer, and the delete is addressed   *)
(* with the answer's function id.  (The else branch, no such answer, is    *)
(* left out: without it a vanished key would deadlock the model.)          *)
Delete(k) ==
    /\ phase = "deleting"
    /\ BetweenCalls
    /\ k \in sub_ids
    /\ subscription_responses[k] # NoFunction
    /\ Call(Main, [op |-> "delete", id |-> <<k[1], subscription_responses[k]>>])
    /\ sub_ids' = sub_ids \ {k}
    /\ UNCHANGED <<run_program, phase, gNodeB_list, current, attempt,
                   failed_gNodeBs, undeleted, _listen, polling, bootVars>>

DeleteEnds ==
    /\ phase = "deleting"
    /\ Returned
    /\ Leave(Main)
    /\ undeleted' = IF result[Main] = "SUCCESS" THEN undeleted
                    ELSE undeleted \cup {call[Main].id}
    /\ UNCHANGED <<run_program, phase, gNodeB_list, current, attempt,
                   failed_gNodeBs, sub_ids, _listen, polling, bootVars>>

-----------------------------------------------------------------------------
(* XaPP::Stop and the listener threads' loop.                              *)

(* _listen = false.  (A plausible bug: the flag is left set.)              *)
MutantKeepListening == _listen
ListenAfterStop == FALSE
Stop ==
    /\ phase = "deleting"
    /\ BetweenCalls
    /\ sub_ids = {}
    /\ phase' = "stopping"
    /\ _listen' = ListenAfterStop
    /\ UNCHANGED <<vars, run_program, gNodeB_list, current, attempt,
                   failed_gNodeBs, sub_ids, undeleted, polling, bootVars>>

(* A listener that sits in epoll_wait takes a message.                     *)
Poll(r, m) ==
    /\ r \in polling
    /\ Receive(r, m)
    /\ polling' = polling \ {r}
    /\ UNCHANGED <<mainVars, run_program, _listen, bootVars>>

(* The loop condition, once the message is dealt with or epoll_wait timed  *)
(* out: the thread goes on receiving, or is done for good.                 *)
LoopAgain(r) ==
    /\ pc[r] = "listen"
    /\ _listen
    /\ r \notin polling
    /\ polling' = polling \cup {r}
    /\ UNCHANGED <<vars, mainVars, run_program, _listen, bootVars>>
LoopEnds(r) ==
    /\ pc[r] = "listen"
    /\ ~_listen
    /\ r \in polling
    /\ polling' = polling \ {r}
    /\ UNCHANGED <<vars, mainVars, run_program, _listen, bootVars>>

(* join() of every listener thread.                                        *)
Join ==
    /\ phase = "stopping"
    /\ polling = {}
    /\ \A r \in Responders : pc[r] = "listen"
    /\ phase' = "joining"
    /\ UNCHANGED <<vars, run_program, gNodeB_list, current, attempt, failed_gNodeBs,
                   sub_ids, undeleted, _listen, polling, bootVars>>

(* metrics_thread.join(), then Plugins.clear().  (A plausible bug: the     *)
(* plugins are destroyed without the join.)                                *)
MutantJoined == TRUE
MetricsJoined == metrics = "ended"
ClearPlugins ==
    /\ phase = "joining"
    /\ MetricsJoined
    /\ phase' = "stopped"
    /\ UNCHANGED <<vars, run_program, gNodeB_list, current, attempt, failed_gNodeBs,
                   sub_ids, undeleted, _listen, polling, bootVars>>

-----------------------------------------------------------------------------
(* metrics_collector: it asks the plugins and posts what they say, without *)
(* a time-out, then sleeps and looks at run_program.                       *)

Collect ==
    /\ phase # "aborted"
    /\ metrics = "looping"
    /\ run_program
    /\ metrics' = "collecting"
    /\ UNCHANGED <<vars, mainVars, run_program, _listen, polling, polls>>
Posted ==
    /\ phase # "aborted"
    /\ metrics = "collecting"
    /\ metrics' = "looping"
    /\ UNCHANGED <<vars, mainVars, run_program, _listen, polling, polls>>
MetricsEnds ==
    /\ metrics = "looping"
    /\ ~run_program
    /\ metrics' = "ended"
    /\ UNCHANGED <<vars, mainVars, run_program, _listen, polling, polls>>

Terminated == phase \in {"stopped", "aborted"} /\ UNCHANGED allVars

-----------------------------------------------------------------------------

MainStep ==
    \/ NotReady \/ NoRoutes \/ Ready \/ StartListeners
    \/ Attempt \/ Quit \/ AttemptEnds \/ StartupEnds
    \/ \E n \in Nodes : NextNode(n)
    \/ BeginShutdown \/ DeleteEnds \/ Stop \/ Join \/ ClearPlugins
    \/ \E k \in Ids : Delete(k)

HandlerStep ==
    /\ \/ InCall(Main)
       \/ \E t \in Threads : Lock(t)
       \/ \E r \in Responders : ListenerStep(r)
       \/ Tick
    /\ UNCHANGED lifeVars

LifeNext ==
    \/ Signal \/ Killed
    \/ Collect \/ Posted \/ MetricsEnds
    \/ MainStep
    \/ HandlerStep
    \/ \E r \in Responders :
          \/ \E m \in Deliverable : Poll(r, m)
          \/ LoopAgain(r) \/ LoopEnds(r)
    \/ Terminated

LifeSpec == LifeInit /\ [][LifeNext]_allVars

(* As for the handler; main() runs, epoll_wait times out, and the metrics  *)
(* thread wakes up.  The collector need not ever take what is posted.      *)
LifeFairness ==
    /\ WF_allVars(MainStep)
    /\ WF_allVars(MetricsEnds)
    /\ WF_allVars(InCall(Main) /\ UNCHANGED lifeVars)
    /\ WF_allVars(Tick /\ UNCHANGED lifeVars)
    /\ \A t \in Threads : SF_allVars(Lock(t) /\ UNCHANGED lifeVars)
    /\ \A r \in Responders :
          /\ WF_allVars(ListenerStep(r) /\ UNCHANGED lifeVars)
          /\ WF_allVars(LoopAgain(r) \/ LoopEnds(r))

LifeFairSpec == LifeSpec /\ LifeFairness

-----------------------------------------------------------------------------
(* Properties.                                                             *)

(* A gNodeB that the startup loop has dealt with and did not record as     *)
(* failed has its subscription in the table until shutdown deletes it,     *)
(* whatever late or repeated answers to earlier attempts arrive.           *)
Settled == Nodes \ (gNodeB_list \cup {current})
SubscribedUnlessFailed ==
    phase \in {"subscribing", "running"} =>
       \A n \in Settled \ failed_gNodeBs : Id(n) \in Subscribed

Shut == {"stopping", "joining", "stopped"}

(* After shutdown, what is left in the table is exactly what shutdown      *)
(* reported as not deleted: the snapshot of the keys, taken while the      *)
(* listener threads run, misses nothing, and nothing comes back.           *)
ShutdownAccounts ==
    phase \in Shut => Subscribed = undeleted

(* Once the deletes are done, an answer that still arrives while the       *)
(* listener threads are being joined changes neither table.                *)
Quiet == UNCHANGED <<requests_table, subscription_responses>>
QuietAfterDeletes ==
    [][(phase \in Shut) => Quiet]_allVars

(* The gNodeBs recorded as failed are those "for which we could not        *)
(* subscribe".                                                             *)
FailedMeansUnsubscribed ==
    phase = "running" => \A n \in failed_gNodeBs : Id(n) \notin Subscribed

(* The plugins are destroyed only when no thread can use them any more: no *)
(* report is being made or will be, and no listener is left in its loop,   *)
(* wherever each of them was when the signal came.                         *)
PluginsOutliveUse ==
    phase = "stopped" => /\ metrics = "ended"
                         /\ ~_listen
                         /\ polling = {}
                         /\ \A r \in Responders : pc[r] = "listen"

(* Startup comes to an end even if RMR never has routes and no gNodeB ever *)
(* answers.                                                                *)
StartupTerminates == <>(phase \notin {"routing", "starting", "subscribing"})

(* Once the signal came, main() deletes what it can and all threads stop,  *)
(* wherever the signal caught them, unless the metrics thread is never     *)
(* done with a post, which has no time-out.                                *)
SignalStops ==
    ~run_program ~> (phase = "stopped" \/ [](metrics = "collecting"))
=============================================================================
