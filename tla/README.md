# The admission control xAPP in TLA+

This directory models the admission control xAPP of the O-RAN software
community: an agent beside the near-real-time RAN controller that subscribes to
gNodeBs, decides the SgNB addition requests they send it, and is steered by A1
policies. Paths below start at the repository's root; C++ sources are named
without their `src/` prefix where the directory is clear.

* [The system](#the-system)
* [The modules and the code](#the-modules-and-the-code)
* [The runs](#the-runs)
* [Fairness](#fairness)
* [What is proved](#what-is-proved)
* [Disagreements between the code and what is said of it](#disagreements)
* [Not modelled](#not-modelled)
* [Plan](#plan)

## The system

| component | state it keeps | operations |
|---|---|---|
| **subscription handler** `E2AP-c/subscription/subscription_handler.{hpp,cc}` | `requests_table` (id -> status of the call in progress), `subscription_responses` (id -> stored answer), `_data_lock`, `_cv`, `_time_out`, `_num_retries` | `request_subscription`, `request_subscription_delete` (both block), `Response` (on a listener), `clear` |
| **lifecycle** `adm-ctrl-xapp.cc`, `admission_init_routines.cc` | `run_program`, `gNodeB_list`, `failed_gNodeBs` | `main`, `startup_subscribe_requests`, `shutdown_subscribe_deletes`, `EndProgram` |
| **RMR framework** `xapp_utils.{hpp,cc}` | `_listen`, the thread group, `_transmit`, a transmit buffer | `StartThread`, `Stop`, `_workThread`, `Send` |
| **message processor** `message_processor_class.cc` | its decoding buffers, one processor per listener | dispatch on the message type: indications, answers, A1 policies |
| **network protector** `protector-plugin/NetworkProtector.{h,cc}` | `policy_list` (class -> policy with window and counters), `net_requests`, `net_rejects`, `m_access` | `operator()` (decide a request), `add_policy`, `configure`, `delete_policy`, `clear`, `get_requests`, `get_rejects` |
| **sliding window** `protector-plugin/sliding_window.{hpp,cc}` | a ring of one-second slots, `head`, `tail`, `net_events`, the leading edge | `update_window`, `resize_window`, `clear` |
| **admission policy wrapper** `protector-plugin/admission_policy.{hpp,cc}` | `policy_table` (A1 instance -> class), `counters` of the last report, `notify_message_` | `setPolicy`, `getMetrics`, `process_counters` |
| **metrics collector, policy handler** `adm-ctrl-xapp.cc` | none of their own | a thread calling `getMetrics` periodically and posting the result; dispatch of A1 messages |
| **codecs** `E2AP-c/`, `E2SM/`, `X2AP/` | PDU, list items and helper structures, reused from message to message | encode, decode, `set_fields`, `get_fields` |
| **configuration** `get_config.cc`, `adm-ctrl-xapp.hpp` | the members of `configuration` | `get_environment_config`, `get_command_line_config`, `fill_gnodeb_list` |
| VES transport `curl/`, plugin interface | none | see [Not modelled](#not-modelled) |

How they interact. The main thread subscribes to one gNodeB after the other
through the subscription handler, and blocks in each call. The listener threads
(1 by default, `--threads` sets more) receive RMR messages and run the message
processor: answers go to `subscription_handler::Response`, which wakes the main
thread; indications go to the protector, whose decision is sent back as a
control message; A1 messages go through the policy handler to
`admission::setPolicy`, which calls the protector. The metrics thread calls
`admission::getMetrics`, which reads the protector's counters. The subscription
handler and the protector have a mutex each; the policy wrapper has none.

What is hard about it:

* the blocking calls drop their lock between recording a request and sending
  it, wait with `wait_for` and no predicate, share one condition variable, and
  may be answered late, twice, or not at all, by answers to earlier attempts;
* start-up retries a call that may have succeeded after it reported failure,
  and a signal may arrive at any point of it;
* shutdown walks a shared table without its lock while listeners run, and joins
  a metrics thread that may sit in a post without a time-out;
* the protector keeps a raw pointer into a map that other threads change, and
  its totals are read in the middle of decisions, between the two increments of
  a rejection too;
* all listeners share the protector's `sgnb_data`; a request is counted before
  it is known whether its answer can be encoded, fits the buffer and is sent;
  fields of one indication survive into the next; `Send` retries while `Stop`
  waits;
* the policy wrapper's tables, its reply buffer and the counters of its reports
  are touched by several threads without a lock;
* the window's ring wraps while its edge moves by whole seconds at a time;
* an encoder is used again with the arrays, list and counts of the message
  before, one that was refused half-way too;
* a setting has a default, a variable and an option, checked in some places.

What makes each component correct:

* *handler*: an id's entry belongs to one call; a call ends only with a status
  it handles; both tables tell the same; an answer once given stays; every call
  returns; the whole is a set of subscriptions that only changes as a call
  reports;
* *lifecycle*: a gNodeB not recorded as failed is subscribed; what is left after
  shutdown is what was logged; no thread uses a plugin that is gone; start-up
  ends and a signal leads to the end;
* *window*: the ring is a shift register, and its sum covers the last seconds;
* *protector*: totals and per-policy counters agree, up to a rejection that is
  being counted; a decision is made by one
  policy with one set of parameters;
* *processor*: a request is judged once, by itself, counted, and answered at
  most once, with the verdict that was counted; it is left unanswered only for a
  reason one can name; every listener comes back to its loop;
* *wrapper*: every policy but the default one is reachable through exactly one
  instance; replies tell what happened; reports add up;
* *encoders*: no write beyond an array, no pointer to one that was freed, and no
  item of another message in a PDU;
* *configuration*: the command line wins over the environment, that over the
  defaults; what is out of range stops the program; a mode that is not known is
  passive.

## The modules and the code

`EXTENDS` chains and instances:

    SubscriptionService   (abstract)
          ^ refines
    SubscriptionHandler  <---- Lifecycle         (handler + main + listening loop)
          ^                        ^
    SubscriptionHandlerProofs <- MainProofs                  (TLAPS)
                                   |
    Configuration  <---------------+             (settings, before any thread runs)

    Sums                  (sums over finite sets, as a function)
      ^
      +-- ShiftRegister   (abstract)
      |        ^ refines
    WindowOps <---- SlidingWindow                (one window and the clock)
        ^
        +---------- NetworkProtector <---- AdmissionPolicy   (policy wrapper, metrics)
                          ^
                          +--------------- MessageProcessor  (listening loop to RMR send)
                                                  | refines
                                                  v
                                           AdmissionService  (abstract)

    WindowOpsProofs <---- SlidingWindowProofs                            (TLAPS)
        ^
        +---------- NetworkProtectorProofs <---- AdmissionPolicyProofs   (TLAPS)
                          ^
                          +--------------- MessageProcessorProofs        (TLAPS)

    ItemEncoders          (one encoder, message after message)
          ^
    ItemEncodersProofs                                       (TLAPS)

Each `...Proofs` module extends the module it is about; `MainProofs` is about the
two modules of `main()`, `Configuration` and `Lifecycle`. Every `MC*` module extends
one of these with the sets TLC needs (`SlidingWindow` and `ItemEncoders` need none); each `.cfg` is named `<module>_<question>`.

**`SubscriptionHandler`**. `requests_table`, `subscription_responses` and
`data_lock` are the members of those names; `pc` holds each thread's place,
`call` and `elapsed` the caller's locals, `inbox` the PDU a listener holds. A
caller goes `idle -> encode -> add -> transmit -> wait -> wake -> return` (a
delete looks up both tables, unlocked, before `add`). An action covers what a
thread does without letting another one see the middle of it: `AddRequest` is
the first critical section, `Transmit` the second up to `wait_for`, `Finish` the
part after it. `wait_for` releases the mutex, so waking (`TimedWake`, spuriously
too, or `Notify`) and getting the mutex back (`Lock`) are two steps. A listener
goes `listen -> respond -> notify`: it decodes a PDU, handles it in one critical
section, and calls `notify_all` after it. The network is `sent`, the set of all requests ever
transmitted; any answer to any of them may be delivered at any time, any number
of times (`Deliverable`), which covers loss, delay, reordering and repetition.
The call's clock is `elapsed`, advanced by `Tick` for all callers that wait.
A request carries a RIC request id that is always 0 and its RAN function id;
callers build ids from the function id, `Response` from the request id.

**`SubscriptionService`** is what callers may rely on: a set `subscribed` and a
session per caller (`asked`, `admitted`, `decided`, `answered`). Only `Grant`
changes the set, only as asked, and reports SUCCESS (but see `Release`: sending
may fail after the decision). A call that times out or could not be sent has
changed nothing. `Service` in `SubscriptionHandler` maps the
keys of `subscription_responses` to the set and derives the session from the
stage of the call and the status of its entry.

**`Lifecycle`** composes the handler with `main()`: the wait for a route table
(`NotReady`, `NoRoutes`, `Ready`; its count is gone when it returns), the start
of the threads, the loop of attempts over the gNodeBs (`NextNode`, `Attempt`,
`AttemptEnds`, `Quit`), `run_program` cleared by `Signal` at any time after the
handlers are registered (before, `Killed`), shutdown's snapshot of the keys and
its deletes (`BeginShutdown`, `Delete`, `DeleteEnds`), `XaPP::Stop`, the joins
and `Plugins.clear()`. A listener is modelled to the point where it looks at
`_listen` (`LoopAgain`, `LoopEnds`) and where it sits in `epoll_wait`
(`polling`, `Poll`). `gNodeB_list` is a set here, so that a name given twice is one
gNodeB, and the end of start-up by `exit(0)` when the request cannot be set up
(`admission_init_routines.cc:112-116`) is left out. The metrics thread is `Collect`, `Posted`, `MetricsEnds`:
from the look at `run_program` to the end of the last post, and back.

**`Sums`** has one operator, the sum of a function over a finite set, written as a
recursive function so that it can be reasoned about; `WindowOps`, `ShiftRegister`,
`SlidingWindow` and `NetworkProtector` sum slots, events and counters with it.

**`WindowOps`** has the window as a record and its operations as operators:
`Shift` counts the seconds gone by, `Dropped` the events in the slots they free,
`Advanced` moves head and tail, `Updated` and `Resized` are the functions of
those names. **`SlidingWindow`** is one window with a clock of `Second` ticks to
the second and a history of the ages of its events. **`ShiftRegister`** is the
window without a ring: a sequence of slots, the newest first.

**`NetworkProtector`**. `m_access` is held for the whole of a decision, but the
readers of the totals do not take it, nor does `is_active`, so a decision is not one step:
`Decide` finds the policy, counts the request, in the total before the policy, and
decides; `CountRejection` counts a rejection for the policy, and `Conclude` in the total,
and releases the mutex. A total is read between any two of these. (A reader that finds
the total of requests raised and the policy's not yet sees nothing else than before
`Decide`: the policy's own counters are read under the mutex.) The control methods wait
for it (`Free`). The decision itself is a
choice where the code compares with a random number (`MayPass`, `MayBlock`).
`AddPolicy`, `Configure`, `DeletePolicy` and `ClearPolicies` are the methods;
the last, which only tests call, is in no run, but in the specification that the theorems
are about.

**`AdmissionPolicy`** extends it with the wrapper: a listener that holds an A1
message goes `find -> apply -> record -> answer -> reply`, one access to a
shared map or to `notify_message_` a step; the metrics thread goes
`scan -> requests -> rejects -> ... -> expire`. The scan is by position in
`policy_table`: a policy created behind it is missed, one created ahead of it is
seen. The second loop looks at one counter a step (`Expire`), each with an
`is_active` that takes no lock, so decisions and policy messages come in between. It
erases from `counters` inside a range-for over it, which leaves the iterator dangling:
the model lets the loop go from there to any key or end (`NextKeys`, `MayEnd`). What a
read of freed memory does to the program beyond that is not modelled.
One map operation is atomic; what a torn `std::map` would do is not modelled.
`reported` is history: what the reports of the totals add up to, and which
classes were deleted since a report last found them.

**`MessageProcessor`** extends it with the way of a message: a listener goes
`check -> poll -> plugin -> deciding -> send` and back. `Take` is the receipt of
one message of `inbox`; `ReceiveIndication` is `operator()` up to the call of
the protector, `PluginRefuses` or `PluginDecides`, `PluginCounts` and `PluginAnswers` the
call and what is made of its response, in the three steps of `NetworkProtector`;
`ReceivePolicy` and `ReceiveOther` are the other cases. What a policy message does to the
protector is one of its methods, as the operation says, or nothing (`PolicyEffect`), and
whether there is a response is that of `policy_handler` (`Responds`): the wrapper's own
tables are `AdmissionPolicy`'s. `SendOk`, `SendAgain`,
`SendGivesUp` and `SendFails` are one transmission of `XaPP::Send`. What only one
listener touches (its processor, with `indication_data` and the buffer) is not
split further; `sgnb_data` is shared, and what decides about it is the mutex. A
PDU is a record of the fields the code looks at, and `fault` is the decoder that
refuses it. Sizes are numbers: `ControlState` compares response and header with the
scratch buffer as the code does, and the request with `RequestLimit`, the limit its
encoder is given. The request itself goes into the payload of the RMR message, which
the code takes for as large as the scratch buffer; how large RMR made it is not
modelled. `ric_indication::get_fields` returns before it writes a field if it fails
(`e2ap_indication.cc:225-228`), so that a refused message leaves `indication_data` as it
was. `decided`, `outcome` and `sent` are
history. The windows do not slide in this module: a verdict is a choice among
`Verdicts` here, and the other modules tell when which is possible. A message
too long for the processor is among the indications only.

**`AdmissionService`** is what the RAN and the reader of the counters may rely
on: a case per request that goes `open -> judged -> counted`, one of them judged
at a time, each judged once; `Reply` answers a counted case at most once, with
its own verdict, request number and UE. `Service` in `MessageProcessor` maps
`decided`, `sent` and the place of the listener that has the message to the
cases, and the protector's totals to the counters. Receiving, decoding, retries
and policy messages are stutters there.

**`ItemEncoders`** is one of the four encoders with a list: the subscription
request, the event trigger, and the two SgNB addition messages, which have arrays
of details besides the array of items. An array is a number of elements; that the response
allocates its array of admitted items with the size of another element type
(`sgnb_addition_response.cc:52`, `:252`) is below this. They do the same with small differences,
kept as operators: when an array is too small (`Grows`), what size is recorded
for the new one (`Recorded`; the SgNB addition request forgets it), whether a
message without items has a list (`HasList`), what may be refused. `Begin` is
`set_fields` up to its loop, `AddItem`, `SkipItem` and `RefuseItem` one turn of
the loop, `Finish` the rest of it and the encoding. Contents are positions in
the message being encoded, 0 for anything older. Of the four only the response
is reused by the program as it runs (a member of the protector); the others are
objects made to be used again, as the tests do.

**`Configuration`** reads the variables in the order of the code (`ReadVariable`,
`NotSet`), then options from left to right (`ReadOption`, `Flag`, `Unknown`),
then derives the mode and starts the threads (`SetMode`, `StartThreads`). Some defaults are
in the structure from the start (`Initial`), others are assigned by `NotSet` when the
variable turns out not to be set (`Assigned`, `Default`), so that the order in which
`main()` calls the two functions matters (`Order`). A mode for debugging leaves
`report_mode_only` as it is, like the code. A name
or a path is the place it came from; a number is what `atoi` makes of it, and the
interval is reduced by `Modulus`, the number of values of an `unsigned int`, as the
assignment to one does. A list of gNodeBs is the sequence of what stands between
its commas; `Tokens` drops the empty ones as `strtok` does (a recursive function, so
that it can be reasoned about). `CommandLineWins` says of the list what has to come
of it without that function: the n-th name given is the n-th gNodeB, and there
are no others. `env` and `args` are history. The specification is `ConfigSpec`, with
names of its own for `Init`, `Next` and the types, so that the module can stand beside
`Lifecycle`.

## The runs

| run | module, cfg | what it shows | states, time |
|---|---|---|---|
| `handler_safety` | `MCSubscriptionHandler`, `SubscriptionHandler_safety` | `TypeOK`, `EntryOwned`, `NoSpuriousStatus`, `StatusMatchesTable`, `AnswerOnce`, `OnlyEarlyAnswersStrand`, and the refinement `ImplementsService` | 1.37 million, 2.5 min |
| `lifecycle_shutdown` | `MCLifecycle`, `Lifecycle_shutdown` | `SubscribedUnlessFailed`, `ShutdownAccounts`, `PluginsOutliveUse`, `QuietAfterDeletes`; `CallReturns`: every call returns, though no answer may ever come; `StartupTerminates`, `SignalStops` | 178 thousand, 2 min |
| `lifecycle_failed_node` | ..., `Lifecycle_failed_node` | violated: `FailedMeansUnsubscribed` | seconds |
| `window_safety` | `SlidingWindow`, `SlidingWindow_safety` | `RecentCounted`, `OldDropped`, and the refinement `ImplementsRegister` | 115 thousand, 25 s |
| `admission_policies` | `MCAdmissionPolicy`, `AdmissionPolicy_policies` | `TableMatchesPolicies`, `ReplyTellsTruth`, and of the protector `CountersAgree`, `DecisionStands` | 1.4 million, 50 s |
| `admission_metrics` | ..., `AdmissionPolicy_metrics` | `ReportsAddUp`, `NegativeOnlyIfDeleted` | 4.7 million, 3 min |
| `admission_repeated_create` | ..., `AdmissionPolicy_repeated_create` | violated: `RepeatedCreateOk` | seconds |
| `message_pipeline` | `MCMessageProcessor`, `MessageProcessor_pipeline` | `AnswersMatch`, `UnansweredOnlyIf`, `ModesKept`; the refinement `ImplementsService`; `ListenersStop` | 161 thousand, 2 min |
| `message_unanswered` | ..., `MessageProcessor_unanswered` | violated: `ControlAnswers` | seconds |
| `encoders_reuse` | `ItemEncoders`, `ItemEncoders_reuse` | `RoomForAll`, `ListAlive`, `EncodesRequest` | 321 thousand, 1 min |
| `configuration_priority` | `MCConfiguration`, `Configuration_priority` | `CommandLineWins`, `IntervalInRange`, `RunsAsTold` | 1.0 million, 15 s |
| `configuration_threads` | ..., `Configuration_threads` | violated: `ThreadsInRange` | seconds |

Times are with two workers. No run switches deadlock checking off: where the
program ends, `Terminated` stutters.

Bounds, and why they are enough:

* *Handler*: two callers, because every hazard of the tables is between two
  calls for one id or a call and a late answer; two gNodeBs, so that two calls
  can wait at once on the one condition variable and be woken for each other's
  answer. `TimeOut = NumRetries = 1`: a call can be woken before the deadline,
  at it, and after it. One listener in the safety run, because a listener holds
  one answer while any other answer ever due stays deliverable; only its late
  `notify_all` would overlap with another listener's work, which is the same as
  a spurious wake-up and is allowed anyway. The theorems need none of
  these. `CallReturns` is checked in `lifecycle_shutdown`, where the program calls.
  Function id 0, the only one the program uses.
* *Lifecycle*: two gNodeBs (the shutdown walks more than one key while answers
  arrive), one attempt allowed, which the loop turns into two: a second attempt
  meets late answers to the first. `MaxWait` is 2 instead of 10: routes are there
  at once, after a wait, or never.
* *Window*: lengths 1 to 3 (0 and 4 are offered too and refused), three ticks
  to the second so that fractions are lost, four events so that the ring wraps
  with events in it. The code's limits of 1 and 600 are `MIN_WINDOW_SIZE`,
  `MAX_WINDOW_SIZE`.
* *Protector* (within the runs of the wrapper and of the processor): classes -1, 0,
  1, 2, policies that never block, always do above their threshold, or sometimes do; four requests cross a threshold of 1 and still leave
  something to decide afterwards.
* *Wrapper*: two instances that compete for one class, created, updated and
  deleted, one of them by an UPDATE that names the other's class; for the
  metrics two requests and two reports, so that one report has a predecessor.
  `admission_policies` has one thread for policy messages, as with the default
  of one listener thread; the run with two is the violated one.
* *Messages*: one message for every way through the code (each decoder's
  refusal, with and without the optional ids, report and insert, acknowledgements
  below, at and above each boundary of the buffer, a policy message for each operation
  and one that is no JSON, an unknown type). `Arrivals` says which come together:
  any of them with an ordinary one (two insertions, a policy message), because
  what they share is shared by pairs, or by one message and the next, and once three
  (a policy created, a request of its class, and its deletion); four modes.
  One policy that blocks sometimes, so that both verdicts occur. The retries are 1 and 2 instead of 4 and 15.
* *Encoders*: arrays of two and messages of up to three items, so that each
  `Grows` is met from below, at and above its limit, before and after a growth;
  any number of messages, since the state space is finite without a bound on it.
* *Configuration*: up to two variables and two options, because an error of
  priority is between two places for one setting, or two settings; intervals to
  3 in 4 bits, with -8 (which wraps to 8), -1, 0 and both sides of each limit.
* `MaxEvents`, `MaxRequests` and `MaxReports` bound counters the code does not.

Symmetry is used where the checked formulas are safety formulas (the callers,
gNodeBs and listeners are interchangeable); never with liveness.

## Fairness

Weak fairness for the steps of running threads: the operating system schedules
them. Strong fairness for `Lock`: a mutex is not granted to others for ever.
Weak fairness for `Tick`: `system_clock` advances. `epoll_wait` in the listening
loop has a time-out, so `LoopAgain`/`LoopEnds` are weakly fair. Nothing is assumed
of the network: answers may never arrive, and the liveness properties hold
all the same. The metrics thread wakes from its sleep (`MetricsEnds`), but
nothing says that a post ever ends (`Posted`), which has no time-out: `SignalStops`
names the exception. Nothing is assumed of the signal. In `MessageProcessor` each
listener is weakly fair as a whole: it can always do something but wait for
`m_access`, which is held for one step of another listener, and which finitely
many messages cannot keep busy for ever. That RMR ever takes a message is not assumed.

## What is proved

With TLAPS, for every value of the constants that satisfies their assumptions: any
number of threads, gNodeBs, messages, policies, slots, items and settings. Each
safety property that a run checks as holding is stated by a theorem.

| module | theorem | states |
|---|---|---|
| `SubscriptionHandlerProofs` | `TypeCorrect` | `Spec => []TypeOK` |
| | `EntryOwnedAlways`, `NoSpuriousStatusAlways`, `StatusMatchesTableAlways` | the invariants of those names |
| | `AnswerOnceAlways`, `OnlyEarlyAnswersStrandAlways` | the action properties of those names |
| | `HandlerImplementsService` | the refinement of `SubscriptionService` |
| `MainProofs` | `ConfigurationInvariant`, `ConfigurationTyping` | `[]ConfigInv`, `[]ConfigTypeOK` |
| | `CommandLineWinsAlways`, `IntervalInRangeAlways`, `RunsAsToldAlways` | the invariants |
| | `LifecycleInvariant`, `LifecycleTyping` | `[]LifeInv`, `[]LifeTypeOK` |
| | `SubscribedUnlessFailedAlways`, `ShutdownAccountsAlways`, `PluginsOutliveUseAlways` | the invariants |
| | `QuietAfterDeletesAlways` | the action property |
| | `LifecycleUsesHandler`, `LifecycleImplementsService` | `LifeSpec` implies the handler's `Spec`, and so the service |
| `SlidingWindowProofs` | `SlidingInvariant`, `WindowTyping` | `[]SlidingInv`, `[]TypeOK` |
| | `RecentCountedAlways`, `OldDroppedAlways` | the two halves of what the sum covers |
| | `WindowIsRegister` | the refinement of `ShiftRegister` |
| `NetworkProtectorProofs` | `ProtectorInvariant`, `CountersAgreeAlways`, `DecisionStandsAlways` | of the protector's own specification |
| `AdmissionPolicyProofs` | `AdmissionInvariant`, `AdmissionTyping`, `AdmissionCounters`, `AdmissionDecision` | the same with the wrapper around it, which the run checks |
| | `ReportsAddUpAlways`, `NegativeOnlyIfDeletedAlways` | reports, with any number of policy threads |
| | `TableMatchesAlways`, `ReplyTruthAlways` | with one policy thread (`OnePolicyThread`) |
| | `DefaultPolicyStays` | what is left of the first with any number: `[](DefaultPolicyKept /\ 0 \notin Owned)` |
| | `AdmissionUsesProtector` | `Spec` implies the protector's `ProtectorSpec` |
| `MessageProcessorProofs` | `PipelineInvariant`, `PipelineTyping` | `[]PipelineInv`, `[]TypeOK` |
| | `PipelineUsesProtector` | `Spec` implies `ProtectorSpec` here as well |
| | `AnswersMatchAlways`, `UnansweredOnlyIfAlways`, `ModesKeptAlways` | the invariants |
| | `PipelineImplementsService` | the refinement of `AdmissionService` |
| `ItemEncodersProofs` | `EncodersInvariant`, `EncodersTyping`, `RoomForAllAlways`, `ListAliveAlways` | memory, for arrays and messages of any size |
| | `EncodesRequestAlways` | contents, message after message |

`WindowOpsProofs` has lemmas only: sums, and the operations of the window.

### From which assumptions

The modules name them, and TLC evaluates each in its runs.

* `ThreadsAssumption`: callers and listeners are different threads.
  `IdsAssumption`: function ids are numbers. `TimeAssumption`: so are time-outs.
* `LifecycleAssumption`: there is one caller, `main()`, which uses one function id
  among those of the handler; `MaxAttempts` and `MaxWait` are numbers.
* `WindowAssumption`, `SlidingAssumption`: lengths, events and ticks are numbers,
  as the methods take `unsigned int` (`sliding_window.hpp:35`), and the shortest
  window has a slot.
* `ProtectorAssumption`, `AdmissionAssumption`: classes are numbers, 0 among them;
  a policy starts with a window of a legal length; what a policy message names is
  a class and parameters the protector knows.
* `ProcessorAssumption`: the lower of the two retry limits of `Send` is not above
  the other (4 and 15, `xapp_utils.hpp:64`); sizes are numbers; a request has one of
  the protector's profiles; policy messages as above.
* `EncodersAssumption`: arrays begin with at least one place.
* `ConfigurationAssumption`: the default interval is a legal one and the limits are
  not zero (`adm-ctrl-xapp.hpp:41`, `xapp_utils.hpp:48`); an `int` can hold the longest interval; `atoi`
  returns an `int`. `GivenAssumption`: nothing that may be given stands for nothing.

One theorem pair has a further hypothesis, `OnePolicyThread`: policy messages are
handled by one thread, as with the default of one listener. The run
`admission_repeated_create` shows what becomes of replies with two.

### Along which argument

*Settings.* `ConfigInv` says that, unless the program was refused, each setting is
what its last source says (`SettingOK`), once that source has been passed (`Passed`: before,
it is the value of the structure), the interval is in range, the number of
threads is legal unless an option gave it (`ThreadsOK`), and the mode and the level
are derived from the settings and from nothing else (`ModeOK`). Two lemmas carry it.
`StoredInterval`: taking a negative number for an unsigned one makes it greater than
any legal interval, because an `int` holds the longest; so an interval that
is accepted is the one that was written. `TokensListed`: the tokens of a list are its
names in their order. An order of priority is then a matter of the order in which
`main()` reads: as long as it reads variables no option was given.

*Handler.* `TypeOK` is inductive. `EntryOwned` is inductive together with it:
it says that a caller between `add_request_entry` and `delete_request_entry` has
an entry of the kind of its call (`OwnerHasEntry`), that no two of them have the
same id (`OneOwner`), and that every entry has such a caller (`EntryHasOwner`).
The three need each other: an entry is erased blindly, without a look at whose
it is, so that the second keeps the first true; an entry is added only where
there is none, and the first then says that no one else owns that id.
`NoSpuriousStatus` follows without a further induction: the status a caller
finds when it ends is one of its own kind (`HandledStatus`). `StatusMatchesTable`
is inductive: the lemma `TableSteps` says how one step may change the two
tables together (an entry appears or disappears, a pending one is decided, all
is cleared), and each way keeps the invariant. `AnswerOnceAlways` reads the same
lemma as a statement about steps; `EntryOwned` is what excludes `clear()` while a
call is in progress. `OnlyEarlyAnswersStrandAlways` goes through the steps that can leave a
call in `wait_for` with its answer recorded and nobody about to call `notify_all`: the
listener that records an answer is about to, its `notify_all` takes every call out of
the wait, and a call that goes back to wait does so because it is pending. What is left
is `Transmit`, whose call was decided in the gap before it. For the refinement each step is mapped to a step of the
service or to a stutter: an answer changes the session of the one caller that
owns its id, and no other.

*Lifecycle.* Every step is a step of the handler other than `clear()`, or leaves
the handler alone (`HandlerSteps`), so that the handler's invariants carry over.
`LifeInv` adds what `main()` relies on. There is one RAN function (`OneFunction`), so
that the key of an answer, and the id by which shutdown deletes it, are the same.
`main()` is in a call only while it subscribes or deletes (`Calling`), so that no
answer finds an entry at any other time; that is why nothing moves after the
deletes. While it deletes, the table is the keys left, those logged, and the one
in progress until its deletion is decided (`Deleting`). That this is inductive
rests on `Unsent`: no delete for a gNodeB is on its way, nor an answer to one,
before `main()` sends it. The gap between recording and sending, through which a
late answer can decide a call too early (see `lifecycle_failed_node`), is open for
deletes as well, and only the fact that shutdown deletes each key once closes
it: a retry of a failed delete would need another argument.

*Window.* `SlidingInv` says, with e the ticks gone by since the leading edge,
that for each j the j newest slots hold every event of the last
(j - 1) * `Second` + e ticks and none older than 2 * (j - 1) * `Second` + e. For
the whole window the first part is `RecentCounted` and the second `OldDropped`;
each length needs the shorter ones, since a shift of the ring turns one into
another. The second factor is the price of the fractions a shift loses: less than
a second each time, and at most one shift per slot. The sum `net_events` is kept
by differences in the code; that it is the sum of the slots is part of the
invariant, and gives the refinement.

*Protector, wrapper.* `ProtectorInv` says that the counters of the policies in the
map add up to the totals at most (a deleted policy takes its counters along), the
rejections but for the one that its policy has counted and the total has not
(`Uncounted`), and
that whoever decides holds `m_access` and has its policy in the map: the control
methods wait for it. A rejection decided and not yet counted still has a request
to be counted against, in its policy and in the total (`DecidingOK`); without that
clause counting it could take the rejections past the requests. No control method comes
between the two increments, since they wait for `m_access`, so that at most one rejection
is ever missing in the total. `AdmissionInv`
adds that reports add up, with a total just read not ahead of the protector's
(`ReportsOK`); that a class the table or a report knows is there or was deleted
since, and that a base kept in `counters` is not ahead of its policy's counter
unless the policy was deleted (`KnownOK`); and the same for the counts a report
is between reading (`CountOK`). With one policy thread `TableOK` says for each of
its places how far the two maps may differ: between an answer of the protector
and its record in the table, by that one class.

With more threads little of that is left. Two CREATEs of one instance at once can
leave a policy that no instance names, and a DELETE that found its class long ago can
delete the policy another instance has created since. What is left is the default
policy (`DefaultOK`): it is there, so that a CREATE of its class is refused, so that
no instance names it, so that no DELETE finds it. TLC checked `DefaultOK` with two
policy threads that create, update and delete, one of them naming class 0.

*Messages.* `PipelineInv` is types and `FlowInv`: for each place of a listener, what
its message has become so far, whether it is judged, with which verdict, and
counted, and for each message that nobody holds, why it has no answer if it has
none. Two clauses relate listeners: no two hold the same message (`Distinct`), and
while one holds `m_access` the shared `sgnb_data` is that of its own message
(`Holding`), which is why sharing it does no harm.

*Encoders.* `EncodersInv` is `TypeOK`, the recorded size is never more than what
there is (`Sized`), and within the loop there is room for all that is left
(`Loop`). For the contents, `Content` says of a message half encoded what
`EncodesRequest` says of a whole one, and that each detail in use was given away
by this message: the next one written is then another.

Sums and tokens are recursive functions, and the library's induction theorems cannot
be used here, as they take an operator. What is needed of them is proved by a minimal
counterexample instead: among the subsets of a finite set for which the claim
fails one has no smaller one, and so for the beginnings of a list.

TLC checked each invariant on the instances of the runs before it was proved.

### Model-checked only

* All liveness (`CallReturns`, `StartupTerminates`, `SignalStops`, `ListenersStop`),
  and `ENABLED`: out of the prover's reach.

<a name="disagreements"></a>
## Disagreements between the code and what is said of it

Each of these has a run in which TLC finds the trace.

* `lifecycle_failed_node`: `request_subscription` releases the lock between
  `add_request_entry` and `tx`. A late answer to a timed-out attempt can decide
  the new entry in that gap and store the subscription; if `tx` then fails, the
  call "clears state" by erasing its entry only, and reports `ERR_TX`. The
  remaining attempts get `ERR_DUPLICATE`, and the gNodeB goes into the list of
  those "for which we could not subscribe" while its indications arrive.
* `admission_repeated_create`: with two listener threads, the same CREATE
  handled twice at the same time gets an ERROR, where the comment promises OK.
* `message_unanswered`: in CONTROL mode the user guide (`docs/user-guide.rst:92`)
  has the xAPP send back a response or a reject. Both carry the SgNB UE X2AP id,
  which is optional in the request: without it `get_fields` leaves -1, the
  response cannot be encoded, and the request is counted, as accepted or
  rejected, but not answered.

* `configuration_threads`: "Must specify numnber of threads between [1 and %d]"
  (`get_config.cc:99`) is enforced for the variable; the option (`:187`) is stored
  unchecked. With 0 the xAPP comes up and no thread listens.

These were met while reading and have no run of their own:

* the default policy "never gets deleted" (`NetworkProtector.cc:33`), but
  `delete_policy(0)` of the protector deletes it (`:292`), and the next request
  inserts a default-constructed one that enforces. Nothing in the xAPP asks for
  that: under the wrapper the claim holds, which `admission_policies` checks
  (`TableMatchesPolicies`), and the theorem `DefaultPolicyStays` states for any
  number of listeners;
* the start-up loop makes `MAX_SUBSCRIPTION_ATTEMPTS + 1` attempts
  (`admission_init_routines.cc:164` against `:140`), which `Exhausted` models;
* a policy deleted and created again between two reports keeps the base of its
  predecessor, and one deleted between the scan and the read counts as -1: a
  negative number of requests is reported, although a report should "clear out
  counters for expired policies" (`admission_policy.cc:473`).
  `NegativeOnlyIfDeleted` says that nothing else leads to it;
* `process_counters` reads requests and rejects at two moments
  (`admission_policy.cc:490-491`), so that one report may count a negative number
  of accepted requests, although the reports add up (`ReportsAddUp`);
* the user guide gives the window's length in minutes, the code shifts one slot
  a second (`sliding_window.cc:53`);
* NOTE 1 of `subscription_handler.hpp:79` makes a request unique by gNodeB and
  RAN function, but `Response` looks it up by a request id that is always 0, so
  that two functions of one gNodeB would be confused;
* an accepted request without E-RABs is counted and cannot be acknowledged: its
  list has no type (`sgnb_addition_response.cc:374`), as `UnansweredOnlyIf` says;
* `sgnb_addition_helper::clear` forgets the container and keeps its size;
* `e2sm.cc:218` declares a second `error_string`, and the text is lost;
* `long_options` has no empty last entry;
* the user guide says `SAMPLE_FILE` (`docs/user-guide.rst:65`), the code reads
  `SAMPLES_FILE`; `--test` sets a member nobody reads, and so is `max_sub_loops`;
  the xAPP's id has no default although `DEFAULT_XAPP_ID` exists.

## Not modelled

* *`asn1c_defs`*, all but some 10 thousand of the repository's 247 thousand
  lines of code, is generated by asn1c: what it does is that of the grammar, and
  the models use it as "encodes, or refuses". About half of the code written by
  hand that runs in the xAPP is covered; most of the rest is below.
* *Codecs* (`E2AP-c/*`, `E2SM`, `X2AP`): which ids and fields get from a PDU to
  its answer, what is mandatory, what can fail, sizes, and the lists and their
  memory are modelled; the field-by-field encoding of the rest is straight-line
  code, where a model would be the code again.
* *VES transport* (`curl_interface.cc`) keeps nothing; a post is an action that
  may never come. The *plugin interface* is an abstract class.
* The overloads of `Send` that copy into the one transmit buffer: only the main
  thread uses them. `Send`'s answer to the one policy query is not looked at.
* *RMR itself*: it takes a message, asks for a retry, or fails.
* *The gNodeB's own state*: a subscription the gNodeB keeps after its answer
  came too late is beyond what the code can know or repair.

## Plan

The order followed what is most central to the program and hardest to test. All
modules of the plan are there, and all their safety properties are proved; what
stays with TLC is liveness. The places to come back to, if the program changes:

* a second RAN function, for which `OneFunction` fails;
* a retry of deletes, for which `Unsent` does;
* a lock in the wrapper, with which `TableMatchesPolicies` and `ReplyTellsTruth` would
  need no `OnePolicyThread`.
