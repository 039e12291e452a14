----------------------------- MODULE Configuration -----------------------------
(***************************************************************************)
(* How the xAPP comes to its settings (src/get_config.cc, the structure    *)
(* configuration of src/adm-ctrl-xapp.hpp, the first part of main()): it   *)
(* reads the environment, one variable after the other, then the options   *)
(* of its command line from left to right, then derives from the operating *)
(* mode what the message processors do, and starts a listener per thread.  *)
(*                                                                         *)
(* A text is modelled by where it came from, a number by what atoi makes   *)
(* of it, a list of gNodeBs by its tokens, of which some may be empty.     *)
(***************************************************************************)
EXTENDS Integers, Sequences, FiniteSets

CONSTANTS
    MAX_SLEEP, MAX_THREADS,
    DefaultInterval,  \* DEFAULT_VES_MEASUREMENT_INTERVAL
    INT_MAX,          \* the greatest int
    Numbers,          \* what atoi may return
    Lists,            \* the lists of gNodeBs that may be given
    Words,            \* the operating modes that may be given
    MaxSet,           \* bound: environment variables that are set
    Options,          \* the places of options on the command line: a bound too
    Unset             \* not given there

ASSUME ConfigurationAssumption ==
    /\ MAX_SLEEP \in Nat \ {0} /\ MAX_THREADS \in Nat \ {0}
    /\ DefaultInterval \in 1..MAX_SLEEP
    /\ INT_MAX \in Nat /\ MAX_SLEEP <= INT_MAX
    /\ Numbers \subseteq -INT_MAX - 1 .. INT_MAX
    /\ Lists \subseteq Seq(STRING)
    /\ Options \in Seq(STRING)
    /\ Unset \notin Int

VARIABLES
    place,      \* what main() is doing
    next,       \* the environment variable or option it comes to
    config,     \* the settings
    env, args,  \* history: what was given for each, the last option given
    processing_level, report_mode_only,
    listeners   \* the listener threads started

configVars == <<place, next, config, env, args, processing_level, report_mode_only, listeners>>

Files == {"a1_schema_file", "ves_schema_file", "sample_file", "ves_collector_url"}
Texts == Files \cup {"xapp_id", "name", "port"}
Settings == Texts \cup {"measurement_interval", "gNodeB_list", "operating_mode",
                        "num_threads", "test_mode", "log_level"}
Levels == {"MDCLOG_ERR", "MDCLOG_WARN", "MDCLOG_INFO", "MDCLOG_DEBUG"}
ProcessingLevels == {"E2AP_PROC_ONLY", "E2SM_PROC_ONLY", "ALL"}
Places == {"environment", "options", "mode", "threads", "up", "failed", "usage"}

(* The variables in the order they are read, by the setting they are for.  *)
Environment == <<"a1_schema_file", "ves_schema_file", "sample_file", "ves_collector_url",
                 "measurement_interval", "gNodeB_list", "operating_mode", "num_threads",
                 "test_mode", "xapp_id", "log_level">>
Optional == Settings \ {"test_mode", "log_level"}

(* The initial values of the structure.                                    *)
Initial(k) ==
    CASE k \in Files \cup {"xapp_id"} -> "empty"
      [] k \in {"measurement_interval", "test_mode"} -> 0
      [] k = "gNodeB_list" -> <<>>
      [] k = "operating_mode" -> "REPORT"
      [] k = "num_threads" -> 1
      [] k = "log_level" -> "MDCLOG_WARN"
      [] OTHER -> "default"

(* What a setting is that nobody gives: some defaults are assigned when    *)
(* their variable turns out not to be set, the others are there already.   *)
Assigned == Files \cup {"measurement_interval"}
Default(k) ==
    CASE k \in Files -> "default"
      [] k = "measurement_interval" -> DefaultInterval
      [] OTHER -> Initial(k)

(* The order main() reads them in.  (A plausible bug: the defaults of the   *)
(* environment come last, over what the options have set.)                 *)
MutantOrder == <<"options", "environment">>
Order == <<"environment", "options">>
After(source) == IF source = Order[1] THEN Order[2] ELSE "mode"

(* What may be written for a setting at a place.                           *)
Givable(k, where) ==
    CASE k \in {"measurement_interval", "num_threads", "test_mode"} -> Numbers
      [] k = "gNodeB_list" -> Lists
      [] k = "operating_mode" -> Words
      [] k = "log_level" -> Levels \cup {"other"}
      [] OTHER -> {where}

(* Nothing that may be written is taken for nothing.                       *)
ASSUME GivenAssumption ==
    \A k \in Settings : \A where \in {"environment"} \cup {Options[n] : n \in DOMAIN Options} :
        Unset \notin Givable(k, where)

ConfigInit ==
    /\ place = Order[1]
    /\ next = 1
    /\ config = [k \in Settings |-> Initial(k)]
    /\ env = [k \in Settings |-> Unset]
    /\ args = [k \in Settings |-> Unset]
    /\ processing_level = "ALL"
    /\ report_mode_only = TRUE
    /\ listeners = 0

-----------------------------------------------------------------------------

(* strtok passes over empty tokens.  (A plausible bug: it does not.)       *)
MutantTokens(list) == list
Tokens(list) ==
    LET upto[n \in 0..Len(list)] ==
          IF n = 0 THEN <<>>
          ELSE IF list[n] = "" THEN upto[n - 1] ELSE Append(upto[n - 1], list[n])
    IN  upto[Len(list)]

(* fill_gnodeb_list.  (A plausible bug: the list is not cleared first.)    *)
MutantFilled(list) == config["gNodeB_list"] \o Tokens(list)
Filled(list) == Tokens(list)

(* How many values an unsigned int has, and what becomes of an int.        *)
Modulus == 2 * (INT_MAX + 1)
Stored(k, v) ==
    CASE k = "measurement_interval" -> v % Modulus
      [] k = "gNodeB_list" -> Filled(v)
      [] k = "log_level" -> IF v \in Levels THEN v ELSE "MDCLOG_WARN"
      [] OTHER -> v

(* The interval, as the unsigned number it is stored as.  (A plausible     *)
(* bug: only zero and what looks negative are refused.)                    *)
MutantLegalInterval(n) == n > 0
LegalInterval(n) == n >= 1 /\ n <= MAX_SLEEP
LegalThreads(n) == n > 0 /\ n <= MAX_THREADS

(* An illegal interval throws and an illegal number of threads exits; the  *)
(* number of threads is checked in the environment only.                   *)
EnvironmentChecked(k, v) ==
    /\ k = "measurement_interval" => LegalInterval(Stored(k, v))
    /\ k = "num_threads" => LegalThreads(v)
OptionChecked(k, v) == k = "measurement_interval" => LegalInterval(Stored(k, v))

Apply(k, v, checked) ==
    /\ config' = [config EXCEPT ![k] = Stored(k, v)]
    /\ place' = IF checked THEN place ELSE "failed"
    /\ next' = next + 1
    /\ UNCHANGED <<processing_level, report_mode_only, listeners>>

(* get_environment_config.                                                 *)
NotSet ==
    /\ place = "environment"
    /\ next <= Len(Environment)
    /\ LET k == Environment[next] IN
       config' = IF k \in Assigned THEN [config EXCEPT ![k] = Default(k)] ELSE config
    /\ next' = next + 1
    /\ UNCHANGED <<place, env, args, processing_level, report_mode_only, listeners>>
ReadVariable ==
    /\ place = "environment"
    /\ next <= Len(Environment)
    /\ Cardinality({k \in Settings : env[k] # Unset}) < MaxSet
    /\ LET k == Environment[next] IN
       \E v \in Givable(k, "environment") :
          /\ Apply(k, v, EnvironmentChecked(k, v))
          /\ env' = [env EXCEPT ![k] = v]
    /\ UNCHANGED args
EnvironmentRead ==
    /\ place = "environment"
    /\ next > Len(Environment)
    /\ place' = After("environment")
    /\ next' = 1
    /\ UNCHANGED <<config, env, args, processing_level, report_mode_only, listeners>>

(* get_command_line_config: an option with an argument, or --verbose or    *)
(* --test, which set a member by themselves.                               *)
Parsing == place = "options" /\ next <= Len(Options)
Option(k, v) ==
    /\ Apply(k, v, OptionChecked(k, v))
    /\ args' = [args EXCEPT ![k] = v]
    /\ UNCHANGED env
ReadOption ==
    Parsing /\ \E k \in Optional : \E v \in Givable(k, Options[next]) : Option(k, v)
Flag == Parsing /\ (Option("log_level", "MDCLOG_DEBUG") \/ Option("test_mode", 1))

(* -h and any other letter: usage() and exit.  An unknown long name sends  *)
(* getopt_long past the end of long_options, which no empty entry closes.  *)
Unknown ==
    /\ Parsing
    /\ place' \in {"usage", "failed"}
    /\ UNCHANGED <<next, config, env, args, processing_level, report_mode_only, listeners>>
OptionsRead ==
    /\ place = "options"
    /\ place' = After("options")
    /\ next' = 1
    /\ UNCHANGED <<config, env, args, processing_level, report_mode_only, listeners>>

-----------------------------------------------------------------------------
(* main().                                                                 *)

(* Only CONTROL, in so many letters, turns the answers on; the two modes   *)
(* for debugging leave the setting as it is.  (A plausible bug: whatever   *)
(* is not known to be passive turns them on.)                              *)
PartialModes == ProcessingLevels \ {"ALL"}
MutantReportOnly(mode) ==
    CASE mode = "REPORT" -> TRUE
      [] mode \in PartialModes -> report_mode_only
      [] OTHER -> FALSE
ReportOnly(mode) ==
    CASE mode = "CONTROL" -> FALSE
      [] mode \in PartialModes -> report_mode_only
      [] OTHER -> TRUE
SetMode ==
    LET mode == config["operating_mode"] IN
    /\ place = "mode"
    /\ report_mode_only' = ReportOnly(mode)
    /\ processing_level' = IF mode \in PartialModes THEN mode ELSE processing_level
    /\ place' = "threads"
    /\ UNCHANGED <<next, config, env, args, listeners>>

(* A processor and a listener per thread: none for 0, and with a negative  *)
(* number the vector of their ids cannot be made.                          *)
StartThreads ==
    /\ place = "threads"
    /\ IF config["num_threads"] >= 0
       THEN place' = "up" /\ listeners' = config["num_threads"]
       ELSE place' = "failed" /\ UNCHANGED listeners
    /\ UNCHANGED <<next, config, env, args, processing_level, report_mode_only>>

Finished == place \in {"up", "failed", "usage"} /\ UNCHANGED configVars

ConfigNext ==
    \/ NotSet \/ ReadVariable \/ EnvironmentRead
    \/ ReadOption \/ Flag \/ Unknown \/ OptionsRead
    \/ SetMode \/ StartThreads \/ Finished

ConfigSpec == ConfigInit /\ [][ConfigNext]_configVars

-----------------------------------------------------------------------------
(* Properties.                                                             *)

ConfigTypeOK ==
    /\ place \in Places
    /\ next \in 1..Len(Environment) + 1 \cup 1..Len(Options) + 1
    /\ DOMAIN config = Settings
    /\ config["measurement_interval"] \in 0..Modulus - 1
    /\ \A n \in DOMAIN config["gNodeB_list"] : config["gNodeB_list"][n] # ""
    /\ config["num_threads"] \in Int
    /\ config["log_level"] \in Levels
    /\ processing_level \in ProcessingLevels
    /\ report_mode_only \in BOOLEAN
    /\ listeners \in Nat

(* "Order of priority for setting variables": the command line, then the   *)
(* environment, then the default, for each setting by itself; of several   *)
(* options for one setting the last; every accepted number is the one that *)
(* was written, although the interval is stored without its sign; and the  *)
(* gNodeBs are the names that were written, each one in its order, and     *)
(* nothing else.                                                           *)
Names(list) == {n \in DOMAIN list : list[n] # ""}
Rank(list, n) == Cardinality(Names(list) \cap 1..n)
Listed(list, names) ==
    /\ Len(names) = Cardinality(Names(list))
    /\ \A n \in Names(list) : names[Rank(list, n)] = list[n]
SetTo(k, v) ==
    CASE k = "gNodeB_list" -> Listed(v, config[k])
      [] k = "log_level" /\ v \notin Levels -> config[k] = Default(k)
      [] OTHER -> config[k] = v
InOrderOfPriority(k) ==
    IF args[k] # Unset THEN SetTo(k, args[k])
    ELSE IF env[k] # Unset THEN SetTo(k, env[k]) ELSE config[k] = Default(k)
CommandLineWins ==
    place \in {"mode", "threads", "up"} => \A k \in Settings : InOrderOfPriority(k)

(* Once the environment has been read, the metrics thread cannot be told   *)
(* to sleep longer than a day, nor not at all, wherever the interval comes *)
(* from and however negative it was written.                               *)
IntervalInRange ==
    place \notin {"environment", "failed"} => config["measurement_interval"] \in 1..MAX_SLEEP

(* What is up is what was asked for.  There are as many listeners as the   *)
(* last word on them says, and if that is not the command line's, where    *)
(* the number is not checked, a legal number; the RAN is answered if and   *)
(* only if the last word on the mode is CONTROL, and then all of a message *)
(* is processed: a misspelt mode, or one that an option replaced, answers  *)
(* nothing.                                                                *)
LastWord(k) == IF args[k] # Unset THEN args[k]
               ELSE IF env[k] # Unset THEN env[k] ELSE Default(k)
RunsAsTold ==
    place = "up" =>
       /\ listeners = LastWord("num_threads")
       /\ args["num_threads"] = Unset => listeners \in 1..MAX_THREADS
       /\ ~report_mode_only <=> LastWord("operating_mode") = "CONTROL"
       /\ ~report_mode_only => processing_level = "ALL"

(* "Must specify numnber of threads between [1 and %d]": an xAPP that is   *)
(* up has a listener, and no more of them than that.                       *)
ThreadsInRange == place = "up" => listeners \in 1..MAX_THREADS
=============================================================================
