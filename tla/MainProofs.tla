----------------------------- MODULE MainProofs -----------------------------
(***************************************************************************)
(* What is proved of main(): its settings, for whatever is set and given,  *)
(* and its life, for any number of listeners and gNodeBs, any number of    *)
(* attempts and any time-out: main() calls the handler as the handler      *)
(* expects to be called, and what the handler promises is enough for the   *)
(* accounts of start-up and shutdown.                                      *)
(***************************************************************************)
EXTENDS Configuration, Lifecycle, SubscriptionHandlerProofs,
        SequenceTheorems, FiniteSetTheorems, WellFoundedInduction

(***************************************************************************)
(* The settings.                                                           *)
(***************************************************************************)

(* A non-empty set of numbers has a least one.                             *)
LEMMA Least ==
    ASSUME NEW N \in Nat, NEW Bad, Bad \subseteq 0..N, Bad # {}
    PROVE  \E m \in Bad : \A k \in Bad : m <= k
<1> DEFINE below == {0..m : m \in Bad}
<1>1. /\ IsWellFoundedOn(StrictSubsetOrdering(0..N), FiniteSubsetsOf(0..N))
      /\ below \subseteq FiniteSubsetsOf(0..N) /\ below # {}
  <2>1. IsFiniteSet(0..N)
    BY FS_Interval
  <2>2. \A m \in 0..N : 0..m \subseteq 0..N
    OBVIOUS
  <2>3. below \subseteq SUBSET (0..N) /\ below # {}
    BY <2>2
  <2> HIDE DEF below
  <2> QED
    BY <2>1, <2>3, FS_StrictSubsetOrderingWellFounded, FS_FiniteSubsetsOfFinite
<1>2. PICK s \in below : \A u \in below : <<u, s>> \notin StrictSubsetOrdering(0..N)
  <2> HIDE DEF below
  <2> QED
    BY <1>1, WFMin
<1>3. PICK m \in Bad : s = 0..m
  OBVIOUS
<1>4. ASSUME NEW k \in Bad, k < m PROVE FALSE
  <2>1. 0..k \in below /\ 0..k \subseteq 0..m /\ m \notin 0..k /\ m \in 0..m
    BY <1>4
  <2>2. 0..k \subseteq 0..N /\ 0..m \subseteq 0..N
    OBVIOUS
  <2> QED
    BY <1>2, <1>3, <2>1, <2>2 DEF StrictSubsetOrdering
<1> QED
  BY <1>4

(* What the loop of strtok has so far, up to the end of the list.          *)
TokensFrom(g, list, m) ==
    g = [n \in 0..m |->
           IF n = 0 THEN <<>>
           ELSE IF list[n] = "" THEN g[n - 1] ELSE Append(g[n - 1], list[n])]

(* There is such a function for any list.                                  *)
LEMMA TokensExist ==
    ASSUME NEW list, NEW N \in Nat
    PROVE  \E g : TokensFrom(g, list, N)
<1> DEFINE Bad == {m \in 0..N : ~ \E g : TokensFrom(g, list, m)}
<1> SUFFICES ASSUME Bad # {} PROVE FALSE
  OBVIOUS
<1>1. PICK m \in Bad : \A k \in Bad : m <= k
  <2> Bad \subseteq 0..N
    OBVIOUS
  <2> HIDE DEF Bad
  <2> QED
    BY Least
<1> m \in 0..N
  OBVIOUS
<1>2. CASE m = 0
  <2> DEFINE g == [n \in 0..0 |-> <<>>]
  <2>1. g = [n \in 0..0 |->
               IF n = 0 THEN <<>>
               ELSE IF list[n] = "" THEN g[n - 1] ELSE Append(g[n - 1], list[n])]
    OBVIOUS
  <2> HIDE DEF g
  <2>2. TokensFrom(g, list, 0)
    BY <2>1 DEF TokensFrom
  <2> QED
    BY <1>2, <2>2
<1>3. CASE m # 0
  <2>1. m - 1 \in 0..N /\ m - 1 \notin Bad
    BY <1>1, <1>3
  <2> HIDE DEF Bad
  <2>2. PICK h : TokensFrom(h, list, m - 1)
    BY <2>1 DEF Bad
  <2> DEFINE last == IF list[m] = "" THEN h[m - 1] ELSE Append(h[m - 1], list[m])
             g == [n \in 0..m |-> IF n = m THEN last ELSE h[n]]
  <2> HIDE DEF last
  <2>3. /\ \A n \in 0..m - 1 : g[n] = h[n]
        /\ g[m] = last
    OBVIOUS
  <2>4. ASSUME NEW n \in 0..m - 1
        PROVE  g[n] = IF n = 0 THEN <<>>
                      ELSE IF list[n] = "" THEN g[n - 1] ELSE Append(g[n - 1], list[n])
    <3>1. h[n] = IF n = 0 THEN <<>>
                 ELSE IF list[n] = "" THEN h[n - 1] ELSE Append(h[n - 1], list[n])
      BY <2>2 DEF TokensFrom
    <3> HIDE DEF g
    <3>2. n # 0 => g[n - 1] = h[n - 1]
      BY <2>3
    <3> QED
      BY <2>3, <3>1, <3>2
  <2>5. g[m] = IF list[m] = "" THEN g[m - 1] ELSE Append(g[m - 1], list[m])
    <3> m - 1 \in 0..m - 1
      BY <1>3
    <3> HIDE DEF g
    <3>1. g[m - 1] = h[m - 1]
      BY <2>3
    <3> QED
      BY <2>3, <3>1 DEF last
  <2>6. TokensFrom(g, list, m)
    <3>1. g = [n \in 0..m |-> g[n]]
      OBVIOUS
    <3> HIDE DEF g
    <3>2. \A n \in 0..m : n = m \/ n \in 0..m - 1
      OBVIOUS
    <3> QED
      BY <1>3, <2>4, <2>5, <3>1, <3>2 DEF TokensFrom
  <2> QED
    BY <2>6 DEF Bad
<1> QED
  BY <1>2, <1>3

(* Tokens is the last value of that function.                              *)
LEMMA TokensDef ==
    ASSUME NEW list, list \in Seq(STRING)
    PROVE  \E g : TokensFrom(g, list, Len(list)) /\ Tokens(list) = g[Len(list)]
<1>1. \E g : TokensFrom(g, list, Len(list))
  BY TokensExist
<1> QED
  BY <1>1 DEF Tokens, TokensFrom

(* The rank of a name counts the names up to it.                           *)
LEMMA Ranks ==
    ASSUME NEW list, list \in Seq(STRING)
    PROVE  /\ \A n \in 0..Len(list) : Rank(list, n) \in Nat
           /\ Rank(list, 0) = 0
           /\ Rank(list, Len(list)) = Cardinality(Names(list))
           /\ \A n \in 1..Len(list) :
                 Rank(list, n) = Rank(list, n - 1) + IF n \in Names(list) THEN 1 ELSE 0
           /\ \A n \in 0..Len(list) : \A i \in Names(list) \cap 1..n :
                 Rank(list, i) \in 1..Rank(list, n)
<1> Len(list) \in Nat /\ DOMAIN list = 1..Len(list)
  OBVIOUS
<1> DEFINE upTo(n) == Names(list) \cap 1..n
<1>1. ASSUME NEW n \in 0..Len(list)
      PROVE  IsFiniteSet(upTo(n)) /\ Cardinality(upTo(n)) \in Nat
  <2> IsFiniteSet(1..n) /\ upTo(n) \subseteq 1..n
    BY FS_Interval
  <2> HIDE DEF upTo
  <2> QED
    BY FS_Interval, FS_Subset, FS_CardinalityType
<1>2. upTo(0) = {} /\ upTo(Len(list)) = Names(list)
  <2> Names(list) \subseteq 1..Len(list)
    BY DEF Names
  <2> QED
    OBVIOUS
<1>3. ASSUME NEW n \in 1..Len(list)
      PROVE  Cardinality(upTo(n)) =
               Cardinality(upTo(n - 1)) + IF n \in Names(list) THEN 1 ELSE 0
  <2>1. n \notin upTo(n - 1) /\ n - 1 \in 0..Len(list)
    OBVIOUS
  <2>2. IF n \in Names(list) THEN upTo(n) = upTo(n - 1) \cup {n} ELSE upTo(n) = upTo(n - 1)
    OBVIOUS
  <2> HIDE DEF upTo
  <2> QED
    BY <1>1, <2>1, <2>2, FS_AddElement
<1>4. ASSUME NEW n \in 0..Len(list), NEW i \in upTo(n)
      PROVE  Cardinality(upTo(i)) \in 1..Cardinality(upTo(n))
  <2>1. i \in 0..Len(list) /\ i \in upTo(i) /\ upTo(i) \subseteq upTo(n)
    OBVIOUS
  <2> HIDE DEF upTo
  <2>2. Cardinality(upTo(i)) <= Cardinality(upTo(n)) /\ Cardinality(upTo(i)) # 0
    BY <1>1, <2>1, FS_Subset, FS_EmptySet
  <2> QED
    BY <1>1, <2>1, <2>2
<1> QED
  BY <1>1, <1>2, <1>3, <1>4, FS_EmptySet DEF Rank

(* The tokens of a list are its names, in their order, and none is empty.  *)
LEMMA TokensListed ==
    ASSUME NEW list, list \in Seq(STRING)
    PROVE  /\ Tokens(list) \in Seq(STRING \ {""})
           /\ Listed(list, Tokens(list))
<1>1. PICK g : TokensFrom(g, list, Len(list)) /\ Tokens(list) = g[Len(list)]
  BY TokensDef
<1> DEFINE Good(n) == /\ g[n] \in Seq(STRING \ {""})
                      /\ Len(g[n]) = Rank(list, n)
                      /\ \A i \in Names(list) \cap 1..n : g[n][Rank(list, i)] = list[i]
           Bad == {n \in 0..Len(list) : ~Good(n)}
<1> /\ Len(list) \in Nat /\ DOMAIN list = 1..Len(list)
    /\ \A n \in 1..Len(list) : list[n] \in STRING
  BY ElementOfSeq
<1>2. ASSUME Bad # {} PROVE FALSE
  <2>1. PICK n \in Bad : \A k \in Bad : n <= k
    <3> Bad \subseteq 0..Len(list)
      OBVIOUS
    <3> HIDE DEF Bad
    <3> QED
      BY <1>2, Least
  <2> n \in 0..Len(list)
    OBVIOUS
  <2> HIDE DEF Good, Bad
  <2>2. g[n] = IF n = 0 THEN <<>>
               ELSE IF list[n] = "" THEN g[n - 1] ELSE Append(g[n - 1], list[n])
    BY <1>1 DEF TokensFrom
  <2>3. CASE n = 0
    <3>1. g[n] = <<>> /\ Rank(list, n) = 0
      BY <2>2, <2>3, Ranks
    <3>2. Good(n)
      BY <2>3, <3>1 DEF Good
    <3> QED
      BY <3>2 DEF Bad
  <2>4. CASE n # 0
    <3>1. n \in 1..Len(list) /\ n - 1 \in 0..Len(list) /\ n - 1 \notin Bad
      BY <2>1, <2>4
    <3>2. Good(n - 1)
      BY <3>1 DEF Bad
    <3> HIDE DEF Good, Bad
    <3>3. list[n] \in STRING /\ (n \in Names(list) <=> list[n] # "")
      BY <3>1 DEF Names
    <3>4. \A i \in Names(list) \cap 1..n - 1 : Rank(list, i) \in 1..Rank(list, n - 1)
      BY <3>1, Ranks
    <3>5. /\ Rank(list, n) = Rank(list, n - 1) + IF n \in Names(list) THEN 1 ELSE 0
          /\ Rank(list, n - 1) \in Nat
      BY <3>1, Ranks
    <3>6. CASE list[n] = ""
      <4>0. n \notin Names(list)
        BY <3>3, <3>6
      <4>1. g[n] = g[n - 1] /\ Rank(list, n) = Rank(list, n - 1)
        <5>1. g[n] = g[n - 1]
          BY <2>2, <2>4, <3>6
        <5> QED
          BY <3>5, <4>0, <5>1
      <4>2. Names(list) \cap 1..n = Names(list) \cap 1..n - 1
        <5>1. 1..n = (1..n - 1) \cup {n}
          BY <3>1
        <5> QED
          BY <4>0, <5>1
      <4> Good(n)
        BY <3>2, <4>1, <4>2 DEF Good
      <4> QED
        BY DEF Bad
    <3>7. CASE list[n] # ""
      <4>1. g[n] = Append(g[n - 1], list[n]) /\ Rank(list, n) = Rank(list, n - 1) + 1
        BY <2>2, <2>4, <3>3, <3>5, <3>7
      <4>2. /\ g[n] \in Seq(STRING \ {""}) /\ Len(g[n]) = Len(g[n - 1]) + 1
            /\ g[n][Len(g[n - 1]) + 1] = list[n]
            /\ \A j \in 1..Len(g[n - 1]) : g[n][j] = g[n - 1][j]
        <5> DEFINE name == STRING \ {""}
                   h == g[n - 1]
        <5>1. h \in Seq(name) /\ list[n] \in name
          BY <3>2, <3>3, <3>7 DEF Good
        <5> HIDE DEF name, h
        <5>2. /\ Append(h, list[n]) \in Seq(name) /\ Len(Append(h, list[n])) = Len(h) + 1
              /\ Append(h, list[n])[Len(h) + 1] = list[n]
              /\ \A j \in 1..Len(h) : Append(h, list[n])[j] = h[j]
          BY <5>1, AppendProperties
        <5> QED
          BY <4>1, <5>2 DEF name, h
      <4>3. ASSUME NEW i \in Names(list) \cap 1..n PROVE g[n][Rank(list, i)] = list[i]
        <5>1. CASE i = n
          <6>1. Len(g[n - 1]) = Rank(list, n - 1)
            BY <3>2 DEF Good
          <6> QED
            BY <4>1, <4>2, <5>1, <6>1
        <5>2. CASE i # n
          <6>1. i \in Names(list) \cap 1..n - 1
            BY <5>2
          <6>2. Rank(list, i) \in 1..Len(g[n - 1]) /\ g[n - 1][Rank(list, i)] = list[i]
            BY <3>2, <3>4, <6>1 DEF Good
          <6> QED
            BY <4>2, <6>2
        <5> QED
          BY <5>1, <5>2
      <4> Good(n)
        BY <3>2, <4>1, <4>2, <4>3 DEF Good
      <4> QED
        BY DEF Bad
    <3> QED
      BY <3>6, <3>7
  <2> QED
    BY <2>3, <2>4
<1> HIDE DEF Good
<1>3. Good(Len(list))
  BY <1>2
<1> USE DEF Good
<1>4. Names(list) = Names(list) \cap 1..Len(list)
  BY DEF Names
<1> QED
  BY <1>1, <1>3, <1>4, Ranks DEF Listed

-----------------------------------------------------------------------------
(* What is given for a setting, and what is stored of it.                  *)

Written(k, v) ==
    /\ v # Unset
    /\ k = "measurement_interval" => v \in Numbers
    /\ k = "num_threads" => v \in Int
    /\ k = "gNodeB_list" => v \in Lists
Storable(k, x) ==
    /\ k = "measurement_interval" => x \in 0..Modulus - 1
    /\ k = "gNodeB_list" => x \in Seq(STRING \ {""})
    /\ k = "num_threads" => x \in Int
    /\ k = "log_level" => x \in Levels

Sources == {"environment"} \cup {Options[n] : n \in DOMAIN Options}

(* What may be given for a setting, wherever it is given, is written.      *)
LEMMA GivenIsWritten ==
    ASSUME NEW k \in Settings, NEW where \in Sources, NEW v \in Givable(k, where)
    PROVE  Written(k, v)
<1>1. v # Unset
  BY GivenAssumption DEF Sources
<1>2. k \in {"measurement_interval", "num_threads"} => v \in Numbers /\ v \in Int
  BY ConfigurationAssumption DEF Givable
<1>3. k = "gNodeB_list" => v \in Lists
  BY DEF Givable
<1> QED
  BY <1>1, <1>2, <1>3 DEF Written

(* The sign is lost only where the interval is out of range.               *)
LEMMA StoredInterval ==
    ASSUME NEW v \in Numbers
    PROVE  /\ v % Modulus \in 0..Modulus - 1
           /\ LegalInterval(v % Modulus) => v % Modulus = v
<1>1. /\ INT_MAX \in Nat /\ MAX_SLEEP \in Nat /\ MAX_SLEEP <= INT_MAX
      /\ v \in Int /\ v >= -INT_MAX - 1 /\ v <= INT_MAX
  BY ConfigurationAssumption
<1>2. Modulus = INT_MAX + INT_MAX + 2
  BY <1>1 DEF Modulus
<1>3. CASE v >= 0
  <2>1. v % Modulus = v
    BY <1>1, <1>2, <1>3
  <2> QED
    BY <1>1, <1>2, <1>3, <2>1
<1>4. CASE v < 0
  <2>1. v % Modulus = v + Modulus
    BY <1>1, <1>2, <1>4
  <2> QED
    BY <1>1, <1>2, <1>4, <2>1 DEF LegalInterval
<1> QED
  BY <1>1, <1>3, <1>4

(* Whatever is written for a setting, what is stored of it fits.           *)
LEMMA StoredIsStorable ==
    ASSUME NEW k \in Settings, NEW v, Written(k, v)
    PROVE  Storable(k, Stored(k, v))
<1>1. CASE k = "measurement_interval"
  BY <1>1, StoredInterval DEF Written, Stored, Storable
<1>2. CASE k = "gNodeB_list"
  <2>1. v \in Seq(STRING)
    BY <1>2, ConfigurationAssumption DEF Written
  <2> QED
    BY <1>2, <2>1, TokensListed DEF Stored, Storable, Filled
<1>3. CASE k = "log_level"
  BY <1>3 DEF Stored, Storable, Levels
<1>4. CASE k \notin {"measurement_interval", "gNodeB_list", "log_level"}
  BY <1>4 DEF Written, Stored, Storable
<1> QED
  BY <1>1, <1>2, <1>3, <1>4

-----------------------------------------------------------------------------
(* The invariant.  A setting is what its last source says at any time but  *)
(* after a refusal and, if its default is still to be assigned, before its *)
(* variable has been looked at; until main() comes to the mode nothing     *)
(* follows from the settings, and after that report_mode_only and the      *)
(* level do.                                                               *)

SettingsOK ==
    /\ DOMAIN config = Settings /\ DOMAIN env = Settings /\ DOMAIN args = Settings
    /\ \A k \in Settings : Storable(k, config[k])
Passed(k) == place # "environment" \/ \E i \in 1..next - 1 : Environment[i] = k
SettingOK(k) ==
    IF k \in Assigned /\ ~Passed(k) THEN env[k] = Unset ELSE InOrderOfPriority(k)
PriorityOK ==
    /\ place = "environment" => \A k \in Settings : args[k] = Unset
    /\ place # "failed" => \A k \in Settings : SettingOK(k)
IntervalOK ==
    place # "failed" /\ Passed("measurement_interval") =>
       config["measurement_interval"] \in 1..MAX_SLEEP
ThreadsOK ==
    place # "failed" => \/ config["num_threads"] \in 1..MAX_THREADS
                        \/ args["num_threads"] # Unset
ModeOK ==
    /\ place \in {"environment", "options", "mode"} =>
          processing_level = "ALL" /\ report_mode_only
    /\ place \in {"threads", "up"} =>
          /\ ~report_mode_only <=> config["operating_mode"] = "CONTROL"
          /\ ~report_mode_only => processing_level = "ALL"
    /\ place = "up" => listeners = config["num_threads"]

ConfigInv ==
    /\ ConfigTypeOK /\ SettingsOK
    /\ PriorityOK /\ IntervalOK /\ ThreadsOK /\ ModeOK

-----------------------------------------------------------------------------

(* What the type invariant says of the settings.                           *)
TypesOf(c) ==
    /\ DOMAIN c = Settings
    /\ c["measurement_interval"] \in 0..Modulus - 1
    /\ \A n \in DOMAIN c["gNodeB_list"] : c["gNodeB_list"][n] # ""
    /\ c["num_threads"] \in Int
    /\ c["log_level"] \in Levels

(* They follow from what each setting may hold.                            *)
LEMMA SettingTypes ==
    ASSUME NEW c, DOMAIN c = Settings, \A j \in Settings : Storable(j, c[j])
    PROVE  TypesOf(c)
<1>1. /\ "measurement_interval" \in Settings /\ "num_threads" \in Settings
      /\ "gNodeB_list" \in Settings /\ "log_level" \in Settings
  BY DEF Settings
<1>2. \A n \in DOMAIN c["gNodeB_list"] : c["gNodeB_list"][n] \in STRING \ {""}
  <2> DEFINE name == STRING \ {""}
             list == c["gNodeB_list"]
  <2> HIDE DEF name, list
  <2>1. list \in Seq(name)
    BY <1>1 DEF name, list, Storable
  <2>2. \A n \in DOMAIN list : list[n] \in name
    BY <2>1, ElementOfSeq
  <2> QED
    BY <2>2 DEF name, list
<1> QED
  BY <1>1, <1>2 DEF Storable, TypesOf

(* It holds when main() starts.                                            *)
LEMMA ConfigInitOK == ConfigInit => ConfigInv
<1> SUFFICES ASSUME ConfigInit PROVE ConfigInv
  OBVIOUS
<1>1. \A k \in Settings : config[k] = Initial(k) /\ env[k] = Unset /\ args[k] = Unset
  BY DEF ConfigInit
<1>2. /\ "measurement_interval" \in Settings /\ "num_threads" \in Settings
      /\ "gNodeB_list" \in Settings /\ "log_level" \in Settings
  BY DEF Settings
<1>3. /\ Initial("measurement_interval") = 0 /\ Initial("num_threads") = 1
      /\ Initial("gNodeB_list") = <<>> /\ Initial("log_level") \in Levels
  BY DEF Initial, Levels, Files
<1>4. 0 \in 0..Modulus - 1 /\ 1 \in 1..MAX_THREADS
  BY ConfigurationAssumption DEF Modulus
<1>5. SettingsOK
  <2>1. Initial("gNodeB_list") \in Seq(STRING \ {""})
    <3> <<>> \in Seq(STRING \ {""})
      BY EmptySeq
    <3> QED
      BY <1>3
  <2>2. ASSUME NEW k \in Settings PROVE Storable(k, Initial(k))
    <3>1. k = "measurement_interval" => Initial(k) \in 0..Modulus - 1
      BY <1>3, <1>4
    <3>2. k = "gNodeB_list" => Initial(k) \in Seq(STRING \ {""})
      BY <2>1
    <3>3. k = "num_threads" => Initial(k) \in Int
      BY <1>3
    <3>4. k = "log_level" => Initial(k) \in Levels
      BY <1>3
    <3> QED
      BY <3>1, <3>2, <3>3, <3>4 DEF Storable
  <2>3. \A k \in Settings : Storable(k, config[k])
    BY <1>1, <2>2
  <2> QED
    BY <2>3 DEF ConfigInit, SettingsOK
<1>0. place = "environment" /\ next = 1
  BY DEF ConfigInit, Order
<1>6. ConfigTypeOK
  <2>1. 1 \in 1..Len(Environment) + 1
    BY DEF Environment
  <2> QED
    BY <1>0, <1>5, <2>1, SettingTypes
       DEF ConfigInit, ConfigTypeOK, TypesOf, SettingsOK, Places, ProcessingLevels
<1>7. PriorityOK /\ IntervalOK /\ ThreadsOK
  <2>1. \A k : ~Passed(k)
    BY <1>0 DEF Passed
  <2>2. \A k \in Settings : SettingOK(k)
    BY <1>1, <2>1 DEF SettingOK, InOrderOfPriority, Default, Assigned
  <2> QED
    BY <1>1, <1>2, <1>3, <1>4, <2>1, <2>2 DEF PriorityOK, IntervalOK, ThreadsOK
<1>8. ModeOK
  BY <1>0 DEF ConfigInit, ModeOK
<1> QED
  BY <1>5, <1>6, <1>7, <1>8 DEF ConfigInv

(* One setting is stored, and says what was written unless it is refused.  *)
LEMMA ApplyStep ==
    ASSUME ConfigInv, NEW k \in Settings, NEW v, Written(k, v),
           NEW checked \in BOOLEAN, Apply(k, v, checked),
           checked /\ k = "measurement_interval" => LegalInterval(Stored(k, v))
    PROVE  /\ DOMAIN config' = Settings
           /\ \A j \in Settings : Storable(j, config'[j])
           /\ \A j \in Settings \ {k} : config'[j] = config[j]
           /\ config'[k] = Stored(k, v)
           /\ checked => SetTo(k, v)'
           /\ place' = IF checked THEN place ELSE "failed"
           /\ next' = next + 1
           /\ UNCHANGED <<processing_level, report_mode_only, listeners>>
<1>1. /\ config' = [config EXCEPT ![k] = Stored(k, v)]
      /\ place' = IF checked THEN place ELSE "failed"
      /\ next' = next + 1
      /\ UNCHANGED <<processing_level, report_mode_only, listeners>>
  BY DEF Apply
<1>2. /\ DOMAIN config = Settings
      /\ \A j \in Settings : Storable(j, config[j])
  BY DEF ConfigInv, SettingsOK
<1>3. /\ DOMAIN config' = Settings /\ config'[k] = Stored(k, v)
      /\ \A j \in Settings \ {k} : config'[j] = config[j]
  BY <1>1, <1>2
<1>4. \A j \in Settings : Storable(j, config'[j])
  BY <1>2, <1>3, StoredIsStorable
<1>5. ASSUME checked PROVE SetTo(k, v)'
  <2>1. CASE k = "measurement_interval"
    <3>1. Stored(k, v) = v % Modulus
      BY <2>1 DEF Stored
    <3>2. v \in Numbers
      BY <2>1 DEF Written
    <3>3. config'[k] = v
      BY <1>3, <1>5, <2>1, <3>1, <3>2, StoredInterval
    <3> QED
      BY <2>1, <3>3 DEF SetTo
  <2>2. CASE k = "gNodeB_list"
    <3>1. v \in Seq(STRING)
      BY <2>2, ConfigurationAssumption DEF Written
    <3> QED
      BY <1>3, <2>2, <3>1, TokensListed DEF SetTo, Stored, Filled
  <2>3. CASE k = "log_level"
    BY <1>3, <2>3 DEF SetTo, Stored, Default, Initial, Files
  <2>4. CASE k \notin {"measurement_interval", "gNodeB_list", "log_level"}
    BY <1>3, <2>4 DEF SetTo, Stored
  <2> QED
    BY <2>1, <2>2, <2>3, <2>4
<1> QED
  BY <1>1, <1>3, <1>4, <1>5

(* A look at a variable passes that one.                                   *)
LEMMA PassedNext ==
    ASSUME place = "environment", place' = "environment", next \in Nat \ {0},
           next' = next + 1
    PROVE  \A j : Passed(j)' <=> Passed(j) \/ Environment[next] = j
<1>1. 1..next' - 1 = (1..next - 1) \cup {next}
  OBVIOUS
<1> QED
  BY <1>1 DEF Passed

(* What a setting that was read leaves of the invariant, wherever it came  *)
(* from.                                                                   *)
LEMMA StoreKeeps ==
    ASSUME ConfigInv, NEW k \in Settings, NEW v, Written(k, v),
           NEW checked \in BOOLEAN, Apply(k, v, checked),
           checked /\ k = "measurement_interval" => LegalInterval(Stored(k, v)),
           place \in {"environment", "options"},
           next' \in 1..Len(Environment) + 1 \cup 1..Len(Options) + 1,
           DOMAIN env' = Settings, DOMAIN args' = Settings,
           checked /\ Passed("measurement_interval")' =>
              Passed("measurement_interval") \/ k = "measurement_interval"
    PROVE  SettingsOK' /\ ConfigTypeOK' /\ IntervalOK' /\ ModeOK'
<1>1. /\ DOMAIN config' = Settings
      /\ \A j \in Settings : Storable(j, config'[j])
      /\ \A j \in Settings \ {k} : config'[j] = config[j]
      /\ config'[k] = Stored(k, v)
      /\ place' = IF checked THEN place ELSE "failed"
      /\ UNCHANGED <<processing_level, report_mode_only, listeners>>
  BY ApplyStep
<1>2. TypesOf(config')
  BY <1>1, SettingTypes
<1>3. SettingsOK'
  BY <1>1 DEF SettingsOK
<1>4. ConfigTypeOK'
  <2>1. place' \in Places
    BY <1>1 DEF Places
  <2> QED
    BY <1>1, <1>2, <2>1 DEF ConfigInv, ConfigTypeOK, TypesOf
<1>5. IntervalOK'
  <2>1. /\ "measurement_interval" \in Settings /\ MAX_SLEEP \in Nat /\ INT_MAX \in Nat
        /\ config'["measurement_interval"] \in 0..Modulus - 1
    BY <1>2, ConfigurationAssumption DEF Settings, TypesOf
  <2>2. config'["measurement_interval"] \in Int
    BY <2>1 DEF Modulus
  <2>3. CASE k = "measurement_interval"
    BY <1>1, <2>1, <2>2, <2>3 DEF IntervalOK, LegalInterval
  <2>4. CASE k # "measurement_interval"
    BY <1>1, <2>1, <2>4 DEF ConfigInv, IntervalOK
  <2> QED
    BY <2>3, <2>4
<1>6. ModeOK'
  BY <1>1 DEF ConfigInv, ModeOK
<1> QED
  BY <1>3, <1>4, <1>5, <1>6

(* A variable is stored before any option is, and what is said of the      *)
(* other settings stays.                                                   *)
LEMMA VariableKeeps == ConfigInv /\ ReadVariable => ConfigInv'
<1> SUFFICES ASSUME ConfigInv, ReadVariable PROVE ConfigInv'
  OBVIOUS
<1>1. place = "environment" /\ UNCHANGED args /\ next <= Len(Environment)
  BY DEF ReadVariable
<1>2. next \in 1..11 /\ Len(Environment) = 11
  <2>1. Len(Environment) = 11
    BY DEF Environment
  <2>2. Len(Options) \in Nat
    BY ConfigurationAssumption
  <2>3. next \in 1..Len(Environment) + 1 \/ next \in 1..Len(Options) + 1
    BY DEF ConfigInv, ConfigTypeOK
  <2> QED
    BY <1>1, <2>1, <2>2, <2>3
<1>3. Environment[next] \in Settings
  BY <1>2 DEF Environment, Settings, Texts, Files
<1>4. PICK k \in Settings : k = Environment[next] /\ \E v \in Givable(k, "environment") :
         /\ Apply(k, v, EnvironmentChecked(k, v))
         /\ env' = [env EXCEPT ![k] = v]
  BY <1>3 DEF ReadVariable
<1>5. PICK v \in Givable(k, "environment") :
         /\ Apply(k, v, EnvironmentChecked(k, v))
         /\ env' = [env EXCEPT ![k] = v]
  BY <1>4
<1>6. Written(k, v)
  BY GivenIsWritten DEF Sources
<1> DEFINE ok == EnvironmentChecked(k, v)
<1>7. /\ ok \in BOOLEAN
      /\ ok /\ k = "measurement_interval" => LegalInterval(Stored(k, v))
      /\ ok /\ k = "num_threads" => v \in 1..MAX_THREADS
  BY <1>6, ConfigurationAssumption DEF EnvironmentChecked, LegalThreads, Written
<1>8. Apply(k, v, ok) /\ env' = [env EXCEPT ![k] = v]
  BY <1>5
<1> HIDE DEF ok
<1>9. /\ \A j \in Settings \ {k} : config'[j] = config[j]
      /\ config'[k] = Stored(k, v)
      /\ ok => SetTo(k, v)'
      /\ place' = IF ok THEN place ELSE "failed"
      /\ next' = next + 1
  BY <1>6, <1>7, <1>8, ApplyStep
<1>10. /\ DOMAIN env' = Settings /\ DOMAIN args' = Settings
       /\ env'[k] = v /\ \A j \in Settings \ {k} : env'[j] = env[j]
  BY <1>1, <1>8 DEF ConfigInv, SettingsOK
<1>14. ok => \A j : Passed(j)' <=> Passed(j) \/ j = k
  <2>1. next \in Nat \ {0}
    BY <1>2
  <2> QED
    BY <1>1, <1>4, <1>9, <2>1, PassedNext
<1>11. SettingsOK' /\ ConfigTypeOK' /\ IntervalOK' /\ ModeOK'
  <2>1. next' \in 1..Len(Environment) + 1
    BY <1>2, <1>9
  <2>2. /\ place \in {"environment", "options"}
        /\ next' \in 1..Len(Environment) + 1 \cup 1..Len(Options) + 1
        /\ ok /\ Passed("measurement_interval")' =>
              Passed("measurement_interval") \/ k = "measurement_interval"
    BY <1>1, <1>14, <2>1
  <2> QED
    BY <1>6, <1>7, <1>8, <1>10, <2>2, StoreKeeps
<1>12. PriorityOK'
  <2>1. \A j \in Settings : args'[j] = Unset
    BY <1>1 DEF ConfigInv, PriorityOK
  <2>2. ASSUME ok, NEW j \in Settings PROVE SettingOK(j)'
    <3>1. CASE j = k
      <4>1. InOrderOfPriority(j)'
        BY <1>6, <1>9, <1>10, <2>1, <2>2, <3>1 DEF InOrderOfPriority, Written
      <4>2. Passed(j)'
        BY <1>14, <2>2, <3>1
      <4> QED
        BY <4>1, <4>2 DEF SettingOK
    <3>2. CASE j # k
      <4>1. SettingOK(j)
        BY <1>1 DEF ConfigInv, PriorityOK
      <4>2. InOrderOfPriority(j) => InOrderOfPriority(j)'
        BY <1>1, <1>9, <1>10, <3>2 DEF InOrderOfPriority, SetTo
      <4>3. env'[j] = env[j] /\ (Passed(j)' <=> Passed(j))
        BY <1>10, <1>14, <2>2, <3>2
      <4> QED
        BY <4>1, <4>2, <4>3 DEF SettingOK
    <3> QED
      BY <3>1, <3>2
  <2> QED
    BY <1>1, <1>9, <2>1, <2>2 DEF PriorityOK
<1>13. ThreadsOK'
  <2>1. k = "num_threads" => Stored(k, v) = v
    BY DEF Stored
  <2>2. "num_threads" \in Settings
    BY DEF Settings
  <2> QED
    BY <1>1, <1>7, <1>9, <2>1, <2>2 DEF ConfigInv, ThreadsOK
<1> QED
  BY <1>11, <1>12, <1>13 DEF ConfigInv

(* An option is stored over what there was, and is the last word on it.    *)
LEMMA OptionStep ==
    ASSUME ConfigInv, Parsing, NEW k \in Settings, NEW v, Written(k, v), Option(k, v)
    PROVE  ConfigInv'
<1>1. place = "options" /\ next <= Len(Options) /\ UNCHANGED env
  BY DEF Parsing, Option
<1> DEFINE ok == OptionChecked(k, v)
<1>2. /\ ok \in BOOLEAN
      /\ ok /\ k = "measurement_interval" => LegalInterval(Stored(k, v))
      /\ Apply(k, v, ok) /\ args' = [args EXCEPT ![k] = v]
  BY DEF Option, OptionChecked
<1> HIDE DEF ok
<1>3. /\ \A j \in Settings \ {k} : config'[j] = config[j]
      /\ ok => SetTo(k, v)'
      /\ place' = IF ok THEN place ELSE "failed"
      /\ next' = next + 1
  BY <1>2, ApplyStep
<1>4. /\ DOMAIN env' = Settings /\ DOMAIN args' = Settings
      /\ args'[k] = v /\ \A j \in Settings \ {k} : args'[j] = args[j]
  BY <1>1, <1>2 DEF ConfigInv, SettingsOK
<1>8. /\ \A j : Passed(j)
      /\ place' # "environment" /\ \A j : Passed(j)'
  BY <1>1, <1>3 DEF Passed
<1>5. SettingsOK' /\ ConfigTypeOK' /\ IntervalOK' /\ ModeOK'
  <2>1. next' \in 1..Len(Options) + 1
    <3>1. Len(Options) \in Nat
      BY ConfigurationAssumption
    <3>2. Len(Environment) = 11
      BY DEF Environment
    <3>3. next \in 1..Len(Environment) + 1 \/ next \in 1..Len(Options) + 1
      BY DEF ConfigInv, ConfigTypeOK
    <3> QED
      BY <1>1, <1>3, <3>1, <3>2, <3>3
  <2>2. /\ place \in {"environment", "options"}
        /\ next' \in 1..Len(Environment) + 1 \cup 1..Len(Options) + 1
    BY <1>1, <2>1
  <2> QED
    BY <1>2, <1>4, <1>8, <2>2, StoreKeeps
<1>6. PriorityOK'
  <2>1. ASSUME ok, NEW j \in Settings PROVE InOrderOfPriority(j)'
    <3>1. CASE j = k
      BY <1>3, <1>4, <2>1, <3>1 DEF InOrderOfPriority, Written
    <3>2. CASE j # k
      <4>1. InOrderOfPriority(j)
        BY <1>1, <1>8 DEF ConfigInv, PriorityOK, SettingOK
      <4> QED
        BY <1>1, <1>3, <1>4, <3>2, <4>1 DEF InOrderOfPriority, SetTo
    <3> QED
      BY <3>1, <3>2
  <2> QED
    BY <1>1, <1>3, <1>8, <2>1 DEF PriorityOK, SettingOK
<1>7. ThreadsOK'
  <2>1. "num_threads" \in Settings
    BY DEF Settings
  <2> QED
    BY <1>1, <1>3, <1>4, <2>1 DEF ConfigInv, ThreadsOK, Written
<1> QED
  BY <1>5, <1>6, <1>7 DEF ConfigInv

(* ReadOption and Flag are such steps.                                     *)
LEMMA OptionKeeps == ConfigInv /\ (ReadOption \/ Flag) => ConfigInv'
<1> SUFFICES ASSUME ConfigInv, ReadOption \/ Flag PROVE ConfigInv'
  OBVIOUS
<1>1. Parsing
  BY DEF ReadOption, Flag
<1>2. CASE ReadOption
  <2>1. PICK k \in Optional : \E v \in Givable(k, Options[next]) : Option(k, v)
    BY <1>2 DEF ReadOption
  <2>2. PICK v \in Givable(k, Options[next]) : Option(k, v)
    BY <2>1
  <2>3. k \in Settings
    BY DEF Optional
  <2>4. PICK where \in Sources : v \in Givable(k, where)
    <3>1. next \in DOMAIN Options
      <4>1. Len(Options) \in Nat /\ DOMAIN Options = 1..Len(Options)
        BY ConfigurationAssumption
      <4>2. Len(Environment) = 11
        BY DEF Environment
      <4>3. next \in 1..Len(Environment) + 1 \/ next \in 1..Len(Options) + 1
        BY DEF ConfigInv, ConfigTypeOK
      <4> QED
        BY <1>1, <4>1, <4>2, <4>3 DEF Parsing
    <3> QED
      BY <3>1 DEF Sources
  <2>5. Written(k, v)
    BY <2>3, <2>4, GivenIsWritten
  <2> QED
    BY <1>1, <2>2, <2>3, <2>5, OptionStep
<1>3. CASE Flag
  <2>1. Option("log_level", "MDCLOG_DEBUG") \/ Option("test_mode", 1)
    BY <1>3 DEF Flag
  <2>2. "log_level" \in Settings /\ "test_mode" \in Settings
    BY DEF Settings
  <2>3. Written("log_level", "MDCLOG_DEBUG")
    <3>1. "MDCLOG_DEBUG" \in Givable("log_level", "environment")
      BY DEF Givable, Levels
    <3> QED
      BY <2>2, <3>1, GivenIsWritten DEF Sources
  <2>4. Written("test_mode", 1)
    BY ConfigurationAssumption DEF Written
  <2> QED
    BY <1>1, <2>1, <2>2, <2>3, <2>4, OptionStep
<1> QED
  BY <1>2, <1>3

(* A variable that is not set may bring its setting's default.             *)
LEMMA NotSetKeeps == ConfigInv /\ NotSet => ConfigInv'
<1> SUFFICES ASSUME ConfigInv, NotSet PROVE ConfigInv'
  OBVIOUS
<1>1. /\ place = "environment" /\ next <= Len(Environment) /\ next' = next + 1
      /\ UNCHANGED <<place, env, args, processing_level, report_mode_only, listeners>>
  BY DEF NotSet
<1>2. next \in 1..11 /\ Len(Environment) = 11
  <2>1. Len(Environment) = 11
    BY DEF Environment
  <2>2. Len(Options) \in Nat
    BY ConfigurationAssumption
  <2>3. next \in 1..Len(Environment) + 1 \/ next \in 1..Len(Options) + 1
    BY DEF ConfigInv, ConfigTypeOK
  <2> QED
    BY <1>1, <2>1, <2>2, <2>3
<1>3. PICK k \in Settings : k = Environment[next]
  BY <1>2 DEF Environment, Settings, Texts, Files
<1>4. config' = IF k \in Assigned THEN [config EXCEPT ![k] = Default(k)] ELSE config
  BY <1>3 DEF NotSet
<1>5. /\ DOMAIN config' = Settings
      /\ \A j \in Settings \ {k} : config'[j] = config[j]
      /\ config'[k] = IF k \in Assigned THEN Default(k) ELSE config[k]
  BY <1>4 DEF ConfigInv, SettingsOK
<1>6. \A j : Passed(j)' <=> Passed(j) \/ j = k
  <2>1. next \in Nat \ {0}
    BY <1>2
  <2> QED
    BY <1>1, <1>3, <2>1, PassedNext
<1>7. SettingsOK'
  <2>1. k \in Assigned => Storable(k, Default(k))
    <3>1. DefaultInterval \in 0..Modulus - 1
      BY ConfigurationAssumption DEF Modulus
    <3>2. k \in Assigned => \/ k = "measurement_interval" /\ Default(k) = DefaultInterval
                            \/ k \in Files
      BY DEF Assigned, Default, Files
    <3> QED
      BY <3>1, <3>2 DEF Storable, Files
  <2>2. \A j \in Settings : Storable(j, config'[j])
    BY <1>5, <2>1 DEF ConfigInv, SettingsOK
  <2> QED
    BY <1>1, <1>5, <2>2 DEF ConfigInv, SettingsOK
<1>8. ConfigTypeOK'
  <2>1. TypesOf(config')
    BY <1>7, SettingTypes DEF SettingsOK
  <2>2. next' \in 1..Len(Environment) + 1
    BY <1>1, <1>2
  <2> QED
    BY <1>1, <2>1, <2>2 DEF ConfigInv, ConfigTypeOK, TypesOf
<1>9. PriorityOK'
  <2>1. \A j \in Settings : args'[j] = Unset
    BY <1>1 DEF ConfigInv, PriorityOK
  <2>2. ASSUME NEW j \in Settings PROVE SettingOK(j)'
    <3>1. SettingOK(j)
      BY <1>1 DEF ConfigInv, PriorityOK
    <3>2. CASE j # k
      BY <1>1, <1>5, <1>6, <3>1, <3>2 DEF SettingOK, InOrderOfPriority, SetTo
    <3>3. CASE j = k /\ k \notin Assigned
      BY <1>1, <1>5, <3>1, <3>3 DEF SettingOK, InOrderOfPriority, SetTo
    <3>4. CASE j = k /\ k \in Assigned
      <4>1. env[k] = Unset
        <5>1. CASE ~Passed(k)
          BY <3>1, <3>4, <5>1 DEF SettingOK
        <5>2. ~Passed(k)
          BY <1>1, <1>2, <1>3 DEF Passed, Environment
        <5> QED
          BY <5>1, <5>2
      <4> QED
        BY <1>1, <1>5, <1>6, <2>1, <3>4, <4>1 DEF SettingOK, InOrderOfPriority
    <3> QED
      BY <3>2, <3>3, <3>4
  <2> QED
    BY <2>1, <2>2 DEF PriorityOK
<1>10. IntervalOK'
  <2>1. "measurement_interval" \in Settings /\ "measurement_interval" \in Assigned
    BY DEF Settings, Assigned
  <2>2. CASE k = "measurement_interval"
    BY <1>5, <2>1, <2>2, ConfigurationAssumption DEF IntervalOK, Default, Files
  <2>3. CASE k # "measurement_interval"
    BY <1>1, <1>5, <1>6, <2>1, <2>3 DEF ConfigInv, IntervalOK
  <2> QED
    BY <2>2, <2>3
<1>11. ThreadsOK' /\ ModeOK'
  <2>1. "num_threads" \in Settings /\ "num_threads" \notin Assigned
    BY DEF Settings, Assigned, Files
  <2> QED
    BY <1>1, <1>5, <2>1 DEF ConfigInv, ThreadsOK, ModeOK
<1> QED
  BY <1>7, <1>8, <1>9, <1>10, <1>11 DEF ConfigInv

(* The steps of main() that do not touch a setting.                        *)
LEMMA MainKeeps ==
    ASSUME ConfigInv,
           \/ EnvironmentRead \/ Unknown \/ OptionsRead \/ SetMode
           \/ StartThreads \/ Finished \/ UNCHANGED configVars
    PROVE  ConfigInv'
<1>1. UNCHANGED <<config, env, args>>
  BY DEF EnvironmentRead, Unknown, OptionsRead, SetMode, StartThreads, Finished, configVars
<1>2. Len(Environment) = 11 /\ Len(Options) \in Nat
  BY ConfigurationAssumption DEF Environment
<1>3. /\ next' \in 1..Len(Environment) + 1 \/ next' \in 1..Len(Options) + 1
      /\ place' \in Places /\ processing_level' \in ProcessingLevels
      /\ report_mode_only' \in BOOLEAN /\ listeners' \in Nat
  <2>1. /\ next \in 1..Len(Environment) + 1 \/ next \in 1..Len(Options) + 1
        /\ place \in Places /\ processing_level \in ProcessingLevels
        /\ report_mode_only \in BOOLEAN /\ listeners \in Nat
        /\ config["num_threads"] \in Int
    BY DEF ConfigInv, ConfigTypeOK
  <2>3. CASE EnvironmentRead
    BY <1>2, <2>1, <2>3 DEF EnvironmentRead, Places, After, Order
  <2>4. CASE Unknown \/ OptionsRead
    BY <1>2, <2>1, <2>4 DEF Unknown, OptionsRead, Places, After, Order
  <2>5. CASE SetMode
    BY <2>1, <2>5 DEF SetMode, ReportOnly, Places, ProcessingLevels, PartialModes
  <2>6. CASE StartThreads
    <3>1. CASE config["num_threads"] >= 0
      <4>1. config["num_threads"] \in Nat
        BY <2>1, <3>1
      <4> QED
        BY <2>1, <2>6, <3>1, <4>1 DEF StartThreads, Places
    <3>2. CASE ~(config["num_threads"] >= 0)
      BY <2>1, <2>6, <3>2 DEF StartThreads, Places
    <3> QED
      BY <3>1, <3>2
  <2>7. CASE Finished \/ UNCHANGED configVars
    BY <2>1, <2>7 DEF Finished, configVars
  <2> QED
    BY <2>3, <2>4, <2>5, <2>6, <2>7
<1>4. SettingsOK' /\ ConfigTypeOK'
  BY <1>1, <1>3 DEF ConfigInv, SettingsOK, ConfigTypeOK
<1>5. /\ place = "failed" => place' = "failed"
      /\ place' # "failed" =>
            \/ \A k \in Assigned : Passed(k)
            \/ place' = place /\ UNCHANGED next
      /\ place' = "environment" => place' = place /\ UNCHANGED next
  <2>1. CASE EnvironmentRead
    <3>1. next \in Nat /\ next > 11 /\ place' = "options"
      <4>1. next \in 1..Len(Environment) + 1 \/ next \in 1..Len(Options) + 1
        BY DEF ConfigInv, ConfigTypeOK
      <4> QED
        BY <1>2, <2>1, <4>1 DEF EnvironmentRead, After, Order
    <3>2. \A k \in Assigned : \E i \in 1..11 : Environment[i] = k
      <4>1. /\ Environment[1] = "a1_schema_file" /\ Environment[2] = "ves_schema_file"
            /\ Environment[3] = "sample_file" /\ Environment[4] = "ves_collector_url"
            /\ Environment[5] = "measurement_interval"
        BY DEF Environment
      <4> QED
        BY <4>1 DEF Assigned, Files
    <3> QED
      BY <2>1, <3>1, <3>2 DEF EnvironmentRead, Passed
  <2>2. CASE OptionsRead
    BY <2>2 DEF OptionsRead, After, Order, Passed
  <2>3. CASE Unknown \/ SetMode \/ StartThreads
    BY <2>3 DEF Unknown, Parsing, SetMode, StartThreads, Passed
  <2>4. CASE Finished \/ UNCHANGED configVars
    BY <2>4 DEF Finished, configVars
  <2> QED
    BY <2>1, <2>2, <2>3, <2>4
<1>6. PriorityOK' /\ IntervalOK' /\ ThreadsOK'
  <2>1. place' # "failed" =>
           \A k : Passed(k)' => Passed(k) \/ \A j \in Assigned : Passed(j)
    BY <1>5 DEF Passed
  <2>2. \A k : Passed(k) => Passed(k)'
    BY <1>5 DEF Passed
  <2>3. ASSUME place' # "failed", NEW k \in Settings PROVE SettingOK(k)'
    BY <1>1, <1>5, <2>1, <2>2, <2>3
       DEF ConfigInv, PriorityOK, SettingOK, InOrderOfPriority, SetTo
  <2>4. "measurement_interval" \in Assigned
    BY DEF Assigned
  <2> QED
    BY <1>1, <1>5, <2>1, <2>3, <2>4 DEF ConfigInv, PriorityOK, IntervalOK, ThreadsOK
<1>7. ModeOK'
  <2>1. CASE EnvironmentRead \/ Unknown \/ OptionsRead
    BY <2>1 DEF EnvironmentRead, Unknown, OptionsRead, Parsing, After, Order, ConfigInv, ModeOK
  <2>2. CASE SetMode
    BY <2>2 DEF SetMode, ReportOnly, ProcessingLevels, PartialModes, ConfigInv, ModeOK
  <2>3. CASE StartThreads
    BY <2>3 DEF StartThreads, ConfigInv, ModeOK
  <2>4. CASE Finished \/ UNCHANGED configVars
    BY <2>4 DEF Finished, configVars, ConfigInv, ModeOK
  <2> QED
    BY <2>1, <2>2, <2>3, <2>4
<1> QED
  BY <1>4, <1>6, <1>7 DEF ConfigInv

-----------------------------------------------------------------------------

(* The settings are those of their last source, however many variables are *)
(* set and options given, and the program runs by them.                    *)
THEOREM ConfigurationInvariant == ConfigSpec => []ConfigInv
<1>1. ConfigInv /\ [ConfigNext]_configVars => ConfigInv'
  BY VariableKeeps, NotSetKeeps, OptionKeeps, MainKeeps DEF ConfigNext
<1> QED
  BY <1>1, ConfigInitOK, PTL DEF ConfigSpec

(* The types: the interval fits an unsigned int, no gNodeB is nameless.    *)
THEOREM ConfigurationTyping == ConfigSpec => []ConfigTypeOK
BY ConfigurationInvariant, PTL DEF ConfigInv

(* The command line wins over the environment, and that over the defaults. *)
THEOREM CommandLineWinsAlways == ConfigSpec => []CommandLineWins
<1>1. ConfigInv => CommandLineWins
  BY DEF ConfigInv, PriorityOK, SettingOK, Passed, CommandLineWins
<1> QED
  BY <1>1, ConfigurationInvariant, PTL

(* Once the environment has been read no interval is too long or zero,     *)
(* whatever number was written.                                            *)
THEOREM IntervalInRangeAlways == ConfigSpec => []IntervalInRange
<1>1. ConfigInv => IntervalInRange
  BY DEF ConfigInv, IntervalOK, Passed, IntervalInRange
<1> QED
  BY <1>1, ConfigurationInvariant, PTL

(* The program that is up has the listeners it was told to have, and       *)
(* answers only under CONTROL.                                             *)
THEOREM RunsAsToldAlways == ConfigSpec => []RunsAsTold
<1>1. ConfigInv => RunsAsTold
  <2> SUFFICES ASSUME ConfigInv, place = "up"
               PROVE  /\ listeners = LastWord("num_threads")
                      /\ args["num_threads"] = Unset => listeners \in 1..MAX_THREADS
                      /\ ~report_mode_only <=> LastWord("operating_mode") = "CONTROL"
                      /\ ~report_mode_only => processing_level = "ALL"
    BY DEF RunsAsTold
  <2>1. "operating_mode" \in Settings /\ "num_threads" \in Settings
    BY DEF Settings
  <2>2. InOrderOfPriority("operating_mode") /\ InOrderOfPriority("num_threads")
    BY <2>1 DEF ConfigInv, PriorityOK, SettingOK, Passed
  <2>3. /\ config["operating_mode"] = LastWord("operating_mode")
        /\ config["num_threads"] = LastWord("num_threads")
    BY <2>2 DEF InOrderOfPriority, SetTo, LastWord
  <2> QED
    BY <2>3 DEF ConfigInv, ModeOK, ThreadsOK
<1> QED
  BY <1>1, ConfigurationInvariant, PTL

(***************************************************************************)
(* The life.                                                               *)
(***************************************************************************)

InCallOfMain == pc[Main] # "idle"

(* There is one RAN function: every request, every answer, every stored    *)
(* answer and main()'s call are about it, so that a key of the table and   *)
(* the id by which shutdown deletes it are the same.                       *)
Holds(r, m) == pc[r] = "respond" /\ inbox[r] = m
OneFunction ==
    /\ \A req \in sent : req.function_id = FunctionId
    /\ \A r \in Responders, m \in Answers : Holds(r, m) => m.function_id = FunctionId
    /\ \A k \in Subscribed : k[2] = FunctionId /\ subscription_responses[k] = FunctionId
    /\ InCallOfMain => call[Main].id \in Nodes \X {FunctionId}

(* main() is in a call of the handler only while it subscribes to the      *)
(* current gNodeB, and while it deletes.                                   *)
Calling ==
    /\ InCallOfMain => phase \in {"subscribing", "deleting"}
    /\ phase = "subscribing" /\ InCallOfMain =>
          current # NoNode /\ call[Main] = [op |-> "subscribe", id |-> Id(current)]
    /\ phase = "deleting" /\ InCallOfMain => call[Main].op = "delete"

(* A gNodeB that start-up is done with is subscribed or recorded.          *)
BeforeStartup == {"routing", "starting"}
Settling ==
    /\ phase \in BeforeStartup => gNodeB_list = Nodes
    /\ phase = "subscribing" /\ Returned /\ result[Main] = "SUCCESS" =>
          call[Main].id \in Subscribed
    /\ SubscribedUnlessFailed

(* No subscription is deleted before shutdown comes to it: no delete for   *)
(* its gNodeB was sent, so that no answer can decide main()'s delete       *)
(* before its request is out.                                              *)
DeleteSent(n) ==
    \/ \E req \in sent : req.op = "delete" /\ req.node = n
    \/ \E r \in Responders, m \in Answers :
          Holds(r, m) /\ m.op = "delete" /\ m.node = n
BeforeShutdown == BeforeStartup \cup {"subscribing", "running"}
NotSent == {"check_subscription", "check_request", "encode", "add", "transmit"}
Unsent ==
    /\ phase \in BeforeShutdown => \A n \in Nodes : ~DeleteSent(n)
    /\ phase = "deleting" => \A k \in sub_ids : ~DeleteSent(k[1])
    /\ phase = "deleting" /\ pc[Main] \in NotSent => ~DeleteSent(call[Main].id[1])
    /\ phase = "deleting" /\ pc[Main] = "transmit" =>
          requests_table[call[Main].id] = Pending("delete")

(* While it deletes: what is in the table is what is left to delete, what  *)
(* was logged, and the one being deleted until its deletion is decided.    *)
Decided ==
    \/ Returned /\ result[Main] = "SUCCESS"
    \/ /\ pc[Main] \in OwningStages
       /\ requests_table[call[Main].id] = "delete_request_success"
Open == IF InCallOfMain /\ ~Decided THEN {call[Main].id} ELSE {}
Deleting ==
    /\ phase \in BeforeShutdown => undeleted = {}
    /\ phase = "deleting" =>
          /\ sub_ids \cap undeleted = {}
          /\ InCallOfMain => call[Main].id \notin sub_ids \cup undeleted
          /\ Subscribed = sub_ids \cup undeleted \cup Open
    /\ ShutdownAccounts

(* The listeners stop for good, and so does the metrics thread.            *)
Joining ==
    /\ phase \in Shut => ~_listen
    /\ phase \in {"joining", "stopped"} =>
          polling = {} /\ \A r \in Responders : pc[r] = "listen"
    /\ phase = "stopped" => metrics = "ended"

HandlerInv == TypeOK /\ EntryOwned /\ StatusMatchesTable

LifeInv ==
    /\ LifeTypeOK
    /\ HandlerInv
    /\ OneFunction
    /\ Calling
    /\ Settling
    /\ Unsent
    /\ Deleting
    /\ Joining

-----------------------------------------------------------------------------
(* The handler's part.                                                     *)

(* main() is the only caller, and no listener.                             *)
LEMMA MainFacts ==
    /\ Main \in Callers /\ \A t \in Callers : t = Main
    /\ Main \in Threads /\ Main \notin Responders
    /\ Nodes \X {FunctionId} \subseteq Nodes \X FunctionIds
    /\ \A n \in Nodes : Id(n) \in Nodes \X {FunctionId}
BY LifecycleAssumption, ThreadsAssumption DEF Threads, Id

(* What every step of the program is to the handler: one of the handler's  *)
(* steps, but clear(), or none.                                            *)
HandlerNext ==
    \/ \E t \in Callers, c \in Calls : Call(t, c)
    \/ \E t \in Callers : CallerStep(t)
    \/ \E t \in Threads : Lock(t)
    \/ \E r \in Responders, m \in Deliverable : Receive(r, m)
    \/ \E r \in Responders : ListenerStep(r)
    \/ Tick

(* The steps of main(), the metrics thread, the signal and the listeners'  *)
(* loop that leave the handler alone.                                      *)
OwnStep ==
    \/ NotReady \/ NoRoutes \/ Ready \/ StartListeners \/ Killed \/ Signal
    \/ \E n \in Nodes : NextNode(n)
    \/ Quit \/ StartupEnds \/ BeginShutdown \/ Stop \/ Join \/ ClearPlugins
    \/ Collect \/ Posted \/ MetricsEnds
    \/ \E r \in Responders : LoopAgain(r) \/ LoopEnds(r)
    \/ UNCHANGED allVars

(* Every step is of one of these kinds.                                    *)
LEMMA Kinds ==
    ASSUME [LifeNext]_allVars
    PROVE  \/ OwnStep
           \/ Attempt \/ AttemptEnds \/ DeleteEnds
           \/ \E k \in Ids : Delete(k)
           \/ HandlerStep
           \/ \E r \in Responders, m \in Deliverable : Poll(r, m)
BY DEF LifeNext, MainStep, OwnStep, Terminated

(* Own steps leave the handler alone.                                      *)
LEMMA OwnKeeps == ASSUME OwnStep PROVE UNCHANGED vars
BY DEF OwnStep, NotReady, NoRoutes, Ready, StartListeners, Killed, Signal,
   NextNode, Quit, StartupEnds, BeginShutdown, Stop, Join, ClearPlugins,
   Collect, Posted, MetricsEnds, LoopAgain, LoopEnds, allVars

(* main() hands the handler calls it knows.                                *)
LEMMA CallsKnown ==
    ASSUME LifeInv
    PROVE  /\ Attempt => Call(Main, [op |-> "subscribe", id |-> Id(current)])
                         /\ current \in Nodes
                         /\ [op |-> "subscribe", id |-> Id(current)] \in Calls
           /\ \A k \in Ids : Delete(k) =>
                 /\ k \in Nodes \X {FunctionId}
                 /\ [op |-> "delete", id |-> k] \in Calls
                 /\ Call(Main, [op |-> "delete", id |-> k])
<1> USE MainFacts
<1>1. Attempt => /\ Call(Main, [op |-> "subscribe", id |-> Id(current)])
                 /\ current \in Nodes
  BY DEF Attempt, LifeInv, LifeTypeOK
<1>2. current \in Nodes => [op |-> "subscribe", id |-> Id(current)] \in Calls
  BY DEF Calls, Ops
<1>3. ASSUME NEW k \in Ids, Delete(k)
      PROVE  /\ k \in Nodes \X {FunctionId}
             /\ [op |-> "delete", id |-> k] \in Calls
             /\ Call(Main, [op |-> "delete", id |-> k])
  <2>1. subscription_responses[k] = FunctionId /\ k[2] = FunctionId
    BY <1>3 DEF Delete, LifeInv, OneFunction, Subscribed
  <2>2. k = <<k[1], FunctionId>> /\ k[1] \in Nodes
    BY <2>1 DEF Ids
  <2> QED
    BY <1>3, <2>1, <2>2 DEF Delete, Calls, Ops
<1> QED
  BY <1>1, <1>2, <1>3

(* Every step is a handler's step or leaves the handler alone.             *)
LEMMA HandlerSteps ==
    ASSUME LifeInv, [LifeNext]_allVars
    PROVE  HandlerNext \/ UNCHANGED vars
<1>1. CASE OwnStep
  BY <1>1, OwnKeeps
<1>2. CASE Attempt
  BY <1>2, CallsKnown, MainFacts DEF HandlerNext
<1>3. CASE AttemptEnds \/ DeleteEnds
  BY <1>3, MainFacts DEF HandlerNext, AttemptEnds, DeleteEnds, CallerStep
<1>4. ASSUME NEW k \in Ids, Delete(k) PROVE HandlerNext
  BY <1>4, CallsKnown, MainFacts DEF HandlerNext
<1>5. CASE HandlerStep
  BY <1>5, MainFacts DEF HandlerStep, HandlerNext, CallerStep
<1>6. ASSUME NEW r \in Responders, NEW m \in Deliverable, Poll(r, m) PROVE HandlerNext
  BY <1>6 DEF Poll, HandlerNext
<1> QED
  BY <1>1, <1>2, <1>3, <1>4, <1>5, <1>6, Kinds

(* So what the handler keeps by itself it keeps here.                      *)
LEMMA HandlerKept ==
    ASSUME LifeInv, [LifeNext]_allVars
    PROVE  HandlerInv'
<1>1. [Next]_vars
  BY HandlerSteps DEF HandlerNext, Next
<1>2. TypeOK /\ EntryOwned /\ StatusMatchesTable
  BY DEF LifeInv, HandlerInv
<1> QED
  BY <1>1, <1>2, TypeNext, OwnedNext, TableNext DEF HandlerInv

-----------------------------------------------------------------------------
(* Types, and what concerns one listener or the calls only.                *)

(* Every variable of main() and the other threads keeps its type.          *)
LEMMA LifeTypes ==
    ASSUME LifeInv, [LifeNext]_allVars
    PROVE  LifeTypeOK'
<1> USE LifecycleAssumption DEF LifeInv, LifeTypeOK, Phases, MetricsPlaces
<1>1. TypeOK'
  BY HandlerKept DEF HandlerInv
<1>2. CASE OwnStep
  <2>0. CASE NotReady \/ Ready
    BY <1>1, <2>0 DEF NotReady, Ready, mainVars
  <2>1. CASE \/ NoRoutes \/ StartListeners \/ Killed \/ Signal
             \/ StartupEnds \/ UNCHANGED allVars
    BY <1>1, <2>1 DEF NoRoutes, StartListeners, Killed, Signal,
       StartupEnds, allVars, lifeVars, mainVars, bootVars
  <2>3. CASE Quit \/ \E n \in Nodes : NextNode(n)
    BY <1>1, <2>3 DEF NextNode, Quit, GiveUpNode, bootVars
  <2>2. CASE \/ BeginShutdown \/ Stop \/ Join \/ ClearPlugins
             \/ Collect \/ Posted \/ MetricsEnds
             \/ \E r \in Responders : LoopAgain(r) \/ LoopEnds(r)
    BY <1>1, <2>2 DEF BeginShutdown, Keys, Subscribed, Stop, ListenAfterStop, Join,
       ClearPlugins, MetricsJoined, Collect, Posted, MetricsEnds, LoopAgain, LoopEnds,
       mainVars, bootVars
  <2> QED
    BY <1>2, <2>0, <2>1, <2>2, <2>3 DEF OwnStep
<1>3. CASE Attempt \/ HandlerStep
  BY <1>1, <1>3 DEF Attempt, HandlerStep, lifeVars, mainVars, bootVars
<1>4. CASE AttemptEnds
  <2>1. current \in Nodes
    BY <1>4 DEF AttemptEnds, Returned, Calling, InCallOfMain
  <2>2. attempt' \in 0..MaxAttempts
    BY <1>4 DEF AttemptEnds, GiveUpNode, Exhausted, Counted
  <2>3. current' \in Nodes \cup {NoNode} /\ failed_gNodeBs' \subseteq Nodes
    BY <1>4, <2>1 DEF AttemptEnds, GiveUpNode
  <2> QED
    BY <1>1, <1>4, <2>2, <2>3 DEF AttemptEnds, bootVars
<1>5. CASE DeleteEnds
  <2>1. call[Main].id \in Ids
    BY <1>5, MainFacts DEF DeleteEnds, Returned, HandlerInv, TypeOK, Calls, Ids
  <2> QED
    BY <1>1, <1>5, <2>1 DEF DeleteEnds, bootVars
<1>6. ASSUME NEW k \in Ids, Delete(k) PROVE LifeTypeOK'
  BY <1>1, <1>6 DEF Delete, bootVars
<1>7. ASSUME NEW r \in Responders, NEW m \in Deliverable, Poll(r, m) PROVE LifeTypeOK'
  BY <1>1, <1>7 DEF Poll, mainVars, bootVars
<1> QED
  BY <1>2, <1>3, <1>4, <1>5, <1>6, <1>7, Kinds

(* Once Stop() cleared _listen no listener comes back to its loop.         *)
LEMMA JoiningKept ==
    ASSUME LifeInv, [LifeNext]_allVars
    PROVE  Joining'
<1> USE DEF LifeInv, Joining, Shut
<1>1. CASE OwnStep
  <2>0. UNCHANGED pc
    BY <1>1, OwnKeeps DEF vars
  <2>1. CASE \/ NotReady \/ NoRoutes \/ Ready \/ StartListeners \/ Killed \/ Signal
             \/ \E n \in Nodes : NextNode(n)
             \/ Quit \/ StartupEnds \/ UNCHANGED allVars
    BY <2>0, <2>1 DEF NotReady, NoRoutes, Ready, StartListeners, Killed, Signal,
       NextNode, Quit, StartupEnds, allVars, lifeVars, mainVars, bootVars
  <2>2. CASE \/ BeginShutdown \/ Stop \/ Join \/ ClearPlugins
             \/ Collect \/ Posted \/ MetricsEnds
             \/ \E r \in Responders : LoopAgain(r) \/ LoopEnds(r)
    BY <2>0, <2>2 DEF BeginShutdown, Stop, ListenAfterStop, Join, ClearPlugins,
       MetricsJoined, Collect, Posted, MetricsEnds, LoopAgain, LoopEnds, mainVars, bootVars
  <2> QED
    BY <1>1, <2>1, <2>2 DEF OwnStep
<1>2. CASE Attempt \/ AttemptEnds \/ DeleteEnds \/ \E k \in Ids : Delete(k)
  BY <1>2 DEF Attempt, AttemptEnds, DeleteEnds, Delete, lifeVars, mainVars, bootVars
<1>3. CASE HandlerStep
  <2>1. phase \in {"joining", "stopped"} => \A r \in Responders : pc'[r] = "listen"
    <3>1. SUFFICES ASSUME phase \in {"joining", "stopped"}
                   PROVE  \A r \in Responders : pc'[r] = "listen"
      OBVIOUS
    <3>2. \A r \in Responders : pc[r] = "listen"
      BY <3>1
    <3>3. ~InCallOfMain
      BY <3>1 DEF Calling
    <3>4. UNCHANGED pc
      BY <1>3, <3>2, <3>3
         DEF HandlerStep, InCall, CheckSubscription, CheckRequest, Encode, AddRequest,
             Transmit, TimedWake, KeepWaiting, Finish, Lock, Tick, ListenerStep,
             IgnorePDU, SubscribeAnswered, DeleteAnswered, AnswerIgnored, Handling,
             Notify, InCallOfMain
    <3> QED
      BY <3>2, <3>4
  <2> QED
    BY <1>3, <2>1 DEF HandlerStep, lifeVars, mainVars, bootVars
<1>4. ASSUME NEW r \in Responders, NEW m \in Deliverable, Poll(r, m) PROVE Joining'
  BY <1>4 DEF Poll, mainVars, bootVars
<1> QED
  BY <1>1, <1>2, <1>3, <1>4, Kinds

(* No step of the handler begins or ends a call, or changes what was asked.*)
LEMMA StaysIdle ==
    ASSUME LifeInv, HandlerStep
    PROVE  (InCallOfMain' <=> InCallOfMain) /\ UNCHANGED call
<1> USE MainFacts DEF LifeInv, HandlerInv, InCallOfMain
<1>1. InCallOfMain' <=> InCallOfMain
  BY DEF HandlerStep, InCall, CheckSubscription, CheckRequest, Encode,
     AddRequest, Transmit, TimedWake, KeepWaiting, Finish, Lock, Tick, ListenerStep,
     IgnorePDU, SubscribeAnswered, DeleteAnswered, AnswerIgnored, Conclude, Announce,
     Notify, Waiting, Goto, Return, TypeOK
<1>2. UNCHANGED call
  BY DEF HandlerStep, InCall, CheckSubscription, CheckRequest, Encode,
     AddRequest, Transmit, TimedWake, KeepWaiting, Finish, Lock, Tick, ListenerStep,
     IgnorePDU, SubscribeAnswered, DeleteAnswered, AnswerIgnored, Conclude, Notify
<1> QED
  BY <1>1, <1>2

(* main() is in the handler only where its own code calls it.              *)
LEMMA CallingKept ==
    ASSUME LifeInv, [LifeNext]_allVars
    PROVE  Calling'
<1> USE MainFacts DEF LifeInv, Calling, InCallOfMain
<1>0. TypeOK
  BY DEF HandlerInv
<1>1. CASE OwnStep
  <2>0. UNCHANGED <<pc, call>>
    BY <1>1, OwnKeeps DEF vars
  <2>1. CASE \/ NotReady \/ NoRoutes \/ Ready \/ StartListeners \/ Killed \/ Signal
             \/ \E n \in Nodes : NextNode(n)
             \/ Quit \/ StartupEnds \/ UNCHANGED allVars
    BY <2>0, <2>1 DEF NotReady, NoRoutes, Ready, StartListeners, Killed, Signal,
       NextNode, Quit, BetweenCalls, StartupEnds, allVars, lifeVars, mainVars, bootVars
  <2>2. CASE \/ BeginShutdown \/ Stop \/ Join \/ ClearPlugins
             \/ Collect \/ Posted \/ MetricsEnds
             \/ \E r \in Responders : LoopAgain(r) \/ LoopEnds(r)
    BY <2>0, <2>2 DEF BeginShutdown, Stop, BetweenCalls, Join, ClearPlugins,
       Collect, Posted, MetricsEnds, LoopAgain, LoopEnds, mainVars, bootVars
  <2> QED
    BY <1>1, <2>1, <2>2 DEF OwnStep
<1>2. CASE Attempt
  BY <1>0, <1>2 DEF Attempt, Call, TypeOK, lifeVars, mainVars
<1>3. CASE AttemptEnds \/ DeleteEnds
  BY <1>0, <1>3 DEF AttemptEnds, DeleteEnds, Leave, Goto, TypeOK
<1>4. ASSUME NEW k \in Ids, Delete(k) PROVE Calling'
  <2>1. Call(Main, [op |-> "delete", id |-> k])
    BY <1>4, CallsKnown
  <2> QED
    BY <1>0, <1>4, <2>1 DEF Delete, Call, TypeOK
<1>5. CASE HandlerStep
  BY <1>5, StaysIdle DEF HandlerStep, lifeVars, mainVars
<1>6. ASSUME NEW r \in Responders, NEW m \in Deliverable, Poll(r, m) PROVE Calling'
  BY <1>0, <1>6 DEF Poll, Receive, Goto, TypeOK, mainVars
<1> QED
  BY <1>1, <1>2, <1>3, <1>4, <1>5, <1>6, Kinds

-----------------------------------------------------------------------------
(* What the handler's steps do to what main() has asked.                   *)

(* An answer that is not ignored decides main()'s call.                    *)
LEMMA SubscribeDecides ==
    ASSUME LifeInv, NEW r \in Responders, SubscribeAnswered(r)
    PROVE  /\ pc[Main] \in OwningStages /\ call[Main].op = "subscribe"
           /\ inbox[r] \in Answers /\ AnswerId(inbox[r]) = call[Main].id
           /\ Holds(r, inbox[r])
<1> USE DEF LifeInv, HandlerInv
<1>1. inbox[r] \in Answers /\ Holds(r, inbox[r])
  BY DEF SubscribeAnswered, Handling, OtherPDU, TypeOK, Holds
<1>2. AnswerId(inbox[r]) \in Ids
  BY <1>1, IdFacts
<1>3. requests_table[AnswerId(inbox[r])] = "request_pending"
  BY DEF SubscribeAnswered, Awaited, Pending
<1>4. Owner(Main, AnswerId(inbox[r]))
  BY <1>2, <1>3, MainFacts DEF EntryOwned, EntryHasOwner, NoEntry
<1>5. call[Main] \in Calls /\ "request_pending" \in StatusOf(call[Main].op)
  BY <1>3, <1>4, MainFacts DEF EntryOwned, OwnerHasEntry, Owner, TypeOK, OwningStages
<1>6. call[Main].op = "subscribe"
  BY <1>5 DEF StatusOf, DeleteStatus
<1> QED
  BY <1>1, <1>4, <1>6 DEF Owner

(* Likewise for a delete.                                                  *)
LEMMA DeleteDecides ==
    ASSUME LifeInv, NEW r \in Responders, DeleteAnswered(r)
    PROVE  /\ pc[Main] \in OwningStages /\ call[Main].op = "delete"
           /\ inbox[r] \in Answers /\ AnswerId(inbox[r]) = call[Main].id
           /\ Holds(r, inbox[r])
<1> USE DEF LifeInv, HandlerInv
<1>1. inbox[r] \in Answers /\ Holds(r, inbox[r])
  BY DEF DeleteAnswered, Handling, OtherPDU, TypeOK, Holds
<1>2. AnswerId(inbox[r]) \in Ids
  BY <1>1, IdFacts
<1>3. requests_table[AnswerId(inbox[r])] = "delete_request_pending"
  BY DEF DeleteAnswered, Awaited, Pending
<1>4. Owner(Main, AnswerId(inbox[r]))
  BY <1>2, <1>3, MainFacts DEF EntryOwned, EntryHasOwner, NoEntry
<1>5. call[Main] \in Calls /\ "delete_request_pending" \in StatusOf(call[Main].op)
  BY <1>3, <1>4, MainFacts DEF EntryOwned, OwnerHasEntry, Owner, TypeOK, OwningStages
<1>6. call[Main].op = "delete"
  BY <1>5 DEF StatusOf, SubscribeStatus, Calls, Ops
<1> QED
  BY <1>1, <1>4, <1>6 DEF Owner

(* While main() is in no call, no answer changes a table.                  *)
LEMMA IdleIsQuiet ==
    ASSUME LifeInv, HandlerStep, ~InCallOfMain
    PROVE  Quiet
<1>1. ~(\E r \in Responders : SubscribeAnswered(r) \/ DeleteAnswered(r))
  BY SubscribeDecides, DeleteDecides DEF InCallOfMain, OwningStages
<1> QED
  BY <1>1 DEF HandlerStep, InCall, CheckSubscription, CheckRequest, Encode, AddRequest,
     Transmit, TimedWake, KeepWaiting, Finish, Lock, Tick, ListenerStep, IgnorePDU,
     AnswerIgnored, Notify, InCallOfMain, Quiet

(* main() never reads an answer that is not there: operator[] inserts      *)
(* none.                                                                   *)
LEMMA NothingInserted ==
    ASSUME LifeInv, Finish(Main)
    PROVE  UNCHANGED subscription_responses
<1>1. call[Main].id \in Ids
  BY MainFacts DEF Finish, LifeInv, HandlerInv, TypeOK, Calls, Ids
<1> QED
  BY <1>1 DEF Finish, LifeInv, HandlerInv, StatusMatchesTable

(* The answers that are stored change only when an answer decides the call.*)
LEMMA StoredKept ==
    ASSUME LifeInv, HandlerStep,
           ~(\E r \in Responders : SubscribeAnswered(r) \/ DeleteAnswered(r))
    PROVE  UNCHANGED subscription_responses
BY NothingInserted DEF HandlerStep, InCall, CheckSubscription, CheckRequest, Encode,
   AddRequest, Transmit, TimedWake, KeepWaiting, Lock, Tick, ListenerStep, IgnorePDU,
   AnswerIgnored, Notify

(* What a step of the handler can put on the network: main()'s request.    *)
LEMMA SentBy ==
    ASSUME LifeInv, HandlerStep
    PROVE  /\ UNCHANGED call
           /\ \A req \in sent' : req \in sent \/ (/\ Transmit(Main)
                                                  /\ pc'[Main] = "wait"
                                                  /\ req.op = call[Main].op
                                                  /\ req.node = call[Main].id[1]
                                                  /\ req.function_id = call[Main].id[2])
           /\ \A r \in Responders, m \in Answers : Holds(r, m)' => Holds(r, m)
<1> USE MainFacts DEF LifeInv, HandlerInv, TypeOK
<1>1. CASE InCall(Main)
  <2>0. \E s \in CallerStages : pc' = [pc EXCEPT ![Main] = s]
    BY <1>1 DEF InCall, CheckSubscription, CheckRequest, Encode, AddRequest, Transmit,
       TimedWake, KeepWaiting, Finish, Goto, Return, CallerStages
  <2>1. UNCHANGED <<call, inbox>> /\ \A r \in Responders : pc'[r] = pc[r]
    <3>1. UNCHANGED <<call, inbox>>
      BY <1>1 DEF InCall, CheckSubscription, CheckRequest, Encode, AddRequest, Transmit,
         TimedWake, KeepWaiting, Finish
    <3> QED
      BY <2>0, <3>1
  <2>2. CASE Transmit(Main) /\ pc' = [pc EXCEPT ![Main] = "wait"]
    <3>1. sent' = sent \cup {[op |-> call[Main].op, node |-> call[Main].id[1],
                              request_id |-> WireRequestId,
                              function_id |-> call[Main].id[2]]}
      BY <2>2 DEF Transmit, RequestOf, Return, Goto
    <3>2. pc'[Main] = "wait"
      BY <2>2
    <3> QED
      BY <2>1, <2>2, <3>1, <3>2 DEF Holds
  <2>3. CASE UNCHANGED sent
    BY <2>1, <2>3 DEF Holds
  <2> QED
    BY <1>1, <2>2, <2>3 DEF InCall, CheckSubscription, CheckRequest, Encode, AddRequest,
       Transmit, TimedWake, KeepWaiting, Finish, Goto
<1>2. CASE Tick \/ \E t \in Threads : Lock(t)
  BY <1>2 DEF Tick, Lock, Holds
<1>3. ASSUME NEW u \in Responders, ListenerStep(u)
      PROVE  /\ UNCHANGED <<call, sent>>
             /\ \A r \in Responders, m \in Answers : Holds(r, m)' => Holds(r, m)
  <2>1. UNCHANGED <<call, sent>>
    BY <1>3 DEF ListenerStep, IgnorePDU, SubscribeAnswered, DeleteAnswered,
       AnswerIgnored, Conclude, Notify
  <2>2. pc'[u] # "respond" /\ \A r \in Responders \ {u} : pc'[r] = "respond" => pc[r] = "respond"
    <3>1. CASE Notify(u)
      BY <3>1 DEF Notify, Waiting, Threads
    <3>2. CASE \E s \in {"listen", "notify"} : pc' = [pc EXCEPT ![u] = s]
      BY <3>2 DEF Threads
    <3> QED
      BY <1>3, <3>1, <3>2 DEF ListenerStep, IgnorePDU, SubscribeAnswered, DeleteAnswered,
         AnswerIgnored, Conclude, Announce, Goto
  <2>4. \A r \in Responders \ {u} : inbox'[r] = inbox[r]
    BY <1>3 DEF ListenerStep, IgnorePDU, SubscribeAnswered, DeleteAnswered,
       AnswerIgnored, Conclude, Notify
  <2> QED
    BY <2>1, <2>2, <2>4 DEF Holds
<1> QED
  BY <1>1, <1>2, <1>3 DEF HandlerStep

(* A call of main()'s begins: the network, the tables and the listeners    *)
(* are as they were.                                                       *)
LEMMA CallEffect ==
    ASSUME LifeInv, NEW c \in Calls, Call(Main, c)
    PROVE  /\ UNCHANGED <<requests_table, subscription_responses, sent, inbox, result>>
           /\ \A r \in Responders, m \in Answers : Holds(r, m)' <=> Holds(r, m)
           /\ pc[Main] = "idle" /\ call'[Main] = c
           /\ c.op = "delete" => pc'[Main] = "check_subscription"
           /\ c.op = "subscribe" => pc'[Main] = "encode"
BY MainFacts DEF Call, Goto, LifeInv, HandlerInv, TypeOK, Holds

(* Likewise when it ends.                                                  *)
LEMMA LeaveEffect ==
    ASSUME LifeInv, Leave(Main)
    PROVE  /\ UNCHANGED <<requests_table, subscription_responses, sent, inbox>>
           /\ \A r \in Responders, m \in Answers : Holds(r, m)' <=> Holds(r, m)
           /\ pc[Main] = "return" /\ pc'[Main] = "idle"
BY MainFacts DEF Leave, Goto, LifeInv, HandlerInv, TypeOK, Holds

(* A listener receives an answer to something that was sent.               *)
LEMMA PollEffect ==
    ASSUME LifeInv, NEW r \in Responders, NEW a \in Deliverable, Poll(r, a)
    PROVE  /\ UNCHANGED <<requests_table, subscription_responses, sent, call, result>>
           /\ pc'[Main] = pc[Main]
           /\ \A u \in Responders, m \in Answers : Holds(u, m)' =>
                 \/ Holds(u, m)
                 \/ \E req \in sent : /\ req.op = m.op /\ req.node = m.node
                                      /\ req.function_id = m.function_id
<1> USE MainFacts DEF LifeInv, HandlerInv, TypeOK
<1>1. UNCHANGED <<requests_table, subscription_responses, sent, call, result>>
  BY DEF Poll, Receive
<1>2. pc'[Main] = pc[Main] /\ \A u \in Responders \ {r} : UNCHANGED <<pc[u], inbox[u]>>
  BY DEF Poll, Receive, Goto, Threads
<1>3. inbox'[r] = a
  BY DEF Poll, Receive
<1>4. ASSUME a \in Answers
      PROVE  \E req \in sent : /\ req.op = a.op /\ req.node = a.node
                               /\ req.function_id = a.function_id
  BY <1>4 DEF Deliverable, Answer, OtherPDU, Answers
<1> QED
  BY <1>1, <1>2, <1>3, <1>4 DEF Holds

(* There is one RAN function.                                              *)
LEMMA OneFunctionKept ==
    ASSUME LifeInv, [LifeNext]_allVars
    PROVE  OneFunction'
<1> USE MainFacts
<1>0. OneFunction
  BY DEF LifeInv
<1>1. CASE OwnStep
  BY <1>0, <1>1, OwnKeeps DEF vars, OneFunction, Subscribed, InCallOfMain, Holds
<1>2. CASE Attempt
  <2> DEFINE c == [op |-> "subscribe", id |-> Id(current)]
  <2>1. c \in Calls /\ Call(Main, c) /\ c.id \in Nodes \X {FunctionId}
    BY <1>2, CallsKnown
  <2> HIDE DEF c
  <2> QED
    BY <1>0, <2>1, CallEffect DEF OneFunction, Subscribed
<1>3. CASE AttemptEnds \/ DeleteEnds
  BY <1>0, <1>3, LeaveEffect
     DEF AttemptEnds, DeleteEnds, OneFunction, Subscribed, InCallOfMain
<1>4. ASSUME NEW k \in Ids, Delete(k) PROVE OneFunction'
  <2> DEFINE c == [op |-> "delete", id |-> k]
  <2>1. c \in Calls /\ Call(Main, c) /\ c.id \in Nodes \X {FunctionId}
    BY <1>4, CallsKnown
  <2> HIDE DEF c
  <2> QED
    BY <1>0, <2>1, CallEffect DEF OneFunction, Subscribed
<1>5. CASE HandlerStep
  <2>1. \A req \in sent' : req.function_id = FunctionId
    <3>1. Transmit(Main) => call[Main].id[2] = FunctionId
      BY <1>0 DEF OneFunction, InCallOfMain, Transmit
    <3> QED
      BY <1>0, <1>5, <3>1, SentBy DEF OneFunction
  <2>2. \A r \in Responders, m \in Answers : Holds(r, m)' => m.function_id = FunctionId
    BY <1>0, <1>5, SentBy DEF OneFunction
  <2>3. InCallOfMain' => call'[Main].id \in Nodes \X {FunctionId}
    BY <1>0, <1>5, StaysIdle DEF OneFunction
  <2>4. \A k \in Subscribed' : k[2] = FunctionId /\ subscription_responses'[k] = FunctionId
    <3>1. ASSUME NEW r \in Responders, SubscribeAnswered(r), NEW k \in Subscribed'
          PROVE  k[2] = FunctionId /\ subscription_responses'[k] = FunctionId
      <4>1. inbox[r].function_id = FunctionId
        BY <1>0, <3>1, SubscribeDecides DEF OneFunction
      <4>2. AnswerId(inbox[r])[2] = FunctionId
        BY <1>0, <3>1, SubscribeDecides DEF OneFunction, InCallOfMain, OwningStages
      <4>3. subscription_responses \in [Ids -> FunctionIds \cup {EmptyAnswer, NoFunction}]
        BY DEF LifeInv, HandlerInv, TypeOK
      <4>4. \/ UNCHANGED subscription_responses
            \/ subscription_responses' =
                  [subscription_responses EXCEPT ![AnswerId(inbox[r])] = inbox[r].function_id]
        BY <3>1 DEF SubscribeAnswered
      <4> QED
        BY <1>0, <3>1, <4>1, <4>2, <4>3, <4>4 DEF OneFunction, Subscribed
    <3>2. ASSUME NEW r \in Responders, DeleteAnswered(r), NEW k \in Subscribed'
          PROVE  k \in Subscribed /\ UNCHANGED subscription_responses[k]
      <4>1. subscription_responses \in [Ids -> FunctionIds \cup {EmptyAnswer, NoFunction}]
        BY DEF LifeInv, HandlerInv, TypeOK
      <4> QED
        BY <3>2, <4>1 DEF DeleteAnswered, Erased, Subscribed
    <3>3. CASE UNCHANGED subscription_responses
      BY <1>0, <3>3 DEF OneFunction, Subscribed
    <3> QED
      BY <1>0, <1>5, <3>1, <3>2, <3>3, StoredKept DEF OneFunction
  <2> QED
    BY <2>1, <2>2, <2>3, <2>4 DEF OneFunction
<1>6. ASSUME NEW r \in Responders, NEW m \in Deliverable, Poll(r, m) PROVE OneFunction'
  <2>1. UNCHANGED <<requests_table, subscription_responses, sent, call, pc[Main]>>
    BY <1>6, PollEffect
  <2>2. \A u \in Responders, a \in Answers : Holds(u, a)' => a.function_id = FunctionId
    BY <1>0, <1>6, PollEffect DEF OneFunction
  <2> QED
    BY <1>0, <2>1, <2>2 DEF OneFunction, Subscribed, InCallOfMain
<1> QED
  BY <1>1, <1>2, <1>3, <1>4, <1>5, <1>6, Kinds

-----------------------------------------------------------------------------
(* Deletes are sent when shutdown comes to them.                           *)

(* Only the transmission of main()'s own delete makes a delete sent.       *)
LEMMA DeleteSentBy ==
    ASSUME LifeInv, [LifeNext]_allVars, NEW n, DeleteSent(n)'
    PROVE  \/ DeleteSent(n)
           \/ /\ HandlerStep /\ Transmit(Main) /\ pc'[Main] = "wait"
              /\ call[Main].op = "delete" /\ n = call[Main].id[1]
<1> USE MainFacts DEF DeleteSent
<1>1. CASE OwnStep
  BY <1>1, OwnKeeps DEF vars, Holds
<1>2. CASE Attempt
  BY <1>2, CallsKnown, CallEffect
<1>3. CASE AttemptEnds \/ DeleteEnds
  BY <1>3, LeaveEffect DEF AttemptEnds, DeleteEnds
<1>4. ASSUME NEW k \in Ids, Delete(k) PROVE DeleteSent(n)
  BY <1>4, CallsKnown, CallEffect
<1>5. CASE HandlerStep
  BY <1>5, SentBy
<1>6. ASSUME NEW r \in Responders, NEW m \in Deliverable, Poll(r, m) PROVE DeleteSent(n)
  BY <1>6, PollEffect
<1> QED
  BY <1>1, <1>2, <1>3, <1>4, <1>5, <1>6, Kinds

(* How main() comes to shutdown and through it.                            *)
LEMMA PhaseSteps ==
    ASSUME LifeInv, [LifeNext]_allVars
    PROVE  /\ phase' \in BeforeShutdown => phase \in BeforeShutdown /\ UNCHANGED undeleted
           /\ phase' = "deleting" =>
                 \/ BeginShutdown
                 \/ phase = "deleting" /\ sub_ids' \subseteq sub_ids
           /\ phase' \in Shut => Stop \/ (phase \in Shut /\ UNCHANGED undeleted)
<1> USE DEF BeforeShutdown, BeforeStartup, Shut
<1>1. CASE OwnStep
  <2>1. CASE \/ NotReady \/ NoRoutes \/ Ready \/ StartListeners \/ Killed \/ Signal
             \/ \E n \in Nodes : NextNode(n)
             \/ Quit \/ StartupEnds \/ UNCHANGED allVars
    BY <2>1 DEF NotReady, NoRoutes, Ready, StartListeners, Killed, Signal,
       NextNode, Quit, StartupEnds, allVars, lifeVars, mainVars, bootVars
  <2>2. CASE \/ BeginShutdown \/ Stop \/ Join \/ ClearPlugins
             \/ Collect \/ Posted \/ MetricsEnds
             \/ \E r \in Responders : LoopAgain(r) \/ LoopEnds(r)
    BY <2>2 DEF BeginShutdown, Stop, Join, ClearPlugins,
       Collect, Posted, MetricsEnds, LoopAgain, LoopEnds, mainVars, bootVars
  <2> QED
    BY <1>1, <2>1, <2>2 DEF OwnStep
<1>2. CASE \/ Attempt \/ AttemptEnds \/ DeleteEnds \/ HandlerStep
           \/ \E k \in Ids : Delete(k)
           \/ \E r \in Responders, m \in Deliverable : Poll(r, m)
  BY <1>2 DEF Attempt, AttemptEnds, DeleteEnds, Delete, HandlerStep, Poll, lifeVars, mainVars
<1> QED
  BY <1>1, <1>2, Kinds

(* No delete is on its way before its turn has come.                       *)
LEMMA UnsentKept ==
    ASSUME LifeInv, [LifeNext]_allVars
    PROVE  Unsent'
<1> USE MainFacts
<1>0. /\ Unsent /\ Calling /\ TypeOK /\ OneFunction /\ Deleting
      /\ Calling' /\ OneFunction'
  BY CallingKept, OneFunctionKept DEF LifeInv, HandlerInv
<1>1. phase' \in BeforeShutdown => \A n \in Nodes : ~DeleteSent(n)'
  <2> SUFFICES ASSUME phase' \in BeforeShutdown, NEW n \in Nodes, DeleteSent(n)'
               PROVE  FALSE
    OBVIOUS
  <2>1. phase \in BeforeShutdown
    BY PhaseSteps
  <2>2. ~DeleteSent(n)
    BY <1>0, <2>1 DEF Unsent
  <2>3. Transmit(Main) /\ call[Main].op = "delete"
    BY <2>2, DeleteSentBy
  <2> QED
    BY <1>0, <2>1, <2>3
       DEF Calling, InCallOfMain, Transmit, BeforeShutdown, BeforeStartup
<1>2. phase' = "deleting" => \A k \in sub_ids' : ~DeleteSent(k[1])'
  <2> SUFFICES ASSUME phase' = "deleting", NEW k \in sub_ids', DeleteSent(k[1])'
               PROVE  FALSE
    OBVIOUS
  <2>1. CASE BeginShutdown
    <3>1. phase \in BeforeShutdown /\ k \in Ids /\ UNCHANGED vars
      BY <2>1 DEF BeginShutdown, Keys, Subscribed, BeforeShutdown
    <3>2. k[1] \in Nodes
      BY <3>1 DEF Ids
    <3>3. DeleteSent(k[1])
      BY <3>1 DEF DeleteSent, Holds, vars
    <3> QED
      BY <1>0, <3>1, <3>2, <3>3 DEF Unsent
  <2>2. CASE phase = "deleting" /\ k \in sub_ids
    <3>1. ~DeleteSent(k[1])
      BY <1>0, <2>2 DEF Unsent
    <3>2. Transmit(Main) /\ k[1] = call[Main].id[1]
      BY <3>1, DeleteSentBy
    <3>3. InCallOfMain
      BY <3>2 DEF Transmit, InCallOfMain
    <3>4. k \in Subscribed /\ k # call[Main].id
      BY <1>0, <2>2, <3>3 DEF Deleting
    <3>5. k = <<k[1], FunctionId>>
      BY <1>0, <3>4 DEF OneFunction, Subscribed, Ids
    <3>6. call[Main].id = <<call[Main].id[1], FunctionId>>
      BY <1>0, <3>3 DEF OneFunction
    <3> QED
      BY <3>2, <3>4, <3>5, <3>6
  <2> QED
    BY <2>1, <2>2, PhaseSteps
<1>3. phase' = "deleting" /\ pc'[Main] \in NotSent =>
         \A n : n = call'[Main].id[1] => ~DeleteSent(n)'
  <2> SUFFICES ASSUME phase' = "deleting", pc'[Main] \in NotSent,
                      NEW n, n = call'[Main].id[1], DeleteSent(n)'
               PROVE  FALSE
    OBVIOUS
  <2>1. ~BeginShutdown
    BY <1>0 DEF BeginShutdown, NotSent, Calling, InCallOfMain, vars
  <2>2. phase = "deleting"
    BY <2>1, PhaseSteps
  <2>3. ASSUME NEW k \in Ids, Delete(k) PROVE FALSE
    <3>0. /\ [op |-> "delete", id |-> k] \in Calls
          /\ Call(Main, [op |-> "delete", id |-> k])
      BY <2>3, CallsKnown
    <3>1. call'[Main].id = k /\ k \in sub_ids
      BY <2>3, <3>0, CallEffect DEF Delete
    <3>2. ~DeleteSent(k[1])
      BY <1>0, <2>2, <3>1 DEF Unsent
    <3>3. ~Transmit(Main)
      BY <2>3 DEF Delete, BetweenCalls, Transmit
    <3>4. ~DeleteSent(n)
      BY <3>1, <3>2
    <3> QED
      BY <3>3, <3>4, DeleteSentBy
  <2>4. ASSUME pc[Main] \in NotSent, UNCHANGED call PROVE FALSE
    <3>1. ~DeleteSent(n)
      BY <1>0, <2>2, <2>4 DEF Unsent
    <3>2. pc'[Main] = "wait"
      BY <3>1, DeleteSentBy
    <3> QED
      BY <3>2 DEF NotSent
  <2>5. CASE OwnStep
    BY <2>4, <2>5, OwnKeeps DEF vars
  <2>6. CASE Attempt \/ AttemptEnds \/ DeleteEnds
    BY <2>2, <2>6, LeaveEffect DEF Attempt, AttemptEnds, DeleteEnds, NotSent
  <2>7. CASE HandlerStep
    <3>1. pc[Main] \in NotSent
      BY <1>0, <2>7 DEF HandlerStep, InCall, CheckSubscription, CheckRequest, Encode,
         AddRequest, Transmit, TimedWake, KeepWaiting, Finish, Lock, Tick, ListenerStep,
         IgnorePDU, SubscribeAnswered, DeleteAnswered, AnswerIgnored, Conclude, Announce,
         Notify, Waiting, Goto, Return, TypeOK, NotSent
    <3> QED
      BY <2>4, <2>7, <3>1, StaysIdle
  <2>8. ASSUME NEW r \in Responders, NEW m \in Deliverable, Poll(r, m) PROVE FALSE
    BY <2>4, <2>8, PollEffect
  <2> QED
    BY <2>3, <2>5, <2>6, <2>7, <2>8, Kinds
<1>4. phase' = "deleting" /\ pc'[Main] = "transmit" =>
         requests_table'[call'[Main].id] = Pending("delete")
  <2> SUFFICES ASSUME phase' = "deleting", pc'[Main] = "transmit"
               PROVE  requests_table'[call'[Main].id] = Pending("delete")
    OBVIOUS
  <2>1. ~BeginShutdown
    BY <1>0 DEF BeginShutdown, Calling, InCallOfMain, vars
  <2>2. phase = "deleting"
    BY <2>1, PhaseSteps
  <2>3. CASE pc[Main] = "transmit" /\ UNCHANGED <<requests_table, call>>
    BY <1>0, <2>2, <2>3 DEF Unsent
  <2>4. CASE OwnStep
    BY <2>3, <2>4, OwnKeeps DEF vars
  <2>5. CASE Attempt \/ AttemptEnds \/ DeleteEnds
    BY <2>2, <2>5, LeaveEffect DEF Attempt, AttemptEnds, DeleteEnds
  <2>6. ASSUME NEW k \in Ids, Delete(k)
        PROVE  requests_table'[call'[Main].id] = Pending("delete")
    <3>1. pc'[Main] = "check_subscription"
      BY <2>6, CallsKnown, CallEffect
    <3> QED
      BY <3>1
  <2>7. ASSUME NEW r \in Responders, NEW m \in Deliverable, Poll(r, m)
        PROVE  requests_table'[call'[Main].id] = Pending("delete")
    BY <2>3, <2>7, PollEffect
  <2>8. CASE HandlerStep
    <3>1. CASE InCall(Main)
      <4>1. AddRequest(Main)
        BY <1>0, <3>1 DEF InCall, CheckSubscription, CheckRequest, Encode,
           Transmit, TimedWake, KeepWaiting, Finish, Goto, Return, TypeOK
      <4>2. call[Main].op = "delete" /\ call[Main].id \in Ids
        BY <1>0, <2>2, <4>1 DEF AddRequest, Calling, InCallOfMain, TypeOK, Calls, Ids
      <4>3. requests_table' = [requests_table EXCEPT ![call[Main].id] = Pending(call[Main].op)]
            /\ UNCHANGED call
        BY <1>0, <4>1 DEF AddRequest, Return, Goto, TypeOK
      <4> QED
        BY <1>0, <4>2, <4>3 DEF TypeOK
    <3>2. CASE Tick \/ \E t \in Threads : Lock(t)
      BY <2>3, <3>2 DEF Tick, Lock
    <3>3. ASSUME NEW r \in Responders, ListenerStep(r)
          PROVE  requests_table'[call'[Main].id] = Pending("delete")
      <4>1. pc[Main] = "transmit"
        BY <1>0, <3>3 DEF ListenerStep,
           IgnorePDU, SubscribeAnswered, DeleteAnswered, AnswerIgnored, Conclude,
           Announce, Notify, Waiting, Goto, TypeOK
      <4>2. call[Main].op = "delete"
        BY <1>0, <2>2, <4>1 DEF Calling, InCallOfMain
      <4>3. ~SubscribeAnswered(r)
        BY <4>2, SubscribeDecides
      <4>4. ~DeleteAnswered(r)
        <5>1. ~DeleteSent(call[Main].id[1])
          BY <1>0, <2>2, <4>1 DEF Unsent, NotSent
        <5>2. ASSUME DeleteAnswered(r) PROVE FALSE
          <6>1. /\ inbox[r] \in Answers /\ Holds(r, inbox[r])
                /\ inbox[r].node = call[Main].id[1]
            BY <5>2, DeleteDecides DEF AnswerId
          <6>2. inbox[r].op = "delete"
            BY <5>2 DEF DeleteAnswered, Handling
          <6> QED
            BY <5>1, <6>1, <6>2 DEF DeleteSent
        <5> QED
          BY <5>2
      <4> QED
        BY <2>3, <3>3, <4>1, <4>3, <4>4
           DEF ListenerStep, IgnorePDU, AnswerIgnored, Notify
    <3> QED
      BY <2>8, <3>1, <3>2, <3>3 DEF HandlerStep
  <2> QED
    BY <2>4, <2>5, <2>6, <2>7, <2>8, Kinds
<1> QED
  BY <1>1, <1>2, <1>3, <1>4 DEF Unsent, DeleteSent

-----------------------------------------------------------------------------
(* Start-up's account.                                                     *)

(* Until shutdown nothing is deleted.                                      *)
LEMMA SubscribedGrows ==
    ASSUME LifeInv, [LifeNext]_allVars, phase # "deleting"
    PROVE  Subscribed \subseteq Subscribed'
<1>0. /\ subscription_responses \in [Ids -> FunctionIds \cup {EmptyAnswer, NoFunction}]
      /\ FunctionIds \cup {EmptyAnswer} \subseteq Nat /\ NoFunction \notin Nat
  BY IdsAssumption DEF LifeInv, HandlerInv, TypeOK, EmptyAnswer
<1>1. CASE OwnStep
  BY <1>1, OwnKeeps DEF vars, Subscribed
<1>2. CASE Attempt
  BY <1>2, CallsKnown, CallEffect DEF Subscribed
<1>3. CASE AttemptEnds \/ DeleteEnds
  BY <1>3, LeaveEffect DEF AttemptEnds, DeleteEnds, Subscribed
<1>4. ASSUME NEW k \in Ids PROVE ~Delete(k)
  BY DEF Delete
<1>5. CASE HandlerStep
  <2>1. ASSUME NEW r \in Responders, SubscribeAnswered(r)
        PROVE  Subscribed \subseteq Subscribed'
    <3>1. inbox[r] \in Answers /\ inbox[r].function_id \in Nat
      BY <1>0, <2>1, SubscribeDecides, IdFacts
    <3> QED
      BY <1>0, <2>1, <3>1 DEF SubscribeAnswered, Subscribed
  <2>2. ASSUME NEW r \in Responders PROVE ~DeleteAnswered(r)
    BY DeleteDecides DEF LifeInv, Calling, InCallOfMain, OwningStages
  <2> QED
    BY <1>5, <2>1, <2>2, StoredKept DEF Subscribed
<1>6. ASSUME NEW r \in Responders, NEW m \in Deliverable, Poll(r, m)
      PROVE  Subscribed \subseteq Subscribed'
  BY <1>6, PollEffect DEF Subscribed
<1> QED
  BY <1>1, <1>2, <1>3, <1>4, <1>5, <1>6, Kinds

(* What main() is told when it subscribes is so.                           *)
LEMMA SuccessIsStored ==
    ASSUME LifeInv, [LifeNext]_allVars,
           phase' = "subscribing", Returned', result'[Main] = "SUCCESS"
    PROVE  call'[Main].id \in Subscribed'
<1> USE MainFacts
<1>0. /\ Settling /\ Calling /\ TypeOK
      /\ Calling' /\ StatusMatchesTable
  BY CallingKept DEF LifeInv, HandlerInv
<1>1. phase # "deleting"
  BY PhaseSteps DEF BeforeShutdown, BeforeStartup
<1>2. CASE Returned /\ phase = "subscribing" /\ UNCHANGED <<call, result>>
  BY <1>0, <1>1, <1>2, SubscribedGrows DEF Settling
<1>3. CASE OwnStep
  <2>1. Returned /\ InCallOfMain /\ UNCHANGED <<pc, call, result>>
    BY <1>3, OwnKeeps DEF vars, Returned, InCallOfMain
  <2> QED
    BY <1>0, <1>1, <1>2, <2>1 DEF Calling
<1>4. CASE AttemptEnds \/ DeleteEnds
  BY <1>4, LeaveEffect DEF AttemptEnds, DeleteEnds, Returned
<1>5. CASE Attempt \/ \E k \in Ids : Delete(k)
  <2>1. CASE Attempt
    BY <2>1, CallsKnown, CallEffect DEF Returned
  <2>2. ASSUME NEW k \in Ids PROVE ~Delete(k)
    BY <1>1 DEF Delete
  <2> QED
    BY <1>5, <2>1, <2>2
<1>6. CASE HandlerStep
  <2>0. UNCHANGED call /\ phase = "subscribing"
    BY <1>6, StaysIdle DEF HandlerStep, lifeVars, mainVars
  <2>1. CASE Finish(Main)
    <3>1. call[Main].op = "subscribe" /\ call[Main].id \in Ids
      BY <1>0, <2>0, <2>1 DEF Finish, Calling, InCallOfMain, TypeOK, Calls, Ids
    <3>2. result'[Main] = ResultOf("subscribe", requests_table[call[Main].id])
      BY <1>0, <2>1, <3>1 DEF Finish, Return, TypeOK
    <3>3. requests_table[call[Main].id] = "request_success"
      BY <3>2, ZenonT(30) DEF ResultOf
    <3>4. call[Main].id \in Subscribed
      BY <1>0, <3>1, <3>3 DEF StatusMatchesTable, Subscribed
    <3> QED
      BY <1>1, <2>0, <3>4, SubscribedGrows
  <2>2. CASE InCall(Main) /\ ~Finish(Main)
    <3>1. pc'[Main] = "return" => result'[Main] # "SUCCESS"
      BY <1>0, <2>2 DEF InCall, CheckSubscription, CheckRequest, Encode, AddRequest,
         Transmit, TimedWake, KeepWaiting, Goto, Return, TypeOK
    <3> QED
      BY <3>1 DEF Returned
  <2>3. CASE Tick \/ (\E t \in Threads : Lock(t)) \/ (\E r \in Responders : ListenerStep(r))
    <3>1. Returned /\ UNCHANGED result
      BY <1>0, <2>3 DEF Tick, Lock, ListenerStep, IgnorePDU, SubscribeAnswered,
         DeleteAnswered, AnswerIgnored, Conclude, Announce, Notify, Waiting, Goto,
         TypeOK, Returned
    <3> QED
      BY <1>2, <2>0, <3>1
  <2> QED
    BY <1>6, <2>1, <2>2, <2>3 DEF HandlerStep
<1>7. ASSUME NEW r \in Responders, NEW m \in Deliverable, Poll(r, m)
      PROVE  call'[Main].id \in Subscribed'
  BY <1>2, <1>7, PollEffect DEF Poll, mainVars, Returned
<1> QED
  BY <1>3, <1>4, <1>5, <1>6, <1>7, Kinds

(* A gNodeB that start-up has dealt with is in the table or recorded.      *)
LEMMA SettlingKept ==
    ASSUME LifeInv, [LifeNext]_allVars
    PROVE  Settling'
<1> USE MainFacts
<1>0. Settling /\ Calling /\ LifeTypeOK /\ NoNode \notin Nodes
  BY LifecycleAssumption DEF LifeInv
<1>1. phase' \in BeforeStartup => gNodeB_list' = Nodes
  <2>1. CASE OwnStep
    BY <1>0, <2>1 DEF OwnStep, NotReady, NoRoutes, Ready, StartListeners, Killed, Signal,
       NextNode, Quit, StartupEnds, BeginShutdown, Stop, Join, ClearPlugins, Collect,
       Posted, MetricsEnds, LoopAgain, LoopEnds, allVars, lifeVars, mainVars, bootVars,
       Settling, BeforeStartup
  <2>2. CASE \/ Attempt \/ AttemptEnds \/ DeleteEnds \/ HandlerStep
             \/ \E k \in Ids : Delete(k)
             \/ \E r \in Responders, m \in Deliverable : Poll(r, m)
    BY <1>0, <2>2 DEF Attempt, AttemptEnds, DeleteEnds, Delete, HandlerStep, Poll,
       lifeVars, mainVars, Settling, BeforeStartup
  <2> QED
    BY <2>1, <2>2, Kinds
<1>2. SubscribedUnlessFailed'
  <2> SUFFICES ASSUME phase' \in {"subscribing", "running"},
                      NEW n \in Settled' \ failed_gNodeBs'
               PROVE  Id(n) \in Subscribed'
    BY DEF SubscribedUnlessFailed, Id
  <2>0. phase # "deleting" /\ n \in Nodes
    BY PhaseSteps DEF BeforeShutdown, BeforeStartup, Settled
  <2>1. CASE phase \in {"subscribing", "running"} /\ n \in Settled \ failed_gNodeBs
    BY <1>0, <2>0, <2>1, SubscribedGrows DEF Settling, SubscribedUnlessFailed
  <2>2. CASE UNCHANGED <<gNodeB_list, current, failed_gNodeBs, phase>>
    BY <2>1, <2>2 DEF Settled
  <2>3. CASE OwnStep
    <3>1. CASE StartListeners
      BY <1>0, <3>1 DEF StartListeners, Settling, BeforeStartup, Settled
    <3>2. CASE NextNode(current') /\ current' \in Nodes
      BY <1>0, <2>1, <3>2 DEF NextNode, Settled
    <3>3. CASE Quit
      BY <1>0, <2>1, <3>3 DEF Quit, GiveUpNode, Settled
    <3>4. CASE StartupEnds
      BY <1>0, <2>1, <3>4 DEF StartupEnds, Settled
    <3>5. CASE \/ NotReady \/ NoRoutes \/ Ready \/ Killed \/ BeginShutdown \/ Stop
               \/ Join \/ ClearPlugins
      BY <3>5 DEF NotReady, NoRoutes, Ready, Killed, BeginShutdown, Stop, Join,
         ClearPlugins, mainVars
    <3>6. CASE \/ Signal \/ Collect \/ Posted \/ MetricsEnds
               \/ (\E r \in Responders : LoopAgain(r) \/ LoopEnds(r))
               \/ UNCHANGED allVars
      BY <2>2, <3>6 DEF Signal, Collect, Posted, MetricsEnds, LoopAgain, LoopEnds,
         allVars, lifeVars, mainVars
    <3>7. ASSUME NEW m \in Nodes, NextNode(m) PROVE NextNode(current') /\ current' \in Nodes
      BY <3>7 DEF NextNode
    <3> QED
      BY <2>3, <3>1, <3>2, <3>3, <3>4, <3>5, <3>6, <3>7 DEF OwnStep
  <2>4. CASE AttemptEnds
    <3>1. phase = "subscribing" /\ InCallOfMain /\ Returned
      BY <2>4 DEF AttemptEnds, Returned, InCallOfMain
    <3>2. call[Main].id = Id(current)
      BY <1>0, <3>1 DEF Calling
    <3>3. CASE Succeeded(result[Main]) /\ n = current
      BY <1>0, <2>0, <3>1, <3>2, <3>3, SubscribedGrows DEF Succeeded, Settling
    <3>4. CASE n # current \/ ~Succeeded(result[Main])
      BY <2>1, <2>2, <2>4, <3>1, <3>4 DEF AttemptEnds, GiveUpNode, Settled
    <3> QED
      BY <3>3, <3>4
  <2>5. CASE \/ Attempt \/ DeleteEnds \/ HandlerStep
             \/ \E k \in Ids : Delete(k)
             \/ \E r \in Responders, m \in Deliverable : Poll(r, m)
    BY <2>2, <2>5 DEF Attempt, DeleteEnds, Delete, HandlerStep, Poll, lifeVars, mainVars
  <2> QED
    BY <2>3, <2>4, <2>5, Kinds
<1> QED
  BY <1>1, <1>2, SuccessIsStored DEF Settling

-----------------------------------------------------------------------------
(* Shutdown's account.                                                     *)

(* A delete reports success for one status.                                *)
LEMMA DeleteSuccess ==
    ASSUME NEW status
    PROVE  ResultOf("delete", status) = "SUCCESS" <=> status = "delete_request_success"
<1>1. ResultOf("delete", status) = "SUCCESS" => status = "delete_request_success"
  BY ZenonT(30) DEF ResultOf, Pending
<1>2. status = "delete_request_success" => ResultOf("delete", status) = "SUCCESS"
  BY ZenonT(30) DEF ResultOf, Pending
<1> QED
  BY <1>1, <1>2

(* The one that is being deleted is in the table until its deletion is     *)
(* decided, and from then on it is not.                                    *)
LEMMA OpenSteps ==
    ASSUME LifeInv, HandlerStep, phase = "deleting"
    PROVE  \/ Subscribed' = Subscribed /\ Open' = Open
           \/ /\ Subscribed' = Subscribed \ {call[Main].id}
              /\ Open = {call[Main].id} /\ Open' = {}
<1> USE MainFacts
<1>0. /\ Calling /\ TypeOK /\ Unsent /\ Deleting
      /\ UNCHANGED call /\ (InCallOfMain' <=> InCallOfMain)
  BY StaysIdle DEF LifeInv, HandlerInv
<1>1. CASE ~InCallOfMain
  BY <1>0, <1>1, IdleIsQuiet DEF Quiet, Subscribed, Open
<1>2. CASE InCallOfMain
  <2>0. call[Main].op = "delete" /\ call[Main].id \in Ids
    BY <1>0, <1>2 DEF Calling, InCallOfMain, TypeOK, Calls, Ids
  <2>1. CASE UNCHANGED subscription_responses /\ (Decided' <=> Decided)
    BY <1>0, <2>1 DEF Open, Subscribed
  <2>2. CASE InCall(Main)
    <3>0. UNCHANGED subscription_responses
      BY <2>2, NothingInserted DEF InCall, CheckSubscription, CheckRequest, Encode,
         AddRequest, Transmit, TimedWake, KeepWaiting
    <3>1. CASE CheckSubscription(Main) \/ CheckRequest(Main) \/ Encode(Main)
      <4>1. ~Decided /\ ~Decided'
        BY <1>0, <3>1 DEF CheckSubscription, CheckRequest, Encode, Goto, Return, TypeOK,
           Decided, Returned, OwningStages
      <4> QED
        BY <2>1, <3>0, <4>1
    <3>2. CASE AddRequest(Main)
      <4>1. ~Decided
        BY <3>2 DEF AddRequest, Decided, Returned, OwningStages
      <4>2. ~Decided'
        <5>1. CASE /\ requests_table' = [requests_table EXCEPT
                                           ![call[Main].id] = Pending(call[Main].op)]
                   /\ pc' = [pc EXCEPT ![Main] = "transmit"]
          <6>1. requests_table'[call[Main].id] = "delete_request_pending"
            BY <1>0, <2>0, <5>1 DEF TypeOK, Pending
          <6> QED
            BY <1>0, <5>1, <6>1 DEF TypeOK, Decided, Returned
        <5>2. CASE /\ pc' = [pc EXCEPT ![Main] = "return"]
                   /\ result' = [result EXCEPT ![Main] = "ERR_DUPLICATE"]
          BY <1>0, <5>2 DEF TypeOK, Decided, OwningStages
        <5> QED
          BY <3>2, <5>1, <5>2 DEF AddRequest, Goto, Return
      <4> QED
        BY <2>1, <3>0, <4>1, <4>2
    <3>3. CASE Transmit(Main)
      <4>1. requests_table[call[Main].id] = "delete_request_pending"
        BY <1>0, <3>3 DEF Transmit, Unsent, Pending
      <4>2. ~Decided
        BY <3>3, <4>1 DEF Transmit, Decided, Returned
      <4>3. ~Decided'
        <5>1. CASE UNCHANGED requests_table /\ pc' = [pc EXCEPT ![Main] = "wait"]
          BY <1>0, <4>1, <5>1 DEF TypeOK, Decided, Returned
        <5>2. CASE /\ pc' = [pc EXCEPT ![Main] = "return"]
                   /\ result' = [result EXCEPT ![Main] = "ERR_TX"]
          BY <1>0, <5>2 DEF TypeOK, Decided, OwningStages
        <5> QED
          BY <3>3, <5>1, <5>2 DEF Transmit, Goto, Return
      <4> QED
        BY <2>1, <3>0, <4>2, <4>3
    <3>4. CASE TimedWake(Main) \/ KeepWaiting(Main)
      <4>1. Decided' <=> Decided
        BY <1>0, <3>4 DEF TimedWake, KeepWaiting, Goto, TypeOK, Decided, Returned,
           OwningStages
      <4> QED
        BY <2>1, <3>0, <4>1
    <3>5. CASE Finish(Main)
      <4> DEFINE status == requests_table[call[Main].id]
      <4>1. /\ pc[Main] = "wake" /\ pc'[Main] = "return"
            /\ result'[Main] = ResultOf("delete", status)
        BY <1>0, <2>0, <3>5 DEF Finish, Goto, Return, TypeOK
      <4>2. Decided <=> status = "delete_request_success"
        BY <4>1 DEF Decided, Returned, OwningStages
      <4>3. Decided' <=> result'[Main] = "SUCCESS"
        BY <4>1 DEF Decided, Returned, OwningStages
      <4> QED
        BY <2>1, <3>0, <4>1, <4>2, <4>3, DeleteSuccess
    <3> QED
      BY <2>2, <3>1, <3>2, <3>3, <3>4, <3>5 DEF InCall
  <2>3. CASE Tick \/ \E t \in Threads : Lock(t)
    <3>1. Decided' <=> Decided
      BY <1>0, <2>3 DEF Tick, Lock, Decided, Returned
    <3> QED
      BY <2>1, <2>3, <3>1 DEF Tick, Lock
  <2>4. ASSUME NEW r \in Responders, ListenerStep(r)
        PROVE  \/ Subscribed' = Subscribed /\ Open' = Open
               \/ /\ Subscribed' = Subscribed \ {call[Main].id}
                  /\ Open = {call[Main].id} /\ Open' = {}
    <3>1. ~SubscribeAnswered(r)
      BY <2>0, SubscribeDecides
    <3>2. CASE DeleteAnswered(r)
      <4>1. /\ pc[Main] \in OwningStages /\ AnswerId(inbox[r]) = call[Main].id
            /\ inbox[r] \in Answers
        BY <3>2, DeleteDecides
      <4>2. requests_table[call[Main].id] = "delete_request_pending"
        BY <3>2, <4>1 DEF DeleteAnswered, Awaited, Pending
      <4>3. ~Decided
        BY <4>1, <4>2 DEF Decided, Returned, OwningStages
      <4>4. Open = {call[Main].id}
        BY <1>2, <4>3 DEF Open
      <4>5. call[Main].id \in Subscribed
        BY <1>0, <4>4 DEF Deleting
      <4>6. pc'[Main] = pc[Main]
        BY <1>0, <3>2 DEF DeleteAnswered, Conclude, Announce, Goto, TypeOK
      <4>7. CASE /\ subscription_responses' = Erased(call[Main].id)
                 /\ Conclude(r, "delete_request_success")
        <5>1. requests_table'[call[Main].id] = "delete_request_success"
          BY <1>0, <2>0, <4>1, <4>7 DEF Conclude, TypeOK
        <5>2. Decided'
          BY <1>0, <4>1, <4>6, <5>1 DEF Decided
        <5>3. Subscribed' = Subscribed \ {call[Main].id}
          BY <1>0, <2>0, <4>7 DEF Subscribed, Erased, TypeOK
        <5> QED
          BY <4>4, <5>2, <5>3 DEF Open
      <4>8. CASE UNCHANGED subscription_responses /\ Conclude(r, "delete_request_failed")
        <5>1. requests_table'[call[Main].id] = "delete_request_failed"
          BY <1>0, <2>0, <4>1, <4>8 DEF Conclude, TypeOK
        <5>2. ~Decided'
          BY <1>0, <4>1, <4>6, <5>1 DEF Decided, Returned, OwningStages
        <5> QED
          BY <2>1, <4>3, <4>8, <5>2
      <4> QED
        BY <3>2, <4>1, <4>5, <4>7, <4>8 DEF DeleteAnswered, Subscribed
    <3>3. CASE IgnorePDU(r) \/ AnswerIgnored(r) \/ Notify(r)
      <4>1. /\ UNCHANGED <<requests_table, subscription_responses, result>>
            /\ pc'[Main] = pc[Main] \/ (pc[Main] = "wait" /\ pc'[Main] = "wake")
        BY <1>0, <3>3 DEF IgnorePDU, AnswerIgnored, Notify, Waiting, Goto, TypeOK
      <4>2. Decided' <=> Decided
        BY <1>0, <4>1 DEF Decided, Returned, OwningStages
      <4> QED
        BY <2>1, <4>1, <4>2
    <3> QED
      BY <2>4, <3>1, <3>2, <3>3 DEF ListenerStep
  <2> QED
    BY <2>2, <2>3, <2>4 DEF HandlerStep
<1> QED
  BY <1>1, <1>2

(* What is left is what was logged.                                        *)
LEMMA DeletingKept ==
    ASSUME LifeInv, [LifeNext]_allVars
    PROVE  Deleting'
<1> USE MainFacts
<1>0. Deleting /\ Calling /\ TypeOK
  BY DEF LifeInv, HandlerInv
<1>1. phase' \in BeforeShutdown => undeleted' = {}
  BY <1>0, PhaseSteps DEF Deleting
<1>2. ASSUME phase' = "deleting"
      PROVE  /\ sub_ids' \cap undeleted' = {}
             /\ InCallOfMain' => call'[Main].id \notin sub_ids' \cup undeleted'
             /\ Subscribed' = sub_ids' \cup undeleted' \cup Open'
  <2>1. CASE BeginShutdown
    <3>1. undeleted' = {} /\ sub_ids' = Subscribed /\ Subscribed' = Subscribed
      BY <1>0, <2>1 DEF BeginShutdown, Keys, Deleting, BeforeShutdown, vars, Subscribed
    <3>2. ~InCallOfMain'
      BY <1>0, <2>1 DEF BeginShutdown, Calling, InCallOfMain, vars
    <3> QED
      BY <3>1, <3>2 DEF Open
  <2>2. CASE phase = "deleting"
    <3>0. /\ sub_ids \cap undeleted = {}
          /\ InCallOfMain => call[Main].id \notin sub_ids \cup undeleted
          /\ Subscribed = sub_ids \cup undeleted \cup Open
      BY <1>0, <2>2 DEF Deleting
    <3>1. CASE OwnStep
      <4>1. UNCHANGED <<vars, sub_ids, undeleted>>
        BY <1>2, <2>2, <3>1, OwnKeeps DEF OwnStep, NotReady, NoRoutes, Ready,
           StartListeners, Killed, Signal, NextNode, Quit, StartupEnds, BeginShutdown, Stop, Join,
           ClearPlugins, Collect, Posted, MetricsEnds, LoopAgain, LoopEnds, allVars,
           lifeVars, mainVars
      <4>2. Subscribed' = Subscribed /\ Open' = Open /\ UNCHANGED <<InCallOfMain, call>>
        BY <4>1 DEF vars, Subscribed, Open, Decided, Returned, InCallOfMain
      <4> QED
        BY <3>0, <4>1, <4>2
    <3>2. CASE Attempt \/ AttemptEnds
      BY <2>2, <3>2 DEF Attempt, AttemptEnds
    <3>3. ASSUME NEW k \in Ids, Delete(k)
          PROVE  /\ sub_ids' \cap undeleted' = {}
                 /\ InCallOfMain' => call'[Main].id \notin sub_ids' \cup undeleted'
                 /\ Subscribed' = sub_ids' \cup undeleted' \cup Open'
      <4> DEFINE c == [op |-> "delete", id |-> k]
      <4>1. c \in Calls /\ Call(Main, c) /\ c.op = "delete" /\ c.id = k
        BY <3>3, CallsKnown
      <4> HIDE DEF c
      <4>2. /\ UNCHANGED subscription_responses /\ pc[Main] = "idle"
            /\ pc'[Main] = "check_subscription" /\ call'[Main].id = k
        BY <4>1, CallEffect
      <4>3. Open = {} /\ Open' = {k} /\ Subscribed' = Subscribed
        BY <4>2 DEF Open, InCallOfMain, Decided, Returned, OwningStages, Subscribed
      <4>4. k \in sub_ids /\ sub_ids' = sub_ids \ {k} /\ undeleted' = undeleted
        BY <3>3 DEF Delete
      <4> QED
        BY <3>0, <4>2, <4>3, <4>4
    <3>4. CASE DeleteEnds
      <4>1. /\ UNCHANGED subscription_responses
            /\ pc[Main] = "return" /\ pc'[Main] = "idle"
        BY <3>4, LeaveEffect DEF DeleteEnds
      <4>2. Subscribed' = Subscribed /\ Open' = {}
        BY <4>1 DEF Open, InCallOfMain, Subscribed
      <4>3. Open = IF result[Main] = "SUCCESS" THEN {} ELSE {call[Main].id}
        BY <4>1 DEF Open, InCallOfMain, Decided, Returned, OwningStages
      <4>4. /\ undeleted' = IF result[Main] = "SUCCESS" THEN undeleted
                            ELSE undeleted \cup {call[Main].id}
            /\ sub_ids' = sub_ids
        BY <3>4 DEF DeleteEnds
      <4> QED
        BY <3>0, <4>1, <4>2, <4>3, <4>4 DEF InCallOfMain
    <3>5. CASE HandlerStep
      <4>1. UNCHANGED <<sub_ids, undeleted, call>> /\ (InCallOfMain' <=> InCallOfMain)
        BY <3>5, StaysIdle DEF HandlerStep, lifeVars, mainVars
      <4>2. \/ Subscribed' = Subscribed /\ Open' = Open
            \/ /\ Subscribed' = Subscribed \ {call[Main].id}
               /\ Open = {call[Main].id} /\ Open' = {}
        BY <2>2, <3>5, OpenSteps
      <4>3. Open # {} => InCallOfMain
        BY DEF Open
      <4> QED
        BY <3>0, <4>1, <4>2, <4>3
    <3>6. ASSUME NEW r \in Responders, NEW m \in Deliverable, Poll(r, m)
          PROVE  /\ sub_ids' \cap undeleted' = {}
                 /\ InCallOfMain' => call'[Main].id \notin sub_ids' \cup undeleted'
                 /\ Subscribed' = sub_ids' \cup undeleted' \cup Open'
      <4>1. UNCHANGED <<sub_ids, undeleted, call, pc[Main], result, requests_table,
                        subscription_responses>>
        BY <3>6, PollEffect DEF Poll, mainVars
      <4>2. Subscribed' = Subscribed /\ Open' = Open /\ (InCallOfMain' <=> InCallOfMain)
        BY <4>1 DEF Subscribed, Open, Decided, Returned, InCallOfMain
      <4> QED
        BY <3>0, <4>1, <4>2
    <3> QED
      BY <3>1, <3>2, <3>3, <3>4, <3>5, <3>6, Kinds
  <2> QED
    BY <1>2, <2>1, <2>2, PhaseSteps
<1>3. ShutdownAccounts'
  <2> SUFFICES ASSUME phase' \in Shut PROVE Subscribed' = undeleted'
    BY DEF ShutdownAccounts
  <2>1. CASE Stop
    <3>1. ~InCallOfMain /\ sub_ids = {} /\ phase = "deleting"
          /\ UNCHANGED <<subscription_responses, undeleted>>
      BY <2>1 DEF Stop, BetweenCalls, InCallOfMain, vars
    <3>2. Subscribed = undeleted
      BY <1>0, <3>1 DEF Deleting, Open
    <3> QED
      BY <3>1, <3>2 DEF Subscribed
  <2>2. CASE phase \in Shut /\ UNCHANGED undeleted
    <3>1. Subscribed = undeleted /\ ~InCallOfMain
      BY <1>0, <2>2 DEF Deleting, ShutdownAccounts, Calling, Shut
    <3>2. UNCHANGED subscription_responses
      <4>1. CASE OwnStep
        BY <4>1, OwnKeeps DEF vars
      <4>2. CASE \/ Attempt \/ AttemptEnds \/ DeleteEnds \/ \E k \in Ids : Delete(k)
        BY <2>2, <4>2 DEF Attempt, AttemptEnds, DeleteEnds, Delete, Shut
      <4>3. CASE HandlerStep
        BY <3>1, <4>3, IdleIsQuiet DEF Quiet
      <4>4. ASSUME NEW r \in Responders, NEW m \in Deliverable, Poll(r, m)
            PROVE  UNCHANGED subscription_responses
        BY <4>4, PollEffect
      <4> QED
        BY <4>1, <4>2, <4>3, <4>4, Kinds
    <3> QED
      BY <2>2, <3>1, <3>2 DEF Subscribed
  <2> QED
    BY <2>1, <2>2, PhaseSteps
<1> QED
  BY <1>1, <1>2, <1>3 DEF Deleting

-----------------------------------------------------------------------------
(* The theorems.                                                           *)

(* The program starts there.                                               *)
LEMMA LifeStart == LifeInit => LifeInv
<1> SUFFICES ASSUME LifeInit PROVE LifeInv
  OBVIOUS
<1> USE MainFacts
<1>0. /\ Init /\ phase = "routing" /\ TypeOK
      /\ pc[Main] = "idle" /\ \A r \in Responders : pc[r] = "listen"
  BY TypeInit DEF LifeInit, Init, Threads
<1>1. LifeTypeOK
  <2>1. 0 \in 0..MaxAttempts /\ 0 \in 0..MaxWait
    BY LifecycleAssumption
  <2> QED
    BY <1>0, <2>1, Zenon DEF LifeInit, LifeTypeOK, Phases, MetricsPlaces
<1>2. EntryOwned /\ StatusMatchesTable
  BY <1>0 DEF Init, EntryOwned, OwnerHasEntry, OneOwner, EntryHasOwner, Owner,
     OwningStages, StatusMatchesTable, NoEntry
<1>3. OneFunction /\ Unsent
  BY <1>0 DEF Init, OneFunction, Unsent, DeleteSent, Holds, InCallOfMain, Subscribed
<1>4. Calling /\ Deleting /\ Joining
  BY <1>0 DEF LifeInit, Calling, Deleting, Joining, InCallOfMain, ShutdownAccounts, Shut
<1>5. Settling
  BY <1>0 DEF LifeInit, Settling, SubscribedUnlessFailed
<1> QED
  BY <1>0, <1>1, <1>2, <1>3, <1>4, <1>5 DEF LifeInv, HandlerInv

(* The inductive invariant of the whole program.                           *)
THEOREM LifecycleInvariant == LifeSpec => []LifeInv
<1>1. LifeInv /\ [LifeNext]_allVars => LifeInv'
  BY LifeTypes, HandlerKept, OneFunctionKept, CallingKept, SettlingKept, UnsentKept,
     DeletingKept, JoiningKept DEF LifeInv
<1> QED
  BY <1>1, LifeStart, PTL DEF LifeSpec

(* Every variable of the program keeps its type: no more than              *)
(* MaxAttempts + 1 attempts are made.                                      *)
THEOREM LifecycleTyping == LifeSpec => []LifeTypeOK
<1>1. LifeInv => LifeTypeOK
  BY DEF LifeInv
<1> QED
  BY <1>1, LifecycleInvariant, PTL

(* A gNodeB that start-up is done with, and that is not recorded as        *)
(* failed, is subscribed, for any number of gNodeBs and attempts.          *)
THEOREM SubscribedUnlessFailedAlways == LifeSpec => []SubscribedUnlessFailed
<1>1. LifeInv => SubscribedUnlessFailed
  BY DEF LifeInv, Settling
<1> QED
  BY <1>1, LifecycleInvariant, PTL

(* After shutdown the table holds exactly what shutdown logged as not      *)
(* deleted.                                                                *)
THEOREM ShutdownAccountsAlways == LifeSpec => []ShutdownAccounts
<1>1. LifeInv => ShutdownAccounts
  BY DEF LifeInv, Deleting
<1> QED
  BY <1>1, LifecycleInvariant, PTL

(* When the plugins are destroyed no thread can use them any more.         *)
THEOREM PluginsOutliveUseAlways == LifeSpec => []PluginsOutliveUse
<1>1. LifeInv => PluginsOutliveUse
  BY DEF LifeInv, Joining, Shut, PluginsOutliveUse
<1> QED
  BY <1>1, LifecycleInvariant, PTL

(* Once the deletes are done no answer changes a table.                    *)
THEOREM QuietAfterDeletesAlways == LifeSpec => QuietAfterDeletes
<1>1. ASSUME LifeInv, [LifeNext]_allVars, phase \in Shut
      PROVE  Quiet
  <2>0. ~InCallOfMain
    BY <1>1 DEF LifeInv, Calling, Shut
  <2>1. CASE OwnStep
    BY <2>1, OwnKeeps DEF vars, Quiet
  <2>2. CASE \/ Attempt \/ AttemptEnds \/ DeleteEnds \/ \E k \in Ids : Delete(k)
    BY <1>1, <2>2 DEF Attempt, AttemptEnds, DeleteEnds, Delete, Shut
  <2>3. CASE HandlerStep
    BY <1>1, <2>0, <2>3, IdleIsQuiet
  <2>4. ASSUME NEW r \in Responders, NEW m \in Deliverable, Poll(r, m) PROVE Quiet
    BY <1>1, <2>4, PollEffect DEF Quiet
  <2> QED
    BY <1>1, <2>1, <2>2, <2>3, <2>4, Kinds
<1>2. LifeInv /\ [LifeNext]_allVars => [(phase \in Shut) => Quiet]_allVars
  BY <1>1
<1> QED
  BY <1>2, LifecycleInvariant, PTL DEF LifeSpec, QuietAfterDeletes

(* The program uses the handler as the handler's specification allows, so  *)
(* that all that is proved of the handler holds in the program, its        *)
(* refinement of the abstract service included.                            *)
THEOREM LifecycleUsesHandler == LifeSpec => Spec
<1>1. LifeInit => Init
  BY DEF LifeInit
<1>2. LifeInv /\ [LifeNext]_allVars => [Next]_vars
  BY HandlerSteps DEF HandlerNext, Next
<1> QED
  BY <1>1, <1>2, LifecycleInvariant, PTL DEF LifeSpec, Spec

(* In particular the program's calls and answers are those of the abstract *)
(* service.                                                                *)
THEOREM LifecycleImplementsService == LifeSpec => ImplementsService
BY LifecycleUsesHandler, HandlerImplementsService
=============================================================================
