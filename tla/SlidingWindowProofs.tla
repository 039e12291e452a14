------------------------- MODULE SlidingWindowProofs -------------------------
(***************************************************************************)
(* What net_events means, for windows of any length and seconds of any     *)
(* number of ticks: the ring is a shift register, and its sum lies between *)
(* the events of the last n - 1 seconds and those of the last 2n - 1.      *)
(***************************************************************************)
EXTENDS SlidingWindow, WindowOpsProofs

-----------------------------------------------------------------------------
(* The ring as a row of bins.                                              *)

(* Where in the ring the i-th oldest bin is.                               *)
Place(w, i) == (w.tail + i - 1) % w.size

(* The places of the bins are the slots, each once.                        *)
LEMMA Places ==
    ASSUME NEW w, WindowOK(w)
    PROVE  /\ \A i \in 1..w.size : Place(w, i) \in Slots(w)
           /\ \A i, j \in 1..w.size : Place(w, i) = Place(w, j) => i = j
           /\ \A s \in Slots(w) : \E i \in 1..w.size : Place(w, i) = s
<1> DEFINE n == w.size
           t == w.tail
<1>1. n \in Nat \ {0} /\ t \in 0..(n - 1)
  BY DEF WindowOK, Slots
<1>2. ASSUME NEW i \in 1..n
      PROVE  Place(w, i) = IF t + i - 1 < n THEN t + i - 1 ELSE t + i - 1 - n
  <2> DEFINE k == i - 1
  <2>1. k \in 0..(n - 1) /\ t + k = t + i - 1
    BY <1>1
  <2>2. (t + k) % n = IF t + k < n THEN t + k ELSE t + k - n
    <3> HIDE DEF k, n, t
    <3> QED
      BY <1>1, <2>1, ModAhead
  <2> QED
    BY <2>1, <2>2 DEF Place
<1>3. ASSUME NEW s \in 0..(n - 1) PROVE \E i \in 1..n : Place(w, i) = s
  <2> DEFINE i == IF s >= t THEN s - t + 1 ELSE s - t + n + 1
  <2>1. i \in 1..n
    BY <1>1
  <2>2. Place(w, i) = s
    BY <1>1, <1>2, <2>1
  <2> QED
    BY <2>1, <2>2
<1> HIDE DEF n, t
<1>4. \A i \in 1..n : Place(w, i) \in 0..(n - 1)
  BY <1>1, <1>2
<1>5. \A i, j \in 1..n : Place(w, i) = Place(w, j) => i = j
  BY <1>1, <1>2
<1> QED
  BY <1>3, <1>4, <1>5 DEF Slots, n

(* net_events is the sum of the bins, which are counters.                  *)
LEMMA TotalInOrder ==
    ASSUME NEW w, WindowOK(w)
    PROVE  /\ InOrder(w) \in [1..w.size -> Nat]
           /\ w.net_events = SumOver(InOrder(w), 1..w.size)
<1> DEFINE n == w.size
           to == [i \in 1..n |-> Place(w, i)]
<1>1. /\ n \in Nat \ {0} /\ w.slot \in [Slots(w) -> Nat]
      /\ w.net_events = SumOver(w.slot, Slots(w))
  BY DEF WindowOK
<1>2. InOrder(w) = [i \in 1..n |-> w.slot[Place(w, i)]]
  BY DEF InOrder, Place
<1>3. InOrder(w) \in [1..n -> Nat]
  BY <1>1, <1>2, Places
<1>4. /\ \A i \in 1..n : to[i] \in Slots(w)
      /\ \A s \in Slots(w) : \E i \in 1..n : to[i] = s
  <2>1. \A i \in 1..n : to[i] \in Slots(w)
    BY Places
  <2>2. ASSUME NEW s \in Slots(w) PROVE \E i \in 1..n : to[i] = s
    <3>1. PICK i \in 1..n : Place(w, i) = s
      BY Places
    <3> QED
      BY <3>1
  <2> HIDE DEF to
  <2> QED
    BY <2>1, <2>2
<1>5. \A i, j \in 1..n : to[i] = to[j] => i = j
  BY Places
<1>6. \A i \in 1..n : w.slot[to[i]] \in Int /\ InOrder(w)[i] = w.slot[to[i]]
  BY <1>1, <1>2, Places
<1>7. IsFiniteSet(1..n)
  BY <1>1, FS_Interval
<1> HIDE DEF n, to
<1>8. SumOver(InOrder(w), 1..n) = SumOver(w.slot, Slots(w))
  <2> DEFINE R == 1..n
             F == InOrder(w)
             f == w.slot
             T == Slots(w)
  <2>1. /\ IsFiniteSet(R)
        /\ \A i \in R : to[i] \in T
        /\ \A s \in T : \E i \in R : to[i] = s
        /\ \A i, j \in R : to[i] = to[j] => i = j
        /\ \A i \in R : f[to[i]] \in Int /\ F[i] = f[to[i]]
    BY <1>4, <1>5, <1>6, <1>7
  <2> HIDE DEF R, F, f, T
  <2>2. SumOver(F, R) = SumOver(f, T)
    BY ONLY <2>1, SumReindexed
  <2> QED
    BY <2>2 DEF R, F, f, T
<1> QED
  BY <1>1, <1>3, <1>8 DEF n

(* The new window's bins are empty.                                        *)
LEMMA NewInOrder ==
    ASSUME NEW n \in Nat \ {0}
    PROVE  InOrder(NewWindow(n)) = [i \in 1..n |-> 0]
<1>1. \A i \in 1..n : (0 + i - 1) % n \in 0..(n - 1)
  OBVIOUS
<1> QED
  BY <1>1 DEF InOrder, NewWindow

(* update_window moves the bins along by whole seconds and takes the new   *)
(* events into the newest one.                                             *)
LEMMA UpdatedInOrder ==
    ASSUME NEW w, WindowOK(w), NEW e \in Nat
    PROVE  InOrder(Updated(w, e)) =
             [i \in 1..w.size |->
                (IF i + Shift(w) <= w.size THEN InOrder(w)[i + Shift(w)] ELSE 0)
                + (IF i = w.size THEN e ELSE 0)]
<1> DEFINE n == w.size
           k == Shift(w)
           v == Updated(w, e)
           S == 0..(n - 1)
<1>1. /\ n \in Nat \ {0} /\ k \in 0..n /\ w.slot \in [S -> Nat] /\ w.tail \in S
      /\ w.head = (w.tail + n - 1) % n
  BY WindowFacts DEF WindowOK, Slots
<1>2. v.size = n /\ WindowOK(v)
  BY UpdatedOK
<1> DEFINE Bin(i) == (IF i + k <= n THEN w.slot[Place(w, i + k)] ELSE 0)
                     + (IF i = n THEN e ELSE 0)
<1>3. SUFFICES \A i \in 1..n : v.slot[Place(v, i)] = Bin(i)
  <2>1. /\ InOrder(w) = [i \in 1..n |-> w.slot[Place(w, i)]]
        /\ InOrder(v) = [i \in 1..n |-> v.slot[Place(v, i)]]
    BY <1>2 DEF InOrder, Place
  <2>2. \A i \in 1..n : i + k <= n => InOrder(w)[i + k] = w.slot[Place(w, i + k)]
    BY <1>1, <2>1
  <2> HIDE DEF n, k, v
  <2> QED
    BY <2>1, <2>2 DEF n, k, v
<1> SUFFICES ASSUME NEW i \in 1..n PROVE v.slot[Place(v, i)] = Bin(i)
  OBVIOUS
<1>4. CASE k >= n
  <2> DEFINE c == NewWindow(n)
  <2>1. v = [c EXCEPT !.slot[n - 1] = e, !.net_events = e]
    BY <1>4 DEF Updated
  <2>2. v.tail = 0 /\ v.slot = [j \in S |-> IF j = n - 1 THEN e ELSE 0]
    BY <1>1, <2>1 DEF NewWindow
  <2>3. Place(v, i) = i - 1
    <3>1. (i - 1) % n = i - 1 /\ 0 + i - 1 = i - 1
      <4> DEFINE b == i - 1
      <4>1. b \in 0..(n - 1) /\ 0 + i - 1 = b
        BY <1>1
      <4>2. b % n = b
        <5> HIDE DEF n, b
        <5> QED
          BY <1>1, <4>1, ModSmall
      <4> QED
        BY <4>1, <4>2
    <3> QED
      BY <1>2, <2>2, <3>1 DEF Place
  <2>4. i - 1 \in S
    BY <1>1
  <2> HIDE DEF v, k
  <2>5. v.slot[i - 1] = IF i = n THEN e ELSE 0
    BY <1>1, <2>2, <2>4
  <2> QED
    BY <1>1, <1>4, <2>3, <2>5
<1>5. CASE ~(k >= n)
  <2>1. /\ v.tail = (w.tail + k) % n
        /\ v.slot = [j \in S |-> (IF j \in Dropped(w) THEN 0 ELSE w.slot[j])
                                 + (IF j = Advanced(w, w.head) THEN e ELSE 0)]
    BY <1>1, <1>5 DEF Updated, Advanced, WindowOK, WindowShape
  <2> DEFINE q == Place(v, i)
             l == IF i + k <= n THEN i + k ELSE i + k - n
  <2>2. q \in S /\ q = Place(w, l) /\ l \in 1..n
    <3> DEFINE t == w.tail
               u == (t + k) % n
               a == i - 1
               b == l - 1
    <3>1. k \in 0..(n - 1) /\ a \in 0..(n - 1) /\ b \in 0..(n - 1)
      <4>1. i \in 1..n
        OBVIOUS
      <4> HIDE DEF n, k
      <4>2. k \in 0..(n - 1)
        BY ONLY <1>1, <1>5
      <4>3. a \in 0..(n - 1)
        BY ONLY <1>1, <4>1
      <4>4. b \in 0..(n - 1)
        BY ONLY <1>1, <4>1, <4>2
      <4> QED
        BY <4>2, <4>3, <4>4
    <3>2. u = IF t + k < n THEN t + k ELSE t + k - n
      <4> HIDE DEF n, k, t
      <4> QED
        BY <1>1, <3>1, ModAhead DEF S, t
    <3>3. u \in 0..(n - 1)
      <4>1. t \in 0..(n - 1)
        BY <1>1
      <4> HIDE DEF n, k, t, u
      <4> QED
        BY ONLY <1>1, <3>1, <3>2, <4>1
    <3>4. (u + a) % n = IF u + a < n THEN u + a ELSE u + a - n
      <4> HIDE DEF n, u, a
      <4> QED
        BY <1>1, <3>1, <3>3, ModAhead
    <3>5. (t + b) % n = IF t + b < n THEN t + b ELSE t + b - n
      <4> HIDE DEF n, t, b
      <4> QED
        BY <1>1, <3>1, ModAhead DEF S, t
    <3>6. u + a = u + i - 1 /\ t + b = t + l - 1
      BY <1>1, <3>3
    <3>7. q = (u + a) % n /\ Place(w, l) = (t + b) % n
      BY <1>2, <2>1, <3>6 DEF Place
    <3>8. IF i + k <= n THEN b = a + k ELSE b = a + k - n
      BY <1>1
    <3>9. t \in 0..(n - 1)
      BY <1>1
    <3>10. l \in 1..n
      BY <1>1
    <3> HIDE DEF n, k, t, u, a, b, l, q
    <3>11. (u + a) % n = (t + b) % n
      <4> DEFINE y == (u + a) % n
                 z == (t + b) % n
      <4> HIDE DEF y, z
      <4>1. /\ y = IF u + a < n THEN u + a ELSE u + a - n
            /\ z = IF t + b < n THEN t + b ELSE t + b - n
        BY <3>4, <3>5 DEF y, z
      <4>2. y = z
        BY <1>1, <3>1, <3>2, <3>3, <3>8, <3>9, <4>1
      <4> QED
        BY <4>2 DEF y, z
    <3>12. (u + a) % n \in 0..(n - 1)
      BY <1>1, <3>1, <3>3, <3>4
    <3> QED
      BY <3>7, <3>10, <3>11, <3>12 DEF S
  <2>3. q \in Dropped(w) <=> i + k > n
    <3>1. Dropped(w) = {Place(w, m) : m \in 1..k}
      <4>1. \A j \in 0..(k - 1) : j + 1 \in 1..k /\ (w.tail + j) % n = Place(w, j + 1)
        BY <1>1 DEF Place
      <4>2. \A m \in 1..k : m - 1 \in 0..(k - 1) /\ (w.tail + (m - 1)) % n = Place(w, m)
        BY <1>1 DEF Place
      <4> QED
        BY <4>1, <4>2 DEF Dropped
    <3>2. \A m \in 1..k : m \in 1..n
      BY <1>1, <1>5
    <3>3. q \in Dropped(w) <=> l \in 1..k
      BY <2>2, <3>1, <3>2, Places
    <3> QED
      BY <1>1, <2>2, <3>3
  <2>4. q = Advanced(w, w.head) <=> i = n
    <3>1. v.head = Advanced(w, w.head)
      BY <1>1, <1>5 DEF Updated, WindowOK, WindowShape
    <3>2. v.head = Place(v, n)
      BY <1>2 DEF WindowOK, Place
    <3>3. n \in 1..n
      BY <1>1
    <3> QED
      BY <1>2, <3>1, <3>2, <3>3, Places
  <2>5. i + k <= n => l = i + k
    BY <1>1
  <2> HIDE DEF n, k, v, q, l, S
  <2> QED
    BY <1>1, <2>1, <2>2, <2>3, <2>4, <2>5 DEF q
<1> QED
  BY <1>4, <1>5

-----------------------------------------------------------------------------
(* The newest bins and the latest events.                                  *)

(* The sum of the j newest bins.                                           *)
Newest(w, j) == SumOver(InOrder(w), (w.size - j + 1)..w.size)

(* The ages of the events that came at most x ticks before the last update *)
Upto(x) == {a \in Ages : a <= x}

(* The events' ages at the update, as Update leaves them.                  *)
Moved(arr, d, e) ==
    [a \in Ages |-> IF a = 0 THEN e + (IF d = 0 THEN arr[0] ELSE 0)
                    ELSE IF a >= d THEN arr[a - d] ELSE 0]

(* There is a finite number of ages, and one of them is 0.                 *)
LEMMA AgesFinite ==
    /\ Horizon \in Nat /\ \A x : IsFiniteSet(Upto(x))
    /\ (\E n \in Int : LegalSize(n)) => 0 \in Ages
<1>1. Horizon \in Nat
  BY WindowAssumption DEF Horizon
<1>2. IsFiniteSet(Ages)
  BY <1>1, SlotsFinite DEF Ages
<1>3. \A x : IsFiniteSet(Upto(x))
  BY <1>2, FS_Subset DEF Upto
<1>4. ASSUME NEW n \in Int, LegalSize(n) PROVE Horizon > 0
  <2>1. MAX_WINDOW_SIZE >= 1
    BY <1>4, WindowAssumption DEF LegalSize
  <2>2. \A m, s \in Nat \ {0} : 2 * m * s > 0
    OBVIOUS
  <2> QED
    BY <2>1, <2>2, WindowAssumption DEF Horizon
<1> QED
  BY <1>1, <1>3, <1>4 DEF Ages

(* An update brings its events to age 0 and makes all others older.        *)
LEMMA LatestMoved ==
    ASSUME NEW arr \in [Ages -> Nat], NEW d \in Nat, NEW e \in Nat, NEW x \in Ages
    PROVE  SumOver(Moved(arr, d, e), Upto(x)) = SumOver(arr, Upto(x - d)) + e
<1> DEFINE S == Upto(x)
           T == Upto(x - d)
           c == -d
           h == Moved(arr, d, e)
<1>1. IsFiniteSet(S) /\ S \subseteq Int /\ T \subseteq Int /\ c \in Int /\ e \in Int
  <2>1. IsFiniteSet(S)
    BY AgesFinite
  <2>2. S \subseteq Int /\ T \subseteq Int
    BY DEF Upto, Ages
  <2> QED
    BY <2>1, <2>2
<1>2. x \in Int /\ x < Horizon /\ x >= 0 /\ Horizon \in Nat
  BY AgesFinite DEF Ages
<1>3. ASSUME NEW z \in T PROVE z - c \in S
  BY <1>2 DEF Upto, Ages
<1>4. \A z \in T : arr[z] \in Int
  BY DEF Upto
<1>5. 0 \in S
  BY <1>2 DEF Upto, Ages
<1>6. ASSUME NEW a \in S
      PROVE  h[a] = (IF a + c \in T THEN arr[a + c] ELSE 0) + (IF a = 0 THEN e ELSE 0)
  <2>1. a \in Int /\ a >= 0 /\ a <= x /\ a < Horizon /\ a \in Ages
    BY <1>2 DEF Upto, Ages
  <2>2. a + c = a - d /\ (a + c \in T <=> a >= d)
    BY <1>2, <2>1 DEF Upto, Ages
  <2>3. a >= d => arr[a - d] \in Nat
    BY <1>4, <2>2 DEF Upto
  <2>4. h[a] = IF a = 0 THEN e + (IF d = 0 THEN arr[0] ELSE 0)
               ELSE IF a >= d THEN arr[a - d] ELSE 0
    BY <2>1 DEF Moved
  <2> HIDE DEF S, T, c, h
  <2> QED
    BY <2>1, <2>2, <2>3, <2>4
<1> HIDE DEF S, T, c, h
<1>7. SumOver(h, S) = SumOver(arr, T) + e
  <2>1. MovedBy(h, S, arr, T, c, 0, e)
    BY <1>1, <1>3, <1>4, <1>5, <1>6 DEF MovedBy
  <2> QED
    BY <2>1, SumMoved
<1> QED
  BY <1>7 DEF S, T, h

(* An update brings its events into the newest bin and moves the others.   *)
LEMMA NewestMoved ==
    ASSUME NEW w, WindowOK(w), NEW e \in Nat, NEW j \in 1..w.size
    PROVE  Newest(Updated(w, e), j) = Newest(w, j - Shift(w)) + e
<1> DEFINE n == w.size
           k == Shift(w)
           S == (n - j + 1)..n
           T == (n - (j - k) + 1)..n
           f == InOrder(w)
           h == InOrder(Updated(w, e))
<1>1. n \in Nat \ {0} /\ k \in Nat /\ f \in [1..n -> Nat] /\ Updated(w, e).size = n
  BY WindowFacts, TotalInOrder, UpdatedOK DEF WindowOK
<1>2. IsFiniteSet(S) /\ S \subseteq Int /\ T \subseteq Int /\ e \in Int /\ n \in S
  <2>1. n - j + 1 \in Int
    BY <1>1
  <2>2. IsFiniteSet(S)
    <3> DEFINE lo == n - j + 1
    <3> HIDE DEF lo, n
    <3> QED
      BY <1>1, <2>1, FS_Interval DEF lo
  <2> QED
    BY <1>1, <2>2
<1>3. \A z \in T : z - k \in S
  BY <1>1
<1>4. \A z \in T : f[z] \in Int
  BY <1>1
<1>5. h = [i \in 1..n |-> (IF i + k <= n THEN f[i + k] ELSE 0) + (IF i = n THEN e ELSE 0)]
  BY UpdatedInOrder
<1>6. \A i \in S : i \in 1..n /\ (i + k <= n <=> i + k \in T)
  BY <1>1
<1> HIDE DEF n, k, f, h
<1>7. \A i \in S : h[i] = (IF i + k \in T THEN f[i + k] ELSE 0) + (IF i = n THEN e ELSE 0)
  BY <1>5, <1>6
<1> HIDE DEF S, T
<1>8. SumOver(h, S) = SumOver(f, T) + e
  <2>1. MovedBy(h, S, f, T, k, n, e)
    BY <1>1, <1>2, <1>3, <1>4, <1>7 DEF MovedBy
  <2> QED
    BY <2>1, SumMoved
<1> QED
  BY <1>1, <1>8 DEF Newest, S, T, f, h, n, k

-----------------------------------------------------------------------------
(* The inductive invariant.  At the last update the leading edge was e     *)
(* ticks old, less than a second, and for each j the j newest bins held    *)
(* all the events of the last j - 1 seconds, and none older than twice     *)
(* that, both counted from the leading edge.                               *)

ArrivalsOK ==
    /\ arrivals \in [Ages -> Nat]
    /\ Count(Ages) <= MaxEvents
    /\ idle \in 0..Horizon

EdgeAged(e) ==
    LET length == window.size * Second IN
    window.edge_age = IF e + idle < length THEN e + idle ELSE length

BinsHold(e) ==
    \A j \in 1..window.size :
       /\ Count(Upto((j - 1) * Second + e)) <= Newest(window, j)
       /\ Newest(window, j) <= Count(Upto(2 * (j - 1) * Second + e))

EdgeOK == \E e \in 0..(Second - 1) : EdgeAged(e) /\ BinsHold(e)

SlidingInv == WindowOK(window) /\ window.size \in Sizes /\ ArrivalsOK /\ EdgeOK

(* A count of later events is no more than one that goes further back.     *)
LEMMA CountGrows ==
    ASSUME arrivals \in [Ages -> Nat], NEW x \in Int, NEW y \in Int, x <= y
    PROVE  Count(Upto(x)) <= Count(Upto(y)) /\ Count(Upto(x)) \in Nat
<1>1. Upto(x) \subseteq Upto(y) /\ Upto(x) \subseteq Ages /\ Upto(y) \subseteq Ages
  BY AgesFinite DEF Upto, Ages
<1>2. IsFiniteSet(Upto(x)) /\ IsFiniteSet(Upto(y))
  BY AgesFinite
<1>3. \A a \in Upto(y) : arrivals[a] \in Nat
  BY <1>1
<1>4. \A a \in Upto(x) : arrivals[a] \in Nat
  BY <1>1
<1> QED
  BY <1>1, <1>2, <1>3, <1>4, SumPart, SumNat DEF Count

(* Multiples of a second.                                                  *)
LEMMA Multiples ==
    \A s \in Nat \ {0} : \A a, b \in Int :
       /\ a <= b => a * s <= b * s
       /\ (a + b) * s = a * s + b * s
       /\ (a - b) * s = a * s - b * s
       /\ 2 * a * s = a * s + a * s
       /\ a * s \in Int
OBVIOUS

(* Whole seconds, as the division of the code truncates them.              *)
LEMMA Seconds ==
    ASSUME NEW s \in Nat \ {0}, NEW a \in Nat
    PROVE  (a \div s) * s <= a /\ a < (a \div s) * s + s
<1>1. a = s * (a \div s) + (a % s) /\ a % s \in 0..(s - 1)
  OBVIOUS
<1>2. a \div s \in Nat
  OBVIOUS
<1> DEFINE q == a \div s
<1> HIDE DEF q
<1>3. s * q = q * s
  BY <1>2 DEF q
<1> QED
  BY <1>1, <1>2, <1>3 DEF q

(* An update of a window of n slots, d ticks after the one before, at which *)
(* the leading edge was e ticks old: k slots move, the edge is e1 old now. *)
EdgeMoves(s, n, m, e, d, age, k, e1) ==
    /\ s \in Nat \ {0} /\ n \in Nat \ {0} /\ m \in Nat /\ n <= m
    /\ e \in 0..(s - 1) /\ d \in Nat
    /\ age = IF e + d < n * s THEN e + d ELSE n * s
    /\ k \in 0..n /\ k = age \div s
    /\ e1 = IF k = 0 THEN e + d ELSE 0

(* What the shift says about the time that has passed.                     *)
LEMMA EdgeMoved ==
    ASSUME NEW s, NEW n, NEW m, NEW e, NEW d, NEW age, NEW k, NEW e1,
           EdgeMoves(s, n, m, e, d, age, k, e1), NEW j \in 1..n
    PROVE  /\ k = 0 => age = e + d
           /\ e1 \in 0..(s - 1) /\ e1 < n * s
           /\ (j - 1) * s + e1 \in 0..(2 * m * s - 1)
           /\ 2 * (j - 1) * s + e1 \in 0..(2 * m * s - 1)
           /\ j <= k => (j - 1) * s + e1 - d < 0
           /\ j > k => /\ (j - 1) * s + e1 - d <= ((j - k) - 1) * s + e
                       /\ 2 * ((j - k) - 1) * s + e <= 2 * (j - 1) * s + e1 - d
<1> USE DEF EdgeMoves
<1> DEFINE J == j * s
           K == k * s
           N == n * s
           M == m * s
<1>1. J \in Int /\ K \in Int /\ N \in Int /\ M \in Int
  BY Multiples
<1>2. /\ s <= J /\ J <= N /\ N <= M /\ 0 <= K /\ K <= N
      /\ k >= 1 => s <= K
      /\ k < n => K + s <= N
      /\ j <= k => J <= K
  <2>1. \A a, b \in Int : a <= b => a * s <= b * s
    BY Multiples
  <2>2. 1 * s = s /\ 0 * s = 0
    OBVIOUS
  <2>3. (k + 1) * s = K + s
    BY <2>2, Multiples
  <2> HIDE DEF J, K, N, M
  <2>4. s <= J /\ J <= N /\ N <= M /\ 0 <= K /\ K <= N
    BY <2>1, <2>2 DEF J, K, N, M
  <2>5. k >= 1 => s <= K
    BY <2>1, <2>2 DEF K
  <2>6. k < n => K + s <= N
    BY <2>1, <2>3 DEF N
  <2>7. j <= k => J <= K
    BY <2>1 DEF J, K
  <2> QED
    BY <2>4, <2>5, <2>6, <2>7
<1>3. /\ (j - 1) * s = J - s
      /\ 2 * (j - 1) * s = J - s + (J - s)
      /\ ((j - k) - 1) * s = J - K - s
      /\ 2 * ((j - k) - 1) * s = J - K - s + (J - K - s)
      /\ 2 * m * s = M + M
  <2>1. \A a, b \in Int : (a - b) * s = a * s - b * s /\ 2 * a * s = a * s + a * s
    BY Multiples
  <2>2. 1 * s = s
    OBVIOUS
  <2>3. (j - 1) * s = J - s /\ ((j - k) - 1) * s = J - K - s
    BY <2>1, <2>2
  <2>4. 2 * (j - 1) * s = J - s + (J - s)
    BY <2>1, <2>3
  <2>5. 2 * ((j - k) - 1) * s = J - K - s + (J - K - s)
    BY <2>1, <2>3
  <2> QED
    BY <2>1, <2>3, <2>4, <2>5
<1>4. age \in Nat /\ K <= age /\ age < K + s
  <2>1. age \in Nat
    BY <1>1, <1>2
  <2> QED
    BY <2>1, Seconds
<1>5. age = IF e + d < N THEN e + d ELSE N
  OBVIOUS
<1> HIDE DEF J, K, N, M
<1>6. k < n => age = e + d
  BY <1>1, <1>2, <1>4, <1>5
<1>7. K <= e + d
  BY <1>1, <1>2, <1>4, <1>5
<1>8. K = 0 \/ k >= 1
  BY DEF K
<1>9. /\ e1 \in 0..(s - 1) /\ e1 < N
      /\ J - s + e1 \in 0..(M + M - 1)
      /\ J - s + (J - s) + e1 \in 0..(M + M - 1)
  BY <1>1, <1>2, <1>4, <1>6, <1>8 DEF K
<1>10. j <= k => J - s + e1 - d < 0
  BY <1>1, <1>2, <1>7
<1>11. j > k => /\ J - s + e1 - d <= J - K - s + e
                /\ J - K - s + (J - K - s) + e <= J - s + (J - s) + e1 - d
  BY <1>1, <1>2, <1>4, <1>6, <1>7, <1>8
<1>12. e1 < n * s
  BY <1>9 DEF N
<1> HIDE DEF N
<1> QED
  BY <1>3, <1>6, <1>9, <1>10, <1>11, <1>12
-----------------------------------------------------------------------------
(* Each step keeps the invariant.                                          *)

(* Sums of no bins and of no events.                                       *)
LEMMA NothingCounted ==
    /\ \A w, j : WindowOK(w) /\ j \in Int /\ j <= 0 => Newest(w, j) = 0
    /\ \A arr, x : x \in Int /\ x < 0 => SumOver(arr, Upto(x)) = 0
<1>1. \A f : SumOver(f, {}) = 0
  BY FS_EmptySet, SumRecursion
<1>2. ASSUME NEW w, WindowOK(w), NEW j \in Int, j <= 0 PROVE Newest(w, j) = 0
  <2>1. (w.size - j + 1)..w.size = {}
    BY <1>2 DEF WindowOK
  <2> QED
    BY <1>1, <2>1 DEF Newest
<1>3. ASSUME NEW arr, NEW x \in Int, x < 0 PROVE SumOver(arr, Upto(x)) = 0
  <2>1. Upto(x) = {}
    BY <1>3 DEF Upto, Ages
  <2> QED
    BY <1>1, <2>1
<1> QED
  BY <1>2, <1>3

NoArrivals == [a \in Ages |-> 0]

(* In a new window and without events all sums are zero.                   *)
LEMMA NewEmpty ==
    ASSUME NEW n \in LegalSizes
    PROVE  /\ n \in Sizes /\ WindowOK(NewWindow(n))
           /\ NewWindow(n).size = n /\ NewWindow(n).edge_age = 0
           /\ \A x : SumOver(NoArrivals, Upto(x)) = 0
           /\ SumOver(NoArrivals, Ages) = 0
           /\ \A j \in 1..n : Newest(NewWindow(n), j) = 0
           /\ 0 \in 0..(Second - 1) /\ 0 + 0 < n * Second
<1> DEFINE w == NewWindow(n)
<1>1. n \in Nat \ {0} /\ n \in Sizes /\ LegalSize(n)
  BY SlidingAssumption, WindowAssumption DEF LegalSizes, LegalSize
<1>2. WindowOK(w) /\ w.size = n /\ w.edge_age = 0
  BY <1>1, NewWindowOK DEF NewWindow
<1>3. \A x : SumOver(NoArrivals, Upto(x)) = 0 /\ SumOver(NoArrivals, Ages) = 0
  <2>1. \A x : IsFiniteSet(Upto(x)) /\ Upto(x) \subseteq Ages
    BY AgesFinite DEF Upto
  <2>2. IsFiniteSet(Ages)
    BY AgesFinite, SlotsFinite DEF Ages
  <2>3. \A a \in Ages : NoArrivals[a] = 0
    BY DEF NoArrivals
  <2> QED
    BY <2>1, <2>2, <2>3, SumZero
<1>4. ASSUME NEW j \in 1..n PROVE Newest(w, j) = 0
  <2> DEFINE lo == n - j + 1
             f == InOrder(w)
  <2>1. f = [i \in 1..n |-> 0] /\ lo \in 1..n
    BY <1>1, NewInOrder
  <2>2. \A i \in lo..n : f[i] = 0
    BY <1>1, <2>1
  <2>3. IsFiniteSet(lo..n)
    <3> HIDE DEF lo
    <3> QED
      BY <1>1, <2>1, FS_Interval
  <2> HIDE DEF f, lo
  <2>4. SumOver(f, lo..n) = 0
    BY <2>2, <2>3, SumZero
  <2> QED
    BY <1>2, <2>4 DEF Newest, f, lo
<1>5. 0 \in 0..(Second - 1) /\ 0 + 0 < n * Second
  BY <1>1, WindowAssumption, Multiples
<1> QED
  BY <1>1, <1>2, <1>3, <1>4, <1>5

(* The constructor, ...                                                    *)
LEMMA InitSliding == Init => SlidingInv
<1> SUFFICES ASSUME Init PROVE SlidingInv
  OBVIOUS
<1>1. PICK n \in LegalSizes : window = NewWindow(n)
  BY DEF Init
<1>2. arrivals = NoArrivals /\ idle = 0
  BY DEF Init, NoArrivals
<1>3. ArrivalsOK
  BY <1>2, NewEmpty, AgesFinite, SlidingAssumption DEF ArrivalsOK, Count, NoArrivals
<1>4. EdgeAged(0) /\ BinsHold(0)
  BY <1>1, <1>2, NewEmpty DEF EdgeAged, BinsHold, Count
<1> QED
  BY <1>1, <1>3, <1>4, NewEmpty DEF SlidingInv, EdgeOK

(* ... and what resize_window makes of a window.                           *)
LEMMA EmptyOK ==
    ASSUME NEW n \in LegalSizes, window' = NewWindow(n), arrivals' = NoArrivals, idle' = 0
    PROVE  SlidingInv'
<1>1. ArrivalsOK'
  BY NewEmpty, AgesFinite, SlidingAssumption DEF ArrivalsOK, Count, NoArrivals
<1>2. EdgeAged(0)' /\ BinsHold(0)'
  BY NewEmpty DEF EdgeAged, BinsHold, Count
<1> QED
  BY <1>1, <1>2, NewEmpty DEF SlidingInv, EdgeOK

(* A step that changes nothing.                                            *)
LEMMA SameSliding == SlidingInv /\ UNCHANGED vars => SlidingInv'
BY DEF SlidingInv, ArrivalsOK, EdgeOK, EdgeAged, BinsHold, Count, vars

(* resize_window empties the window, or refuses.                           *)
LEMMA ResizeOK ==
    ASSUME SlidingInv, NEW n \in Sizes, Resize(n)
    PROVE  SlidingInv'
<1>1. CASE LegalSize(n)
  <2>1. n \in LegalSizes /\ window' = NewWindow(n)
    BY <1>1 DEF LegalSizes, Resize, Resized
  <2> QED
    BY <1>1, <2>1, EmptyOK DEF Resize, NoArrivals
<1>2. CASE ~LegalSize(n)
  <2>1. UNCHANGED vars
    BY <1>2 DEF Resize, Resized, vars
  <2> QED
    BY <2>1, SameSliding
<1> QED
  BY <1>1, <1>2

(* The clock: the leading edge and the time since the update age together  *)
(* until both have stopped.                                                *)
LEMMA TickOK ==
    ASSUME SlidingInv, Tick
    PROVE  SlidingInv'
<1> DEFINE n == window.size
           length == n * Second
<1>1. /\ WindowOK(window) /\ n \in Nat \ {0} /\ n <= MAX_WINDOW_SIZE
      /\ window.edge_age \in Nat
  BY DEF SlidingInv, WindowOK, LegalSize
<1>2. /\ WindowOK(window') /\ window'.size = n
      /\ window'.edge_age = IF window.edge_age < length THEN window.edge_age + 1
                                                        ELSE window.edge_age
      /\ InOrder(window') = InOrder(window)
  BY <1>1, TickedOK DEF Tick, Ticked, WindowOK, WindowShape, InOrder
<1>3. ArrivalsOK'
  BY AgesFinite DEF Tick, ArrivalsOK, SlidingInv, Count
<1>4. PICK e \in 0..(Second - 1) : EdgeAged(e) /\ BinsHold(e)
  BY DEF SlidingInv, EdgeOK
<1>5. length \in Nat /\ length <= Horizon
  <2>1. n * Second <= MAX_WINDOW_SIZE * Second /\ n * Second \in Int /\ n * Second >= 0
    BY <1>1, WindowAssumption, Multiples
  <2>2. Horizon = MAX_WINDOW_SIZE * Second + MAX_WINDOW_SIZE * Second
    BY WindowAssumption, Multiples DEF Horizon
  <2>3. MAX_WINDOW_SIZE * Second \in Nat
    BY WindowAssumption
  <2> QED
    BY <2>1, <2>2, <2>3
<1>6. EdgeAged(e)'
  <2>1. window.edge_age = IF e + idle < length THEN e + idle ELSE length
    BY <1>4 DEF EdgeAged
  <2>2. idle' = (IF idle < Horizon THEN idle + 1 ELSE idle) /\ idle \in Nat
    BY DEF Tick, SlidingInv, ArrivalsOK
  <2>3. Horizon \in Nat
    BY AgesFinite
  <2> HIDE DEF length
  <2>4. window'.edge_age = IF e + idle' < length THEN e + idle' ELSE length
    BY <1>2, <1>5, <2>1, <2>2, <2>3
  <2> QED
    BY <1>2, <2>4 DEF EdgeAged, length
<1>7. BinsHold(e)'
  BY <1>2, <1>4 DEF BinsHold, Newest, Tick, Count
<1> QED
  BY <1>2, <1>3, <1>4, <1>6, <1>7 DEF SlidingInv, EdgeOK

(* update_window: for each j, the j newest bins are the new one and those  *)
(* that were the j - k newest before, the events of the last j - 1 seconds *)
(* the new ones and those no older before; and the fraction of a second    *)
(* that the edge forgets is less than a second for each that it counts.    *)
LEMMA UpdateOK ==
    ASSUME SlidingInv, NEW ev \in Events, Update(ev)
    PROVE  SlidingInv'
<1> DEFINE n == window.size
           k == Shift(window)
           d == idle
           age == window.edge_age
<1>1. /\ WindowOK(window) /\ n \in Nat \ {0} /\ n <= MAX_WINDOW_SIZE /\ n \in Sizes
      /\ k \in 0..n /\ k = age \div Second /\ d \in Nat /\ ev \in Nat
      /\ Second \in Nat \ {0} /\ MAX_WINDOW_SIZE \in Nat
      /\ arrivals \in [Ages -> Nat] /\ Horizon = 2 * MAX_WINDOW_SIZE * Second
  BY WindowFacts, SlidingAssumption, WindowAssumption
     DEF SlidingInv, WindowOK, LegalSize, ArrivalsOK, Shift, Horizon
<1>2. PICK e \in 0..(Second - 1) : EdgeAged(e) /\ BinsHold(e)
  BY DEF SlidingInv, EdgeOK
<1>3. age = IF e + d < n * Second THEN e + d ELSE n * Second
  BY <1>2 DEF EdgeAged
<1>4. /\ window' = Updated(window, ev) /\ WindowOK(window') /\ window'.size = n
      /\ arrivals' = Moved(arrivals, d, ev) /\ idle' = 0
  BY <1>1, UpdatedOK DEF Update, Moved
<1>5. window'.edge_age = IF k = 0 THEN age ELSE 0
  <2>1. CASE k >= n
    BY <1>1, <1>4, <2>1 DEF Updated, NewWindow
  <2>2. CASE ~(k >= n)
    <3>1. window'.edge_age = EdgeAge(window)
      BY <1>1, <1>4, <2>2 DEF Updated, WindowOK, WindowShape
    <3> QED
      BY <1>1, <3>1 DEF EdgeAge
  <2> QED
    BY <2>1, <2>2
<1>0. PICK e1 : e1 = IF k = 0 THEN e + d ELSE 0
  OBVIOUS
<1> DEFINE low(j) == (j - 1) * Second + e1
           high(j) == 2 * (j - 1) * Second + e1
<1>6. ASSUME NEW j \in 1..n
      PROVE  /\ k = 0 => age = e + d
             /\ e1 \in 0..(Second - 1) /\ e1 < n * Second
             /\ low(j) \in Ages /\ high(j) \in Ages
             /\ j <= k => low(j) - d < 0
             /\ j > k => /\ low(j) - d <= ((j - k) - 1) * Second + e
                         /\ 2 * ((j - k) - 1) * Second + e <= high(j) - d
  <2>1. Ages = 0..(2 * MAX_WINDOW_SIZE * Second - 1)
    BY <1>1 DEF Ages
  <2>2. EdgeMoves(Second, n, MAX_WINDOW_SIZE, e, d, age, k, e1)
    BY <1>0, <1>1, <1>3 DEF EdgeMoves
  <2>3. j \in 1..n
    OBVIOUS
  <2> HIDE DEF n, k, d, age
  <2>4. /\ k = 0 => age = e + d
        /\ e1 \in 0..(Second - 1) /\ e1 < n * Second
        /\ (j - 1) * Second + e1 \in 0..(2 * MAX_WINDOW_SIZE * Second - 1)
        /\ 2 * (j - 1) * Second + e1 \in 0..(2 * MAX_WINDOW_SIZE * Second - 1)
        /\ j <= k => (j - 1) * Second + e1 - d < 0
        /\ j > k => /\ (j - 1) * Second + e1 - d <= ((j - k) - 1) * Second + e
                    /\ 2 * ((j - k) - 1) * Second + e <= 2 * (j - 1) * Second + e1 - d
    BY ONLY <2>2, <2>3, EdgeMoved
  <2> QED
    <3>1. low(j) \in Ages
      BY ONLY <2>1, <2>4
    <3>2. high(j) \in Ages
      BY ONLY <2>1, <2>4
    <3>3. j <= k => low(j) - d < 0
      BY <1>1, <2>3, <2>4 DEF n, k, d
    <3>4. j > k => low(j) - d <= ((j - k) - 1) * Second + e
      BY <1>1, <2>3, <2>4 DEF n, k, d
    <3>5. j > k => 2 * ((j - k) - 1) * Second + e <= high(j) - d
      BY <1>1, <2>3, <2>4 DEF n, k, d
    <3> HIDE DEF low, high
    <3> QED
      BY ONLY <2>4, <3>1, <3>2, <3>3, <3>4, <3>5
<1>7. ArrivalsOK'
  <2>1. arrivals' \in [Ages -> Nat]
    <3>1. \A a \in Ages : a \in Nat /\ (a >= d => a - d \in Ages) /\ (0 \in Ages => arrivals[0] \in Nat)
      BY <1>1, AgesFinite DEF Ages
    <3>2. \A a \in Ages : Moved(arrivals, d, ev)[a] \in Nat
      BY <1>1, <3>1 DEF Moved
    <3> QED
      BY <1>4, <3>2 DEF Moved
  <2>2. Count(Ages)' <= MaxEvents /\ idle' \in 0..Horizon
    BY <1>4, AgesFinite DEF Update
  <2> QED
    BY <2>1, <2>2 DEF ArrivalsOK
<1>8. n \in 1..n
  BY <1>1
<1>9. EdgeAged(e1)'
  BY <1>0, <1>4, <1>5, <1>6, <1>8 DEF EdgeAged
<1>10. ASSUME NEW j \in 1..n
       PROVE  /\ SumOver(arrivals', Upto(low(j))) <= Newest(window', j)
              /\ Newest(window', j) <= SumOver(arrivals', Upto(high(j)))
  <2> DEFINE L == SumOver(arrivals, Upto(low(j) - d))
             H == SumOver(arrivals, Upto(high(j) - d))
             B == Newest(window, j - k)
  <2>1. /\ SumOver(arrivals', Upto(low(j))) = L + ev
        /\ SumOver(arrivals', Upto(high(j))) = H + ev
    BY <1>1, <1>4, <1>6, LatestMoved
  <2>2. Newest(window', j) = B + ev
    BY <1>1, <1>4, NewestMoved
  <2>3. low(j) - d \in Int /\ high(j) - d \in Int
    <3>1. \A a \in Ages : a - d \in Int
      BY <1>1 DEF Ages
    <3> HIDE DEF low, high, d
    <3> QED
      BY <1>6, <3>1
  <2>4. H \in Nat /\ L \in Nat
    BY <1>1, <2>3, CountGrows DEF Count
  <2>5. L <= B /\ B <= H /\ B \in Int
    <3>1. CASE j <= k
      <4>1. B = 0
        BY <1>1, <3>1, NothingCounted
      <4>2. L = 0
        BY <1>6, <2>3, <3>1, NothingCounted
      <4> QED
        BY <2>4, <4>1, <4>2
    <3>2. CASE j > k
      <4> DEFINE i == j - k
                 a == (i - 1) * Second + e
                 b == 2 * (i - 1) * Second + e
      <4>1. i \in 1..n /\ a \in Int /\ b \in Int
        BY <1>1, <3>2
      <4>2. Count(Upto(a)) <= B /\ B <= Count(Upto(b))
        BY <1>2, <4>1 DEF BinsHold
      <4>3. low(j) - d <= a /\ b <= high(j) - d
        BY <1>6, <3>2
      <4>4. L <= Count(Upto(a)) /\ Count(Upto(b)) <= H /\ Count(Upto(a)) \in Nat
            /\ Count(Upto(b)) \in Nat
        <5> HIDE DEF a, b
        <5> QED
          BY <1>1, <2>3, <4>1, <4>3, CountGrows DEF Count
      <4>5. B \in Int
        <5> DEFINE S == (n - i + 1)..n
                   f == InOrder(window)
        <5>1. IsFiniteSet(S) /\ S \subseteq 1..n /\ f \in [1..n -> Nat]
          <6>1. n - i + 1 \in Int /\ n - i + 1 >= 1
            BY <1>1, <4>1
          <6>2. f \in [1..n -> Nat]
            BY <1>1, TotalInOrder
          <6>3. IsFiniteSet(S)
            <7> DEFINE lo == n - i + 1
            <7> HIDE DEF lo, n
            <7> QED
              BY <1>1, <6>1, FS_Interval DEF lo
          <6> QED
            BY <1>1, <6>1, <6>2, <6>3
        <5>2. \A x \in S : f[x] \in Int
          BY <5>1
        <5> HIDE DEF f, S
        <5>3. SumOver(f, S) \in Int
          BY <5>1, <5>2, SumInt
        <5> QED
          BY <5>3 DEF Newest, f, S
      <4> HIDE DEF L, H, B, a, b
      <4> QED
        BY <2>4, <4>2, <4>4, <4>5
    <3> QED
      BY <1>1, <3>1, <3>2
  <2> HIDE DEF L, H, B
  <2>6. L + ev <= B + ev /\ B + ev <= H + ev
    BY <1>1, <2>4, <2>5
  <2> QED
    BY <2>1, <2>2, <2>6
<1>11. BinsHold(e1)'
  BY <1>4, <1>10 DEF BinsHold, Count
<1>12. e1 \in 0..(Second - 1)
  BY <1>6, <1>8
<1> QED
  BY <1>1, <1>4, <1>7, <1>9, <1>11, <1>12 DEF SlidingInv, EdgeOK
(* Every step keeps the invariant.                                         *)
LEMMA SlidingStep == SlidingInv /\ [Next]_vars => SlidingInv'
<1> SUFFICES ASSUME SlidingInv, [Next]_vars PROVE SlidingInv'
  OBVIOUS
<1>1. CASE Clear
  BY <1>1, ResizeOK DEF Clear, SlidingInv
<1> QED
  BY <1>1, TickOK, UpdateOK, ResizeOK, SameSliding DEF Next

-----------------------------------------------------------------------------
(* What the invariant says of all n bins, which is what is checked.        *)
LEMMA WholeWindow ==
    ASSUME SlidingInv
    PROVE  /\ RecentCounted /\ OldDropped
           /\ window.net_events <= Count(Ages)
<1> DEFINE n == window.size
           f == InOrder(window)
<1>1. /\ WindowOK(window) /\ n \in Nat \ {0} /\ n \in 1..n
      /\ arrivals \in [Ages -> Nat] /\ Second \in Nat \ {0}
  BY WindowAssumption DEF SlidingInv, WindowOK, ArrivalsOK
<1>2. PICK e \in 0..(Second - 1) : BinsHold(e)
  BY DEF SlidingInv, EdgeOK
<1>3. window.net_events = Newest(window, n)
  <2>1. n - n + 1 = 1
    BY <1>1
  <2> QED
    BY <1>1, <2>1, TotalInOrder DEF Newest
<1> DEFINE a == (n - 1) * Second
           b == 2 * (n - 1) * Second
<1>4. /\ Count(Upto(a + e)) <= window.net_events
      /\ window.net_events <= Count(Upto(b + e))
  BY <1>1, <1>2, <1>3 DEF BinsHold
<1>5. a \in Int /\ b \in Int /\ (2 * n - 1) * Second = b + Second
  <2>1. /\ (n - 1) * Second = n * Second - 1 * Second
        /\ 2 * (n - 1) * Second = (n - 1) * Second + (n - 1) * Second
        /\ (2 * n - 1) * Second = 2 * n * Second - 1 * Second
        /\ 2 * n * Second = n * Second + n * Second
    BY <1>1, Multiples
  <2>2. n * Second \in Int /\ 1 * Second = Second
    BY <1>1
  <2> QED
    BY <1>1, <2>1, <2>2
<1> HIDE DEF a, b
<1>6. Count(Upto(a)) <= Count(Upto(a + e)) /\ Count(Upto(a)) \in Nat
      /\ Count(Upto(a + e)) \in Nat
  BY <1>1, <1>5, CountGrows
<1> DEFINE c == b + Second - 1
<1>7. Count(Upto(b + e)) <= Count(Upto(c)) /\ Count(Upto(b + e)) \in Nat
      /\ Count(Upto(c)) \in Nat
  BY <1>1, <1>5, CountGrows
<1>8. window.net_events \in Nat
  BY <1>1, WindowFacts
<1>9. {x \in Ages : x < (2 * n - 1) * Second} = Upto(c)
  BY <1>1, <1>5, AgesFinite DEF Upto, Ages
<1>10. RecentCounted
  BY <1>4, <1>6, <1>8 DEF RecentCounted, Upto, a
<1>11. OldDropped
  BY <1>4, <1>7, <1>8, <1>9 DEF OldDropped
<1>12. Count(Upto(c)) <= Count(Ages) /\ Count(Ages) \in Nat
  <2>1. IsFiniteSet(Ages) /\ Upto(c) \subseteq Ages
    BY AgesFinite, SlotsFinite DEF Upto, Ages
  <2> QED
    BY <1>1, <2>1, SumPart, SumNat DEF Count
<1>13. window.net_events <= Count(Ages)
  BY <1>4, <1>7, <1>8, <1>12
<1> QED
  BY <1>10, <1>11, <1>13

(* The inductive invariant holds in every behaviour of a window, whatever  *)
(* its length and the length of a second.                                  *)
THEOREM SlidingInvariant == Spec => []SlidingInv
<1>1. Init => SlidingInv
  BY InitSliding
<1>2. SlidingInv /\ [Next]_vars => SlidingInv'
  BY SlidingStep
<1> QED
  BY <1>1, <1>2, PTL DEF Spec

(* No event of the last n - 1 seconds is missing from net_events_          *)
(* (update_window).                                                        *)
THEOREM RecentCountedAlways == Spec => []RecentCounted
<1>1. SlidingInv => RecentCounted
  BY WholeWindow
<1> QED
  BY <1>1, SlidingInvariant, PTL

(* No event of 2n - 1 seconds ago or before is still in net_events_        *)
(* (update_window).                                                        *)
THEOREM OldDroppedAlways == Spec => []OldDropped
<1>1. SlidingInv => OldDropped
  BY WholeWindow
<1> QED
  BY <1>1, SlidingInvariant, PTL

(* The window keeps its type: head follows tail around the ring, and no    *)
(* slot counts more than the events there are.                             *)
THEOREM WindowTyping == Spec => []TypeOK
<1>1. ASSUME SlidingInv PROVE TypeOK
  <2>1. WindowOK(window) /\ window.size \in Sizes /\ ArrivalsOK
    BY <1>1 DEF SlidingInv
  <2>2. window.size \in LegalSizes
    BY <2>1 DEF WindowOK, LegalSizes
  <2>3. IsFiniteSet(Ages) /\ \A a \in Ages : arrivals[a] \in Nat
    BY <2>1, AgesFinite, SlotsFinite DEF ArrivalsOK, Ages
  <2>4. Count(Ages) \in Nat /\ \A a \in Ages : arrivals[a] <= Count(Ages)
    BY <2>3, SumNat, SumTerm DEF Count
  <2>5. window.net_events \in Nat /\ window.net_events <= Count(Ages)
    BY <1>1, <2>1, WholeWindow, WindowFacts
  <2>6. \A i \in Slots(window) : window.slot[i] <= window.net_events
    BY <2>1, WindowFacts
  <2>7. Count(Ages) <= MaxEvents
    BY <2>1 DEF ArrivalsOK
  <2>8. window.slot \in [0..(window.size - 1) -> 0..MaxEvents]
    <3>1. window.slot \in [Slots(window) -> Nat]
      BY <2>1 DEF WindowOK
    <3>2. \A i \in Slots(window) : window.slot[i] \in 0..MaxEvents
      BY <3>1, <2>4, <2>5, <2>6, <2>7, SlidingAssumption
    <3> QED
      BY <3>1, <3>2 DEF Slots
  <2>9. arrivals \in [Ages -> 0..MaxEvents]
    <3>1. \A a \in Ages : arrivals[a] \in 0..MaxEvents
      BY <2>3, <2>4, <2>7, SlidingAssumption
    <3> QED
      BY <2>1, <3>1 DEF ArrivalsOK
  <2> QED
    BY <2>1, <2>2, <2>8, <2>9 DEF TypeOK, WindowOK, Slots, ArrivalsOK
<1> QED
  BY <1>1, SlidingInvariant, PTL

-----------------------------------------------------------------------------
(* The ring is a shift register.                                           *)

(* The instance's counts and sums are those of this module.                *)
LEMMA SameOperators ==
    /\ \A S : Register!Cardinality(S) = Cardinality(S)
    /\ \A f, S : Register!SumOver(f, S) = SumOver(f, S)
<1>1. \A S : Register!Cardinality(S) = Cardinality(S)
  BY DEF Register!Cardinality, Cardinality
<1>2. \A f, S : Register!SumOver(f, S) = SumOver(f, S)
  BY DEF Register!SumOver, Register!MapThenSumSet, Register!MapThenFoldSet,
     SumOver, MapThenSumSet, MapThenFoldSet
<1> QED
  BY <1>1, <1>2

(* A new window is an empty register.                                      *)
LEMMA NewRegister ==
    ASSUME NEW n \in LegalSizes
    PROVE  InOrder(NewWindow(n)) = Register!Empty(n) /\ NewWindow(n).net_events = 0
<1>1. n \in Nat \ {0}
  BY SlidingAssumption, WindowAssumption DEF LegalSizes, LegalSize
<1> QED
  BY <1>1, NewInOrder DEF Register!Empty, NewWindow

(* Every step slides the register, resets it, or is none of it.            *)
LEMMA StepRegister ==
    SlidingInv /\ [Next]_vars /\ SlidingInv' =>
       Register!Next \/ UNCHANGED <<InOrder(window), window.net_events>>
<1> SUFFICES ASSUME SlidingInv, [Next]_vars, SlidingInv'
             PROVE  Register!Next \/ UNCHANGED <<InOrder(window), window.net_events>>
  OBVIOUS
<1> DEFINE n == window.size
           k == Shift(window)
<1>1. WindowOK(window) /\ WindowOK(window') /\ n \in Nat \ {0} /\ k \in 0..n
  BY WindowFacts DEF SlidingInv, WindowOK
<1>2. CASE Tick
  BY <1>1, <1>2 DEF Tick, Ticked, InOrder, WindowOK, WindowShape
<1>3. ASSUME NEW e \in Events, Update(e) PROVE Register!Next
  <2>1. window' = Updated(window, e) /\ window'.size = n /\ e \in Nat
    BY <1>1, <1>3, UpdatedOK, SlidingAssumption DEF Update
  <2>2. Cardinality(DOMAIN InOrder(window)) = n
    <3>1. DOMAIN InOrder(window) = 1..n
      BY DEF InOrder
    <3>2. Cardinality(1..n) = n
      <4> HIDE DEF n
      <4> QED
        BY <1>1, FS_Interval
    <3> QED
      BY <3>1, <3>2
  <2>3. InOrder(window') =
          [i \in 1..n |-> (IF i + k <= n THEN InOrder(window)[i + k] ELSE 0)
                          + (IF i = n THEN e ELSE 0)]
    BY <1>1, <2>1, UpdatedInOrder
  <2>4. window'.net_events = SumOver(InOrder(window'), 1..n)
    BY <1>1, <2>1, TotalInOrder
  <2>5. Register!Slide(k, e)
    <3> DEFINE bins == InOrder(window)
               next == InOrder(window')
    <3>1. /\ k \in 0..n
          /\ next = [i \in 1..n |-> (IF i + k <= n THEN bins[i + k] ELSE 0)
                                   + (IF i = n THEN e ELSE 0)]
          /\ window'.net_events = SumOver(next, 1..n)
      BY <1>1, <2>3, <2>4
    <3>2. InOrder(window)' = next
      OBVIOUS
    <3> HIDE DEF n, k, next
    <3> QED
      BY <2>2, <3>1, <3>2, SameOperators DEF Register!Slide
  <2> QED
    BY <1>1, <2>2, <2>5, SameOperators DEF Register!Next
<1>4. ASSUME NEW m \in Sizes, Resize(m)
      PROVE  Register!Next \/ UNCHANGED <<InOrder(window), window.net_events>>
  <2>1. CASE LegalSize(m)
    <3>1. m \in LegalSizes /\ window' = NewWindow(m)
      BY <1>4, <2>1 DEF LegalSizes, Resize, Resized
    <3>2. Register!Reset(m)
      BY <3>1, NewRegister DEF Register!Reset
    <3> QED
      BY <3>1, <3>2 DEF Register!Next
  <2>2. CASE ~LegalSize(m)
    BY <1>4, <2>2 DEF Resize, Resized
  <2> QED
    BY <2>1, <2>2
<1>5. CASE Clear
  BY <1>4, <1>5 DEF Clear, SlidingInv
<1>6. CASE UNCHANGED vars
  BY <1>6 DEF vars
<1> QED
  BY <1>2, <1>3, <1>4, <1>5, <1>6 DEF Next

(* However head_ and tail_ wrap, the window does what a shift register     *)
(* does: update_window moves its bins along by whole seconds, and          *)
(* net_events_, kept by differences, is their sum.                         *)
THEOREM WindowIsRegister == Spec => ImplementsRegister
<1>1. Init => Register!Init
  BY NewRegister DEF Init, Register!Init
<1>2. SlidingInv /\ [Next]_vars /\ SlidingInv' =>
        [Register!Next]_<<InOrder(window), window.net_events>>
  BY StepRegister
<1>3. SlidingInv /\ [Next]_vars => SlidingInv'
  BY SlidingStep
<1> QED
  BY <1>1, <1>2, SlidingInvariant, PTL DEF Spec, ImplementsRegister, Register!Spec
=============================================================================
