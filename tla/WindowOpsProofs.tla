--------------------------- MODULE WindowOpsProofs ---------------------------
(***************************************************************************)
(* Lemmas about sums over finite sets, and about the sliding window: its   *)
(* net_events stays the sum of its slots, whatever is done to it.          *)
(*                                                                         *)
(* MapThenSumSet is defined by a choice of function that recurs on the     *)
(* set.  What it computes is proved by minimal counterexample: if a        *)
(* statement failed for some subset of a finite set, it would fail for one *)
(* all of whose proper subsets satisfy it.                                 *)
(***************************************************************************)
EXTENDS WindowOps, FiniteSetTheorems, TLAPS

-----------------------------------------------------------------------------
(* Sums.                                                                   *)

(* The element a sum takes next.                                           *)
Pick(s) == CHOOSE x \in s : TRUE
SumsFrom(g, f, S) ==
    g = [s \in SUBSET S |-> IF s = {} THEN 0 ELSE f[Pick(s)] + g[s \ {Pick(s)}]]

(* SumOver without the community module: the function its fold chooses.    *)
LEMMA SumDef == \A f, S : SumOver(f, S) = (CHOOSE g : SumsFrom(g, f, S))[S]
BY DEF SumOver, MapThenSumSet, MapThenFoldSet, SumsFrom, Pick

(* A non-empty family of subsets of a finite set has a minimal member.     *)
LEMMA Minimal ==
    ASSUME NEW S, IsFiniteSet(S), NEW Bad, Bad \subseteq SUBSET S, Bad # {}
    PROVE  \E T \in Bad : \A U \in Bad : U \subseteq T => U = T
<1>1. IsWellFoundedOn(StrictSubsetOrdering(S), FiniteSubsetsOf(S))
  BY FS_StrictSubsetOrderingWellFounded
<1>2. Bad \subseteq FiniteSubsetsOf(S)
  BY FS_FiniteSubsetsOfFinite
<1>3. PICK T \in Bad : \A U \in Bad : <<U, T>> \notin StrictSubsetOrdering(S)
  BY <1>1, <1>2, WFMin
<1> QED
  BY <1>3 DEF StrictSubsetOrdering

(* The element the fold takes next is in the set.                          *)
LEMMA PickIn == \A s : s # {} => Pick(s) \in s
BY DEF Pick

(* The recursion has one solution on the subsets it is defined for ...     *)
LEMMA SumsAgree ==
    ASSUME NEW f, NEW g, NEW h, NEW S, NEW T, SumsFrom(g, f, S), SumsFrom(h, f, T),
           NEW R, R \subseteq S, R \subseteq T, IsFiniteSet(R)
    PROVE  g[R] = h[R]
<1> DEFINE Bad == {s \in SUBSET R : g[s] # h[s]}
<1> SUFFICES ASSUME Bad # {} PROVE FALSE
  OBVIOUS
<1>1. PICK s \in Bad : \A u \in Bad : u \subseteq s => u = s
  <2>1. Bad \subseteq SUBSET R
    OBVIOUS
  <2> HIDE DEF Bad
  <2> QED
    BY <2>1, Minimal
<1>2. /\ g[s] = IF s = {} THEN 0 ELSE f[Pick(s)] + g[s \ {Pick(s)}]
      /\ h[s] = IF s = {} THEN 0 ELSE f[Pick(s)] + h[s \ {Pick(s)}]
  BY DEF SumsFrom
<1>3. s # {} => g[s \ {Pick(s)}] = h[s \ {Pick(s)}]
  BY <1>1, PickIn
<1> QED
  BY <1>2, <1>3

(* ... and has one for every finite set.                                   *)
LEMMA SumsExist ==
    ASSUME NEW f, NEW S, IsFiniteSet(S)
    PROVE  \E g : SumsFrom(g, f, S)
<1> DEFINE Bad == {s \in SUBSET S : ~ \E g : SumsFrom(g, f, s)}
<1> SUFFICES ASSUME Bad # {} PROVE FALSE
  OBVIOUS
<1>1. PICK s \in Bad : \A u \in Bad : u \subseteq s => u = s
  <2>1. Bad \subseteq SUBSET S
    OBVIOUS
  <2> HIDE DEF Bad
  <2> QED
    BY <2>1, Minimal
<1> DEFINE G(u) == CHOOSE g : SumsFrom(g, f, u)
           g == [u \in SUBSET s |->
                   IF u = {} THEN 0 ELSE f[Pick(u)] + G(u \ {Pick(u)})[u \ {Pick(u)}]]
<1>2. \A u \in SUBSET s : u # s => SumsFrom(G(u), f, u)
  BY <1>1
<1>3. ASSUME NEW u \in SUBSET s, u # s PROVE g[u] = G(u)[u]
  <2>1. CASE u = {}
    <3>1. SumsFrom(G(u), f, u)
      BY <1>2, <1>3
    <3>2. G(u)[u] = 0
      BY <3>1, <2>1 DEF SumsFrom
    <3>3. g[u] = 0
      BY <2>1
    <3> QED
      BY <3>2, <3>3
  <2>2. CASE u # {}
    <3> DEFINE v == u \ {Pick(u)}
    <3>1. v \subseteq u /\ v \subseteq s /\ v # s /\ IsFiniteSet(v)
      BY <1>3, FS_Subset
    <3>2. SumsFrom(G(u), f, u) /\ SumsFrom(G(v), f, v)
      BY <1>2, <1>3, <3>1
    <3>3. G(u)[u] = f[Pick(u)] + G(u)[v]
      BY <3>2, <2>2 DEF SumsFrom
    <3>4. G(u)[v] = G(v)[v]
      BY <3>1, <3>2, SumsAgree
    <3>5. g[u] = f[Pick(u)] + G(v)[v]
      BY <2>2
    <3> QED
      BY <3>3, <3>4, <3>5
  <2> QED
    BY <2>1, <2>2
<1>4. \A u \in SUBSET s : u # {} => g[u] = f[Pick(u)] + g[u \ {Pick(u)}]
  <2> SUFFICES ASSUME NEW u \in SUBSET s, u # {}
               PROVE  g[u] = f[Pick(u)] + g[u \ {Pick(u)}]
    OBVIOUS
  <2>1. u \ {Pick(u)} \in SUBSET s /\ u \ {Pick(u)} # s
    BY PickIn
  <2> QED
    BY <2>1, <1>3
<1>5. SumsFrom(g, f, s)
  <2>1. g = [u \in SUBSET s |-> IF u = {} THEN 0 ELSE f[Pick(u)] + g[u \ {Pick(u)}]]
    <3> HIDE DEF G
    <3>1. g[{}] = 0 
      OBVIOUS
    <3> QED
      BY <3>1, <1>4
  <2> HIDE DEF g
  <2> QED
    BY <2>1 DEF SumsFrom
<1> QED
  BY <1>5

(* Hence a sum is the element taken next plus the sum of the others.       *)
LEMMA SumRecursion ==
    ASSUME NEW f, NEW S, IsFiniteSet(S)
    PROVE  SumOver(f, S) = IF S = {} THEN 0 ELSE f[Pick(S)] + SumOver(f, S \ {Pick(S)})
<1> DEFINE G(u) == CHOOSE g : SumsFrom(g, f, u)
           v == S \ {Pick(S)}
<1>1. IsFiniteSet(v)
  BY FS_Subset
<1>2. SumsFrom(G(S), f, S) /\ SumsFrom(G(v), f, v)
  BY <1>1, SumsExist
<1>3. G(S)[S] = IF S = {} THEN 0 ELSE f[Pick(S)] + G(S)[v]
  BY <1>2 DEF SumsFrom
<1>4. G(S)[v] = G(v)[v]
  BY <1>1, <1>2, SumsAgree
<1>5. SumOver(f, S) = G(S)[S] /\ SumOver(f, v) = G(v)[v]
  BY SumDef
<1> HIDE DEF G
<1> QED
  BY <1>3, <1>4, <1>5

(* A sum of integers is an integer.                                        *)
LEMMA SumInt ==
    ASSUME NEW f, NEW S, IsFiniteSet(S), \A x \in S : f[x] \in Int
    PROVE  SumOver(f, S) \in Int
<1> DEFINE Bad == {s \in SUBSET S : SumOver(f, s) \notin Int}
<1> SUFFICES ASSUME Bad # {} PROVE FALSE
  OBVIOUS
<1>1. PICK s \in Bad : \A u \in Bad : u \subseteq s => u = s
  <2>1. Bad \subseteq SUBSET S
    OBVIOUS
  <2> HIDE DEF Bad
  <2> QED
    BY <2>1, Minimal
<1>2. IsFiniteSet(s)
  BY FS_Subset
<1>3. s # {} => SumOver(f, s \ {Pick(s)}) \in Int
  BY <1>1, PickIn
<1> QED
  BY <1>2, <1>3, SumRecursion, PickIn

(* Any element may be taken first.                                         *)
LEMMA SumRemove ==
    ASSUME NEW f, NEW S, IsFiniteSet(S), \A x \in S : f[x] \in Int, NEW y \in S
    PROVE  SumOver(f, S) = f[y] + SumOver(f, S \ {y})
<1> DEFINE Bad == {s \in SUBSET S : \E x \in s : SumOver(f, s) # f[x] + SumOver(f, s \ {x})}
<1> SUFFICES ASSUME Bad # {} PROVE FALSE
  OBVIOUS
<1>1. PICK s \in Bad : \A u \in Bad : u \subseteq s => u = s
  <2>1. Bad \subseteq SUBSET S
    OBVIOUS
  <2> HIDE DEF Bad
  <2> QED
    BY <2>1, Minimal
<1>2. PICK x \in s : SumOver(f, s) # f[x] + SumOver(f, s \ {x})
  OBVIOUS
<1> DEFINE p == Pick(s)
           v == s \ {p}
           w == s \ {x}
<1>3. /\ IsFiniteSet(s) /\ IsFiniteSet(v) /\ IsFiniteSet(w) /\ IsFiniteSet(v \ {x})
  BY FS_Subset
<1>4. p \in s /\ SumOver(f, s) = f[p] + SumOver(f, v)
  BY <1>3, SumRecursion, PickIn
<1>5. p # x
  BY <1>2, <1>4
<1>6. SumOver(f, v) = f[x] + SumOver(f, v \ {x})
  <2>1. v \notin Bad
    BY <1>1, <1>4
  <2>2. x \in v
    BY <1>5
  <2> QED
    BY <2>1, <2>2
<1>7. SumOver(f, w) = f[p] + SumOver(f, w \ {p})
  <2>1. w \notin Bad
    BY <1>1
  <2>2. p \in w
    BY <1>5, <1>4
  <2> QED
    BY <2>1, <2>2
<1>8. w \ {p} = v \ {x}
  OBVIOUS
<1>9. SumOver(f, v \ {x}) \in Int /\ f[p] \in Int /\ f[x] \in Int
  BY <1>3, <1>4, SumInt
<1> DEFINE a == SumOver(f, s)
           b == SumOver(f, v)
           c == SumOver(f, w)
           d == SumOver(f, v \ {x})
<1>10. /\ a = f[p] + b /\ b = f[x] + d /\ c = f[p] + d /\ a # f[x] + c
       /\ d \in Int /\ f[p] \in Int /\ f[x] \in Int
  BY <1>2, <1>4, <1>6, <1>7, <1>8, <1>9
<1> HIDE DEF a, b, c, d, p
<1> QED
  BY <1>10
(* Functions that agree on a set have the same sum over it.                *)
LEMMA SumCong ==
    ASSUME NEW f, NEW g, NEW S, IsFiniteSet(S), \A x \in S : f[x] = g[x]
    PROVE  SumOver(f, S) = SumOver(g, S)
<1> DEFINE Bad == {s \in SUBSET S : SumOver(f, s) # SumOver(g, s)}
<1> SUFFICES ASSUME Bad # {} PROVE FALSE
  OBVIOUS
<1>1. PICK s \in Bad : \A u \in Bad : u \subseteq s => u = s
  <2>1. Bad \subseteq SUBSET S
    OBVIOUS
  <2> HIDE DEF Bad
  <2> QED
    BY <2>1, Minimal
<1>2. IsFiniteSet(s)
  BY FS_Subset
<1>3. s # {} => SumOver(f, s \ {Pick(s)}) = SumOver(g, s \ {Pick(s)})
  BY <1>1, PickIn
<1>4. SumOver(f, s) # SumOver(g, s)
  OBVIOUS
<1>5. s = {} => SumOver(f, s) = 0 /\ SumOver(g, s) = 0
  BY <1>2, SumRecursion
<1>6. s # {} => /\ SumOver(f, s) = f[Pick(s)] + SumOver(f, s \ {Pick(s)})
                /\ SumOver(g, s) = g[Pick(s)] + SumOver(g, s \ {Pick(s)})
  BY <1>2, SumRecursion
<1>7. s # {} => f[Pick(s)] = g[Pick(s)]
  BY PickIn
<1> QED
  BY <1>3, <1>4, <1>5, <1>6, <1>7

(* The sum of pointwise sums is the sum of the sums.                       *)
LEMMA SumPlus ==
    ASSUME NEW f, NEW g, NEW h, NEW S, IsFiniteSet(S),
           \A x \in S : f[x] \in Int /\ g[x] \in Int /\ h[x] = f[x] + g[x]
    PROVE  SumOver(h, S) = SumOver(f, S) + SumOver(g, S)
<1> DEFINE Bad == {s \in SUBSET S : SumOver(h, s) # SumOver(f, s) + SumOver(g, s)}
<1> SUFFICES ASSUME Bad # {} PROVE FALSE
  OBVIOUS
<1>1. PICK s \in Bad : \A u \in Bad : u \subseteq s => u = s
  <2>1. Bad \subseteq SUBSET S
    OBVIOUS
  <2> HIDE DEF Bad
  <2> QED
    BY <2>1, Minimal
<1> DEFINE p == Pick(s)
           v == s \ {p}
           F == SumOver(f, v)
           G == SumOver(g, v)
           H == SumOver(h, v)
<1>2. IsFiniteSet(s) /\ IsFiniteSet(v) /\ s \subseteq S
  BY FS_Subset
<1>3. s # {}
  <2>1. s = {} => SumOver(f, s) = 0 /\ SumOver(g, s) = 0 /\ SumOver(h, s) = 0
    BY <1>2, SumRecursion
  <2> QED
    BY <2>1
<1>4. p \in s
  BY <1>3, PickIn
<1>5. H = F + G
  BY <1>1, <1>4
<1>6. F \in Int /\ G \in Int
  BY <1>2, SumInt
<1>7. /\ SumOver(f, s) = f[p] + F
      /\ SumOver(g, s) = g[p] + G
      /\ SumOver(h, s) = h[p] + H
  BY <1>2, <1>3, SumRecursion
<1>8. f[p] \in Int /\ g[p] \in Int /\ h[p] = f[p] + g[p]
  BY <1>2, <1>4
<1>9. SumOver(h, s) # SumOver(f, s) + SumOver(g, s)
  OBVIOUS
<1> HIDE DEF p, F, G, H
<1> QED
  BY <1>5, <1>6, <1>7, <1>8, <1>9

(* A sum of zeros is zero, a sum of naturals a natural.                    *)
LEMMA SumZero ==
    ASSUME NEW f, NEW S, IsFiniteSet(S), \A x \in S : f[x] = 0
    PROVE  SumOver(f, S) = 0
<1>1. SumOver(f, S) \in Int
  BY SumInt
<1>2. SumOver(f, S) = SumOver(f, S) + SumOver(f, S)
  BY SumPlus
<1> DEFINE A == SumOver(f, S)
<1> HIDE DEF A
<1>3. A \in Int /\ A = A + A
  BY <1>1, <1>2 DEF A
<1>4. A = 0
  BY ONLY <1>3
<1> QED
  BY <1>4 DEF A

(* A sum of natural numbers is one.                                        *)
LEMMA SumNat ==
    ASSUME NEW f, NEW S, IsFiniteSet(S), \A x \in S : f[x] \in Nat
    PROVE  SumOver(f, S) \in Nat
<1> DEFINE Bad == {s \in SUBSET S : SumOver(f, s) \notin Nat}
<1> SUFFICES ASSUME Bad # {} PROVE FALSE
  OBVIOUS
<1>1. PICK s \in Bad : \A u \in Bad : u \subseteq s => u = s
  <2>1. Bad \subseteq SUBSET S
    OBVIOUS
  <2> HIDE DEF Bad
  <2> QED
    BY <2>1, Minimal
<1>2. IsFiniteSet(s)
  BY FS_Subset
<1>3. s # {} => SumOver(f, s \ {Pick(s)}) \in Nat
  BY <1>1, PickIn
<1> QED
  BY <1>2, <1>3, SumRecursion, PickIn

(* If two functions differ in one argument only, so do their sums.         *)
LEMMA SumChanged ==
    ASSUME NEW f, NEW g, NEW S, IsFiniteSet(S), NEW y \in S,
           \A x \in S : f[x] \in Int /\ g[x] \in Int,
           \A x \in S \ {y} : f[x] = g[x]
    PROVE  SumOver(g, S) = SumOver(f, S) + (g[y] - f[y])
<1> DEFINE F == SumOver(f, S \ {y})
           G == SumOver(g, S \ {y})
<1>1. IsFiniteSet(S \ {y})
  BY FS_Subset
<1>2. SumOver(f, S) = f[y] + F /\ SumOver(g, S) = g[y] + G
  BY SumRemove
<1>3. F = G /\ F \in Int
  BY <1>1, SumCong, SumInt
<1> HIDE DEF F, G
<1> QED
  BY <1>2, <1>3

(* Emptying some of the terms takes their sum away.                        *)
LEMMA SumEmptied ==
    ASSUME NEW f, NEW g, NEW S, IsFiniteSet(S), NEW T, T \subseteq S,
           \A x \in S : f[x] \in Int,
           \A x \in S : g[x] = IF x \in T THEN 0 ELSE f[x]
    PROVE  SumOver(g, S) = SumOver(f, S) - SumOver(f, T)
<1> DEFINE Good(s) == SumOver(g, s) = SumOver(f, s) - SumOver(f, s \cap T)
           Bad == {s \in SUBSET S : ~ Good(s)}
<1> SUFFICES ASSUME Bad # {} PROVE FALSE
  <2>1. S \cap T = T
    OBVIOUS
  <2> QED
    BY <2>1
<1>1. PICK s \in Bad : \A u \in Bad : u \subseteq s => u = s
  <2>1. Bad \subseteq SUBSET S
    OBVIOUS
  <2> HIDE DEF Bad
  <2> QED
    BY <2>1, Minimal
<1> DEFINE p == Pick(s)
           v == s \ {p}
           F == SumOver(f, v)
           G == SumOver(g, v)
           H == SumOver(f, v \cap T)
<1>2. IsFiniteSet(s) /\ IsFiniteSet(v) /\ IsFiniteSet(s \cap T)
      /\ IsFiniteSet(v \cap T) /\ s \subseteq S
  BY FS_Subset
<1>3. s # {}
  <2>1. s = {} => SumOver(f, s) = 0 /\ SumOver(g, s) = 0 /\ s \cap T = s
    BY <1>2, SumRecursion
  <2> QED
    BY <2>1
<1>4. p \in s
  BY <1>3, PickIn
<1>5. G = F - H
  BY <1>1, <1>4
<1>6. F \in Int /\ H \in Int /\ f[p] \in Int
  BY <1>2, <1>4, SumInt
<1>7. SumOver(f, s) = f[p] + F /\ SumOver(g, s) = g[p] + G
  BY <1>2, <1>3, SumRecursion
<1>8. CASE p \in T
  <2>1. (s \cap T) \ {p} = v \cap T
    OBVIOUS
  <2>2. SumOver(f, s \cap T) = f[p] + H
    BY <1>2, <1>4, <1>8, <2>1, SumRemove
  <2>3. g[p] = 0
    BY <1>2, <1>4, <1>8
  <2>4. SumOver(g, s) # SumOver(f, s) - SumOver(f, s \cap T)
    OBVIOUS
  <2> HIDE DEF p, F, G, H
  <2> QED
    BY <1>5, <1>6, <1>7, <2>2, <2>3, <2>4
<1>9. CASE p \notin T
  <2>1. s \cap T = v \cap T
    BY <1>9
  <2>2. SumOver(f, s \cap T) = H
    BY <2>1
  <2>3. g[p] = f[p]
    BY <1>2, <1>4, <1>9
  <2>4. SumOver(g, s) # SumOver(f, s) - SumOver(f, s \cap T)
    OBVIOUS
  <2> HIDE DEF p, F, G, H
  <2> QED
    BY <1>5, <1>6, <1>7, <2>2, <2>3, <2>4
<1> QED
  BY <1>8, <1>9

(* No term is more than the sum of which it is a part.                     *)
LEMMA SumTerm ==
    ASSUME NEW f, NEW S, IsFiniteSet(S), NEW y \in S, \A x \in S : f[x] \in Nat
    PROVE  f[y] <= SumOver(f, S)
<1> DEFINE F == SumOver(f, S \ {y})
<1>1. SumOver(f, S) = f[y] + F
  BY SumRemove
<1>2. F \in Nat
  BY FS_Subset, SumNat
<1> HIDE DEF F
<1> QED
  BY <1>1, <1>2

(* A sum is that of a part and that of the rest ...                        *)
LEMMA SumSplit ==
    ASSUME NEW f, NEW S, IsFiniteSet(S), NEW T, T \subseteq S, \A x \in S : f[x] \in Int
    PROVE  SumOver(f, S) = SumOver(f, T) + SumOver(f, S \ T)
<1> DEFINE R == S \ T
           g == [x \in S |-> IF x \in T THEN 0 ELSE f[x]]
           h == [x \in S |-> IF x \in R THEN 0 ELSE f[x]]
           A == SumOver(f, S)
           B == SumOver(f, T)
           C == SumOver(f, R)
<1>1. SumOver(g, S) = A - B
  BY SumEmptied
<1>2. SumOver(h, S) = A - C
  BY SumEmptied
<1>3. A = SumOver(g, S) + SumOver(h, S)
  <2>1. \A x \in S : g[x] \in Int /\ h[x] \in Int /\ f[x] = g[x] + h[x]
    OBVIOUS
  <2> HIDE DEF g, h
  <2> QED
    BY <2>1, SumPlus
<1>4. A \in Int /\ B \in Int /\ C \in Int
  <2>1. IsFiniteSet(T) /\ IsFiniteSet(R)
    BY FS_Subset
  <2> QED
    BY <2>1, SumInt
<1> HIDE DEF A, B, C, g, h
<1>5. A = B + C
  BY <1>1, <1>2, <1>3, <1>4
<1> QED
  BY <1>5 DEF A, B, C

(* ... so that a part of a sum of counters is no more than the whole ...   *)
LEMMA SumPart ==
    ASSUME NEW f, NEW S, IsFiniteSet(S), NEW T, T \subseteq S, \A x \in S : f[x] \in Nat
    PROVE  SumOver(f, T) <= SumOver(f, S)
<1> DEFINE A == SumOver(f, T)
           B == SumOver(f, S \ T)
<1>1. A \in Nat /\ B \in Nat
  BY FS_Subset, SumNat
<1>2. SumOver(f, S) = A + B
  BY SumSplit
<1> HIDE DEF A, B
<1>3. A <= A + B
  BY <1>1
<1> QED
  BY <1>2, <1>3 DEF A

(* ... and what is zero may be left out.                                   *)
LEMMA SumSupport ==
    ASSUME NEW f, NEW S, IsFiniteSet(S), NEW T, T \subseteq S, \A x \in S : f[x] \in Int,
           \A x \in S \ T : f[x] = 0
    PROVE  SumOver(f, S) = SumOver(f, T)
<1>1. SumOver(f, S) = SumOver(f, T) + SumOver(f, S \ T)
  BY SumSplit
<1>2. SumOver(f, S \ T) = 0
  BY FS_Subset, SumZero
<1>3. SumOver(f, T) \in Int
  BY FS_Subset, SumInt
<1> QED
  BY <1>1, <1>2, <1>3

(* The same values at other arguments have the same sum.                   *)
LEMMA SumReindexed ==
    ASSUME NEW f, NEW h, NEW g, NEW S, IsFiniteSet(S), NEW T,
           \A x \in S : g[x] \in T, \A z \in T : \E x \in S : g[x] = z,
           \A x, y \in S : g[x] = g[y] => x = y,
           \A x \in S : f[g[x]] \in Int /\ h[x] = f[g[x]]
    PROVE  SumOver(h, S) = SumOver(f, T)
<1> DEFINE Image(s) == {g[x] : x \in s}
           Bad == {s \in SUBSET S : SumOver(h, s) # SumOver(f, Image(s))}
<1>0. Image(S) = T
  OBVIOUS
<1> SUFFICES ASSUME Bad # {} PROVE FALSE
  BY <1>0
<1>1. PICK s \in Bad : \A u \in Bad : u \subseteq s => u = s
  <2>1. Bad \subseteq SUBSET S
    OBVIOUS
  <2> HIDE DEF Bad
  <2> QED
    BY <2>1, Minimal
<1>2. IsFiniteSet(s)
  BY FS_Subset
<1>3. s # {}
  <2> SUFFICES ASSUME s = {} PROVE FALSE
    OBVIOUS
  <2>1. Image(s) = {}
    OBVIOUS
  <2>2. SumOver(h, s) = SumOver(f, Image(s))
    BY <1>2, <2>1, SumRecursion
  <2> QED
    BY <2>2
<1>4. PICK x \in s : TRUE
  BY <1>3
<1> DEFINE r == s \ {x}
<1>5. SumOver(h, r) = SumOver(f, Image(r))
  BY <1>1
<1>6. SumOver(h, s) = h[x] + SumOver(h, r)
  BY <1>2, SumRemove
<1>7. SumOver(f, Image(s)) = f[g[x]] + SumOver(f, Image(s) \ {g[x]})
  <2>1. IsFiniteSet(Image(s))
    <3>1. [u \in s |-> g[u]] \in Surjection(s, Image(s))
      BY DEF Surjection
    <3> QED
      BY <1>2, <3>1, FS_Surjection
  <2>2. \A z \in Image(s) : f[z] \in Int
    OBVIOUS
  <2>3. g[x] \in Image(s)
    OBVIOUS
  <2> HIDE DEF Image
  <2> QED
    BY <2>1, <2>2, <2>3, SumRemove
<1>8. Image(s) \ {g[x]} = Image(r)
  OBVIOUS
<1> QED
  BY <1>5, <1>6, <1>7, <1>8

(* h is a row of counters f that moved by c and took e at y ...            *)
MovedBy(h, S, f, T, c, y, e) ==
    /\ IsFiniteSet(S) /\ S \subseteq Int /\ T \subseteq Int
    /\ c \in Int /\ y \in S /\ e \in Int
    /\ \A z \in T : z - c \in S /\ f[z] \in Int
    /\ \A x \in S : h[x] = (IF x + c \in T THEN f[x + c] ELSE 0)
                         + (IF x = y THEN e ELSE 0)

(* ... and has that much more in it.                                       *)
LEMMA SumMoved ==
    ASSUME NEW h, NEW S, NEW f, NEW T, NEW c, NEW y, NEW e, MovedBy(h, S, f, T, c, y, e)
    PROVE  SumOver(h, S) = SumOver(f, T) + e
<1> SUFFICES ASSUME IsFiniteSet(S), S \subseteq Int, T \subseteq Int,
                    c \in Int, y \in S, e \in Int,
                    \A z \in T : z - c \in S, \A z \in T : f[z] \in Int,
                    \A x \in S : h[x] = (IF x + c \in T THEN f[x + c] ELSE 0)
                                      + (IF x = y THEN e ELSE 0)
             PROVE  SumOver(h, S) = SumOver(f, T) + e
  BY DEF MovedBy
<1> DEFINE P == {x \in S : x + c \in T}
           moved == [x \in S |-> IF x + c \in T THEN f[x + c] ELSE 0]
           taken == [x \in S |-> IF x = y THEN e ELSE 0]
           to == [x \in S |-> x + c]
<1>0. IsFiniteSet(S)
  OBVIOUS
<1>1. SumOver(h, S) = SumOver(moved, S) + SumOver(taken, S)
  <2>1. \A x \in S : moved[x] \in Int /\ taken[x] \in Int /\ h[x] = moved[x] + taken[x]
    OBVIOUS
  <2> HIDE DEF moved, taken
  <2> QED
    BY ONLY <1>0, <2>1, SumPlus
<1>2. SumOver(taken, S) = e
  <2>1. \A x \in S : taken[x] \in Int
    OBVIOUS
  <2>2. \A x \in S \ {y} : taken[x] = 0
    OBVIOUS
  <2>3. taken[y] = e
    OBVIOUS
  <2> HIDE DEF taken
  <2>4. SumOver(taken, S) = taken[y] + SumOver(taken, S \ {y})
    BY ONLY <1>0, <2>1, SumRemove, y \in S
  <2>5. SumOver(taken, S \ {y}) = 0
    BY <2>2, FS_Subset, SumZero
  <2> QED
    BY <2>3, <2>4, <2>5
<1>3. SumOver(moved, S) = SumOver(moved, P)
  <2>1. \A x \in S : moved[x] \in Int
    OBVIOUS
  <2>2. \A x \in S \ P : moved[x] = 0
    OBVIOUS
  <2>3. P \subseteq S
    OBVIOUS
  <2> HIDE DEF moved, P
  <2> QED
    BY <2>1, <2>2, <2>3, SumSupport
<1>4. SumOver(moved, P) = SumOver(f, T)
  <2>1. \A x \in P : f[to[x]] \in Int /\ moved[x] = f[to[x]]
    OBVIOUS
  <2>2. \A x, u \in P : to[x] = to[u] => x = u
    OBVIOUS
  <2>3. ASSUME NEW z \in T PROVE \E x \in P : to[x] = z
    <3>1. z - c \in P /\ to[z - c] = z
      OBVIOUS
    <3> QED
      BY <3>1
  <2>5. \A x \in P : to[x] \in T
    OBVIOUS
  <2>4. IsFiniteSet(P)
    BY FS_Subset
  <2> HIDE DEF moved, P, to
  <2> QED
    BY ONLY <2>1, <2>2, <2>3, <2>4, <2>5, SumReindexed
<1> QED
  BY <1>1, <1>2, <1>3, <1>4

-----------------------------------------------------------------------------
(* The sliding window.                                                     *)

(* A window in a state update_window can leave it in: the indices lie in   *)
(* the buffer, the tail is the slot after the head, and net_events_ is the *)
(* sum of the slots.                                                       *)
Slots(w) == 0..(w.size - 1)
WindowShape(w) ==
    w = [size |-> w.size, slot |-> w.slot, head |-> w.head, tail |-> w.tail,
         net_events |-> w.net_events, edge_age |-> w.edge_age]
WindowOK(w) ==
    /\ WindowShape(w)
    /\ w.size \in Nat \ {0} /\ LegalSize(w.size)
    /\ w.slot \in [Slots(w) -> Nat]
    /\ w.tail \in Slots(w)
    /\ w.head = (w.tail + w.size - 1) % w.size
    /\ w.edge_age \in 0..(w.size * Second)
    /\ w.net_events = SumOver(w.slot, Slots(w))

(* The ring has finitely many slots.                                       *)
LEMMA SlotsFinite == \A n \in Int : IsFiniteSet(0..(n - 1))
<1> SUFFICES ASSUME NEW n \in Int PROVE IsFiniteSet(0..(n - 1))
  OBVIOUS
<1>1. n - 1 \in Int
  OBVIOUS
<1> QED
  BY <1>1, FS_Interval

(* Remainders of an index that wrapped around at most once.                *)
LEMMA ModIn == \A n \in Nat \ {0} : \A a \in Nat : a % n \in 0..(n - 1)
OBVIOUS

(* A position within the ring stays itself ...                             *)
LEMMA ModSmall == \A n \in Nat \ {0} : \A a \in 0..(n - 1) : a % n = a
OBVIOUS

(* ... one less than twice round the ring wraps at most once ...           *)
LEMMA ModOnce ==
    ASSUME NEW n \in Nat \ {0}, NEW a \in 0..(n + n - 1)
    PROVE  a % n = IF a < n THEN a ELSE a - n
<1>1. CASE a < n
  BY <1>1
<1>2. CASE a >= n
  BY <1>2
<1> QED
  BY <1>1, <1>2

(* ... so does the one before a slot ...                                   *)
LEMMA ModBefore ==
    ASSUME NEW n \in Nat \ {0}, NEW a \in 0..(n - 1)
    PROVE  (a + n - 1) % n = IF a = 0 THEN n - 1 ELSE a - 1
<1> DEFINE b == a + n - 1
<1>1. b \in 0..(n + n - 1) /\ (b < n <=> a = 0) /\ b - n = a - 1 
  OBVIOUS
<1>2. a = 0 => b = n - 1
  OBVIOUS
<1> HIDE DEF b
<1>3. b % n = IF b < n THEN b ELSE b - n
  BY <1>1, ModOnce
<1>4. b % n = IF a = 0 THEN n - 1 ELSE a - 1
  BY <1>1, <1>2, <1>3
<1> QED
  BY <1>4 DEF b

(* ... and one less than a turn ahead.                                     *)
LEMMA ModAhead ==
    ASSUME NEW n \in Nat \ {0}, NEW a \in 0..(n - 1), NEW k \in 0..(n - 1)
    PROVE  (a + k) % n = IF a + k < n THEN a + k ELSE a + k - n
<1> DEFINE b == a + k
<1>1. b \in 0..(n + n - 1)
  OBVIOUS
<1> HIDE DEF b
<1>2. b % n = IF b < n THEN b ELSE b - n
  BY <1>1, ModOnce
<1> QED
  BY <1>2 DEF b

(* Index and predecessor move together: the tail stays after the head.     *)
LEMMA Wraps ==
    ASSUME NEW n \in Nat \ {0}, NEW t \in 0..(n - 1), NEW k \in 0..(n - 1),
           NEW h, h = (t + n - 1) % n
    PROVE  (h + k) % n = (((t + k) % n) + n - 1) % n
<1> DEFINE u == (t + k) % n
           v == (h + k) % n
           y == (u + n - 1) % n
<1>1. h = IF t = 0 THEN n - 1 ELSE t - 1
  BY ModBefore
<1>2. u = IF t + k < n THEN t + k ELSE t + k - n
  BY ModAhead
<1>3. h \in 0..(n - 1)
  BY <1>1
<1>4. v = IF h + k < n THEN h + k ELSE h + k - n
  BY <1>3, ModAhead
<1>5. u \in 0..(n - 1)
  BY ModIn
<1> HIDE DEF u
<1>6. y = IF u = 0 THEN n - 1 ELSE u - 1
  BY <1>5, ModBefore
<1> HIDE DEF v, y
<1>7. v = y
  BY <1>1, <1>2, <1>4, <1>6
<1> QED
  BY <1>7 DEF u, v, y

(* What a sound window has: few slots, each within the sum, and a shift in *)
(* range.                                                                  *)
LEMMA WindowFacts ==
    ASSUME NEW w, WindowOK(w)
    PROVE  /\ IsFiniteSet(Slots(w))
           /\ w.net_events \in Nat
           /\ \A i \in Slots(w) : w.slot[i] <= w.net_events
           /\ w.head \in Slots(w)
           /\ Shift(w) \in 0..w.size
<1>1. IsFiniteSet(Slots(w))
  BY FS_Interval DEF WindowOK, Slots
<1>2. w.net_events \in Nat
  BY <1>1, SumNat DEF WindowOK
<1>3. ASSUME NEW i \in Slots(w) PROVE w.slot[i] <= w.net_events
  BY <1>1, SumTerm DEF WindowOK
<1>4. w.head \in Slots(w)
  BY DEF WindowOK, Slots
<1>5. Shift(w) \in 0..w.size
  BY WindowAssumption DEF WindowOK, Shift
<1> QED
  BY <1>1, <1>2, <1>3, <1>4, <1>5

(* The constructor makes a sound window, and an empty one.                 *)
LEMMA NewWindowOK ==
    ASSUME NEW n \in Int, LegalSize(n)
    PROVE  WindowOK(NewWindow(n)) /\ NewWindow(n).net_events = 0
<1> DEFINE w == NewWindow(n)
<1>1. n \in Nat \ {0} /\ n - 1 \in 0..(n - 1) /\ 0 \in 0..(n - 1)
  BY WindowAssumption DEF LegalSize
<1>2. /\ WindowShape(w) /\ w.size = n /\ Slots(w) = 0..(n - 1)
      /\ w.slot = [i \in 0..(n - 1) |-> 0] /\ w.net_events = 0
      /\ w.head = n - 1 /\ w.tail = 0 /\ w.edge_age = 0
  BY DEF WindowShape, NewWindow, Slots
<1>3. SumOver(w.slot, Slots(w)) = 0
  <2>1. IsFiniteSet(Slots(w))
    BY <1>1, <1>2, SlotsFinite
  <2>2. \A i \in Slots(w) : w.slot[i] = 0
    BY <1>2
  <2> QED
    BY <2>1, <2>2, SumZero
<1>4. (0 + n - 1) % n = n - 1
  BY <1>1
<1>5. 0 \in 0..(n * Second)
  BY <1>1, WindowAssumption
<1> HIDE DEF w
<1>6. WindowOK(w)
  BY <1>1, <1>2, <1>3, <1>4, <1>5 DEF WindowOK
<1> QED
  BY <1>2, <1>6 DEF w

(* resize_window empties it, or refuses and leaves it alone.               *)
LEMMA ResizedOK ==
    ASSUME NEW w, WindowOK(w), NEW n \in Int
    PROVE  /\ WindowOK(Resized(w, n))
           /\ LegalSize(n) => Resized(w, n).net_events = 0
           /\ ~LegalSize(n) => Resized(w, n) = w
BY NewWindowOK DEF Resized

(* The clock touches only the leading edge's age.                          *)
LEMMA TickedOK ==
    ASSUME NEW w, WindowOK(w)
    PROVE  WindowOK(Ticked(w)) /\ Ticked(w).net_events = w.net_events
<1> DEFINE v == Ticked(w)
<1>1. /\ WindowShape(v) /\ v.size = w.size /\ v.slot = w.slot /\ v.head = w.head
      /\ v.tail = w.tail /\ v.net_events = w.net_events
      /\ v.edge_age = IF w.edge_age < w.size * Second THEN w.edge_age + 1
                                                      ELSE w.edge_age
  BY DEF WindowOK, WindowShape, Ticked
<1>2. Slots(v) = Slots(w)
  BY <1>1 DEF Slots
<1>3. v.edge_age \in 0..(w.size * Second)
  BY <1>1, WindowAssumption DEF WindowOK
<1> HIDE DEF v
<1>4. WindowOK(v)
  BY <1>1, <1>2, <1>3 DEF WindowOK
<1> QED
  BY <1>1, <1>4 DEF v

(* update_window subtracts the slots it empties and adds the new events:   *)
(* net_events_ is the sum of the slots again, and no more than before plus *)
(* the new events.                                                         *)
LEMMA UpdatedOK ==
    ASSUME NEW w, WindowOK(w), NEW e \in Nat
    PROVE  /\ WindowOK(Updated(w, e))
           /\ Updated(w, e).size = w.size
           /\ Updated(w, e).net_events <= w.net_events + e
<1> DEFINE n == w.size
           k == Shift(w)
           S == 0..(n - 1)
           v == Updated(w, e)
<1>1. /\ n \in Nat \ {0} /\ LegalSize(n) /\ k \in Nat /\ k <= n /\ IsFiniteSet(S)
      /\ w.slot \in [S -> Nat] /\ w.net_events \in Nat /\ w.tail \in S
      /\ w.head \in S /\ w.head = (w.tail + n - 1) % n
      /\ w.net_events = SumOver(w.slot, S)
      /\ w.edge_age \in 0..(n * Second)
  BY WindowFacts DEF WindowOK, Slots
<1>2. CASE k >= n
  <2> DEFINE c == NewWindow(n)
  <2>1. WindowOK(c) /\ c.net_events = 0
    BY <1>1, NewWindowOK
  <2>2. /\ c.slot = [i \in S |-> 0] /\ c.size = n /\ c.head = n - 1 /\ c.tail = 0
        /\ c.edge_age = 0 /\ WindowShape(c)
    BY DEF NewWindow, WindowShape
  <2>3. v = [c EXCEPT !.slot[n - 1] = e, !.net_events = e]
    BY <1>2 DEF Updated
  <2>4. /\ WindowShape(v) /\ v.size = n /\ v.head = n - 1 /\ v.tail = 0
        /\ v.edge_age = 0 /\ v.net_events = e
        /\ v.slot = [c.slot EXCEPT ![n - 1] = e]
    BY <2>2, <2>3 DEF WindowShape
  <2> HIDE DEF v, c
  <2>5. v.slot \in [S -> Nat] /\ n - 1 \in S
    <3>1. n - 1 \in S
      BY <1>1
    <3>2. c.slot \in [S -> Nat]
      BY <2>2
    <3> HIDE DEF n, S
    <3> QED
      BY <2>4, <3>1, <3>2
  <2>6. SumOver(v.slot, S) = SumOver(c.slot, S) + (v.slot[n - 1] - c.slot[n - 1])
    <3>1. \A i \in S : c.slot[i] \in Int /\ v.slot[i] \in Int
      BY <2>2, <2>5
    <3>2. \A i \in S \ {n - 1} : c.slot[i] = v.slot[i]
      BY <2>2, <2>4
    <3> HIDE DEF n, S
    <3> QED
      BY <1>1, <2>5, <3>1, <3>2, SumChanged
  <2>7. SumOver(c.slot, S) = 0 /\ v.slot[n - 1] = e /\ c.slot[n - 1] = 0
    BY <2>1, <2>2, <2>4, <2>5 DEF WindowOK, Slots
  <2>8. SumOver(v.slot, S) = e
    BY <2>6, <2>7
  <2>9. WindowOK(v)
    BY <1>1, <2>1, <2>2, <2>4, <2>5, <2>8 DEF WindowOK, Slots
  <2> QED
    BY <1>1, <2>4, <2>9 DEF v
<1>3. CASE ~(k >= n)
  <2> DEFINE D == Dropped(w)
             h == Advanced(w, w.head)
             t == Advanced(w, w.tail)
             emptied == [i \in S |-> IF i \in D THEN 0 ELSE w.slot[i]]
  <2>1. /\ WindowShape(v) /\ v.size = n /\ v.head = h /\ v.tail = t
        /\ v.net_events = w.net_events - SumOver(w.slot, D) + e
        /\ v.edge_age = EdgeAge(w)
        /\ v.slot = [i \in S |-> (IF i \in D THEN 0 ELSE w.slot[i])
                                 + (IF i = h THEN e ELSE 0)]
    BY <1>1, <1>3 DEF Updated, WindowOK, WindowShape
  <2>2. D \subseteq S /\ h \in S /\ t \in S
    <3>1. \A i \in Nat : (w.tail + i) % n \in S /\ (w.head + i) % n \in S
      <4>0. w.tail \in Nat /\ w.head \in Nat
        BY <1>1
      <4>1. \A i \in Nat : w.tail + i \in Nat /\ w.head + i \in Nat
        BY ONLY <4>0
      <4> HIDE DEF n
      <4> QED
        BY <1>1, <4>1, ModIn
    <3>2. \A i \in 0..(k - 1) : (w.tail + i) % n \in S
      BY <3>1
    <3>3. D \subseteq S
      BY <3>2 DEF Dropped
    <3>4. h \in S /\ t \in S
      BY <1>1, <3>1 DEF Advanced
    <3> QED
      BY <3>3, <3>4
  <2>3. h = (t + n - 1) % n
    <3>1. k \in 0..(n - 1)
      BY <1>1, <1>3
    <3>2. h = (w.head + k) % n /\ t = (w.tail + k) % n
      BY DEF Advanced
    <3> HIDE DEF n, k, h, t
    <3> QED
      BY <1>1, <3>1, <3>2, Wraps
  <2>4. v.edge_age \in 0..(n * Second)
    BY <1>1, <2>1, WindowAssumption DEF EdgeAge
  <2> HIDE DEF v, D, h, t, n, k, S
  <2>5. emptied \in [S -> Nat] /\ v.slot \in [S -> Nat]
    BY <1>1, <2>1
  <2>6. SumOver(emptied, S) = SumOver(w.slot, S) - SumOver(w.slot, D)
    BY <1>1, <2>2, SumEmptied
  <2>7. SumOver(v.slot, S) = SumOver(emptied, S) + (v.slot[h] - emptied[h])
    <3>1. \A i \in S \ {h} : emptied[i] = v.slot[i]
      BY <2>1, <2>5
    <3>2. \A i \in S : emptied[i] \in Int /\ v.slot[i] \in Int
      BY <2>5
    <3> QED
      BY <1>1, <2>2, <3>1, <3>2, SumChanged
  <2>8. v.slot[h] - emptied[h] = e
    BY <1>1, <2>1, <2>2
  <2>9. SumOver(w.slot, D) \in Nat
    <3>1. IsFiniteSet(D) /\ \A i \in D : w.slot[i] \in Nat
      BY <1>1, <2>2, FS_Subset
    <3> QED
      BY <3>1, SumNat
  <2> HIDE DEF emptied
  <2>10. SumOver(v.slot, S) = v.net_events
    <3> DEFINE A == SumOver(w.slot, S)
               B == SumOver(w.slot, D)
               C == SumOver(emptied, S)
    <3>1. A \in Nat /\ B \in Nat /\ C = A - B /\ SumOver(v.slot, S) = C + e
          /\ v.net_events = A - B + e
      BY <1>1, <2>1, <2>6, <2>7, <2>8, <2>9
    <3> HIDE DEF A, B, C
    <3> QED
      BY <3>1
  <2>11. WindowOK(v)
    BY <1>1, <2>1, <2>2, <2>3, <2>4, <2>5, <2>10 DEF WindowOK, Slots, n, S
  <2>12. v.net_events <= w.net_events + e
    BY <1>1, <2>1, <2>9
  <2> QED
    BY <2>1, <2>11, <2>12 DEF v, n
<1> QED
  BY <1>2, <1>3
=============================================================================
