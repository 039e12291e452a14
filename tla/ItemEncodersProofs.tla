------------------------- MODULE ItemEncodersProofs -------------------------
(***************************************************************************)
(* The encoders of item lists, for every initial size of their arrays and  *)
(* messages of any length: no write is beyond an array, and nothing in the *)
(* list of the PDU points into freed memory, message after message.        *)
(***************************************************************************)
EXTENDS ItemEncoders, TLAPS

-----------------------------------------------------------------------------
(* The inductive invariant.                                                *)

Bound == InitialSize + 2 * MaxItems
Shape(n) ==
    /\ array \in [1..n -> [value : 0..MaxItems, kind : Kinds, detail : Nat]]
    /\ details \in [Bearers -> [1..n -> 0..MaxItems]]

(* What the loop relies on.  The size recorded is never more than what     *)
(* there is: sgnb_addition_request, which forgets to record the new size,  *)
(* keeps the first one.                                                    *)
Sized == size \in DOMAIN array /\ (encoder = "sgnb_request" => size = InitialSize)

(* While a message is being encoded there is room for all of it, each item *)
(* so far has taken one detail at most, and the list has items of this     *)
(* message only, unless that has none.                                     *)
Loop ==
    i > 0 =>
       /\ i <= Len(items) + 1
       /\ ies = Leading
       /\ DOMAIN items \subseteq DOMAIN array
       /\ \A b \in Bearers : used[b] < i
       /\ items # <<>> => \A k \in DOMAIN list : list[k].index < i

EncodersInv == TypeOK /\ Sized /\ Loop /\ ListAlive

(* A message is a sequence of items of its encoder's kinds.                *)
LEMMA RequestFacts ==
    ASSUME NEW e \in Encoders, NEW m \in Requests(e)
    PROVE  /\ Len(m) \in 0..MaxItems
           /\ DOMAIN m = 1..Len(m)
           /\ m \in Seq(ItemsOf(e))
           /\ \A k \in 1..Len(m) : m[k] \in ItemsOf(e)
<1>1. PICK n \in 0..MaxItems : m \in [1..n -> ItemsOf(e)]
  BY DEF Requests
<1>2. m \in Seq(ItemsOf(e)) /\ Len(m) = n
  BY <1>1, EncodersAssumption
<1> QED
  BY <1>1, <1>2

(* The kinds of items.                                                     *)
LEMMA ItemFacts ==
    ASSUME NEW e \in Encoders, NEW item \in ItemsOf(e)
    PROVE  item.kind \in {"action", "value", "neither"} \cup Bearers
<1>1. CASE e = "subscription_request"
  <2>1. ItemsOf(e) = {[kind |-> "action", legal |-> TRUE]}
    BY <1>1 DEF ItemsOf
  <2> QED
    BY <2>1
<1>2. CASE e = "event_trigger"
  <2>1. ItemsOf(e) = {[kind |-> "value", legal |-> b] : b \in BOOLEAN}
    BY <1>2 DEF ItemsOf
  <2> QED
    BY <2>1
<1>3. CASE e \notin {"subscription_request", "event_trigger"}
  <2>1. ItemsOf(e) = [kind : Bearers, legal : BOOLEAN] \cup {[kind |-> "neither", legal |-> TRUE]}
    BY <1>3 DEF ItemsOf
  <2> QED
    BY <2>1
<1> QED
  BY <1>1, <1>2, <1>3

(* Every PDU has at least the element with the list.                       *)
LEMMA ElementsFacts == \A e \in Encoders : Elements(e) \in Nat /\ Elements(e) >= 1
BY DEF Encoders, Elements


(* The list of the PDU starts empty.                                       *)
LEMMA InitEncoders == Init => EncodersInv
<1> SUFFICES ASSUME Init PROVE EncodersInv
  OBVIOUS
<1>1. Shape(InitialSize) /\ InitialSize \in 1..Bound
  BY EncodersAssumption DEF Init, Shape, NewArray, NewDetails, Blank, Kinds, Bound
<1>2. items \in Requests(encoder)
  <2>1. <<>> \in [1..0 -> ItemsOf(encoder)]
    OBVIOUS
  <2> QED
    BY <2>1, EncodersAssumption DEF Init, Requests
<1>3. TypeOK
  <2>1. \E n \in 1..InitialSize + 2 * MaxItems : Shape(n)
    BY <1>1 DEF Bound
  <2>2. /\ encoder \in Encoders /\ i \in 0..MaxItems + 1
        /\ size \in 1..InitialSize + 2 * MaxItems
    BY EncodersAssumption DEF Init
  <2>5. used \in [Bearers -> 0..MaxItems]
    BY EncodersAssumption DEF Init, NoneUsed
  <2>6. linked \in BOOLEAN /\ result \in Results
    BY DEF Init, Results
  <2>3. list \in Seq([index : Nat, live : BOOLEAN])
    BY DEF Init
  <2>4. ies \in 0..Elements(encoder)
    BY ElementsFacts DEF Init
  <2> QED
    BY <1>2, <2>1, <2>2, <2>3, <2>4, <2>5, <2>6 DEF TypeOK, Shape
<1>4. Sized
  BY <1>1, EncodersAssumption DEF Init, Sized, NewArray
<1>5. Loop /\ ListAlive
  BY DEF Init, Loop, ListAlive
<1> QED
  BY <1>3, <1>4, <1>5 DEF EncodersInv

(* What every step starts from.                                            *)
LEMMA Facts ==
    ASSUME EncodersInv
    PROVE  /\ encoder \in Encoders
           /\ i \in Nat /\ Len(items) \in 0..MaxItems /\ DOMAIN items = 1..Len(items)
           /\ size \in Nat \ {0} /\ MaxItems \in Nat /\ InitialSize \in Nat \ {0}
           /\ \E n \in 1..Bound : Shape(n)
           /\ list \in Seq([index : Nat, live : BOOLEAN])
BY RequestFacts, ElementsFacts, EncodersAssumption DEF EncodersInv, TypeOK, Shape, Bound

(* A message of n items was begun, on arrays it fits into, with an empty   *)
(* list or no items to add to an old one.                                  *)
LEMMA BegunOK ==
    ASSUME EncodersInv, NEW m \in Requests(encoder), NEW n \in 0..MaxItems,
           DOMAIN m = 1..n, n = Len(m),
           items' = m, i' = 1, ies' = Leading, linked' = HasList(n), used' = NoneUsed,
           UNCHANGED <<encoder, result>>,
           NEW l \in 1..Bound, Shape(l)', Sized', size' \in 1..Bound,
           1..n \subseteq DOMAIN array',
           list' = <<>> \/ (n = 0 /\ list' = list),
           list' = list => ListAlive'
    PROVE  EncodersInv'
<1>1. MaxItems \in Nat /\ \A b \in Bearers : used'[b] = 0
  BY EncodersAssumption DEF NoneUsed
<1>2. TypeOK'
  <2>1. items' \in Requests(encoder') /\ encoder' \in Encoders /\ result' \in Results
        /\ linked' \in BOOLEAN
    BY DEF EncodersInv, TypeOK, HasList
  <2>2. i' \in 0..MaxItems + 1 /\ used' \in [Bearers -> 0..MaxItems]
    BY <1>1 DEF NoneUsed
  <2>3. ies' \in 0..Elements(encoder')
    <3>1. encoder \in Encoders
      BY DEF EncodersInv, TypeOK
    <3>2. ies' = Elements(encoder) - 1 /\ encoder' = encoder
      BY DEF Leading
    <3>3. Elements(encoder) \in Nat \ {0}
      BY <3>1, ElementsFacts
    <3>4. Elements(encoder) - 1 \in 0..Elements(encoder)
      BY ONLY <3>3
    <3> QED
      BY <3>2, <3>4
  <2>4. list' \in Seq([index : Nat, live : BOOLEAN])
    <3>1. <<>> \in Seq([index : Nat, live : BOOLEAN])
      OBVIOUS
    <3>2. list \in Seq([index : Nat, live : BOOLEAN])
      BY DEF EncodersInv, TypeOK
    <3> QED
      BY <3>1, <3>2
  <2> QED
    BY <2>1, <2>2, <2>3, <2>4 DEF TypeOK, Shape, Bound
<1>3. Loop'
  <2>1. items' # <<>> => list' = <<>>
    <3>1. n = 0 => m = <<>>
      OBVIOUS
    <3> QED
      BY <3>1
  <2>2. ies' = Leading'
    BY DEF Leading
  <2>3. i' <= Len(items') + 1
    OBVIOUS
  <2> QED
    BY <1>1, <2>1, <2>2, <2>3 DEF Loop
<1>4. ListAlive'
  <2>1. list' = <<>> => ListAlive'
    BY DEF ListAlive
  <2> QED
    BY <2>1
<1> QED
  BY <1>2, <1>3, <1>4 DEF EncodersInv

(* Making room, or not, for a message of any length.                       *)
LEMMA BeginOK ==
    ASSUME EncodersInv, NEW m \in Requests(encoder), Begin(m)
    PROVE  EncodersInv'
<1> PICK n \in 0..MaxItems : n = Len(m) /\ DOMAIN m = 1..n
  BY RequestFacts, Facts
<1> PICK old \in 1..Bound : Shape(old)
  BY Facts
<1> PICK s \in Nat \ {0} : s = size
  BY Facts
<1>1. /\ items' = m /\ i' = 1 /\ ies' = Leading /\ linked' = HasList(n) /\ used' = NoneUsed
      /\ UNCHANGED <<encoder, result>>
  BY DEF Begin
<1>2. s \in 1..old /\ DOMAIN array = 1..old /\ (encoder = "sgnb_request" => s = InitialSize)
  BY DEF EncodersInv, Sized, Shape
<1>3. n \in Nat /\ MaxItems \in Nat /\ InitialSize \in Nat \ {0} /\ Bound \in Nat
  BY EncodersAssumption DEF Bound
<1>4. CASE HasList(n) /\ Grows(n)
  <2>1. /\ size' = Recorded(n)
        /\ array' = NewArray(2 * n) /\ details' = NewDetails(2 * n) /\ list' = <<>>
    BY <1>4 DEF Begin, Enlarged, Reset
  <2>2. n >= s
    BY <1>3, <1>4 DEF Grows
  <2>3. 2 * n \in 1..Bound /\ s <= 2 * n /\ n <= 2 * n
    BY <1>3, <2>2 DEF Bound
  <2>4. Shape(2 * n)'
    <3>1. Blank \in [value : 0..MaxItems, kind : Kinds, detail : Nat]
      BY <1>3 DEF Blank, Kinds
    <3>2. array' \in [1..(2 * n) -> [value : 0..MaxItems, kind : Kinds, detail : Nat]]
      BY <2>1, <3>1 DEF NewArray
    <3>3. details' \in [Bearers -> [1..(2 * n) -> 0..MaxItems]]
      BY <1>3, <2>1 DEF NewDetails
    <3> QED
      BY <3>2, <3>3 DEF Shape
  <2>5. size' \in 1..(2 * n) /\ (encoder = "sgnb_request" => size' = InitialSize)
    BY <1>2, <1>3, <2>1, <2>3 DEF Recorded, Enlarged
  <2>6. Sized'
    BY <1>1, <2>4, <2>5 DEF Sized, Shape
  <2>7. 1..n \subseteq DOMAIN array'
    BY <1>3, <2>3, <2>4 DEF Shape
  <2>8. size' \in 1..Bound /\ list' = <<>>
    BY <1>3, <2>1, <2>3, <2>5
  <2> PICK l \in 1..Bound : l = 2 * n
    BY <2>3
  <2>9. list' = list => ListAlive'
    BY <2>8 DEF ListAlive
  <2> QED
    BY <1>1, <2>4, <2>6, <2>7, <2>8, <2>9, BegunOK
<1>5. CASE ~(HasList(n) /\ Grows(n))
  <2>1. /\ size' = size
        /\ array' = [k \in DOMAIN array |-> [array[k] EXCEPT !.value = 0]]
        /\ details' = [b \in Bearers |-> [k \in DOMAIN details[b] |-> 0]]
        /\ list' = IF HasList(n) THEN <<>> ELSE list
    BY <1>5 DEF Begin, Reset
  <2>2. n <= s
    BY <1>3, <1>5 DEF Grows, HasList
  <2>3. Shape(old)'
    <3>1. \A k \in 1..old : array[k] \in [value : 0..MaxItems, kind : Kinds, detail : Nat]
      BY DEF Shape
    <3>2. ASSUME NEW k \in 1..old
          PROVE  array'[k] \in [value : 0..MaxItems, kind : Kinds, detail : Nat]
      <4>1. array[k] \in [value : 0..MaxItems, kind : Kinds, detail : Nat]
        BY <3>1
      <4>2. array'[k] = [array[k] EXCEPT !.value = 0]
        BY <1>2, <2>1
      <4>3. 0 \in 0..MaxItems
        BY EncodersAssumption
      <4> QED
        BY ONLY <4>1, <4>2, <4>3
    <3>3. array' \in [1..old -> [value : 0..MaxItems, kind : Kinds, detail : Nat]]
      BY <1>2, <2>1, <3>2
    <3>4. details' \in [Bearers -> [1..old -> 0..MaxItems]]
      BY <1>3, <2>1 DEF Shape
    <3> QED
      BY <3>3, <3>4 DEF Shape
  <2>4. Sized' /\ size' \in 1..Bound
    BY <1>1, <1>2, <1>3, <2>1, <2>3 DEF Sized, Shape
  <2>5. 1..n \subseteq DOMAIN array'
    BY <1>2, <1>3, <2>2, <2>3 DEF Shape
  <2>6. list' = <<>> \/ (n = 0 /\ list' = list)
    BY <1>3, <2>1 DEF HasList
  <2>7. ASSUME list' = list PROVE ListAlive'
    <3>1. \A k \in DOMAIN array : array'[k].kind = array[k].kind
                                  /\ array'[k].detail = array[k].detail
      BY <1>2, <2>1 DEF Shape
    <3>2. DOMAIN array' = DOMAIN array
          /\ \A b \in Bearers : DOMAIN details'[b] = DOMAIN details[b]
      BY <2>1
    <3> QED
      BY <2>7, <3>1, <3>2 DEF ListAlive, EncodersInv
  <2> QED
    BY <1>1, <1>3, <2>3, <2>4, <2>5, <2>6, <2>7, BegunOK
<1> QED
  BY <1>4, <1>5

(* What a sequence over a set has at its places.                           *)
LEMMA ElementOf ==
    ASSUME NEW S, NEW l \in Seq(S)
    PROVE  \A k \in DOMAIN l : l[k] \in S
<1>1. DOMAIN l = 1..Len(l) /\ l \in [1..Len(l) -> S]
  OBVIOUS
<1> QED
  BY <1>1

(* Where the loop stands.                                                  *)
LEMMA LoopFacts ==
    ASSUME EncodersInv, MoreItems, NEW n \in 1..Bound, Shape(n)
    PROVE  /\ i \in Nat \ {0} /\ i \in 1..n /\ i \in 1..Len(items)
           /\ Len(items) \in 0..MaxItems /\ DOMAIN items = 1..Len(items) /\ MaxItems \in Nat
           /\ \A b \in Bearers : used[b] \in Nat /\ used[b] < i
           /\ \A k \in DOMAIN list : list[k].index \in Nat /\ list[k].index < i
           /\ array[i].detail \in Nat
<1>1. /\ i \in 1..Len(items) /\ i \in Nat \ {0}
      /\ Len(items) \in 0..MaxItems /\ DOMAIN items = 1..Len(items) /\ MaxItems \in Nat
  BY Facts DEF MoreItems
<1>2. i > 0 /\ items # <<>> /\ DOMAIN array = 1..n
  BY <1>1 DEF Shape
<1>3. i \in 1..n
  BY <1>1, <1>2 DEF EncodersInv, Loop
<1>4. \A b \in Bearers : used[b] \in Nat /\ used[b] < i
  BY <1>2 DEF EncodersInv, Loop, TypeOK
<1>5. \A k \in DOMAIN list : list[k].index \in Nat /\ list[k].index < i
  <2>1. \A k \in DOMAIN list : list[k].index < i
    BY <1>2 DEF EncodersInv, Loop
  <2>2. \A k \in DOMAIN list : list[k] \in [index : Nat, live : BOOLEAN]
    <3>1. list \in Seq([index : Nat, live : BOOLEAN])
      BY Facts
    <3> QED
      BY <3>1, ElementOf
  <2> QED
    BY <2>1, <2>2
<1>6. array[i].detail \in Nat
  BY <1>3 DEF Shape
<1> QED
  BY <1>1, <1>3, <1>4, <1>5, <1>6

(* The item's place in the array is written.                               *)
LEMMA StoredOK ==
    ASSUME EncodersInv, MoreItems, NEW n \in 1..Bound, Shape(n), NEW d \in Nat, Stored(d),
           DetailStored \/ UNCHANGED details
    PROVE  /\ Shape(n)' /\ i \in 1..n /\ i \in 1..MaxItems
           /\ array'[i].kind = Item.kind /\ array'[i].detail = d
           /\ \A k \in 1..n : k # i => array'[k] = array[k]
           /\ \A b \in Bearers : used[b] \in Nat /\ used[b] + 1 \in 1..n /\ used[b] + 1 <= MaxItems
<1>1. /\ i \in 1..Len(items) /\ Len(items) \in 0..MaxItems /\ DOMAIN items = 1..Len(items)
      /\ MaxItems \in Nat
  BY Facts DEF MoreItems
<1>2. DOMAIN items \subseteq 1..n /\ \A b \in Bearers : used[b] < i /\ used[b] \in Nat
  <2>1. i > 0
    BY <1>1
  <2>2. DOMAIN items \subseteq DOMAIN array /\ \A b \in Bearers : used[b] < i
    BY <2>1 DEF EncodersInv, Loop
  <2>3. DOMAIN array = 1..n
    BY DEF Shape
  <2>4. \A b \in Bearers : used[b] \in Nat
    BY DEF EncodersInv, TypeOK
  <2> QED
    BY <2>2, <2>3, <2>4
<1>3. i \in 1..n /\ i \in 1..MaxItems
  BY <1>1, <1>2
<1>4. \A b \in Bearers : used[b] + 1 \in 1..n /\ used[b] + 1 <= MaxItems
  <2> SUFFICES ASSUME NEW b \in Bearers
               PROVE  used[b] + 1 \in 1..n /\ used[b] + 1 <= MaxItems
    OBVIOUS
  <2> PICK u \in Nat : u = used[b] /\ u < i
    BY <1>2
  <2> QED
    BY <1>1, <1>3
<1>5. Item.kind \in Kinds
  BY <1>1, Facts, RequestFacts, ItemFacts DEF Item, EncodersInv, TypeOK, Kinds
<1>6. array' = [array EXCEPT ![i] = [value |-> i, kind |-> Item.kind, detail |-> d]]
  BY DEF Stored
<1>7. /\ array' \in [1..n -> [value : 0..MaxItems, kind : Kinds, detail : Nat]]
      /\ array'[i].kind = Item.kind /\ array'[i].detail = d
      /\ \A k \in 1..n : k # i => array'[k] = array[k]
  BY <1>3, <1>5, <1>6 DEF Shape
<1>8. details' \in [Bearers -> [1..n -> 0..MaxItems]]
  <2>1. CASE UNCHANGED details
    BY <2>1 DEF Shape
  <2>2. CASE DetailStored /\ HasDetail
    <3> PICK b \in Bearers : b = Item.kind
      BY <2>2 DEF HasDetail
    <3> PICK f \in 1..n : f = used[b] + 1
      BY <1>4
    <3>1. details' = [details EXCEPT ![b][f] = i]
      BY <2>2 DEF DetailStored, FreeDetail
    <3>2. i \in 0..MaxItems
      BY <1>1, <1>3
    <3> QED
      BY <3>1, <3>2 DEF Shape
  <2> QED
    BY <2>1, <2>2 DEF DetailStored
<1> QED
  BY <1>2, <1>3, <1>4, <1>7, <1>8 DEF Shape
(* A place behind the list is written; the list stays alive.               *)
LEMMA AliveKept ==
    ASSUME EncodersInv, MoreItems, NEW n \in 1..Bound, Shape(n), Shape(n)',
           \A k \in 1..n : k # i => array'[k] = array[k]
    PROVE  \A k \in DOMAIN list :
              LET p == list[k] IN
              /\ p.live /\ p.index \in 1..n /\ p.index < i
              /\ array'[p.index].kind \in Bearers => array'[p.index].detail \in 1..n
<1> SUFFICES ASSUME NEW k \in DOMAIN list
             PROVE  /\ list[k].live /\ list[k].index \in 1..n /\ list[k].index < i
                    /\ array'[list[k].index].kind \in Bearers =>
                          array'[list[k].index].detail \in 1..n
  OBVIOUS
<1>1. i > 0 /\ items # <<>> /\ i \in Nat
  BY Facts DEF MoreItems
<1>2. list[k].index < i
  BY <1>1 DEF EncodersInv, Loop
<1>3. /\ list[k].live /\ list[k].index \in 1..n
      /\ array[list[k].index].kind \in Bearers => array[list[k].index].detail \in 1..n
  BY DEF EncodersInv, ListAlive, Shape
<1>4. list[k].index # i
  BY <1>1, <1>2
<1>5. array'[list[k].index] = array[list[k].index]
  BY <1>3, <1>4
<1> QED
  BY <1>2, <1>3, <1>5

(* What the steps of the loop have in common.                              *)
LEMMA LoopTypes ==
    ASSUME EncodersInv, NEW n \in 1..Bound, Shape(n), Shape(n)',
           UNCHANGED <<encoder, items, size, linked>>,
           i' \in 0..MaxItems + 1, used' \in [Bearers -> 0..MaxItems],
           list' \in Seq([index : Nat, live : BOOLEAN]),
           ies' \in 0..Elements(encoder), result' \in Results
    PROVE  TypeOK' /\ Sized'
BY DEF EncodersInv, TypeOK, Sized, Shape, Bound

(* An item joins the list.                                                 *)
LEMMA AddItemOK ==
    ASSUME EncodersInv, AddItem
    PROVE  EncodersInv'
<1> PICK n \in 1..Bound : Shape(n)
  BY Facts
<1> PICK d : d = IF HasDetail THEN FreeDetail(Item.kind) ELSE array[i].detail
  OBVIOUS
<1>1. /\ MoreItems /\ Stored(d) /\ DetailStored
      /\ used' = IF HasDetail THEN [used EXCEPT ![Item.kind] = @ + 1] ELSE used
      /\ list' = Append(list, [index |-> i, live |-> TRUE])
      /\ i' = i + 1
      /\ UNCHANGED <<encoder, items, size, linked, ies, result>>
  BY DEF AddItem
<1>2. i \in 1..Len(items) /\ Len(items) \in 0..MaxItems /\ DOMAIN items = 1..Len(items)
      /\ MaxItems \in Nat /\ i \in 1..n /\ i \in Nat
  BY <1>1, LoopFacts
<1>3. \A b \in Bearers : used[b] \in Nat /\ used[b] < i
  BY <1>1, LoopFacts
<1>4. d \in Nat
  <2>1. array[i].detail \in Nat
    BY <1>1, LoopFacts
  <2>2. HasDetail => FreeDetail(Item.kind) \in Nat
    <3> PICK b : b = Item.kind
      OBVIOUS
    <3> QED
      BY <1>3 DEF HasDetail, FreeDetail
  <2> QED
    BY <2>1, <2>2
<1>5. /\ Shape(n)'
      /\ array'[i].kind = Item.kind /\ array'[i].detail = d
      /\ \A k \in 1..n : k # i => array'[k] = array[k]
      /\ \A b \in Bearers : used[b] + 1 \in 1..n /\ used[b] + 1 <= MaxItems
  BY <1>1, <1>4, StoredOK
<1>6. /\ list \in Seq([index : Nat, live : BOOLEAN])
      /\ list' \in Seq([index : Nat, live : BOOLEAN])
      /\ Len(list) \in Nat /\ DOMAIN list = 1..Len(list)
      /\ DOMAIN list' = 1..(Len(list) + 1)
      /\ list'[Len(list) + 1] = [index |-> i, live |-> TRUE]
      /\ \A k \in DOMAIN list : list'[k] = list[k]
  <2> PICK p \in [index : Nat, live : BOOLEAN] : p = [index |-> i, live |-> TRUE]
    BY <1>2
  <2>1. list \in Seq([index : Nat, live : BOOLEAN]) /\ list' = Append(list, p)
    BY <1>1, Facts
  <2> QED
    BY <2>1
<1>7. /\ used' \in [Bearers -> 0..MaxItems]
      /\ \A b \in Bearers : used'[b] < i'
  <2>1. used \in [Bearers -> 0..MaxItems] /\ used \in [Bearers -> Nat]
    BY DEF EncodersInv, TypeOK
  <2>2. \A b \in Bearers : used'[b] = used[b] \/ used'[b] = used[b] + 1
    BY <1>1, <2>1 DEF HasDetail
  <2>3. \A b \in Bearers : used'[b] \in 0..MaxItems /\ used'[b] < i'
    <3> SUFFICES ASSUME NEW b \in Bearers PROVE used'[b] \in 0..MaxItems /\ used'[b] < i'
      OBVIOUS
    <3> PICK u \in Nat : u = used[b] /\ u < i
      BY <1>3
    <3>1. u + 1 <= MaxItems /\ u \in 0..MaxItems /\ i' = i + 1
      BY <1>1, <1>5, <2>1
    <3> QED
      BY <1>2, <2>2, <3>1
  <2> QED
    BY <1>1, <2>1, <2>3
<1>8. TypeOK' /\ Sized'
  <2>1. i' \in 0..MaxItems + 1
    BY <1>1, <1>2
  <2>2. ies' \in 0..Elements(encoder) /\ result' \in Results
    BY <1>1 DEF EncodersInv, TypeOK
  <2> QED
    BY <1>1, <1>5, <1>6, <1>7, <2>1, <2>2, LoopTypes
<1>9. ListAlive'
  <2>1. \A k \in DOMAIN list :
              LET p == list[k] IN
              /\ p.live /\ p.index \in 1..n
              /\ array'[p.index].kind \in Bearers => array'[p.index].detail \in 1..n
    BY <1>1, <1>5, AliveKept
  <2>2. Item.kind \in Bearers => d \in 1..n
    BY <1>5 DEF HasDetail, FreeDetail
  <2>3. DOMAIN array' = 1..n /\ \A b \in Bearers : DOMAIN details'[b] = 1..n
    BY <1>5 DEF Shape
  <2>4. \A k \in DOMAIN list' : k \in DOMAIN list \/ list'[k] = [index |-> i, live |-> TRUE]
    BY <1>6
  <2>5. ASSUME NEW k \in DOMAIN list'
        PROVE  LET p == list'[k] IN
               /\ p.live /\ p.index \in 1..n
               /\ array'[p.index].kind \in Bearers => array'[p.index].detail \in 1..n
    <3>1. CASE k \in DOMAIN list
      BY <1>6, <2>1, <3>1
    <3>2. CASE list'[k] = [index |-> i, live |-> TRUE]
      BY <1>2, <1>5, <2>2, <3>2
    <3> QED
      BY <2>4, <3>1, <3>2
  <2> QED
    BY <2>3, <2>5 DEF ListAlive
<1>10. Loop'
  <2>1. /\ i' <= Len(items') + 1 /\ ies' = Leading'
        /\ DOMAIN items' \subseteq DOMAIN array'
    BY <1>1, <1>2, <1>5 DEF EncodersInv, Loop, Leading, Shape
  <2>2. \A k \in DOMAIN list' : list'[k].index < i'
    <3> SUFFICES ASSUME NEW k \in DOMAIN list' PROVE list'[k].index < i + 1
      BY <1>1
    <3>1. CASE k \in DOMAIN list
      <4>1. list[k].index < i /\ list[k].index \in Nat
        BY <1>1, <3>1, LoopFacts
      <4> QED
        BY <1>2, <1>6, <3>1, <4>1
    <3>2. CASE k = Len(list) + 1
      BY <1>2, <1>6, <3>2
    <3> QED
      BY <1>6, <3>1, <3>2
  <2> QED
    BY <1>7, <2>1, <2>2 DEF Loop
<1> QED
  BY <1>8, <1>9, <1>10 DEF EncodersInv

(* An item that is no bearer leaves its place in the array behind.         *)
LEMMA SkipItemOK ==
    ASSUME EncodersInv, SkipItem
    PROVE  EncodersInv'
<1> PICK n \in 1..Bound : Shape(n)
  BY Facts
<1> PICK d : d = array[i].detail
  OBVIOUS
<1>1. /\ MoreItems /\ Stored(d) /\ i' = i + 1
      /\ UNCHANGED <<encoder, items, size, details, used, list, linked, ies, result>>
  BY DEF SkipItem
<1>2. i \in 1..Len(items) /\ Len(items) \in 0..MaxItems /\ DOMAIN items = 1..Len(items)
      /\ MaxItems \in Nat /\ i \in 1..n /\ i \in Nat
  BY <1>1, LoopFacts
<1>3. d \in Nat
  BY <1>2 DEF Shape
<1>4. Shape(n)' /\ \A k \in 1..n : k # i => array'[k] = array[k]
  BY <1>1, <1>3, StoredOK
<1>5. TypeOK' /\ Sized'
  <2>1. i' \in 0..MaxItems + 1
    BY <1>1, <1>2
  <2>2. /\ used' \in [Bearers -> 0..MaxItems] /\ list' \in Seq([index : Nat, live : BOOLEAN])
        /\ ies' \in 0..Elements(encoder) /\ result' \in Results
    BY <1>1 DEF EncodersInv, TypeOK
  <2> QED
    BY <1>1, <1>4, <2>1, <2>2, LoopTypes
<1>6. ListAlive'
  <2>1. \A k \in DOMAIN list :
              LET p == list[k] IN
              /\ p.live /\ p.index \in 1..n
              /\ array'[p.index].kind \in Bearers => array'[p.index].detail \in 1..n
    BY <1>1, <1>4, AliveKept
  <2> QED
    BY <1>1, <1>4, <2>1 DEF ListAlive, Shape
<1>7. Loop'
  <2>1. /\ i' <= Len(items') + 1 /\ ies' = Leading'
        /\ DOMAIN items' \subseteq DOMAIN array'
    BY <1>1, <1>2, <1>4 DEF EncodersInv, Loop, Leading, Shape
  <2>2. \A b \in Bearers : used'[b] < i'
    <3> SUFFICES ASSUME NEW b \in Bearers PROVE used[b] < i + 1
      BY <1>1
    <3>1. used[b] \in Nat /\ used[b] < i
      BY <1>2 DEF EncodersInv, Loop, TypeOK
    <3> QED
      BY <1>2, <3>1
  <2>3. \A k \in DOMAIN list' : list'[k].index < i'
    <3> SUFFICES ASSUME NEW k \in DOMAIN list PROVE list[k].index < i + 1
      BY <1>1
    <3>1. list[k].index < i /\ list[k].index \in Nat
      BY <1>1, LoopFacts
    <3> QED
      BY <1>2, <3>1
  <2> QED
    BY <2>1, <2>2, <2>3 DEF Loop
<1> QED
  BY <1>5, <1>6, <1>7 DEF EncodersInv

(* A message that is refused half-way leaves a list that ends before the   *)
(* item.                                                                   *)
LEMMA RefuseItemOK ==
    ASSUME EncodersInv, RefuseItem
    PROVE  EncodersInv'
<1> PICK n \in 1..Bound : Shape(n)
  BY Facts
<1>1. /\ MoreItems /\ DetailStored /\ i' = 0 /\ result' = "failed"
      /\ UNCHANGED <<encoder, items, size, used, list, linked, ies>>
  BY DEF RefuseItem
<1>2. i \in 1..n /\ \A b \in Bearers : used[b] \in Nat
  BY <1>1, LoopFacts
<1>3. \E d \in Nat : Stored(d)
  <2>1. array[i].detail \in Nat
    BY <1>2 DEF Shape
  <2>2. HasDetail => FreeDetail(Item.kind) \in Nat
    BY <1>2 DEF HasDetail, FreeDetail
  <2> QED
    BY <2>1, <2>2 DEF RefuseItem
<1>4. Shape(n)' /\ \A k \in 1..n : k # i => array'[k] = array[k]
  BY <1>1, <1>3, StoredOK
<1>5. TypeOK' /\ Sized'
  <2>1. /\ used' \in [Bearers -> 0..MaxItems] /\ list' \in Seq([index : Nat, live : BOOLEAN])
        /\ ies' \in 0..Elements(encoder) /\ result' \in Results
    BY <1>1 DEF EncodersInv, TypeOK, Results
  <2>2. i' \in 0..MaxItems + 1
    BY <1>1, EncodersAssumption
  <2> QED
    BY <1>1, <1>4, <2>1, <2>2, LoopTypes
<1>6. ListAlive'
  <2>1. \A k \in DOMAIN list :
              LET p == list[k] IN
              /\ p.live /\ p.index \in 1..n
              /\ array'[p.index].kind \in Bearers => array'[p.index].detail \in 1..n
    BY <1>1, <1>4, AliveKept
  <2> QED
    BY <1>1, <1>4, <2>1 DEF ListAlive, Shape
<1>7. Loop'
  BY <1>1 DEF Loop
<1> QED
  BY <1>5, <1>6, <1>7 DEF EncodersInv

(* The element with the list completes the PDU.                            *)
LEMMA FinishOK ==
    ASSUME EncodersInv, Finish
    PROVE  EncodersInv'
<1> PICK n \in 1..Bound : Shape(n)
  BY Facts
<1>1. /\ i > 0 /\ i' = 0 /\ ies' = ies + 1 /\ result' \in Results
      /\ UNCHANGED <<encoder, items, size, array, details, used, list, linked>>
  BY Facts DEF Finish, Results
<1>2. ies' \in 0..Elements(encoder)
  BY <1>1, Facts, ElementsFacts DEF EncodersInv, Loop, Leading
<1>3. i' \in 0..MaxItems + 1
  BY <1>1, EncodersAssumption
<1>4. TypeOK' /\ Sized'
  BY <1>1, <1>2, <1>3, LoopTypes DEF EncodersInv, TypeOK, Shape
<1>5. ListAlive' /\ Loop'
  BY <1>1 DEF EncodersInv, ListAlive, Loop
<1> QED
  BY <1>4, <1>5 DEF EncodersInv

-----------------------------------------------------------------------------
(* The theorems.                                                           *)

(* The invariant of the encoders.                                          *)
THEOREM EncodersInvariant == Spec => []EncodersInv
<1>1. EncodersInv /\ [Next]_vars => EncodersInv'
  <2> SUFFICES ASSUME EncodersInv, [Next]_vars PROVE EncodersInv'
    OBVIOUS
  <2>1. CASE UNCHANGED vars
    BY <2>1 DEF vars, EncodersInv, TypeOK, Sized, Loop, Leading, ListAlive
  <2> QED
    BY <2>1, BeginOK, AddItemOK, SkipItemOK, RefuseItemOK, FinishOK DEF Next
<1> QED
  BY <1>1, InitEncoders, PTL DEF Spec

(* The types of the encoders' state: arrays and sizes stay in bounds.      *)
THEOREM EncodersTyping == Spec => []TypeOK
<1>1. EncodersInv => TypeOK
  BY DEF EncodersInv
<1> QED
  BY <1>1, EncodersInvariant, PTL

(* No write of the loop is beyond an array's end, for messages of any      *)
(* length, in any order.                                                   *)
THEOREM RoomForAllAlways == Spec => []RoomForAll
<1>1. ASSUME EncodersInv, MoreItems
      PROVE  /\ i \in DOMAIN array
             /\ \A b \in Bearers : FreeDetail(b) \in DOMAIN details[b]
  <2> PICK n \in 1..Bound : Shape(n)
    BY <1>1, Facts
  <2>1. i \in 1..Len(items) /\ DOMAIN items = 1..Len(items) /\ i \in Nat
    BY <1>1, Facts DEF MoreItems
  <2>2. i \in 1..n /\ DOMAIN array = 1..n /\ \A b \in Bearers : DOMAIN details[b] = 1..n
    <3>1. DOMAIN array = 1..n /\ \A b \in Bearers : DOMAIN details[b] = 1..n
      BY DEF Shape
    <3>2. i > 0
      BY <2>1
    <3>3. DOMAIN items \subseteq DOMAIN array
      BY <1>1, <3>2 DEF EncodersInv, Loop
    <3> QED
      BY <2>1, <3>1, <3>3
  <2>3. ASSUME NEW b \in Bearers PROVE FreeDetail(b) \in 1..n
    <3>1. used[b] \in Nat /\ used[b] < i
      BY <1>1, <2>1 DEF EncodersInv, Loop, TypeOK
    <3> QED
      BY <2>1, <2>2, <3>1 DEF FreeDetail
  <2> QED
    BY <2>2, <2>3
<1>2. EncodersInv => RoomForAll
  BY <1>1 DEF RoomForAll
<1> QED
  BY <1>2, EncodersInvariant, PTL

(* Nothing in the list points into freed memory or beyond an array's end.  *)
THEOREM ListAliveAlways == Spec => []ListAlive
<1>1. EncodersInv => ListAlive
  BY DEF EncodersInv
<1> QED
  BY <1>1, EncodersInvariant, PTL

-----------------------------------------------------------------------------
(* The contents of the message.                                            *)

(* While a message is being encoded the list has its items up to here that *)
(* are kept, in order, and each of them has a detail that was given away.  *)
Written(p) ==
    /\ Reads(p)
    /\ array[p.index].kind \in Bearers =>
          array[p.index].detail \in 1..used[array[p.index].kind]
Content ==
    i > 0 =>
       /\ (linked <=> HasList(Len(items)))
       /\ linked => /\ Listed = {k \in Kept : k < i}
                    /\ InOrder
                    /\ \A k \in DOMAIN list : Written(list[k])

(* A message is begun with an empty list, if it has one.                   *)
LEMMA ContentBegin ==
    ASSUME EncodersInv, NEW m \in Requests(encoder), Begin(m)
    PROVE  Content' /\ EncodesRequest'
<1>1. /\ items' = m /\ i' = 1 /\ linked' = HasList(Len(m))
      /\ HasList(Len(m)) => list' = <<>>
      /\ UNCHANGED encoder
  BY DEF Begin, Reset
<1>2. linked' = HasList(Len(items))'
  BY <1>1 DEF HasList
<1>3. ASSUME linked'
      PROVE  Listed' = {k \in Kept : k < i}' /\ InOrder'
             /\ \A k \in DOMAIN list' : Written(list[k])'
  <2>1. list' = <<>> /\ DOMAIN list' = {}
    BY <1>1, <1>3
  <2>2. {k \in Kept' : k < i'} = {}
    <3>1. DOMAIN m = 1..Len(m) /\ Len(m) \in Nat
      BY RequestFacts, Facts, EncodersAssumption
    <3> QED
      BY <1>1, <3>1 DEF Kept
  <2> QED
    BY <2>1, <2>2 DEF Listed, InOrder
<1> QED
  BY <1>1, <1>2, <1>3 DEF Content, EncodesRequest

(* What is listed is not touched when the next item is written: it is      *)
(* behind in the array, and its detail is one that was given away before.  *)
LEMMA WrittenKept ==
    ASSUME EncodersInv, MoreItems, NEW n \in 1..Bound, Shape(n), NEW d \in Nat,
           Stored(d), DetailStored \/ UNCHANGED details, UNCHANGED items,
           \A b \in Bearers : used'[b] = used[b] \/ used'[b] = used[b] + 1,
           NEW p, p.index \in 1..n, p.index < i, Written(p)
    PROVE  Written(p)'
<1> PICK a : a = array[p.index]
  OBVIOUS
<1>1. i \in Nat /\ p.index # i /\ p' = p
  BY LoopFacts
<1>2. array'[p.index] = a
  BY <1>1, StoredOK
<1>3. /\ a.value = p.index /\ a.kind = items[a.value].kind
      /\ a.kind \in Bearers => /\ details[a.kind][a.detail] = a.value
                               /\ a.detail \in 1..used[a.kind]
  BY DEF Written, Reads
<1>4. ASSUME a.kind \in Bearers
      PROVE  details'[a.kind][a.detail] = a.value /\ a.detail \in 1..used'[a.kind]
  <2> PICK b \in Bearers : b = a.kind
    BY <1>4
  <2>1. /\ used[b] \in Nat /\ used[b] + 1 \in 1..n
        /\ a.detail \in 1..used[b] /\ details[b][a.detail] = a.value
    BY <1>3, StoredOK
  <2>2. a.detail \in 1..used'[b]
    BY <2>1
  <2>3. a.detail \in 1..n /\ a.detail # used[b] + 1
    BY <2>1
  <2>4. details'[b][a.detail] = details[b][a.detail]
    <3>1. CASE UNCHANGED details
      BY <3>1
    <3>2. CASE details' = [details EXCEPT ![Item.kind][used[Item.kind] + 1] = i]
               /\ Item.kind \in Bearers
      BY <2>3, <3>2 DEF Shape
    <3> QED
      BY <3>1, <3>2 DEF DetailStored, FreeDetail, HasDetail
  <2> QED
    BY <2>1, <2>2, <2>4
<1> QED
  BY <1>2, <1>3, <1>4 DEF Written, Reads

(* A message that has items has a list.                                    *)
LEMMA LinkedNow ==
    ASSUME EncodersInv, Content, MoreItems
    PROVE  /\ linked /\ Listed = {k \in Kept : k < i} /\ InOrder
           /\ \A k \in DOMAIN list : Written(list[k])
           /\ i > 0 /\ i \in Nat /\ i \in DOMAIN items
           /\ HasList(Len(items)) /\ (linked <=> HasList(Len(items)))
<1>1. i \in Nat /\ i > 0 /\ i \in 1..Len(items) /\ Len(items) \in Nat
      /\ DOMAIN items = 1..Len(items)
  BY Facts DEF MoreItems
<1>2. HasList(Len(items))
  BY <1>1 DEF HasList
<1> QED
  BY <1>1, <1>2 DEF Content

(* An item joins the list with a detail of its own.                        *)
LEMMA ContentAdd ==
    ASSUME EncodersInv, Content, AddItem
    PROVE  Content' /\ EncodesRequest'
<1> PICK n \in 1..Bound : Shape(n)
  BY Facts
<1> PICK d : d = IF HasDetail THEN FreeDetail(Item.kind) ELSE array[i].detail
  OBVIOUS
<1>1. /\ MoreItems /\ Item.kind # "neither" /\ Stored(d) /\ DetailStored
      /\ used' = IF HasDetail THEN [used EXCEPT ![Item.kind] = @ + 1] ELSE used
      /\ list' = Append(list, [index |-> i, live |-> TRUE])
      /\ i' = i + 1
      /\ UNCHANGED <<encoder, items, linked, ies, result>>
  BY DEF AddItem
<1>2. /\ linked /\ Listed = {k \in Kept : k < i} /\ InOrder
      /\ \A k \in DOMAIN list : Written(list[k])
      /\ i > 0 /\ i \in Nat /\ i \in DOMAIN items
      /\ HasList(Len(items)) /\ (linked <=> HasList(Len(items)))
  BY <1>1, LinkedNow
<1>3. /\ i \in 1..n /\ DOMAIN items = 1..Len(items)
      /\ \A b \in Bearers : used[b] \in Nat
      /\ \A k \in DOMAIN list : list[k].index \in Nat /\ list[k].index < i
  BY <1>1, LoopFacts
<1>4. d \in Nat
  <2>1. array[i].detail \in Nat
    BY <1>1, LoopFacts
  <2>2. HasDetail => FreeDetail(Item.kind) \in Nat
    BY <1>3 DEF HasDetail, FreeDetail
  <2> QED
    BY <2>1, <2>2
<1>5. /\ list \in Seq([index : Nat, live : BOOLEAN])
      /\ Len(list) \in Nat /\ DOMAIN list = 1..Len(list)
      /\ DOMAIN list' = 1..(Len(list) + 1)
      /\ list'[Len(list) + 1] = [index |-> i, live |-> TRUE]
      /\ \A k \in DOMAIN list : list'[k] = list[k]
  <2> PICK p \in [index : Nat, live : BOOLEAN] : p = [index |-> i, live |-> TRUE]
    BY <1>2
  <2>1. list \in Seq([index : Nat, live : BOOLEAN]) /\ list' = Append(list, p)
    BY <1>1, Facts
  <2> QED
    BY <2>1
<1> PICK last \in Nat : last = Len(list) + 1
  BY <1>5
<1>6. DOMAIN list' = DOMAIN list \cup {last} /\ list'[last].index = i
      /\ \A k \in DOMAIN list : k < last
  BY <1>5
<1>7. Listed' = {k \in Kept : k < i}'
  <2>1. Listed' = Listed \cup {i}
    BY <1>5, <1>6 DEF Listed
  <2>2. Kept' = Kept /\ i \in Kept /\ \A k \in Kept : k \in Nat
    BY <1>1, <1>2, <1>3 DEF Kept, Item
  <2>3. {k \in Kept : k < i + 1} = {k \in Kept : k < i} \cup {i}
    <3>1. \A k \in Kept : k < i + 1 <=> k < i \/ k = i
      BY <1>2, <2>2
    <3> QED
      BY <2>2, <3>1, Zenon
  <2> QED
    BY <1>1, <1>2, <2>1, <2>2, <2>3
<1>8. InOrder'
  <2> SUFFICES ASSUME NEW j \in DOMAIN list', NEW k \in DOMAIN list', j < k
               PROVE  list'[j].index < list'[k].index
    BY DEF InOrder
  <2>1. j \in Nat /\ k \in Nat /\ (j = last => ~(k \in DOMAIN list))
    BY <1>5, <1>6
  <2>2. j \in DOMAIN list /\ list'[j] = list[j]
    BY <1>5, <1>6, <2>1
  <2>3. CASE k = last
    BY <1>3, <1>6, <2>2, <2>3
  <2>4. CASE k \in DOMAIN list
    BY <1>2, <1>5, <2>2, <2>4 DEF InOrder
  <2> QED
    BY <1>6, <2>3, <2>4
<1>9. \A b \in Bearers : used'[b] = used[b] \/ used'[b] = used[b] + 1
  BY <1>1 DEF HasDetail, EncodersInv, TypeOK
<1>10. ASSUME NEW p, p.index \in 1..n, p.index < i, Written(p) PROVE Written(p)'
  BY <1>1, <1>4, <1>9, <1>10, WrittenKept
<1>11. ASSUME NEW k \in DOMAIN list' PROVE Written(list[k])'
  <2> PICK p : p = list'[k]
    OBVIOUS
  <2>1. CASE k \in DOMAIN list
    <3>1. p = list[k] /\ Written(p) /\ p.index < i /\ p.index \in Nat
      BY <1>2, <1>3, <1>5, <2>1
    <3>2. p.index \in Listed
      BY <2>1, <3>1 DEF Listed
    <3>3. p.index \in 1..Len(items)
      BY <1>2, <1>3, <3>2 DEF Kept
    <3>4. p.index \in 1..n
      BY <1>3, <3>1, <3>3
    <3>5. Written(p)'
      BY <1>10, <3>1, <3>4
    <3> QED
      BY <3>5 DEF Written, Reads
  <2>2. CASE k = last
    <3>1. p.index = i
      BY <1>6, <2>2
    <3>2. array'[i] = [value |-> i, kind |-> Item.kind, detail |-> d]
      BY <1>1, <1>3 DEF Stored, Shape
    <3>3. Item.kind = items'[i].kind
      BY <1>1 DEF Item
    <3>4. ASSUME Item.kind \in Bearers
          PROVE  details'[Item.kind][d] = i /\ d \in 1..used'[Item.kind]
      <4> PICK b \in Bearers : b = Item.kind
        BY <3>4
      <4>1. d = used[b] + 1 /\ d \in 1..n /\ used[b] \in Nat
        BY <1>1, <1>3, <1>4, StoredOK DEF HasDetail, FreeDetail
      <4>2. details' = [details EXCEPT ![b][d] = i]
        BY <1>1, <4>1 DEF DetailStored, HasDetail, FreeDetail
      <4>3. details'[b][d] = i
        BY <4>1, <4>2 DEF Shape
      <4>4. used'[b] = used[b] + 1
        BY <1>1 DEF HasDetail, EncodersInv, TypeOK
      <4> QED
        BY <4>1, <4>3, <4>4
    <3>5. Written(p)'
      BY <3>1, <3>2, <3>3, <3>4 DEF Written, Reads
    <3> QED
      BY <3>5 DEF Written, Reads
  <2> QED
    BY <1>6, <2>1, <2>2
<1>12. i' > 0 /\ (linked <=> HasList(Len(items)))'
  BY <1>1, <1>2 DEF HasList
<1>13. Content'
  BY <1>7, <1>8, <1>11, <1>12 DEF Content
<1> QED
  BY <1>12, <1>13, <1>1, <1>2 DEF EncodesRequest

(* An item that is passed over leaves the list as it is.                   *)
LEMMA ContentSkip ==
    ASSUME EncodersInv, Content, SkipItem
    PROVE  Content' /\ EncodesRequest'
<1> PICK n \in 1..Bound : Shape(n)
  BY Facts
<1> PICK d : d = array[i].detail
  OBVIOUS
<1>1. /\ MoreItems /\ Item.kind = "neither" /\ Stored(d)
      /\ i' = i + 1
      /\ UNCHANGED <<encoder, items, details, used, list, linked, ies, result>>
  BY DEF SkipItem
<1>2. /\ linked /\ Listed = {k \in Kept : k < i} /\ InOrder
      /\ \A k \in DOMAIN list : Written(list[k])
      /\ i > 0 /\ i \in Nat /\ i \in DOMAIN items
      /\ HasList(Len(items)) /\ (linked <=> HasList(Len(items)))
  BY <1>1, LinkedNow
<1>3. /\ i \in 1..n /\ DOMAIN items = 1..Len(items) /\ d \in Nat
      /\ \A k \in DOMAIN list : list[k].index \in Nat /\ list[k].index < i
  BY <1>1, LoopFacts
<1>4. Listed' = {k \in Kept : k < i}'
  <2>1. Kept' = Kept /\ i \notin Kept /\ \A k \in Kept : k \in Nat
    BY <1>1, <1>3 DEF Kept, Item
  <2>2. {k \in Kept : k < i + 1} = {k \in Kept : k < i}
    BY <1>2, <2>1
  <2> QED
    BY <1>1, <1>2, <2>1, <2>2 DEF Listed
<1>5. ASSUME NEW k \in DOMAIN list' PROVE Written(list[k])'
  <2> PICK p : p = list[k]
    OBVIOUS
  <2>1. Written(p) /\ p.index < i /\ p.index \in Nat /\ p = list'[k] /\ k \in DOMAIN list
    BY <1>1, <1>2, <1>3
  <2>2. p.index \in Listed
    BY <2>1 DEF Listed
  <2>3. p.index \in 1..Len(items)
    BY <1>2, <1>3, <2>2 DEF Kept
  <2>4. p.index \in 1..n
    BY <1>3, <2>1, <2>3
  <2>5. Written(p)'
    BY <1>1, <1>3, <2>1, <2>4, WrittenKept
  <2> QED
    BY <2>1, <2>5 DEF Written, Reads
<1>6. i' > 0 /\ (linked <=> HasList(Len(items)))' /\ InOrder'
  BY <1>1, <1>2 DEF HasList, InOrder
<1>7. Content'
  BY <1>4, <1>5, <1>6 DEF Content
<1> QED
  BY <1>1, <1>2, <1>7 DEF EncodesRequest

(* When the loop is through, the list has every item that is kept.         *)
LEMMA ContentFinish ==
    ASSUME EncodersInv, Content, EncodesRequest, Finish
    PROVE  Content' /\ EncodesRequest'
<1>1. /\ i' = 0 /\ ies' = ies + 1
      /\ UNCHANGED <<encoder, items, array, details, used, list, linked>>
  BY DEF Finish
<1>2. Content'
  BY <1>1 DEF Content
<1>3. i \in Nat /\ i > Len(items) /\ Len(items) \in Nat /\ DOMAIN items = 1..Len(items)
      /\ encoder \in Encoders
  BY Facts, EncodersAssumption DEF Finish
<1>4. i > 0
  BY <1>3
<1>5. ies' = Elements(encoder)
  <2>1. ies = Elements(encoder) - 1
    BY <1>4 DEF EncodersInv, Loop, Leading
  <2>2. Elements(encoder) \in Nat
    BY <1>3, ElementsFacts
  <2> QED
    BY <1>1, <2>1, <2>2
<1>6. linked \/ items = <<>>
  <2>1. (linked <=> HasList(Len(items)))
    BY <1>4 DEF Content
  <2>2. Len(items) = 0 => items = <<>>
    <3>1. items \in Seq(ItemsOf(encoder))
      BY RequestFacts DEF EncodersInv, TypeOK
    <3> QED
      BY <3>1
  <2> QED
    BY <1>3, <2>1, <2>2 DEF HasList
<1>7. ASSUME linked
      PROVE  Listed = Kept /\ InOrder /\ \A k \in DOMAIN list : Reads(list[k])
  <2>1. /\ Listed = {k \in Kept : k < i} /\ InOrder
        /\ \A k \in DOMAIN list : Written(list[k])
    BY <1>4, <1>7 DEF Content
  <2>2. \A k \in Kept : k < i
    BY <1>3 DEF Kept
  <2> QED
    BY <2>1, <2>2 DEF Written
<1>8. EncodesRequest'
  <2>1. Listed' = Listed /\ Kept' = Kept /\ (InOrder' <=> InOrder)
    BY <1>1 DEF Listed, Kept, InOrder
  <2>2. (\A k \in DOMAIN list : Reads(list[k])) => (\A k \in DOMAIN list : Reads(list[k]))'
    BY <1>1 DEF Reads
  <2> QED
    BY <1>1, <1>5, <1>6, <1>7, <2>1, <2>2 DEF EncodesRequest
<1> QED
  BY <1>2, <1>8

(* What is encoded is the message and nothing else, for messages of any    *)
(* length, in any order, whatever was encoded or refused before.           *)
THEOREM EncodesRequestAlways == Spec => []EncodesRequest
<1>1. Init => Content /\ EncodesRequest
  BY DEF Init, Content, EncodesRequest
<1>2. EncodersInv /\ Content /\ EncodesRequest /\ [Next]_vars => Content' /\ EncodesRequest'
  <2> SUFFICES ASSUME EncodersInv, Content, EncodesRequest, [Next]_vars
               PROVE  Content' /\ EncodesRequest'
    OBVIOUS
  <2>1. CASE RefuseItem
    BY <2>1 DEF RefuseItem, Content, EncodesRequest
  <2>2. CASE UNCHANGED vars
    <3>1. Listed' = Listed /\ Kept' = Kept /\ (InOrder' <=> InOrder)
          /\ UNCHANGED <<i, linked, list, items, encoder, ies, result>>
          /\ HasList(Len(items))' = HasList(Len(items))
      BY <2>2 DEF vars, Listed, Kept, InOrder, HasList
    <3>2. ASSUME NEW k \in DOMAIN list
          PROVE  /\ Written(list[k]) => Written(list[k])'
                 /\ Reads(list[k]) => Reads(list[k])'
      BY <2>2 DEF vars, Written, Reads
    <3> QED
      BY <3>1, <3>2 DEF Content, EncodesRequest
  <2> QED
    BY <2>1, <2>2, ContentBegin, ContentAdd, ContentSkip, ContentFinish DEF Next
<1> QED
  BY <1>1, <1>2, EncodersInvariant, PTL DEF Spec
=============================================================================
