------------------------------ MODULE ItemEncoders ------------------------------
(***************************************************************************)
(* The encoders that carry a list of items and are used again for one      *)
(* message after the other (set_fields and encode_* of                     *)
(* src/E2AP-c/subscription/subscription_request.cc, src/E2SM/e2sm.cc,      *)
(* src/X2AP/sgnb_addition_request.cc and sgnb_addition_response.cc).       *)
(*                                                                         *)
(* Each keeps an array of items, made larger when a message has more, and  *)
(* for the X2AP messages two more arrays, of the details of the bearers    *)
(* with and without PDCP at the SgNB.  The list in the PDU has pointers to *)
(* items, an item a pointer to its detail; none is cleared when a message  *)
(* is done.  What is stored is the position, in the message being encoded, *)
(* of the item it was taken from: 0 is what an earlier message left, or    *)
(* what calloc left.  An array is a number of places: that the admitted    *)
(* items' is allocated by the size of another type of item is not seen.    *)
(***************************************************************************)
EXTENDS Naturals, Sequences

CONSTANTS
    InitialSize,  \* INITIAL_REQUEST_LIST_SIZE, INITIAL_LIST_SIZE, INITIAL_SIZE
    MaxItems      \* bounds the items of a message

ASSUME EncodersAssumption == InitialSize \in Nat \ {0} /\ MaxItems \in Nat

VARIABLES
    encoder,  \* which of the encoders this one is
    items,    \* the message being encoded, or encoded last
    i,        \* the item it comes to next; 0 between messages
    size,     \* the size it has recorded for its arrays
    array,    \* the array of items
    details,  \* the arrays of details
    used,     \* how many of them this message has filled
    list,     \* the items in the PDU
    linked,   \* the PDU has the list at all
    ies,      \* the number of elements in the PDU, the list included
    result    \* what encode_* returned last

vars == <<encoder, items, i, size, array, details, used, list, linked, ies, result>>

Encoders == {"subscription_request", "event_trigger", "sgnb_request", "sgnb_response"}
X2AP == {"sgnb_request", "sgnb_response"}
Bearers == {"present", "notpresent"}
Results == {"none", "ok", "failed"}

(* Items by kind; one that is not legal is refused in the loop.            *)
ItemsOf(e) ==
    CASE e = "subscription_request" -> {[kind |-> "action", legal |-> TRUE]}
      [] e = "event_trigger" -> {[kind |-> "value", legal |-> b] : b \in BOOLEAN}
      [] OTHER -> [kind : Bearers, legal : BOOLEAN] \cup {[kind |-> "neither", legal |-> TRUE]}
Requests(e) == UNION {[1..n -> ItemsOf(e)] : n \in 0..MaxItems}

(* The elements added before the list and with it.  Those of an event      *)
(* trigger are members of a structure.                                     *)
Elements(e) == CASE e = "subscription_request" -> 3 [] e = "event_trigger" -> 1
                 [] e = "sgnb_request" -> 8 [] OTHER -> 4

Kinds == {"none", "action", "value", "neither"} \cup Bearers
Blank == [value |-> 0, kind |-> "none", detail |-> 0]
NewArray(n) == [k \in 1..n |-> Blank]
NewDetails(n) == [b \in Bearers |-> [k \in 1..n |-> 0]]
NoneUsed == [b \in Bearers |-> 0]

Init ==
    /\ encoder \in Encoders
    /\ items = <<>>
    /\ i = 0
    /\ size = InitialSize
    /\ array = NewArray(InitialSize)
    /\ details = NewDetails(InitialSize)
    /\ used = NoneUsed
    /\ list = <<>>
    /\ linked = FALSE
    /\ ies = 0
    /\ result = "none"

-----------------------------------------------------------------------------
(* A message is begun.                                                     *)

(* The arrays are too small.  (A plausible bug: off by one.)               *)
MutantGrows(n) == n > size + 1
Grows(n) == IF encoder \in X2AP THEN n >= size ELSE n > size
Enlarged(n) == 2 * n

(* The size recorded after that: sgnb_addition_request forgets it.         *)
Recorded(n) == IF encoder = "sgnb_request" THEN InitialSize ELSE Enlarged(n)

(* Without items only the subscription request has a list all the same.    *)
HasList(n) == n > 0 \/ encoder = "subscription_request"

(* list.count = 0.  (A plausible bug: it is left as it was.)               *)
MutantReset(l) == l
Reset(l) == <<>>
Freed(l) == [k \in DOMAIN l |-> [l[k] EXCEPT !.live = FALSE]]

(* protocolIEs.list.count = 0, and the elements before the list are added. *)
(* (A plausible bug: the count is not reset.)                              *)
MutantLeading == ies + Elements(encoder) - 1
Leading == Elements(encoder) - 1

Begin(m) ==
    /\ i = 0
    /\ items' = m
    /\ i' = 1
    /\ ies' = Leading
    /\ linked' = HasList(Len(m))
    /\ used' = NoneUsed
    /\ IF HasList(Len(m)) /\ Grows(Len(m))
       THEN /\ size' = Recorded(Len(m))
            /\ array' = NewArray(Enlarged(Len(m)))
            /\ details' = NewDetails(Enlarged(Len(m)))
            /\ list' = Reset(Freed(list))
       ELSE /\ size' = size
            /\ array' = [k \in DOMAIN array |-> [array[k] EXCEPT !.value = 0]]
            /\ details' = [b \in Bearers |-> [k \in DOMAIN details[b] |-> 0]]
            /\ list' = IF HasList(Len(m)) THEN Reset(list) ELSE list
    /\ UNCHANGED <<encoder, result>>

-----------------------------------------------------------------------------
(* The loop over the items.                                                *)

Item == items[i]
MoreItems == i \in 1..Len(items)
HasDetail == Item.kind \in Bearers

(* The next free detail of its kind.  (A plausible bug: one index for      *)
(* both kinds that is not advanced.)                                       *)
MutantFreeDetail(kind) == 1
FreeDetail(kind) == used[kind] + 1

(* The item's own fields, and its pointer to a detail.                     *)
Stored(detail) ==
    array' = [array EXCEPT ![i] = [value |-> i, kind |-> Item.kind, detail |-> detail]]

DetailStored ==
    details' = IF HasDetail
               THEN [details EXCEPT ![Item.kind][FreeDetail(Item.kind)] = i]
               ELSE details

(* ASN_SEQUENCE_ADD.                                                       *)
AddItem ==
    /\ MoreItems
    /\ Item.kind # "neither"
    /\ Item.legal
    /\ Stored(IF HasDetail THEN FreeDetail(Item.kind) ELSE array[i].detail)
    /\ DetailStored
    /\ used' = IF HasDetail THEN [used EXCEPT ![Item.kind] = @ + 1] ELSE used
    /\ list' = Append(list, [index |-> i, live |-> TRUE])
    /\ i' = i + 1
    /\ UNCHANGED <<encoder, items, size, linked, ies, result>>

(* "Could not find a pdcp present or not present flag": continue.          *)
SkipItem ==
    /\ MoreItems
    /\ Item.kind = "neither"
    /\ Stored(array[i].detail)
    /\ i' = i + 1
    /\ UNCHANGED <<encoder, items, size, details, used, list, linked, ies, result>>

(* An illegal value, or a constraint the item or its detail violates: the  *)
(* loop is left in the middle, before or after the pointer was set.        *)
RefuseItem ==
    /\ MoreItems
    /\ ~Item.legal
    /\ \/ Stored(array[i].detail)
       \/ HasDetail /\ Stored(FreeDetail(Item.kind))
    /\ DetailStored
    /\ i' = 0
    /\ result' = "failed"
    /\ UNCHANGED <<encoder, items, size, used, list, linked, ies>>

(* The element with the list is added, the PDU checked and encoded: its    *)
(* list, where it has one, must not be empty, nor the list be missing but  *)
(* from an event trigger; and another field or the buffer may fail.        *)
Encodable == IF linked THEN list # <<>> ELSE encoder = "event_trigger"
Finish ==
    /\ i > Len(items)
    /\ i' = 0
    /\ ies' = ies + 1
    /\ result' \in IF Encodable THEN {"ok", "failed"} ELSE {"failed"}
    /\ UNCHANGED <<encoder, items, size, array, details, used, list, linked>>

Next == \/ \E m \in Requests(encoder) : Begin(m)
        \/ AddItem \/ SkipItem \/ RefuseItem \/ Finish

Spec == Init /\ [][Next]_vars

-----------------------------------------------------------------------------
(* Properties.                                                             *)

TypeOK ==
    /\ encoder \in Encoders
    /\ items \in Requests(encoder)
    /\ i \in 0..MaxItems + 1
    /\ size \in 1..InitialSize + 2 * MaxItems
    /\ \E n \in 1..InitialSize + 2 * MaxItems :
          /\ array \in [1..n -> [value : 0..MaxItems, kind : Kinds, detail : Nat]]
          /\ details \in [Bearers -> [1..n -> 0..MaxItems]]
    /\ used \in [Bearers -> 0..MaxItems]
    /\ list \in Seq([index : Nat, live : BOOLEAN])
    /\ linked \in BOOLEAN
    /\ ies \in 0..Elements(encoder)
    /\ result \in Results

(* No write of the loop is beyond an array's end: the recorded size, which *)
(* decides whether to make room, is never more than what there is, and     *)
(* neither kind of detail can run out before the items do.                 *)
RoomForAll ==
    MoreItems => /\ i \in DOMAIN array
                 /\ \A b \in Bearers : FreeDetail(b) \in DOMAIN details[b]

(* Nothing in the list points into an array that was freed, beyond its end *)
(* or to a detail that does not exist, not even in what a message that was *)
(* refused half-way has left for the next.                                 *)
ListAlive ==
    \A k \in DOMAIN list :
       LET p == list[k] IN
       /\ p.live
       /\ p.index \in DOMAIN array
       /\ array[p.index].kind \in Bearers =>
             array[p.index].detail \in DOMAIN details[array[p.index].kind]

(* What is encoded is the message: every item it should keep, once, in     *)
(* order, each with its own detail, and no element or item of an earlier   *)
(* message, whatever was encoded or refused before.                        *)
Kept == {k \in DOMAIN items : items[k].kind # "neither"}
Listed == {list[k].index : k \in DOMAIN list}
InOrder == \A j, k \in DOMAIN list : j < k => list[j].index < list[k].index
Reads(p) ==
    LET a == array[p.index] IN
    /\ a.value = p.index
    /\ a.kind = items[a.value].kind
    /\ a.kind \in Bearers => details[a.kind][a.detail] = a.value
EncodesRequest ==
    (i = 0 /\ result = "ok") =>
       /\ ies = Elements(encoder)
       /\ linked \/ items = <<>>
       /\ linked => /\ Listed = Kept
                    /\ InOrder
                    /\ \A k \in DOMAIN list : Reads(list[k])
=============================================================================
