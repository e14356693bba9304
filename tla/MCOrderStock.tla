---------------------------- MODULE MCOrderStock ----------------------------
(* Two instances of OrderStock for one run of TLC (instance): in "races" one *)
(* order and one key, with edits and restocks, meet all the handlers; in     *)
(* "contention" two orders and two keys compete for the one unit of a        *)
(* product, which is never refilled.                                         *)
EXTENDS OrderStock, TLC

CONSTANTS MaxUnits,     \* bound: units of one product in a cart
          Instances     \* the instances of a run

VARIABLE instance

ASSUME HoldersFinite == IsFiniteSet(Orders) /\ IsFiniteSet(Keys)

MCCarts == [Products -> 0..MaxUnits] \ {NoItems}
OneOfEach == [p \in Products |-> 1]

Sym == Permutations(Requests) \cup Permutations(Orders) \cup Permutations(Keys)

Contention == INSTANCE OrderStock WITH Carts <- {OneOfEach}, Restocks <- {}, MaxVersion <- 1

(* At most one order, and sales under one key *)
KeyInUse(k) ==
  posSales[k].status # "none" \/ \E r \in Requests : req[r].op = "sale" /\ req[r].key = k
RacesNext ==
  /\ Next
  /\ \A o, q \in Orders : Exists(o)' /\ Exists(q)' => o = q
  /\ \A k, l \in Keys : KeyInUse(k)' /\ KeyInUse(l)' => k = l

MCInit ==
  /\ Init /\ instance \in Instances
  /\ instance = "contention" => quantity = OneOfEach
MCNext ==
  /\ instance' = instance
  /\ \/ instance = "races" /\ RacesNext
     \/ instance = "contention" /\ Contention!Next
MCSpec == MCInit /\ [][MCNext]_<<vars, instance>>

(* The units of a product that each holder has, each unit by itself           *)
UnitsOf(n) == UNION {{h} \X (1..n[h]) : h \in DOMAIN n}
OrdersHold(p) == [o \in Orders |-> IF Holding(o) THEN orders[o].items[p] ELSE 0]
SalesHold(p) == [k \in Keys |-> posSales[k].items[p]]

(* Where the stock starts with one unit of each product and is never refilled: *)
(* a unit is on the shelf, or in one order that was not canceled, or in one    *)
(* sale of the cash register.  However many handlers compete for it, it is     *)
(* neither sold twice nor lost.  (No history variable appears here: the rows   *)
(* alone account for every unit.)                                              *)
OneUnitEach ==
  instance = "contention" => \A p \in Products :
    quantity[p] + Cardinality(UnitsOf(OrdersHold(p)))
                + Cardinality(UnitsOf(SalesHold(p))) = 1
=============================================================================
