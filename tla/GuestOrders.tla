---------------------------- MODULE GuestOrders ----------------------------
(***************************************************************************)
(* Checkout of the public storefront: StorefrontService.createGuestOrder.  *)
(*                                                                         *)
(* A customer has no account: an order is known by the Idempotency-Key the *)
(* browser sends and the customer by the phone number, which may have      *)
(* Limit active orders.  The count of the active orders and the creation   *)
(* are several statements of a READ COMMITTED transaction, serialised per  *)
(* phone by an advisory lock; the key is unique in the table.  A           *)
(* transaction may be chosen as the victim of a deadlock (P2034) and be    *)
(* tried again; it may fail for good, and its commit may go unheard, in    *)
(* which case the browser sends the request again under the same key.      *)
(*                                                                         *)
(* One product; the body of a request is how many units of it are ordered. *)
(* What happens to orders later is reduced to what the count and the stock *)
(* see of it (OrderStock has all of it).                                   *)
(***************************************************************************)
EXTENDS Integers, FiniteSets

CONSTANTS Phones, Keys,
          Requests,    \* the HTTP requests that will ever arrive
          Bodies,      \* what a request may ask for: units of the product
          Limit,       \* STOREFRONT_ACTIVE_ORDER_LIMIT
          MaxTries,    \* maximumAttempts
          Stock,       \* units of the product in the beginning
          NoOne        \* nobody holds the lock

ASSUME KeysAssumption == IsFiniteSet(Keys)
ASSUME PhonesAssumption == Phones # {}
ASSUME BodiesAssumption == Bodies \subseteq Nat /\ Bodies # {}
ASSUME LimitAssumption == Limit \in Nat \ {0}
ASSUME MaxTriesAssumption == MaxTries \in Nat \ {0}
ASSUME StockAssumption == Stock \in Nat
ASSUME NoOneAssumption == NoOne \notin Requests

VARIABLES quantity,    \* products.quantity
          order,       \* the order with the key, if any
          lock,        \* holder of pg_advisory_xact_lock per phone
          req,         \* what each request asks for
          pc,          \* where each request is
          tries,       \* transactions each request has tried
          answer       \* what each request was answered

guestVars == <<quantity, order, lock, req, pc, tries, answer>>

(* What idempotencyRequestHash is the hash of: the phone and the contents *)
Contents == [phone : Phones, body : Bodies]

(* pending stands for preparing too, which nothing here tells apart *)
Active == {"pending", "paid"}
Holding == Active \cup {"delivered"}

(* phone: customerPhone, which the staff may rewrite (then ~own); counted:  *)
(* neither soft-deleted nor older than the window of 30 days                *)
OrderRow == [status : {"none", "canceled"} \cup Holding, counted : BOOLEAN,
             phone : Phones, own : BOOLEAN, hash : Contents]

GuestTypeOK ==
  /\ quantity \in Nat
  /\ order \in [Keys -> OrderRow]
  /\ lock \in [Phones -> Requests \cup {NoOne}]
  /\ req \in [Requests -> [key : Keys, hash : Contents]]
  /\ pc \in [Requests -> {"new", "waiting", "locked", "checked", "counted",
                          "backoff", "collided", "done"}]
  /\ tries \in [Requests -> 0..MaxTries]
  /\ answer \in [Requests -> {"none", "order", "conflict", "lost"}]

(* The row of a new order *)
NewOrder(h) == [status |-> "pending", counted |-> TRUE,
                phone |-> h.phone, own |-> TRUE, hash |-> h]

NoOrder == [NewOrder(CHOOSE h \in Contents : TRUE) EXCEPT !.status = "none"]

GuestInit ==
  /\ quantity = Stock
  /\ order = [k \in Keys |-> NoOrder]
  /\ lock = [p \in Phones |-> NoOne]
  /\ req \in [Requests -> [key : Keys, hash : Contents]]
  /\ pc = [r \in Requests |-> "new"]
  /\ tries = [r \in Requests |-> 0]
  /\ answer = [r \in Requests |-> "none"]

Phone(r) == req[r].hash.phone
Units(r) == req[r].hash.body

Exists(k) == order[k].status # "none"

(* The active orders the count sees *)
ActiveOrders(p) == {k \in Keys : /\ order[k].status \in Active
                                 /\ order[k].counted
                                 /\ order[k].phone = p}

(* The order with the key was made by a request with the same contents *)
SameRequest(r) == order[req[r].key].hash = req[r].hash

Goto(r, label) == pc' = [pc EXCEPT ![r] = label]

Answer(r, a) == Goto(r, "done") /\ answer' = [answer EXCEPT ![r] = a]

(* The end of a transaction, committed or not, releases its lock *)
Release(r) == lock' = [p \in Phones |-> IF lock[p] = r THEN NoOne ELSE lock[p]]

InTransaction(r) == pc[r] \in {"locked", "checked", "counted"}

-----------------------------------------------------------------------------
(* A request arrives, is validated and begins its transaction *)
Begin(r) ==
  /\ pc[r] = "new"
  /\ Goto(r, "waiting")
  /\ tries' = [tries EXCEPT ![r] = 1]
  /\ UNCHANGED <<quantity, order, lock, req, answer>>

(* Fault: the transaction does not wait for the lock *)
LockShared(r) ==
  /\ pc[r] = "waiting"
  /\ lock' = [lock EXCEPT ![Phone(r)] = r]
  /\ Goto(r, "locked")
  /\ UNCHANGED <<quantity, order, req, tries, answer>>

(* pg_advisory_xact_lock *)
Lock(r) ==
  /\ pc[r] = "waiting"
  /\ lock[Phone(r)] = NoOne
  /\ lock' = [lock EXCEPT ![Phone(r)] = r]
  /\ Goto(r, "locked")
  /\ UNCHANGED <<quantity, order, req, tries, answer>>

(* Fault: the request hash is not compared *)
CheckKeyOnly(r) ==
  /\ pc[r] = "locked"
  /\ IF Exists(req[r].key)
     THEN Answer(r, "order") /\ Release(r)
     ELSE Goto(r, "checked") /\ UNCHANGED <<lock, answer>>
  /\ UNCHANGED <<quantity, order, req, tries>>

(* The key was used: the same order for the same request, else a conflict *)
Check(r) ==
  /\ pc[r] = "locked"
  /\ IF Exists(req[r].key)
     THEN Answer(r, IF SameRequest(r) THEN "order" ELSE "conflict") /\ Release(r)
     ELSE Goto(r, "checked") /\ UNCHANGED <<lock, answer>>
  /\ UNCHANGED <<quantity, order, req, tries>>

(* The active orders of the phone are counted *)
Count(r) ==
  /\ pc[r] = "checked"
  /\ IF Cardinality(ActiveOrders(Phone(r))) >= Limit
     THEN Answer(r, "conflict") /\ Release(r)
     ELSE Goto(r, "counted") /\ UNCHANGED <<lock, answer>>
  /\ UNCHANGED <<quantity, order, req, tries>>

(* Fault: the decrement is a transaction of its own *)
CommitStockFirst(r) ==
  /\ pc[r] = "counted"
  /\ Release(r)
  /\ IF quantity < Units(r) THEN Answer(r, "conflict") /\ UNCHANGED <<quantity, order>>
     ELSE /\ quantity' = quantity - Units(r)
          /\ IF Exists(req[r].key)
             THEN Goto(r, "collided") /\ UNCHANGED <<order, answer>>
             ELSE /\ order' = [order EXCEPT ![req[r].key] = NewOrder(req[r].hash)]
                  /\ Answer(r, "order")
  /\ UNCHANGED <<req, tries>>

(* Stock is taken, the order and its outbox row are written, and committed, *)
(* if there is stock and the key is still unused: with another phone the    *)
(* same key may have been used meanwhile (P2002)                            *)
Commit(r) ==
  /\ pc[r] = "counted"
  /\ Release(r)
  /\ \/ /\ quantity < Units(r)
        /\ Answer(r, "conflict")
        /\ UNCHANGED <<quantity, order>>
     \/ /\ quantity >= Units(r) /\ Exists(req[r].key)
        /\ Goto(r, "collided")
        /\ UNCHANGED <<quantity, order, answer>>
     \/ /\ quantity >= Units(r) /\ ~Exists(req[r].key)
        /\ quantity' = quantity - Units(r)
        /\ order' = [order EXCEPT ![req[r].key] = NewOrder(req[r].hash)]
        /\ \E a \in {"order", "lost"} : Answer(r, a)
  /\ UNCHANGED <<req, tries>>

(* The order that took the key is looked up *)
Replay(r) ==
  /\ pc[r] = "collided"
  /\ Answer(r, IF Exists(req[r].key) /\ SameRequest(r) THEN "order" ELSE "conflict")
  /\ UNCHANGED <<quantity, order, lock, req, tries>>

(* Fault: the lock is taken with pg_advisory_lock and outlives an aborted  *)
(* transaction                                                             *)
TransientKeepsLock(r) ==
  /\ InTransaction(r) \/ pc[r] = "waiting"
  /\ IF tries[r] >= MaxTries THEN Answer(r, "lost")
                             ELSE Goto(r, "backoff") /\ UNCHANGED answer
  /\ UNCHANGED <<quantity, order, lock, req, tries>>

(* P2034: the transaction is undone; it is tried again after a pause, or    *)
(* the error is passed on                                                   *)
Transient(r) ==
  /\ InTransaction(r) \/ pc[r] = "waiting"
  /\ Release(r)
  /\ IF tries[r] >= MaxTries THEN Answer(r, "lost")
                             ELSE Goto(r, "backoff") /\ UNCHANGED answer
  /\ UNCHANGED <<quantity, order, req, tries>>

Retry(r) ==
  /\ pc[r] = "backoff"
  /\ Goto(r, "waiting")
  /\ tries' = [tries EXCEPT ![r] = @ + 1]
  /\ UNCHANGED <<quantity, order, lock, req, answer>>

(* Any other end without an answer: the transaction's timeout, another     *)
(* error, the server process going away                                    *)
RequestFails(r) ==
  /\ pc[r] \notin {"new", "done"}
  /\ Release(r)
  /\ Answer(r, "lost")
  /\ UNCHANGED <<quantity, order, req, tries>>

-----------------------------------------------------------------------------
(* What happens to orders meanwhile: paid or delivered by the staff, or     *)
(* paid and refunded                                                        *)
Advance(k) ==
  /\ \/ order[k].status = "pending" /\ order' = [order EXCEPT ![k].status = "paid"]
     \/ order[k].status \in Active /\ order' = [order EXCEPT ![k].status = "delivered"]
  /\ UNCHANGED <<quantity, lock, req, pc, tries, answer>>

(* Canceled by the staff or the customer, or expired: the stock goes back *)
Cancel(k) ==
  /\ order[k].status = "pending"
  /\ order' = [order EXCEPT ![k].status = "canceled"]
  /\ quantity' = quantity + order[k].hash.body
  /\ UNCHANGED <<lock, req, pc, tries, answer>>

(* Deleted by the staff, or left behind by the window *)
Hide(k) ==
  /\ Exists(k) /\ order[k].counted
  /\ order' = [order EXCEPT ![k].counted = FALSE]
  /\ UNCHANGED <<quantity, lock, req, pc, tries, answer>>

(* The staff rewrites the phone of an order that is still mutable, without *)
(* the lock and without counting                                           *)
Rephone(k, p) ==
  /\ order[k].status = "pending"
  /\ order' = [order EXCEPT ![k].phone = p, ![k].own = FALSE]
  /\ UNCHANGED <<quantity, lock, req, pc, tries, answer>>

RequestStep(r) == \/ Begin(r) \/ Check(r) \/ Count(r) \/ Commit(r) \/ Replay(r) \/ Retry(r)

GuestNext ==
  \/ \E r \in Requests : RequestStep(r)
  \/ \E r \in Requests : Lock(r)
  \/ \E r \in Requests : Transient(r)
  \/ \E r \in Requests : RequestFails(r)
  \/ \E k \in Keys : Advance(k)
  \/ \E k \in Keys : Cancel(k)
  \/ \E k \in Keys : Hide(k)
  \/ \E k \in Keys, p \in Phones : Rephone(k, p)

(* A request that can go on does; PostgreSQL grants a lock in the order in  *)
(* which it was asked for, so that a waiting request is not passed over for *)
(* ever.                                                                    *)
GuestFairness == \A r \in Requests : WF_guestVars(RequestStep(r)) /\ SF_guestVars(Lock(r))

GuestSpec == GuestInit /\ [][GuestNext]_guestVars /\ GuestFairness

-----------------------------------------------------------------------------
(* Properties *)

(* The active orders that a phone placed and that still carry it *)
OwnOrders(p) == {k \in ActiveOrders(p) : order[k].own}

(* RC-015: whatever the concurrency, no phone has more active orders of its *)
(* own than the limit, though staff and time change the orders while they   *)
(* are counted.  Orders whose phone the staff rewrote are left out: that    *)
(* edit neither counts nor takes the lock.                                  *)
ActiveLimit == \A p \in Phones : Cardinality(OwnOrders(p)) <= Limit

(* A request that is answered with an order gets the order it asked for:   *)
(* its key never yields the order of another phone or of other contents.   *)
AnswersAgree ==
  \A r \in Requests : answer[r] = "order" => Exists(req[r].key) /\ SameRequest(r)

(* Every request is answered: no lock is left behind, and tries are finite *)
Answered == \A r \in Requests : pc[r] # "new" ~> pc[r] = "done"
=============================================================================
