----------------------------- MODULE OrderStock -----------------------------
(***************************************************************************)
(* Orders, sales and product stock of one branch.                          *)
(*                                                                         *)
(* OrdersService, SalesService, StorefrontService and ProductsService all  *)
(* write the same rows of PostgreSQL: products.quantity, orders and sales. *)
(* Requests run concurrently, each in a READ COMMITTED transaction: every  *)
(* statement sees what is committed when it starts, and an UPDATE locks    *)
(* its rows until the transaction ends and tests its WHERE clause against  *)
(* the newest committed row.  So a transaction is modelled by              *)
(*   - one step for the reads it does before its first UPDATE, whose       *)
(*     results it keeps (the request's record in req), and                 *)
(*   - one step for everything from that UPDATE (the claim) to the commit: *)
(*     the rows it has updated are locked and nobody sees them before.     *)
(* A transaction that throws rolls back: it changes nothing.               *)
(*                                                                         *)
(* Quantities are whole units (products sold by weight keep a second       *)
(* counter, which orders never touch).  Prices, customer data and audit    *)
(* rows are left out; the items of an order stand for its totals too.      *)
(***************************************************************************)
EXTENDS Integers, FiniteSets

CONSTANTS Products,     \* rows of products of the branch
          Orders,       \* order ids
          Keys,         \* idempotency keys of cash register sales
          Requests,     \* slots for HTTP requests being served at once
          Carts,        \* what a request may ask for: units per product
          Restocks,     \* quantities the product form may set
          MaxVersion    \* bound: an order is edited below this version only

NoItems == [p \in Products |-> 0]

ASSUME CartsAssumption == Carts \subseteq [Products -> Nat]
ASSUME HoldersAssumption == Orders \cap Keys = {}
ASSUME RestocksAssumption == Restocks \subseteq Nat \ {0}
ASSUME MaxVersionAssumption == MaxVersion \in Nat

VARIABLES quantity,     \* products.quantity
          orders,       \* rows of orders, with their items
          orderSales,   \* the sale with orderId = o (sales.order_id is unique)
          posSales,     \* the sale with idempotencyKey = k (unique per branch)
          req,          \* what each request in flight has read
          ledger,       \* history: units each order or sale took, net of returns
          staleClaims   \* history: orders claimed with items read before an edit

vars == <<quantity, orders, orderSales, posSales, req, ledger, staleClaims>>

Status == {"pending", "preparing", "paid", "delivered", "canceled", "refunded"}

(* ORDER_STATUS_TRANSITIONS and sourcesFor *)
Transitions ==
  [s \in Status |->
     CASE s = "pending"   -> {"preparing", "paid", "delivered", "canceled"}
       [] s = "preparing" -> {"paid", "delivered", "canceled"}
       [] s = "paid"      -> {"delivered", "refunded"}
       [] s = "delivered" -> {"refunded"}
       [] OTHER           -> {}]

SourcesFor(next) == {s \in Status : next \in Transitions[s]}

(* Fault: a paid order can still be edited *)
MutableUntilDelivered(o) == orders[o].status \in {"pending", "preparing", "paid"}

(* assertMutable: neither in FINAL_STATUSES nor delivered *)
Mutable(o) == orders[o].status \in {"pending", "preparing"}

Exists(o) == orders[o].status # "none"

(* findScopedOrder: soft-deleted orders are not found *)
Found(o) == Exists(o) /\ ~orders[o].deleted

HasSale(o) == orderSales[o].status # "none"

(* The order keeps units out of the stock *)
Holding(o) == orders[o].status \notin {"none", "canceled"}

NoOrder == [status |-> "none", items |-> NoItems, version |-> 0,
            restored |-> FALSE, deleted |-> FALSE, guest |-> FALSE]
NoSale  == [status |-> "none", items |-> NoItems]
Idle    == [op |-> "idle"]

OrderRow == [status : Status \cup {"none"}, items : [Products -> Nat],
             version : Nat, restored : BOOLEAN, deleted : BOOLEAN,
             guest : BOOLEAN]
SaleRow  == [status : {"none", "paid", "canceled"}, items : [Products -> Nat]]

Request == {Idle}
  \cup [op : {"edit"}, order : Orders, status : Status,
        items : [Products -> Nat], version : Nat]
  \cup [op : {"cancel", "guestCancel"}, order : Orders,
        items : [Products -> Nat]]
  \cup [op : {"paying"}, order : Orders]
  \cup [op : {"pay"}, order : Orders, status : Status,
        items : [Products -> Nat]]
  \cup [op : {"sale"}, key : Keys, items : [Products -> Nat]]
  \cup [op : {"sweep"}, todo : SUBSET Orders]
  \cup [op : {"expire"}, todo : SUBSET Orders, order : Orders,
        items : [Products -> Nat]]

TypeOK ==
  /\ quantity \in [Products -> Nat]
  /\ orders \in [Orders -> OrderRow]
  /\ orderSales \in [Orders -> SaleRow]
  /\ posSales \in [Keys -> SaleRow]
  /\ req \in [Requests -> Request]
  /\ ledger \in [Orders \cup Keys -> [Products -> Int]]
  /\ staleClaims \subseteq Orders

Init ==
  /\ quantity \in Carts
  /\ orders = [o \in Orders |-> NoOrder]
  /\ orderSales = [o \in Orders |-> NoSale]
  /\ posSales = [k \in Keys |-> NoSale]
  /\ req = [r \in Requests |-> Idle]
  /\ ledger = [h \in Orders \cup Keys |-> NoItems]
  /\ staleClaims = {}

-----------------------------------------------------------------------------
(* Statements the handlers share *)

(* updateMany(products) for each delta: a negative delta requires          *)
(* quantity >= |delta|, and one that finds no row aborts the transaction;  *)
(* h is the order or the sale on whose behalf the units move.              *)
ApplyStockDelta(h, delta) ==
  /\ \A p \in Products : delta[p] < 0 => quantity[p] >= -delta[p]
  /\ quantity' = [p \in Products |-> quantity[p] + delta[p]]
  /\ ledger' = [ledger EXCEPT ![h] = [p \in Products |-> ledger[h][p] - delta[p]]]

Taking(items) == [p \in Products |-> -items[p]]

Done(r) == req' = [req EXCEPT ![r] = Idle]

(* Remember that the claim of o relies on items that were edited since *)
NoteClaim(o, seen) ==
  staleClaims' = IF seen = orders[o].items THEN staleClaims
                                           ELSE staleClaims \cup {o}

-----------------------------------------------------------------------------
(* OrdersService *)

(* create: the order row and the reservation of its stock *)
CreateOrder(o, items, isGuest) ==
  /\ ~Exists(o)
  /\ ApplyStockDelta(o, Taking(items))
  /\ orders' = [orders EXCEPT ![o] =
       [NoOrder EXCEPT !.status = "pending", !.items = items, !.version = 1,
                       !.guest = isGuest]]
  /\ UNCHANGED <<orderSales, posSales, staleClaims>>

AdminCreate(o, items) ==
  /\ CreateOrder(o, items, FALSE)
  /\ UNCHANGED req

(* findOne: the edit form keeps the version it was opened with, which the  *)
(* browser sends back as expectedVersion                                   *)
OpenEdit(r, o) ==
  /\ req[r] = Idle
  /\ Found(o) /\ Mutable(o)
  /\ req' = [req EXCEPT ![r] =
       [op |-> "edit", order |-> o, status |-> orders[o].status,
        items |-> orders[o].items, version |-> orders[o].version]]
  /\ UNCHANGED <<quantity, orders, orderSales, posSales, ledger, staleClaims>>

(* Fault: the expected version is not part of the claim *)
UpdateUnversioned(r, items) ==
  /\ req[r].op = "edit"
  /\ LET o == req[r].order
     IN  /\ Found(o) /\ Mutable(o)
         /\ orders[o].version < MaxVersion
         /\ ApplyStockDelta(o, [p \in Products |-> orders[o].items[p] - items[p]])
         /\ orders' = [orders EXCEPT ![o].items = items,
                                     ![o].version = @ + 1]
  /\ Done(r)
  /\ UNCHANGED <<orderSales, posSales, staleClaims>>

(* update: claim the expected version, read the order again under the      *)
(* lock, check it is still mutable, move the difference of the items       *)
Update(r, items) ==
  /\ req[r].op = "edit"
  /\ LET o == req[r].order
     IN  /\ Found(o)
         /\ orders[o].version = req[r].version
         /\ orders[o].version < MaxVersion
         /\ Mutable(o)
         /\ ApplyStockDelta(o, [p \in Products |-> orders[o].items[p] - items[p]])
         /\ orders' = [orders EXCEPT ![o].items = items,
                                     ![o].version = @ + 1]
  /\ Done(r)
  /\ UNCHANGED <<orderSales, posSales, staleClaims>>

(* Fault: a status change leaves the version alone *)
SetStatusUnversioned(o, next) ==
  /\ Found(o)
  /\ orders[o].status \in SourcesFor(next)
  /\ orders' = [orders EXCEPT ![o].status = next]
  /\ UNCHANGED <<quantity, orderSales, posSales, req, ledger, staleClaims>>

(* updateStatus with a status that has no handler of its own *)
SetStatus(o, next) ==
  /\ Found(o)
  /\ orders[o].status \in SourcesFor(next)
  /\ orders' = [orders EXCEPT ![o].status = next, ![o].version = @ + 1]
  /\ UNCHANGED <<quantity, orderSales, posSales, req, ledger, staleClaims>>

Deliver(o) == SetStatus(o, "delivered")

(* The handler takes "pending" too, which no status leads to: a conflict *)
UpdateStatus(o) == \E next \in {"preparing", "refunded"} : SetStatus(o, next)

(* cancel, its reads: an order canceled before is returned as it is, one   *)
(* with a sale is refused                                                  *)
CancelRead(r, o) ==
  /\ req[r] = Idle
  /\ Found(o)
  /\ ~(orders[o].status = "canceled" /\ orders[o].restored)
  /\ ~HasSale(o)
  /\ req' = [req EXCEPT ![r] =
       [op |-> "cancel", order |-> o, items |-> orders[o].items]]
  /\ UNCHANGED <<quantity, orders, orderSales, posSales, ledger, staleClaims>>

(* Fault: the cancellation trusts what was read and claims nothing *)
RestoreUnclaimed(o, sources, seen, bump) ==
  /\ orders' = [orders EXCEPT ![o].status = "canceled", ![o].restored = TRUE,
                              ![o].version = @ + bump]
  /\ ApplyStockDelta(o, seen)
  /\ NoteClaim(o, seen)
  /\ UNCHANGED <<orderSales, posSales>>

(* The claim of a cancellation: the status is still one of the sources and *)
(* the stock was not restored; then the items READ BEFORE go back.         *)
Restore(o, sources, seen, bump) ==
  /\ orders[o].status \in sources
  /\ ~orders[o].restored
  /\ orders' = [orders EXCEPT ![o].status = "canceled", ![o].restored = TRUE,
                              ![o].version = @ + bump]
  /\ ApplyStockDelta(o, seen)
  /\ NoteClaim(o, seen)
  /\ UNCHANGED <<orderSales, posSales>>

CancelClaim(r) ==
  /\ req[r].op = "cancel"
  /\ Found(req[r].order)
  /\ Restore(req[r].order, SourcesFor("canceled"), req[r].items, 1)
  /\ Done(r)

(* remove: the order is hidden, whatever its status; its stock stays taken *)
Remove(o) ==
  /\ Found(o)
  /\ orders' = [orders EXCEPT ![o].deleted = TRUE]
  /\ UNCHANGED <<quantity, orderSales, posSales, req, ledger, staleClaims>>

-----------------------------------------------------------------------------
(* SalesService *)

(* createFromOrder, before its transaction: an order that has its sale is  *)
(* answered with it                                                        *)
PayLookup(r, o) ==
  /\ req[r] = Idle
  /\ Exists(o)
  /\ ~HasSale(o)
  /\ req' = [req EXCEPT ![r] = [op |-> "paying", order |-> o]]
  /\ UNCHANGED <<quantity, orders, orderSales, posSales, ledger, staleClaims>>

(* ... then the transaction reads the order *)
PayRead(r) ==
  /\ req[r].op = "paying"
  /\ LET o == req[r].order
     IN  /\ Found(o)
         /\ req' = [req EXCEPT ![r] =
              [op |-> "pay", order |-> o, status |-> orders[o].status,
               items |-> orders[o].items]]
  /\ UNCHANGED <<quantity, orders, orderSales, posSales, ledger, staleClaims>>

(* Fault: paying an order that was delivered first sets it back to paid *)
PaymentTargetAlwaysPaid(seen) == "paid"

(* An order seen delivered stays delivered, any other becomes paid *)
PaymentTarget(seen) == IF seen = "delivered" THEN "delivered" ELSE "paid"

(* Fault: the payment claims the order in the status it was read in, or    *)
(* later in any status that is not final for the reader                    *)
PaymentSourcesUnchecked(seen) == Status \ {"refunded"}

PaymentSources(seen) ==
  IF seen = "delivered" THEN {"delivered"} ELSE SourcesFor("paid")

(* The claim of the payment, then the sale of the items READ BEFORE,       *)
(* unless another payment created it meanwhile                             *)
PayClaim(r) ==
  /\ req[r].op = "pay"
  /\ LET o == req[r].order
     IN  /\ Found(o)
         /\ orders[o].status \in PaymentSources(req[r].status)
         /\ orders' = [orders EXCEPT ![o].status = PaymentTarget(req[r].status),
                                     ![o].version = @ + 1]
         /\ IF HasSale(o)
            THEN UNCHANGED <<orderSales, staleClaims>>
            ELSE /\ orderSales' = [orderSales EXCEPT ![o] =
                                    [status |-> "paid", items |-> req[r].items]]
                 /\ NoteClaim(o, req[r].items)
  /\ Done(r)
  /\ UNCHANGED <<quantity, posSales, ledger>>

(* create at the cash register: the key has no sale yet; a sale of         *)
(* miscellaneous items only takes no stock (items = NoItems)               *)
SaleLookup(r, k, items) ==
  /\ req[r] = Idle
  /\ posSales[k].status = "none"
  /\ req' = [req EXCEPT ![r] = [op |-> "sale", key |-> k, items |-> items]]
  /\ UNCHANGED <<quantity, orders, orderSales, posSales, ledger, staleClaims>>

(* decrementStock and the sale row: the unique key aborts a second one *)
SaleCommit(r) ==
  /\ req[r].op = "sale"
  /\ posSales[req[r].key].status = "none"
  /\ ApplyStockDelta(req[r].key, Taking(req[r].items))
  /\ posSales' = [posSales EXCEPT ![req[r].key] =
                    [status |-> "paid", items |-> req[r].items]]
  /\ Done(r)
  /\ UNCHANGED <<orders, orderSales, staleClaims>>

(* cancel: only the status of the sale; the stock is not given back *)
CancelSale ==
  \/ \E o \in Orders :
       /\ orderSales[o].status = "paid"
       /\ orderSales' = [orderSales EXCEPT ![o].status = "canceled"]
       /\ UNCHANGED <<quantity, orders, posSales, req, ledger, staleClaims>>
  \/ \E k \in Keys :
       /\ posSales[k].status = "paid"
       /\ posSales' = [posSales EXCEPT ![k].status = "canceled"]
       /\ UNCHANGED <<quantity, orders, orderSales, req, ledger, staleClaims>>

-----------------------------------------------------------------------------
(* StorefrontService *)

(* expireReservations, first half: createGuestOrder and listGuestOrders    *)
(* begin with the list of pending guest orders whose reservation ran out.  *)
(* The clock is left out: any of them may have run out (lapsed).           *)
SweepBegin(r, lapsed) ==
  /\ req[r] = Idle
  /\ lapsed \subseteq {o \in Orders : /\ orders[o].guest
                                      /\ orders[o].status = "pending"
                                      /\ ~orders[o].restored}
  /\ req' = [req EXCEPT ![r] = [op |-> "sweep", todo |-> lapsed]]
  /\ UNCHANGED <<quantity, orders, orderSales, posSales, ledger, staleClaims>>

(* The transaction of one candidate: read it, or go on to the next *)
ExpireRead(r, o) ==
  /\ req[r].op = "sweep"
  /\ o \in req[r].todo
  /\ LET rest == req[r].todo \ {o}
     IN  req' = [req EXCEPT ![r] =
           IF orders[o].status = "pending" /\ ~orders[o].restored
           THEN [op |-> "expire", todo |-> rest, order |-> o,
                 items |-> orders[o].items]
           ELSE [op |-> "sweep", todo |-> rest]]
  /\ UNCHANGED <<quantity, orders, orderSales, posSales, ledger, staleClaims>>

(* ... and claim it: still pending, stock not restored *)
ExpireClaim(r) ==
  /\ req[r].op = "expire"
  /\ req' = [req EXCEPT ![r] = [op |-> "sweep", todo |-> req[r].todo]]
  /\ \/ Restore(req[r].order, {"pending"}, req[r].items, 0)
     \/ /\ ~(orders[req[r].order].status = "pending"
              /\ ~orders[req[r].order].restored)
        /\ UNCHANGED <<quantity, orders, orderSales, posSales, ledger, staleClaims>>

(* createGuestOrder, once the sweep is over: listed products, stock        *)
(* taken, the order created in one transaction                             *)
GuestCreate(r, o, items) ==
  /\ req[r].op = "sweep"
  /\ req[r].todo = {}
  /\ CreateOrder(o, items, TRUE)
  /\ Done(r)

(* cancelGuestOrder, its read *)
GuestCancelRead(r, o) ==
  /\ req[r] = Idle
  /\ Found(o) /\ orders[o].guest
  /\ orders[o].status \in {"pending", "preparing"}
  /\ req' = [req EXCEPT ![r] =
       [op |-> "guestCancel", order |-> o, items |-> orders[o].items]]
  /\ UNCHANGED <<quantity, orders, orderSales, posSales, ledger, staleClaims>>

(* ... and its claim, which leaves the version alone *)
GuestCancelClaim(r) ==
  /\ req[r].op = "guestCancel"
  /\ Restore(req[r].order, {"pending", "preparing"}, req[r].items, 0)
  /\ Done(r)

-----------------------------------------------------------------------------
(* ProductsService.update: the quantity of the form, greater than zero,     *)
(* replaces the stock                                                       *)
SetQuantity(p, n) ==
  /\ quantity' = [quantity EXCEPT ![p] = n]
  /\ UNCHANGED <<orders, orderSales, posSales, req, ledger, staleClaims>>

(* A request ends without effect: a claim it lost, an error it threw, a    *)
(* connection or a process that went away before the commit; or the answer *)
(* of listGuestOrders                                                      *)
Abort(r) ==
  /\ req[r] # Idle
  /\ Done(r)
  /\ UNCHANGED <<quantity, orders, orderSales, posSales, ledger, staleClaims>>

Next ==
  \/ \E o \in Orders, c \in Carts : AdminCreate(o, c)
  \/ \E r \in Requests, o \in Orders : OpenEdit(r, o)
  \/ \E r \in Requests, c \in Carts : Update(r, c)
  \/ \E o \in Orders : UpdateStatus(o)
  \/ \E o \in Orders : Deliver(o)
  \/ \E r \in Requests, o \in Orders : CancelRead(r, o)
  \/ \E r \in Requests : CancelClaim(r)
  \/ \E o \in Orders : Remove(o)
  \/ \E r \in Requests, o \in Orders : PayLookup(r, o)
  \/ \E r \in Requests : PayRead(r)
  \/ \E r \in Requests : PayClaim(r)
  \/ \E r \in Requests, k \in Keys, c \in Carts \cup {NoItems} : SaleLookup(r, k, c)
  \/ \E r \in Requests : SaleCommit(r)
  \/ CancelSale
  \/ \E r \in Requests, lapsed \in SUBSET Orders : SweepBegin(r, lapsed)
  \/ \E r \in Requests, o \in Orders : ExpireRead(r, o)
  \/ \E r \in Requests : ExpireClaim(r)
  \/ \E r \in Requests, o \in Orders, c \in Carts : GuestCreate(r, o, c)
  \/ \E r \in Requests, o \in Orders : GuestCancelRead(r, o)
  \/ \E r \in Requests : GuestCancelClaim(r)
  \/ \E p \in Products, n \in Restocks : SetQuantity(p, n)
  \/ \E r \in Requests : Abort(r)

Spec == Init /\ [][Next]_vars

-----------------------------------------------------------------------------
(* Properties *)

(* The units an order or a cash register sale took from the stock are      *)
(* exactly those its row says it holds: created, edited, paid, canceled by *)
(* whoever got there first, they are taken once and given back once.  The  *)
(* cancellations that gave back items read before an edit are set apart    *)
(* (see StockReturnedExactly).                                             *)
LedgerExact ==
  /\ \A o \in Orders :
       (o \in staleClaims /\ orders[o].status = "canceled")
         \/ ledger[o] = (IF Holding(o) THEN orders[o].items ELSE NoItems)
  /\ \A k \in Keys : ledger[k] = posSales[k].items

(* docs/rc-007-order-status-cas.md: the current state, not an earlier      *)
(* read, decides every transition and its effects.  A canceled order has   *)
(* given back exactly what it had taken.  The code does not guarantee it:  *)
(* cancel, cancelGuestOrder and expireReservations give back the items     *)
(* they read before their claim, and the claim does not look at version.   *)
StockReturnedExactly ==
  \A o \in Orders : orders[o].status = "canceled" => ledger[o] = NoItems

(* Orders and sales agree: a paid order has its sale, only an order that   *)
(* was paid has one (never a canceled one), and stockRestoredAt is set     *)
(* exactly for the canceled orders.                                        *)
SaleOrderConsistent ==
  \A o \in Orders :
    /\ orders[o].status = "paid" => HasSale(o)
    /\ HasSale(o) => orders[o].status \in {"paid", "delivered", "refunded"}
    /\ orders[o].restored <=> orders[o].status = "canceled"

(* The sale of an order is the sale of the items the order has; payments   *)
(* that used items read before an edit are set apart.                      *)
SaleMatchesFreshOrder ==
  \A o \in Orders :
    HasSale(o) => o \in staleClaims \/ orderSales[o].items = orders[o].items

(* The same of every sale, which the code does not guarantee:              *)
(* createFromOrder copies items and totals it read before its claim.       *)
SaleMatchesOrder ==
  \A o \in Orders : HasSale(o) => orderSales[o].items = orders[o].items

(* An edit form is fresh or will be refused: as long as the order has the  *)
(* version the form was opened with and can be edited at all, its items    *)
(* and its status are those the form shows.  Guest cancellations and       *)
(* expiries leave the version alone, so it does not hold of every order.   *)
FormFresh ==
  \A r \in Requests :
    req[r].op = "edit" =>
      LET o == req[r].order
      IN  /\ Exists(o)
          /\ req[r].version <= orders[o].version
          /\ req[r].version = orders[o].version /\ Mutable(o) =>
               /\ req[r].items = orders[o].items
               /\ req[r].status = orders[o].status

(* Whatever the interleaving of handlers, the status of an order moves     *)
(* only along ORDER_STATUS_TRANSITIONS.                                    *)
LegalTransitions ==
  [][\A o \in Orders :
       orders[o].status # orders'[o].status =>
         IF orders[o].status = "none" THEN orders'[o].status = "pending"
         ELSE orders'[o].status \in Transitions[orders[o].status]]_vars

(* An edit never overwrites items or a status that its author did not see, *)
(* though guest cancellations and expiries leave the version alone; and    *)
(* the items of an order that left pending and preparing never change.     *)
NoBlindEdit ==
  [][\A o \in Orders :
       Exists(o) /\ orders'[o].items # orders[o].items =>
         /\ Mutable(o)
         /\ \E r \in Requests :
              /\ req[r].op = "edit" /\ req'[r] = Idle
              /\ req[r].order = o
              /\ req[r].items = orders[o].items
              /\ req[r].status = orders[o].status]_vars
=============================================================================
