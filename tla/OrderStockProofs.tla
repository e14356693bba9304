-------------------------- MODULE OrderStockProofs --------------------------
(* Theorems about OrderStock, for any products, orders, requests and carts *)
EXTENDS MCOrderStock, FiniteSetTheorems, TLAPS

(* Moving stock keeps quantities natural: a decrement requires the units. *)
LEMMA DeltaType ==
  ASSUME TypeOK, NEW h \in Orders \cup Keys, NEW delta \in [Products -> Int],
         ApplyStockDelta(h, delta)
  PROVE  /\ quantity' \in [Products -> Nat]
         /\ ledger' \in [Orders \cup Keys -> [Products -> Int]]
<1>1. \A p \in Products : quantity[p] + delta[p] \in Nat
  BY DEF TypeOK, ApplyStockDelta
<1>2. [p \in Products |-> ledger[h][p] - delta[p]] \in [Products -> Int]
  BY DEF TypeOK
<1>3. QED
  BY <1>1, <1>2 DEF TypeOK, ApplyStockDelta

(* The values that stand for nothing have their types. *)
LEMMA OrdersType ==
  ASSUME TypeOK
  PROVE  /\ NoItems \in [Products -> Nat]
         /\ NoOrder \in OrderRow
         /\ NoSale \in SaleRow
         /\ Idle \in Request
BY DEF NoItems, NoOrder, NoSale, Idle, OrderRow, SaleRow, Request, Status

(* A row of orders stays one under the updates the handlers make. *)
LEMMA RowUpdate ==
  ASSUME NEW row \in OrderRow, NEW s \in Status, NEW n \in Nat
  PROVE  /\ row.version + n \in Nat
         /\ [row EXCEPT !.status = s, !.version = row.version + n] \in OrderRow
         /\ [row EXCEPT !.status = s, !.restored = TRUE,
                        !.version = row.version + n] \in OrderRow
<1>1. row.version + n \in Nat
  BY DEF OrderRow
<1> DEFINE v == row.version + n
<1>2. \A w \in Nat :
        /\ [row EXCEPT !.status = s, !.version = w] \in OrderRow
        /\ [row EXCEPT !.status = s, !.restored = TRUE, !.version = w] \in OrderRow
  BY DEF OrderRow
<1>3. QED
  BY <1>1, <1>2

(* The initial states are well typed. *)
LEMMA TypeInit == Init => TypeOK
BY CartsAssumption, OrdersType DEF Init, TypeOK, NoItems, NoOrder, NoSale, Idle, OrderRow, SaleRow, Request

(* Creating an order preserves the types of what it writes. *)
LEMMA CreateType ==
  ASSUME TypeOK, NEW o \in Orders, NEW items \in Carts, NEW g \in BOOLEAN,
         CreateOrder(o, items, g)
  PROVE  /\ quantity' \in [Products -> Nat]
         /\ ledger' \in [Orders \cup Keys -> [Products -> Int]]
         /\ orders' \in [Orders -> OrderRow]
<1>1. items \in [Products -> Nat]
  BY CartsAssumption
<1>2. Taking(items) \in [Products -> Int]
  BY <1>1 DEF Taking
<1>3. QED
  BY <1>1, <1>2, DeltaType DEF CreateOrder, TypeOK, NoOrder, OrderRow, Status

(* An edit preserves the types. *)
LEMMA UpdateType ==
  ASSUME TypeOK, NEW r \in Requests, NEW items \in Carts, Update(r, items)
  PROVE  TypeOK'
<1>1. items \in [Products -> Nat]
  BY CartsAssumption
<1>2. req[r].order \in Orders
  BY DEF TypeOK, Update, Request, Idle
<1> DEFINE o == req[r].order
           d == [p \in Products |-> orders[o].items[p] - items[p]]
<1>3. orders[o] \in OrderRow
  BY <1>2 DEF TypeOK
<1>4. d \in [Products -> Int]
  BY <1>1, <1>3 DEF OrderRow
<1>5. ApplyStockDelta(o, d)
  BY DEF Update
<1>7. orders' \in [Orders -> OrderRow]
  BY <1>1, <1>2, <1>3 DEF Update, TypeOK, OrderRow
<1>8. req' \in [Requests -> Request]
  BY OrdersType DEF Update, TypeOK, Done
<1>9. QED
  BY <1>2, <1>4, <1>5, <1>7, <1>8, DeltaType DEF Update, TypeOK

(* A cancellation preserves the types of what it writes. *)
LEMMA RestoreType ==
  ASSUME TypeOK, NEW o \in Orders, NEW sources, NEW seen \in [Products -> Nat],
         NEW bump \in Nat, Restore(o, sources, seen, bump)
  PROVE  /\ quantity' \in [Products -> Nat]
         /\ ledger' \in [Orders \cup Keys -> [Products -> Int]]
         /\ orders' \in [Orders -> OrderRow]
         /\ staleClaims' \subseteq Orders
<1>1. orders' \in [Orders -> OrderRow]
  <2> DEFINE row == [orders[o] EXCEPT !.status = "canceled", !.restored = TRUE,
                                      !.version = orders[o].version + bump]
  <2>1. orders[o] \in OrderRow
    BY DEF TypeOK
  <2>2. row \in OrderRow
    BY <2>1, RowUpdate DEF Status
  <2>3. orders' = [orders EXCEPT ![o] = row]
    BY <2>1 DEF Restore, TypeOK, OrderRow
  <2>4. QED
    BY <2>2, <2>3 DEF TypeOK
<1>2. seen \in [Products -> Int]
  OBVIOUS
<1>3. staleClaims' \subseteq Orders
  BY DEF Restore, NoteClaim, TypeOK
<1>4. QED
  BY <1>1, <1>2, <1>3, DeltaType DEF Restore

(* A change of status preserves the types. *)
LEMMA SetStatusType ==
  ASSUME TypeOK, NEW o \in Orders, NEW next \in Status, SetStatus(o, next)
  PROVE  TypeOK'
<1>1. orders[o] \in OrderRow
  BY DEF TypeOK
<1>2. orders' \in [Orders -> OrderRow]
  <2> DEFINE row == [orders[o] EXCEPT !.status = next,
                                      !.version = orders[o].version + 1]
  <2>1. row \in OrderRow
    BY <1>1, RowUpdate
  <2>2. orders' = [orders EXCEPT ![o] = row]
    BY <1>1 DEF SetStatus, TypeOK, OrderRow
  <2>3. QED
    BY <2>1, <2>2 DEF TypeOK
<1>3. QED
  BY <1>2 DEF SetStatus, TypeOK

(* A payment of an order preserves the types. *)
LEMMA PayClaimType ==
  ASSUME TypeOK, NEW r \in Requests, PayClaim(r)
  PROVE  TypeOK'
<1> DEFINE o == req[r].order
<1>1. o \in Orders /\ req[r].status \in Status /\ req[r].items \in [Products -> Nat]
  <2>1. req[r] \in Request /\ req[r].op = "pay"
    BY DEF TypeOK, PayClaim
  <2>2. req[r] \in [op : {"pay"}, order : Orders, status : Status,
                    items : [Products -> Nat]]
    BY <2>1 DEF Request, Idle
  <2>3. QED
    BY <2>2
<1>2. PaymentTarget(req[r].status) \in Status
  BY DEF PaymentTarget, Status
<1>3. orders' \in [Orders -> OrderRow]
  <2>1. orders[o] \in OrderRow
    BY <1>1 DEF TypeOK
  <2>2. QED
    BY <1>1, <1>2, <2>1 DEF PayClaim, TypeOK, OrderRow
<1>4. orderSales' \in [Orders -> SaleRow]
  <2> DEFINE sale == [status |-> "paid", items |-> req[r].items]
  <2>1. sale \in SaleRow
    BY <1>1 DEF SaleRow
  <2>2. orderSales' = orderSales \/ orderSales' = [orderSales EXCEPT ![o] = sale]
    BY DEF PayClaim
  <2>3. QED
    BY <2>1, <2>2 DEF TypeOK
<1>5. staleClaims' \subseteq Orders
  BY <1>1 DEF PayClaim, NoteClaim, TypeOK
<1>6. req' \in [Requests -> Request]
  BY OrdersType DEF PayClaim, TypeOK, Done
<1>7. QED
  BY <1>3, <1>4, <1>5, <1>6 DEF PayClaim, TypeOK

(* A cash register sale preserves the types. *)
LEMMA SaleCommitType ==
  ASSUME TypeOK, NEW r \in Requests, SaleCommit(r)
  PROVE  TypeOK'
<1>1. req[r].key \in Keys /\ req[r].items \in [Products -> Nat]
  BY DEF TypeOK, SaleCommit, Request, Idle
<1>2. Taking(req[r].items) \in [Products -> Int]
  BY <1>1 DEF Taking
<1>3. posSales' \in [Keys -> SaleRow]
  BY <1>1 DEF SaleCommit, TypeOK, SaleRow
<1>4. req' \in [Requests -> Request]
  BY OrdersType DEF SaleCommit, TypeOK, Done
<1>5. ApplyStockDelta(req[r].key, Taking(req[r].items))
  BY DEF SaleCommit
<1>6. QED
  BY <1>1, <1>2, <1>3, <1>4, <1>5, DeltaType DEF SaleCommit, TypeOK

(* Every action keeps the types *)
LEMMA TypeStep == TypeOK /\ [Next]_vars => TypeOK'
<1> SUFFICES ASSUME TypeOK, [Next]_vars PROVE TypeOK'
  OBVIOUS
<1> USE DEF Request
<1>1. ASSUME NEW o \in Orders, NEW c \in Carts, AdminCreate(o, c) PROVE TypeOK'
  BY <1>1, CreateType DEF AdminCreate, CreateOrder, TypeOK
<1>2. ASSUME NEW r \in Requests, NEW o \in Orders, OpenEdit(r, o) PROVE TypeOK'
  BY <1>2 DEF OpenEdit, Mutable, TypeOK, OrderRow, Status
<1>3. ASSUME NEW r \in Requests, NEW c \in Carts, Update(r, c) PROVE TypeOK'
  BY <1>3, UpdateType
<1>4. ASSUME NEW o \in Orders, UpdateStatus(o) PROVE TypeOK'
  BY <1>4, SetStatusType DEF UpdateStatus, Status
<1>5. ASSUME NEW o \in Orders, Deliver(o) PROVE TypeOK'
  BY <1>5, SetStatusType DEF Deliver, Status
<1>6. ASSUME NEW r \in Requests, NEW o \in Orders, CancelRead(r, o) PROVE TypeOK'
  BY <1>6 DEF CancelRead, TypeOK, OrderRow
<1>7. ASSUME NEW r \in Requests, CancelClaim(r) PROVE TypeOK'
  <2>1. req[r].order \in Orders /\ req[r].items \in [Products -> Nat]
    BY <1>7 DEF CancelClaim, TypeOK, Idle
  <2>2. req' \in [Requests -> Request]
    BY <1>7, OrdersType DEF CancelClaim, Done, TypeOK
  <2>3. QED
    BY <1>7, <2>1, <2>2, RestoreType DEF CancelClaim, Restore, TypeOK
<1>8. ASSUME NEW o \in Orders, Remove(o) PROVE TypeOK'
  <2> DEFINE row == [orders[o] EXCEPT !.deleted = TRUE]
  <2>1. orders[o] \in OrderRow
    BY DEF TypeOK
  <2>2. row \in OrderRow
    BY <2>1 DEF OrderRow
  <2>3. orders' = [orders EXCEPT ![o] = row]
    BY <1>8, <2>1 DEF Remove, TypeOK, OrderRow
  <2>4. QED
    BY <1>8, <2>2, <2>3 DEF Remove, TypeOK
<1>9. ASSUME NEW r \in Requests, NEW o \in Orders, PayLookup(r, o) PROVE TypeOK'
  BY <1>9 DEF PayLookup, TypeOK
<1>10. ASSUME NEW r \in Requests, PayRead(r) PROVE TypeOK'
  <2>1. req[r].order \in Orders
    BY <1>10 DEF PayRead, TypeOK, Idle
  <2>2. orders[req[r].order] \in OrderRow
    BY <2>1 DEF TypeOK
  <2>3. orders[req[r].order].status \in Status
    BY <1>10, <2>1, <2>2 DEF PayRead, Found, Exists, OrderRow
  <2>4. QED
    BY <1>10, <2>1, <2>2, <2>3 DEF PayRead, TypeOK, OrderRow
<1>11. ASSUME NEW r \in Requests, PayClaim(r) PROVE TypeOK'
  BY <1>11, PayClaimType
<1>12. ASSUME NEW r \in Requests, NEW k \in Keys, NEW c \in Carts \cup {NoItems},
              SaleLookup(r, k, c)
       PROVE  TypeOK'
  BY <1>12, CartsAssumption, OrdersType DEF SaleLookup, TypeOK
<1>13. ASSUME NEW r \in Requests, SaleCommit(r) PROVE TypeOK'
  BY <1>13, SaleCommitType
<1>14. CASE CancelSale
  <2>1. ASSUME NEW sale \in SaleRow PROVE [sale EXCEPT !.status = "canceled"] \in SaleRow
    BY <2>1 DEF SaleRow
  <2>2. ASSUME NEW o \in Orders,
               orderSales' = [orderSales EXCEPT ![o] =
                                [orderSales[o] EXCEPT !.status = "canceled"]],
               UNCHANGED <<quantity, orders, posSales, req, ledger, staleClaims>>
        PROVE  TypeOK'
    BY <2>1, <2>2 DEF TypeOK
  <2>3. ASSUME NEW k \in Keys,
               posSales' = [posSales EXCEPT ![k] =
                              [posSales[k] EXCEPT !.status = "canceled"]],
               UNCHANGED <<quantity, orders, orderSales, req, ledger, staleClaims>>
        PROVE  TypeOK'
    BY <2>1, <2>3 DEF TypeOK
  <2>4. QED
    BY <1>14, <2>2, <2>3 DEF CancelSale
<1>15. ASSUME NEW r \in Requests, NEW lapsed \in SUBSET Orders, SweepBegin(r, lapsed)
       PROVE  TypeOK'
  BY <1>15 DEF SweepBegin, TypeOK
<1>16. ASSUME NEW r \in Requests, NEW o \in Orders, ExpireRead(r, o) PROVE TypeOK'
  <2>1. req[r].todo \in SUBSET Orders /\ orders[o].items \in [Products -> Nat]
    <3>1. req[r] \in [op : {"sweep"}, todo : SUBSET Orders]
      BY <1>16 DEF ExpireRead, TypeOK, Idle
    <3>2. orders[o] \in OrderRow
      BY DEF TypeOK
    <3>3. QED
      BY <3>1, <3>2 DEF OrderRow
  <2>2. QED
    BY <1>16, <2>1 DEF ExpireRead, TypeOK
<1>17. ASSUME NEW r \in Requests, ExpireClaim(r) PROVE TypeOK'
  <2>1. /\ req[r].order \in Orders /\ req[r].items \in [Products -> Nat]
        /\ req[r].todo \in SUBSET Orders
    BY <1>17 DEF ExpireClaim, TypeOK, Idle
  <2>2. req' \in [Requests -> Request]
    BY <1>17, <2>1 DEF ExpireClaim, TypeOK
  <2>3. QED
    <3>1. CASE Restore(req[r].order, {"pending"}, req[r].items, 0)
      BY <2>1, <2>2, <3>1, RestoreType DEF Restore, TypeOK
    <3>2. CASE UNCHANGED <<quantity, orders, orderSales, posSales, ledger, staleClaims>>
      BY <2>2, <3>2 DEF TypeOK
    <3>3. QED
      BY <1>17, <3>1, <3>2 DEF ExpireClaim
<1>18. ASSUME NEW r \in Requests, NEW o \in Orders, NEW c \in Carts, GuestCreate(r, o, c)
       PROVE  TypeOK'
  <2>1. req' \in [Requests -> Request]
    BY <1>18, OrdersType DEF GuestCreate, Done, TypeOK
  <2>2. QED
    BY <1>18, <2>1, CreateType DEF GuestCreate, CreateOrder, TypeOK
<1>19. ASSUME NEW r \in Requests, NEW o \in Orders, GuestCancelRead(r, o) PROVE TypeOK'
  BY <1>19 DEF GuestCancelRead, TypeOK, OrderRow
<1>20. ASSUME NEW r \in Requests, GuestCancelClaim(r) PROVE TypeOK'
  <2>1. req[r].order \in Orders /\ req[r].items \in [Products -> Nat]
    BY <1>20 DEF GuestCancelClaim, TypeOK, Idle
  <2>2. req' \in [Requests -> Request]
    BY <1>20, OrdersType DEF GuestCancelClaim, Done, TypeOK
  <2>3. QED
    BY <1>20, <2>1, <2>2, RestoreType DEF GuestCancelClaim, Restore, TypeOK
<1>21. ASSUME NEW p \in Products, NEW n \in Restocks, SetQuantity(p, n) PROVE TypeOK'
  BY <1>21, RestocksAssumption DEF SetQuantity, TypeOK
<1>22. ASSUME NEW r \in Requests, Abort(r) PROVE TypeOK'
  BY <1>22, OrdersType DEF Abort, Done, TypeOK
<1>23. CASE UNCHANGED vars
  BY <1>23 DEF vars, TypeOK
<1>24. QED
  BY <1>1, <1>2, <1>3, <1>4, <1>5, <1>6, <1>7, <1>8, <1>9, <1>10, <1>11, <1>12,
     <1>13, <1>14, <1>15, <1>16, <1>17, <1>18, <1>19, <1>20, <1>21, <1>22, <1>23
  DEF Next
-----------------------------------------------------------------------------
(* The steps of the system, by what they do to the rows *)

(* No row of orders or sales changes (products.quantity may). *)
Quiet == UNCHANGED <<orders, orderSales, posSales, ledger, staleClaims>>

(* Some cancellation, by whichever handler *)
RestoreStep ==
  \E o \in Orders, sources \in SUBSET {"pending", "preparing"},
     seen \in [Products -> Nat], bump \in {0, 1} : Restore(o, sources, seen, bump)

(* The statuses an order can be canceled from. *)
LEMMA CancelSources == SourcesFor("canceled") = {"pending", "preparing"}
BY DEF SourcesFor, Transitions, Status

(* The claims of cancel and cancelGuestOrder are cancellations. *)
LEMMA RestoreKind ==
  ASSUME TypeOK, NEW r \in Requests, CancelClaim(r) \/ GuestCancelClaim(r)
  PROVE  RestoreStep
<1>1. req[r].order \in Orders /\ req[r].items \in [Products -> Nat]
  BY DEF TypeOK, CancelClaim, GuestCancelClaim, Request, Idle
<1>2. QED
  BY <1>1, CancelSources DEF RestoreStep, CancelClaim, GuestCancelClaim

(* An expiry is a cancellation or changes no row. *)
LEMMA ExpireKind ==
  ASSUME TypeOK, NEW r \in Requests, ExpireClaim(r)
  PROVE  RestoreStep \/ Quiet
<1>1. req[r].order \in Orders /\ req[r].items \in [Products -> Nat]
  BY DEF TypeOK, ExpireClaim, Request, Idle
<1>2. CASE Restore(req[r].order, {"pending"}, req[r].items, 0)
  BY <1>1, <1>2 DEF RestoreStep
<1>3. CASE UNCHANGED <<quantity, orders, orderSales, posSales, ledger, staleClaims>>
  BY <1>3 DEF Quiet
<1>4. QED
  BY <1>2, <1>3 DEF ExpireClaim

(* Every step is of one of nine kinds. *)
LEMMA StepKinds ==
  ASSUME TypeOK, [Next]_vars
  PROVE  \/ Quiet
         \/ \E o \in Orders, c \in Carts, g \in BOOLEAN : CreateOrder(o, c, g)
         \/ \E r \in Requests, c \in Carts : Update(r, c)
         \/ \E o \in Orders, next \in {"preparing", "refunded", "delivered"} :
               SetStatus(o, next)
         \/ RestoreStep
         \/ \E r \in Requests : PayClaim(r)
         \/ \E r \in Requests : SaleCommit(r)
         \/ CancelSale
         \/ \E o \in Orders : Remove(o)
<1>1. CASE \E r \in Requests, o \in Orders :
             \/ OpenEdit(r, o) \/ CancelRead(r, o) \/ PayLookup(r, o)
             \/ ExpireRead(r, o) \/ GuestCancelRead(r, o)
  BY <1>1 DEF Quiet, OpenEdit, CancelRead, PayLookup, ExpireRead, GuestCancelRead
<1>2. CASE \E r \in Requests, k \in Keys, c \in Carts \cup {NoItems} : SaleLookup(r, k, c)
  BY <1>2 DEF Quiet, SaleLookup
<1>3. CASE \E r \in Requests, lapsed \in SUBSET Orders : SweepBegin(r, lapsed)
  BY <1>3 DEF Quiet, SweepBegin
<1>4. CASE \E r \in Requests : PayRead(r) \/ Abort(r)
  BY <1>4 DEF Quiet, PayRead, Abort
<1>5. CASE \E p \in Products, n \in Restocks : SetQuantity(p, n)
  BY <1>5 DEF Quiet, SetQuantity
<1>6. CASE UNCHANGED vars
  BY <1>6 DEF Quiet, vars
<1>7. CASE \E o \in Orders, c \in Carts : AdminCreate(o, c)
  BY <1>7 DEF AdminCreate
<1>8. CASE \E r \in Requests, o \in Orders, c \in Carts : GuestCreate(r, o, c)
  BY <1>8 DEF GuestCreate
<1>9. CASE \E o \in Orders : UpdateStatus(o) \/ Deliver(o)
  BY <1>9 DEF UpdateStatus, Deliver
<1>10. CASE \E r \in Requests : CancelClaim(r) \/ GuestCancelClaim(r)
  BY <1>10, RestoreKind
<1>11. CASE \E r \in Requests : ExpireClaim(r)
  BY <1>11, ExpireKind
<1>12. QED
  BY <1>1, <1>2, <1>3, <1>4, <1>5, <1>6, <1>7, <1>8, <1>9, <1>10, <1>11 DEF Next

-----------------------------------------------------------------------------
(* Orders and their sales *)

(* No kind of step makes orders and sales disagree. *)
LEMMA SaleOrderStep ==
  ASSUME TypeOK, SaleOrderConsistent, [Next]_vars
  PROVE  SaleOrderConsistent'
<1> USE DEF SaleOrderConsistent, HasSale
<1>1. CASE Quiet
  BY <1>1 DEF Quiet
<1>2. ASSUME NEW o \in Orders, NEW c \in Carts, NEW g \in BOOLEAN, CreateOrder(o, c, g)
      PROVE  SaleOrderConsistent'
  BY <1>2 DEF CreateOrder, Exists, NoOrder, TypeOK
<1>3. ASSUME NEW r \in Requests, NEW c \in Carts, Update(r, c)
      PROVE  SaleOrderConsistent'
  <2>1. req[r].order \in Orders
    BY <1>3 DEF TypeOK, Update, Request, Idle
  <2>2. \A o \in Orders : /\ orders'[o].status = orders[o].status
                          /\ orders'[o].restored = orders[o].restored
    BY <1>3, <2>1 DEF Update, TypeOK, OrderRow
  <2>3. QED
    BY <1>3, <2>2 DEF Update
<1>4. ASSUME NEW o \in Orders, NEW next \in {"preparing", "refunded", "delivered"},
             SetStatus(o, next)
      PROVE  SaleOrderConsistent'
  <2>1. /\ orders'[o].status = next
        /\ orders'[o].restored = orders[o].restored
        /\ \A x \in Orders \ {o} : orders'[x] = orders[x]
    BY <1>4 DEF SetStatus, TypeOK, OrderRow
  <2>2. /\ orders[o].status \notin {"canceled", "none"}
        /\ next = "preparing" => orders[o].status = "pending"
    BY <1>4 DEF SetStatus, SourcesFor, Transitions, Status
  <2>3. QED
    BY <1>4, <2>1, <2>2 DEF SetStatus
<1>5. CASE RestoreStep
  <2> PICK o \in Orders, sources \in SUBSET {"pending", "preparing"},
           seen \in [Products -> Nat], bump \in {0, 1} : Restore(o, sources, seen, bump)
    BY <1>5 DEF RestoreStep
  <2>1. /\ orders'[o].status = "canceled" /\ orders'[o].restored = TRUE
        /\ \A x \in Orders \ {o} : orders'[x] = orders[x]
    BY DEF Restore, TypeOK, OrderRow
  <2>2. orders[o].status \in {"pending", "preparing"}
    BY DEF Restore
  <2>3. QED
    BY <2>1, <2>2 DEF Restore
<1>6. ASSUME NEW r \in Requests, PayClaim(r) PROVE SaleOrderConsistent'
  <2> DEFINE o == req[r].order
  <2>1. o \in Orders
    BY <1>6 DEF TypeOK, PayClaim, Request, Idle
  <2>2. /\ orders'[o].status \in {"paid", "delivered"}
        /\ orders'[o].restored = orders[o].restored
        /\ \A x \in Orders \ {o} : orders'[x] = orders[x]
    BY <1>6, <2>1 DEF PayClaim, PaymentTarget, TypeOK, OrderRow
  <2>3. orders[o].status \in {"pending", "preparing", "delivered"}
    BY <1>6 DEF PayClaim, PaymentSources, SourcesFor, Transitions, Status
  <2>4. /\ orderSales'[o].status # "none"
        /\ \A x \in Orders \ {o} : orderSales'[x] = orderSales[x]
    BY <1>6, <2>1 DEF PayClaim, TypeOK
  <2>5. QED
    BY <2>1, <2>2, <2>3, <2>4
<1>7. ASSUME NEW r \in Requests, SaleCommit(r) PROVE SaleOrderConsistent'
  BY <1>7 DEF SaleCommit
<1>8. CASE CancelSale
  <2>1. orders' = orders /\ \A o \in Orders :
          (orderSales'[o].status = "none") <=> (orderSales[o].status = "none")
    BY <1>8 DEF CancelSale, TypeOK, SaleRow
  <2>2. QED
    BY <2>1
<1>9. ASSUME NEW o \in Orders, Remove(o) PROVE SaleOrderConsistent'
  <2>1. \A x \in Orders : /\ orders'[x].status = orders[x].status
                          /\ orders'[x].restored = orders[x].restored
    BY <1>9 DEF Remove, TypeOK, OrderRow
  <2>2. QED
    BY <1>9, <2>1 DEF Remove
<1>10. QED
  BY <1>1, <1>2, <1>3, <1>4, <1>5, <1>6, <1>7, <1>8, <1>9, StepKinds
-----------------------------------------------------------------------------
(* The ledger *)

(* A key without a sale holds nothing: what the induction needs to know of *)
(* a cash register sale before it is committed.                            *)
NoSaleNoItems == \A k \in Keys : posSales[k].status = "none" => posSales[k].items = NoItems

(* ... and no step changes that. *)
LEMMA NoSaleNoItemsStep ==
  ASSUME TypeOK, NoSaleNoItems, [Next]_vars
  PROVE  NoSaleNoItems'
<1> USE DEF NoSaleNoItems
<1>1. ASSUME NEW r \in Requests, SaleCommit(r) PROVE NoSaleNoItems'
  <2>1. req[r].key \in Keys
    BY <1>1 DEF TypeOK, SaleCommit, Request, Idle
  <2>2. /\ posSales'[req[r].key].status = "paid"
        /\ \A k \in Keys \ {req[r].key} : posSales'[k] = posSales[k]
    BY <1>1, <2>1 DEF SaleCommit, TypeOK
  <2>3. QED
    BY <2>1, <2>2 DEF NoItems
<1>2. CASE CancelSale
  <2>1. \A k \in Keys : /\ posSales'[k].items = posSales[k].items
                        /\ posSales'[k].status = "none" => posSales[k].status = "none"
    BY <1>2 DEF CancelSale, TypeOK, SaleRow
  <2>2. QED
    BY <2>1 DEF NoItems
<1>3. CASE posSales' = posSales
  BY <1>3 DEF NoItems
<1>4. QED
  BY <1>1, <1>2, <1>3, StepKinds
  DEF Quiet, CreateOrder, Update, SetStatus, RestoreStep, Restore, PayClaim, Remove

(* What moving the units of a delta does to the ledger *)
LEMMA LedgerMove ==
  ASSUME TypeOK, NEW h \in Orders \cup Keys, NEW delta \in [Products -> Int],
         ApplyStockDelta(h, delta)
  PROVE  /\ ledger'[h] = [p \in Products |-> ledger[h][p] - delta[p]]
         /\ \A x \in (Orders \cup Keys) \ {h} : ledger'[x] = ledger[x]
BY DEF ApplyStockDelta, TypeOK

(* A holder with nothing that takes the items then has exactly them. *)
LEMMA TakeAll ==
  ASSUME NEW items \in [Products -> Nat]
  PROVE  /\ Taking(items) \in [Products -> Int]
         /\ [p \in Products |-> NoItems[p] - Taking(items)[p]] = items
<1>1. \A p \in Products : NoItems[p] - Taking(items)[p] = items[p]
  BY DEF NoItems, Taking
<1>2. QED
  BY <1>1 DEF Taking

(* No kind of step makes a holder have what its row does not say. *)
LEMMA LedgerStep ==
  ASSUME TypeOK, NoSaleNoItems, LedgerExact, [Next]_vars
  PROVE  LedgerExact'
<1> DEFINE Right(o) ==
      \/ o \in staleClaims /\ orders[o].status = "canceled"
      \/ ledger[o] = (IF Holding(o) THEN orders[o].items ELSE NoItems)
    KeysRight == \A k \in Keys : ledger[k] = posSales[k].items
<1>a. (\A o \in Orders : Right(o)) /\ KeysRight
  BY DEF LedgerExact
<1>b. (\A o \in Orders : Right(o)') /\ KeysRight' => LedgerExact'
  BY DEF LedgerExact
<1>c. ASSUME NEW o \in Orders, staleClaims \subseteq staleClaims',
             ledger'[o] = ledger[o], orders'[o].items = orders[o].items,
             orders'[o].status = orders[o].status
      PROVE  Right(o)'
  BY <1>a, <1>c DEF Holding, NoItems
<1>d. Orders \cap Keys = {}
  BY HoldersAssumption
<1> HIDE DEF Right
<1>1. CASE Quiet
  BY <1>1, <1>a, <1>b, <1>c DEF Quiet
<1>2. ASSUME NEW o \in Orders, NEW c \in Carts, NEW g \in BOOLEAN, CreateOrder(o, c, g)
      PROVE  LedgerExact'
  <2>1. c \in [Products -> Nat]
    BY CartsAssumption
  <2>2. ledger[o] = NoItems /\ orders[o].status = "none"
    BY <1>2, <1>a DEF CreateOrder, Exists, Holding, Right
  <2>3. /\ ledger'[o] = c
        /\ \A x \in (Orders \cup Keys) \ {o} : ledger'[x] = ledger[x]
    BY <1>2, <2>1, <2>2, TakeAll, LedgerMove DEF CreateOrder
  <2>4. /\ orders'[o].status = "pending" /\ orders'[o].items = c
        /\ \A x \in Orders \ {o} : orders'[x] = orders[x]
    BY <1>2 DEF CreateOrder, NoOrder, TypeOK
  <2>5. Right(o)'
    BY <2>3, <2>4 DEF Right, Holding
  <2>6. \A x \in Orders \ {o} : Right(x)'
    BY <1>2, <1>c, <2>3, <2>4 DEF CreateOrder
  <2>7. KeysRight'
    BY <1>2, <1>a, <1>d, <2>3 DEF CreateOrder
  <2>8. QED
    BY <1>b, <2>5, <2>6, <2>7
<1>3. ASSUME NEW r \in Requests, NEW c \in Carts, Update(r, c)
      PROVE  LedgerExact'
  <2>0. req[r].order \in Orders
    BY <1>3 DEF TypeOK, Update, Request, Idle
  <2> PICK o \in Orders : o = req[r].order
    BY <2>0
  <2> DEFINE d == [p \in Products |-> orders[o].items[p] - c[p]]
  <2>1. o \in Orders /\ c \in [Products -> Nat]
    BY CartsAssumption
  <2>2. orders[o].items \in [Products -> Nat]
    BY <2>1 DEF TypeOK, OrderRow
  <2>3. d \in [Products -> Int]
    BY <2>1, <2>2
  <2>4. ledger[o] = orders[o].items /\ orders[o].status \in {"pending", "preparing"}
    BY <1>3, <1>a, <2>1 DEF Update, Mutable, Holding, Right
  <2>5. /\ ledger'[o] = [p \in Products |-> ledger[o][p] - d[p]]
        /\ \A x \in (Orders \cup Keys) \ {o} : ledger'[x] = ledger[x]
    BY <1>3, <2>1, <2>3, LedgerMove DEF Update
  <2>6. ledger'[o] = c
    <3>1. \A p \in Products : ledger[o][p] - d[p] = c[p]
      BY <2>1, <2>2, <2>4
    <3>2. QED
      BY <2>1, <2>5, <3>1
  <2>7. /\ orders'[o].status = orders[o].status /\ orders'[o].items = c
        /\ \A x \in Orders \ {o} : orders'[x] = orders[x]
    BY <1>3, <2>1 DEF Update, TypeOK, OrderRow
  <2>8. Right(o)'
    BY <2>4, <2>6, <2>7 DEF Right, Holding
  <2>9. \A x \in Orders \ {o} : Right(x)'
    BY <1>3, <1>c, <2>5, <2>7 DEF Update
  <2>10. KeysRight'
    BY <1>3, <1>a, <1>d, <2>1, <2>5 DEF Update
  <2>11. QED
    BY <1>b, <2>8, <2>9, <2>10
<1>4. ASSUME NEW o \in Orders, NEW next \in {"preparing", "refunded", "delivered"},
             SetStatus(o, next)
      PROVE  LedgerExact'
  <2>1. /\ orders'[o].status = next /\ orders'[o].items = orders[o].items
        /\ \A x \in Orders \ {o} : orders'[x] = orders[x]
    BY <1>4 DEF SetStatus, TypeOK, OrderRow
  <2>2. orders[o].status \notin {"canceled", "none"}
    BY <1>4 DEF SetStatus, SourcesFor, Transitions, Status
  <2>3. Right(o)'
    BY <1>4, <1>a, <2>1, <2>2 DEF SetStatus, Right, Holding
  <2>4. QED
    BY <1>4, <1>a, <1>b, <1>c, <2>1, <2>3 DEF SetStatus
<1>5. CASE RestoreStep
  <2> PICK o \in Orders, sources \in SUBSET {"pending", "preparing"},
           seen \in [Products -> Nat], bump \in {0, 1} : Restore(o, sources, seen, bump)
    BY <1>5 DEF RestoreStep
  <2>1. /\ orders'[o].status = "canceled"
        /\ \A x \in Orders \ {o} : orders'[x] = orders[x]
    BY DEF Restore, TypeOK, OrderRow
  <2>2. ledger[o] = orders[o].items
    BY <1>a DEF Restore, Right, Holding
  <2>3. /\ ledger'[o] = [p \in Products |-> ledger[o][p] - seen[p]]
        /\ \A x \in (Orders \cup Keys) \ {o} : ledger'[x] = ledger[x]
    BY LedgerMove DEF Restore
  <2>4. ASSUME seen = orders[o].items PROVE Right(o)'
    <3>1. ledger'[o] = [p \in Products |-> seen[p] - seen[p]]
      BY <2>2, <2>3, <2>4
    <3>2. \A p \in Products : seen[p] - seen[p] = 0
      OBVIOUS
    <3>3. ledger'[o] = NoItems
      BY <3>1, <3>2 DEF NoItems
    <3>4. QED
      BY <2>1, <3>3 DEF Right, Holding, NoItems
  <2>5. ASSUME seen # orders[o].items PROVE Right(o)'
    BY <2>1, <2>5 DEF Restore, NoteClaim, Right
  <2>6. staleClaims \subseteq staleClaims'
    BY DEF Restore, NoteClaim
  <2>7. Right(o)'
    BY <2>4, <2>5
  <2>8. \A x \in Orders \ {o} : Right(x)'
    BY <1>c, <2>1, <2>3, <2>6
  <2>9. KeysRight'
    BY <1>a, <1>d, <2>3 DEF Restore
  <2>10. QED
    BY <1>b, <2>7, <2>8, <2>9
<1>6. ASSUME NEW r \in Requests, PayClaim(r) PROVE LedgerExact'
  <2>1. req[r].order \in Orders
    BY <1>6 DEF TypeOK, PayClaim, Request, Idle
  <2> PICK o \in Orders : o = req[r].order
    BY <2>1
  <2>2. /\ orders'[o].status \in {"paid", "delivered"}
        /\ orders'[o].items = orders[o].items
        /\ \A x \in Orders \ {o} : orders'[x] = orders[x]
    BY <1>6, <2>1 DEF PayClaim, PaymentTarget, TypeOK, OrderRow
  <2>3. orders[o].status \in {"pending", "preparing", "delivered"}
    BY <1>6 DEF PayClaim, PaymentSources, SourcesFor, Transitions, Status
  <2>4. ledger' = ledger /\ posSales' = posSales /\ staleClaims \subseteq staleClaims'
    BY <1>6 DEF PayClaim, NoteClaim
  <2>5. Right(o)'
    BY <1>a, <2>1, <2>2, <2>3, <2>4 DEF Right, Holding
  <2>6. \A x \in Orders \ {o} : Right(x)'
    BY <1>c, <2>2, <2>4
  <2>7. QED
    BY <1>a, <1>b, <2>4, <2>5, <2>6
<1>7. ASSUME NEW r \in Requests, SaleCommit(r) PROVE LedgerExact'
  <2> DEFINE k == req[r].key
             items == req[r].items
  <2>1. k \in Keys /\ items \in [Products -> Nat]
    BY <1>7 DEF TypeOK, SaleCommit, Request, Idle
  <2>2. ledger[k] = NoItems
    BY <1>7, <1>a, <2>1 DEF SaleCommit, NoSaleNoItems
  <2>3. /\ ledger'[k] = items
        /\ \A x \in (Orders \cup Keys) \ {k} : ledger'[x] = ledger[x]
    BY <1>7, <2>1, <2>2, TakeAll, LedgerMove DEF SaleCommit
  <2>4. /\ posSales'[k].items = items
        /\ \A x \in Keys \ {k} : posSales'[x] = posSales[x]
    BY <1>7, <2>1 DEF SaleCommit, TypeOK
  <2>5. KeysRight'
    BY <1>a, <2>1, <2>3, <2>4
  <2>6. \A o \in Orders : Right(o)'
    BY <1>7, <1>c, <1>d, <2>1, <2>3 DEF SaleCommit
  <2>7. QED
    BY <1>b, <2>5, <2>6
<1>8. CASE CancelSale
  <2>1. /\ orders' = orders /\ ledger' = ledger /\ staleClaims' = staleClaims
        /\ \A k \in Keys : posSales'[k].items = posSales[k].items
    BY <1>8 DEF CancelSale, TypeOK, SaleRow
  <2>2. QED
    BY <1>a, <1>b, <1>c, <2>1
<1>9. ASSUME NEW o \in Orders, Remove(o) PROVE LedgerExact'
  <2>1. \A x \in Orders : /\ orders'[x].status = orders[x].status
                          /\ orders'[x].items = orders[x].items
    BY <1>9 DEF Remove, TypeOK, OrderRow
  <2>2. QED
    BY <1>9, <1>a, <1>b, <1>c, <2>1 DEF Remove
<1>10. QED
  BY <1>1, <1>2, <1>3, <1>4, <1>5, <1>6, <1>7, <1>8, <1>9, StepKinds
-----------------------------------------------------------------------------
(* Sales and the items they were made from *)

(* No kind of step parts a sale from its order, stale claims apart. *)
LEMMA MatchStep ==
  ASSUME TypeOK, SaleOrderConsistent, SaleMatchesFreshOrder, [Next]_vars
  PROVE  SaleMatchesFreshOrder'
<1> DEFINE Match(o) == HasSale(o) => \/ o \in staleClaims
                                     \/ orderSales[o].items = orders[o].items
<1>a. (\A o \in Orders : Match(o)) /\ ((\A o \in Orders : Match(o)') => SaleMatchesFreshOrder')
  BY DEF SaleMatchesFreshOrder
<1>b. ASSUME staleClaims \subseteq staleClaims', orderSales' = orderSales,
             \A o \in Orders : HasSale(o) => orders'[o].items = orders[o].items
      PROVE  SaleMatchesFreshOrder'
  BY <1>a, <1>b DEF HasSale
<1>1. CASE Quiet
  BY <1>1, <1>b DEF Quiet
<1>2. ASSUME NEW o \in Orders, NEW c \in Carts, NEW g \in BOOLEAN, CreateOrder(o, c, g)
      PROVE  SaleMatchesFreshOrder'
  <2>1. ~HasSale(o) /\ \A x \in Orders \ {o} : orders'[x] = orders[x]
    BY <1>2 DEF CreateOrder, Exists, SaleOrderConsistent, TypeOK
  <2>2. QED
    BY <1>2, <1>b, <2>1 DEF CreateOrder
<1>3. ASSUME NEW r \in Requests, NEW c \in Carts, Update(r, c)
      PROVE  SaleMatchesFreshOrder'
  <2>1. req[r].order \in Orders
    BY <1>3 DEF TypeOK, Update, Request, Idle
  <2>2. \A x \in Orders \ {req[r].order} : orders'[x] = orders[x]
    BY <1>3, <2>1 DEF Update, TypeOK
  <2>3. ~HasSale(req[r].order)
    BY <1>3, <2>1 DEF Update, Mutable, SaleOrderConsistent
  <2>4. QED
    BY <1>3, <1>b, <2>2, <2>3 DEF Update
<1>4. ASSUME NEW o \in Orders, NEW next \in {"preparing", "refunded", "delivered"},
             SetStatus(o, next)
      PROVE  SaleMatchesFreshOrder'
  <2>1. \A x \in Orders : orders'[x].items = orders[x].items
    BY <1>4 DEF SetStatus, TypeOK, OrderRow
  <2>2. QED
    BY <1>4, <1>b, <2>1 DEF SetStatus
<1>5. CASE RestoreStep
  <2> PICK o \in Orders, sources \in SUBSET {"pending", "preparing"},
           seen \in [Products -> Nat], bump \in {0, 1} : Restore(o, sources, seen, bump)
    BY <1>5 DEF RestoreStep
  <2>1. \A x \in Orders : orders'[x].items = orders[x].items
    BY DEF Restore, TypeOK, OrderRow
  <2>2. QED
    BY <1>b, <2>1 DEF Restore, NoteClaim
<1>6. ASSUME NEW r \in Requests, PayClaim(r) PROVE SaleMatchesFreshOrder'
  <2>1. req[r].order \in Orders
    BY <1>6 DEF TypeOK, PayClaim, Request, Idle
  <2> PICK o \in Orders : o = req[r].order
    BY <2>1
  <2>2. \A x \in Orders : orders'[x].items = orders[x].items
    BY <1>6, <2>1 DEF PayClaim, TypeOK, OrderRow
  <2>3. staleClaims \subseteq staleClaims'
    BY <1>6 DEF PayClaim, NoteClaim
  <2>4. CASE HasSale(o)
    BY <1>6, <1>b, <2>2, <2>3, <2>4 DEF PayClaim
  <2>5. CASE ~HasSale(o)
    <3>1. /\ orderSales' = [orderSales EXCEPT ![o] =
                              [status |-> "paid", items |-> req[r].items]]
          /\ NoteClaim(o, req[r].items)
      BY <1>6, <2>5 DEF PayClaim
    <3>2. /\ orderSales'[o].items = req[r].items
          /\ \A x \in Orders \ {o} : orderSales'[x] = orderSales[x]
      BY <3>1 DEF TypeOK
    <3>3. req[r].items = orders[o].items \/ o \in staleClaims'
      BY <3>1 DEF NoteClaim
    <3>4. Match(o)'
      BY <2>2, <3>2, <3>3
    <3>5. \A x \in Orders \ {o} : Match(x)'
      BY <1>a, <2>2, <2>3, <3>2 DEF HasSale
    <3>6. QED
      BY <1>a, <3>4, <3>5
  <2>6. QED
    BY <2>4, <2>5
<1>7. ASSUME NEW r \in Requests, SaleCommit(r) PROVE SaleMatchesFreshOrder'
  BY <1>7, <1>b DEF SaleCommit
<1>8. CASE CancelSale
  <2>0. /\ orders' = orders /\ staleClaims' = staleClaims
        /\ \A o \in Orders : orderSales'[o].items = orderSales[o].items
    <3>1. \A o \in Orders : orderSales[o] \in SaleRow
      BY DEF TypeOK
    <3>2. CASE orderSales' = orderSales /\ orders' = orders /\ staleClaims' = staleClaims
      BY <3>2
    <3>3. ASSUME NEW x \in Orders, orders' = orders, staleClaims' = staleClaims,
                 orderSales' = [orderSales EXCEPT ![x] =
                                  [orderSales[x] EXCEPT !.status = "canceled"]]
          PROVE  \A o \in Orders : orderSales'[o].items = orderSales[o].items
      BY <3>1, <3>3 DEF TypeOK, SaleRow
    <3>4. QED
      BY <1>8, <3>2, <3>3 DEF CancelSale
  <2>1. \A o \in Orders : orderSales[o].status = "none" => orderSales'[o].status = "none"
    <3>1. CASE orderSales' = orderSales
      BY <3>1
    <3>2. ASSUME NEW x \in Orders, orderSales[x].status = "paid",
                 orderSales' = [orderSales EXCEPT ![x].status = "canceled"]
          PROVE  \A o \in Orders \ {x} : orderSales'[o] = orderSales[o]
      BY <3>2 DEF TypeOK
    <3>3. QED
      BY <1>8, <3>1, <3>2 DEF CancelSale
  <2>2. ASSUME NEW o \in Orders PROVE Match(o)'
    <3>1. Match(o)
      BY <1>a
    <3>2. HasSale(o)' => HasSale(o)
      BY <2>1 DEF HasSale
    <3>3. QED
      BY <2>0, <3>1, <3>2
  <2>3. QED
    BY <1>a, <2>2
<1>9. ASSUME NEW o \in Orders, Remove(o) PROVE SaleMatchesFreshOrder'
  <2>1. \A x \in Orders : orders'[x].items = orders[x].items
    BY <1>9 DEF Remove, TypeOK, OrderRow
  <2>2. QED
    BY <1>9, <1>b, <2>1 DEF Remove
<1>10. QED
  BY <1>1, <1>2, <1>3, <1>4, <1>5, <1>6, <1>7, <1>8, <1>9, StepKinds

-----------------------------------------------------------------------------
(* Edit forms *)

(* A request that is an edit after a step was one before, or was opened by it *)
LEMMA EditRequests ==
  ASSUME TypeOK, [Next]_vars, NEW r \in Requests, req'[r].op = "edit"
  PROVE  req'[r] = req[r] \/ \E o \in Orders : OpenEdit(r, o)
<1> USE DEF TypeOK, Done, Idle
<1>1. CASE \E s \in Requests, o \in Orders :
             \/ OpenEdit(s, o) \/ CancelRead(s, o) \/ PayLookup(s, o)
             \/ ExpireRead(s, o) \/ GuestCancelRead(s, o)
  BY <1>1 DEF OpenEdit, CancelRead, PayLookup, ExpireRead, GuestCancelRead
<1>2. CASE \E s \in Requests, k \in Keys, c \in Carts \cup {NoItems} : SaleLookup(s, k, c)
  BY <1>2 DEF SaleLookup
<1>3. CASE \E s \in Requests, lapsed \in SUBSET Orders : SweepBegin(s, lapsed)
  BY <1>3 DEF SweepBegin
<1>4. CASE \E s \in Requests : PayRead(s) \/ Abort(s) \/ ExpireClaim(s)
  BY <1>4 DEF PayRead, Abort, ExpireClaim
<1>5. CASE \E s \in Requests : \/ CancelClaim(s) \/ GuestCancelClaim(s)
                               \/ PayClaim(s) \/ SaleCommit(s)
  BY <1>5 DEF CancelClaim, GuestCancelClaim, PayClaim, SaleCommit
<1>6. CASE \E s \in Requests, c \in Carts : Update(s, c)
  BY <1>6 DEF Update
<1>7. CASE \E s \in Requests, o \in Orders, c \in Carts : GuestCreate(s, o, c)
  BY <1>7 DEF GuestCreate
<1>8. CASE req' = req
  BY <1>8
<1>9. QED
  BY <1>1, <1>2, <1>3, <1>4, <1>5, <1>6, <1>7, <1>8
  DEF Next, vars, AdminCreate, UpdateStatus, Deliver, SetStatus, Remove, CancelSale,
      SetQuantity

(* What a step does to an order that exists: it stays, its version does    *)
(* not decrease, and while that stays the same and the order can be edited *)
(* neither items nor status change.                                        *)
LEMMA VersionStep ==
  ASSUME TypeOK, [Next]_vars, NEW x \in Orders, Exists(x)
  PROVE  /\ Exists(x)'
         /\ orders[x].version <= orders'[x].version
         /\ orders[x].version = orders'[x].version /\ Mutable(x)' =>
              /\ orders'[x].items = orders[x].items
              /\ orders'[x].status = orders[x].status
<1> USE DEF Exists, Mutable
<1>a. orders[x].version \in Nat
  BY DEF TypeOK, OrderRow
<1>0. CASE orders'[x] = orders[x]
  BY <1>a, <1>0
<1>1. ASSUME NEW o \in Orders, NEW c \in Carts, NEW g \in BOOLEAN, CreateOrder(o, c, g)
      PROVE  orders'[x] = orders[x]
  BY <1>1 DEF CreateOrder, TypeOK
<1>2. CASE \E r \in Requests, c \in Carts : Update(r, c)
  <2> PICK r \in Requests, c \in Carts : Update(r, c)
    BY <1>2
  <2>1. req[r].order \in Orders
    BY DEF TypeOK, Update, Request, Idle
  <2>2. CASE x = req[r].order
    <3>1. /\ orders'[x].version = orders[x].version + 1
          /\ orders'[x].status = orders[x].status
      BY <2>1, <2>2 DEF Update, TypeOK, OrderRow
    <3>2. QED
      BY <1>a, <3>1
  <2>3. CASE x # req[r].order
    BY <1>0, <2>1, <2>3 DEF Update, TypeOK
  <2>4. QED
    BY <2>2, <2>3
<1>3. CASE \E o \in Orders, next \in {"preparing", "refunded", "delivered"} :
             SetStatus(o, next)
  <2> PICK o \in Orders, next \in {"preparing", "refunded", "delivered"} : SetStatus(o, next)
    BY <1>3
  <2>1. CASE x = o
    <3>1. /\ orders'[x].version = orders[x].version + 1
          /\ orders'[x].status = next
      BY <2>1 DEF SetStatus, TypeOK, OrderRow
    <3>2. QED
      BY <1>a, <3>1
  <2>2. CASE x # o
    BY <1>0, <2>2 DEF SetStatus, TypeOK
  <2>3. QED
    BY <2>1, <2>2
<1>4. CASE RestoreStep
  <2> PICK o \in Orders, sources \in SUBSET {"pending", "preparing"},
           seen \in [Products -> Nat], bump \in {0, 1} : Restore(o, sources, seen, bump)
    BY <1>4 DEF RestoreStep
  <2>1. CASE x = o
    <3>1. /\ orders'[x].version = orders[x].version + bump
          /\ orders'[x].status = "canceled"
      BY <2>1 DEF Restore, TypeOK, OrderRow
    <3>2. QED
      BY <1>a, <3>1
  <2>2. CASE x # o
    BY <1>0, <2>2 DEF Restore, TypeOK
  <2>3. QED
    BY <2>1, <2>2
<1>5. CASE \E r \in Requests : PayClaim(r)
  <2> PICK r \in Requests : PayClaim(r)
    BY <1>5
  <2>1. req[r].order \in Orders
    BY DEF TypeOK, PayClaim, Request, Idle
  <2>2. CASE x = req[r].order
    <3>1. /\ orders'[x].version = orders[x].version + 1
          /\ orders'[x].status \in {"paid", "delivered"}
      BY <2>1, <2>2 DEF PayClaim, PaymentTarget, TypeOK, OrderRow
    <3>2. QED
      BY <1>a, <3>1
  <2>3. CASE x # req[r].order
    BY <1>0, <2>1, <2>3 DEF PayClaim, TypeOK
  <2>4. QED
    BY <2>2, <2>3
<1>6. CASE \E o \in Orders : Remove(o)
  <2>1. /\ orders'[x].version = orders[x].version /\ orders'[x].items = orders[x].items
        /\ orders'[x].status = orders[x].status
    BY <1>6 DEF Remove, TypeOK, OrderRow
  <2>2. QED
    BY <1>a, <2>1
<1>7. CASE orders' = orders
  BY <1>0, <1>7
<1>8. QED
  BY <1>0, <1>1, <1>2, <1>3, <1>4, <1>5, <1>6, <1>7, StepKinds
  DEF Quiet, SaleCommit, CancelSale

(* No step makes a form stale without changing the version. *)
LEMMA FormStep ==
  ASSUME TypeOK, FormFresh, [Next]_vars
  PROVE  FormFresh'
<1> SUFFICES ASSUME NEW r \in Requests, req'[r].op = "edit",
                    NEW x \in Orders, x = req'[r].order
             PROVE  /\ Exists(x)'
                    /\ req'[r].version <= orders'[x].version
                    /\ req'[r].version = orders'[x].version /\ Mutable(x)' =>
                         /\ req'[r].items = orders'[x].items
                         /\ req'[r].status = orders'[x].status
  <2>1. \A r \in Requests : req'[r].op = "edit" => req'[r].order \in Orders
    BY TypeStep DEF TypeOK, Request, Idle
  <2>2. QED
    BY <2>1 DEF FormFresh, Exists, Mutable
<1>1. CASE req'[r] = req[r]
  <2>1. req[r] \in [op : {"edit"}, order : Orders, status : Status,
                    items : [Products -> Nat], version : Nat]
    BY <1>1 DEF TypeOK, Request, Idle
  <2>2. /\ Exists(x)
        /\ req[r].version <= orders[x].version
        /\ req[r].version = orders[x].version /\ Mutable(x) =>
             /\ req[r].items = orders[x].items
             /\ req[r].status = orders[x].status
    BY <1>1 DEF FormFresh
  <2>3. /\ Exists(x)'
        /\ orders[x].version <= orders'[x].version
        /\ orders[x].version = orders'[x].version /\ Mutable(x)' =>
             /\ orders'[x].items = orders[x].items
             /\ orders'[x].status = orders[x].status
    BY <2>2, VersionStep
  <2>4. req[r].version \in Nat /\ orders[x].version \in Nat /\ orders'[x].version \in Nat
    BY <2>1, TypeStep DEF TypeOK, OrderRow
  <2>5. req[r].version <= orders'[x].version
    BY <2>2, <2>3, <2>4
  <2>6. req[r].version = orders'[x].version => /\ req[r].version = orders[x].version
                                               /\ orders[x].version = orders'[x].version
    BY <2>2, <2>3, <2>4
  <2>7. Mutable(x)' /\ req[r].version = orders'[x].version => Mutable(x)
    BY <2>3, <2>6 DEF Mutable
  <2>8. QED
    BY <1>1, <2>2, <2>3, <2>5, <2>6, <2>7
<1>2. CASE \E o \in Orders : OpenEdit(r, o)
  <2> PICK o \in Orders : OpenEdit(r, o)
    BY <1>2
  <2>1. req'[r] = [op |-> "edit", order |-> o, status |-> orders[o].status,
                   items |-> orders[o].items, version |-> orders[o].version]
    BY DEF OpenEdit, TypeOK
  <2>2. orders' = orders /\ Found(o) /\ orders[o].version \in Nat /\ x = o
    BY <2>1 DEF OpenEdit, TypeOK, OrderRow
  <2>3. QED
    BY <2>1, <2>2 DEF Found, Exists
<1>3. QED
  BY <1>1, <1>2, EditRequests

-----------------------------------------------------------------------------
(* The inductive invariant, and what follows from it *)

(* The inductive invariant: the properties and what they need of each other *)
IInv ==
  /\ TypeOK
  /\ SaleOrderConsistent
  /\ NoSaleNoItems
  /\ LedgerExact
  /\ SaleMatchesFreshOrder
  /\ FormFresh

(* It holds initially, *)
LEMMA IInvInit == Init => IInv
<1> SUFFICES ASSUME Init PROVE IInv
  OBVIOUS
<1>1. TypeOK
  BY TypeInit
<1>2. SaleOrderConsistent /\ SaleMatchesFreshOrder /\ NoSaleNoItems
  BY DEF Init, SaleOrderConsistent, SaleMatchesFreshOrder, NoSaleNoItems, HasSale,
         NoOrder, NoSale
<1>3. LedgerExact
  BY DEF Init, LedgerExact, Holding, NoOrder, NoSale
<1>4. FormFresh
  BY DEF Init, FormFresh, Idle
<1>5. QED
  BY <1>1, <1>2, <1>3, <1>4 DEF IInv

(* every step preserves it, *)
LEMMA IInvStep == IInv /\ [Next]_vars => IInv'
BY TypeStep, SaleOrderStep, NoSaleNoItemsStep, LedgerStep, MatchStep, FormStep DEF IInv

(* and so it holds of every reachable state. *)
LEMMA IInvInvariant == Spec => []IInv
BY IInvInit, IInvStep, PTL DEF Spec

(* Every variable keeps its type; in particular no interleaving of orders, *)
(* sales, edits and cancellations drives the stock of a product below zero.*)
THEOREM TypeCorrect == Spec => []TypeOK
<1>1. IInv => TypeOK
  BY DEF IInv
<1>2. QED
  BY <1>1, IInvInvariant, PTL

(* Each unit is taken once and given back once, whichever of the handlers  *)
(* of OrdersService, SalesService and StorefrontService wins its claim;    *)
(* only a cancellation that read the items before an edit can differ.      *)
THEOREM LedgerTheorem == Spec => []LedgerExact
<1>1. IInv => LedgerExact
  BY DEF IInv
<1>2. QED
  BY <1>1, IInvInvariant, PTL

(* Status of an order, its sale and stockRestoredAt never disagree         *)
THEOREM SaleOrderTheorem == Spec => []SaleOrderConsistent
<1>1. IInv => SaleOrderConsistent
  BY DEF IInv
<1>2. QED
  BY <1>1, IInvInvariant, PTL

(* The sale createFromOrder makes of an order is and remains the sale of   *)
(* its items, unless they were edited between its read and its claim.      *)
THEOREM SaleMatchTheorem == Spec => []SaleMatchesFreshOrder
<1>1. IInv => SaleMatchesFreshOrder
  BY DEF IInv
<1>2. QED
  BY <1>1, IInvInvariant, PTL

(* A form with the version of the order shows what the order is            *)
THEOREM FormTheorem == Spec => []FormFresh
<1>1. IInv => FormFresh
  BY DEF IInv
<1>2. QED
  BY <1>1, IInvInvariant, PTL
-----------------------------------------------------------------------------
(* What a step may never do *)

(* A step that changes the status of an order follows the table. *)
LEMMA TransitionStep ==
  ASSUME TypeOK, [Next]_vars, NEW x \in Orders, orders[x].status # orders'[x].status
  PROVE  IF orders[x].status = "none" THEN orders'[x].status = "pending"
         ELSE orders'[x].status \in Transitions[orders[x].status]
<1>1. ASSUME NEW o \in Orders, NEW c \in Carts, NEW g \in BOOLEAN, CreateOrder(o, c, g)
      PROVE  orders[x].status = "none" /\ orders'[x].status = "pending"
  BY <1>1 DEF CreateOrder, Exists, NoOrder, TypeOK
<1>2. CASE \E r \in Requests, c \in Carts : Update(r, c)
  <2> PICK r \in Requests, c \in Carts : Update(r, c)
    BY <1>2
  <2>1. req[r].order \in Orders
    BY DEF TypeOK, Update, Request, Idle
  <2>2. orders'[x].status = orders[x].status
    BY <2>1 DEF Update, TypeOK, OrderRow
  <2>3. QED
    BY <2>2
<1>3. ASSUME NEW o \in Orders, NEW next \in {"preparing", "refunded", "delivered"},
             SetStatus(o, next)
      PROVE  /\ orders[x].status \in Status
             /\ orders'[x].status \in Transitions[orders[x].status]
  <2>1. x = o /\ orders'[x].status = next
    BY <1>3 DEF SetStatus, TypeOK, OrderRow
  <2>2. QED
    BY <1>3, <2>1 DEF SetStatus, SourcesFor
<1>4. ASSUME RestoreStep
      PROVE  /\ orders[x].status \in Status
             /\ orders'[x].status \in Transitions[orders[x].status]
  <2> PICK o \in Orders, sources \in SUBSET {"pending", "preparing"},
           seen \in [Products -> Nat], bump \in {0, 1} : Restore(o, sources, seen, bump)
    BY <1>4 DEF RestoreStep
  <2>1. x = o /\ orders'[x].status = "canceled"
    BY DEF Restore, TypeOK, OrderRow
  <2>2. orders[x].status \in {"pending", "preparing"}
    BY <2>1 DEF Restore
  <2>3. QED
    BY <2>1, <2>2 DEF Transitions, Status
<1>5. ASSUME NEW r \in Requests, PayClaim(r)
      PROVE  /\ orders[x].status \in Status
             /\ orders'[x].status \in Transitions[orders[x].status]
  <2>1. req[r].order \in Orders
    BY <1>5 DEF TypeOK, PayClaim, Request, Idle
  <2>2. x = req[r].order /\ orders'[x].status = PaymentTarget(req[r].status)
    BY <1>5, <2>1 DEF PayClaim, TypeOK, OrderRow
  <2>3. orders[x].status \in PaymentSources(req[r].status)
    BY <1>5, <2>2 DEF PayClaim
  <2>4. PaymentTarget(req[r].status) = "paid" /\ orders[x].status \in SourcesFor("paid")
    BY <2>2, <2>3 DEF PaymentSources, PaymentTarget
  <2>5. QED
    BY <2>2, <2>4 DEF SourcesFor
<1>6. CASE \E o \in Orders : Remove(o)
  <2>1. orders'[x].status = orders[x].status
    BY <1>6 DEF Remove, TypeOK, OrderRow
  <2>2. QED
    BY <2>1
<1>7. CASE orders' = orders
  BY <1>7
<1>8. orders[x].status \in Status => orders[x].status # "none"
  BY DEF Status
<1>9. QED
  BY <1>1, <1>2, <1>3, <1>4, <1>5, <1>6, <1>7, <1>8, StepKinds
  DEF Quiet, SaleCommit, CancelSale

(* Whatever the interleaving, an order moves along the RC-007 state        *)
(* machine, though each handler decides on what it read.                   *)
THEOREM TransitionTheorem == Spec => LegalTransitions
<1> DEFINE Legal ==
      \A o \in Orders :
        orders[o].status # orders'[o].status =>
          IF orders[o].status = "none" THEN orders'[o].status = "pending"
          ELSE orders'[o].status \in Transitions[orders[o].status]
<1>1. IInv /\ [Next]_vars => Legal
  BY TransitionStep DEF IInv
<1>2. Spec => [][Legal]_vars
  BY <1>1, IInvInvariant, PTL DEF Spec
<1>3. QED
  BY <1>2 DEF LegalTransitions

(* A step that changes the items of an order is an edit of a fresh form. *)
LEMMA EditStep ==
  ASSUME TypeOK, FormFresh, [Next]_vars, NEW x \in Orders,
         Exists(x), orders'[x].items # orders[x].items
  PROVE  /\ Mutable(x)
         /\ \E r \in Requests :
              /\ req[r].op = "edit" /\ req'[r] = Idle
              /\ req[r].order = x
              /\ req[r].items = orders[x].items
              /\ req[r].status = orders[x].status
<1>1. CASE \E o \in Orders, c \in Carts, g \in BOOLEAN : CreateOrder(o, c, g)
  BY <1>1 DEF CreateOrder, Exists, TypeOK
<1>2. CASE \E r \in Requests, c \in Carts : Update(r, c)
  <2> PICK r \in Requests, c \in Carts : Update(r, c)
    BY <1>2
  <2>1. req[r].order \in Orders
    BY DEF TypeOK, Update, Request, Idle
  <2>2. x = req[r].order
    BY <2>1 DEF Update, TypeOK
  <2>3. req[r].version = orders[x].version /\ Mutable(x) /\ req[r].op = "edit"
    BY <2>2 DEF Update
  <2>4. req'[r] = Idle
    BY DEF Update, Done, TypeOK
  <2>5. req[r].items = orders[x].items /\ req[r].status = orders[x].status
    BY <2>2, <2>3 DEF FormFresh
  <2>6. QED
    BY <2>2, <2>3, <2>4, <2>5
<1>3. CASE \E o \in Orders, next \in {"preparing", "refunded", "delivered"} :
             SetStatus(o, next)
  BY <1>3 DEF SetStatus, TypeOK, OrderRow
<1>4. CASE RestoreStep
  BY <1>4 DEF RestoreStep, Restore, TypeOK, OrderRow
<1>5. CASE \E r \in Requests : PayClaim(r)
  <2> PICK r \in Requests : PayClaim(r)
    BY <1>5
  <2>1. orders'[x].items = orders[x].items
    BY DEF PayClaim, TypeOK, OrderRow
  <2>2. QED
    BY <2>1
<1>6. CASE \E o \in Orders : Remove(o)
  BY <1>6 DEF Remove, TypeOK, OrderRow
<1>7. CASE orders' = orders
  BY <1>7
<1>8. QED
  BY <1>1, <1>2, <1>3, <1>4, <1>5, <1>6, <1>7, StepKinds DEF Quiet, SaleCommit, CancelSale

(* An edit only replaces what its author saw                               *)
THEOREM EditTheorem == Spec => NoBlindEdit
<1> DEFINE Edit ==
      \A o \in Orders :
        Exists(o) /\ orders'[o].items # orders[o].items =>
          /\ Mutable(o)
          /\ \E r \in Requests :
               /\ req[r].op = "edit" /\ req'[r] = Idle
               /\ req[r].order = o
               /\ req[r].items = orders[o].items
               /\ req[r].status = orders[o].status
<1>1. IInv /\ [Next]_vars => Edit
  BY EditStep DEF IInv
<1>2. Spec => [][Edit]_vars
  BY <1>1, IInvInvariant, PTL DEF Spec
<1>3. QED
  BY <1>2 DEF NoBlindEdit

-----------------------------------------------------------------------------
(* One unit of each product (the second instance of MCOrderStock): no order is *)
(* edited there, so that what a cancellation has read before its claim still   *)
(* is what the order holds, and the rows alone account for every unit.  Sums   *)
(* over the holders are the sizes of sets of units.                            *)

(* What finitely many hold can be counted.                                      *)
LEMMA UnitsCounted ==
  ASSUME NEW H, IsFiniteSet(H), NEW n \in [H -> Nat]
  PROVE  IsFiniteSet(UnitsOf(n)) /\ Cardinality(UnitsOf(n)) \in Nat
<1>1. \A h \in H : IsFiniteSet({h} \X (1..n[h]))
  <2> TAKE h \in H
  <2>1. IsFiniteSet({h})  BY FS_Singleton
  <2>2. n[h] \in Int  OBVIOUS
  <2>3. IsFiniteSet(1..n[h])  BY <2>2, FS_Interval
  <2> QED  BY <2>1, <2>3, FS_Product
<1> DEFINE F == [h \in H |-> {h} \X (1..n[h])]
<1>2. F \in Surjection(H, {{h} \X (1..n[h]) : h \in H})  BY DEF Surjection
<1>3. IsFiniteSet({{h} \X (1..n[h]) : h \in H})  BY <1>2, FS_Surjection
<1>4. IsFiniteSet(UnitsOf(n))  BY <1>1, <1>3, FS_UNION DEF UnitsOf
<1> QED  BY <1>4, FS_CardinalityType

(* A holder that had none and gets some.                                        *)
LEMMA UnitsTaken ==
  ASSUME NEW H, IsFiniteSet(H), NEW n \in [H -> Nat], NEW h \in H, n[h] = 0,
         NEW m \in [H -> Nat], \A g \in H \ {h} : m[g] = n[g]
  PROVE  Cardinality(UnitsOf(m)) = Cardinality(UnitsOf(n)) + m[h]
<1> DEFINE d == m[h]
<1>0. d \in Nat  OBVIOUS
<1>1. IsFiniteSet(UnitsOf(n)) /\ Cardinality(UnitsOf(n)) \in Nat  BY UnitsCounted
<1>2. IsFiniteSet({h} \X (1..d)) /\ Cardinality({h} \X (1..d)) = d
  <2>1. IsFiniteSet({h}) /\ Cardinality({h}) = 1  BY FS_Singleton
  <2>2. IsFiniteSet(1..d) /\ Cardinality(1..d) = d  BY <1>0, FS_Interval
  <2>3. /\ IsFiniteSet({h} \X (1..d))
        /\ Cardinality({h} \X (1..d)) = Cardinality({h}) * Cardinality(1..d)
    BY <2>1, <2>2, FS_Product
  <2> QED  BY <1>0, <2>1, <2>2, <2>3
<1>3. \A x : x \in UnitsOf(n) <=> \E g \in H : x \in {g} \X (1..n[g])  BY DEF UnitsOf
<1>4. \A x : x \in UnitsOf(m) <=> \E g \in H : x \in {g} \X (1..m[g])  BY DEF UnitsOf
<1>5. 1..n[h] = {}  OBVIOUS
<1>6. UnitsOf(m) = UnitsOf(n) \cup ({h} \X (1..d))  BY <1>3, <1>4, <1>5
<1>7. UnitsOf(n) \cap ({h} \X (1..d)) = {}  BY <1>3, <1>5
<1>8. Cardinality(UnitsOf(m)) = Cardinality(UnitsOf(n)) + Cardinality({h} \X (1..d))
                                  - Cardinality(UnitsOf(n) \cap ({h} \X (1..d)))
  BY <1>1, <1>2, <1>6, FS_Union
<1>9. Cardinality(UnitsOf(n) \cap ({h} \X (1..d))) = 0  BY <1>7, FS_EmptySet
<1> QED  BY <1>0, <1>1, <1>2, <1>8, <1>9

(* The account of the units: of each product one.                               *)
Account == \A p \in Products :
  quantity[p] + Cardinality(UnitsOf(OrdersHold(p))) + Cardinality(UnitsOf(SalesHold(p))) = 1

(* The rows, where every cart is of one unit of each product and none is edited. *)
RowsAlike ==
  /\ quantity \in [Products -> Nat]
  /\ orders \in [Orders -> OrderRow] /\ posSales \in [Keys -> SaleRow]
  /\ \A o \in Orders : Exists(o) => orders[o].items = OneOfEach /\ orders[o].version >= 1
  /\ \A k \in Keys : posSales[k].status = "none" => posSales[k].items = NoItems
(* What a request has read.                                                     *)
ReadAlike(w) ==
  /\ w.op \in {"cancel", "guestCancel", "expire"} => w.order \in Orders /\ w.items = OneOfEach
  /\ w.op \in {"edit", "paying", "pay"} => w.order \in Orders
  /\ w.op \in {"sweep", "expire"} => w.todo \subseteq Orders
  /\ w.op = "sale" => w.key \in Keys /\ w.items \in {NoItems, OneOfEach}
ReadsAlike == req = [r \in Requests |-> req[r]] /\ \A r \in Requests : ReadAlike(req[r])
ContentionInv == RowsAlike /\ ReadsAlike /\ Account

(* What holders have is counted.                                                *)
LEMMA HoldTypes ==
  ASSUME RowsAlike
  PROVE  \A p \in Products :
           /\ OrdersHold(p) \in [Orders -> Nat] /\ SalesHold(p) \in [Keys -> Nat]
           /\ Cardinality(UnitsOf(OrdersHold(p))) \in Nat
           /\ Cardinality(UnitsOf(SalesHold(p))) \in Nat
<1> SUFFICES ASSUME NEW p \in Products
             PROVE  /\ OrdersHold(p) \in [Orders -> Nat] /\ SalesHold(p) \in [Keys -> Nat]
                    /\ Cardinality(UnitsOf(OrdersHold(p))) \in Nat
                    /\ Cardinality(UnitsOf(SalesHold(p))) \in Nat
  OBVIOUS
<1>1. OrdersHold(p) \in [Orders -> Nat] /\ SalesHold(p) \in [Keys -> Nat]
  BY DEF RowsAlike, OrdersHold, SalesHold, OrderRow, SaleRow
<1> QED  BY <1>1, UnitsCounted, HoldersFinite

(* Rows that hold what they held.                                               *)
LEMMA AccountSame ==
  ASSUME Account, quantity' = quantity,
         \A o \in Orders : /\ Holding(o)' <=> Holding(o)
                           /\ Holding(o) => orders'[o].items = orders[o].items,
         \A k \in Keys : posSales'[k].items = posSales[k].items
  PROVE  Account'
<1>1. \A p \in Products : OrdersHold(p)' = OrdersHold(p)  BY DEF OrdersHold
<1>2. \A p \in Products : SalesHold(p)' = SalesHold(p)  BY DEF SalesHold
<1>3. \A p \in Products : /\ UnitsOf(OrdersHold(p))' = UnitsOf(OrdersHold(p))
                          /\ UnitsOf(SalesHold(p))' = UnitsOf(SalesHold(p))
  BY <1>1, <1>2 DEF UnitsOf
<1> QED  BY <1>3 DEF Account

(* An order that takes a unit of each product, or gives it back.                *)
LEMMA AccountOrder ==
  ASSUME RowsAlike, RowsAlike', Account, NEW o \in Orders, NEW d \in {1, -1},
         \A p \in Products : quantity'[p] = quantity[p] - d,
         \A q \in Orders \ {o} : orders'[q] = orders[q], posSales' = posSales,
         d = 1 => ~Holding(o) /\ Holding(o)' /\ orders'[o].items = OneOfEach,
         d = -1 => Holding(o) /\ ~Holding(o)' /\ orders[o].items = OneOfEach
  PROVE  Account'
<1> SUFFICES ASSUME NEW p \in Products
             PROVE  quantity'[p] + Cardinality(UnitsOf(OrdersHold(p)'))
                                 + Cardinality(UnitsOf(SalesHold(p)')) = 1
  BY DEF Account, UnitsOf
<1> DEFINE n == OrdersHold(p)  m == OrdersHold(p)'
<1>1. n \in [Orders -> Nat] /\ Cardinality(UnitsOf(n)) \in Nat /\ Cardinality(UnitsOf(SalesHold(p))) \in Nat
  BY HoldTypes
<1>2. m \in [Orders -> Nat]  BY DEF RowsAlike, OrdersHold, OrderRow
<1>3. \A q \in Orders \ {o} : m[q] = n[q]  BY DEF OrdersHold, Holding
<1>4. OneOfEach[p] = 1  BY DEF OneOfEach
<1>5. SalesHold(p)' = SalesHold(p)  BY DEF SalesHold
<1>6. quantity[p] + Cardinality(UnitsOf(n)) + Cardinality(UnitsOf(SalesHold(p))) = 1 /\ quantity[p] \in Nat
  BY DEF Account, RowsAlike
<1>7. CASE d = 1
  <2>1. n[o] = 0 /\ m[o] = 1  BY <1>4, <1>7 DEF OrdersHold
  <2> HIDE DEF n, m
  <2>2. Cardinality(UnitsOf(m)) = Cardinality(UnitsOf(n)) + 1
    BY <1>1, <1>2, <1>3, <2>1, UnitsTaken, HoldersFinite
  <2> QED  BY <1>1, <1>5, <1>6, <1>7, <2>2 DEF m
<1>8. CASE d = -1
  <2>1. n[o] = 1 /\ m[o] = 0  BY <1>4, <1>8 DEF OrdersHold
  <2> HIDE DEF n, m
  <2>2. Cardinality(UnitsOf(n)) = Cardinality(UnitsOf(m)) + 1
    BY <1>1, <1>2, <1>3, <2>1, UnitsTaken, HoldersFinite
  <2>3. Cardinality(UnitsOf(m)) \in Nat  BY <1>2, UnitsCounted, HoldersFinite
  <2> QED  BY <1>1, <1>5, <1>6, <1>8, <2>2, <2>3 DEF m
<1> QED  BY <1>7, <1>8

(* A sale of the cash register that takes what it sells.                        *)
LEMMA AccountSale ==
  ASSUME RowsAlike, RowsAlike', Account, NEW k \in Keys, NEW items \in [Products -> Nat],
         \A p \in Products : quantity'[p] = quantity[p] - items[p],
         orders' = orders, posSales[k].status = "none",
         posSales'[k].items = items, \A l \in Keys \ {k} : posSales'[l] = posSales[l]
  PROVE  Account'
<1> SUFFICES ASSUME NEW p \in Products
             PROVE  quantity'[p] + Cardinality(UnitsOf(OrdersHold(p)'))
                                 + Cardinality(UnitsOf(SalesHold(p)')) = 1
  BY DEF Account, UnitsOf
<1> DEFINE n == SalesHold(p)  m == SalesHold(p)'
<1>1. n \in [Keys -> Nat] /\ Cardinality(UnitsOf(n)) \in Nat /\ Cardinality(UnitsOf(OrdersHold(p))) \in Nat
  BY HoldTypes
<1>2. m \in [Keys -> Nat]  BY DEF RowsAlike, SalesHold, SaleRow
<1>3. \A l \in Keys \ {k} : m[l] = n[l]  BY DEF SalesHold
<1>4. n[k] = 0 /\ m[k] = items[p]  BY DEF SalesHold, RowsAlike, NoItems
<1>5. OrdersHold(p)' = OrdersHold(p)  BY DEF OrdersHold, Holding
<1>6. quantity[p] + Cardinality(UnitsOf(OrdersHold(p))) + Cardinality(UnitsOf(n)) = 1 /\ quantity[p] \in Nat
  BY DEF Account, RowsAlike
<1> HIDE DEF n, m
<1>7. Cardinality(UnitsOf(m)) = Cardinality(UnitsOf(n)) + items[p]
  BY <1>1, <1>2, <1>3, <1>4, UnitsTaken, HoldersFinite
<1> QED  BY <1>1, <1>5, <1>6, <1>7 DEF m

(* The instance says of the rows what the module says.                          *)
LEMMA ContentionSays ==
  /\ Contention!NoItems = NoItems /\ Contention!Idle = Idle
  /\ Contention!NoOrder = NoOrder /\ Contention!NoSale = NoSale
  /\ \A o : /\ Contention!Exists(o) <=> Exists(o)
            /\ Contention!Holding(o) <=> Holding(o)
            /\ Contention!Found(o) => Exists(o)
  /\ \A s : Contention!SourcesFor(s) \subseteq Status \ {"canceled"}
<1>1. Contention!NoItems = NoItems /\ Contention!Idle = Idle
  BY DEF Contention!NoItems, NoItems, Contention!Idle, Idle
<1>2. Contention!NoOrder = NoOrder /\ Contention!NoSale = NoSale
  BY <1>1 DEF Contention!NoOrder, NoOrder, Contention!NoSale, NoSale
<1>3. \A o : /\ Contention!Exists(o) <=> Exists(o)
             /\ Contention!Holding(o) <=> Holding(o)
             /\ Contention!Found(o) => Exists(o)
  <2> TAKE o
  <2>1. Contention!Exists(o) <=> Exists(o)  BY DEF Contention!Exists, Exists
  <2>2. Contention!Holding(o) <=> Holding(o)  BY DEF Contention!Holding, Holding
  <2>3. Contention!Found(o) => Contention!Exists(o)  BY DEF Contention!Found
  <2> QED  BY ONLY <2>1, <2>2, <2>3
<1>4. \A s : Contention!SourcesFor(s) \subseteq Status \ {"canceled"}
  BY DEF Contention!SourcesFor, Contention!Transitions, Contention!Status, Status
<1> QED  BY <1>1, <1>2, <1>3, <1>4

(* An order that keeps its units: its row changes in something else.            *)
LEMMA RowKept ==
  ASSUME RowsAlike, Account, NEW o \in Orders, Exists(o),
         NEW row \in OrderRow, row.items = orders[o].items, row.version >= orders[o].version,
         row.status \notin {"none", "canceled"} <=> Holding(o), row.status # "none",
         orders' = [orders EXCEPT ![o] = row], quantity' = quantity,
         \A k \in Keys : /\ posSales'[k].items = posSales[k].items
                         /\ posSales'[k].status = "none" <=> posSales[k].status = "none",
         posSales' \in [Keys -> SaleRow]
  PROVE  RowsAlike' /\ Account'
<1>1. \A q \in Orders : orders'[q] = IF q = o THEN row ELSE orders[q]  BY DEF RowsAlike
<1>2. \A q \in Orders : /\ orders'[q].items = orders[q].items
                        /\ Holding(q)' <=> Holding(q)
                        /\ Exists(q)' <=> Exists(q)
  BY <1>1 DEF Holding, Exists
<1>3. RowsAlike'
  <2>1. orders' \in [Orders -> OrderRow]  BY DEF RowsAlike
  <2>2. \A q \in Orders : Exists(q)' => orders'[q].items = OneOfEach /\ orders'[q].version >= 1
    <3> TAKE q \in Orders
    <3>1. CASE q = o
      <4>1. row.version \in Nat /\ orders[o].version \in Nat /\ orders[o].version >= 1
        BY DEF RowsAlike, OrderRow
      <4> QED  BY <1>1, <1>2, <3>1, <4>1 DEF RowsAlike
    <3>2. CASE q # o  BY <1>1, <1>2, <3>2 DEF RowsAlike
    <3> QED  BY <3>1, <3>2
  <2> QED  BY <2>1, <2>2 DEF RowsAlike
<1> QED  BY <1>2, <1>3, AccountSame

(* create and createGuestOrder                                                  *)
LEMMA CreateRows ==
  ASSUME RowsAlike, Account, NEW o \in Orders, NEW g \in BOOLEAN,
         Contention!CreateOrder(o, OneOfEach, g)
  PROVE  RowsAlike' /\ Account'
<1> DEFINE row == [NoOrder EXCEPT !.status = "pending", !.items = OneOfEach, !.version = 1, !.guest = g]
<1>1. /\ ~Exists(o) /\ posSales' = posSales /\ orders' = [orders EXCEPT ![o] = row]
      /\ Contention!ApplyStockDelta(o, Contention!Taking(OneOfEach))
  <2>1. ~Exists(o) /\ posSales' = posSales  BY ContentionSays DEF Contention!CreateOrder
  <2>2. Contention!ApplyStockDelta(o, Contention!Taking(OneOfEach))  BY DEF Contention!CreateOrder
  <2>3. orders' = [orders EXCEPT ![o] =
          [Contention!NoOrder EXCEPT !.status = "pending", !.items = OneOfEach, !.version = 1, !.guest = g]]
    BY DEF Contention!CreateOrder
  <2>4. Contention!NoOrder = NoOrder  BY ContentionSays
  <2> QED  BY ONLY <2>1, <2>2, <2>3, <2>4
<1>2. \A p \in Products : OneOfEach[p] = 1 /\ Contention!Taking(OneOfEach)[p] = -1
  BY DEF OneOfEach, Contention!Taking
<1>3. \A p \in Products : quantity[p] >= 1 /\ quantity'[p] = quantity[p] - 1
  BY <1>1, <1>2 DEF Contention!ApplyStockDelta, RowsAlike
<1>4. quantity' \in [Products -> Nat]
  <2>1. quantity' = [p \in Products |-> quantity[p] + Contention!Taking(OneOfEach)[p]]
    BY <1>1 DEF Contention!ApplyStockDelta
  <2> QED  BY <1>3, <2>1 DEF RowsAlike
<1>5. row \in OrderRow /\ row.status = "pending" /\ row.items = OneOfEach /\ row.version = 1
  BY DEF OrderRow, NoOrder, Status, OneOfEach
<1> HIDE DEF row
<1>6. orders' \in [Orders -> OrderRow] /\ \A q \in Orders : orders'[q] = IF q = o THEN row ELSE orders[q]
  BY <1>1, <1>5 DEF RowsAlike
<1>7. RowsAlike'
  BY <1>1, <1>4, <1>5, <1>6 DEF RowsAlike, Exists
<1>8. ~Holding(o) /\ Holding(o)' /\ orders'[o].items = OneOfEach
  BY <1>1, <1>5, <1>6 DEF Holding, Exists
<1> QED  BY <1>1, <1>3, <1>6, <1>7, <1>8, AccountOrder

(* A cancellation gives back the units it has read, which are those of the      *)
(* order: no order is edited.                                                   *)
LEMMA RestoreRows ==
  ASSUME RowsAlike, Account, NEW o \in Orders, NEW sources \in SUBSET Status, "canceled" \notin sources,
         NEW bump \in Nat, Contention!Restore(o, sources, OneOfEach, bump)
  PROVE  RowsAlike' /\ Account'
<1> DEFINE row == [orders[o] EXCEPT !.status = "canceled", !.restored = TRUE, !.version = @ + bump]
<1>1. /\ orders[o].status \in sources /\ posSales' = posSales
      /\ orders' = [orders EXCEPT ![o].status = "canceled", ![o].restored = TRUE, ![o].version = @ + bump]
      /\ Contention!ApplyStockDelta(o, OneOfEach)
  BY DEF Contention!Restore
<1>2. orders' = [orders EXCEPT ![o] = row]  BY <1>1
<1>3. \A p \in Products : OneOfEach[p] = 1  BY DEF OneOfEach
<1>4. quantity' \in [Products -> Nat] /\ \A p \in Products : quantity'[p] = quantity[p] - (-1)
  <2>1. quantity' = [p \in Products |-> quantity[p] + OneOfEach[p]]
    BY <1>1 DEF Contention!ApplyStockDelta
  <2> QED  BY <1>3, <2>1 DEF RowsAlike
<1>5. Exists(o) /\ Holding(o)  BY <1>1 DEF Exists, Holding, Status
<1>6. orders[o] \in OrderRow /\ orders[o].items = OneOfEach /\ orders[o].version >= 1
  BY <1>5 DEF RowsAlike
<1>7. row \in OrderRow /\ row.status = "canceled" /\ row.items = OneOfEach /\ row.version >= 1
  <2>1. orders[o].version + bump \in Nat /\ orders[o].version + bump >= 1  BY <1>6 DEF OrderRow
  <2>2. \A v \in Nat : [orders[o] EXCEPT !.status = "canceled", !.restored = TRUE, !.version = v] \in OrderRow
    BY <1>6 DEF OrderRow, Status
  <2>3. row = [orders[o] EXCEPT !.status = "canceled", !.restored = TRUE,
                                !.version = orders[o].version + bump]
    OBVIOUS
  <2> QED  BY <1>6, <2>1, <2>2, <2>3 DEF OrderRow
<1> HIDE DEF row
<1>8. orders' \in [Orders -> OrderRow] /\ \A q \in Orders : orders'[q] = IF q = o THEN row ELSE orders[q]
  BY <1>2, <1>7 DEF RowsAlike
<1>9. RowsAlike'
  BY <1>1, <1>4, <1>7, <1>8 DEF RowsAlike, Exists
<1>10. ~Holding(o)'  BY <1>7, <1>8 DEF Holding
<1> QED  BY <1>1, <1>4, <1>5, <1>6, <1>8, <1>9, <1>10, AccountOrder

(* A request that reads, and nothing else changes.                              *)
LEMMA ReadKept ==
  ASSUME ReadsAlike, NEW r \in Requests, NEW w, ReadAlike(w), req' = [req EXCEPT ![r] = w]
  PROVE  ReadsAlike'
<1>1. \A q \in Requests : req'[q] = IF q = r THEN w ELSE req[q]  BY DEF ReadsAlike
<1>2. \A q \in Requests : ReadAlike(req'[q])  BY <1>1 DEF ReadsAlike
<1>3. req' = [q \in Requests |-> req'[q]]  BY DEF ReadsAlike
<1> QED  BY <1>2, <1>3 DEF ReadsAlike, ReadAlike

(* What does not touch the rows of orders, sales and products keeps the account. *)
LEMMA RowsSame ==
  ASSUME RowsAlike, Account, quantity' = quantity, orders' = orders, posSales' = posSales
  PROVE  RowsAlike' /\ Account'
<1>1. RowsAlike'  BY DEF RowsAlike, Exists
<1> QED  BY <1>1, AccountSame DEF Holding

(* updateStatus, remove and the claim of a payment leave the units of the order *)
(* where they are.                                                              *)
LEMMA StatusRows ==
  ASSUME RowsAlike, Account, NEW o \in Orders, NEW next \in Status \ {"canceled"},
         orders[o].status \in Status \ {"canceled"},
         orders' = [orders EXCEPT ![o].status = next, ![o].version = @ + 1],
         quantity' = quantity, posSales' = posSales
  PROVE  RowsAlike' /\ Account'
<1> DEFINE row == [orders[o] EXCEPT !.status = next, !.version = @ + 1]
<1>1. Exists(o) /\ Holding(o) /\ orders[o] \in OrderRow  BY DEF Exists, Holding, RowsAlike, Status
<1>2. orders' = [orders EXCEPT ![o] = row]  OBVIOUS
<1>3. /\ row \in OrderRow /\ row.items = orders[o].items /\ row.version >= orders[o].version
      /\ row.status = next
  <2>1. orders[o].version + 1 \in Nat /\ orders[o].version + 1 >= orders[o].version
    BY <1>1 DEF OrderRow
  <2>2. \A v \in Nat : [orders[o] EXCEPT !.status = next, !.version = v] \in OrderRow
    BY <1>1 DEF OrderRow
  <2>3. row = [orders[o] EXCEPT !.status = next, !.version = orders[o].version + 1]  OBVIOUS
  <2> QED  BY <1>1, <2>1, <2>2, <2>3 DEF OrderRow
<1>4. row.status # "none" /\ row.status \notin {"none", "canceled"}  BY <1>3 DEF Status
<1>5. posSales' \in [Keys -> SaleRow]  BY DEF RowsAlike
<1> HIDE DEF row
<1> QED  BY <1>1, <1>2, <1>3, <1>4, <1>5, RowKept

(* remove *)
LEMMA RemoveRows ==
  ASSUME RowsAlike, Account, NEW o \in Orders, Contention!Remove(o)
  PROVE  RowsAlike' /\ Account'
<1> DEFINE row == [orders[o] EXCEPT !.deleted = TRUE]
<1>1. Exists(o) /\ orders[o] \in OrderRow  BY ContentionSays DEF RowsAlike, Contention!Remove
<1>2. orders' = [orders EXCEPT ![o] = row] /\ quantity' = quantity /\ posSales' = posSales
  BY DEF Contention!Remove
<1>3. /\ row \in OrderRow /\ row.items = orders[o].items /\ row.version >= orders[o].version
      /\ row.status = orders[o].status
  <2>1. orders[o].version \in Nat  BY <1>1 DEF OrderRow
  <2>2. row \in OrderRow  BY <1>1 DEF OrderRow
  <2>3. /\ row.items = orders[o].items /\ row.version = orders[o].version
        /\ row.status = orders[o].status
    BY <1>1 DEF OrderRow
  <2> QED  BY <2>1, <2>2, <2>3
<1>4. row.status # "none" /\ (row.status \notin {"none", "canceled"} <=> Holding(o))
  BY <1>1, <1>3 DEF Exists, Holding
<1>5. posSales' \in [Keys -> SaleRow]  BY <1>2 DEF RowsAlike
<1> HIDE DEF row
<1> QED  BY <1>1, <1>2, <1>3, <1>4, <1>5, RowKept

(* create at the cash register                                                  *)
LEMMA SaleRows ==
  ASSUME RowsAlike, Account, NEW r \in Requests, req[r].key \in Keys,
         req[r].items \in {NoItems, OneOfEach}, Contention!SaleCommit(r)
  PROVE  RowsAlike' /\ Account'
<1> DEFINE k == req[r].key  items == req[r].items  sale == [status |-> "paid", items |-> items]
<1>1. /\ posSales[k].status = "none" /\ orders' = orders /\ posSales' = [posSales EXCEPT ![k] = sale]
      /\ Contention!ApplyStockDelta(k, Contention!Taking(items))
  BY DEF Contention!SaleCommit
<1>2. items \in [Products -> Nat]  BY DEF NoItems, OneOfEach
<1>3. sale \in SaleRow /\ sale.items = items /\ sale.status = "paid"  BY <1>2 DEF SaleRow
<1> HIDE DEF sale, items
<1>4. \A p \in Products : Contention!Taking(items)[p] = -items[p]  BY DEF Contention!Taking
<1>5. quantity' = [p \in Products |-> quantity[p] + Contention!Taking(items)[p]]
  BY <1>1 DEF Contention!ApplyStockDelta
<1>6. \A p \in Products : Contention!Taking(items)[p] < 0 => quantity[p] >= -Contention!Taking(items)[p]
  BY <1>1 DEF Contention!ApplyStockDelta
<1>7. \A p \in Products : quantity'[p] = quantity[p] - items[p] /\ quantity'[p] \in Nat
  BY <1>2, <1>4, <1>5, <1>6 DEF RowsAlike
<1>8. quantity' \in [Products -> Nat]  BY <1>5, <1>7
<1>9. /\ posSales' \in [Keys -> SaleRow]
      /\ \A l \in Keys : posSales'[l] = IF l = k THEN sale ELSE posSales[l]
  BY <1>1, <1>3 DEF RowsAlike
<1>10. RowsAlike'  BY <1>1, <1>3, <1>8, <1>9 DEF RowsAlike, Exists
<1> QED  BY <1>1, <1>2, <1>3, <1>7, <1>9, <1>10, AccountSale

(* cancel of a sale of the cash register                                        *)
LEMMA CancelSaleRows ==
  ASSUME RowsAlike, Account, Contention!CancelSale
  PROVE  RowsAlike' /\ Account'
<1>1. CASE posSales' = posSales
  BY <1>1, RowsSame DEF Contention!CancelSale
<1>2. CASE posSales' # posSales
  <2>1. PICK k \in Keys : /\ posSales[k].status = "paid" /\ quantity' = quantity /\ orders' = orders
                          /\ posSales' = [posSales EXCEPT ![k].status = "canceled"]
    BY <1>2 DEF Contention!CancelSale
  <2>2. \A l \in Keys : /\ posSales'[l].items = posSales[l].items
                        /\ posSales'[l].status = "none" => posSales[l].status = "none"
    BY <2>1 DEF RowsAlike, SaleRow
  <2>3. posSales' \in [Keys -> SaleRow]  BY <2>1 DEF RowsAlike, SaleRow
  <2>4. RowsAlike'  BY <2>1, <2>2, <2>3 DEF RowsAlike, Exists
  <2> QED  BY <2>1, <2>2, <2>4, AccountSame DEF Holding
<1> QED  BY <1>1, <1>2

(* What the requests of the instance read, and that nothing else moves then.    *)
LEMMA RowsStay ==
  ASSUME RowsAlike, Account, ReadsAlike, NEW r \in Requests,
         \/ \E o \in Orders : Contention!OpenEdit(r, o) \/ Contention!CancelRead(r, o)
         \/ \E o \in Orders : Contention!PayLookup(r, o) \/ Contention!GuestCancelRead(r, o)
         \/ \E o \in Orders : Contention!ExpireRead(r, o)
         \/ Contention!PayRead(r)
         \/ \E k \in Keys, c \in {OneOfEach, NoItems} : Contention!SaleLookup(r, k, c)
         \/ \E lapsed \in SUBSET Orders : Contention!SweepBegin(r, lapsed)
         \/ Contention!Abort(r)
  PROVE  ContentionInv'
<1>1. quantity' = quantity /\ orders' = orders /\ posSales' = posSales
  BY DEF Contention!OpenEdit, Contention!CancelRead, Contention!PayLookup, Contention!GuestCancelRead,
         Contention!ExpireRead, Contention!PayRead, Contention!SaleLookup, Contention!SweepBegin,
         Contention!Abort
<1>2. \A o \in Orders : Contention!Found(o) => orders[o].items = OneOfEach
  BY ContentionSays DEF RowsAlike
<1>3. \A o \in Orders : orders[o].status = "pending" => orders[o].items = OneOfEach
  BY DEF RowsAlike, Exists
<1>4. ReadAlike(req[r])  BY DEF ReadsAlike
<1>5. \E w : ReadAlike(w) /\ req' = [req EXCEPT ![r] = w]
  <2>1. CASE \E o \in Orders : Contention!OpenEdit(r, o)
    BY <2>1 DEF Contention!OpenEdit, ReadAlike
  <2>2. CASE \E o \in Orders : Contention!CancelRead(r, o)
    BY <1>2, <2>2 DEF Contention!CancelRead, ReadAlike
  <2>3. CASE \E o \in Orders : Contention!PayLookup(r, o)
    BY <2>3 DEF Contention!PayLookup, ReadAlike
  <2>4. CASE \E o \in Orders : Contention!GuestCancelRead(r, o)
    BY <1>2, <2>4 DEF Contention!GuestCancelRead, ReadAlike
  <2>5. CASE \E o \in Orders : Contention!ExpireRead(r, o)
    <3>1. PICK o \in Orders : Contention!ExpireRead(r, o)  BY <2>5
    <3>2. req[r].todo \subseteq Orders  BY <1>4, <3>1 DEF ReadAlike, Contention!ExpireRead
    <3> DEFINE rest == req[r].todo \ {o}
               go == [op |-> "expire", todo |-> rest, order |-> o, items |-> orders[o].items]
               on == [op |-> "sweep", todo |-> rest]
    <3>3. \/ req' = [req EXCEPT ![r] = go] /\ orders[o].status = "pending"
          \/ req' = [req EXCEPT ![r] = on]
      BY <3>1 DEF Contention!ExpireRead
    <3>4. orders[o].status = "pending" => ReadAlike(go)  BY <1>3, <3>2 DEF ReadAlike
    <3>5. ReadAlike(on)  BY <3>2 DEF ReadAlike
    <3> QED  BY <3>3, <3>4, <3>5
  <2>6. CASE Contention!PayRead(r)
    BY <1>4, <2>6 DEF Contention!PayRead, ReadAlike
  <2>7. CASE \E k \in Keys, c \in {OneOfEach, NoItems} : Contention!SaleLookup(r, k, c)
    BY <2>7 DEF Contention!SaleLookup, ReadAlike
  <2>8. CASE \E lapsed \in SUBSET Orders : Contention!SweepBegin(r, lapsed)
    BY <2>8 DEF Contention!SweepBegin, ReadAlike
  <2>9. CASE Contention!Abort(r)
    BY <2>9 DEF Contention!Abort, Contention!Done, Contention!Idle, ReadAlike
  <2> QED  BY <2>1, <2>2, <2>3, <2>4, <2>5, <2>6, <2>7, <2>8, <2>9
<1> QED  BY <1>1, <1>5, RowsSame, ReadKept DEF ContentionInv

(* The step of the instance.                                                    *)
LEMMA ContentionNext ==
  ASSUME ContentionInv, Contention!Next
  PROVE  ContentionInv'
<1> USE DEF ContentionInv
<1>0. ReadAlike(Contention!Idle) /\ \A r \in Requests : ReadAlike(req[r])
  BY DEF ReadAlike, Contention!Idle, ReadsAlike
<1>1. \A r \in Requests : Contention!Done(r) => ReadsAlike'
  BY <1>0, ReadKept DEF Contention!Done
<1>2. req' = req => ReadsAlike'  BY DEF ReadsAlike, ReadAlike
<1>3. ASSUME NEW o \in Orders, Contention!AdminCreate(o, OneOfEach)
      PROVE  ContentionInv'
  BY <1>2, <1>3, CreateRows DEF Contention!AdminCreate
<1>4. ASSUME NEW r \in Requests, Contention!Update(r, OneOfEach)
      PROVE  FALSE
  <2>1. req[r].order \in Orders /\ Contention!Found(req[r].order) /\ orders[req[r].order].version < 1
    BY <1>0, <1>4 DEF Contention!Update, ReadAlike
  <2>2. orders[req[r].order].version >= 1 /\ orders[req[r].order].version \in Nat
    BY <2>1, ContentionSays DEF RowsAlike, OrderRow
  <2> QED  BY <2>1, <2>2
<1>5. ASSUME NEW o \in Orders, NEW next \in {"preparing", "refunded", "delivered"},
             Contention!SetStatus(o, next)
      PROVE  ContentionInv'
  <2>1. orders[o].status \in Status \ {"canceled"} /\ next \in Status \ {"canceled"}
    BY <1>5, ContentionSays DEF Contention!SetStatus, Status
  <2>2. /\ orders' = [orders EXCEPT ![o].status = next, ![o].version = @ + 1]
        /\ quantity' = quantity /\ posSales' = posSales /\ req' = req
    BY <1>5 DEF Contention!SetStatus
  <2> QED  BY <1>2, <2>1, <2>2, StatusRows
<1>6. ASSUME NEW r \in Requests, Contention!CancelClaim(r)
      PROVE  ContentionInv'
  <2>1. req[r].order \in Orders /\ req[r].items = OneOfEach
    BY <1>0, <1>6 DEF Contention!CancelClaim, ReadAlike
  <2>2. /\ Contention!Restore(req[r].order, Contention!SourcesFor("canceled"), OneOfEach, 1)
        /\ Contention!Done(r)
    BY <1>6, <2>1 DEF Contention!CancelClaim
  <2>3. /\ Contention!SourcesFor("canceled") \in SUBSET Status
        /\ "canceled" \notin Contention!SourcesFor("canceled")
    BY ContentionSays
  <2> QED  BY <1>1, <2>1, <2>2, <2>3, RestoreRows
<1>7. ASSUME NEW o \in Orders, Contention!Remove(o)
      PROVE  ContentionInv'
  BY <1>2, <1>7, RemoveRows DEF Contention!Remove
<1>8. ASSUME NEW r \in Requests, Contention!PayClaim(r)
      PROVE  ContentionInv'
  <2> DEFINE o == req[r].order  next == Contention!PaymentTarget(req[r].status)
  <2>1. o \in Orders  BY <1>0, <1>8 DEF Contention!PayClaim, ReadAlike
  <2>2. /\ orders[o].status \in Contention!PaymentSources(req[r].status)
        /\ orders' = [orders EXCEPT ![o].status = next, ![o].version = @ + 1]
        /\ quantity' = quantity /\ posSales' = posSales /\ Contention!Done(r)
    BY <1>8 DEF Contention!PayClaim
  <2>3. next \in Status \ {"canceled"}  BY DEF Contention!PaymentTarget, Status
  <2>4. orders[o].status \in Status \ {"canceled"}
    BY <2>2, ContentionSays DEF Contention!PaymentSources, Status
  <2> HIDE DEF next
  <2> QED  BY <1>1, <2>1, <2>2, <2>3, <2>4, StatusRows
<1>9. ASSUME NEW r \in Requests, Contention!SaleCommit(r)
      PROVE  ContentionInv'
  <2>1. /\ req[r].key \in Keys /\ req[r].items \in {NoItems, OneOfEach}
        /\ Contention!Done(r)
    BY <1>0, <1>9 DEF Contention!SaleCommit, ReadAlike
  <2> QED  BY <1>1, <1>9, <2>1, SaleRows
<1>10. ASSUME Contention!CancelSale
       PROVE  ContentionInv'
  BY <1>2, <1>10, CancelSaleRows DEF Contention!CancelSale
<1>11. ASSUME NEW r \in Requests, Contention!ExpireClaim(r)
       PROVE  ContentionInv'
  <2>1. req[r].order \in Orders /\ req[r].items = OneOfEach /\ req[r].todo \subseteq Orders
    BY <1>0, <1>11 DEF Contention!ExpireClaim, ReadAlike
  <2>2. ReadsAlike'
    <3>1. req' = [req EXCEPT ![r] = [op |-> "sweep", todo |-> req[r].todo]]
      BY <1>11 DEF Contention!ExpireClaim
    <3>2. ReadAlike([op |-> "sweep", todo |-> req[r].todo])  BY <2>1 DEF ReadAlike
    <3> QED  BY <3>1, <3>2, ReadKept
  <2>3. CASE Contention!Restore(req[r].order, {"pending"}, req[r].items, 0)
    <3>1. {"pending"} \in SUBSET Status /\ "canceled" \notin {"pending"}  BY DEF Status
    <3> QED  BY <2>1, <2>2, <2>3, <3>1, RestoreRows
  <2>4. CASE quantity' = quantity /\ orders' = orders /\ posSales' = posSales
    BY <2>2, <2>4, RowsSame
  <2> QED  BY <1>11, <2>3, <2>4 DEF Contention!ExpireClaim
<1>12. ASSUME NEW r \in Requests, NEW o \in Orders, Contention!GuestCreate(r, o, OneOfEach)
       PROVE  ContentionInv'
  BY <1>1, <1>12, CreateRows DEF Contention!GuestCreate
<1>13. ASSUME NEW r \in Requests, Contention!GuestCancelClaim(r)
       PROVE  ContentionInv'
  <2>1. req[r].order \in Orders /\ req[r].items = OneOfEach
    BY <1>0, <1>13 DEF Contention!GuestCancelClaim, ReadAlike
  <2>2. /\ Contention!Restore(req[r].order, {"pending", "preparing"}, OneOfEach, 0)
        /\ Contention!Done(r)
    BY <1>13, <2>1 DEF Contention!GuestCancelClaim
  <2>3. {"pending", "preparing"} \in SUBSET Status /\ "canceled" \notin {"pending", "preparing"}
    BY DEF Status
  <2> QED  BY <1>1, <2>1, <2>2, <2>3, RestoreRows
<1> HIDE DEF ContentionInv
<1>14. ASSUME \/ \E r \in Requests, o \in Orders : Contention!OpenEdit(r, o)
              \/ \E r \in Requests, o \in Orders : Contention!CancelRead(r, o)
              \/ \E r \in Requests, o \in Orders : Contention!PayLookup(r, o)
              \/ \E r \in Requests, o \in Orders : Contention!GuestCancelRead(r, o)
              \/ \E r \in Requests, o \in Orders : Contention!ExpireRead(r, o)
              \/ \E r \in Requests : Contention!PayRead(r)
              \/ \E r \in Requests, k \in Keys, c \in {OneOfEach, NoItems} : Contention!SaleLookup(r, k, c)
              \/ \E r \in Requests, lapsed \in SUBSET Orders : Contention!SweepBegin(r, lapsed)
              \/ \E r \in Requests : Contention!Abort(r)
       PROVE  ContentionInv'
  <2>1. RowsAlike /\ Account /\ ReadsAlike  BY DEF ContentionInv
  <2> QED  BY ONLY <1>14, <2>1, RowsStay
<1>15. {OneOfEach} \cup {Contention!NoItems} = {OneOfEach, NoItems}  BY ContentionSays
<1> QED
  BY <1>3, <1>4, <1>5, <1>6, <1>7, <1>8, <1>9, <1>10, <1>11, <1>12, <1>13, <1>14, <1>15
  DEF Contention!Next, Contention!UpdateStatus, Contention!Deliver

(* Units are neither sold twice nor lost: wherever one unit of each product is  *)
(* on the shelf and none is added, however many orders, sales and cancellations *)
(* compete for it (OrdersService.create, cancel; SalesService.create;           *)
(* StorefrontService.createGuestOrder, expireReservations).                     *)
THEOREM OneUnitTheorem == MCSpec => []OneUnitEach
<1> DEFINE Inv == instance = "contention" => ContentionInv
<1>1. MCInit => Inv
  <2> SUFFICES ASSUME MCInit, instance = "contention" PROVE ContentionInv  OBVIOUS
  <2>1. /\ quantity = OneOfEach /\ orders = [o \in Orders |-> NoOrder]
        /\ posSales = [k \in Keys |-> NoSale] /\ req = [r \in Requests |-> Idle]
    BY DEF MCInit, Init
  <2>2. OneOfEach \in [Products -> Nat] /\ NoItems \in [Products -> Nat]  BY DEF OneOfEach, NoItems
  <2>3. NoOrder \in OrderRow /\ NoSale \in SaleRow
    BY <2>2 DEF OrderRow, SaleRow, NoOrder, NoSale
  <2>4. RowsAlike
    BY <2>1, <2>2, <2>3 DEF RowsAlike, Exists, NoOrder, NoSale
  <2>5. ReadsAlike  BY <2>1 DEF ReadsAlike, ReadAlike, Idle
  <2>6. Account
    <3> SUFFICES ASSUME NEW p \in Products
                 PROVE  quantity[p] + Cardinality(UnitsOf(OrdersHold(p)))
                                    + Cardinality(UnitsOf(SalesHold(p))) = 1
      BY DEF Account
    <3>1. OrdersHold(p) = [o \in Orders |-> 0]  BY <2>1 DEF OrdersHold, Holding, NoOrder
    <3>2. SalesHold(p) = [k \in Keys |-> 0]  BY <2>1 DEF SalesHold, NoSale, NoItems
    <3>3. \A H : UnitsOf([h \in H |-> 0]) = {}
      <4> TAKE H
      <4>1. \A h \in H : {h} \X (1..0) = {}  OBVIOUS
      <4> QED  BY <4>1 DEF UnitsOf
    <3>4. quantity[p] = 1  BY <2>1 DEF OneOfEach
    <3> QED  BY <3>1, <3>2, <3>3, <3>4, FS_EmptySet
  <2> QED  BY <2>4, <2>5, <2>6 DEF ContentionInv
<1>2. Inv /\ [MCNext]_<<vars, instance>> => Inv'
  <2> SUFFICES ASSUME Inv, [MCNext]_<<vars, instance>>, instance' = "contention"
               PROVE  ContentionInv'
    OBVIOUS
  <2>1. instance = "contention" /\ ContentionInv /\ (Contention!Next \/ UNCHANGED vars)
    BY DEF MCNext
  <2>2. CASE Contention!Next  BY <2>1, <2>2, ContentionNext
  <2>3. CASE UNCHANGED vars
    <3>1. /\ quantity' = quantity /\ orders' = orders /\ posSales' = posSales /\ req' = req
      BY <2>3 DEF vars
    <3>2. ReadsAlike'  BY <2>1, <3>1 DEF ReadsAlike, ReadAlike, ContentionInv
    <3> QED  BY <2>1, <3>1, <3>2, RowsSame DEF ContentionInv
  <2> QED  BY <2>1, <2>2, <2>3
<1>3. Inv => OneUnitEach  BY DEF ContentionInv, Account, OneUnitEach
<1> QED  BY <1>1, <1>2, <1>3, PTL DEF MCSpec
=============================================================================
