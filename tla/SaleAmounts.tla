----------------------------- MODULE SaleAmounts -----------------------------
(* What a sale at the till amounts to: the page (caixa.js) shows a total that   *)
(* it computes from the prices it read, the card machine or the PIX key takes   *)
(* it, and SalesService computes the total again from the prices it reads.  One *)
(* weighed product, whose labels carry what the scale charged, and items that   *)
(* have a price of their own.  Cents are integers; a quantity is a number of    *)
(* 1/Scale of its unit (six decimals in the code).  The doubles of the two      *)
(* sides are the same, as the expressions are: rationals stand for them.        *)
EXTENDS Naturals

CONSTANTS Scale,        \* 10^6 in the code: MAX_DECIMAL_PLACES
          Prices,       \* what salePriceCents may be
          Payloads,     \* cents on a label
          Others,       \* prices of miscellaneous items
          Percentages, Fixed, Notes,   \* discounts; what a customer pays beyond the total
          Stock, MaxScans               \* quantityDecimal, in 1/Scale; bound of scans

VARIABLES price,     \* salePriceCents of the product
          admin,     \* the operator's role has the limits of an Admin
          cart,      \* state.cart, and the labels that made it
          discount,  \* state.discountType, discountValue
          post,      \* POST /api/sales of the cart, with the total that the page showed
          lastSale   \* state.lastSale: the sale that was registered

amountVars == <<price, admin, cart, discount, post, lastSale>>

(* Types: cents are numbers                                                      *)
TypeOK ==
  /\ price \in Prices /\ admin \in BOOLEAN
  /\ cart \in [price : Nat, quantity : Nat, others : Nat, scans : Nat, labels : Nat, weighed : BOOLEAN]
  /\ discount \in [type : {"percentage", "fixed"}, value : Nat]
  /\ post \in [at : {"none", "sent"}, method : {"cash", "card"}, shown : Nat, paid : Nat]
  /\ lastSale \in [at : {"none", "sold"}, method : {"cash", "card"}, shown : Nat, total : Nat,
                   change : Nat]

Round(n, d) == (2 * n + d) \div (2 * d)        \* Math.round(n / d)
Line(cents, quantity) == Round(cents * quantity, Scale)

EmptyCart == [price |-> 0, quantity |-> 0, others |-> 0, scans |-> 0, labels |-> 0, weighed |-> TRUE]
NoDiscount == [type |-> "percentage", value |-> 0]
NoPost == [at |-> "none", method |-> "cash", shown |-> 0, paid |-> 0]
NoSale == [at |-> "none", method |-> "cash", shown |-> 0, total |-> 0, change |-> 0]

Init ==
  /\ price \in Prices /\ admin \in BOOLEAN
  /\ cart = EmptyCart /\ discount = NoDiscount /\ post = NoPost
  /\ lastSale = NoSale

-----------------------------------------------------------------------------
(* The page.  resolveLabelQuantity: the server answers a scan with the quantity *)
(* for which the product's price makes what the label says, and refuses none.   *)
LabelQuantity(cents) == IF price = 0 THEN 0 ELSE Round(cents * Scale, price)

(* An edit forgets the last sale (resetCheckoutIntent).  What is edited while    *)
(* the sale is asked for does not change what was sent: CashRegister has it.    *)
Edits(d) == post.at = "none" /\ lastSale' = NoSale /\ discount' = d /\ UNCHANGED <<price, admin, post>>

(* addProduct: the line of a product keeps the price it was first read with.    *)
(* labels is what the scanned labels say while the line is made of them alone,  *)
(* all read at its price (weighed).                                             *)
ScanLabel ==
  /\ Edits(discount) /\ cart.scans < MaxScans
  /\ \E cents \in Payloads :
       LET quantity == cart.quantity + LabelQuantity(cents)
           at == IF cart.quantity = 0 THEN price ELSE cart.price IN
       /\ LabelQuantity(cents) > 0 /\ quantity <= Stock
       /\ cart' = [cart EXCEPT !.price = at, !.quantity = quantity, !.scans = @ + 1,
                               !.labels = @ + cents, !.weighed = @ /\ at = price]

(* changeQuantity of the line, one unit up or down; nothing at zero or beyond   *)
(* the stock.  A line that is taken out of the cart is forgotten.               *)
ChangeQuantity ==
  /\ Edits(discount) /\ cart.quantity > 0
  /\ \E quantity \in {q \in {cart.quantity + Scale, cart.quantity - Scale} : 0 < q /\ q <= Stock} :
       cart' = [cart EXCEPT !.quantity = quantity, !.weighed = FALSE]
RemoveLine ==
  /\ Edits(discount) /\ cart.quantity > 0
  /\ cart' = [EmptyCart EXCEPT !.others = cart.others, !.scans = cart.scans]

AddMiscellaneous ==
  /\ Edits(discount) /\ cart.others = 0
  /\ \E cents \in Others : cart' = [cart EXCEPT !.others = cents]

(* subtotalCents, discountCents and totalCents of caixa.js                      *)
ShownSubtotal == Line(cart.price, cart.quantity) + cart.others
ShownDiscount ==
  IF discount.type = "percentage" THEN Round(ShownSubtotal * discount.value, 100) ELSE discount.value
ShownTotal == IF ShownDiscount > ShownSubtotal THEN 0 ELSE ShownSubtotal - ShownDiscount

Empty == cart.quantity = 0 /\ cart.others = 0
FixedLimit(subtotal) == IF admin THEN subtotal ELSE subtotal \div 10
PercentageLimit == IF admin THEN 100 ELSE 10
ApplyDiscount ==
  /\ ~Empty /\ cart' = cart
  /\ \E d \in [type : {"percentage"}, value : {v \in Percentages : v <= PercentageLimit}]
             \cup [type : {"fixed"}, value : {v \in Fixed : v <= FixedLimit(ShownSubtotal)}] : Edits(d)

(* checkout: the page takes the exact total by card or PIX (updatePaymentMethod)*)
(* and no less than it in cash.                                                 *)
Checkout ==
  /\ ~Empty /\ post.at = "none"
  /\ \E method \in {"cash", "card"}, more \in Notes :
       /\ method = "card" => more = 0
       /\ post' = [at |-> "sent", method |-> method, shown |-> ShownTotal, paid |-> ShownTotal + more]
  /\ UNCHANGED <<price, admin, cart, discount, lastSale>>

-----------------------------------------------------------------------------
(* The server.  Another operator changes the price in the catalogue.            *)
EditPrice ==
  /\ price' \in Prices \ {price}
  /\ UNCHANGED <<admin, cart, discount, post, lastSale>>

(* loadPricedItems: the price now                                               *)
Subtotal == Line(price, cart.quantity) + cart.others

(* calculateDiscount: what it refuses, and what it takes off                    *)
Allowed ==
  discount.value <=
    (IF discount.type = "percentage" THEN PercentageLimit ELSE FixedLimit(Subtotal))
Discount ==
  IF discount.type = "percentage" THEN Round(Subtotal * discount.value, 100)
  ELSE discount.value
Total == Subtotal - Discount

(* validatePayment                                                              *)
(* Fault: a card may be charged more than the sale, as cash may                 *)
PaymentCovers == post.paid >= Total
PaymentAccepted == post.paid >= Total /\ (post.method # "cash" => post.paid = Total)

(* create, within its transaction: the sale or a refusal that the page shows    *)
Create ==
  /\ post.at = "sent" /\ post' = NoPost
  /\ IF Allowed /\ PaymentAccepted
     THEN /\ lastSale' = [at |-> "sold", method |-> post.method, shown |-> post.shown,
                          total |-> Total, change |-> post.paid - Total]
          /\ cart' = EmptyCart /\ discount' = NoDiscount
     ELSE UNCHANGED <<lastSale, cart, discount>>
  /\ UNCHANGED <<price, admin>>

Next ==
  \/ ScanLabel \/ ChangeQuantity \/ RemoveLine \/ AddMiscellaneous
  \/ ApplyDiscount \/ Checkout \/ EditPrice \/ Create

Spec == Init /\ [][Next]_amountVars

-----------------------------------------------------------------------------
(* A card or PIX sale is registered for exactly what the page showed and the    *)
(* customer's bank was asked for, whatever became of the price meanwhile ...    *)
ChargedAsShown == lastSale.method # "cash" => lastSale.total = lastSale.shown

(* ... and while the price and the limits hold, the two sides compute the same: *)
(* no sale is refused over a cent.                                              *)
SameArithmetic ==
  post.at = "sent" /\ price = cart.price /\ Allowed => Total = post.shown

(* What labels say is what is charged: a quantity has places enough for the     *)
(* line to be the sum of its labels, while their number times the price stays   *)
(* below 10^6 cents (R$ 10 000 per kg for a single label).                      *)
LabelsCharged ==
  cart.quantity > 0 /\ cart.weighed /\ cart.scans * cart.price < Scale =>
    Line(cart.price, cart.quantity) = cart.labels

AmountsAgree == ChargedAsShown /\ SameArithmetic /\ LabelsCharged
=============================================================================
