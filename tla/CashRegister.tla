---------------------------- MODULE CashRegister ----------------------------
(* A till: the page of the cash register (caixa.js), the sales it asks          *)
(* SalesService for and the receipts that it prints through the local agent.    *)
(* A cart is a number, and every edit of the products or the discount makes     *)
(* another one; what is sold, to whom it is charged and the stock that it takes *)
(* (OrderStock) are left out.  A sale has the name of its idempotency key.  The *)
(* agent is what PrintQueue promises of it.  The receipt goes to the agent: the *)
(* choice of the browser's own printer is left out.                             *)
EXTENDS Naturals, SequencesExt

CONSTANTS Posts,        \* POST /api/sales under way at once
          Kinds,        \* what is printed: receipt, fiscal preview
          MaxCarts, MaxKeys, MaxPrints,   \* bounds: carts, keys of sales and of prints
          None

SaleKeys == 1..MaxKeys
Papers == SaleKeys \X Kinds

VARIABLES cart,         \* state.cart: 0 when empty
          checkoutKey,  \* state.checkoutKey: 0 when null
          lastSale,     \* state.lastSale: 0 when null
          busy,         \* the post it waits for, "print" or None
          post,         \* [Posts -> POST /api/sales at the server]
          sale,         \* [SaleKeys -> cart that was sold, 0 if none], sales of cash_register
          printing,     \* the print under way
          printKey,     \* [Kinds -> state.printRequestKey, 0 when null]
          late,         \* requests to issue that nobody waits for any more
          issued,       \* [Papers -> keys of its print events, in their printNumber's order]
          job,          \* [Papers \X printNumber -> the agent's job]
          used,         \* how many carts, keys and print keys there were
          history       \* shown: the cart the answer to which is shown; changed: carts sent
                        \* and then given another payment method; open, owed: see CopiesAsked

tillVars == <<cart, checkoutKey, lastSale, busy, post, sale, printing, printKey, late,
              issued, job, used, history>>
saleVars == <<cart, checkoutKey, lastSale, post, sale>>
printVars == <<printing, printKey, late, issued, job>>

NoPost == [at |-> "none", key |-> 0, cart |-> 0]
NoPrint == [at |-> "none", sale |-> 0, kind |-> None, number |-> 0]

Init ==
  /\ cart = 0 /\ checkoutKey = 0 /\ lastSale = 0 /\ busy = None
  /\ post = [r \in Posts |-> NoPost] /\ sale = [k \in SaleKeys |-> 0]
  /\ printing = NoPrint /\ printKey = [d \in Kinds |-> 0] /\ late = {}
  /\ issued = [p \in Papers |-> <<>>]
  /\ job = [x \in Papers \X (1..MaxPrints) |-> "none"]
  /\ used = [carts |-> 0, keys |-> 0, prints |-> 0]
  /\ history = [shown |-> 0, changed |-> {}, open |-> {}, owed |-> [p \in Papers |-> 0]]

-----------------------------------------------------------------------------
(* The operator.  The list of products, the suggestions and the dialogs answer  *)
(* while the till is busy, too.                                                 *)
Edit ==
  /\ used.carts < MaxCarts /\ used' = [used EXCEPT !.carts = @ + 1]
  /\ cart' \in {0, used.carts + 1} /\ cart' # cart
  /\ checkoutKey' = 0 /\ lastSale' = 0              \* resetCheckoutIntent
  /\ UNCHANGED <<busy, post, sale, printVars, history>>

(* updatePaymentMethod: another key for the same cart                           *)
ChangeMethod ==
  /\ cart # 0 /\ checkoutKey # 0 /\ checkoutKey' = 0
  /\ history' = [history EXCEPT !.changed = @ \cup {cart}]
  /\ UNCHANGED <<cart, lastSale, busy, post, sale, printVars, used>>

Checkout(r) ==
  /\ busy = None /\ cart # 0 /\ post[r].at = "none"
  /\ checkoutKey = 0 => used.keys < MaxKeys
  /\ checkoutKey' = IF checkoutKey = 0 THEN used.keys + 1 ELSE checkoutKey
  /\ used' = IF checkoutKey = 0 THEN [used EXCEPT !.keys = @ + 1] ELSE used
  /\ post' = [post EXCEPT ![r] = [at |-> "lookup", key |-> checkoutKey', cart |-> cart]]
  /\ busy' = r
  /\ UNCHANGED <<cart, lastSale, sale, printVars, history>>

(* A new page knows nothing; what was asked for goes on.                        *)
Reload ==
  /\ cart' = 0 /\ checkoutKey' = 0 /\ lastSale' = 0 /\ busy' = None
  /\ printing' = NoPrint /\ printKey' = [d \in Kinds |-> 0]
  /\ late' = IF printing.at = "issue"
             THEN late \cup {<<printing.sale, printing.kind, printKey[printing.kind]>>} ELSE late
  /\ history' = [history EXCEPT !.shown = 0]
  /\ UNCHANGED <<post, sale, issued, job, used>>

-----------------------------------------------------------------------------
(* SalesService.create: the key is looked up, then the sale is created in one   *)
(* transaction, where a key that is taken by now is answered with its sale; a   *)
(* refusal, of the stock for one, leaves nothing.                               *)
Lookup(r) ==
  /\ post[r].at = "lookup"
  /\ post' = [post EXCEPT ![r].at = IF sale[post[r].key] # 0 THEN "sold" ELSE "create"]
  /\ UNCHANGED <<cart, checkoutKey, lastSale, busy, sale, printVars, used, history>>

Create(r) ==
  /\ post[r].at = "create"
  /\ \/ /\ sale' = [sale EXCEPT ![post[r].key] = IF @ = 0 THEN post[r].cart ELSE @]
        /\ post' = [post EXCEPT ![r].at = "sold"]
     \/ post' = [post EXCEPT ![r].at = "refused"] /\ sale' = sale
  /\ UNCHANGED <<cart, checkoutKey, lastSale, busy, printVars, used, history>>

(* printReceipt and printFiscalPreview begin: a key that was not completed is   *)
(* used again.                                                                  *)
Begins(s, d) ==
  /\ printing' = [at |-> "issue", sale |-> s, kind |-> d, number |-> 0]
  /\ printKey[d] = 0 => used.prints < MaxPrints
  /\ printKey' = IF printKey[d] = 0 THEN [printKey EXCEPT ![d] = used.prints + 1] ELSE printKey
  /\ used' = IF printKey[d] = 0 THEN [used EXCEPT !.prints = @ + 1] ELSE used
Wanted(h, s, d) ==
  IF <<s, d>> \in h.open THEN h
  ELSE [h EXCEPT !.open = @ \cup {<<s, d>>}, !.owed[<<s, d>>] = @ + 1]

(* The answer arrives.  A sale empties the cart, whatever it holds by now, and  *)
(* is printed unless something is being printed.                                *)
Sold(r) ==
  /\ post[r].at = "sold" /\ post' = [post EXCEPT ![r] = NoPost]
  /\ IF busy = r
     THEN /\ lastSale' = post[r].key /\ cart' = 0 /\ checkoutKey' = 0
          /\ LET h == [history EXCEPT !.shown = post[r].cart] IN
             IF printing.at = "none" /\ "receipt" \in Kinds
             THEN Begins(post[r].key, "receipt") /\ busy' = "print"
                  /\ history' = Wanted(h, post[r].key, "receipt")
             ELSE busy' = None /\ history' = h /\ UNCHANGED <<printing, printKey, used>>
     ELSE UNCHANGED <<lastSale, cart, checkoutKey, busy, printing, printKey, used, history>>
  /\ UNCHANGED <<sale, late, issued, job>>

Refused(r) ==
  /\ post[r].at = "refused" /\ post' = [post EXCEPT ![r] = NoPost]
  /\ busy' = IF busy = r THEN None ELSE busy
  /\ UNCHANGED <<cart, checkoutKey, lastSale, sale, printVars, used, history>>

(* Fault: the next attempt of a checkout that failed has a key of its own *)
LostAndForgotten(r) ==
  /\ busy = r /\ busy' = None /\ checkoutKey' = 0
  /\ UNCHANGED <<cart, lastSale, post, sale, printVars, used, history>>
(* The connection fails while the post goes on at the server, or never got to   *)
(* it (it stays there).                                                         *)
Lost(r) ==
  /\ busy = r /\ busy' = None
  /\ UNCHANGED <<saleVars, printVars, used, history>>

-----------------------------------------------------------------------------
PrintReceipt(d) ==
  /\ lastSale # 0 /\ printing.at = "none" /\ Begins(lastSale, d)
  /\ history' = Wanted(history, lastSale, d)
  /\ UNCHANGED <<saleVars, busy, late, issued, job>>

(* issueAndRender: one transaction, under the lock of the sale's document.      *)
(* Fault: each request takes a number of its own *)
NumberEach(p, key) == issued' = [issued EXCEPT ![p] = Append(@, key)]
Numbered(p, key) ==
  issued' = IF Contains(issued[p], key) THEN issued
            ELSE [issued EXCEPT ![p] = Append(@, key)]

Ends(done) ==
  LET p == <<printing.sale, printing.kind>> IN
  /\ printing' = NoPrint
  /\ printKey' = IF done THEN [printKey EXCEPT ![printing.kind] = 0] ELSE printKey
  /\ busy' = IF busy = "print" THEN None ELSE busy

Issue ==
  LET p == <<printing.sale, printing.kind>>  key == printKey[printing.kind] IN
  /\ printing.at = "issue"
  /\ Len(issued[p]) < MaxPrints
  /\ \/ /\ Numbered(p, key) /\ late' = late
        /\ printing' = [printing EXCEPT !.at = "send",
                          !.number = SelectLastInSeq(issued'[p], LAMBDA k : k = key)]
        /\ UNCHANGED <<printKey, busy>>
     \/ Ends(FALSE) /\ late' \in {late, late \cup {<<printing.sale, printing.kind, key>>}}
        /\ issued' = issued
  /\ UNCHANGED <<saleVars, job, used, history>>

IssueLate(x) ==
  /\ x \in late /\ late' = late \ {x}
  /\ Len(issued[<<x[1], x[2]>>]) < MaxPrints /\ Numbered(<<x[1], x[2]>>, x[3])
  /\ UNCHANGED <<saleVars, busy, printing, printKey, job, used, history>>

Current == <<<<printing.sale, printing.kind>>, printing.number>>
SetJob(status) == job' = [job EXCEPT ![Current] = status]

(* POST /v1/print with documentId:printNumber: a job that is there is answered, *)
(* one that failed goes on.                                                     *)
Enqueue ==
  /\ printing.at = "send"
  /\ \/ SetJob(IF job[Current] \in {"none", "error"} THEN "pending" ELSE job[Current])
        /\ \/ printing' = [printing EXCEPT !.at = "wait"] /\ UNCHANGED <<printKey, busy>>
           \/ Ends(FALSE)
     \/ Ends(FALSE) /\ job' = job
  /\ UNCHANGED <<saleVars, late, issued, used, history>>

(* waitForPrintJob: the outcome, or none after its 24 polls.                    *)
Wait ==
  /\ printing.at \in {"wait", "wait again"}
  /\ \/ /\ job[Current] = "printed" /\ Ends(TRUE)
        /\ history' = [history EXCEPT !.open = @ \ {Current[1]}]
     \/ /\ job[Current] = "unknown" /\ printing.at = "wait"
        /\ printing' = [printing EXCEPT !.at = "ask"]
        /\ UNCHANGED <<printKey, busy, history>>
     \/ Ends(FALSE) /\ UNCHANGED history
  /\ UNCHANGED <<saleVars, late, issued, job, used>>

(* The operator says that no paper came out, or leaves it.                      *)
Answer ==
  /\ printing.at = "ask"
  /\ \/ Ends(FALSE) /\ UNCHANGED <<job, history>>
     \/ /\ history.owed[Current[1]] < MaxPrints
        /\ SetJob("pending") /\ history' = [history EXCEPT !.owed[Current[1]] = @ + 1]
        /\ \/ printing' = [printing EXCEPT !.at = "wait again"] /\ UNCHANGED <<printKey, busy>>
           \/ Ends(FALSE)
  /\ UNCHANGED <<saleVars, late, issued, used>>

(* The agent tries a job: the paper comes out, does not, or perhaps has.        *)
Agent(p, n) ==
  /\ job[<<p, n>>] = "pending"
  /\ \E status \in {"printed", "error", "unknown"}, out \in {0, 1} :
       /\ status = "printed" => out = 1
       /\ status = "error" => out = 0
       /\ job' = [job EXCEPT ![<<p, n>>] = status]
       /\ history' = [history EXCEPT !.owed[p] = @ - out]
  /\ UNCHANGED <<saleVars, busy, printing, printKey, late, issued, used>>

Next ==
  \/ Edit \/ ChangeMethod \/ Reload
  \/ \E r \in Posts : \/ Checkout(r) \/ Lookup(r) \/ Create(r)
                      \/ Sold(r) \/ Refused(r) \/ Lost(r)
  \/ \E d \in Kinds : PrintReceipt(d)
  \/ Issue \/ Enqueue \/ Wait \/ Answer
  \/ \E x \in late : IssueLate(x)
  \/ \E p \in Papers, n \in 1..MaxPrints : Agent(p, n)
Spec == Init /\ [][Next]_tillVars

-----------------------------------------------------------------------------
(* A cart is sold once, however often its checkout was repeated and whichever   *)
(* answers were lost, unless the operator chose another payment method after    *)
(* it had been sent; and the sale that the till shows as concluded is of the    *)
(* cart that it sent.                                                           *)
SoldOnce ==
  /\ \A k, l \in SaleKeys : sale[k] = sale[l] /\ k # l => sale[k] \in {0} \cup history.changed
  /\ lastSale # 0 => sale[lastSale] = history.shown

(* No paper comes out that nobody asked for: of each sale there are as many     *)
(* copies as the operator asked for, a request that is repeated until it is     *)
(* completed counting once, and one more for each time that the operator said   *)
(* that none had come out.                                                      *)
CopiesAsked == \A p \in Papers : history.owed[p] >= 0
=============================================================================
