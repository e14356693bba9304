------------------------------ MODULE MCEventual ------------------------------
(* The two parts that owe somebody an answer, for TLC: the checkout of guests    *)
(* and the audit outbox.  They share no variable, so a behaviour moves one of    *)
(* them (moves) and leaves the other at its start: what is explored is the sum   *)
(* of their states.  Each keeps the fairness of its own module while it moves.   *)
(* Below is also the account of the stock that the orders of guests keep.        *)
EXTENDS GuestOrders, AuditOutbox

VARIABLE moves

Guests == moves = "guests" /\ UNCHANGED <<moves, vars>>
Outbox == moves = "outbox" /\ UNCHANGED <<moves, guestVars>>
eventualVars == <<moves, vars, guestVars>>

MCInit ==
  /\ Init /\ GuestInit
  /\ \/ moves = "guests"
     \/ moves = "outbox" /\ req = CHOOSE asked \in [Requests -> [key : Keys, hash : Contents]] : TRUE
MCNext == (Guests /\ GuestNext) \/ (Outbox /\ Next)
MCFairness ==
  /\ \A r \in Requests :
       WF_eventualVars(Guests /\ RequestStep(r)) /\ SF_eventualVars(Guests /\ Lock(r))
  /\ \A e \in Events :
       /\ WF_eventualVars(Outbox /\ LeaseExpires(e)) /\ WF_eventualVars(Outbox /\ BackoffOver(e))
       /\ WF_eventualVars(Outbox /\ \E w \in Workers, S \in SUBSET Events : e \in S /\ Claim(w, S))
  /\ \A w \in Workers :
       /\ WF_eventualVars(Outbox /\ Start(w)) /\ WF_eventualVars(Outbox /\ Exit(w))
       /\ WF_eventualVars(Outbox /\ \E d \in running[w] : Step(w, d))
MCSpec == MCInit /\ [][MCNext]_eventualVars /\ MCFairness

(* The units that orders keep out of the stock, each by itself              *)
UnitsOf(k) == IF order[k].status \in Holding THEN order[k].hash.body ELSE 0
UnitsHeld == UNION {{k} \X (1..UnitsOf(k)) : k \in Keys}

(* Stock is taken once per order, not per request: what is not in stock is  *)
(* held by an order that was not canceled, whatever was retried, collided   *)
(* on its key or got lost (createGuestOrder, one transaction).              *)
StockExact == quantity + Cardinality(UnitsHeld) = Stock
=============================================================================
