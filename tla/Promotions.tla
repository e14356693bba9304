------------------------------ MODULE Promotions ------------------------------
(* PromotionsService: a campaign sells a limited number of promotional slots.    *)
(* The campaign row counts the slots that are reserved and converted; each       *)
(* tenant has one promotion_reservations row, reserved for a while, converted    *)
(* when its checkout is paid, and recycled when it was released or ran out.      *)
(* A step is one transaction, or one read that a later transaction relies on.    *)
EXTENDS Naturals, FiniteSets

CONSTANTS Tenants, Keys,   \* tenants, and the checkouts a slot may be bound to
          MaxSlots,        \* bound of the capacity an administrator may set
          Nothing

ASSUME PromotionAssumption ==
  IsFiniteSet(Tenants) /\ Nothing \notin Keys /\ MaxSlots \in Nat \ {0}

VARIABLES campaign,    \* the promotion_campaigns row
          slot,        \* [Tenants -> the promotion_reservations row]
          reserving,   \* requests of reserveForTenant, with what they have read
          activating   \* a request of activate has read the campaign

promotionVars == <<campaign, slot, reserving, activating>>

NoSlot == [status |-> "none", expired |-> FALSE, checkout |-> Nothing,
           claim |-> Nothing, claimed |-> FALSE]
PromotionTypeOK ==
  /\ campaign \in [status : {"ACTIVE", "CLOSED", "EXHAUSTED"}, max : 1..MaxSlots,
                   reserved : 0..MaxSlots, converted : 0..MaxSlots, ended : BOOLEAN]
  /\ slot \in [Tenants -> [status : {"none", "RESERVED", "CONVERTED", "RELEASED", "EXPIRED"},
                           expired : BOOLEAN, checkout : Keys \cup {Nothing},
                           claim : Keys \cup {Nothing}, claimed : BOOLEAN]]
  /\ reserving \subseteq Tenants \X {"created", "recycled"} /\ activating \in BOOLEAN

PromotionInit ==
  /\ \E status \in {"ACTIVE", "CLOSED"}, max \in 1..MaxSlots :
       campaign = [status |-> status, max |-> max, reserved |-> 0, converted |-> 0, ended |-> FALSE]
  /\ slot = [t \in Tenants |-> NoSlot] /\ reserving = {} /\ activating = FALSE

----------------------------------------------------------------------------

Lapsed(t) == slot[t].status = "RESERVED" /\ slot[t].expired
Valid(t) == slot[t].status = "CONVERTED" \/ (slot[t].status = "RESERVED" /\ ~slot[t].expired)
Recyclable(t) == slot[t].status \in {"RELEASED", "EXPIRED"} \/ Lapsed(t)

(* expireReservations, run by every reservation, campaign page and dashboard.    *)
ExpireReservations ==
  LET lapsed == {t \in Tenants : Lapsed(t)} IN
  /\ lapsed # {}
  /\ slot' = [t \in Tenants |-> IF t \in lapsed THEN [slot[t] EXCEPT !.status = "EXPIRED"] ELSE slot[t]]
  /\ campaign' = IF campaign.reserved >= Cardinality(lapsed)
                 THEN [campaign EXCEPT !.reserved = @ - Cardinality(lapsed)] ELSE campaign
  /\ UNCHANGED <<reserving, activating>>

(* reserveForTenant: the row of the tenant is read, and answered if it is valid. *)
ReadSlot(t) ==
  /\ ~Valid(t)
  /\ reserving' = reserving \cup {<<t, IF slot[t].status = "none" THEN "created" ELSE "recycled">>}
  /\ UNCHANGED <<campaign, slot, activating>>

(* The slot is claimed by one conditional update of the campaign.                *)
HasRoom == campaign.status = "ACTIVE" /\ ~campaign.ended
           /\ campaign.converted + campaign.reserved < campaign.max
(* Fault: the campaign is tested and its count left as it is                     *)
ClaimedSlotUncounted == campaign
ClaimedSlot == [campaign EXCEPT !.reserved = @ + 1]
Reserve(t, how) ==
  /\ <<t, how>> \in reserving
  /\ reserving' \in {reserving, reserving \ {<<t, how>>}}   \* others may have read the same
  /\ IF /\ HasRoom
        /\ how = "recycled" => Recyclable(t)
        /\ how = "created" => slot[t].status = "none"       \* unique per campaign and tenant
     THEN /\ campaign' = ClaimedSlot
          /\ slot' = [slot EXCEPT ![t].status = "RESERVED", ![t].expired = FALSE]
     ELSE UNCHANGED <<campaign, slot>>
  /\ activating' = activating

ReservationLapses(t) ==
  /\ slot[t].status = "RESERVED" /\ ~slot[t].expired
  /\ slot' = [slot EXCEPT ![t].expired = TRUE]
  /\ UNCHANGED <<campaign, reserving, activating>>

(* The last conversion exhausts the campaign, whatever its status was.           *)
Converted ==
  [campaign EXCEPT !.reserved = IF @ > 0 THEN @ - 1 ELSE 0, !.converted = @ + 1,
                   !.status = IF campaign.converted + 1 >= campaign.max THEN "EXHAUSTED" ELSE @]
ConvertReservation(t) ==
  /\ slot[t].status = "RESERVED" /\ ~slot[t].expired
  /\ slot' = [slot EXCEPT ![t].status = "CONVERTED"] /\ campaign' = Converted
  /\ UNCHANGED <<reserving, activating>>
ReleaseReservation(t) ==
  /\ slot[t].status = "RESERVED" /\ slot' = [slot EXCEPT ![t].status = "RELEASED"]
  /\ campaign' = [campaign EXCEPT !.reserved = IF @ > 0 THEN @ - 1 ELSE 0]
  /\ UNCHANGED <<reserving, activating>>

----------------------------------------------------------------------------
(* The campaign                                                                  *)

WindowEnds == /\ ~campaign.ended /\ campaign' = [campaign EXCEPT !.ended = TRUE]
              /\ UNCHANGED <<slot, reserving, activating>>
(* getPublicState closes what is sold out or over.                               *)
Refresh ==
  /\ campaign.status = "ACTIVE" /\ (campaign.converted >= campaign.max \/ campaign.ended)
  /\ campaign' = [campaign EXCEPT !.status = IF campaign.converted >= campaign.max
                                             THEN "EXHAUSTED" ELSE "CLOSED"]
  /\ UNCHANGED <<slot, reserving, activating>>

(* activate reads the campaign, then sets it active whatever it is by then.      *)
ReadCampaign == /\ campaign.status # "EXHAUSTED" /\ activating' = TRUE
                /\ UNCHANGED <<campaign, slot, reserving>>
Activate == /\ activating /\ activating' = FALSE
            /\ campaign' = [campaign EXCEPT !.status = "ACTIVE"]
            /\ UNCHANGED <<slot, reserving>>
Close == /\ campaign.status # "CLOSED" /\ campaign' = [campaign EXCEPT !.status = "CLOSED"]
         /\ UNCHANGED <<slot, reserving, activating>>

(* updateCapacity locks the row: no reservation lands between test and write.    *)
FitsOccupied(n) == n >= campaign.converted + campaign.reserved
UpdateCapacity(n) ==
  /\ FitsOccupied(n)
  /\ campaign' = [campaign EXCEPT !.max = n, !.status =
       CASE @ = "EXHAUSTED" /\ n > campaign.converted + campaign.reserved -> "ACTIVE"
         [] @ = "ACTIVE" /\ n <= campaign.converted -> "EXHAUSTED"
         [] OTHER -> @]
  /\ UNCHANGED <<slot, reserving, activating>>

PromotionNext ==
  \/ ExpireReservations \/ WindowEnds \/ Refresh \/ ReadCampaign \/ Activate \/ Close
  \/ \E t \in Tenants : \/ ReadSlot(t) \/ ReservationLapses(t)
                        \/ ConvertReservation(t) \/ ReleaseReservation(t)
                        \/ \E how \in {"created", "recycled"} : Reserve(t, how)
  \/ \E n \in 1..MaxSlots : UpdateCapacity(n)

----------------------------------------------------------------------------

Slots(status) == {t \in Tenants : slot[t].status = status}
(* The campaign is never oversold: its counters stand for at least the slots     *)
(* that are out, however reservations, conversions, releases, expiries and       *)
(* changes of the capacity interleave, and never exceed the capacity             *)
(* (promotion_campaigns; reserveForTenant, expireReservations).                  *)
NeverOversold ==
  /\ Cardinality(Slots("CONVERTED")) = campaign.converted
  /\ Cardinality(Slots("RESERVED")) <= campaign.reserved
  /\ campaign.converted + campaign.reserved <= campaign.max
=============================================================================
