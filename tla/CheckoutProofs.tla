--------------------------- MODULE CheckoutProofs ---------------------------
(* Proofs about checkouts and what follows them at the gateway: the campaign  *)
(* and its slots, the intents to buy, the operations on a subscription, the   *)
(* inbox of webhooks and the refunds, for every number of tenants, keys,      *)
(* requests and slots.                                                        *)
EXTENDS MCServices, FiniteSetTheorems, TLAPS

-----------------------------------------------------------------------------
(* Promotions and Checkout: the campaign is never oversold, and no customer   *)
(* gets two checkouts out of one intention to buy. The heart of the second is *)
(* that a request between its claim and its commit owns its intent: a         *)
(* takeover finds the state it has read, which is a failure.                  *)

(* A request between its claim and its commit owns the intent. *)
OwnsIntent ==
  \A r \in Requests :
    /\ step[r] = "process" => Owns(r, "CLAIMED")
    /\ step[r] \in {"reserve", "gateway", "commit"} => Owns(r, "PROCESSING")

(* A takeover has read a failure, or an unknown outcome. *)
SeenFailed ==
  \A r \in Requests : step[r] = "reclaim" => seen[r].state \in {"FAILED_RETRYABLE", "UNKNOWN"}

Active(k) == intent[k].state \in {"CLAIMED", "PROCESSING"}

(* The unique index: one active intent per subscription. *)
OneActive == \A k, l \in Keys : Active(k) /\ Active(l) /\ TenantOf[k] = TenantOf[l] => k = l

(* The inductive invariant *)
IInv == TypeOK /\ OwnsIntent /\ SeenFailed /\ OneActive /\ OnePerReservation /\ NeverOversold

SlotRows == [status : {"none", "RESERVED", "CONVERTED", "RELEASED", "EXPIRED"},
             expired : BOOLEAN, checkout : Keys \cup {Nothing},
             claim : Keys \cup {Nothing}, claimed : BOOLEAN]
Campaigns == [status : {"ACTIVE", "CLOSED", "EXHAUSTED"}, max : 1..MaxSlots,
              reserved : 0..MaxSlots, converted : 0..MaxSlots, ended : BOOLEAN]

-----------------------------------------------------------------------------
(* Counting the slots                                                        *)

(* The tenants with a slot of one status are finitely many. *)
LEMMA SlotsFinite ==
  ASSUME NEW status
  PROVE  IsFiniteSet(Slots(status)) /\ Cardinality(Slots(status)) \in Nat
<1>1. Slots(status) \subseteq Tenants  BY DEF Slots
<1>2. IsFiniteSet(Slots(status))  BY <1>1, PromotionAssumption, FS_Subset
<1> QED  BY <1>2, FS_CardinalityType

(* A tenant that joins is one more, one that leaves one fewer. *)
LEMMA OneJoins ==
  ASSUME NEW status, NEW t, t \notin Slots(status), Slots(status)' = Slots(status) \cup {t}
  PROVE  Cardinality(Slots(status)') = Cardinality(Slots(status)) + 1
BY SlotsFinite, FS_AddElement

(* ... or one leaves it.                                                        *)
LEMMA OneLeaves ==
  ASSUME NEW status, NEW t, t \in Slots(status), Slots(status)' = Slots(status) \ {t}
  PROVE  Cardinality(Slots(status)') = Cardinality(Slots(status)) - 1
BY SlotsFinite, FS_RemoveElement

(* Counters in the range of the capacity keep the campaign's type. *)
LEMMA InRange ==
  ASSUME PromotionTypeOK, NEW n \in Nat, NEW m \in Nat, NEW x \in 1..MaxSlots, n + m <= x
  PROVE  n \in 0..MaxSlots /\ m \in 0..MaxSlots
<1>1. MaxSlots \in Nat  BY PromotionAssumption
<1> QED  BY <1>1

(* The initial states satisfy the inductive invariant. *)
LEMMA Initially == Init => IInv
<1> SUFFICES ASSUME Init PROVE IInv  OBVIOUS
<1> USE DEF Init, PromotionInit
<1>1. NoSlot \in SlotRows /\ NoSlot.status = "none"  BY DEF NoSlot, SlotRows
<1>2. campaign \in Campaigns /\ campaign.reserved = 0 /\ campaign.converted = 0
      /\ campaign.max \in 1..MaxSlots
  <2>1. MaxSlots \in Nat  BY PromotionAssumption
  <2>2. PICK status \in {"ACTIVE", "CLOSED"}, max \in 1..MaxSlots :
          campaign = [status |-> status, max |-> max, reserved |-> 0, converted |-> 0, ended |-> FALSE]
    OBVIOUS
  <2>3. 0 \in 0..MaxSlots /\ FALSE \in BOOLEAN  BY <2>1
  <2> QED  BY <2>2, <2>3 DEF Campaigns
<1>3. PromotionTypeOK  BY <1>1, <1>2 DEF PromotionTypeOK, Campaigns, SlotRows
<1>4. TypeOK
  <2>1. NoIntent \in Intents  BY DEF NoIntent, Intents, States
  <2> QED  BY <1>3, <2>1 DEF TypeOK
<1>5. OwnsIntent /\ SeenFailed  BY DEF OwnsIntent, SeenFailed
<1>6. OneActive /\ OnePerReservation
  BY CheckoutAssumption DEF OneActive, Active, NoIntent, OnePerReservation
<1>7. Slots("RESERVED") = {} /\ Slots("CONVERTED") = {}  BY <1>1 DEF Slots
<1>8. NeverOversold
  <2>1. Cardinality(Slots("RESERVED")) = 0 /\ Cardinality(Slots("CONVERTED")) = 0
    BY <1>7, FS_EmptySet
  <2> QED  BY <1>2, <2>1 DEF NeverOversold
<1> QED  BY <1>4, <1>5, <1>6, <1>8 DEF IInv

-----------------------------------------------------------------------------
(* The campaign                                                              *)

(* What a campaign step leaves: the checkout of every slot. *)
CampaignKept == PromotionTypeOK' /\ NeverOversold' /\ \A t \in Tenants : slot'[t].checkout = slot[t].checkout

(* One slot is converted, and counted so. *)
LEMMA ConversionKeeps ==
  ASSUME PromotionTypeOK, NeverOversold, NEW t \in Tenants, slot[t].status = "RESERVED",
         slot' = [slot EXCEPT ![t].status = "CONVERTED"], campaign' = Converted,
         UNCHANGED <<reserving, activating>>
  PROVE  CampaignKept
<1> USE DEF PromotionTypeOK
<1>1. Slots("CONVERTED")' = Slots("CONVERTED") \cup {t} /\ t \notin Slots("CONVERTED")  BY DEF Slots
<1>2. Slots("RESERVED")' = Slots("RESERVED") \ {t} /\ t \in Slots("RESERVED")  BY DEF Slots
<1>3. Cardinality(Slots("CONVERTED")') = Cardinality(Slots("CONVERTED")) + 1  BY <1>1, OneJoins
<1>4. Cardinality(Slots("RESERVED")') = Cardinality(Slots("RESERVED")) - 1  BY <1>2, OneLeaves
<1>5. Cardinality(Slots("RESERVED")') \in Nat
  <2>1. IsFiniteSet(Slots("RESERVED") \ {t})  BY SlotsFinite, FS_RemoveElement
  <2> QED  BY <1>2, <2>1, FS_CardinalityType
<1>6. campaign.reserved > 0
  BY <1>4, <1>5, SlotsFinite, PromotionAssumption DEF NeverOversold
<1>7. campaign'.reserved = campaign.reserved - 1 /\ campaign'.converted = campaign.converted + 1
      /\ campaign'.max = campaign.max
  BY <1>6 DEF Converted
<1>8. NeverOversold'
  BY <1>3, <1>4, <1>7, SlotsFinite, PromotionAssumption DEF NeverOversold
<1>9. campaign' \in Campaigns
  <2>1. campaign'.reserved \in 0..MaxSlots /\ campaign'.converted \in 0..MaxSlots
    BY <1>6, <1>7, PromotionAssumption DEF NeverOversold
  <2>2. PICK s \in {"ACTIVE", "CLOSED", "EXHAUSTED"} :
          campaign' = [campaign EXCEPT !.reserved = campaign'.reserved,
                                       !.converted = campaign'.converted, !.status = s]
    BY <1>7 DEF Converted
  <2> QED  BY <2>1, <2>2 DEF Campaigns
<1>10. slot' \in [Tenants -> SlotRows] /\ \A u \in Tenants : slot'[u].checkout = slot[u].checkout
  BY DEF SlotRows
<1> QED  BY <1>8, <1>9, <1>10 DEF CampaignKept, Campaigns, SlotRows

(* One reservation is given up, and no longer counted. *)
LEMMA ReleaseKeeps ==
  ASSUME PromotionTypeOK, NeverOversold, NEW t \in Tenants, ReleaseReservation(t)
  PROVE  CampaignKept
<1> USE DEF PromotionTypeOK, ReleaseReservation
<1>1. Slots("CONVERTED")' = Slots("CONVERTED")  BY DEF Slots
<1>2. Slots("RESERVED")' = Slots("RESERVED") \ {t} /\ t \in Slots("RESERVED")  BY DEF Slots
<1>3. Cardinality(Slots("RESERVED")') = Cardinality(Slots("RESERVED")) - 1  BY <1>2, OneLeaves
<1>4. Cardinality(Slots("RESERVED")') \in Nat
  <2>1. IsFiniteSet(Slots("RESERVED") \ {t})  BY SlotsFinite, FS_RemoveElement
  <2> QED  BY <1>2, <2>1, FS_CardinalityType
<1>5. campaign.reserved > 0
  BY <1>3, <1>4, SlotsFinite, PromotionAssumption DEF NeverOversold
<1>6. campaign' = [campaign EXCEPT !.reserved = campaign.reserved - 1]  BY <1>5
<1>7. NeverOversold'
  BY <1>1, <1>3, <1>5, <1>6, SlotsFinite, PromotionAssumption DEF NeverOversold
<1>8. campaign' \in Campaigns
  <2>1. campaign.reserved - 1 \in 0..MaxSlots  BY <1>5, PromotionAssumption
  <2> QED  BY <1>6, <2>1 DEF Campaigns
<1>9. slot' \in [Tenants -> SlotRows] /\ \A u \in Tenants : slot'[u].checkout = slot[u].checkout
  BY DEF SlotRows
<1> QED  BY <1>7, <1>8, <1>9 DEF CampaignKept, Campaigns, SlotRows

(* A slot is reserved, and counted first. *)
LEMMA ReserveKeeps ==
  ASSUME PromotionTypeOK, NeverOversold, NEW t \in Tenants, NEW how \in {"created", "recycled"},
         Reserve(t, how)
  PROVE  CampaignKept
<1> USE DEF PromotionTypeOK
<1>0. reserving' \subseteq Tenants \X {"created", "recycled"} /\ activating' = activating
  BY DEF Reserve
<1>1. CASE UNCHANGED <<campaign, slot>>
  BY <1>0, <1>1 DEF CampaignKept, NeverOversold, Slots
<1>2. CASE ~UNCHANGED <<campaign, slot>>
  <2>1. /\ HasRoom /\ slot[t].status # "CONVERTED" /\ campaign' = ClaimedSlot
        /\ slot' = [slot EXCEPT ![t].status = "RESERVED", ![t].expired = FALSE]
    BY <1>2 DEF Reserve, Recyclable, Lapsed
  <2>2. campaign' = [campaign EXCEPT !.reserved = campaign.reserved + 1]  BY <2>1 DEF ClaimedSlot
  <2>3. Slots("CONVERTED")' = Slots("CONVERTED")  BY <2>1 DEF Slots
  <2>4. Slots("RESERVED")' = Slots("RESERVED") \cup {t}  BY <2>1 DEF Slots
  <2>5. Cardinality(Slots("RESERVED")') <= Cardinality(Slots("RESERVED")) + 1
    <3>1. CASE t \in Slots("RESERVED")
      <4>1. Slots("RESERVED")' = Slots("RESERVED")  BY <2>4, <3>1
      <4> QED  BY <4>1, SlotsFinite
    <3>2. CASE t \notin Slots("RESERVED")
      <4>1. Cardinality(Slots("RESERVED")') = Cardinality(Slots("RESERVED")) + 1
        BY <2>4, <3>2, OneJoins
      <4> QED  BY <4>1, SlotsFinite
    <3> QED  BY <3>1, <3>2
  <2>6. Cardinality(Slots("RESERVED")') \in Nat
    <3>1. IsFiniteSet(Slots("RESERVED") \cup {t})  BY SlotsFinite, FS_AddElement
    <3> QED  BY <2>4, <3>1, FS_CardinalityType
  <2>7. campaign.converted + campaign.reserved + 1 <= campaign.max
    BY <2>1, PromotionAssumption DEF HasRoom
  <2>8. NeverOversold'
    BY <2>2, <2>3, <2>5, <2>6, <2>7, SlotsFinite, PromotionAssumption DEF NeverOversold
  <2>9. campaign' \in Campaigns
    <3>1. campaign.reserved + 1 \in 0..MaxSlots  BY <2>7, PromotionAssumption
    <3> QED  BY <2>2, <3>1 DEF Campaigns
  <2>10. slot' \in [Tenants -> SlotRows] /\ \A u \in Tenants : slot'[u].checkout = slot[u].checkout
    <3>1. FALSE \in BOOLEAN  BY Zenon
    <3>2. \A b \in BOOLEAN : [slot[t] EXCEPT !.status = "RESERVED", !.expired = b] \in SlotRows
      BY DEF SlotRows
    <3>3. slot' = [slot EXCEPT ![t] = [slot[t] EXCEPT !.status = "RESERVED", !.expired = FALSE]]
      BY <2>1
    <3>4. \A u \in Tenants : slot[u] \in SlotRows  BY DEF SlotRows
    <3> QED  BY <3>1, <3>2, <3>3, <3>4
  <2> QED  BY <1>0, <2>8, <2>9, <2>10 DEF CampaignKept, Campaigns, SlotRows
<1> QED  BY <1>1, <1>2

(* Reservations that ran out are all closed, and as many given back. *)
LEMMA ExpiryKeeps ==
  ASSUME PromotionTypeOK, NeverOversold, ExpireReservations
  PROVE  CampaignKept
<1> USE DEF PromotionTypeOK
<1> DEFINE L == {t \in Tenants : Lapsed(t)}
<1>1. slot' = [t \in Tenants |-> IF t \in L THEN [slot[t] EXCEPT !.status = "EXPIRED"] ELSE slot[t]]
  BY DEF ExpireReservations
<1>2. L \subseteq Slots("RESERVED")  BY DEF Slots, Lapsed
<1>3. Slots("RESERVED")' = Slots("RESERVED") \ L  BY <1>1 DEF Slots
<1>4. Slots("CONVERTED")' = Slots("CONVERTED")  BY <1>1, <1>2 DEF Slots, Lapsed
<1>5. IsFiniteSet(L) /\ Cardinality(L) \in Nat /\ Cardinality(L) <= Cardinality(Slots("RESERVED"))
  BY <1>2, SlotsFinite, FS_Subset, FS_CardinalityType
<1>6. Cardinality(Slots("RESERVED")') = Cardinality(Slots("RESERVED")) - Cardinality(L)
  <2>1. Slots("RESERVED") \cap L = L  BY <1>2
  <2> QED  BY <1>3, <2>1, SlotsFinite, FS_Difference
<1>7. campaign.reserved >= Cardinality(L)
  BY <1>5, SlotsFinite, PromotionAssumption DEF NeverOversold
<1>8. campaign' = [campaign EXCEPT !.reserved = campaign.reserved - Cardinality(L)]
  BY <1>7 DEF ExpireReservations
<1>9. NeverOversold'
  BY <1>4, <1>5, <1>6, <1>7, <1>8, SlotsFinite, PromotionAssumption DEF NeverOversold
<1>10. campaign' \in Campaigns
  <2>1. campaign.reserved - Cardinality(L) \in 0..MaxSlots  BY <1>5, <1>7, PromotionAssumption
  <2> QED  BY <1>8, <2>1 DEF Campaigns
<1>11. slot' \in [Tenants -> SlotRows] /\ \A u \in Tenants : slot'[u].checkout = slot[u].checkout
  <2>1. \A t \in Tenants : [slot[t] EXCEPT !.status = "EXPIRED"] \in SlotRows
                            /\ [slot[t] EXCEPT !.status = "EXPIRED"].checkout = slot[t].checkout
    BY DEF SlotRows
  <2>2. \A t \in Tenants : slot[t] \in SlotRows  BY DEF SlotRows
  <2> QED  BY <1>1, <2>1, <2>2
<1>12. UNCHANGED <<reserving, activating>>  BY DEF ExpireReservations
<1> QED  BY <1>9, <1>10, <1>11, <1>12 DEF CampaignKept, Campaigns, SlotRows

(* The other steps move no slot into or out of what is counted. *)
LEMMA PromotionKeeps ==
  ASSUME PromotionTypeOK, NeverOversold, PromotionNext
  PROVE  CampaignKept
<1> USE DEF PromotionTypeOK
<1>1. CASE ExpireReservations  BY <1>1, ExpiryKeeps
<1>2. ASSUME NEW t \in Tenants, ConvertReservation(t) PROVE CampaignKept
  BY <1>2, ConversionKeeps DEF ConvertReservation
<1>3. ASSUME NEW t \in Tenants, ReleaseReservation(t) PROVE CampaignKept
  BY <1>3, ReleaseKeeps
<1>4. ASSUME NEW t \in Tenants, NEW how \in {"created", "recycled"}, Reserve(t, how)
      PROVE  CampaignKept
  BY <1>4, ReserveKeeps
<1>5. ASSUME NEW t \in Tenants, ReadSlot(t) PROVE CampaignKept
  BY <1>5 DEF ReadSlot, CampaignKept, NeverOversold, Slots
<1>6. ASSUME NEW t \in Tenants, ReservationLapses(t) PROVE CampaignKept
  <2>1. slot' = [slot EXCEPT ![t].expired = TRUE] /\ UNCHANGED <<campaign, reserving, activating>>
    BY <1>6 DEF ReservationLapses
  <2>2. Slots("CONVERTED")' = Slots("CONVERTED") /\ Slots("RESERVED")' = Slots("RESERVED")
    BY <2>1 DEF Slots
  <2>3. slot' \in [Tenants -> SlotRows] /\ \A u \in Tenants : slot'[u].checkout = slot[u].checkout
    <3> DEFINE lapsed == [slot[t] EXCEPT !.expired = TRUE]
    <3>1. \A u \in Tenants : slot[u] \in SlotRows  BY DEF SlotRows
    <3>2. lapsed \in SlotRows /\ lapsed.checkout = slot[t].checkout  BY <3>1 DEF SlotRows
    <3>3. slot' = [slot EXCEPT ![t] = lapsed]  BY <2>1
    <3> HIDE DEF lapsed
    <3>4. slot \in [Tenants -> SlotRows]  BY DEF SlotRows
    <3> QED  BY <3>1, <3>2, <3>3, <3>4
  <2> QED  BY <2>1, <2>2, <2>3 DEF CampaignKept, NeverOversold, SlotRows
<1>7. ASSUME NEW n \in 1..MaxSlots, UpdateCapacity(n) PROVE CampaignKept
  <2>1. PICK s \in {"ACTIVE", "CLOSED", "EXHAUSTED"} :
          campaign' = [campaign EXCEPT !.max = n, !.status = s]
    BY <1>7 DEF UpdateCapacity
  <2>2. campaign' \in Campaigns  BY <2>1 DEF Campaigns
  <2>3. NeverOversold'
    BY <1>7, <2>1, SlotsFinite, PromotionAssumption DEF UpdateCapacity, FitsOccupied, NeverOversold, Slots
  <2> QED  BY <1>7, <2>2, <2>3 DEF UpdateCapacity, CampaignKept, Campaigns
<1>8. CASE WindowEnds \/ Refresh \/ ReadCampaign \/ Activate \/ Close
  <2>1. PICK s \in {"ACTIVE", "CLOSED", "EXHAUSTED"}, e \in BOOLEAN :
          campaign' = [campaign EXCEPT !.status = s, !.ended = e]
    <3>1. CASE WindowEnds
      <4>1. campaign' = [campaign EXCEPT !.status = campaign.status, !.ended = TRUE]
        BY <3>1 DEF WindowEnds
      <4>2. TRUE \in BOOLEAN  BY Zenon
      <4> QED  BY <4>1, <4>2
    <3>2. CASE Refresh \/ Activate \/ Close
      <4>1. PICK s \in {"ACTIVE", "CLOSED", "EXHAUSTED"} : campaign' = [campaign EXCEPT !.status = s]
        BY <3>2 DEF Refresh, Activate, Close
      <4>2. campaign' = [campaign EXCEPT !.status = s, !.ended = campaign.ended]  BY <4>1
      <4> QED  BY <4>2
    <3>3. CASE ReadCampaign
      <4>1. campaign' = [campaign EXCEPT !.status = campaign.status, !.ended = campaign.ended]
        BY <3>3 DEF ReadCampaign
      <4> QED  BY <4>1
    <3> QED  BY <1>8, <3>1, <3>2, <3>3
  <2>2. campaign' \in Campaigns  BY <2>1 DEF Campaigns
  <2>3. UNCHANGED <<slot, reserving>> /\ activating' \in BOOLEAN
    BY <1>8 DEF WindowEnds, Refresh, ReadCampaign, Activate, Close
  <2>4. NeverOversold'  BY <2>1, <2>3 DEF NeverOversold, Slots
  <2> QED  BY <2>2, <2>3, <2>4 DEF CampaignKept, Campaigns
<1> QED  BY <1>1, <1>2, <1>3, <1>4, <1>5, <1>6, <1>7, <1>8 DEF PromotionNext

-----------------------------------------------------------------------------
(* The checkouts                                                             *)

(* The tables of requests and keys.                                            *)
LEMMA KeysOK == \A r \in Requests : KeyOf[r] \in Keys /\ Tenant(r) \in Tenants
BY CheckoutAssumption DEF Tenant

(* Every step preserves the types of the checkouts. *)
LEMMA CheckoutTypes ==
  ASSUME TypeOK, NEW r \in Requests,
         \/ Start(r) \/ CreateIntent(r) \/ Reclaim(r) \/ Process(r) \/ ClaimReservation(r)
         \/ AskGateway(r) \/ Commit(r) \/ Crash(r)
  PROVE  /\ intent' \in [Keys -> Intents] /\ seen' \in [Requests -> Intents]
         /\ session' \in [Keys -> {"none", "OPEN", "COMPLETED", "ENDED"}]
         /\ step' \in [Requests -> {"start", "create", "reclaim", "process", "reserve",
                                   "gateway", "commit", "end"}]
<1> USE DEF TypeOK
<1>1. \A saved \in Intents, state \in States : [saved EXCEPT !.state = state] \in Intents
  BY DEF Intents
<1>2. [state |-> "CLAIMED", token |-> r] \in Intents  BY DEF Intents, States
<1>3. intent' \in [Keys -> Intents]
  <2>1. PICK saved \in Intents : intent' = intent \/ intent' = [intent EXCEPT ![KeyOf[r]] = saved]
    <3>1. CASE CreateIntent(r) \/ Reclaim(r)  BY <1>2, <3>1 DEF CreateIntent, Reclaim
    <3>2. ASSUME NEW state \in States, Becomes(r, state)
          PROVE  \E saved \in Intents : intent' = [intent EXCEPT ![KeyOf[r]] = saved]
      <4>1. intent' = [intent EXCEPT ![KeyOf[r]] = [intent[KeyOf[r]] EXCEPT !.state = state]]
        BY <3>2 DEF Becomes
      <4> QED  BY <1>1, <4>1, KeysOK
    <3>3. CASE Process(r) \/ ClaimReservation(r) \/ AskGateway(r) \/ Commit(r)
      <4>1. intent' = intent \/ \E state \in States : Becomes(r, state)
        BY <3>3 DEF Process, ClaimReservation, AskGateway, Commit, States
      <4> QED  BY <1>2, <3>2, <4>1
    <3>4. CASE Start(r) \/ Crash(r)  BY <1>2, <3>4 DEF Start, Crash
    <3> QED  BY <3>1, <3>3, <3>4
  <2> QED  BY <2>1
<1>4. seen' \in [Requests -> Intents]
  BY KeysOK DEF Start, CreateIntent, Reclaim, Process, ClaimReservation, AskGateway, Commit, Crash
<1>5. session' \in [Keys -> {"none", "OPEN", "COMPLETED", "ENDED"}]
  BY DEF Start, CreateIntent, Reclaim, Process, ClaimReservation, AskGateway, Commit, Crash
<1>6. \E there \in {"create", "reclaim", "process", "reserve", "gateway", "commit", "end"} : Go(r, there)
  BY DEF Start, CreateIntent, Reclaim, Process, ClaimReservation, AskGateway, Commit, Crash
<1>7. step' \in [Requests -> {"start", "create", "reclaim", "process", "reserve",
                              "gateway", "commit", "end"}]
  BY <1>6 DEF Go
<1> QED  BY <1>3, <1>4, <1>5, <1>7

(* A request's step leaves the campaign's counters, and the tenants' slots    *)
(* but for their claim and checkout.                                         *)
LEMMA CheckoutKeeps ==
  ASSUME TypeOK, NeverOversold, NEW r \in Requests,
         \/ Start(r) \/ CreateIntent(r) \/ Reclaim(r) \/ Process(r) \/ ClaimReservation(r)
         \/ AskGateway(r) \/ Commit(r) \/ Crash(r)
  PROVE  PromotionTypeOK' /\ NeverOversold'
<1> USE DEF TypeOK, PromotionTypeOK
<1>1. UNCHANGED <<campaign, reserving, activating>>
  BY DEF Start, CreateIntent, Reclaim, Process, ClaimReservation, AskGateway, Commit, Crash,
         promotionVars
<1>2. slot' \in [Tenants -> SlotRows] /\ \A t \in Tenants : slot'[t].status = slot[t].status
  <2>1. CASE slot' = slot  BY <2>1 DEF SlotRows
  <2>2. CASE slot' # slot
    <3>1. PICK k \in Keys \cup {Nothing}, c \in Keys \cup {Nothing}, b \in BOOLEAN :
            slot' = [slot EXCEPT ![Tenant(r)] = [slot[Tenant(r)] EXCEPT !.checkout = k, !.claim = c,
                                                                        !.claimed = b]]
      <4>1. CASE ClaimReservation(r)
        <5>1. slot' = [slot EXCEPT ![Tenant(r)] = [slot[Tenant(r)] EXCEPT
                         !.checkout = slot[Tenant(r)].checkout, !.claim = KeyOf[r], !.claimed = TRUE]]
          <6> DEFINE t == Tenant(r)
          <6>1. t \in Tenants /\ slot[t] \in SlotRows  BY KeysOK DEF SlotRows
          <6>2. slot' = [slot EXCEPT ![t].claim = KeyOf[r], ![t].claimed = TRUE]
            BY <2>2, <4>1 DEF ClaimReservation
          <6> HIDE DEF t
          <6>3. [slot[t] EXCEPT !.checkout = slot[t].checkout, !.claim = KeyOf[r], !.claimed = TRUE]
                  = [slot[t] EXCEPT !.claim = KeyOf[r], !.claimed = TRUE]
            BY <6>1 DEF SlotRows
          <6>4. slot' = [slot EXCEPT ![t] = [slot[t] EXCEPT !.claim = KeyOf[r], !.claimed = TRUE]]
            BY <6>1, <6>2 DEF SlotRows
          <6>5. slot' = [slot EXCEPT ![t] = [slot[t] EXCEPT !.checkout = slot[t].checkout,
                                                            !.claim = KeyOf[r], !.claimed = TRUE]]
            BY <6>3, <6>4
          <6> QED  BY <6>5 DEF t
        <5>2. TRUE \in BOOLEAN /\ slot[Tenant(r)].checkout \in Keys \cup {Nothing}  BY KeysOK
        <5> QED  BY <5>1, <5>2, KeysOK
      <4>2. CASE Commit(r)
        <5>1. slot' = [slot EXCEPT ![Tenant(r)] = [slot[Tenant(r)] EXCEPT
                         !.checkout = KeyOf[r], !.claim = Nothing, !.claimed = FALSE]]
          BY <2>2, <4>2, KeysOK DEF Commit
        <5>2. FALSE \in BOOLEAN  BY Zenon
        <5> QED  BY <5>1, <5>2, KeysOK
      <4> QED  BY <2>2, <4>1, <4>2
               DEF Start, CreateIntent, Reclaim, Process, AskGateway, Crash, promotionVars
    <3>4. slot[Tenant(r)] \in SlotRows  BY KeysOK DEF SlotRows
    <3>2. [slot[Tenant(r)] EXCEPT !.checkout = k, !.claim = c, !.claimed = b] \in SlotRows
          /\ [slot[Tenant(r)] EXCEPT !.checkout = k, !.claim = c, !.claimed = b].status = slot[Tenant(r)].status
      BY <3>4 DEF SlotRows
    <3>3. \A t \in Tenants : slot[t] \in SlotRows  BY DEF SlotRows
    <3> QED  BY <3>1, <3>2, <3>3, KeysOK
  <2> QED  BY <2>1, <2>2
<1>3. Slots("CONVERTED")' = Slots("CONVERTED") /\ Slots("RESERVED")' = Slots("RESERVED")
  BY <1>2 DEF Slots
<1> QED  BY <1>1, <1>2, <1>3 DEF NeverOversold, SlotRows

-----------------------------------------------------------------------------
(* Who owns the intent                                                       *)

Working == {"process", "reserve", "gateway", "commit"}

(* Who works owns an active intent. *)
LEMMA WorkingOwns ==
  ASSUME OwnsIntent, NEW r \in Requests, step[r] \in Working
  PROVE  /\ Active(KeyOf[r]) /\ intent[KeyOf[r]].token = r
         /\ step[r] # "process" => intent[KeyOf[r]].state = "PROCESSING"
<1>1. CASE step[r] = "process"
  <2>1. Owns(r, "CLAIMED")  BY <1>1 DEF OwnsIntent
  <2> QED  BY <1>1, <2>1 DEF Owns, Active
<1>2. CASE step[r] # "process"
  <2>1. Owns(r, "PROCESSING")  BY <1>2 DEF OwnsIntent, Working
  <2> QED  BY <2>1 DEF Owns, Active
<1> QED  BY <1>1, <1>2

(* If nobody else works under the key of a request, its step takes nothing     *)
(* from anybody.                                                             *)
LEMMA OthersOwn ==
  ASSUME TypeOK, OwnsIntent, NEW r \in Requests,
         \A k \in Keys \ {KeyOf[r]} : intent'[k] = intent[k],
         \A q \in Requests \ {r} : step'[q] = step[q],
         Active(KeyOf[r]) => intent[KeyOf[r]].token = r,
         step'[r] = "process" => Owns(r, "CLAIMED")',
         step'[r] \in {"reserve", "gateway", "commit"} => Owns(r, "PROCESSING")'
  PROVE  OwnsIntent'
<1> SUFFICES ASSUME NEW q \in Requests \ {r}, step[q] \in Working
             PROVE  intent'[KeyOf[q]] = intent[KeyOf[q]]
  BY DEF OwnsIntent, Owns, Working
<1>1. Active(KeyOf[q]) /\ intent[KeyOf[q]].token = q  BY WorkingOwns
<1>2. KeyOf[q] # KeyOf[r]  BY <1>1
<1> QED  BY <1>2, KeysOK

(* A request that works under a key is the only one, and its key the only    *)
(* active one of the subscription.                                           *)
LEMMA Claims ==
  ASSUME TypeOK, OwnsIntent, OneActive, NEW r \in Requests, ~Active(KeyOf[r]), ~OthersActive(r),
         intent' = [intent EXCEPT ![KeyOf[r]] = [state |-> "CLAIMED", token |-> r]], Go(r, "process")
  PROVE  OwnsIntent' /\ OneActive'
<1> USE DEF TypeOK
<1>1. intent'[KeyOf[r]] = [state |-> "CLAIMED", token |-> r]
      /\ \A k \in Keys \ {KeyOf[r]} : intent'[k] = intent[k]
  BY KeysOK
<1>2. step'[r] = "process" /\ \A q \in Requests \ {r} : step'[q] = step[q]  BY DEF Go
<1>3. OwnsIntent'  BY <1>1, <1>2, OthersOwn DEF Owns
<1>4. \A k \in Keys \ {KeyOf[r]} : TenantOf[k] = TenantOf[KeyOf[r]] => ~Active(k)
  BY DEF OthersActive, KeysOf, Active, Tenant
<1>5. OneActive'  BY <1>1, <1>4, KeysOK DEF OneActive, Active
<1> QED  BY <1>3, <1>5

(* A request that owns its intent moves on with it, or gives it up. *)
LEMMA OwnerMoves ==
  ASSUME TypeOK, OwnsIntent, OneActive, NEW r \in Requests, NEW there, Go(r, there),
         step[r] \in Working,
         \/ intent' = intent /\ there \in {"end", "gateway", "commit"} /\ step[r] # "process"
         \/ intent' = intent /\ there = "end"
         \/ \E state \in States : Becomes(r, state) /\ (there = "end" \/ (state = "PROCESSING" /\ there \in {"reserve", "gateway"}))
  PROVE  OwnsIntent' /\ OneActive'
<1> USE DEF TypeOK
<1>1. /\ intent[KeyOf[r]].token = r /\ Active(KeyOf[r])
      /\ step[r] # "process" => intent[KeyOf[r]].state = "PROCESSING"
  BY WorkingOwns
<1>2. step'[r] = there /\ \A q \in Requests \ {r} : step'[q] = step[q]  BY DEF Go
<1>3. /\ \A k \in Keys \ {KeyOf[r]} : intent'[k] = intent[k]
      /\ intent'[KeyOf[r]].token = r /\ intent'[KeyOf[r]] \in Intents
      /\ there \in {"reserve", "gateway", "commit"} => intent'[KeyOf[r]].state = "PROCESSING"
  <2>1. CASE intent' = intent /\ (there = "end" \/ step[r] # "process")
    BY <1>1, <2>1, KeysOK
  <2>2. ASSUME NEW state \in States, Becomes(r, state),
               there = "end" \/ (state = "PROCESSING" /\ there \in {"reserve", "gateway"})
        PROVE  /\ \A k \in Keys \ {KeyOf[r]} : intent'[k] = intent[k]
               /\ intent'[KeyOf[r]].token = r /\ intent'[KeyOf[r]] \in Intents
               /\ there \in {"reserve", "gateway", "commit"} => intent'[KeyOf[r]].state = "PROCESSING"
    BY <1>1, <2>2, KeysOK DEF Becomes, Intents
  <2> QED  BY <2>1, <2>2
<1>4. there \in {"reserve", "gateway", "commit"} => Owns(r, "PROCESSING")'
  BY <1>3 DEF Owns, Intents
<1>5. there # "process"  OBVIOUS
<1>6. OwnsIntent'  BY <1>1, <1>2, <1>3, <1>4, <1>5, OthersOwn
<1>7. OneActive'  BY <1>1, <1>3, KeysOK DEF OneActive, Active
<1> QED  BY <1>6, <1>7

(* Every step of a request leaves every intent to whom it belongs. *)
LEMMA OwnershipPreserved ==
  ASSUME TypeOK, OwnsIntent, SeenFailed, OneActive, NEW r \in Requests,
         \/ Start(r) \/ CreateIntent(r) \/ Reclaim(r) \/ Process(r) \/ ClaimReservation(r)
         \/ AskGateway(r) \/ Commit(r) \/ Crash(r)
  PROVE  OwnsIntent' /\ OneActive' /\ SeenFailed'
<1> USE DEF TypeOK
<1>1. ASSUME intent' = intent, NEW there \in {"create", "reclaim", "end"}, Go(r, there)
      PROVE  OwnsIntent' /\ OneActive'
  BY <1>1 DEF Go, OwnsIntent, Owns, OneActive, Active
<1>2. CASE Start(r)
  <2>1. OwnsIntent' /\ OneActive'  BY <1>1, <1>2 DEF Start
  <2>2. SeenFailed'  BY <1>2 DEF Start, Go, SeenFailed
  <2> QED  BY <2>1, <2>2
<1>3. CASE CreateIntent(r)
  <2>1. OwnsIntent' /\ OneActive'
    <3>1. CASE intent' = intent  BY <1>1, <1>3, <3>1, KeysOK DEF CreateIntent
    <3>2. CASE intent' # intent
      <4>1. /\ intent[KeyOf[r]].state = "none" /\ ~OthersActive(r) /\ Go(r, "process")
            /\ intent' = [intent EXCEPT ![KeyOf[r]] = [state |-> "CLAIMED", token |-> r]]
        BY <1>3, <3>2 DEF CreateIntent
      <4> QED  BY <4>1, Claims DEF Active
    <3> QED  BY <3>1, <3>2
  <2>2. SeenFailed'  BY <1>3 DEF CreateIntent, Go, SeenFailed
  <2> QED  BY <2>1, <2>2
<1>4. CASE Reclaim(r)
  <2>1. OwnsIntent' /\ OneActive'
    <3>1. CASE StillAsSeen(r) /\ ~OthersActive(r)
      <4>1. intent[KeyOf[r]].state \in {"FAILED_RETRYABLE", "UNKNOWN"}
        BY <1>4, <3>1 DEF Reclaim, At, StillAsSeen, SeenFailed
      <4> QED  BY <1>4, <3>1, <4>1, Claims DEF Reclaim, Active
    <3>2. CASE ~(StillAsSeen(r) /\ ~OthersActive(r))  BY <1>1, <1>4, <3>2 DEF Reclaim
    <3> QED  BY <3>1, <3>2
  <2>2. SeenFailed'  BY <1>4 DEF Reclaim, Go, SeenFailed
  <2> QED  BY <2>1, <2>2
<1>5. CASE Process(r) \/ ClaimReservation(r) \/ AskGateway(r) \/ Commit(r)
  <2>1. step[r] \in Working
    BY <1>5 DEF Process, ClaimReservation, AskGateway, Commit, At, Working
  <2>2. OwnsIntent' /\ OneActive'
    <3>1. CASE Process(r)  BY <2>1, <3>1, OwnerMoves DEF Process, States
    <3>2. CASE ClaimReservation(r)  BY <2>1, <3>2, OwnerMoves DEF ClaimReservation, At, States
    <3>3. CASE AskGateway(r)  BY <2>1, <3>3, OwnerMoves DEF AskGateway, At, States
    <3>4. CASE Commit(r)  BY <2>1, <3>4, OwnerMoves DEF Commit, At, States
    <3> QED  BY <1>5, <3>1, <3>2, <3>3, <3>4
  <2>3. SeenFailed'
    BY <1>5 DEF Process, ClaimReservation, AskGateway, Commit, Go, SeenFailed
  <2> QED  BY <2>2, <2>3
<1>6. CASE Crash(r)
  <2>1. OwnsIntent' /\ OneActive'  BY <1>1, <1>6 DEF Crash
  <2>2. SeenFailed'  BY <1>6 DEF Crash, Go, SeenFailed
  <2> QED  BY <2>1, <2>2
<1> QED  BY <1>2, <1>3, <1>4, <1>5, <1>6

(* The link of a reservation is made once. *)
LEMMA LinkPreserved ==
  ASSUME TypeOK, OnePerReservation, NEW r \in Requests,
         \/ Start(r) \/ CreateIntent(r) \/ Reclaim(r) \/ Process(r) \/ ClaimReservation(r)
         \/ AskGateway(r) \/ Commit(r) \/ Crash(r)
  PROVE  OnePerReservation'
<1> USE DEF TypeOK, PromotionTypeOK
<1>1. CASE Commit(r) /\ session' # session /\ Promotional(r)
  <2>1. /\ slot[Tenant(r)].checkout = Nothing
        /\ session' = [session EXCEPT ![KeyOf[r]] = "OPEN"]
        /\ slot'[Tenant(r)].checkout = KeyOf[r]
        /\ \A t \in Tenants \ {Tenant(r)} : slot'[t] = slot[t]
    BY <1>1, KeysOK DEF Commit, Linkable
  <2> SUFFICES ASSUME NEW k \in Promo, session'[k] # "none"
               PROVE  slot'[TenantOf[k]].checkout = k
    BY DEF OnePerReservation
  <2>2. CASE k = KeyOf[r]  BY <2>1, <2>2 DEF Tenant
  <2>3. CASE k # KeyOf[r]
    <3>1. k \in Keys /\ TenantOf[k] \in Tenants /\ k # Nothing
      BY CheckoutAssumption, PromotionAssumption
    <3>2. session[k] # "none" /\ slot[TenantOf[k]].checkout = k
      BY <2>1, <2>3, <3>1 DEF OnePerReservation
    <3>3. TenantOf[k] # Tenant(r)  BY <2>1, <3>1, <3>2
    <3> QED  BY <2>1, <3>1, <3>2, <3>3
  <2> QED  BY <2>2, <2>3
<1>2. CASE ~(Commit(r) /\ session' # session /\ Promotional(r))
  <2>1. \A t \in Tenants : slot'[t].checkout = slot[t].checkout
    <3>1. CASE ClaimReservation(r)
      BY <3>1, KeysOK DEF ClaimReservation
    <3>2. CASE Commit(r)
      <4>1. \/ slot' = slot
            \/ session' = [session EXCEPT ![KeyOf[r]] = "OPEN"] /\ session[KeyOf[r]] # "OPEN"
        <5>1. KeyOf[r] \in KeysOf(Tenant(r))  BY KeysOK DEF KeysOf, Tenant
        <5>2. CASE UNCHANGED <<session, slot>>  BY <5>2
        <5>3. CASE ~UNCHANGED <<session, slot>>
          <6>1. /\ \A k \in KeysOf(Tenant(r)) : session[k] # "OPEN"
                /\ session' = [session EXCEPT ![KeyOf[r]] = "OPEN"]
            BY <3>2, <5>3 DEF Commit
          <6> QED  BY <5>1, <6>1
        <5> QED  BY <5>2, <5>3
      <4>2. (slot' = slot) \/ (session' # session)  BY <4>1, KeysOK
      <4> QED  BY <1>2, <3>2, <4>2 DEF Commit
    <3> QED  BY <3>1, <3>2
             DEF Start, CreateIntent, Reclaim, Process, AskGateway, Crash, promotionVars
  <2>2. \A k \in Promo : session'[k] = session[k]
    BY <1>2, CheckoutAssumption
       DEF Start, CreateIntent, Reclaim, Process, ClaimReservation, AskGateway, Commit, Crash,
           Promotional
  <2> QED  BY <2>1, <2>2, CheckoutAssumption DEF OnePerReservation
<1> QED  BY <1>1, <1>2

-----------------------------------------------------------------------------
(* The payment, the campaign and time                                        *)

(* ... leave who is under way where it is.                                      *)
LEMMA OthersPreserve ==
  ASSUME IInv,
         \/ PromotionNext /\ UNCHANGED checkoutVars
         \/ \E t \in Tenants : ClaimLapses(t)
         \/ \E k \in Keys : EndSession(k) \/ Approve(k)
         \/ UNCHANGED cvars
  PROVE  IInv'
<1> USE DEF IInv, TypeOK
<1>1. UNCHANGED <<intent, step, seen>>
  BY DEF checkoutVars, ClaimLapses, EndSession, Approve, cvars
<1>2. OwnsIntent' /\ SeenFailed' /\ OneActive'
  BY <1>1 DEF OwnsIntent, Owns, SeenFailed, OneActive, Active
<1>3. CampaignKept
  <2>1. CASE PromotionNext  BY <2>1, PromotionKeeps
  <2>2. ASSUME NEW t \in Tenants, ClaimLapses(t) PROVE CampaignKept
    <3>1. slot' = [slot EXCEPT ![t].claimed = FALSE] /\ UNCHANGED <<campaign, reserving, activating>>
      BY <2>2 DEF ClaimLapses
    <3>2. FALSE \in BOOLEAN  BY Zenon
    <3>3. \A b \in BOOLEAN : [slot[t] EXCEPT !.claimed = b] \in SlotRows
      BY DEF PromotionTypeOK, SlotRows
    <3>4. \A u \in Tenants : slot[u] \in SlotRows  BY DEF PromotionTypeOK, SlotRows
    <3>5. slot' = [slot EXCEPT ![t] = [slot[t] EXCEPT !.claimed = FALSE]]  BY <3>1
    <3>6. slot' \in [Tenants -> SlotRows]
      BY <3>2, <3>3, <3>4, <3>5 DEF PromotionTypeOK
    <3>7. \A u \in Tenants : slot'[u].checkout = slot[u].checkout /\ slot'[u].status = slot[u].status
      BY <3>4, <3>5 DEF SlotRows, PromotionTypeOK
    <3>8. NeverOversold'  BY <3>1, <3>7 DEF NeverOversold, Slots
    <3> QED  BY <3>1, <3>6, <3>7, <3>8 DEF CampaignKept, PromotionTypeOK, SlotRows
  <2>3. ASSUME NEW k \in Keys, Approve(k), slot[TenantOf[k]].status = "RESERVED",
               slot[TenantOf[k]].checkout = k
        PROVE CampaignKept
    <3>1. TenantOf[k] \in Tenants  BY CheckoutAssumption
    <3> QED  BY <2>3, <3>1, ConversionKeeps DEF Approve
  <2>4. ASSUME UNCHANGED promotionVars PROVE CampaignKept
    BY <2>4 DEF promotionVars, CampaignKept, NeverOversold, Slots, PromotionTypeOK
  <2>5. ASSUME NEW k \in Keys, EndSession(k) \/ Approve(k) PROVE CampaignKept
    BY <2>3, <2>4, <2>5 DEF EndSession, Approve, promotionVars
  <2> QED  BY <2>1, <2>2, <2>4, <2>5 DEF cvars
<1>4. session' \in [Keys -> {"none", "OPEN", "COMPLETED", "ENDED"}]
      /\ \A k \in Keys : session'[k] # "none" => session[k] # "none"
  BY DEF checkoutVars, ClaimLapses, EndSession, Approve, cvars
<1>5. OnePerReservation'
  BY <1>3, <1>4, CheckoutAssumption DEF OnePerReservation, CampaignKept
<1>6. TypeOK'  BY <1>1, <1>3, <1>4 DEF CampaignKept
<1> QED  BY <1>2, <1>3, <1>5, <1>6 DEF CampaignKept

-----------------------------------------------------------------------------
(* Type correctness, and who owns an intent. *)
THEOREM CheckoutInvariant == Spec => []IInv
<1>1. IInv /\ [Next]_cvars => IInv'
  <2> SUFFICES ASSUME IInv, [Next]_cvars PROVE IInv'  OBVIOUS
  <2>1. ASSUME NEW r \in Requests,
               \/ Start(r) \/ CreateIntent(r) \/ Reclaim(r) \/ Process(r) \/ ClaimReservation(r)
               \/ AskGateway(r) \/ Commit(r) \/ Crash(r)
        PROVE  IInv'
    <3>1. TypeOK'  BY <2>1, CheckoutTypes, CheckoutKeeps DEF IInv, TypeOK
    <3>2. OwnsIntent' /\ OneActive' /\ SeenFailed'  BY <2>1, OwnershipPreserved DEF IInv
    <3>3. OnePerReservation'  BY <2>1, LinkPreserved DEF IInv
    <3>4. NeverOversold'  BY <2>1, CheckoutKeeps DEF IInv
    <3> QED  BY <3>1, <3>2, <3>3, <3>4 DEF IInv
  <2> QED  BY <2>1, OthersPreserve DEF Next
<1> QED  BY <1>1, Initially, PTL DEF Spec

(* The campaign is never oversold, however its steps and the checkouts'       *)
(* interleave (promotion_campaigns and its two counters).                    *)
THEOREM NeverOversoldHolds == Spec => []NeverOversold
<1>1. IInv => NeverOversold  BY DEF IInv
<1> QED  BY <1>1, CheckoutInvariant, PTL

(* One request at most waits for the gateway for a subscription, and no       *)
(* reservation pays for two checkouts (CheckoutService.create).              *)
THEOREM OneCheckoutHolds == Spec => []OneCheckout
<1>1. IInv => OneCheckout
  <2> SUFFICES ASSUME IInv PROVE OneAtGateway  BY DEF IInv, OneCheckout
  <2> SUFFICES ASSUME NEW r \in Requests, NEW q \in Requests, step[r] = "gateway",
                      step[q] = "gateway", Tenant(r) = Tenant(q)
               PROVE  r = q
    BY DEF OneAtGateway, At
  <2>1. Owns(r, "PROCESSING") /\ Owns(q, "PROCESSING")  BY DEF IInv, OwnsIntent
  <2>2. KeyOf[r] = KeyOf[q]
    BY <2>1, KeysOK DEF IInv, OneActive, Active, Owns, Tenant
  <2> QED  BY <2>1, <2>2 DEF Owns
<1> QED  BY <1>1, CheckoutInvariant, PTL

-----------------------------------------------------------------------------
(* SubscriptionOps: a cancellation and a plan change are never both on their  *)
(* way to the gateway, and the checkout expects what the gateway will charge. *)
(* The heart is the unique index: one operation at most is pending, so that   *)
(* nothing moves the gateway's plan between a change's read and its call, nor *)
(* between a confirmation's read and its write.                               *)

PendingChange(p) == changeState[p] \in O!PendingStates

(* The unique index admits one pending operation. *)
OnePending ==
  /\ \A p, q \in Changes : PendingChange(p) /\ PendingChange(q) => p = q
  /\ cancelRow.state \in O!PendingStates => ~O!ChangePending

(* What a plan change has read of the subscription holds while the version    *)
(* does.                                                                     *)
ReadTrue ==
  \A p \in Changes :
    planChange[p].at = "read" =>
      /\ planChange[p].version <= subscription.version
      /\ planChange[p].version = subscription.version => subscription.plan # Target[p]

(* A change that has not claimed its row has none. *)
RowClaimed == \A p \in Changes : planChange[p].at \in {"idle", "read"} => changeState[p] = "none"

(* A change on its way is pending, and the gateway is where it was before. *)
SentPending ==
  \A p \in Changes :
    planChange[p].at = "sent" =>
      /\ changeState[p] = "UNKNOWN" /\ subscription.active
      /\ expected # Target[p]
      /\ remote.cancelled \/ remote.plan = expected

(* What a confirmation found at the gateway is there until it has been        *)
(* recorded.                                                                 *)
ConfirmTrue ==
  \A p \in confirming :
    /\ planChange[p].at \in {"received", "end"}
    /\ changeState[p] = "UNKNOWN" => remote.cancelled \/ remote.plan = Target[p]

(* The expected plan is the plan, but for a change that is confirmed. *)
ExpectedPlan ==
  /\ \A p \in Changes : changeState[p] = "PROCESSING" => expected = Target[p]
  /\ (\A p \in Changes : changeState[p] # "PROCESSING") => expected = subscription.plan

(* A cancellation on its way is pending, or another has taken effect. *)
CancelHeld ==
  /\ \A c \in Cancels :
       cancel[c].at \in {"sent", "lost"} => cancelRow.state \in O!PendingStates \/ ~subscription.active
  /\ cancelRow.state = "SUCCEEDED" => ~subscription.active

(* The inductive invariant *)
MutationsInv == /\ O!TypeOK /\ OnePending /\ ReadTrue /\ RowClaimed /\ SentPending /\ ConfirmTrue
        /\ ExpectedPlan /\ CancelHeld /\ O!ChargeExpected

-----------------------------------------------------------------------------
(* The initial states satisfy the inductive invariant. *)
LEMMA MutationsInit == O!Init => MutationsInv
<1> SUFFICES ASSUME O!Init PROVE MutationsInv  OBVIOUS
<1>1. O!TypeOK  BY DEF O!Init, O!TypeOK, O!Plans, O!PendingStates
<1>2. OnePending /\ CancelHeld
  BY DEF O!Init, OnePending, PendingChange, O!ChangePending, CancelHeld, O!PendingStates
<1>3. ReadTrue /\ RowClaimed /\ SentPending /\ ConfirmTrue
  BY DEF O!Init, ReadTrue, RowClaimed, SentPending, ConfirmTrue
<1>4. ExpectedPlan /\ O!ChargeExpected  BY DEF O!Init, ExpectedPlan, O!ChargeExpected
<1> QED  BY <1>1, <1>2, <1>3, <1>4 DEF MutationsInv

CancelRows == [state : O!PendingStates \cup {"none", "SUCCEEDED"},
               token : Cancels \cup {Nobody}, lease : BOOLEAN]
CancelSteps == {"idle", "read", "claimed", "sent", "received", "lost", "end"}
ChangeSteps == {"idle", "read", "sent", "received", "end"}

(* A request moves to one of its steps. *)
LEMMA CancelMovesType ==
  ASSUME O!TypeOK, NEW c \in Cancels, NEW from, NEW there \in CancelSteps, O!CancelMoves(c, from, there)
  PROVE  cancel' \in [Cancels -> [at : CancelSteps, version : Nat]]
BY DEF O!TypeOK, O!CancelMoves, CancelSteps

(* What a step of a plan change leaves of the types (planChange, its row).    *)
LEMMA ChangeMovesType ==
  ASSUME O!TypeOK, NEW p \in Changes, NEW from, NEW there \in ChangeSteps, O!ChangeMoves(p, from, there)
  PROVE  planChange' \in [Changes -> [at : ChangeSteps, version : Nat]]
BY DEF O!TypeOK, O!ChangeMoves, ChangeSteps

(* What a cancelled subscription is. *)
LEMMA CanceledIs ==
  ASSUME O!TypeOK
  PROVE  /\ subscription.version \in Nat
         /\ O!Canceled.version = subscription.version + 1 /\ O!Canceled.plan = subscription.plan
         /\ ~O!Canceled.active
         /\ O!Canceled \in [active : BOOLEAN, plan : O!Plans, version : Nat]
<1>1. subscription \in [active : BOOLEAN, plan : O!Plans, version : Nat]  BY DEF O!TypeOK
<1>2. O!Canceled.version = subscription.version + 1 /\ O!Canceled.plan = subscription.plan
  BY <1>1 DEF O!Canceled
<1>3. ~O!Canceled.active  BY <1>1 DEF O!Canceled
<1>4. \A b \in BOOLEAN, n \in Nat :
        [subscription EXCEPT !.active = b, !.version = n] \in [active : BOOLEAN, plan : O!Plans, version : Nat]
  BY <1>1
<1>5. subscription.version + 1 \in Nat  BY <1>1
<1>6. O!Canceled = [subscription EXCEPT !.active = FALSE, !.version = subscription.version + 1]
  BY <1>1 DEF O!Canceled
<1>7. FALSE \in BOOLEAN  BY Zenon
<1> QED  BY <1>1, <1>2, <1>3, <1>4, <1>5, <1>6, <1>7

(* A step of a cancellation preserves the types. *)
LEMMA CancelTypePreserved ==
  ASSUME O!TypeOK, NEW c \in Cancels,
         \/ O!CancelRead(c) \/ O!CancelClaim(c) \/ O!CancelSend(c)
         \/ O!CancelReceived(c) \/ O!CancelAnswered(c) \/ O!CancelFails(c)
  PROVE  O!TypeOK'
<1> USE DEF O!TypeOK
<1>1. UNCHANGED <<expected, changeState, planChange, confirming>>
  BY DEF O!CancelRead, O!CancelClaim, O!CancelSend, O!CancelReceived, O!CancelAnswered,
         O!CancelFails
<1>2. cancel' \in [Cancels -> [at : CancelSteps, version : Nat]]
  <2>1. CASE O!CancelRead(c)
    <3>1. PICK w \in [at : CancelSteps, version : Nat] : cancel' = [cancel EXCEPT ![c] = w]
      <4>1. CASE cancel' = [cancel EXCEPT ![c].at = "end"]
        <5>1. [cancel[c] EXCEPT !.at = "end"] \in [at : CancelSteps, version : Nat]
          BY DEF CancelSteps
        <5>2. cancel' = [cancel EXCEPT ![c] = [cancel[c] EXCEPT !.at = "end"]]  BY <4>1
        <5> QED  BY <5>1, <5>2
      <4>2. CASE cancel' = [cancel EXCEPT ![c] = [at |-> "read", version |-> subscription.version]]
        <5>1. [at |-> "read", version |-> subscription.version] \in [at : CancelSteps, version : Nat]
          BY DEF CancelSteps
        <5> QED  BY <4>2, <5>1
      <4> QED  BY <2>1, <4>1, <4>2 DEF O!CancelRead
    <3> QED  BY <3>1 DEF CancelSteps
  <2>2. ASSUME NEW from, NEW there \in CancelSteps, O!CancelMoves(c, from, there)
        PROVE  cancel' \in [Cancels -> [at : CancelSteps, version : Nat]]
    BY <2>2, CancelMovesType
  <2>3. CASE ~O!CancelRead(c)
    <3>1. PICK from \in CancelSteps, there \in CancelSteps : O!CancelMoves(c, from, there)
      BY <2>3 DEF O!CancelClaim, O!CancelSend, O!CancelReceived, O!CancelAnswered,
                  O!CancelFails, CancelSteps
    <3> QED  BY <2>2, <3>1
  <2> QED  BY <2>1, <2>3
<1>3. cancelRow' \in CancelRows
  <2>1. cancelRow \in CancelRows  BY DEF CancelRows
  <2>2. /\ [cancelRow EXCEPT !.state = "SUCCEEDED", !.token = Nobody] \in CancelRows
        /\ [cancelRow EXCEPT !.state = "PROCESSING"] \in CancelRows
        /\ [cancelRow EXCEPT !.state = "UNKNOWN"] \in CancelRows
        /\ [state |-> "CLAIMED", token |-> c, lease |-> TRUE] \in CancelRows
    BY DEF CancelRows, O!PendingStates
  <2> HIDE DEF O!TypeOK
  <2> QED  BY <2>1, <2>2
           DEF O!CancelRead, O!CancelClaim, O!CancelSend, O!CancelReceived, O!CancelAnswered,
           O!CancelFails
<1>4. subscription' \in [active : BOOLEAN, plan : O!Plans, version : Nat]
  <2>1. O!Canceled \in [active : BOOLEAN, plan : O!Plans, version : Nat]
    BY CanceledIs
  <2>2. subscription' = subscription \/ subscription' = O!Canceled
    BY DEF O!CancelRead, O!CancelClaim, O!CancelSend, O!CancelReceived, O!CancelAnswered,
           O!CancelFails
  <2> QED  BY <2>1, <2>2
<1>5. remote' \in [plan : O!Plans, cancelled : BOOLEAN]
  <2>1. remote' = remote \/ remote' = [remote EXCEPT !.cancelled = TRUE]
    BY DEF O!CancelRead, O!CancelClaim, O!CancelSend, O!CancelReceived, O!CancelAnswered,
           O!CancelFails
  <2> QED  BY <2>1
<1> QED  BY <1>1, <1>2, <1>3, <1>4, <1>5 DEF CancelRows, CancelSteps

(* Every step preserves the types. *)
LEMMA MutationsTypes == O!TypeOK /\ [O!Next]_(O!opsVars) => O!TypeOK'
<1> SUFFICES ASSUME O!TypeOK, [O!Next]_(O!opsVars) PROVE O!TypeOK'  OBVIOUS
<1> USE DEF O!TypeOK, O!PendingStates
<1>1. ASSUME NEW c \in Cancels,
             \/ O!CancelRead(c) \/ O!CancelClaim(c) \/ O!CancelSend(c)
             \/ O!CancelReceived(c) \/ O!CancelAnswered(c) \/ O!CancelFails(c)
      PROVE  O!TypeOK'
  BY <1>1, CancelTypePreserved
<1>7. ASSUME NEW p \in Changes, O!ChangeRead(p) PROVE O!TypeOK'
  BY <1>7 DEF O!ChangeRead, O!requestVars
<1>8. ASSUME NEW p \in Changes, O!ChangeClaim(p) PROVE O!TypeOK'
  <2>1. planChange' \in [Changes -> [at : ChangeSteps, version : Nat]]
    <3>1. \/ O!ChangeMoves(p, "read", "sent") \/ O!ChangeMoves(p, "read", "end")
      BY <1>8 DEF O!ChangeClaim
    <3>2. "sent" \in ChangeSteps /\ "end" \in ChangeSteps  BY DEF ChangeSteps
    <3> QED  BY <3>1, <3>2, ChangeMovesType
  <2>2. subscription' \in [active : BOOLEAN, plan : O!Plans, version : Nat]
    <3>1. subscription' = subscription \/ subscription' = [subscription EXCEPT !.version = @ + 1]
      BY <1>8 DEF O!ChangeClaim
    <3> QED  BY <3>1
  <2>3. changeState' \in [Changes -> {"none", "UNKNOWN", "PROCESSING", "SUCCEEDED", "FAILED"}]
    <3>1. changeState' = changeState \/ changeState' = [changeState EXCEPT ![p] = "UNKNOWN"]
      BY <1>8 DEF O!ChangeClaim
    <3> QED  BY <3>1
  <2>4. UNCHANGED <<expected, cancelRow, cancel, confirming, remote>>  BY <1>8 DEF O!ChangeClaim
  <2> QED  BY <2>1, <2>2, <2>3, <2>4 DEF ChangeSteps
<1>9. ASSUME NEW p \in Changes, O!ChangeReceived(p) PROVE O!TypeOK'
  BY <1>9 DEF O!ChangeReceived, O!ChangeMoves, O!requestVars, O!Plans
<1>10. ASSUME NEW p \in Changes, O!ChangeRefused(p) \/ O!ChangeLost(p) PROVE O!TypeOK'
  <2>1. planChange' \in [Changes -> [at : ChangeSteps, version : Nat]]
    BY <1>10, ChangeMovesType DEF O!ChangeRefused, O!ChangeLost, ChangeSteps
  <2>2. changeState' \in [Changes -> {"none", "UNKNOWN", "PROCESSING", "SUCCEEDED", "FAILED"}]
    BY <1>10 DEF O!ChangeRefused, O!ChangeLost
  <2> QED  BY <1>10, <2>1, <2>2 DEF O!ChangeRefused, O!ChangeLost, ChangeSteps
<1>11. ASSUME NEW p \in Changes, O!ConfirmRead(p) PROVE O!TypeOK'
  BY <1>11 DEF O!ConfirmRead, O!requestVars
<1>12. ASSUME NEW p \in Changes, O!Confirm(p) PROVE O!TypeOK'
  BY <1>12 DEF O!Confirm, O!requestVars, O!Plans
<1>13. CASE O!LeaseExpires  BY <1>13 DEF O!LeaseExpires, O!requestVars
<1>14. CASE O!Renewal
  <2>1. subscription' \in [active : BOOLEAN, plan : O!Plans, version : Nat]
    <3>1. subscription.version + 1 \in Nat  OBVIOUS
    <3>2. subscription' = [active |-> subscription.active, plan |-> expected,
                           version |-> subscription.version + 1]
      BY <1>14 DEF O!Renewal
    <3> QED  BY <3>1, <3>2
  <2>2. changeState' \in [Changes -> {"none", "UNKNOWN", "PROCESSING", "SUCCEEDED", "FAILED"}]
    BY <1>14 DEF O!Renewal
  <2> QED  BY <1>14, <2>1, <2>2 DEF O!Renewal, O!requestVars
<1>15. CASE UNCHANGED O!opsVars  BY <1>15 DEF O!opsVars, O!requestVars
<1> QED  BY <1>1, <1>7, <1>8, <1>9, <1>10, <1>11, <1>12, <1>13, <1>14, <1>15 DEF O!Next

-----------------------------------------------------------------------------
(* A cancellation's steps preserve the invariant: they leave the gateway's    *)
(* plan alone, and end the subscription only while no change is pending.      *)
LEMMA CancelPreserves ==
  ASSUME MutationsInv, NEW c \in Cancels,
         \/ O!CancelRead(c) \/ O!CancelClaim(c) \/ O!CancelSend(c)
         \/ O!CancelReceived(c) \/ O!CancelAnswered(c) \/ O!CancelFails(c)
  PROVE  OnePending' /\ ReadTrue' /\ RowClaimed' /\ SentPending' /\ ConfirmTrue' /\ ExpectedPlan'
         /\ CancelHeld' /\ O!ChargeExpected'
<1> USE DEF MutationsInv, O!TypeOK
<1>1. UNCHANGED <<expected, changeState, planChange, confirming>> /\ remote'.plan = remote.plan
      /\ (remote.cancelled => remote'.cancelled)
  BY DEF O!CancelRead, O!CancelClaim, O!CancelSend, O!CancelReceived, O!CancelAnswered,
         O!CancelFails
<1>2. OnePending'
  <2>1. cancelRow'.state \in O!PendingStates => cancelRow.state \in O!PendingStates \/ ~O!ChangePending
    BY DEF O!CancelRead, O!CancelClaim, O!CancelSend, O!CancelReceived, O!CancelAnswered,
           O!CancelFails,
           O!IndexFree, O!Holds, O!PendingStates
  <2> QED  BY <1>1, <2>1 DEF OnePending, PendingChange, O!ChangePending
<1>3. subscription' = subscription \/ (~O!ChangePending /\ subscription' = O!Canceled)
  <2>1. CASE O!CancelClaim(c)  BY <2>1 DEF O!CancelClaim, CancelHeld
  <2>2. CASE O!CancelAnswered(c)
    BY <2>2 DEF O!CancelAnswered, O!Holds, OnePending, O!PendingStates
  <2> QED  BY <2>1, <2>2 DEF O!CancelRead, O!CancelSend, O!CancelReceived, O!CancelFails
<1>4. /\ subscription'.plan = subscription.plan /\ subscription'.version >= subscription.version
      /\ subscription'.version = subscription.version => subscription' = subscription
      /\ ~subscription.active => ~subscription'.active
  <2>1. CASE subscription' = subscription  BY <2>1
  <2>2. CASE subscription' = O!Canceled  BY <2>2, CanceledIs
  <2> QED  BY <1>3, <2>1, <2>2
<1>5. ReadTrue' /\ RowClaimed'
  <2>1. RowClaimed'  BY <1>1 DEF RowClaimed
  <2>2. ReadTrue'
    <3> SUFFICES ASSUME NEW p \in Changes, planChange[p].at = "read"
                 PROVE  /\ planChange[p].version <= subscription'.version
                        /\ planChange[p].version = subscription'.version => subscription'.plan # Target[p]
      BY <1>1 DEF ReadTrue
    <3>1. /\ planChange[p].version <= subscription.version
          /\ planChange[p].version = subscription.version => subscription.plan # Target[p]
      BY DEF ReadTrue
    <3>2. planChange[p].version \in Nat /\ subscription.version \in Nat  OBVIOUS
    <3>3. CASE subscription' = subscription  BY <3>1, <3>3
    <3>4. CASE subscription' = O!Canceled
      <4>1. subscription'.version = subscription.version + 1  BY <3>4, CanceledIs
      <4> QED  BY <3>1, <3>2, <4>1
    <3> QED  BY <1>3, <3>3, <3>4
  <2> QED  BY <2>1, <2>2
<1>6. SentPending'
  <2>1. (\E p \in Changes : planChange[p].at = "sent") => O!ChangePending
    BY DEF SentPending, O!ChangePending, O!PendingStates
  <2> QED  BY <1>1, <1>3, <2>1 DEF SentPending
<1>7. ConfirmTrue' /\ ExpectedPlan' /\ O!ChargeExpected'
  BY <1>1, <1>4 DEF ConfirmTrue, ExpectedPlan, O!ChargeExpected
<1>8. CancelHeld'
  <2>1. cancelRow'.state = "SUCCEEDED" => ~subscription'.active
    <3>1. CASE O!CancelAnswered(c)  BY <3>1 DEF O!CancelAnswered, O!Holds, CancelHeld, O!Canceled
    <3>2. CASE O!CancelRead(c)  BY <3>2 DEF O!CancelRead, CancelHeld
    <3>3. CASE O!CancelClaim(c)  BY <3>3, <1>4 DEF O!CancelClaim, CancelHeld
    <3> QED  BY <3>1, <3>2, <3>3, <1>4 DEF O!CancelSend, O!CancelReceived, O!CancelFails,
                                           CancelHeld
  <2>2. cancelRow.state \in O!PendingStates
        => cancelRow'.state \in O!PendingStates \/ cancelRow'.state = "SUCCEEDED"
    <3>1. cancelRow' = cancelRow \/ cancelRow'.state \in O!PendingStates \cup {"SUCCEEDED"}
      <4>1. CASE O!CancelRead(c)  BY <4>1 DEF O!CancelRead
      <4>2. CASE O!CancelClaim(c)  BY <4>2 DEF O!CancelClaim, O!PendingStates
      <4>3. CASE O!CancelSend(c)  BY <4>3 DEF O!CancelSend, O!PendingStates
      <4>4. CASE O!CancelAnswered(c)  BY <4>4 DEF O!CancelAnswered
      <4>5. CASE O!CancelFails(c)  BY <4>5 DEF O!CancelFails, O!PendingStates
      <4> QED  BY <4>1, <4>2, <4>3, <4>4, <4>5 DEF O!CancelReceived
    <3> QED  BY <3>1
  <2>3. \A d \in Cancels : cancel'[d].at \in {"sent", "lost"} =>
          cancel[d].at \in {"sent", "lost"} \/ cancelRow'.state \in O!PendingStates
    BY DEF O!CancelRead, O!CancelClaim, O!CancelSend, O!CancelReceived, O!CancelAnswered,
           O!CancelFails,
           O!CancelMoves, O!PendingStates
  <2> QED  BY <1>4, <2>1, <2>2, <2>3 DEF CancelHeld
<1> QED  BY <1>2, <1>5, <1>6, <1>7, <1>8

-----------------------------------------------------------------------------
(* A plan change's steps preserve the invariant.                             *)
LEMMA ChangePreserves ==
  ASSUME MutationsInv, NEW p \in Changes,
         O!ChangeRead(p) \/ O!ChangeClaim(p) \/ O!ChangeReceived(p) \/ O!ChangeRefused(p) \/ O!ChangeLost(p)
  PROVE  OnePending' /\ ReadTrue' /\ RowClaimed' /\ SentPending' /\ ConfirmTrue' /\ ExpectedPlan'
         /\ CancelHeld' /\ O!ChargeExpected'
<1> USE DEF MutationsInv, O!TypeOK
<1>0. UNCHANGED <<cancel, cancelRow, expected, confirming>>
  BY DEF O!ChangeRead, O!ChangeClaim, O!ChangeReceived, O!ChangeRefused, O!ChangeLost
<1>1. CASE O!ChangeRead(p)
  <2>1. UNCHANGED <<subscription, expected, cancelRow, changeState, cancel, confirming, remote>>
    BY <1>1 DEF O!ChangeRead
  <2>2. \A q \in Changes \ {p} : planChange'[q] = planChange[q]  BY <1>1 DEF O!ChangeRead
  <2>3. planChange'[p].at \in {"read", "end"} /\ planChange[p].at = "idle"  BY <1>1
                                                                               DEF O!ChangeRead
  <2>4. planChange'[p].at = "read" => subscription.plan # Target[p]
                                  /\ planChange'[p].version = subscription.version
    BY <1>1 DEF O!ChangeRead
  <2>5. ReadTrue'  BY <2>1, <2>2, <2>3, <2>4 DEF ReadTrue
  <2>7. RowClaimed'  BY <2>1, <2>2, <2>3 DEF RowClaimed
  <2>6. SentPending' /\ ConfirmTrue'  BY <2>1, <2>2, <2>3 DEF SentPending, ConfirmTrue
  <2> QED  BY <2>1, <2>5, <2>6, <2>7
           DEF OnePending, PendingChange, O!ChangePending, ExpectedPlan, CancelHeld,
           O!ChargeExpected
<1>2. CASE O!ChangeClaim(p)
  <2>1. \A q \in Changes \ {p} : planChange'[q] = planChange[q] /\ changeState'[q] = changeState[q]
    BY <1>2 DEF O!ChangeClaim, O!ChangeMoves
  <2>2. planChange[p].at = "read" /\ planChange'[p].at \in {"sent", "end"} /\ p \notin confirming
    BY <1>2 DEF O!ChangeClaim, O!ChangeMoves, ConfirmTrue
  <2>3. remote' = remote  BY <1>2 DEF O!ChangeClaim
  <2>4. CASE ~(O!Unchanged(p) /\ O!IndexFree)
    <3>1. UNCHANGED <<subscription, changeState>> /\ planChange'[p].at = "end"
      BY <1>2, <2>4 DEF O!ChangeClaim, O!ChangeMoves
    <3>2. ReadTrue' /\ RowClaimed'
      <4>1. \A q \in Changes : planChange'[q].at \in {"idle", "read"} => planChange'[q] = planChange[q]
        BY <2>1, <3>1
      <4> QED  BY <3>1, <4>1 DEF ReadTrue, RowClaimed
    <3>3. SentPending' /\ ConfirmTrue'
      BY <1>0, <2>1, <2>2, <2>3, <3>1 DEF SentPending, ConfirmTrue
    <3> QED  BY <1>0, <2>3, <3>1, <3>2, <3>3
             DEF OnePending, PendingChange, O!ChangePending, ExpectedPlan, CancelHeld,
             O!ChargeExpected
  <2>5. CASE O!Unchanged(p) /\ O!IndexFree
    <3>1. /\ subscription' = [subscription EXCEPT !.version = @ + 1]
          /\ changeState' = [changeState EXCEPT ![p] = "UNKNOWN"] /\ planChange'[p].at = "sent"
      BY <1>2, <2>5 DEF O!ChangeClaim, O!ChangeMoves
    <3>2. /\ subscription'.plan = subscription.plan /\ subscription'.active = subscription.active
          /\ subscription'.version > subscription.version
      BY <3>1
    <3>3. changeState'[p] = "UNKNOWN"  BY <3>1
    <3>4. \A q \in Changes : changeState[q] \notin O!PendingStates
      BY <2>5 DEF O!IndexFree, O!ChangePending
    <3>5. OnePending'
      BY <1>0, <2>1, <2>5, <3>4 DEF OnePending, PendingChange, O!IndexFree
    <3>6. ReadTrue' /\ RowClaimed'  BY <2>1, <2>2, <3>1, <3>2 DEF ReadTrue, RowClaimed
    <3>7. expected = subscription.plan /\ (remote.cancelled \/ remote.plan = expected)
      BY <3>4 DEF ExpectedPlan, O!ChargeExpected, O!PendingStates
    <3>8. subscription.active /\ subscription.plan # Target[p]
      BY <2>2, <2>5 DEF O!Unchanged, ReadTrue
    <3>9. \A q \in Changes : planChange[q].at # "sent"  BY <3>4 DEF SentPending, O!PendingStates
    <3>10. SentPending'
      BY <1>0, <2>1, <2>3, <3>2, <3>3, <3>7, <3>8, <3>9 DEF SentPending
    <3>11. ConfirmTrue'  BY <1>0, <2>1, <2>2, <2>3 DEF ConfirmTrue
    <3>12. ExpectedPlan'
      BY <1>0, <2>1, <3>2, <3>3, <3>7, <3>4 DEF ExpectedPlan, O!PendingStates
    <3>13. CancelHeld'  BY <1>0, <3>2 DEF CancelHeld
    <3>14. O!ChargeExpected'  BY <3>3 DEF O!ChargeExpected
    <3> QED  BY <3>5, <3>6, <3>10, <3>11, <3>12, <3>13, <3>14
  <2> QED  BY <2>4, <2>5
<1>3. CASE O!ChangeReceived(p)
  <2>1. UNCHANGED <<subscription, expected, cancelRow, changeState, cancel, confirming>>
        /\ remote' = [remote EXCEPT !.plan = Target[p]] /\ ~remote.cancelled
    BY <1>3 DEF O!ChangeReceived
  <2>2. \A q \in Changes \ {p} : planChange'[q] = planChange[q]  BY <1>3 DEF O!ChangeReceived,
                                                                             O!ChangeMoves
  <2>3. planChange[p].at = "sent" /\ planChange'[p].at = "received"  BY <1>3
                                                                        DEF O!ChangeReceived,
                                                                        O!ChangeMoves
  <2>4. changeState[p] = "UNKNOWN"  BY <2>3 DEF SentPending
  <2>5. \A q \in Changes \ {p} : changeState[q] # "UNKNOWN" /\ planChange[q].at # "sent"
    BY <2>4 DEF OnePending, PendingChange, O!PendingStates, SentPending
  <2>6. p \notin confirming  BY <2>3 DEF ConfirmTrue
  <2>7. SentPending'  BY <2>1, <2>2, <2>3, <2>4, <2>5 DEF SentPending
  <2>8. ReadTrue' /\ RowClaimed'
    <3>1. \A q \in Changes : planChange'[q].at \in {"idle", "read"} => planChange'[q] = planChange[q]
      BY <2>2, <2>3
    <3> QED  BY <2>1, <3>1 DEF ReadTrue, RowClaimed
  <2>9. ConfirmTrue'  BY <2>1, <2>2, <2>5, <2>6 DEF ConfirmTrue
  <2>10. O!ChargeExpected'  BY <2>1, <2>3, <2>4 DEF O!ChargeExpected
  <2> QED  BY <2>1, <2>7, <2>8, <2>9, <2>10
           DEF OnePending, PendingChange, O!ChangePending, ExpectedPlan, CancelHeld
<1>4. CASE O!ChangeRefused(p)
  <2>1. UNCHANGED <<subscription, expected, cancelRow, cancel, confirming, remote>>
    BY <1>4 DEF O!ChangeRefused
  <2>2. \A q \in Changes \ {p} : planChange'[q] = planChange[q] /\ changeState'[q] = changeState[q]
    BY <1>4 DEF O!ChangeRefused, O!ChangeMoves
  <2>3. planChange[p].at = "sent" /\ planChange'[p].at = "end"  BY <1>4 DEF O!ChangeRefused,
                                                                            O!ChangeMoves
  <2>4. changeState[p] = "UNKNOWN" /\ changeState'[p] = "FAILED"
    BY <1>4, <2>3 DEF O!ChangeRefused, SentPending
  <2>5. OnePending'
    BY <2>1, <2>2, <2>4 DEF OnePending, PendingChange, O!ChangePending, O!PendingStates
  <2>6. ReadTrue' /\ RowClaimed'  BY <2>1, <2>2, <2>3 DEF ReadTrue, RowClaimed
  <2>9. SentPending'  BY <2>1, <2>2, <2>3 DEF SentPending
  <2>10. ConfirmTrue'  BY <2>1, <2>2, <2>3, <2>4 DEF ConfirmTrue
  <2>7. ExpectedPlan'
    BY <2>1, <2>2, <2>4 DEF ExpectedPlan
  <2>8. O!ChargeExpected'  BY <2>1, <2>3 DEF SentPending, O!ChargeExpected
  <2> QED  BY <2>1, <2>5, <2>6, <2>7, <2>8, <2>9, <2>10 DEF CancelHeld
<1>5. CASE O!ChangeLost(p)
  <2>1. UNCHANGED <<subscription, expected, cancelRow, changeState, cancel, confirming, remote>>
    BY <1>5 DEF O!ChangeLost
  <2>2. \A q \in Changes : planChange'[q].at \in {"sent", "read", "idle"} => planChange'[q] = planChange[q]
    BY <1>5 DEF O!ChangeLost, O!ChangeMoves
  <2>3. \A q \in Changes : planChange[q].at \in {"received", "end"} => planChange'[q].at = planChange[q].at
    BY <1>5 DEF O!ChangeLost, O!ChangeMoves
  <2> QED  BY <2>1, <2>2, <2>3
           DEF OnePending, PendingChange, O!ChangePending, ReadTrue, RowClaimed, SentPending,
           ConfirmTrue,
               ExpectedPlan, CancelHeld, O!ChargeExpected
<1> QED  BY <1>1, <1>2, <1>3, <1>4, <1>5

-----------------------------------------------------------------------------
(* The confirmation and the renewal preserve the invariant.                   *)
LEMMA ConfirmPreserves ==
  ASSUME MutationsInv, NEW p \in Changes, O!ConfirmRead(p) \/ O!Confirm(p)
  PROVE  OnePending' /\ ReadTrue' /\ RowClaimed' /\ SentPending' /\ ConfirmTrue' /\ ExpectedPlan'
         /\ CancelHeld' /\ O!ChargeExpected'
<1> USE DEF MutationsInv, O!TypeOK
<1>0. UNCHANGED <<subscription, cancelRow, cancel, planChange, remote>>
  BY DEF O!ConfirmRead, O!Confirm
<1>1. CASE O!ConfirmRead(p)
  <2>1. UNCHANGED <<expected, changeState>> /\ confirming' = confirming \cup {p}
        /\ ~remote.cancelled /\ remote.plan = Target[p] /\ changeState[p] = "UNKNOWN"
    BY <1>1 DEF O!ConfirmRead, O!TermsAgree
  <2>2. planChange[p].at \in {"received", "end"}
    <3>1. planChange[p].at \notin {"idle", "read"}  BY <2>1 DEF RowClaimed
    <3>2. planChange[p].at # "sent"  BY <2>1 DEF SentPending
    <3> QED  BY <3>1, <3>2
  <2>3. ConfirmTrue'  BY <1>0, <2>1, <2>2 DEF ConfirmTrue
  <2> QED  BY <1>0, <2>1, <2>3
           DEF OnePending, PendingChange, O!ChangePending, ReadTrue, RowClaimed, SentPending,
           ExpectedPlan,
               CancelHeld, O!ChargeExpected
<1>2. CASE O!Confirm(p)
  <2>1. p \in confirming /\ confirming' \subseteq confirming  BY <1>2 DEF O!Confirm
  <2>2. CASE changeState[p] # "UNKNOWN"
    <3>1. UNCHANGED <<expected, changeState>>  BY <1>2, <2>2 DEF O!Confirm
    <3> QED  BY <1>0, <2>1, <3>1
             DEF OnePending, PendingChange, O!ChangePending, ReadTrue, RowClaimed, SentPending,
                 ConfirmTrue, ExpectedPlan, CancelHeld, O!ChargeExpected
  <2>3. CASE changeState[p] = "UNKNOWN"
    <3>1. expected' = Target[p] /\ changeState' = [changeState EXCEPT ![p] = "PROCESSING"]
      BY <1>2, <2>3 DEF O!Confirm
    <3>2. \A q \in Changes \ {p} : changeState'[q] = changeState[q] /\ changeState[q] \notin O!PendingStates
      BY <2>3, <3>1 DEF OnePending, PendingChange, O!PendingStates
    <3>3. changeState'[p] = "PROCESSING"  BY <3>1
    <3>4. \A q \in Changes : planChange[q].at # "sent"
      BY <2>1, <3>2 DEF SentPending, ConfirmTrue, O!PendingStates
    <3>5. remote.cancelled \/ remote.plan = Target[p]  BY <2>1, <2>3 DEF ConfirmTrue
    <3>6. OnePending'
      BY <1>0, <2>3, <3>2, <3>3 DEF OnePending, PendingChange, O!ChangePending, O!PendingStates
    <3>7. SentPending' /\ ReadTrue' /\ CancelHeld'
      BY <1>0, <3>4 DEF SentPending, ReadTrue, CancelHeld
    <3>11. RowClaimed'  BY <1>0, <2>3, <3>2 DEF RowClaimed
    <3>8. ConfirmTrue'  BY <1>0, <2>1, <3>2, <3>3 DEF ConfirmTrue
    <3>9. ExpectedPlan'  BY <3>1, <3>2, <3>3 DEF ExpectedPlan, O!PendingStates
    <3>10. O!ChargeExpected'  BY <1>0, <3>1, <3>5 DEF O!ChargeExpected
    <3> QED  BY <3>6, <3>7, <3>8, <3>9, <3>10, <3>11
  <2> QED  BY <2>2, <2>3
<1> QED  BY <1>1, <1>2

(* A renewal writes the subscription only while no change is pending, so that *)
(* what a change has read of it still holds or is refused by its version.     *)
LEMMA RenewalPreserves ==
  ASSUME MutationsInv, O!Renewal
  PROVE  OnePending' /\ ReadTrue' /\ RowClaimed' /\ SentPending' /\ ConfirmTrue' /\ ExpectedPlan'
         /\ CancelHeld' /\ O!ChargeExpected'
<1> USE DEF MutationsInv, O!TypeOK
<1>1. UNCHANGED <<expected, cancelRow, cancel, planChange, confirming, remote>>
  BY DEF O!Renewal, O!requestVars
<1>2. /\ subscription'.version = subscription.version + 1 /\ subscription'.active = subscription.active
      /\ subscription'.plan = expected
  <2>1. subscription' = [active |-> subscription.active, plan |-> expected,
                         version |-> subscription.version + 1]
    BY DEF O!Renewal
  <2> QED  BY <2>1
<1>3. \A p \in Changes :
        IF changeState[p] = "PROCESSING" THEN changeState'[p] = "SUCCEEDED"
                                         ELSE changeState'[p] = changeState[p]
  BY DEF O!Renewal, ExpectedPlan
<1>4. OnePending'  BY <1>1, <1>3 DEF OnePending, PendingChange, O!ChangePending, O!PendingStates
<1>5. ReadTrue'
  <2> SUFFICES ASSUME NEW p \in Changes, planChange'[p].at = "read"
               PROVE  /\ planChange'[p].version <= subscription'.version
                      /\ planChange'[p].version # subscription'.version
    BY DEF ReadTrue
  <2>1. planChange[p].version <= subscription.version  BY <1>1 DEF ReadTrue
  <2>2. planChange'[p] = planChange[p] /\ planChange[p].version \in Nat /\ subscription.version \in Nat  BY <1>1
  <2>3. subscription'.version = subscription.version + 1  BY <1>2
  <2> QED  BY <2>1, <2>2, <2>3
<1>6. RowClaimed' /\ SentPending' /\ ConfirmTrue'
  BY <1>1, <1>2, <1>3 DEF RowClaimed, SentPending, ConfirmTrue
<1>7. ExpectedPlan' /\ CancelHeld' /\ O!ChargeExpected'
  BY <1>1, <1>2, <1>3 DEF ExpectedPlan, CancelHeld, O!ChargeExpected
<1> QED  BY <1>4, <1>5, <1>6, <1>7

(* A lease that runs out changes nobody's place: the row stays pending, to be *)
(* reconciled.                                                                *)
LEMMA LeasePreserves ==
  ASSUME MutationsInv, O!LeaseExpires \/ UNCHANGED O!opsVars
  PROVE  OnePending' /\ ReadTrue' /\ RowClaimed' /\ SentPending' /\ ConfirmTrue' /\ ExpectedPlan'
         /\ CancelHeld' /\ O!ChargeExpected'
<1> USE DEF MutationsInv, O!TypeOK
<1>1. UNCHANGED <<subscription, expected, changeState, cancel, planChange, confirming, remote>>
      /\ cancelRow'.state = cancelRow.state
  BY DEF O!LeaseExpires, O!opsVars, O!requestVars
<1>2. OnePending' /\ ReadTrue' /\ RowClaimed'
  BY <1>1 DEF OnePending, PendingChange, O!ChangePending, ReadTrue, RowClaimed
<1>3. SentPending' /\ ConfirmTrue' /\ ExpectedPlan' /\ CancelHeld' /\ O!ChargeExpected'
  BY <1>1 DEF SentPending, ConfirmTrue, ExpectedPlan, CancelHeld, O!ChargeExpected
<1> QED  BY <1>2, <1>3

-----------------------------------------------------------------------------
(* Type correctness, and the order in which the gateway is changed. *)
THEOREM SubscriptionOpsInvariant == O!Spec => []MutationsInv
<1>1. MutationsInv /\ [O!Next]_(O!opsVars) => MutationsInv'
  <2> SUFFICES ASSUME MutationsInv, [O!Next]_(O!opsVars) PROVE MutationsInv'  OBVIOUS
  <2>1. O!TypeOK'  BY MutationsTypes DEF MutationsInv
  <2>2. OnePending' /\ ReadTrue' /\ RowClaimed' /\ SentPending' /\ ConfirmTrue' /\ ExpectedPlan'
        /\ CancelHeld' /\ O!ChargeExpected'
    BY CancelPreserves, ChangePreserves, ConfirmPreserves, RenewalPreserves, LeasePreserves
       DEF O!Next
  <2> QED  BY <2>1, <2>2 DEF MutationsInv
<1> QED  BY <1>1, MutationsInit, PTL DEF O!Spec

(* A cancellation and a plan change are never both on their way, and the      *)
(* checkout expects what the gateway will charge (the pending checks, the     *)
(* unique index and the confirmation from the gateway's terms).               *)
THEOREM MutationsApartHolds == O!Spec => []MutationsApart
<1>1. MutationsInv => MutationsApart
  <2> SUFFICES ASSUME MutationsInv
               PROVE  O!NeverBoth  BY DEF MutationsApart, O!MutationsApart, MutationsInv
  <2> SUFFICES ASSUME NEW c \in Cancels, cancel[c].at \in {"sent", "lost"},
                      NEW p \in Changes, planChange[p].at = "sent"
               PROVE  FALSE
    BY DEF O!NeverBoth
  <2>1. PendingChange(p) /\ subscription.active
    BY DEF MutationsInv, SentPending, PendingChange, O!PendingStates
  <2>2. cancelRow.state \in O!PendingStates  BY <2>1 DEF MutationsInv, CancelHeld
  <2> QED  BY <2>1, <2>2 DEF MutationsInv, OnePending, O!ChangePending, PendingChange
<1> QED  BY <1>1, SubscriptionOpsInvariant, PTL

-----------------------------------------------------------------------------
(* WebhookInbox: an event is settled once.                                    *)

(* Only a payment has deliveries that asked the gateway for it or settled it.    *)
OnlyPayments ==
  event.kind # "payment" =>
    settled = {} /\ \A d \in Deliveries : delivery[d] \notin {"fetched", "owned"}

(* One delivery at most has settled the event, and then the event is finished.   *)
FinishedBySettling ==
  /\ settled = {} \/ \E d \in Deliveries : settled = {d}
  /\ event.kind = "payment" => (event.state \in W!Finished <=> settled # {})

WebhookInv == W!TypeOK /\ OnlyPayments /\ FinishedBySettling

(* No event is stored and nobody has settled one.                             *)
LEMMA WebhookInit == W!Init => WebhookInv
  BY DEF W!Init, WebhookInv, W!TypeOK, OnlyPayments, FinishedBySettling, W!Finished, W!Open,
         W!Kinds

(* Closing the row changes nothing but its state and its lease.                  *)
LEMMA FinishType ==
  ASSUME W!TypeOK, NEW d \in Deliveries, NEW state \in W!Open \cup W!Finished,
         W!Finish(d, state)

  PROVE  /\ event' \in [kind : W!Kinds, state : {"none", "PROCESSING"} \cup W!Open \cup W!Finished,
                        token : Deliveries \cup {Nobody}, lease : BOOLEAN]
         /\ event'.kind = event.kind
         /\ W!Holds(d) => event.state = "PROCESSING" /\ event'.state = state
         /\ ~W!Holds(d) => event' = event
<1>1. [event EXCEPT !.state = state, !.lease = FALSE]
        \in [kind : W!Kinds, state : {"none", "PROCESSING"} \cup W!Open \cup W!Finished,
             token : Deliveries \cup {Nobody}, lease : BOOLEAN]
  BY DEF W!TypeOK
<1> QED  BY <1>1 DEF W!TypeOK, W!Finish, W!Holds

(* What a step of a delivery leaves of the types.                             *)
LEMMA MovesType ==
  ASSUME W!TypeOK, NEW d \in Deliveries, NEW from, 
         NEW there \in {"sent", "stored", "claimed", "fetched", "owned", "answered", "failed", "lost"},
         W!Moves(d, from, there)
  PROVE  /\ delivery' \in [Deliveries -> {"sent", "stored", "claimed", "fetched", "owned",
                                          "answered", "failed", "lost"}]
         /\ delivery[d] = from /\ delivery'[d] = there
         /\ \A c \in Deliveries \ {d} : delivery'[c] = delivery[c]
BY DEF W!TypeOK, W!Moves

(* Whoever settles an event finishes it in the same transaction, and a        *)
(* finished event is neither claimed nor settled again (claim, finish).       *)
LEMMA WebhookStep == WebhookInv /\ [W!Next]_(W!webhookVars) => WebhookInv'
<1> SUFFICES ASSUME WebhookInv, [W!Next]_(W!webhookVars) PROVE WebhookInv'  OBVIOUS
<1>0. W!TypeOK /\ OnlyPayments /\ FinishedBySettling  BY DEF WebhookInv
<1> USE DEF WebhookInv, OnlyPayments, FinishedBySettling
<1> DEFINE Phases == {"sent", "stored", "claimed", "fetched", "owned", "answered", "failed", "lost"}
<1>1. ASSUME NEW d \in Deliveries, W!Persist(d) PROVE WebhookInv'
  BY <1>0, <1>1, MovesType DEF W!Persist, W!TypeOK, W!Open, W!Finished
<1>2. ASSUME NEW d \in Deliveries, W!Claim(d) PROVE WebhookInv'
  <2>1. CASE W!Claimable /\ W!Moves(d, "stored", "claimed")
             /\ event' = [event EXCEPT !.state = "PROCESSING", !.token = d, !.lease = TRUE]
    BY <1>0, <1>2, <2>1, MovesType DEF W!Claim, W!Claimable, W!TypeOK, W!Open, W!Finished
  <2>2. CASE W!Moves(d, "stored", "answered") /\ event' = event
    BY <1>0, <1>2, <2>2, MovesType DEF W!Claim, W!TypeOK
  <2> QED  BY <1>2, <2>1, <2>2 DEF W!Claim
<1>3. ASSUME NEW d \in Deliveries, W!Dispatch(d) PROVE WebhookInv'
  <2>1. settled' = settled  BY <1>3 DEF W!Dispatch
  <2>2. CASE event.kind = "payment" /\ W!Moves(d, "claimed", "fetched") /\ event' = event
    BY <1>0, <2>1, <2>2, MovesType DEF W!TypeOK
  <2>3. CASE event.kind # "payment"
    <3>1. PICK there \in {"answered", "failed"}, state \in W!Open \cup W!Finished :
            W!Moves(d, "claimed", there) /\ W!Finish(d, state)
      BY <1>3, <2>3 DEF W!Dispatch, W!Open, W!Finished
    <3> QED  BY <1>0, <2>1, <2>3, <3>1, MovesType, FinishType DEF W!TypeOK
  <2>4. CASE event.kind = "payment" /\ W!Moves(d, "claimed", "failed") /\ W!Finish(d, "FAILED_RETRYABLE")
    <3>1. "FAILED_RETRYABLE" \in W!Open \cup W!Finished /\ "FAILED_RETRYABLE" \notin W!Finished
          /\ "PROCESSING" \notin W!Finished
      BY DEF W!Open, W!Finished
    <3> QED  BY <1>0, <2>1, <2>4, <3>1, MovesType, FinishType DEF W!TypeOK
  <2> QED  BY <1>3, <2>2, <2>3, <2>4 DEF W!Dispatch
<1>4. ASSUME NEW d \in Deliveries, W!ReadClaim(d) PROVE WebhookInv'
  <2>1. PICK there \in {"owned", "answered"} : W!Moves(d, "fetched", there)
    BY <1>4 DEF W!ReadClaim
  <2>2. event' = event /\ settled' = settled  BY <1>4 DEF W!ReadClaim
  <2> QED  BY <1>0, <2>1, <2>2, MovesType DEF W!TypeOK
<1>5. ASSUME NEW d \in Deliveries, W!Settle(d) PROVE WebhookInv'
  <2>1. PICK there \in {"answered", "failed"} : W!Moves(d, "owned", there)  BY <1>5 DEF W!Settle
  <2>2. event.kind = "payment"  BY <1>0, <2>1, MovesType
  <2>3. CASE W!StillHeld(d) /\ settled' = settled \cup {d}
             /\ \E state \in {"PROCESSED", "IGNORED"} : W!Finish(d, state)
    <3>1. PICK state \in {"PROCESSED", "IGNORED"} : W!Finish(d, state)  BY <2>3
    <3>2. event.state = "PROCESSING"  BY <2>3 DEF W!StillHeld, W!Holds
    <3>3. settled = {}  BY <1>0, <2>2, <3>2 DEF W!Finished
    <3>4. event'.state = state /\ state \in W!Finished /\ event'.kind = event.kind
      BY <1>0, <2>3, <3>1, FinishType DEF W!StillHeld, W!Finished
    <3> QED  BY <1>0, <2>1, <2>2, <2>3, <3>1, <3>3, <3>4, MovesType, FinishType DEF W!TypeOK,
                                                                                    W!Finished
  <2>4. CASE W!Finish(d, "FAILED_RETRYABLE") /\ settled' = settled
    <3>1. "FAILED_RETRYABLE" \in W!Open \cup W!Finished /\ "FAILED_RETRYABLE" \notin W!Finished
          /\ "PROCESSING" \notin W!Finished
      BY DEF W!Open, W!Finished
    <3> QED  BY <1>0, <2>1, <2>2, <2>4, <3>1, MovesType, FinishType DEF W!TypeOK
  <2> QED  BY <1>5, <2>3, <2>4 DEF W!Settle
<1>6. ASSUME NEW d \in Deliveries, W!Crash(d) PROVE WebhookInv'
  <2>1. PICK here \in {"stored", "claimed", "fetched", "owned"} : W!Moves(d, here, "lost")
    BY <1>6 DEF W!Crash
  <2>2. event' = event /\ settled' = settled  BY <1>6 DEF W!Crash
  <2> QED  BY <1>0, <2>1, <2>2, MovesType DEF W!TypeOK
<1>7. CASE W!LeaseExpires  BY <1>0, <1>7 DEF W!LeaseExpires, W!TypeOK
<1>8. CASE UNCHANGED W!webhookVars  BY <1>0, <1>8 DEF W!webhookVars, W!TypeOK
<1> QED  BY <1>1, <1>2, <1>3, <1>4, <1>5, <1>6, <1>7, <1>8 DEF W!Next

(* SettledOnce: the effects of a payment event are applied once, whichever of *)
(* its redeliveries, its lease's takers and the reconciler come to it (the    *)
(* inbox).                                                                    *)
THEOREM SettledOnceHolds == W!Spec => []SettledOnce
<1>1. WebhookInv => SettledOnce
  <2> SUFFICES ASSUME WebhookInv PROVE W!SettledOnce  BY DEF SettledOnce
  <2> SUFFICES Cardinality(settled) <= 1
    BY Zenon DEF W!SettledOnce, WebhookInv, FinishedBySettling, W!Cardinality, Cardinality
  <2>1. CASE settled = {}  BY <2>1, FS_EmptySet
  <2>2. ASSUME NEW d \in Deliveries, settled = {d} PROVE Cardinality(settled) <= 1
    BY <2>2, FS_Singleton
  <2> QED  BY <2>1, <2>2 DEF WebhookInv, FinishedBySettling
<1> QED  BY <1>1, WebhookInit, WebhookStep, PTL DEF W!Spec

-----------------------------------------------------------------------------
(* Refunds: one refund of a charge.                                           *)

RefundSteps == {"start", "approved", "other", "create", "duplicate", "reconcile", "distrust",
                "reclaim", "fence", "claimed", "processing", "accepted", "FAILED_FINAL",
                "UNKNOWN", "verify", "SUCCEEDED", "settle", "done"}
RefundStates == {"none", "CLAIMED", "PROCESSING", "UNKNOWN", "FAILED_RETRYABLE", "SUCCEEDED",
                 "FAILED_FINAL"}
RefundTypeOK ==
  /\ refundIntent \in [state : RefundStates, token : Refunders \cup {Earlier}, live : BOOLEAN]
  /\ refunding \in [Refunders -> [at : RefundSteps, seen : Refunders \cup {Earlier}]]
  /\ charge \in {"APPROVED", "REFUNDED"}
  /\ sent.by \subseteq Refunders \cup {Earlier} /\ sent.applied \in BOOLEAN

(* From the claim that it moves to PROCESSING on, a request may have sent the    *)
(* refund, or be about to.                                                       *)
Sending(r) ==
  refunding[r].at \in {"processing", "accepted", "FAILED_FINAL", "UNKNOWN", "verify", "SUCCEEDED"}

(* Until the row is PROCESSING nobody sends, and then it is never claimed again. *)
ClaimedOnce ==
  /\ refundIntent.state \in {"none", "CLAIMED"} =>
       sent.by = {} /\ ~sent.applied /\ \A r \in Refunders : ~Sending(r)
  /\ \A r, q \in Refunders : Sending(r) /\ Sending(q) => r = q
  /\ \A r \in Refunders : Sending(r) => sent.by \subseteq {r}
  /\ \A r \in Refunders :
       refunding[r].at = "processing" => sent.by = {} /\ ~sent.applied
  /\ sent.by = {} \/ \E r \in Refunders \cup {Earlier} : sent.by = {r}

(* What a request is about to write down is so at the gateway.                   *)
VerdictTrue ==
  /\ refundIntent.state = "SUCCEEDED" => charge = "REFUNDED"
  /\ refundIntent.state = "FAILED_FINAL" =>
       ~sent.applied /\ \A r \in Refunders : refunding[r].at # "processing"
  /\ \A r \in Refunders :
       /\ refunding[r].at \in {"SUCCEEDED", "settle"} => charge = "REFUNDED"
       /\ refunding[r].at = "FAILED_FINAL" => ~sent.applied

RefundInv == RefundTypeOK /\ ClaimedOnce /\ VerdictTrue

(* Nothing is claimed and nothing sent, or an earlier process has left its    *)
(* claim.                                                                     *)
LEMMA RefundInit == M!Init => RefundInv
<1> SUFFICES ASSUME M!Init PROVE RefundInv  OBVIOUS
<1>1. /\ refundIntent \in [state : RefundStates, token : Refunders \cup {Earlier}, live : BOOLEAN]
      /\ refundIntent.state \in {"none", "FAILED_RETRYABLE"}
  <2> DEFINE Rows == [state : RefundStates, token : Refunders \cup {Earlier}, live : BOOLEAN]
  <2>1. M!NoRefund \in Rows /\ M!NoRefund.state = "none"  BY DEF M!NoRefund, RefundStates
  <2>2. /\ [M!NoRefund EXCEPT !.state = "FAILED_RETRYABLE"] \in Rows
        /\ [M!NoRefund EXCEPT !.state = "FAILED_RETRYABLE"].state = "FAILED_RETRYABLE"
    BY <2>1 DEF RefundStates
  <2>3. refundIntent \in {M!NoRefund, [M!NoRefund EXCEPT !.state = "FAILED_RETRYABLE"]}
    BY Zenon DEF M!Init
  <2> HIDE DEF Rows
  <2>4. refundIntent \in Rows /\ refundIntent.state \in {"none", "FAILED_RETRYABLE"}
    BY <2>1, <2>2, <2>3
  <2> QED  BY <2>4 DEF Rows
<1>2. sent.by \in {{}, {Earlier}} /\ sent.applied = FALSE  BY DEF M!Init
<1>3. refundIntent.state = "none" => sent.by = {}
  <2>1. sent.by # {} <=> refundIntent.state = "FAILED_RETRYABLE"  BY Zenon DEF M!Init
  <2> QED  BY <2>1
<1>4. \A r \in Refunders : refunding[r].at = "start"  BY DEF M!Init
<1>5. refunding \in [Refunders -> [at : RefundSteps, seen : Refunders \cup {Earlier}]]
  BY DEF M!Init, RefundSteps
<1>6. charge = "APPROVED"  BY DEF M!Init
<1> QED  BY <1>1, <1>2, <1>3, <1>4, <1>5, <1>6
         DEF RefundInv, RefundTypeOK, ClaimedOnce, VerdictTrue, Sending
(* Going on changes where one request stands.                                    *)
LEMMA GoesOn ==
  ASSUME RefundTypeOK, NEW r \in Refunders, NEW there \in RefundSteps, M!Go(r, there)
  PROVE  /\ refunding' \in [Refunders -> [at : RefundSteps, seen : Refunders \cup {Earlier}]]
         /\ refunding'[r].at = there
         /\ \A q \in Refunders \ {r} : refunding'[q] = refunding[q]
BY DEF RefundTypeOK, M!Go

(* The row as it is rewritten.                                                   *)
LEMMA Rewritten ==
  ASSUME RefundTypeOK, NEW state \in RefundStates
  PROVE  /\ [refundIntent EXCEPT !.state = state]
              \in [state : RefundStates, token : Refunders \cup {Earlier}, live : BOOLEAN]
         /\ [refundIntent EXCEPT !.state = state].state = state
BY DEF RefundTypeOK

(* A step that neither sends nor writes the row keeps the invariant, if it takes *)
(* no request to where it would send or write.                                   *)
LEMMA QuietStep ==
  ASSUME RefundInv, NEW r \in Refunders, NEW there \in RefundSteps,
         M!Go(r, there), UNCHANGED sent, charge' = charge,
         \/ refundIntent' = refundIntent
         \/ \E state \in {"UNKNOWN"} :
              /\ refundIntent.state \in {"FAILED_RETRYABLE", "PROCESSING"}
              /\ refundIntent' = [refundIntent EXCEPT !.state = state],
         \/ there \in RefundSteps \ {"processing", "accepted", "FAILED_FINAL", "UNKNOWN", "verify",
                                     "SUCCEEDED", "settle"}
         \/ Sending(r) /\ there \in {"verify", "UNKNOWN"}
         \/ charge = "REFUNDED" /\ (there = "settle" \/ (there = "SUCCEEDED" /\ Sending(r)))
  PROVE  RefundInv'
<1>0. RefundTypeOK /\ ClaimedOnce /\ VerdictTrue  BY DEF RefundInv
<1>1. /\ refunding' \in [Refunders -> [at : RefundSteps, seen : Refunders \cup {Earlier}]]
      /\ refunding'[r].at = there
      /\ \A q \in Refunders \ {r} : refunding'[q] = refunding[q]
  BY <1>0, GoesOn
<1>2. /\ refundIntent' \in [state : RefundStates, token : Refunders \cup {Earlier}, live : BOOLEAN]
      /\ refundIntent'.state = refundIntent.state
         \/ (refundIntent'.state = "UNKNOWN" /\ refundIntent.state \notin {"none", "CLAIMED"})
  BY <1>0, Rewritten DEF RefundTypeOK, RefundStates
<1>3. RefundTypeOK'  BY <1>0, <1>1, <1>2 DEF RefundTypeOK
<1>4. there = "processing" => FALSE  OBVIOUS
<1>5. \A q \in Refunders : Sending(q)' => Sending(q)
  BY <1>1 DEF Sending
<1>6. ClaimedOnce'  BY <1>0, <1>1, <1>2, <1>4, <1>5 DEF ClaimedOnce
<1>7. VerdictTrue'  BY <1>0, <1>1, <1>2, <1>4 DEF VerdictTrue
<1> QED  BY <1>3, <1>6, <1>7 DEF RefundInv

(* Each request moves the row that still bears its token, and reads it before *)
(* it decides; the refund is sent from PROCESSING, which no claim accepts     *)
(* (claim, reconcile, settle).                                                *)
LEMMA RefundStep == RefundInv /\ [M!Next]_(M!refundVars) => RefundInv'
<1> SUFFICES ASSUME RefundInv, [M!Next]_(M!refundVars) PROVE RefundInv'  OBVIOUS
<1>0. RefundTypeOK /\ ClaimedOnce /\ VerdictTrue  BY DEF RefundInv
<1>a. ASSUME NEW r \in Refunders, M!Ask(r) PROVE RefundInv'
  <2>1. PICK there \in {"approved", "other"} : M!Go(r, there)  BY <1>a DEF M!Ask
  <2> QED  BY <1>a, <2>1, QuietStep DEF M!Ask, RefundSteps
<1>b. ASSUME NEW r \in Refunders, M!FindIntent(r) PROVE RefundInv'
  <2>1. PICK there \in {"create", "reconcile", "distrust", "reclaim", "fence", "done"} :
          refunding' = [refunding EXCEPT ![r] = [seen |-> refundIntent.token, at |-> there]]
    BY <1>b DEF M!FindIntent
  <2>2. /\ refunding' \in [Refunders -> [at : RefundSteps, seen : Refunders \cup {Earlier}]]
        /\ refunding'[r].at = there
        /\ \A q \in Refunders \ {r} : refunding'[q] = refunding[q]
    BY <1>0, <2>1 DEF RefundTypeOK, RefundSteps
  <2>3. UNCHANGED <<refundIntent, charge, ledger, sent>>  BY <1>b DEF M!FindIntent
  <2>4. \A q \in Refunders : Sending(q)' => Sending(q)  BY <2>2 DEF Sending
  <2> QED  BY <1>0, <2>2, <2>3, <2>4 DEF RefundInv, RefundTypeOK, ClaimedOnce, VerdictTrue
<1>c. ASSUME NEW r \in Refunders, M!Distrust(r) PROVE RefundInv'
  BY <1>c, QuietStep DEF M!Distrust, RefundSteps
<1>d. ASSUME NEW r \in Refunders, M!Create(r) \/ M!Reclaim(r) PROVE RefundInv'
  <2>1. CASE refundIntent.state \in {"none", "CLAIMED"} /\ refundIntent' = M!Claimed(r)
             /\ M!Go(r, "claimed")
    <3>1. /\ refundIntent' \in [state : RefundStates, token : Refunders \cup {Earlier}, live : BOOLEAN]
          /\ refundIntent'.state = "CLAIMED"
      BY <2>1 DEF M!Claimed, RefundStates
    <3>2. /\ refunding' \in [Refunders -> [at : RefundSteps, seen : Refunders \cup {Earlier}]]
          /\ refunding'[r].at = "claimed"
          /\ \A q \in Refunders \ {r} : refunding'[q] = refunding[q]
      BY <1>0, <2>1, GoesOn DEF RefundSteps
    <3>3. UNCHANGED <<charge, ledger, sent>>  BY <1>d DEF M!Create, M!Reclaim
    <3>4. \A q \in Refunders : ~Sending(q)'  BY <1>0, <2>1, <3>2 DEF ClaimedOnce, Sending
    <3> QED  BY <1>0, <2>1, <3>1, <3>2, <3>3, <3>4
             DEF RefundInv, RefundTypeOK, ClaimedOnce, VerdictTrue, Sending
  <2>2. CASE refundIntent' = refundIntent /\ \E there \in {"duplicate", "done"} : M!Go(r, there)
    <3>1. PICK there \in {"duplicate", "done"} : M!Go(r, there)  BY <2>2
    <3> QED  BY <1>d, <2>2, <3>1, QuietStep DEF M!Create, M!Reclaim, RefundSteps
  <2> QED  BY <1>d, <2>1, <2>2 DEF M!Create, M!Reclaim, M!AsSeen
<1>e. ASSUME NEW r \in Refunders, M!Duplicate(r) PROVE RefundInv'
  <2>1. PICK there \in {"reconcile", "done"} : M!Go(r, there)  BY <1>e DEF M!Duplicate
  <2> QED  BY <1>e, <2>1, QuietStep DEF M!Duplicate, RefundSteps
<1>f. ASSUME NEW r \in Refunders, M!Fence(r) PROVE RefundInv'
  <2>1. PICK there \in {"reconcile", "done"} : M!Go(r, there)  BY <1>f DEF M!Fence
  <2> QED  BY <1>f, <2>1, QuietStep DEF M!Fence, M!AsSeen, RefundSteps
<1>g. ASSUME NEW r \in Refunders, M!Process(r) PROVE RefundInv'
  <2>1. CASE refundIntent.state = "CLAIMED" /\ M!Go(r, "processing")
             /\ refundIntent' = [refundIntent EXCEPT !.state = "PROCESSING"]
    <3>1. /\ refundIntent' \in [state : RefundStates, token : Refunders \cup {Earlier}, live : BOOLEAN]
          /\ refundIntent'.state = "PROCESSING"
      BY <1>0, <2>1, Rewritten DEF RefundStates
    <3>2. /\ refunding' \in [Refunders -> [at : RefundSteps, seen : Refunders \cup {Earlier}]]
          /\ refunding'[r].at = "processing"
          /\ \A q \in Refunders \ {r} : refunding'[q] = refunding[q]
      BY <1>0, <2>1, GoesOn DEF RefundSteps
    <3>3. UNCHANGED <<charge, ledger, sent>>  BY <1>g DEF M!Process
    <3>4. \A q \in Refunders \ {r} : ~Sending(q)'  BY <1>0, <2>1, <3>2 DEF ClaimedOnce, Sending
    <3>5. sent.by = {} /\ ~sent.applied  BY <1>0, <2>1 DEF ClaimedOnce
    <3>6. ClaimedOnce'  BY <3>1, <3>2, <3>3, <3>4, <3>5 DEF ClaimedOnce, Sending
    <3>7. VerdictTrue'  BY <1>0, <3>1, <3>2, <3>3 DEF VerdictTrue
    <3> QED  BY <1>0, <3>1, <3>2, <3>3, <3>6, <3>7 DEF RefundInv, RefundTypeOK
  <2>2. CASE refundIntent' = refundIntent /\ M!Go(r, "done")
    BY <1>g, <2>2, QuietStep DEF M!Process, RefundSteps
  <2> QED  BY <1>g, <2>1, <2>2 DEF M!Process, M!Holds
<1>h. ASSUME NEW r \in Refunders, NEW applied \in BOOLEAN,
             NEW what \in {"accepted", "FAILED_FINAL", "UNKNOWN"}, M!Send(r, applied, what)
      PROVE  RefundInv'
  <2>1. /\ refunding' \in [Refunders -> [at : RefundSteps, seen : Refunders \cup {Earlier}]]
        /\ refunding'[r].at = what
        /\ \A q \in Refunders \ {r} : refunding'[q] = refunding[q]
    BY <1>0, <1>h, GoesOn DEF M!Send, RefundSteps
  <2>2. refunding[r].at = "processing"  BY <1>h DEF M!Send, M!At
  <2>3. sent.by = {} /\ ~sent.applied  BY <1>0, <2>2 DEF ClaimedOnce
  <2>4. sent'.by = {r} /\ sent'.applied = applied  BY <1>h, <2>3 DEF M!Send
  <2>5. what = "FAILED_FINAL" => ~applied  BY <1>h DEF M!Send
  <2>6. \A q \in Refunders \ {r} : ~Sending(q)  BY <1>0, <2>2 DEF ClaimedOnce, Sending
  <2>7. \A q \in Refunders \ {r} : ~Sending(q)'  BY <2>1, <2>6 DEF Sending
  <2>8. refundIntent.state \notin {"none", "CLAIMED", "FAILED_FINAL"}
    BY <1>0, <2>2 DEF ClaimedOnce, VerdictTrue, Sending
  <2>9. UNCHANGED <<refundIntent, charge, ledger>>  BY <1>h DEF M!Send
  <2>10. ClaimedOnce'  BY <2>1, <2>4, <2>7, <2>8, <2>9 DEF ClaimedOnce, Sending
  <2>11. VerdictTrue'  BY <1>0, <2>1, <2>4, <2>5, <2>7, <2>8, <2>9 DEF VerdictTrue, Sending
  <2> QED  BY <1>0, <2>1, <2>4, <2>9, <2>10, <2>11 DEF RefundInv, RefundTypeOK
<1>i. ASSUME NEW r \in Refunders, NEW numbered \in BOOLEAN, M!SaveRefund(r, numbered)
      PROVE  RefundInv'
  <2>1. PICK there \in {"done", "verify"} : M!Go(r, there)  BY <1>i DEF M!SaveRefund
  <2> QED  BY <1>i, <2>1, QuietStep DEF M!SaveRefund, M!At, RefundSteps, Sending
<1>j. ASSUME NEW r \in Refunders, M!Verify(r) PROVE RefundInv'
  <2>1. PICK there \in {"SUCCEEDED", "UNKNOWN"} :
          M!Go(r, there) /\ (there = "SUCCEEDED" => charge = "REFUNDED")
    BY <1>j DEF M!Verify
  <2> QED  BY <1>j, <2>1, QuietStep DEF M!Verify, M!At, RefundSteps, Sending
<1>k. ASSUME NEW r \in Refunders, M!Mark(r) PROVE RefundInv'
  <2>1. CASE refundIntent' = refundIntent
    BY <1>k, <2>1, QuietStep DEF M!Mark, RefundSteps
  <2>2. CASE refundIntent' = [refundIntent EXCEPT !.state = refunding[r].at]
             /\ refundIntent.state = "PROCESSING"
    <3>1. refunding[r].at \in {"SUCCEEDED", "UNKNOWN", "FAILED_FINAL"}  BY <1>k DEF M!Mark
    <3>2. /\ refundIntent' \in [state : RefundStates, token : Refunders \cup {Earlier}, live : BOOLEAN]
          /\ refundIntent'.state = refunding[r].at
      BY <1>0, <2>2, <3>1, Rewritten DEF RefundStates
    <3>3. /\ refunding' \in [Refunders -> [at : RefundSteps, seen : Refunders \cup {Earlier}]]
          /\ refunding'[r].at = "done"
          /\ \A q \in Refunders \ {r} : refunding'[q] = refunding[q]
      BY <1>0, <1>k, GoesOn DEF M!Mark, RefundSteps
    <3>4. UNCHANGED <<charge, ledger, sent>>  BY <1>k DEF M!Mark
    <3>5. \A q \in Refunders : Sending(q)' => Sending(q)  BY <3>3 DEF Sending
    <3>6. ClaimedOnce'  BY <1>0, <3>1, <3>2, <3>3, <3>4, <3>5 DEF ClaimedOnce
    <3>7. \A q \in Refunders : refunding'[q].at # "processing"
      BY <1>0, <3>1, <3>3 DEF ClaimedOnce, Sending
    <3>8. VerdictTrue'  BY <1>0, <3>1, <3>2, <3>3, <3>4, <3>7 DEF VerdictTrue
    <3> QED  BY <1>0, <3>2, <3>3, <3>4, <3>6, <3>8 DEF RefundInv, RefundTypeOK
  <2> QED  BY <1>k, <2>1, <2>2 DEF M!Mark, M!Holds
<1>l. ASSUME NEW r \in Refunders, M!Reconcile(r) PROVE RefundInv'
  BY <1>l, QuietStep DEF M!Reconcile, RefundSteps
<1>m. ASSUME NEW r \in Refunders, M!Settle(r) PROVE RefundInv'
  <2>1. CASE refundIntent' = refundIntent
    BY <1>m, <2>1, QuietStep DEF M!Settle, RefundSteps
  <2>2. CASE refundIntent' = [refundIntent EXCEPT !.state = "SUCCEEDED"]
             /\ refundIntent.state = "UNKNOWN"
    <3>1. charge = "REFUNDED"  BY <1>0, <1>m DEF M!Settle, M!At, VerdictTrue
    <3>2. /\ refundIntent' \in [state : RefundStates, token : Refunders \cup {Earlier}, live : BOOLEAN]
          /\ refundIntent'.state = "SUCCEEDED"
      BY <1>0, <2>2, Rewritten DEF RefundStates
    <3>3. /\ refunding' \in [Refunders -> [at : RefundSteps, seen : Refunders \cup {Earlier}]]
          /\ refunding'[r].at = "done"
          /\ \A q \in Refunders \ {r} : refunding'[q] = refunding[q]
      BY <1>0, <1>m, GoesOn DEF M!Settle, RefundSteps
    <3>4. UNCHANGED <<charge, ledger, sent>>  BY <1>m DEF M!Settle
    <3>5. \A q \in Refunders : Sending(q)' => Sending(q)  BY <3>3 DEF Sending
    <3>6. ClaimedOnce'  BY <1>0, <3>2, <3>3, <3>4, <3>5 DEF ClaimedOnce
    <3>7. VerdictTrue'  BY <1>0, <3>1, <3>2, <3>3, <3>4 DEF VerdictTrue
    <3> QED  BY <1>0, <3>2, <3>3, <3>4, <3>6, <3>7 DEF RefundInv, RefundTypeOK
  <2> QED  BY <1>m, <2>1, <2>2 DEF M!Settle
<1>n. ASSUME NEW r \in Refunders, M!Crash(r) PROVE RefundInv'
  BY <1>n, QuietStep DEF M!Crash, RefundSteps
<1>o. CASE M!RemoteRefund
  BY <1>0, <1>o DEF M!RemoteRefund, RefundInv, RefundTypeOK, ClaimedOnce, VerdictTrue, Sending
<1>p. CASE M!LeaseExpires
  <2>1. /\ refundIntent' \in [state : RefundStates, token : Refunders \cup {Earlier}, live : BOOLEAN]
        /\ refundIntent'.state = refundIntent.state
    BY <1>0, <1>p DEF M!LeaseExpires, RefundTypeOK
  <2> QED  BY <1>0, <1>p, <2>1
           DEF M!LeaseExpires, RefundInv, RefundTypeOK, ClaimedOnce, VerdictTrue, Sending
<1>q. CASE UNCHANGED M!refundVars
  BY <1>0, <1>q DEF M!refundVars, RefundInv, RefundTypeOK, ClaimedOnce, VerdictTrue, Sending
<1> QED
  BY <1>a, <1>b, <1>c, <1>d, <1>e, <1>f, <1>g, <1>h, <1>i, <1>j, <1>k, <1>l, <1>m, <1>n, <1>o,
     <1>p, <1>q DEF M!Next

(* OneRefund: at most one refund of a charge is asked of the gateway, and it  *)
(* was asked by who marked the row PROCESSING; a refund that may have been    *)
(* accepted is never sent again.                                              *)
THEOREM OneRefundHolds == M!Spec => []OneRefund
<1>1. RefundInv => OneRefund
  <2> SUFFICES ASSUME RefundInv PROVE M!OneRefund  BY DEF OneRefund
  <2>1. Cardinality(sent.by) <= 1
    <3>1. CASE sent.by = {}  BY <3>1, FS_EmptySet
    <3>2. ASSUME NEW r, sent.by = {r} PROVE Cardinality(sent.by) <= 1  BY <3>2, FS_Singleton
    <3> QED  BY <3>1, <3>2 DEF RefundInv, ClaimedOnce
  <2> QED
    BY <2>1, Zenon DEF M!OneRefund, RefundInv, VerdictTrue, M!Cardinality, Cardinality
<1> QED  BY <1>1, RefundInit, RefundStep, PTL DEF M!Spec

=============================================================================
