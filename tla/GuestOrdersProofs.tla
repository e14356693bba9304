------------------------- MODULE GuestOrdersProofs -------------------------
(***************************************************************************)
(* Proofs about GuestOrders: the limit of active orders and the agreement  *)
(* of answers hold for every number of phones, keys and requests and for   *)
(* every limit.  The heart is that a request between its count and its     *)
(* commit holds the lock of its phone, so that the set it counted can only *)
(* have shrunk.                                                            *)
(***************************************************************************)
EXTENDS MCEventual, FiniteSetTheorems, TLAPS

(* A request in its transaction holds the lock of its phone *)
Locked == \A r \in Requests : InTransaction(r) => lock[Phone(r)] = r

(* What was counted still holds *)
Counted == \A r \in Requests :
  pc[r] = "counted" => Cardinality(OwnOrders(Phone(r))) < Limit

(* A request that pauses has a try left *)
TriesLeft == \A r \in Requests : pc[r] = "backoff" => tries[r] < MaxTries

(* The inductive invariant *)
IInv == GuestTypeOK /\ TriesLeft /\ Locked /\ Counted /\ ActiveLimit /\ AnswersAgree

-----------------------------------------------------------------------------
(* A phone's orders are finitely many, and lose none of their number to      *)
(* being fewer.                                                              *)
LEMMA OwnFinite ==
  ASSUME NEW p
  PROVE  IsFiniteSet(OwnOrders(p)) /\ Cardinality(OwnOrders(p)) \in Nat
<1>1. OwnOrders(p) \subseteq Keys  BY DEF OwnOrders, ActiveOrders
<1>2. IsFiniteSet(OwnOrders(p))  BY <1>1, KeysAssumption, FS_Subset
<1> QED  BY <1>2, FS_CardinalityType

(* A phone whose own active orders become fewer has fewer of them. *)
LEMMA FewerOwn ==
  ASSUME NEW p, OwnOrders(p)' \subseteq OwnOrders(p)
  PROVE  /\ Cardinality(OwnOrders(p)') \in Nat
         /\ Cardinality(OwnOrders(p)) \in Nat
         /\ Cardinality(OwnOrders(p)') <= Cardinality(OwnOrders(p))
<1>1. IsFiniteSet(OwnOrders(p)') /\ Cardinality(OwnOrders(p)') <= Cardinality(OwnOrders(p))
  BY OwnFinite, FS_Subset
<1> QED  BY <1>1, OwnFinite, FS_CardinalityType

(* The initial states satisfy the inductive invariant. *)
LEMMA Initially == GuestInit => IInv
<1> SUFFICES ASSUME GuestInit PROVE IInv  OBVIOUS
<1>1. (CHOOSE h \in Contents : TRUE) \in Contents
  <2>1. PICK p \in Phones, b \in Bodies : TRUE
    BY PhonesAssumption, BodiesAssumption
  <2>2. [phone |-> p, body |-> b] \in Contents  BY DEF Contents
  <2> QED  BY <2>2
<1>2. NoOrder \in OrderRow
  BY <1>1 DEF NoOrder, NewOrder, OrderRow, Contents, Holding, Active
<1>3. NoOrder.status = "none"  BY DEF NoOrder, NewOrder
<1>4. GuestTypeOK
  BY <1>2, StockAssumption, MaxTriesAssumption DEF GuestInit, GuestTypeOK
<1>5. \A p : OwnOrders(p) = {}
  BY <1>3 DEF GuestInit, OwnOrders, ActiveOrders, Active
<1>6. ActiveLimit
  BY <1>5, FS_EmptySet, LimitAssumption DEF ActiveLimit
<1> QED  BY <1>4, <1>6 DEF GuestInit, IInv, TriesLeft, Locked, Counted, AnswersAgree, InTransaction

-----------------------------------------------------------------------------
(* Every step preserves the types. *)
LEMMA TypePreserved == GuestTypeOK /\ TriesLeft /\ [GuestNext]_guestVars => GuestTypeOK'
<1> SUFFICES ASSUME GuestTypeOK, TriesLeft, [GuestNext]_guestVars PROVE GuestTypeOK'  OBVIOUS
<1> USE DEF GuestTypeOK
<1>0. \A r \in Requests : /\ Phone(r) \in Phones
                          /\ Units(r) \in Nat
                          /\ NewOrder(req[r].hash) \in OrderRow
  BY BodiesAssumption DEF Phone, Units, NewOrder, OrderRow, Contents, Holding, Active
<1>1. ASSUME NEW r \in Requests, RequestStep(r) PROVE GuestTypeOK'
  <2>1. CASE Begin(r)  BY <2>1, MaxTriesAssumption DEF Begin, Goto
  <2>2. CASE Check(r)  BY <2>2 DEF Check, Goto, Answer, Release
  <2>3. CASE Count(r)  BY <2>3 DEF Count, Goto, Answer, Release
  <2>4. CASE Commit(r)
    <3>1. lock' \in [Phones -> Requests \cup {NoOne}]  BY <2>4 DEF Commit, Release
    <3>2. quantity' \in Nat /\ order' \in [Keys -> OrderRow]
      BY <2>4, <1>0 DEF Commit
    <3>3. /\ pc' \in [Requests -> {"new", "waiting", "locked", "checked", "counted",
                                   "backoff", "collided", "done"}]
          /\ answer' \in [Requests -> {"none", "order", "conflict", "lost"}]
      BY <2>4 DEF Commit, Goto, Answer
    <3> QED  BY <2>4, <3>1, <3>2, <3>3 DEF Commit
  <2>5. CASE Replay(r)  BY <2>5 DEF Replay, Goto, Answer
  <2>6. CASE Retry(r)
    <3>1. tries[r] + 1 \in 0..MaxTries  BY <2>6, MaxTriesAssumption DEF Retry, TriesLeft
    <3> QED  BY <2>6, <3>1 DEF Retry, Goto
  <2> QED  BY <1>1, <2>1, <2>2, <2>3, <2>4, <2>5, <2>6 DEF RequestStep
<1>2. ASSUME NEW r \in Requests, Lock(r) PROVE GuestTypeOK'
  BY <1>2, <1>0 DEF Lock, Goto
<1>3. ASSUME NEW r \in Requests, Transient(r) PROVE GuestTypeOK'
  BY <1>3 DEF Transient, Goto, Answer, Release
<1>4. ASSUME NEW r \in Requests, RequestFails(r) PROVE GuestTypeOK'
  BY <1>4 DEF RequestFails, Goto, Answer, Release
<1>5. ASSUME NEW k \in Keys, Advance(k) PROVE GuestTypeOK'
  <2>1. PICK s \in Holding : order' = [order EXCEPT ![k].status = s]
    BY <1>5 DEF Advance, Holding, Active
  <2>2. [order[k] EXCEPT !.status = s] \in OrderRow
    BY <2>1 DEF OrderRow
  <2>3. order' \in [Keys -> OrderRow]  BY <2>1, <2>2
  <2> QED  BY <1>5, <2>3 DEF Advance
<1>6. ASSUME NEW k \in Keys, Cancel(k) PROVE GuestTypeOK'
  <2>1. order[k].hash.body \in Nat
    BY BodiesAssumption DEF OrderRow, Contents
  <2> QED  BY <1>6, <2>1 DEF Cancel, OrderRow, Holding, Active
<1>7. ASSUME NEW k \in Keys, Hide(k) PROVE GuestTypeOK'
  BY <1>7 DEF Hide, OrderRow
<1>8. ASSUME NEW k \in Keys, NEW p \in Phones, Rephone(k, p) PROVE GuestTypeOK'
  <2>0. order[k] \in OrderRow /\ \A o \in OrderRow : [o EXCEPT !.phone = p, !.own = FALSE] \in OrderRow
    BY DEF OrderRow
  <2>1. [order[k] EXCEPT !.phone = p, !.own = FALSE] \in OrderRow  BY <2>0
  <2>2. order' = [order EXCEPT ![k] = [@ EXCEPT !.phone = p, !.own = FALSE]]
    BY <1>8 DEF Rephone
  <2>3. order' \in [Keys -> OrderRow]  BY <2>1, <2>2
  <2> QED  BY <1>8, <2>3 DEF Rephone
<1>9. CASE UNCHANGED guestVars  BY <1>9 DEF guestVars
<1> QED  BY <1>1, <1>2, <1>3, <1>4, <1>5, <1>6, <1>7, <1>8, <1>9 DEF GuestNext

-----------------------------------------------------------------------------
(* A request that goes on still has a try for its next pause. *)
LEMMA TriesPreserved == GuestTypeOK /\ TriesLeft /\ [GuestNext]_guestVars => TriesLeft'
<1> SUFFICES ASSUME GuestTypeOK, TriesLeft, [GuestNext]_guestVars PROVE TriesLeft'  OBVIOUS
<1> USE DEF GuestTypeOK, TriesLeft
<1>1. ASSUME NEW r \in Requests, RequestStep(r) PROVE TriesLeft'
  BY <1>1 DEF RequestStep, Begin, Check, Count, Commit, Replay, Retry, Goto, Answer
<1>2. ASSUME NEW r \in Requests, Lock(r) PROVE TriesLeft'
  BY <1>2 DEF Lock, Goto
<1>3. ASSUME NEW r \in Requests, Transient(r) PROVE TriesLeft'
  BY <1>3, MaxTriesAssumption DEF Transient, Goto, Answer
<1>4. ASSUME NEW r \in Requests, RequestFails(r) PROVE TriesLeft'
  BY <1>4 DEF RequestFails, Goto, Answer
<1> QED  BY <1>1, <1>2, <1>3, <1>4
         DEF GuestNext, guestVars, Advance, Cancel, Hide, Rephone

(* The end of a transaction releases no lock but its own. *)
LEMMA ReleaseKeeps ==
  ASSUME GuestTypeOK, Locked, NEW r \in Requests, Release(r), req' = req,
         \A q \in Requests \ {r} : pc'[q] = pc[q],
         pc'[r] \notin {"locked", "checked", "counted"}
  PROVE  Locked'
<1> SUFFICES ASSUME NEW q \in Requests, pc'[q] \in {"locked", "checked", "counted"}
             PROVE  lock'[req[q].hash.phone] = q
  BY DEF Locked, InTransaction, Phone
<1>1. q # r /\ pc[q] = pc'[q]  OBVIOUS
<1>2. lock[req[q].hash.phone] = q  BY <1>1 DEF Locked, InTransaction, Phone
<1>3. req[q].hash.phone \in Phones  BY DEF GuestTypeOK, Contents
<1> QED  BY <1>1, <1>2, <1>3 DEF Release

(* A lock is held by whom it was granted until that transaction ends:        *)
(* nobody else can take it or release it.                                    *)
LEMMA LockPreserved == GuestTypeOK /\ Locked /\ [GuestNext]_guestVars => Locked'
<1> SUFFICES ASSUME GuestTypeOK, Locked, [GuestNext]_guestVars PROVE Locked'  OBVIOUS
<1>1. ASSUME NEW r \in Requests, RequestStep(r) PROVE Locked'
  <2>1. CASE Begin(r)  BY <2>1 DEF Begin, Goto, GuestTypeOK, Locked, InTransaction, Phone
  <2>2. CASE Check(r)
    <3>1. CASE Exists(req[r].key)
      BY <2>2, <3>1, ReleaseKeeps DEF Check, Goto, Answer, GuestTypeOK
    <3>2. CASE ~Exists(req[r].key)
      BY <2>2, <3>2 DEF Check, Goto, GuestTypeOK, Locked, InTransaction, Phone
    <3> QED  BY <3>1, <3>2
  <2>3. CASE Count(r)
    <3>1. CASE Cardinality(ActiveOrders(Phone(r))) >= Limit
      BY <2>3, <3>1, ReleaseKeeps DEF Count, Goto, Answer, GuestTypeOK
    <3>2. CASE ~(Cardinality(ActiveOrders(Phone(r))) >= Limit)
      BY <2>3, <3>2 DEF Count, Goto, GuestTypeOK, Locked, InTransaction, Phone
    <3> QED  BY <3>1, <3>2
  <2>4. CASE Commit(r)
    BY <2>4, ReleaseKeeps DEF Commit, Goto, Answer, GuestTypeOK
  <2>5. CASE Replay(r)
    BY <2>5 DEF Replay, Goto, Answer, GuestTypeOK, Locked, InTransaction, Phone
  <2>6. CASE Retry(r)  BY <2>6 DEF Retry, Goto, GuestTypeOK, Locked, InTransaction, Phone
  <2> QED  BY <1>1, <2>1, <2>2, <2>3, <2>4, <2>5, <2>6 DEF RequestStep
<1>2. ASSUME NEW r \in Requests, Lock(r) PROVE Locked'
  <2>1. req[r].hash.phone \in Phones  BY DEF GuestTypeOK, Contents
  <2> QED
    BY <1>2, <2>1, NoOneAssumption
    DEF Lock, Goto, GuestTypeOK, Locked, InTransaction, Phone
<1>3. ASSUME NEW r \in Requests, Transient(r) PROVE Locked'
  BY <1>3, ReleaseKeeps DEF Transient, Goto, Answer, GuestTypeOK
<1>4. ASSUME NEW r \in Requests, RequestFails(r) PROVE Locked'
  BY <1>4, ReleaseKeeps DEF RequestFails, Goto, Answer, GuestTypeOK
<1> QED  BY <1>1, <1>2, <1>3, <1>4
         DEF GuestNext, guestVars, Advance, Cancel, Hide, Rephone, Locked, InTransaction, Phone

(* Only a commit adds to a phone's own active orders. *)
LEMMA OnlyCommitAdds ==
  ASSUME GuestTypeOK, [GuestNext]_guestVars, \A r \in Requests : ~Commit(r), NEW p \in Phones
  PROVE  OwnOrders(p)' \subseteq OwnOrders(p)
<1> USE DEF GuestTypeOK, OwnOrders, ActiveOrders
<1>1. CASE order' = order  BY <1>1
<1>2. ASSUME NEW k \in Keys, Advance(k) \/ Cancel(k)
      PROVE  OwnOrders(p)' \subseteq OwnOrders(p)
  <2>1. PICK s : order' = [order EXCEPT ![k].status = s]
    BY <1>2 DEF Advance, Cancel
  <2>2. order[k].status \in Active  BY <1>2 DEF Advance, Cancel, Active
  <2>3. order[k] \in OrderRow  OBVIOUS
  <2> QED  BY <2>1, <2>2, <2>3 DEF OrderRow
<1>3. ASSUME NEW k \in Keys, Hide(k)
      PROVE  OwnOrders(p)' \subseteq OwnOrders(p)
  BY <1>3 DEF Hide, OrderRow
<1>4. ASSUME NEW k \in Keys, NEW q \in Phones, Rephone(k, q)
      PROVE  OwnOrders(p)' \subseteq OwnOrders(p)
  BY <1>4 DEF Rephone, OrderRow
<1>5. ASSUME NEW r \in Requests, RequestStep(r) \/ Lock(r) \/ Transient(r) \/ RequestFails(r)
      PROVE  order' = order
  BY <1>5 DEF RequestStep, Begin, Check, Count, Replay, Retry, Lock, Transient, RequestFails
<1> QED  BY <1>1, <1>2, <1>3, <1>4, <1>5 DEF GuestNext, guestVars

(* A commit adds at most the order it creates, to its own phone only. *)
LEMMA CommitAdds ==
  ASSUME GuestTypeOK, NEW r \in Requests, Commit(r), NEW p \in Phones
  PROVE  /\ OwnOrders(p)' \subseteq OwnOrders(p) \cup {req[r].key}
         /\ p # Phone(r) => OwnOrders(p)' \subseteq OwnOrders(p)
<1> USE DEF GuestTypeOK, OwnOrders, ActiveOrders
<1>1. CASE order' = order  BY <1>1
<1>2. CASE order' = [order EXCEPT ![req[r].key] = NewOrder(req[r].hash)]
  BY <1>2 DEF NewOrder, Phone
<1> QED  BY <1>1, <1>2 DEF Commit

(* The limit is kept, and so is what was counted under the lock. *)
LEMMA LimitPreserved ==
  GuestTypeOK /\ Locked /\ Counted /\ ActiveLimit /\ [GuestNext]_guestVars
    => ActiveLimit' /\ Counted'
<1> SUFFICES ASSUME GuestTypeOK, Locked, Counted, ActiveLimit, [GuestNext]_guestVars
             PROVE  ActiveLimit' /\ Counted'
  OBVIOUS
<1>0. \A q \in Requests : Phone(q) \in Phones /\ req[q].key \in Keys
  BY DEF GuestTypeOK, Phone, Contents
<1>9. req' = req
  BY DEF GuestNext, RequestStep, Begin, Check, Count, Commit, Replay, Retry, Lock, Transient,
         RequestFails, Advance, Cancel, Hide, Rephone, guestVars
<1>1. ASSUME NEW r \in Requests, Commit(r) PROVE ActiveLimit' /\ Counted'
  <2>1. Cardinality(OwnOrders(Phone(r))) < Limit
    BY <1>1 DEF Commit, Counted
  <2>2. ASSUME NEW p \in Phones, p = Phone(r)
        PROVE  Cardinality(OwnOrders(p)') <= Limit
    <3> DEFINE S == OwnOrders(p)
               T == OwnOrders(p) \cup {req[r].key}
    <3>1. IsFiniteSet(S) /\ Cardinality(S) \in Nat  BY OwnFinite
    <3>2. IsFiniteSet(T) /\ (Cardinality(T) = Cardinality(S)
                               \/ Cardinality(T) = Cardinality(S) + 1)
      BY <3>1, FS_AddElement
    <3>3. OwnOrders(p)' \subseteq T  BY <1>1, CommitAdds
    <3>4. /\ Cardinality(OwnOrders(p)') <= Cardinality(T)
          /\ IsFiniteSet(OwnOrders(p)')
      BY <3>2, <3>3, FS_Subset
    <3>5. Cardinality(OwnOrders(p)') \in Nat  BY <3>4, FS_CardinalityType
    <3>6. Cardinality(S) < Limit  BY <2>1, <2>2
    <3> QED  BY <3>1, <3>2, <3>4, <3>5, <3>6, LimitAssumption
  <2>3. \A p \in Phones : p # Phone(r) => OwnOrders(p)' \subseteq OwnOrders(p)
    BY <1>1, CommitAdds
  <2>4. ASSUME NEW q \in Requests, q # r, pc[q] = "counted" PROVE Phone(q) # Phone(r)
    BY <2>4, <1>1 DEF Locked, InTransaction, Commit
  <2>5. ActiveLimit'
    <3> SUFFICES ASSUME NEW p \in Phones PROVE Cardinality(OwnOrders(p)') <= Limit
      BY DEF ActiveLimit
    <3>1. CASE p = Phone(r)  BY <2>2, <3>1
    <3>2. CASE p # Phone(r)
      BY <2>3, <3>2, FewerOwn, LimitAssumption DEF ActiveLimit
    <3> QED  BY <3>1, <3>2
  <2>6. Counted'
    <3> SUFFICES ASSUME NEW q \in Requests, pc'[q] = "counted"
                 PROVE  Cardinality(OwnOrders(Phone(q))') < Limit
      BY <1>9 DEF Counted, Phone
    <3>1. q # r /\ pc[q] = "counted"
      BY <1>1 DEF Commit, Goto, Answer, GuestTypeOK
    <3>2. Cardinality(OwnOrders(Phone(q))) < Limit  BY <3>1 DEF Counted
    <3>3. PICK p \in Phones : p = Phone(q)  BY <1>0
    <3>4. OwnOrders(p)' \subseteq OwnOrders(p)  BY <2>3, <2>4, <3>1, <3>3
    <3>5. Cardinality(OwnOrders(p)') < Limit
      BY <3>2, <3>3, <3>4, FewerOwn, LimitAssumption
    <3>6. Phone(q)' = p  BY <3>3, <1>9 DEF Phone
    <3> QED  BY <3>5, <3>6
  <2> QED  BY <2>5, <2>6
<1>2. ASSUME \A r \in Requests : ~Commit(r) PROVE ActiveLimit' /\ Counted'
  <2>1. \A p \in Phones : /\ Cardinality(OwnOrders(p)') <= Cardinality(OwnOrders(p))
                          /\ Cardinality(OwnOrders(p)') \in Nat
                          /\ Cardinality(OwnOrders(p)) \in Nat
    BY <1>2, OnlyCommitAdds, FewerOwn
  <2>2. ActiveLimit'
    BY <2>1, LimitAssumption DEF ActiveLimit
  <2>3. Counted'
    <3> SUFFICES ASSUME NEW q \in Requests, pc'[q] = "counted"
                 PROVE  Cardinality(OwnOrders(Phone(q))') < Limit
      BY <1>9 DEF Counted, Phone
    <3>3. PICK p \in Phones : p = Phone(q)  BY <1>0
    <3>6. Phone(q)' = p  BY <3>3, <1>9 DEF Phone
    <3>1. CASE pc[q] = "counted"
      <4>1. Cardinality(OwnOrders(p)) < Limit  BY <3>1, <3>3 DEF Counted
      <4> QED  BY <2>1, <4>1, <3>3, <3>6, LimitAssumption
    <3>2. CASE pc[q] # "counted"
      <4>1. Count(q)
        <5>1. ASSUME NEW r \in Requests,
                     RequestStep(r) \/ Lock(r) \/ Transient(r) \/ RequestFails(r), r # q
              PROVE  FALSE
          BY <5>1, <3>2
          DEF RequestStep, Begin, Check, Count, Commit, Replay, Retry, Lock, Transient,
              RequestFails, Goto, Answer, GuestTypeOK
        <5>2. RequestStep(q) => Count(q)
          BY <3>2 DEF RequestStep, Begin, Check, Commit, Replay, Retry, Goto, Answer, GuestTypeOK
        <5>3. ~Lock(q) /\ ~Transient(q) /\ ~RequestFails(q)
          BY <3>2 DEF Lock, Transient, RequestFails, Goto, Answer, GuestTypeOK
        <5> QED  BY <3>2, <5>1, <5>2, <5>3
                 DEF GuestNext, guestVars, Advance, Cancel, Hide, Rephone
      <4>2. ~(Cardinality(ActiveOrders(p)) >= Limit) /\ order' = order
        BY <4>1, <3>3 DEF Count, Goto, Answer, GuestTypeOK
      <4>3. OwnOrders(p) \subseteq ActiveOrders(p) /\ ActiveOrders(p) \subseteq Keys
        BY DEF OwnOrders, ActiveOrders
      <4>4. IsFiniteSet(ActiveOrders(p))  BY <4>3, KeysAssumption, FS_Subset
      <4>5. /\ Cardinality(ActiveOrders(p)) \in Nat
            /\ Cardinality(OwnOrders(p)) <= Cardinality(ActiveOrders(p))
        BY <4>3, <4>4, FS_Subset, FS_CardinalityType
      <4>6. Cardinality(OwnOrders(p)) < Limit
        BY <4>2, <4>5, OwnFinite, LimitAssumption
      <4> QED  BY <2>1, <4>6, <3>3, <3>6, LimitAssumption
    <3> QED  BY <3>1, <3>2
  <2> QED  BY <2>2, <2>3
<1> QED  BY <1>1, <1>2

(* An answered request's order never changes the contents it was made with:  *)
(* a commit writes only under a key nobody used.                             *)
LEMMA AgreePreserved == GuestTypeOK /\ AnswersAgree /\ [GuestNext]_guestVars => AnswersAgree'
<1> SUFFICES ASSUME GuestTypeOK, AnswersAgree, [GuestNext]_guestVars PROVE AnswersAgree'  OBVIOUS
<1>1. ASSUME NEW r \in Requests, RequestStep(r) PROVE AnswersAgree'
  <2>1. CASE Commit(r)
    <3> DEFINE new == [order EXCEPT ![req[r].key] = NewOrder(req[r].hash)]
    <3>0. /\ req' = req
          /\ \A q \in Requests \ {r} : answer'[q] = answer[q]
      BY <2>1 DEF Commit, Goto, Answer, GuestTypeOK
    <3>1. CASE order' = order /\ (answer' = answer \/ answer'[r] = "conflict")
      BY <3>0, <3>1 DEF AnswersAgree, Exists, SameRequest
    <3>2. CASE ~Exists(req[r].key) /\ order' = new
      <4>1. /\ NewOrder(req[r].hash).status # "none"
            /\ NewOrder(req[r].hash).hash = req[r].hash
        BY DEF NewOrder
      <4> QED
        BY <3>0, <3>2, <4>1 DEF GuestTypeOK, AnswersAgree, Exists, SameRequest
    <3> QED  BY <2>1, <3>1, <3>2 DEF Commit, Answer, GuestTypeOK
  <2>2. CASE Begin(r) \/ Check(r) \/ Count(r) \/ Replay(r) \/ Retry(r)
    BY <2>2 DEF Begin, Check, Count, Replay, Retry, Goto, Answer, GuestTypeOK,
                AnswersAgree, Exists, SameRequest
  <2> QED  BY <1>1, <2>1, <2>2 DEF RequestStep
<1>2. ASSUME NEW r \in Requests, Lock(r) \/ Transient(r) \/ RequestFails(r) PROVE AnswersAgree'
  BY <1>2 DEF Lock, Transient, RequestFails, Goto, Answer, GuestTypeOK, AnswersAgree, Exists,
              SameRequest
<1>3. ASSUME NEW k \in Keys, Advance(k) \/ Cancel(k) \/ Hide(k) \/
                             (\E p \in Phones : Rephone(k, p))
      PROVE  AnswersAgree'
  <2>1. /\ req' = req /\ answer' = answer
        /\ \A j \in Keys : order'[j].hash = order[j].hash
        /\ \A j \in Keys : Exists(j) => order'[j].status # "none"
    <3>1. CASE Advance(k) \/ Cancel(k)
      <4>1. PICK s : /\ order' = [order EXCEPT ![k].status = s]
                     /\ s # "none" /\ UNCHANGED <<req, answer>>
        BY <3>1 DEF Advance, Cancel
      <4> QED  BY <4>1 DEF Exists, GuestTypeOK, OrderRow
    <3>2. CASE Hide(k)  BY <3>2 DEF Hide, Exists, GuestTypeOK, OrderRow
    <3>3. CASE \E p \in Phones : Rephone(k, p)
      BY <3>3 DEF Rephone, Exists, GuestTypeOK, OrderRow
    <3> QED  BY <1>3, <3>1, <3>2, <3>3
  <2> QED  BY <2>1 DEF AnswersAgree, Exists, SameRequest, GuestTypeOK
<1>4. CASE UNCHANGED guestVars
  BY <1>4 DEF guestVars, AnswersAgree, Exists, SameRequest
<1> QED  BY <1>1, <1>2, <1>3, <1>4 DEF GuestNext

-----------------------------------------------------------------------------
(* The conjuncts are inductive together. *)
THEOREM Inductive == GuestSpec => []IInv
<1>1. IInv /\ [GuestNext]_guestVars => IInv'
  BY TypePreserved, TriesPreserved, LockPreserved, LimitPreserved, AgreePreserved
  DEF IInv
<1> QED  BY Initially, <1>1, PTL DEF GuestSpec

(* createGuestOrder: rows, locks and answers keep their types, and stock is  *)
(* never negative, for every number of requests.                             *)
THEOREM GuestTypeCorrect == GuestSpec => []GuestTypeOK
BY Inductive, PTL DEF IInv

(* No phone ever has more active orders of its own than the limit, however   *)
(* many requests of however many phones race, retry and fail.                *)
THEOREM ActiveLimitTheorem == GuestSpec => []ActiveLimit
BY Inductive, PTL DEF IInv

(* A request answered with an order is answered with the order it asked for, *)
(* whichever of the three ways (new, replayed, collided) it got there.       *)
THEOREM AnswersAgreeTheorem == GuestSpec => []AnswersAgree
BY Inductive, PTL DEF IInv

-----------------------------------------------------------------------------
(* Units: as many as their holders have.                                      *)
HoldersUnits(n) == UNION {{k} \X (1..n[k]) : k \in Keys}

(* What finitely many orders hold can be counted.                            *)
LEMMA UnitsCounted ==
  ASSUME NEW n \in [Keys -> Nat]
  PROVE  IsFiniteSet(HoldersUnits(n)) /\ Cardinality(HoldersUnits(n)) \in Nat
<1>1. \A k \in Keys : IsFiniteSet({k} \X (1..n[k]))
  <2> TAKE k \in Keys
  <2>1. IsFiniteSet({k})  BY FS_Singleton
  <2>2. n[k] \in Int  OBVIOUS
  <2>3. IsFiniteSet(1..n[k])  BY <2>2, FS_Interval
  <2> QED  BY <2>1, <2>3, FS_Product
<1> DEFINE F == [k \in Keys |-> {k} \X (1..n[k])]
<1>2. F \in Surjection(Keys, {{k} \X (1..n[k]) : k \in Keys})  BY DEF Surjection
<1>3. IsFiniteSet({{k} \X (1..n[k]) : k \in Keys})  BY <1>2, KeysAssumption, FS_Surjection
<1>4. IsFiniteSet(HoldersUnits(n))  BY <1>1, <1>3, FS_UNION DEF HoldersUnits
<1> QED  BY <1>4, FS_CardinalityType

(* A holder that had none and gets some.                                     *)
LEMMA UnitsTaken ==
  ASSUME NEW n \in [Keys -> Nat], NEW k \in Keys, n[k] = 0, NEW d \in Nat,
         NEW m \in [Keys -> Nat], m[k] = d, \A l \in Keys \ {k} : m[l] = n[l]
  PROVE  Cardinality(HoldersUnits(m)) = Cardinality(HoldersUnits(n)) + d
<1>1. IsFiniteSet(HoldersUnits(n)) /\ Cardinality(HoldersUnits(n)) \in Nat  BY UnitsCounted
<1>2. IsFiniteSet({k} \X (1..d)) /\ Cardinality({k} \X (1..d)) = d
  <2>1. IsFiniteSet({k}) /\ Cardinality({k}) = 1  BY FS_Singleton
  <2>2. IsFiniteSet(1..d) /\ Cardinality(1..d) = d  BY FS_Interval
  <2>3. /\ IsFiniteSet({k} \X (1..d))
        /\ Cardinality({k} \X (1..d)) = Cardinality({k}) * Cardinality(1..d)
    BY <2>1, <2>2, FS_Product
  <2> QED  BY <2>1, <2>2, <2>3
<1>3. \A x : x \in HoldersUnits(n) <=> \E l \in Keys : x \in {l} \X (1..n[l])  BY DEF HoldersUnits
<1>4. \A x : x \in HoldersUnits(m) <=> \E l \in Keys : x \in {l} \X (1..m[l])  BY DEF HoldersUnits
<1>5. 1..n[k] = {}  OBVIOUS
<1>6. HoldersUnits(m) = HoldersUnits(n) \cup ({k} \X (1..d))  BY <1>3, <1>4, <1>5
<1>7. HoldersUnits(n) \cap ({k} \X (1..d)) = {}  BY <1>3, <1>5
<1>8. Cardinality(HoldersUnits(m)) = Cardinality(HoldersUnits(n)) + Cardinality({k} \X (1..d))
                                 - Cardinality(HoldersUnits(n) \cap ({k} \X (1..d)))
  BY <1>1, <1>2, <1>6, FS_Union
<1>9. Cardinality(HoldersUnits(n) \cap ({k} \X (1..d))) = 0  BY <1>7, FS_EmptySet
<1> QED  BY <1>1, <1>2, <1>8, <1>9

(* What each order keeps out of the stock.                                   *)
HeldBy == [k \in Keys |-> UnitsOf(k)]

(* They are natural numbers, and the units that are held are theirs.         *)
LEMMA HeldType == GuestTypeOK => HeldBy \in [Keys -> Nat] /\ UnitsHeld = HoldersUnits(HeldBy)
<1> SUFFICES ASSUME GuestTypeOK PROVE HeldBy \in [Keys -> Nat] /\ UnitsHeld = HoldersUnits(HeldBy)  OBVIOUS
<1>1. \A k \in Keys : order[k].hash.body \in Nat
  BY BodiesAssumption DEF GuestTypeOK, OrderRow, Contents
<1> QED  BY <1>1 DEF HeldBy, UnitsOf, UnitsHeld, HoldersUnits

(* Stock moves with the order that takes it, or gives it back.               *)
LEMMA StockPreserved ==
  ASSUME GuestTypeOK, GuestTypeOK', StockExact, [GuestNext]_guestVars PROVE StockExact'
<1>0. /\ HeldBy \in [Keys -> Nat] /\ UnitsHeld = HoldersUnits(HeldBy)
      /\ HeldBy' \in [Keys -> Nat] /\ UnitsHeld' = HoldersUnits(HeldBy')
  <2>1. (GuestTypeOK => HeldBy \in [Keys -> Nat] /\ UnitsHeld = HoldersUnits(HeldBy))'
    BY HeldType, PTL
  <2> QED  BY HeldType, <2>1
<1>t. /\ order \in [Keys -> OrderRow] /\ quantity \in Nat /\ quantity' \in Nat
      /\ \A r \in Requests : req[r].key \in Keys /\ Units(r) \in Nat
  BY BodiesAssumption DEF GuestTypeOK, Units, Contents
<1>c. Cardinality(UnitsHeld) \in Nat /\ Cardinality(UnitsHeld') \in Nat
  BY <1>0, UnitsCounted
<1>s. ASSUME quantity' = quantity, \A k \in Keys : UnitsOf(k)' = UnitsOf(k) PROVE StockExact'
  <2>1. UnitsHeld' = UnitsHeld  BY <1>s DEF UnitsHeld
  <2> QED  BY <1>s, <2>1 DEF StockExact
<1>1. ASSUME NEW r \in Requests, Commit(r) PROVE StockExact'
  <2>1. CASE UNCHANGED <<quantity, order>>  BY <1>s, <2>1 DEF UnitsOf
  <2>2. CASE ~UNCHANGED <<quantity, order>>
    <3> DEFINE k == req[r].key
    <3>1. /\ ~Exists(k) /\ quantity' = quantity - Units(r)
          /\ order' = [order EXCEPT ![k] = NewOrder(req[r].hash)]
      BY <1>1, <2>2 DEF Commit
    <3>2. /\ HeldBy[k] = 0 /\ HeldBy'[k] = Units(r)
          /\ \A l \in Keys \ {k} : HeldBy'[l] = HeldBy[l]
      BY <1>t, <3>1 DEF HeldBy, UnitsOf, Exists, NewOrder, Units, Holding, Active
    <3>3. Cardinality(UnitsHeld') = Cardinality(UnitsHeld) + Units(r)
      BY <1>0, <1>t, <3>2, UnitsTaken
    <3> QED  BY <1>t, <1>c, <3>1, <3>3, StockAssumption DEF StockExact
  <2> QED  BY <2>1, <2>2
<1>2. ASSUME NEW k \in Keys, Cancel(k) PROVE StockExact'
  <2>1. /\ order[k].status = "pending" /\ quantity' = quantity + order[k].hash.body
        /\ order' = [order EXCEPT ![k].status = "canceled"]
    BY <1>2 DEF Cancel
  <2>2. /\ HeldBy'[k] = 0 /\ HeldBy[k] = order[k].hash.body
        /\ \A l \in Keys \ {k} : HeldBy'[l] = HeldBy[l]
    BY <1>t, <2>1 DEF HeldBy, UnitsOf, Holding, Active, OrderRow
  <2>3. Cardinality(UnitsHeld) = Cardinality(UnitsHeld') + order[k].hash.body
    BY <1>0, <2>2, UnitsTaken
  <2>4. order[k].hash.body \in Nat  BY <1>0, <2>2
  <2> QED  BY <1>t, <1>c, <2>1, <2>3, <2>4, StockAssumption DEF StockExact
<1>3. ASSUME NEW k \in Keys, Advance(k) \/ Hide(k) \/ \E p \in Phones : Rephone(k, p)
      PROVE  StockExact'
  <2>1. /\ quantity' = quantity /\ \A l \in Keys \ {k} : order'[l] = order[l]
        /\ order'[k].hash = order[k].hash
        /\ order'[k].status \in Holding <=> order[k].status \in Holding
    <3>1. CASE Advance(k)  BY <1>t, <3>1 DEF Advance, Holding, Active, OrderRow
    <3>2. CASE Hide(k)  BY <1>t, <3>2 DEF Hide, OrderRow
    <3>3. CASE \E p \in Phones : Rephone(k, p)  BY <1>t, <3>3 DEF Rephone, OrderRow
    <3> QED  BY <1>3, <3>1, <3>2, <3>3
  <2> QED  BY <1>s, <2>1 DEF UnitsOf
<1>4. CASE UNCHANGED <<quantity, order>>  BY <1>s, <1>4 DEF UnitsOf
<1>5. ASSUME NEW r \in Requests,
             \/ Begin(r) \/ Check(r) \/ Count(r) \/ Replay(r) \/ Retry(r)
             \/ Lock(r) \/ Transient(r) \/ RequestFails(r)
      PROVE  UNCHANGED <<quantity, order>>
  BY <1>5 DEF Begin, Check, Count, Replay, Retry, Lock, Transient, RequestFails
<1> QED  BY <1>1, <1>2, <1>3, <1>4, <1>5 DEF GuestNext, RequestStep, guestVars

(* Stock is taken once per order, for every number of orders, requests and     *)
(* units: what is not in stock is held by an order that was not canceled.      *)
THEOREM StockExactTheorem == GuestSpec => []StockExact
<1>1. GuestInit => GuestTypeOK /\ StockExact
  <2> SUFFICES ASSUME GuestInit PROVE GuestTypeOK /\ StockExact  OBVIOUS
  <2>1. GuestTypeOK  BY Initially DEF IInv
  <2>2. \A k \in Keys : UnitsOf(k) = 0
    BY DEF GuestInit, UnitsOf, NoOrder, NewOrder, Holding, Active
  <2>3. UnitsHeld = {}  BY <2>2 DEF UnitsHeld
  <2> QED  BY <2>1, <2>3, FS_EmptySet, StockAssumption DEF GuestInit, StockExact
<1>2. GuestTypeOK /\ GuestTypeOK' /\ StockExact /\ [GuestNext]_guestVars => StockExact'  BY StockPreserved
<1> QED  BY <1>1, <1>2, GuestTypeCorrect, PTL DEF GuestSpec
=============================================================================
