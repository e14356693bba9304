----------------------------- MODULE AuditTrail -----------------------------
(***************************************************************************)
(* What docs/security/rc-013-audit-outbox.md promises of the audit of a    *)
(* business operation: once its transaction is committed a record is owed; *)
(* the record is written to the ledger, once, or given up in a state that  *)
(* stays visible for reconciliation; nothing is owed for ever, and what is *)
(* settled stays settled.                                                  *)
(***************************************************************************)
CONSTANT Events

VARIABLE trail

TypeOK == trail \in [Events -> {"absent", "owed", "recorded", "abandoned"}]

Init == trail = [e \in Events |-> "absent"]

Commit(e) == trail[e] = "absent" /\ trail' = [trail EXCEPT ![e] = "owed"]

Settle(e) ==
  /\ trail[e] = "owed"
  /\ \E s \in {"recorded", "abandoned"} : trail' = [trail EXCEPT ![e] = s]

Next == \E e \in Events : Commit(e) \/ Settle(e)

Spec == Init /\ [][Next]_trail /\ \A e \in Events : WF_trail(Settle(e))
=============================================================================
