---------------------------- MODULE X402Lifecycle ----------------------------
(***************************************************************************)
(* The life of a challenge as the x402 facilitator contract draws it       *)
(* (X402SettlementState and the guards of X402StellarState,                *)
(* src/x402_store.rs): a challenge is issued once, is bound to one payment *)
(* request, gets one settlement attempt, and the end of that attempt is    *)
(* final.  Only a settled challenge, or one the mock verifier finalized    *)
(* without any payment record, counts as paid.                             *)
(***************************************************************************)
CONSTANTS Ids, Payments, Unbound

VARIABLES
  phase,   \* where each challenge is
  binding  \* the payment request each challenge is bound to

lifecycle == <<phase, binding>>

Ended == {"settled", "rejected", "unknown"}
Phases == {"none", "open", "finalized", "verified", "in_progress"} \cup Ended

Move(id, from, to) == phase[id] = from /\ phase' = [phase EXCEPT ![id] = to]

Init ==
  /\ phase = [id \in Ids |-> "none"]
  /\ binding = [id \in Ids |-> Unbound]

Issue(id) == Move(id, "none", "open") /\ UNCHANGED binding

Finalize(id) == Move(id, "open", "finalized") /\ UNCHANGED binding

Verify(id) ==
  /\ Move(id, "open", "verified")
  /\ \E p \in Payments : binding' = [binding EXCEPT ![id] = p]

StartSettlement(id) == Move(id, "verified", "in_progress") /\ UNCHANGED binding

EndSettlement(id) ==
  /\ \E end \in Ended : Move(id, "in_progress", end)
  /\ UNCHANGED binding

\* A restart does not know how the attempts it finds in progress ended.
Restart ==
  /\ phase' = [id \in Ids |-> IF phase[id] = "in_progress" THEN "unknown"
                                                           ELSE phase[id]]
  /\ UNCHANGED binding

Next ==
  \/ Restart
  \/ \E id \in Ids : \/ Issue(id)
                     \/ Finalize(id)
                     \/ Verify(id)
                     \/ StartSettlement(id)
                     \/ EndSettlement(id)

Spec == Init /\ [][Next]_lifecycle
==============================================================================
