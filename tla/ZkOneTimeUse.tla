----------------------------- MODULE ZkOneTimeUse -----------------------------
(***************************************************************************)
(* What a deployed guardrail contract promises                             *)
(* (hackathons/stellar-real-world-zk/ARCHITECTURE.md, "Soroban             *)
(* verification"): an evaluation is used at most once, its use is never    *)
(* taken back, and it is used only while the owner's policy it was made    *)
(* under is authorized.                                                    *)
(***************************************************************************)
CONSTANTS Evaluations, Policies, Initial

VARIABLES used, policies

Init == used = {} /\ policies = {Initial}

Use(e) ==
  /\ e.nullifier \notin used
  /\ e.policy \in policies
  /\ used' = used \cup {e.nullifier}
  /\ UNCHANGED policies

ChangePolicies == policies' \in SUBSET Policies /\ UNCHANGED used

Next == ChangePolicies \/ \E e \in Evaluations : Use(e)

Spec == Init /\ [][Next]_<<used, policies>>
==============================================================================
