------------------------------ MODULE MCZkSession ------------------------------
(* Artifacts of two evaluations under two policies of the owner, one under a  *)
(* policy nobody authorized, and one whose seal proves nothing.               *)
EXTENDS ZkSession, TLC

CONSTANTS approved, requires_approval, unauthorized, unproven,
          s1, s2, mover, plain, remote,
          main, other, foreign, nowhere, owner

Plan ==
  [schema_version |-> 1, intent_label |-> "ContractInvoke",
   action_kind |-> "soroban_contract_invoke", contract_id |-> 1, function |-> 1,
   args |-> <<[name |-> Amount, value |-> [type |-> "u64", v |-> 5]],
              [name |-> Asset, value |-> [type |-> "symbol", v |-> 1]],
              [name |-> Recipient, value |-> [type |-> "address", v |-> 1]]>>,
   intent_confidence_bps |-> 9800]

Policy(version, threshold) ==
  [schema_version |-> 1, policy_version |-> version, commitment_salt |-> 0,
   allowed_contracts |-> <<1>>, allowed_contract_functions |-> <<11>>,
   allowed_assets |-> <<1>>, allowed_recipients |-> <<1>>,
   max_amount_minor |-> 9, approval_threshold_minor |-> threshold,
   min_intent_confidence_bps |-> 9000]

Commitment(policy) == <<Sha256(PolicyPreimage(policy)), policy.policy_version>>

Proof(policy, nonce, proven) ==
  LET bytes == Execute("image", Plan, policy, nonce).value
  IN  [schema_version |-> 1, unreadable |-> FALSE, image |-> "image",
       plan |-> Plan, bytes |-> bytes, digest |-> Sha256(bytes),
       seal |-> [len |-> 260, proves |-> IF proven THEN <<"image", bytes>> ELSE <<>>]]

Proofs ==
  approved :> Proof(Policy(7, 6), 1, TRUE)
  @@ requires_approval :> Proof(Policy(8, 5), 2, TRUE)
  @@ unauthorized :> Proof(Policy(9, 6), 3, TRUE)
  @@ unproven :> Proof(Policy(7, 6), 4, FALSE)

MCArtifact == Proofs
FirstPolicy == Commitment(Policy(7, 6))
MCInitialPolicy == FirstPolicy
OnePolicy == {FirstPolicy}
MCOnePolicy == OnePolicy
Symmetry == Permutations({s1, s2})

ForSessions(contended, moved, single) ==
  s1 :> contended @@ s2 :> contended @@ mover :> moved @@ plain :> single @@ remote :> single

AllSources == ForSessions(owner, owner, owner)
MCSource == AllSources
AllContracts == ForSessions({main}, {main, other, foreign}, {main})
MCContracts == AllContracts
AllFiles == ForSessions({approved, unauthorized}, {approved, unproven}, {approved})
MCFiles == AllFiles

(* Who meets in one behaviour: two sessions with --flow on one guardrail; one  *)
(* whose settings move between two guardrails and a contract that is none; a   *)
(* session without --flow and one in remote mode.                              *)
AllStarts ==
  {ForSessions(main, nowhere, nowhere)}
  \cup {ForSessions(nowhere, d, nowhere) : d \in {main, other, foreign}}
  \cup {ForSessions(nowhere, nowhere, main)}
MCStarts == AllStarts

==============================================================================
