----------------------------- MODULE ZkEvaluation -----------------------------
(***************************************************************************)
(* One run of the prover (risc0/host and risc0/methods/guest): a plan and  *)
(* a private policy are evaluated and the journal is committed, or the     *)
(* guest stops without a journal.  What the rest of the guardrail trusts   *)
(* is stated here of every input: what an evaluation permits, that the     *)
(* published hashes determine the decision, and that a journal has one     *)
(* encoding.                                                               *)
(***************************************************************************)
EXTENDS ZkContract

CONSTANTS Plans, Policies, Nonce, None

ASSUME PlansAssumption == Plans \subseteq TypedActionPlan
ASSUME PoliciesAssumption == Policies \subseteq PrivatePolicy

VARIABLES
  plan, policy,  \* the private input
  proof,         \* NoProof, Err(...) when the guest stops, or Ok(the journal)
  artifact       \* the proof artifact the host wrote, or None

vars == <<plan, policy, proof, artifact>>

NoProof == [ok |-> FALSE, error |-> "none"]

Init ==
  /\ plan \in Plans
  /\ policy \in Policies
  /\ proof = NoProof
  /\ artifact = None

\* The guest runs once over its input (main of the guest).
Prove ==
  /\ proof = NoProof
  /\ proof' = Execute(EvaluatorImage, plan, policy, Nonce)
  /\ UNCHANGED <<plan, policy, artifact>>

\* encode_stellar_seal: the selector of the router and the Groth16 proof, in bytes.
SealLength == 260

\* StellarProofArtifact::from_receipt, with the plan it belongs to.
FromReceipt(bytes) ==
  [schema_version |-> 1, unreadable |-> FALSE, image |-> EvaluatorImage,
   plan |-> plan, bytes |-> bytes, digest |-> Sha256(bytes),
   seal |-> [len |-> SealLength, proves |-> <<EvaluatorImage, bytes>>]]

\* RealReceiptVerifier: the receipt is the one of these bytes and this image.
ReceiptVerifies(seal, image, bytes) == seal.proves = <<image, bytes>>

\* The boundaries the host runs a receipt through after it wrote the artifact:
\* the host library, the contract library, and the contract library again.
PassesBoundaries(a) ==
  LET genuine == ReceiptVerifies(a.seal, a.image, a.bytes)
      consume(used) == BoundaryConsume(a.image, a.bytes, a.seal.len, genuine, TRUE, used)
  IN  /\ HostVerify(a.image, a.bytes, a.seal.len, genuine).ok
      /\ consume({}).answer.ok
      /\ consume(consume({}).consumed).answer = Err("Replay")

\* main of the host: no artifact for a guest that stopped.
Publish ==
  /\ proof.ok
  /\ artifact = None
  /\ artifact' = FromReceipt(proof.value)
  /\ UNCHANGED <<plan, policy, proof>>

Next == Prove \/ Publish

Spec == Init /\ [][Next]_vars

------------------------------------------------------------------------------
(* Properties *)

\* The order of the outcomes by what they let through.
Freedom(decision) ==
  CASE decision.decision_status = "Blocked" -> 0
    [] decision.decision_status = "RequiresApproval" -> 1
    [] decision.decision_status = "Approved" -> 2

Entries(values) == {values[i] : i \in 1 .. Len(values)}

\* p allows nothing that q does not allow.
Tighter(p, q) ==
  /\ Entries(p.allowed_contracts) \subseteq Entries(q.allowed_contracts)
  /\ Entries(p.allowed_contract_functions)
       \subseteq Entries(q.allowed_contract_functions)
  /\ Entries(p.allowed_assets) \subseteq Entries(q.allowed_assets)
  /\ Entries(p.allowed_recipients) \subseteq Entries(q.allowed_recipients)
  /\ p.max_amount_minor <= q.max_amount_minor
  /\ p.approval_threshold_minor <= q.approval_threshold_minor
  /\ p.min_intent_confidence_bps >= q.min_intent_confidence_bps

\* The arguments as a set: what the plan means whatever their order.
Content(p) ==
  <<p.contract_id, p.function, p.intent_confidence_bps, Entries(p.args)>>

\* Byte strings near the journal: one field replaced, cut off or appended.
Replaced(bytes, fields, values) ==
  {[bytes EXCEPT ![i] = b] : i \in fields, b \in values}

Altered(bytes) ==
  {bytes, Append(bytes, 0), SubSeq(bytes, 1, Len(bytes) - 1)}
  \cup Replaced(bytes, 7 .. 10, 0 .. 7)
  \cup Replaced(bytes, {2, 6}, 0 .. 2)
  \cup Replaced(bytes, {3}, {"another image"})

Proved == proof # NoProof

\* A policy that allows less never lets more through: no order of the gates of
\* evaluate, and no gate that is skipped for some plan, turns a block into an
\* approval.
TighteningNeverPermits ==
  (Proved /\ proof.ok) =>
    \A p \in Policies : (ValidPolicy(p) /\ Tighter(p, policy)) =>
      Freedom(Evaluate(plan, p)) <= Freedom(Evaluate(plan, policy))

\* What passes is inside the policy in every respect, and what reaches the
\* threshold of the policy is never approved without a person.
PermittedIsWithinPolicy ==
  (Proved /\ proof.ok /\ Evaluate(plan, policy).decision_status # "Blocked") =>
    /\ plan.contract_id \in Entries(policy.allowed_contracts)
    /\ ContractFunction(plan.contract_id, plan.function)
         \in Entries(policy.allowed_contract_functions)
    /\ \E amount \in 0 .. policy.max_amount_minor :
         /\ [name |-> Amount, value |-> [type |-> "u64", v |-> amount]]
              \in Entries(plan.args)
         /\ Evaluate(plan, policy) = Approved =>
              amount < policy.approval_threshold_minor
    /\ \E asset \in Entries(policy.allowed_assets) :
         [name |-> Asset, value |-> [type |-> "symbol", v |-> asset]]
           \in Entries(plan.args)
    /\ \E recipient \in Entries(policy.allowed_recipients) :
         [name |-> Recipient, value |-> [type |-> "address", v |-> recipient]]
           \in Entries(plan.args)

\* The two published hashes determine the decision: no two policies with one
\* commitment, and no two plans with one hash, are decided differently
\* (canonical_preimage writes every field evaluate reads).
HashesBindDecision ==
  (Proved /\ proof.ok) =>
    /\ \A p \in Policies :
         (ValidPolicy(p) /\ PolicyPreimage(p) = PolicyPreimage(policy)) =>
           Evaluate(plan, p) = Evaluate(plan, policy)
    /\ \A p \in Plans :
         (ShapeOfPlan(p) = "valid" /\ PlanPreimage(p) = PlanPreimage(plan)) =>
           Evaluate(p, policy) = Evaluate(plan, policy)

\* Two plans that say the same have one hash: the same call cannot be proved
\* twice with two nullifiers by writing its arguments in another order.
OneHashPerPlan ==
  (Proved /\ proof.ok) =>
    \A p \in Plans :
      (ShapeOfPlan(p) = "valid" /\ Content(p) = Content(plan)) =>
        PlanPreimage(p) = PlanPreimage(plan)

\* Whatever the decoder accepts is the encoding of what it returned: no second
\* byte string, hence no second journal digest, carries the same journal.
OneEncodingPerJournal ==
  (Proved /\ proof.ok) =>
    \A bytes \in Altered(proof.value) :
      Decode(bytes).ok => Encode(Decode(bytes).value) = bytes

\* The artifact the host wrote is one its own boundaries accept once, that the
\* local inspection accepts with its plan, and with no plan of another meaning
\* (the host writes the file before it runs the boundaries).
PublishedArtifactPasses ==
  artifact # None =>
    /\ PassesBoundaries(artifact)
    /\ Inspect(artifact) = Ok(Decode(artifact.bytes).value)
    /\ \A p \in Plans :
         Inspect([artifact EXCEPT !.plan = p]).ok => Content(p) = Content(plan)

\* The three verifiers of a proof accept the same bytes: the host library, the
\* contract library and the Soroban contract (once the owner authorized the
\* policy).  Both nullifier stores take an evaluation once.
VerifiersAgree ==
  (Proved /\ proof.ok) =>
    \A bytes \in Altered(proof.value), genuine \in BOOLEAN :
      LET host == HostVerify(EvaluatorImage, bytes, SealLength, genuine)
          library == BoundaryConsume(EvaluatorImage, bytes, SealLength, genuine, TRUE, {})
          again == BoundaryConsume(EvaluatorImage, bytes, SealLength, genuine, TRUE,
                                   library.consumed)
          seal == [len |-> SealLength,
                   proves |-> IF genuine THEN <<EvaluatorImage, bytes>> ELSE <<>>]
          storage == [authorized |-> IF host.ok THEN {PolicyOf(host.value)} ELSE {},
                      consumed |-> {}]
          soroban == VerifyAndConsume(storage, Owner, seal, bytes)
      IN  /\ library.answer.ok <=> host.ok
          /\ soroban.answer.ok <=> host.ok
          /\ soroban.contract.consumed = library.consumed
          /\ host.ok => /\ again.answer = Err("Replay")
                        /\ VerifyAndConsume(soroban.contract, Owner, seal, bytes).answer
                             = Err("Replay")
==============================================================================
