------------------------------ MODULE ZkContract ------------------------------
(***************************************************************************)
(* The guardrail contract on Soroban                                       *)
(* (hackathons/stellar-real-world-zk/soroban/src/lib.rs) and the local     *)
(* inspection of a proof artifact (src/zk_attestation.rs).  The module has *)
(* no variables: an entry point maps the storage of the contract to an     *)
(* answer and the next storage.  A call that returns an error or traps is  *)
(* rolled back by the host, so its next storage is the old one.            *)
(*                                                                         *)
(* A seal is its length and what it proves: the image and the journal      *)
(* bytes of the guest run it was made from, or nothing.  The verifier      *)
(* router is external: it accepts exactly what a seal proves.  The life    *)
(* times of storage entries are left out: every access extends them to     *)
(* the maximum of the network, and an archived entry is restored before it *)
(* is read.                                                                *)
(***************************************************************************)
EXTENDS ZkJournal

CONSTANTS
  Owner,           \* the address the constructor stored
  EvaluatorImage,  \* the image id the constructor stored
  InitialPolicy    \* the first authorized policy: a commitment and a version

\* After __constructor, which refuses version 0.
Deployed == [authorized |-> {InitialPolicy}, consumed |-> {}]

Answer(answer, c) == [answer |-> answer, contract |-> c]

------------------------------------------------------------------------------
(* Policies *)

\* require_auth traps for every other caller.
AuthorizePolicy(c, caller, commitment, version) ==
  IF caller # Owner THEN Answer(Err("Auth"), c)
  ELSE IF version = 0 THEN Answer(Err("InvalidAttestation"), c)
  ELSE Answer(Ok("authorized"),
              [c EXCEPT !.authorized = @ \cup {<<commitment, version>>}])

RevokePolicy(c, caller, commitment, version) ==
  IF caller # Owner THEN Answer(Err("Auth"), c)
  ELSE Answer(Ok("revoked"),
              [c EXCEPT !.authorized = @ \ {<<commitment, version>>}])

------------------------------------------------------------------------------
(* Verification *)

RouterAccepts(seal, image, bytes) == seal.proves = <<image, bytes>>

PolicyOf(journal) == <<journal.policy_commitment, journal.policy_version>>

\* Mutant: the policy the prover chose is taken.
AnyPolicy(c, journal) == TRUE

PolicyAuthorized(c, journal) == PolicyOf(journal) \in c.authorized

\* verify_attestation
VerifyAttestation(c, seal, bytes) ==
  IF \/ seal.len <= 4
     \/ ~RouterAccepts(seal, EvaluatorImage, bytes)
     \/ ~Decode(bytes).ok
  THEN Err("InvalidAttestation")
  ELSE LET journal == Decode(bytes).value
       IN  IF /\ journal.evaluator_image_id = EvaluatorImage
              /\ PolicyAuthorized(c, journal)
           THEN Ok(journal) ELSE Err("InvalidAttestation")

\* accepted_attestation: the public part of the journal and the next step.
AcceptedAttestation(journal) ==
  [action_plan_hash |-> journal.action_plan_hash,
   policy_commitment |-> journal.policy_commitment,
   policy_version |-> journal.policy_version,
   decision |-> DecisionOf(journal),
   audit_nullifier |-> journal.audit_nullifier,
   next_step |-> NextStep(journal)]

\* verify: anybody may call it and it writes nothing.
Verify(c, seal, bytes) ==
  LET checked == VerifyAttestation(c, seal, bytes)
  IN  Answer(IF checked.ok THEN Ok(AcceptedAttestation(checked.value))
             ELSE checked, c)

\* Mutant: the nullifier is stored again instead of being refused.
Unused(c, nullifier) == TRUE

NotConsumed(c, nullifier) == nullifier \notin c.consumed

VerifyAndConsume(c, caller, seal, bytes) ==
  LET checked == VerifyAttestation(c, seal, bytes)
      nullifier == checked.value.audit_nullifier
  IN  IF caller # Owner THEN Answer(Err("Auth"), c)
      ELSE IF ~checked.ok THEN Answer(checked, c)
      ELSE IF ~NotConsumed(c, nullifier) THEN Answer(Err("Replay"), c)
      ELSE Answer(Ok(AcceptedAttestation(checked.value)),
                  [c EXCEPT !.consumed = @ \cup {nullifier}])

IsConsumed(c, nullifier) == nullifier \in c.consumed

------------------------------------------------------------------------------
(* The local inspection of an artifact *)

\* Mutant: the plan is not compared with the journal.
InspectAnyPlan(a) ==
  IF a.schema_version # 1 THEN Err("unsupported_proof_schema")
  ELSE IF a.seal.len <= 4 THEN Err("invalid_seal")
  ELSE IF a.digest # Sha256(a.bytes) THEN Err("journal_digest_mismatch")
  ELSE IF ~Decode(a.bytes).ok THEN Err("invalid_public_journal")
  ELSE IF Decode(a.bytes).value.evaluator_image_id # a.image
       THEN Err("evaluator_image_id_mismatch")
  ELSE Ok(Decode(a.bytes).value)

\* inspect_zk_attestation: the bindings of an artifact to its plan, not the
\* seal itself.  "unreadable" stands for every field that is not hexadecimal
\* of its length.
Inspect(a) ==
  IF a.schema_version # 1 THEN Err("unsupported_proof_schema")
  ELSE IF a.seal.len <= 4 THEN Err("invalid_seal")
  ELSE IF a.unreadable THEN Err("invalid_image_id")
  ELSE IF a.digest # Sha256(a.bytes) THEN Err("journal_digest_mismatch")
  ELSE IF ~Decode(a.bytes).ok THEN Err("invalid_public_journal")
  ELSE LET journal == Decode(a.bytes).value
       IN  IF journal.evaluator_image_id # a.image
           THEN Err("evaluator_image_id_mismatch")
           ELSE IF ShapeOfPlan(a.plan) # "valid" THEN Err("invalid_action_plan")
           ELSE IF journal.action_plan_hash # Sha256(PlanPreimage(a.plan))
           THEN Err("action_plan_hash_mismatch")
           ELSE Ok(journal)
==============================================================================
