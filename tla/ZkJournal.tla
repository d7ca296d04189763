------------------------------- MODULE ZkJournal -------------------------------
(***************************************************************************)
(* The pure core of the ZK guardrail (hackathons/stellar-real-world-zk):   *)
(* the typed action plan and the private policy with their shape rules,    *)
(* evaluate, the public journal with its encoding, the guest that proves   *)
(* an evaluation, and the two library boundaries that accept a proof       *)
(* (host/src/lib.rs and contracts/src/lib.rs).                             *)
(*                                                                         *)
(* Names, ids and symbols are natural numbers in the order of the strings  *)
(* they stand for, 0 is the empty string.  A byte string is the sequence   *)
(* of the fields written to it: every field has a fixed width or its       *)
(* length before it, so cutting a byte string into fields has one result.  *)
(* SHA-256 is taken as free of collisions.                                 *)
(***************************************************************************)
EXTENDS Naturals, Sequences

CONTRACT_VERSION == 1

\* The argument names evaluate looks for, in their order as strings.
Amount == 1
Asset == 2
Recipient == 3

Err(reason) == [ok |-> FALSE, error |-> reason]
Ok(value) == [ok |-> TRUE, value |-> value]

StrictlyIncreasing(s) == \A i \in 1 .. Len(s) - 1 : s[i] < s[i + 1]

------------------------------------------------------------------------------
(* The typed action plan *)

TypedValue == [type : {"address", "bytes", "symbol", "u64"}, v : Nat]
TypedArg == [name : Nat, value : TypedValue]

TypedActionPlan ==
  [schema_version : Nat, intent_label : STRING, action_kind : STRING, contract_id : Nat,
   function : Nat, args : Seq(TypedArg), intent_confidence_bps : Nat]

\* TypedValue::is_valid: a number may be anything, the rest is not empty.
ValidValue(value) == value.type = "u64" \/ value.v # 0

ArgNames(args) == [i \in 1 .. Len(args) |-> args[i].name]

\* Mutant: the arguments may come in any order.
AnyOrder(args) ==
  \A i, j \in 1 .. Len(args) : args[i].name = args[j].name => i = j

CanonicalOrder(args) == StrictlyIncreasing(ArgNames(args))

ShapeOfPlan(plan) ==
  IF plan.schema_version # CONTRACT_VERSION THEN "UnsupportedVersion"
  ELSE IF plan.intent_label # "ContractInvoke" THEN "InvalidIntentLabel"
  ELSE IF plan.action_kind # "soroban_contract_invoke" THEN "InvalidActionKind"
  ELSE IF plan.contract_id = 0 \/ plan.function = 0 \/ plan.args = <<>>
       THEN "EmptyRequiredField"
  ELSE IF plan.intent_confidence_bps > 10000 THEN "InvalidConfidence"
  ELSE IF \E i \in 1 .. Len(plan.args) :
            plan.args[i].name = 0 \/ ~ValidValue(plan.args[i].value)
       THEN "EmptyRequiredField"
  ELSE IF ~CanonicalOrder(plan.args) THEN "NonCanonicalOrder"
  ELSE "valid"

\* TypedActionPlan::canonical_preimage, field after field.
PlanPreimage(plan) ==
  <<"NC_ZK_ACTION_PLAN_V1", plan.schema_version, plan.intent_label,
    plan.action_kind, plan.contract_id, plan.function,
    plan.intent_confidence_bps, Len(plan.args)>>
  \o [i \in 1 .. 3 * Len(plan.args) |->
        LET arg == plan.args[(i + 2) \div 3]
        IN  CASE i % 3 = 1 -> arg.name
              [] i % 3 = 2 -> arg.value.type
              [] OTHER     -> arg.value.v]

------------------------------------------------------------------------------
(* The private policy *)

PrivatePolicy ==
  [schema_version : Nat, policy_version : Nat, commitment_salt : Nat,
   allowed_contracts : Seq(Nat), allowed_contract_functions : Seq(Nat),
   allowed_assets : Seq(Nat), allowed_recipients : Seq(Nat),
   max_amount_minor : Nat, approval_threshold_minor : Nat, min_intent_confidence_bps : Nat]

Lists(policy) ==
  {policy.allowed_contracts, policy.allowed_contract_functions,
   policy.allowed_assets, policy.allowed_recipients}

ValidList(values) ==
  /\ values # <<>>
  /\ \A i \in 1 .. Len(values) : values[i] # 0
  /\ StrictlyIncreasing(values)

\* PrivatePolicy::validate_shape().is_ok(); no caller looks at the error.
ValidPolicy(policy) ==
  /\ policy.schema_version = CONTRACT_VERSION
  /\ policy.policy_version # 0
  /\ policy.min_intent_confidence_bps <= 10000
  /\ policy.approval_threshold_minor <= policy.max_amount_minor
  /\ \A values \in Lists(policy) : ValidList(values)

\* Encoder::strings
Counted(values) == <<Len(values)>> \o values

\* Mutant: the threshold of the approval is left out of the commitment.
LimitsWithoutThreshold(policy) ==
  <<policy.max_amount_minor, policy.min_intent_confidence_bps>>

Limits(policy) ==
  <<policy.max_amount_minor, policy.approval_threshold_minor,
    policy.min_intent_confidence_bps>>

\* PrivatePolicy::canonical_preimage
PolicyPreimage(policy) ==
  <<"NC_ZK_PRIVATE_POLICY_V1", policy.schema_version, policy.policy_version,
    policy.commitment_salt>>
  \o Counted(policy.allowed_contracts)
  \o Counted(policy.allowed_contract_functions)
  \o Counted(policy.allowed_assets) \o Counted(policy.allowed_recipients)
  \o Limits(policy)

------------------------------------------------------------------------------
(* The decision *)

Decision(status, exit, reason, approval) ==
  [decision_status |-> status, exit_code |-> exit, reason_code |-> reason,
   requires_approval |-> approval]

Approved == Decision("Approved", "Passed", "Passed", FALSE)
RequiresApproval ==
  Decision("RequiresApproval", "Passed", "ApprovalThreshold", TRUE)
Blocked(code) == Decision("Blocked", code, code, FALSE)

\* contains_sorted and find_arg search a list whose order was checked before.
Contains(values, target) == \E i \in 1 .. Len(values) : values[i] = target

\* The value of the argument, if it is there and has the type.
HasArg(plan, name, type) ==
  \E i \in 1 .. Len(plan.args) :
    plan.args[i].name = name /\ plan.args[i].value.type = type

Arg(plan, name) ==
  plan.args[CHOOSE i \in 1 .. Len(plan.args) : plan.args[i].name = name].value.v

\* "{contract_id}:{function}" as one entry of the sorted list.
ContractFunction(id, function) == 10 * id + function

\* Mutant: the operands are swapped.
ConfidenceSwapped(plan, policy) ==
  policy.min_intent_confidence_bps >= plan.intent_confidence_bps

Confident(plan, policy) ==
  plan.intent_confidence_bps >= policy.min_intent_confidence_bps

\* Mutant: an amount above the limit only asks for approval.
WithinSoftLimits(plan, policy) ==
  /\ Contains(policy.allowed_assets, Arg(plan, Asset))
  /\ Contains(policy.allowed_recipients, Arg(plan, Recipient))

WithinLimits(plan, policy) ==
  /\ Contains(policy.allowed_assets, Arg(plan, Asset))
  /\ Contains(policy.allowed_recipients, Arg(plan, Recipient))
  /\ Arg(plan, Amount) <= policy.max_amount_minor

\* evaluate: the gates in their order.
Evaluate(plan, policy) ==
  IF ShapeOfPlan(plan) # "valid" THEN Blocked("IntentSafety")
  ELSE IF ~ValidPolicy(policy) THEN Blocked("ContractPolicy")
  ELSE IF ~Contains(policy.allowed_contracts, plan.contract_id)
       THEN Blocked("Allowlist")
  ELSE IF ~Contains(policy.allowed_contract_functions,
                    ContractFunction(plan.contract_id, plan.function))
       THEN Blocked("ContractPolicy")
  ELSE IF \/ ~Confident(plan, policy)
          \/ ~HasArg(plan, Amount, "u64")
          \/ ~HasArg(plan, Asset, "symbol")
          \/ ~HasArg(plan, Recipient, "address")
       THEN Blocked("IntentSafety")
  ELSE IF ~WithinLimits(plan, policy) THEN Blocked("ContractPolicy")
  ELSE IF Arg(plan, Amount) >= policy.approval_threshold_minor
       THEN RequiresApproval
  ELSE Approved

------------------------------------------------------------------------------
(* The public journal *)

\* The combinations validate_semantics accepts.
ValidDecisions ==
  {Approved, RequiresApproval}
  \cup {Blocked(code) : code \in {"Allowlist", "ContractPolicy", "IntentSafety"}}

DecisionOf(journal) ==
  Decision(journal.decision_status, journal.exit_code, journal.reason_code,
           journal.requires_approval)

ValidJournal(journal) ==
  /\ journal.contract_version = CONTRACT_VERSION
  /\ journal.policy_version # 0
  /\ DecisionOf(journal) \in ValidDecisions

IntoJournal(decision, image, plan_hash, commitment, version, nullifier) ==
  [contract_version |-> CONTRACT_VERSION, evaluator_image_id |-> image,
   action_plan_hash |-> plan_hash, policy_commitment |-> commitment,
   policy_version |-> version,
   decision_status |-> decision.decision_status,
   exit_code |-> decision.exit_code, reason_code |-> decision.reason_code,
   requires_approval |-> decision.requires_approval,
   audit_nullifier |-> nullifier]

\* The bytes of the three enums (repr(u8)), by name.
StatusTag == [Approved |-> 0, Blocked |-> 1, RequiresApproval |-> 2]
ExitTag == [Passed |-> 0, Allowlist |-> 3, ContractPolicy |-> 4, IntentSafety |-> 5]
ReasonTag == [Passed |-> 0, Allowlist |-> 1, ContractPolicy |-> 2,
              IntentSafety |-> 3, ApprovalThreshold |-> 4,
              InvalidAttestation |-> 5, Replay |-> 6]
ApprovalTag(required) == IF required THEN 1 ELSE 0

Encode(journal) ==
  <<"NC_ZK_PUBLIC_JOURNAL_V1", journal.contract_version,
    journal.evaluator_image_id, journal.action_plan_hash,
    journal.policy_commitment, journal.policy_version,
    StatusTag[journal.decision_status], ExitTag[journal.exit_code],
    ReasonTag[journal.reason_code], ApprovalTag(journal.requires_approval),
    journal.audit_nullifier>>

IsTag(table, tag) == \E name \in DOMAIN table : table[name] = tag
FromTag(table, tag) == CHOOSE name \in DOMAIN table : table[name] = tag

EncodedFields == 11

Decoded(bytes) ==
  [contract_version |-> bytes[2], evaluator_image_id |-> bytes[3],
   action_plan_hash |-> bytes[4], policy_commitment |-> bytes[5],
   policy_version |-> bytes[6],
   decision_status |-> FromTag(StatusTag, bytes[7]),
   exit_code |-> FromTag(ExitTag, bytes[8]),
   reason_code |-> FromTag(ReasonTag, bytes[9]),
   requires_approval |-> bytes[10] # 0, audit_nullifier |-> bytes[11]]

\* Mutant: every byte but 0 stands for an approval that is required.
AnyByte(byte) == TRUE

IsApprovalByte(byte) == byte \in {0, 1}

\* PublicJournal::decode: every byte is read and has one meaning.
Decode(bytes) ==
  IF Len(bytes) # EncodedFields \/ bytes[1] # "NC_ZK_PUBLIC_JOURNAL_V1"
  THEN Err("InvalidEncoding")
  ELSE IF ~(/\ IsTag(StatusTag, bytes[7])
            /\ IsTag(ExitTag, bytes[8])
            /\ IsTag(ReasonTag, bytes[9]))
  THEN Err("InvalidEnumTag")
  ELSE IF ~IsApprovalByte(bytes[10]) THEN Err("InvalidEncoding")
  ELSE IF ValidJournal(Decoded(bytes)) THEN Ok(Decoded(bytes))
  ELSE Err("InvalidJournalSemantics")

------------------------------------------------------------------------------
(* The guest *)

Sha256(preimage) == <<"sha256", preimage>>

\* audit_nullifier_preimage
NullifierPreimage(image, plan_hash, commitment, nonce) ==
  <<"NC_ZK_AUDIT_NULLIFIER_V1", image, plan_hash, commitment, nonce>>

\* execute of guest/src/lib.rs: no journal at all for a shape that is invalid.
GuestJournal(image, plan, policy, nonce) ==
  LET plan_hash == Sha256(PlanPreimage(plan))
      commitment == Sha256(PolicyPreimage(policy))
  IN  IntoJournal(Evaluate(plan, policy), image, plan_hash, commitment,
        policy.policy_version,
        Sha256(NullifierPreimage(image, plan_hash, commitment, nonce)))

Execute(image, plan, policy, nonce) ==
  LET journal == GuestJournal(image, plan, policy, nonce)
  IN  IF ShapeOfPlan(plan) # "valid" THEN Err(ShapeOfPlan(plan))
      ELSE IF ~ValidPolicy(policy) THEN Err("InvalidPolicy")
      ELSE IF ~ValidJournal(journal) THEN Err("InvalidJournalSemantics")
      ELSE Ok(Encode(journal))

------------------------------------------------------------------------------
(* The library boundaries *)

\* AcceptedAttestation::next_step, the same in both libraries.
NextStep(journal) ==
  IF journal.decision_status = "Approved" THEN "EligibleForSeparateApprovalFlow"
  ELSE journal.decision_status

\* Mutant: the image of the journal is not compared.
HostVerifyAnyImage(image, bytes, sealLen, genuine) ==
  IF sealLen = 0 THEN Err("EmptyReceiptSeal")
  ELSE IF ~genuine THEN Err("ReceiptRejected")
  ELSE IF ~Decode(bytes).ok THEN Err("InvalidJournal")
  ELSE Ok(Decode(bytes).value)

\* verify_attestation of host/src/lib.rs.  "genuine" is the answer of the
\* receipt verifier for this image, these bytes and this seal.
HostVerify(image, bytes, sealLen, genuine) ==
  IF sealLen = 0 THEN Err("EmptyReceiptSeal")
  ELSE IF ~genuine THEN Err("ReceiptRejected")
  ELSE IF ~Decode(bytes).ok THEN Err("InvalidJournal")
  ELSE IF Decode(bytes).value.evaluator_image_id # image
       THEN Err("ImageIdMismatch")
  ELSE Ok(Decode(bytes).value)

\* verify_and_consume of contracts/src/lib.rs on a nullifier store that is
\* there or not; the store changes in the last step or not at all.
BoundaryConsume(image, bytes, sealLen, genuine, available, consumed) ==
  LET checked == HostVerify(image, bytes, sealLen, genuine)
      nullifier == checked.value.audit_nullifier
  IN  IF ~checked.ok \/ ~available
      THEN [answer |-> Err("InvalidAttestation"), consumed |-> consumed]
      ELSE IF nullifier \in consumed
      THEN [answer |-> Err("Replay"), consumed |-> consumed]
      ELSE [answer |-> checked, consumed |-> consumed \cup {nullifier}]
==============================================================================
