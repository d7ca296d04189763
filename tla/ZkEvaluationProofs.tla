-------------------------- MODULE ZkEvaluationProofs --------------------------
(***************************************************************************)
(* Proofs about one run of the prover (ZkEvaluation) for every set of      *)
(* plans and policies of the types of the code.                            *)
(*                                                                         *)
(* The run has two steps, so its invariant is short: a proof is what the   *)
(* guest returns for the input, and an artifact is made of the bytes of a  *)
(* proof.  The rest is about the operators: searching a strictly           *)
(* increasing list has one result, the two preimages can be read back, and *)
(* so can a journal.  SHA-256 is free of collisions in ZkJournal, so       *)
(* "equal hashes" means equal preimages here.                              *)
(***************************************************************************)
EXTENDS ZkEvaluation, TLAPS, WellFoundedInduction, SequenceTheorems

(* Increasing lists. *)

\* A set of natural numbers that is not empty has a least element.
LEMMA NatSetHasMin ==
  ASSUME NEW S \in SUBSET Nat, S # {}
  PROVE  \E i \in S : \A j \in S : i <= j
<1>1. IsWellFoundedOn(OpToRel(<, Nat), Nat)
  BY NatLessThanWellFounded
<1>2. PICK i \in S : ~\E j \in S : <<j, i>> \in OpToRel(<, Nat)
  BY <1>1, WFMin, Zenon
<1>3. \A j \in S : ~(j < i)
  BY <1>2 DEF OpToRel
<1> QED
  BY <1>3

\* Neighbours that increase make a list that increases.
LEMMA IncreasingOrder ==
  ASSUME NEW s \in Seq(Nat), StrictlyIncreasing(s), NEW i \in 1..Len(s), NEW j \in 1..Len(s),
         i < j
  PROVE  s[i] < s[j]
<1> DEFINE Bad == {k \in 1..Len(s) : i < k /\ ~(s[i] < s[k])}
<1>1. SUFFICES ASSUME Bad # {} PROVE FALSE
  OBVIOUS
<1>2. Bad \in SUBSET Nat
  OBVIOUS
<1>3. PICK k \in Bad : \A m \in Bad : k <= m
  <2> HIDE DEF Bad
  <2> QED
    BY <1>1, <1>2, NatSetHasMin
<1>4. k \in 1..Len(s) /\ i < k /\ ~(s[i] < s[k])
  OBVIOUS
<1>5. k - 1 \in 1..Len(s) - 1 /\ k - 1 \notin Bad /\ k - 1 < k
  <2>1. k - 1 < k /\ k - 1 \in 1..Len(s) - 1
    BY <1>4
  <2> QED
    BY <1>3, <2>1
<1>6. s[k - 1] < s[k]
  <2>1. \A m \in 1..Len(s) - 1 : s[m] < s[m + 1]
    BY DEF StrictlyIncreasing
  <2>2. k - 1 + 1 = k
    BY <1>4
  <2> QED
    BY <1>5, <2>1, <2>2
<1>7. i = k - 1 \/ s[i] < s[k - 1]
  BY <1>4, <1>5
<1>8. s[i] \in Nat /\ s[k] \in Nat /\ s[k - 1] \in Nat
  BY <1>4, <1>5, SMTT(30)
<1> QED
  BY <1>4, <1>6, <1>7, <1>8

\* The arguments of a plan in canonical order have different names, in order.
LEMMA ArgNamesIncrease ==
  ASSUME NEW args \in Seq(TypedArg), CanonicalOrder(args),
         NEW i \in 1..Len(args), NEW j \in 1..Len(args)
  PROVE  /\ i < j => args[i].name < args[j].name
         /\ args[i].name = args[j].name => i = j
         /\ args[i].name \in Nat
<1> DEFINE names == ArgNames(args)
<1>1. \A k \in 1..Len(args) : args[k] \in TypedArg /\ args[k].name \in Nat
  <2>1. \A a \in TypedArg : a.name \in Nat
    BY DEF TypedArg
  <2>2. \A k \in 1..Len(args) : args[k] \in TypedArg
    OBVIOUS
  <2> QED
    BY <2>1, <2>2
<1>2. /\ names \in Seq(Nat) /\ Len(names) = Len(args)
      /\ \A k \in 1..Len(args) : names[k] = args[k].name
  <2>1. Len(args) \in Nat
    OBVIOUS
  <2> QED
    BY <1>1, <2>1 DEF ArgNames
<1>3. StrictlyIncreasing(names)
  BY DEF CanonicalOrder
<1> HIDE DEF names
<1>4. ASSUME NEW k \in 1..Len(args), NEW m \in 1..Len(args), k < m
      PROVE  args[k].name < args[m].name
  <2>1. names[k] < names[m]
    BY <1>2, <1>3, <1>4, IncreasingOrder
  <2> QED
    BY <1>2, <2>1
<1> QED
  BY <1>1, <1>4

\* Two argument lists in canonical order with the same arguments are one list.
LEMMA FirstArgsAgree ==
  ASSUME NEW s \in Seq(TypedArg), NEW t \in Seq(TypedArg),
         CanonicalOrder(s), CanonicalOrder(t), Entries(s) = Entries(t)
  PROVE  \A i \in 1..Len(s) : i \in 1..Len(t) /\ t[i] = s[i]
<1> DEFINE Bad == {k \in 1..Len(s) : ~(k \in 1..Len(t) /\ t[k] = s[k])}
<1>1. SUFFICES ASSUME Bad # {} PROVE FALSE
  OBVIOUS
<1>2. Bad \in SUBSET Nat
  OBVIOUS
<1>3. PICK i \in Bad : \A m \in Bad : i <= m
  <2> HIDE DEF Bad
  <2> QED
    BY <1>1, <1>2, NatSetHasMin
<1>4. i \in 1..Len(s) /\ ~(i \in 1..Len(t) /\ t[i] = s[i])
  OBVIOUS
<1>5. \A m \in 1..Len(s) : m < i => m \in 1..Len(t) /\ t[m] = s[m]
  BY <1>3, <1>4
<1> HIDE DEF Bad
<1>6. PICK k \in 1..Len(t) : s[i] = t[k]
  <2>1. s[i] \in Entries(t)
    BY <1>4 DEF Entries
  <2> QED
    BY <2>1 DEF Entries
<1>7. i <= k
  <2>1. SUFFICES ASSUME k < i PROVE FALSE
    BY <1>4
  <2>2. k \in 1..Len(s) /\ s[k] = s[i]
    BY <1>4, <1>5, <1>6, <2>1
  <2> QED
    BY <1>4, <2>1, <2>2, ArgNamesIncrease
<1>8. i \in 1..Len(t)
  BY <1>4, <1>6, <1>7
<1>9. PICK m \in 1..Len(s) : t[i] = s[m]
  <2>1. t[i] \in Entries(s)
    BY <1>8 DEF Entries
  <2> QED
    BY <2>1 DEF Entries
<1>10. i <= m
  <2>1. SUFFICES ASSUME m < i PROVE FALSE
    BY <1>4
  <2>2. m \in 1..Len(t) /\ t[m] = t[i]
    BY <1>5, <1>9, <2>1
  <2> QED
    BY <1>8, <2>1, <2>2, ArgNamesIncrease
<1>11. i < k
  BY <1>4, <1>6, <1>7, <1>8
<1>12. t[i].name < t[k].name
  BY <1>8, <1>11, ArgNamesIncrease
<1>13. s[i].name < s[m].name \/ i = m
  BY <1>4, <1>10, ArgNamesIncrease
<1>14. s[i].name \in Nat /\ s[m].name \in Nat
  BY <1>4, ArgNamesIncrease
<1> QED
  BY <1>6, <1>9, <1>12, <1>13, <1>14

LEMMA CanonicalArgsAreUnique ==
  ASSUME NEW s \in Seq(TypedArg), NEW t \in Seq(TypedArg),
         CanonicalOrder(s), CanonicalOrder(t), Entries(s) = Entries(t)
  PROVE  s = t
<1>1. \A i \in 1..Len(s) : i \in 1..Len(t) /\ t[i] = s[i]
  BY FirstArgsAgree
<1>2. \A i \in 1..Len(t) : i \in 1..Len(s) /\ s[i] = t[i]
  BY FirstArgsAgree
<1>3. Len(s) \in Nat /\ Len(t) \in Nat
  OBVIOUS
<1>4. Len(s) <= Len(t)
  BY <1>1, <1>3
<1>5. Len(t) <= Len(s)
  BY <1>2, <1>3
<1>6. Len(s) = Len(t)
  BY <1>3, <1>4, <1>5
<1> QED
  BY <1>1, <1>6

------------------------------------------------------------------------------
(* The decision. *)

\* The gates a decision other than Blocked has passed.
Passes(p, q) ==
  /\ ShapeOfPlan(p) = "valid" /\ ValidPolicy(q)
  /\ Contains(q.allowed_contracts, p.contract_id)
  /\ Contains(q.allowed_contract_functions, ContractFunction(p.contract_id, p.function))
  /\ Confident(p, q)
  /\ HasArg(p, Amount, "u64") /\ HasArg(p, Asset, "symbol") /\ HasArg(p, Recipient, "address")
  /\ WithinLimits(p, q)

\* evaluate blocks whatever fails a gate and asks for approval at the threshold.
LEMMA Decisions ==
  ASSUME NEW p, NEW q
  PROVE  /\ ~Passes(p, q) =>
              \E code \in {"Allowlist", "ContractPolicy", "IntentSafety"} :
                Evaluate(p, q) = Blocked(code)
         /\ Passes(p, q) /\ Arg(p, Amount) >= q.approval_threshold_minor =>
              Evaluate(p, q) = RequiresApproval
         /\ Passes(p, q) /\ ~(Arg(p, Amount) >= q.approval_threshold_minor) =>
              Evaluate(p, q) = Approved
BY DEF Evaluate, Passes

LEMMA DecisionFreedom ==
  /\ Freedom(Approved) = 2 /\ Freedom(RequiresApproval) = 1
  /\ \A code : Freedom(Blocked(code)) = 0
  /\ Approved.decision_status # "Blocked" /\ RequiresApproval.decision_status # "Blocked"
  /\ \A code : Blocked(code).decision_status = "Blocked"
  /\ Approved # RequiresApproval
BY DEF Approved, RequiresApproval, Blocked, Decision, Freedom

\* find_arg finds an argument of the plan.
LEMMA ArgIsThere ==
  ASSUME NEW p \in TypedActionPlan, NEW name, NEW type, HasArg(p, name, type)
  PROVE  \E i \in 1..Len(p.args) :
           /\ p.args[i].name = name /\ Arg(p, name) = p.args[i].value.v
           /\ p.args[i] \in TypedArg /\ Arg(p, name) \in Nat
<1> DEFINE found == CHOOSE i \in 1..Len(p.args) : p.args[i].name = name
<1>1. found \in 1..Len(p.args) /\ p.args[found].name = name
  BY DEF HasArg
<1>2. Arg(p, name) = p.args[found].value.v
  BY DEF Arg
<1>3. p.args \in Seq(TypedArg)
  BY DEF TypedActionPlan
<1> HIDE DEF found
<1>4. p.args[found] \in TypedArg
  BY <1>1, <1>3
<1>5. \A a \in TypedArg : a.value.v \in Nat
  BY DEF TypedArg, TypedValue
<1> QED
  BY <1>1, <1>2, <1>4, <1>5

\* In canonical order it is the one that has the type.
LEMMA FoundArgHasType ==
  ASSUME NEW p \in TypedActionPlan, ShapeOfPlan(p) = "valid",
         NEW name, NEW type, HasArg(p, name, type)
  PROVE  [name |-> name, value |-> [type |-> type, v |-> Arg(p, name)]] \in Entries(p.args)
<1>1. p.args \in Seq(TypedArg)
  BY DEF TypedActionPlan
<1>2. CanonicalOrder(p.args)
  BY DEF ShapeOfPlan
<1>3. PICK i \in 1..Len(p.args) : p.args[i].name = name /\ Arg(p, name) = p.args[i].value.v
  BY ArgIsThere
<1>4. PICK j \in 1..Len(p.args) : p.args[j].name = name /\ p.args[j].value.type = type
  BY DEF HasArg
<1>5. i = j
  BY <1>1, <1>2, <1>3, <1>4, ArgNamesIncrease
<1>6. p.args[i] \in TypedArg
  BY <1>1
<1>7. \A a \in TypedArg : a = [name |-> a.name, value |-> [type |-> a.value.type, v |-> a.value.v]]
  BY DEF TypedArg, TypedValue
<1>8. p.args[i] = [name |-> name, value |-> [type |-> type, v |-> Arg(p, name)]]
  BY <1>3, <1>4, <1>5, <1>6, <1>7
<1> QED
  BY <1>8 DEF Entries

LEMMA ContainsIsEntry ==
  ASSUME NEW values, NEW target
  PROVE  Contains(values, target) <=> target \in Entries(values)
BY DEF Contains, Entries

\* A policy that allows less never lets more through.
LEMMA TighterIsNoFreer ==
  ASSUME NEW a \in TypedActionPlan, NEW p \in PrivatePolicy, NEW q \in PrivatePolicy,
         ValidPolicy(q), Tighter(p, q)
  PROVE  Freedom(Evaluate(a, p)) <= Freedom(Evaluate(a, q))
<1>1. CASE ~Passes(a, p)
  <2>1. Freedom(Evaluate(a, p)) = 0
    BY <1>1, Decisions, DecisionFreedom
  <2>2. Freedom(Evaluate(a, q)) \in {0, 1, 2}
    BY Decisions, DecisionFreedom
  <2> QED
    BY <2>1, <2>2
<1>2. CASE Passes(a, p)
  <2>1. /\ p.max_amount_minor \in Nat /\ q.max_amount_minor \in Nat
        /\ p.approval_threshold_minor \in Nat /\ q.approval_threshold_minor \in Nat
        /\ p.min_intent_confidence_bps \in Nat /\ q.min_intent_confidence_bps \in Nat
        /\ a.intent_confidence_bps \in Nat
    BY DEF PrivatePolicy, TypedActionPlan
  <2>2. Arg(a, Amount) \in Nat
    BY <1>2, ArgIsThere DEF Passes
  <2>3. /\ Contains(q.allowed_contracts, a.contract_id)
        /\ Contains(q.allowed_contract_functions, ContractFunction(a.contract_id, a.function))
        /\ Contains(q.allowed_assets, Arg(a, Asset))
        /\ Contains(q.allowed_recipients, Arg(a, Recipient))
    BY <1>2, ContainsIsEntry DEF Passes, WithinLimits, Tighter
  <2>4. Confident(a, q)
    BY <1>2, <2>1 DEF Passes, Confident, Tighter
  <2>5. Arg(a, Amount) <= q.max_amount_minor
    BY <1>2, <2>1, <2>2 DEF Passes, WithinLimits, Tighter
  <2>6. Passes(a, q)
    BY <1>2, <2>3, <2>4, <2>5 DEF Passes, WithinLimits
  <2>7. Arg(a, Amount) >= q.approval_threshold_minor
          => Arg(a, Amount) >= p.approval_threshold_minor
    BY <2>1, <2>2 DEF Tighter
  <2> QED
    BY <1>2, <2>6, <2>7, Decisions, DecisionFreedom
<1> QED
  BY <1>1, <1>2

\* What passes is inside the policy in every respect.
LEMMA PassedIsWithin ==
  ASSUME NEW p \in TypedActionPlan, NEW q \in PrivatePolicy, Passes(p, q)
  PROVE  /\ p.contract_id \in Entries(q.allowed_contracts)
         /\ ContractFunction(p.contract_id, p.function) \in Entries(q.allowed_contract_functions)
         /\ \E amount \in 0 .. q.max_amount_minor :
              /\ [name |-> Amount, value |-> [type |-> "u64", v |-> amount]] \in Entries(p.args)
              /\ Evaluate(p, q) = Approved => amount < q.approval_threshold_minor
         /\ \E asset \in Entries(q.allowed_assets) :
              [name |-> Asset, value |-> [type |-> "symbol", v |-> asset]] \in Entries(p.args)
         /\ \E recipient \in Entries(q.allowed_recipients) :
              [name |-> Recipient, value |-> [type |-> "address", v |-> recipient]]
                \in Entries(p.args)
<1>1. /\ p.contract_id \in Entries(q.allowed_contracts)
      /\ ContractFunction(p.contract_id, p.function) \in Entries(q.allowed_contract_functions)
      /\ Arg(p, Asset) \in Entries(q.allowed_assets)
      /\ Arg(p, Recipient) \in Entries(q.allowed_recipients)
  BY ContainsIsEntry DEF Passes, WithinLimits
<1>2. ShapeOfPlan(p) = "valid" /\ HasArg(p, Amount, "u64") /\ HasArg(p, Asset, "symbol")
      /\ HasArg(p, Recipient, "address") /\ Arg(p, Amount) <= q.max_amount_minor
  BY DEF Passes, WithinLimits
<1>3. /\ [name |-> Amount, value |-> [type |-> "u64", v |-> Arg(p, Amount)]] \in Entries(p.args)
      /\ [name |-> Asset, value |-> [type |-> "symbol", v |-> Arg(p, Asset)]] \in Entries(p.args)
      /\ [name |-> Recipient, value |-> [type |-> "address", v |-> Arg(p, Recipient)]]
           \in Entries(p.args)
  BY <1>2, FoundArgHasType
<1>4. Arg(p, Amount) \in Nat /\ q.max_amount_minor \in Nat /\ q.approval_threshold_minor \in Nat
  BY <1>2, ArgIsThere DEF PrivatePolicy
<1>5. Arg(p, Amount) \in 0 .. q.max_amount_minor
  BY <1>2, <1>4
<1>6. Evaluate(p, q) = Approved => Arg(p, Amount) < q.approval_threshold_minor
  BY <1>4, Decisions, DecisionFreedom
<1> QED
  BY <1>1, <1>3, <1>5, <1>6

------------------------------------------------------------------------------
(* The journal. *)

\* A tag read back is the tag.
LEMMA TagOfName ==
  ASSUME NEW table, NEW tag, IsTag(table, tag)
  PROVE  FromTag(table, tag) \in DOMAIN table /\ table[FromTag(table, tag)] = tag
BY DEF IsTag, FromTag

\* Every byte of an enum stands for one name.
LEMMA NameOfTag ==
  /\ \A name \in DOMAIN StatusTag :
       IsTag(StatusTag, StatusTag[name]) /\ FromTag(StatusTag, StatusTag[name]) = name
  /\ \A name \in DOMAIN ExitTag :
       IsTag(ExitTag, ExitTag[name]) /\ FromTag(ExitTag, ExitTag[name]) = name
  /\ \A name \in DOMAIN ReasonTag :
       IsTag(ReasonTag, ReasonTag[name]) /\ FromTag(ReasonTag, ReasonTag[name]) = name
<1>1. ASSUME NEW table, \A n, m \in DOMAIN table : table[n] = table[m] => n = m,
             NEW name \in DOMAIN table
      PROVE  IsTag(table, table[name]) /\ FromTag(table, table[name]) = name
  <2>1. IsTag(table, table[name])
    BY DEF IsTag
  <2>2. /\ FromTag(table, table[name]) \in DOMAIN table
        /\ table[FromTag(table, table[name])] = table[name]
    BY <2>1, TagOfName
  <2> QED
    BY <1>1, <2>1, <2>2
<1>2. \A n, m \in DOMAIN StatusTag : StatusTag[n] = StatusTag[m] => n = m
  BY DEF StatusTag
<1>3. \A n, m \in DOMAIN ExitTag : ExitTag[n] = ExitTag[m] => n = m
  BY DEF ExitTag
<1>4. \A n, m \in DOMAIN ReasonTag : ReasonTag[n] = ReasonTag[m] => n = m
  BY DEF ReasonTag
<1> QED
  BY <1>1, <1>2, <1>3, <1>4

\* The shape of the bytes the decoder accepts.
LEMMA DecodeAccepts ==
  ASSUME NEW bytes, Decode(bytes).ok
  PROVE  /\ Decode(bytes) = Ok(Decoded(bytes)) /\ Decode(bytes).value = Decoded(bytes)
         /\ Len(bytes) = 11 /\ bytes[1] = "NC_ZK_PUBLIC_JOURNAL_V1"
         /\ IsTag(StatusTag, bytes[7]) /\ IsTag(ExitTag, bytes[8]) /\ IsTag(ReasonTag, bytes[9])
         /\ bytes[10] \in {0, 1}
         /\ ValidJournal(Decoded(bytes))
<1>1. \A reason : ~Err(reason).ok
  BY DEF Err
<1>2. \A value : Ok(value).value = value
  BY DEF Ok
<1> QED
  BY <1>1, <1>2 DEF Decode, EncodedFields, IsApprovalByte

\* Whatever the decoder accepts is the encoding of what it returns.
LEMMA EncodeOfDecode ==
  ASSUME NEW S, NEW bytes \in Seq(S), Decode(bytes).ok
  PROVE  Encode(Decode(bytes).value) = bytes
<1> DEFINE j == Decoded(bytes)
<1>1. /\ Len(bytes) = 11 /\ bytes[1] = "NC_ZK_PUBLIC_JOURNAL_V1"
      /\ IsTag(StatusTag, bytes[7]) /\ IsTag(ExitTag, bytes[8]) /\ IsTag(ReasonTag, bytes[9])
      /\ bytes[10] \in {0, 1}
      /\ Decode(bytes).value = j
  BY DecodeAccepts
<1>2. /\ j.contract_version = bytes[2] /\ j.evaluator_image_id = bytes[3]
      /\ j.action_plan_hash = bytes[4] /\ j.policy_commitment = bytes[5]
      /\ j.policy_version = bytes[6]
      /\ j.decision_status = FromTag(StatusTag, bytes[7])
      /\ j.exit_code = FromTag(ExitTag, bytes[8])
      /\ j.reason_code = FromTag(ReasonTag, bytes[9])
      /\ j.audit_nullifier = bytes[11]
  BY DEF Decoded
<1>3. j.requires_approval <=> bytes[10] # 0
  <2> DEFINE h == bytes[10] # 0
  <2>1. h \in BOOLEAN
    OBVIOUS
  <2>2. Decoded(bytes).requires_approval = h
    <3> HIDE DEF h
    <3>1. Decoded(bytes) =
            [contract_version |-> bytes[2], evaluator_image_id |-> bytes[3],
             action_plan_hash |-> bytes[4], policy_commitment |-> bytes[5],
             policy_version |-> bytes[6],
             decision_status |-> FromTag(StatusTag, bytes[7]),
             exit_code |-> FromTag(ExitTag, bytes[8]),
             reason_code |-> FromTag(ReasonTag, bytes[9]),
             requires_approval |-> h, audit_nullifier |-> bytes[11]]
      BY Zenon DEF Decoded, h
    <3> QED
      BY <2>1, <3>1
  <2> QED
    BY <2>1, <2>2
<1>4. /\ StatusTag[j.decision_status] = bytes[7] /\ ExitTag[j.exit_code] = bytes[8]
      /\ ReasonTag[j.reason_code] = bytes[9]
  BY <1>1, <1>2, TagOfName
<1>5. ApprovalTag(j.requires_approval) = bytes[10]
  BY <1>1, <1>3 DEF ApprovalTag
<1> HIDE DEF j
<1>6. Encode(j) = <<bytes[1], bytes[2], bytes[3], bytes[4], bytes[5], bytes[6], bytes[7], bytes[8],
                    bytes[9], bytes[10], bytes[11]>>
  BY <1>1, <1>2, <1>4, <1>5 DEF Encode
<1>7. bytes = <<bytes[1], bytes[2], bytes[3], bytes[4], bytes[5], bytes[6], bytes[7], bytes[8],
                bytes[9], bytes[10], bytes[11]>>
  BY <1>1
<1> QED
  BY <1>1, <1>6, <1>7

\* A journal the guest commits can be decoded, and to itself.
LEMMA DecodeOfEncode ==
  ASSUME NEW decision \in ValidDecisions, NEW image, NEW plan_hash, NEW commitment,
         NEW version, NEW nullifier,
         NEW j, j = IntoJournal(decision, image, plan_hash, commitment, version, nullifier),
         ValidJournal(j)
  PROVE  Decode(Encode(j)) = Ok(j)
<1> DEFINE bytes == Encode(j)
<1>1. PICK status \in DOMAIN StatusTag, exit \in DOMAIN ExitTag, reason \in DOMAIN ReasonTag,
           approval \in BOOLEAN : decision = Decision(status, exit, reason, approval)
  BY DEF ValidDecisions, Approved, RequiresApproval, Blocked, StatusTag, ExitTag, ReasonTag
<1>2. /\ decision.decision_status = status /\ decision.exit_code = exit
      /\ decision.reason_code = reason /\ decision.requires_approval = approval
  BY <1>1 DEF Decision
<1>3. j = [contract_version |-> CONTRACT_VERSION, evaluator_image_id |-> image,
           action_plan_hash |-> plan_hash, policy_commitment |-> commitment,
           policy_version |-> version, decision_status |-> status, exit_code |-> exit,
           reason_code |-> reason, requires_approval |-> approval,
           audit_nullifier |-> nullifier]
  BY <1>2 DEF IntoJournal
<1>4. bytes = <<"NC_ZK_PUBLIC_JOURNAL_V1", CONTRACT_VERSION, image, plan_hash, commitment, version,
                StatusTag[status], ExitTag[exit], ReasonTag[reason], ApprovalTag(approval),
                nullifier>>
  BY <1>3 DEF Encode
<1>5. /\ Len(bytes) = 11 /\ bytes[1] = "NC_ZK_PUBLIC_JOURNAL_V1"
      /\ bytes[2] = CONTRACT_VERSION /\ bytes[3] = image /\ bytes[4] = plan_hash
      /\ bytes[5] = commitment /\ bytes[6] = version /\ bytes[7] = StatusTag[status]
      /\ bytes[8] = ExitTag[exit] /\ bytes[9] = ReasonTag[reason]
      /\ bytes[10] = ApprovalTag(approval) /\ bytes[11] = nullifier
  BY <1>4
<1> HIDE DEF bytes
<1>6. bytes[10] \in {0, 1} /\ (bytes[10] # 0 <=> approval)
  BY <1>5 DEF ApprovalTag
<1>7. /\ IsTag(StatusTag, bytes[7]) /\ FromTag(StatusTag, bytes[7]) = status
      /\ IsTag(ExitTag, bytes[8]) /\ FromTag(ExitTag, bytes[8]) = exit
      /\ IsTag(ReasonTag, bytes[9]) /\ FromTag(ReasonTag, bytes[9]) = reason
  BY <1>5, NameOfTag
<1>8. Decoded(bytes) = j
  <2>1. (bytes[10] # 0) = approval
    BY <1>6
  <2> QED
    BY <1>3, <1>5, <1>7, <2>1 DEF Decoded
<1>9. Decode(bytes) = Ok(Decoded(bytes))
  BY <1>5, <1>6, <1>7, <1>8 DEF Decode, EncodedFields, IsApprovalByte
<1> QED
  BY <1>8, <1>9 DEF bytes

\* The encoding is a sequence of eleven fields.
LEMMA EncodingIsSequence ==
  ASSUME NEW j
  PROVE  \E S : Encode(j) \in Seq(S) /\ Len(Encode(j)) = 11
<1>1. ASSUME NEW a, NEW b, NEW c, NEW d, NEW e, NEW f, NEW g, NEW h, NEW i, NEW k, NEW l
      PROVE  /\ <<a, b, c, d, e, f, g, h, i, k, l>> \in Seq({a, b, c, d, e, f, g, h, i, k, l})
             /\ Len(<<a, b, c, d, e, f, g, h, i, k, l>>) = 11
  OBVIOUS
<1> QED
  BY <1>1 DEF Encode

LEMMA SeqIsFunction ==
  ASSUME NEW S, NEW s \in Seq(S)
  PROVE  s \in [1..Len(s) -> S] /\ Len(s) \in Nat
<1>1. \A i \in 1..Len(s) : s[i] \in S
  OBVIOUS
<1>2. s = [i \in 1..Len(s) |-> s[i]] /\ Len(s) \in Nat
  OBVIOUS
<1> QED
  BY <1>1, <1>2

LEMMA SeqExtensional ==
  ASSUME NEW S, NEW s \in Seq(S), NEW t \in Seq(S), Len(s) = Len(t),
         \A i \in 1..Len(s) : s[i] = t[i]
  PROVE  s = t
<1>1. s \in [1..Len(s) -> S] /\ t \in [1..Len(s) -> S]
  BY SeqIsFunction
<1> QED
  BY <1>1

LEMMA PrefixIsSequence ==
  ASSUME NEW S, NEW s \in Seq(S), NEW n \in 0..Len(s)
  PROVE  SubSeq(s, 1, n) \in Seq(S)
OBVIOUS

\* So is what becomes of it when a field is replaced, cut off or appended.
LEMMA AlteredAreSequences ==
  ASSUME NEW S, NEW bytes \in Seq(S), Len(bytes) = 11, NEW b \in Altered(bytes)
  PROVE  \E T : b \in Seq(T)
<1> DEFINE T == S \union 0 .. 7 \union {"another image"}
<1>1. S \subseteq T /\ 0 .. 7 \subseteq T /\ "another image" \in T
  BY Zenon
<1> HIDE DEF T
<1>2. bytes \in [1..11 -> T]
  <2>1. bytes \in [1..11 -> S]
    BY SeqIsFunction
  <2> QED
    BY <1>1, <2>1
<1>3. \A n \in Nat : \A f \in [1..n -> T] : f \in Seq(T)
  OBVIOUS
<1>4. bytes \in Seq(T)
  BY <1>2, <1>3
<1>5. ASSUME NEW fields \in SUBSET (1..11), NEW values \in SUBSET T
      PROVE  Replaced(bytes, fields, values) \subseteq Seq(T)
  <2>1. \A i \in fields, x \in values : [bytes EXCEPT ![i] = x] \in [1..11 -> T]
    BY <1>2
  <2>2. \A i \in fields, x \in values : [bytes EXCEPT ![i] = x] \in Seq(T)
    BY <1>3, <2>1
  <2> SUFFICES ASSUME NEW b1 \in Replaced(bytes, fields, values)
               PROVE  b1 \in Seq(T)
    BY Zenon
  <2>3. PICK i \in fields, x \in values : b1 = [bytes EXCEPT ![i] = x]
    BY SMT DEF Replaced
  <2> QED
    BY <2>2, <2>3, Zenon
<1>6. Append(bytes, 0) \in Seq(T) /\ SubSeq(bytes, 1, Len(bytes) - 1) \in Seq(T)
  <2>1. 0 \in T
    <3>1. 0 \in 0 .. 7
      OBVIOUS
    <3> QED
      BY <1>1, <3>1, Zenon
  <2>2. Append(bytes, 0) \in Seq(T)
    BY <1>4, <2>1
  <2>3. SubSeq(bytes, 1, 10) \in Seq(T)
    <3>1. 10 \in 0..Len(bytes)
      OBVIOUS
    <3> QED
      BY <1>4, <3>1, PrefixIsSequence
  <2> QED
    BY <2>2, <2>3
<1>7. /\ 7 .. 10 \in SUBSET (1..11) /\ {2, 6} \in SUBSET (1..11) /\ {3} \in SUBSET (1..11)
      /\ 0 .. 2 \subseteq 0 .. 7
  OBVIOUS
<1>8. 0 .. 7 \in SUBSET T /\ 0 .. 2 \in SUBSET T /\ {"another image"} \in SUBSET T
  BY <1>1, <1>7, Zenon
<1>9. /\ Replaced(bytes, 7 .. 10, 0 .. 7) \subseteq Seq(T)
      /\ Replaced(bytes, {2, 6}, 0 .. 2) \subseteq Seq(T)
      /\ Replaced(bytes, {3}, {"another image"}) \subseteq Seq(T)
  BY <1>5, <1>7, <1>8
<1> QED
  BY <1>4, <1>6, <1>9 DEF Altered

------------------------------------------------------------------------------
(* The verifiers. *)

LEMMA ErrOk ==
  /\ \A reason : Err(reason).ok = FALSE
  /\ \A value : Ok(value).ok = TRUE /\ Ok(value).value = value
BY DEF Err, Ok

\* What the host library accepts.
LEMMA HostAccepts ==
  ASSUME NEW image, NEW bytes, NEW len \in Nat \ {0}, NEW genuine \in BOOLEAN
  PROVE  LET host == HostVerify(image, bytes, len, genuine)
         IN  /\ host.ok <=> /\ genuine /\ Decode(bytes).ok
                            /\ Decode(bytes).value.evaluator_image_id = image
             /\ host.ok => host = Ok(Decode(bytes).value)
BY ErrOk DEF HostVerify

\* The boundary of the contract library with its store of nullifiers there.
Boundary(image, bytes, len, genuine, consumed) ==
  BoundaryConsume(image, bytes, len, genuine, TRUE, consumed)

\* The contract library accepts the same, once.
LEMMA LibraryAccepts ==
  ASSUME NEW image, NEW bytes, NEW len \in Nat \ {0}, NEW genuine \in BOOLEAN
  PROVE  /\ Boundary(image, bytes, len, genuine, {}).answer.ok
               <=> HostVerify(image, bytes, len, genuine).ok
         /\ HostVerify(image, bytes, len, genuine).ok =>
              /\ Boundary(image, bytes, len, genuine, {}).consumed
                   = {Decode(bytes).value.audit_nullifier}
              /\ \A used : used = Boundary(image, bytes, len, genuine, {}).consumed =>
                   Boundary(image, bytes, len, genuine, used).answer = Err("Replay")
         /\ ~HostVerify(image, bytes, len, genuine).ok =>
              Boundary(image, bytes, len, genuine, {}).consumed = {}
<1> DEFINE host == HostVerify(image, bytes, len, genuine)
           library == Boundary(image, bytes, len, genuine, {})
           again == Boundary(image, bytes, len, genuine, library.consumed)
           nullifier == Decode(bytes).value.audit_nullifier
<1>1. CASE host.ok
  <2>1. host = Ok(Decode(bytes).value)
    BY <1>1, HostAccepts
  <2>2. host.value.audit_nullifier = nullifier
    BY <2>1, ErrOk
  <2> HIDE DEF host
  <2>3. \A consumed : nullifier \notin consumed =>
          Boundary(image, bytes, len, genuine, consumed)
            = [answer |-> host, consumed |-> consumed \cup {nullifier}]
    BY <1>1, <2>2 DEF Boundary, BoundaryConsume, host
  <2>4. \A consumed : nullifier \in consumed =>
          Boundary(image, bytes, len, genuine, consumed)
            = [answer |-> Err("Replay"), consumed |-> consumed]
    BY <1>1, <2>2 DEF Boundary, BoundaryConsume, host
  <2>5. library = [answer |-> host, consumed |-> {nullifier}]
    <3>1. {} \cup {nullifier} = {nullifier} /\ nullifier \notin {}
      OBVIOUS
    <3> QED
      BY <2>3, <3>1
  <2> HIDE DEF library
  <2>6. library.answer = host /\ library.consumed = {nullifier}
    BY <2>5
  <2>7. again = [answer |-> Err("Replay"), consumed |-> {nullifier}]
    BY <2>4, <2>6
  <2>8. again.answer = Err("Replay")
    <3> HIDE DEF again
    <3> QED
      BY <2>7
  <2>9. host.ok /\ library.answer = host /\ library.consumed = {nullifier}
        /\ again.answer = Err("Replay")
    BY <1>1, <2>6, <2>8 DEF host
  <2> QED
    BY <1>1, <2>9, Zenon DEF library, host
<1>2. CASE ~host.ok
  <2>1. library = [answer |-> Err("InvalidAttestation"), consumed |-> {}]
    BY <1>2 DEF Boundary, BoundaryConsume
  <2> HIDE DEF library
  <2>2. library.answer = Err("InvalidAttestation") /\ library.consumed = {}
    BY <2>1
  <2> QED
    BY <1>2, <2>2, ErrOk DEF library
<1> QED
  BY <1>1, <1>2

\* A seal is longer than the selector of the router.
LEMMA SealHasProof == SealLength \in Nat \ {0} /\ ~(SealLength <= 4)
BY DEF SealLength

\* The Soroban contract accepts the same, once, when the owner calls it and has
\* authorized the policy of the journal.
LEMMA SorobanAccepts ==
  ASSUME NEW bytes, NEW genuine \in BOOLEAN,
         NEW seal, seal = [len |-> SealLength,
           proves |-> IF genuine THEN <<EvaluatorImage, bytes>> ELSE <<>>],
         NEW authorized, NEW consumed,
         NEW c, c = [authorized |-> authorized, consumed |-> consumed]
  PROVE  /\ ~HostVerify(EvaluatorImage, bytes, SealLength, genuine).ok =>
              /\ VerifyAndConsume(c, Owner, seal, bytes).answer = Err("InvalidAttestation")
              /\ VerifyAndConsume(c, Owner, seal, bytes).contract = c
         /\ /\ HostVerify(EvaluatorImage, bytes, SealLength, genuine).ok
            /\ PolicyOf(Decode(bytes).value) \in authorized
            =>
            /\ Decode(bytes).value.audit_nullifier \in consumed =>
                 /\ VerifyAndConsume(c, Owner, seal, bytes).answer = Err("Replay")
                 /\ VerifyAndConsume(c, Owner, seal, bytes).contract = c
            /\ Decode(bytes).value.audit_nullifier \notin consumed =>
                 /\ VerifyAndConsume(c, Owner, seal, bytes).answer.ok
                 /\ VerifyAndConsume(c, Owner, seal, bytes).contract
                      = [authorized |-> authorized,
                         consumed |-> consumed \cup {Decode(bytes).value.audit_nullifier}]
<1> DEFINE host == HostVerify(EvaluatorImage, bytes, SealLength, genuine)
           nullifier == Decode(bytes).value.audit_nullifier
           called == VerifyAndConsume(c, Owner, seal, bytes)
           checked == VerifyAttestation(c, seal, bytes)
<1>1. host.ok <=> /\ genuine /\ Decode(bytes).ok
                  /\ Decode(bytes).value.evaluator_image_id = EvaluatorImage
  BY SealHasProof, HostAccepts
<1>2. seal.len = SealLength /\ (RouterAccepts(seal, EvaluatorImage, bytes) <=> genuine)
  <2>1. CASE genuine
    BY <2>1 DEF RouterAccepts
  <2>2. CASE ~genuine
    BY <2>2 DEF RouterAccepts
  <2> QED
    BY <2>1, <2>2
<1>3. ~host.ok => checked = Err("InvalidAttestation")
  BY <1>1, <1>2, SealHasProof DEF VerifyAttestation
<1>4. host.ok /\ PolicyOf(Decode(bytes).value) \in authorized => checked = Ok(Decode(bytes).value)
  <2>1. c.authorized = authorized
    OBVIOUS
  <2> QED
    BY <1>1, <1>2, <2>1, SealHasProof DEF VerifyAttestation, PolicyAuthorized
<1>5. \A answer, next : Answer(answer, next).answer = answer /\ Answer(answer, next).contract = next
  BY DEF Answer
<1> HIDE DEF host
<1>6. CASE ~host.ok
  <2>1. called = Answer(checked, c)
    BY <1>3, <1>6, ErrOk DEF VerifyAndConsume
  <2> QED
    BY <1>3, <1>5, <1>6, <2>1 DEF host
<1>7. ASSUME host.ok, PolicyOf(Decode(bytes).value) \in authorized
      PROVE  /\ nullifier \in consumed => called.answer = Err("Replay") /\ called.contract = c
             /\ nullifier \notin consumed =>
                  /\ called.answer.ok
                  /\ called.contract = [authorized |-> authorized,
                                        consumed |-> consumed \cup {nullifier}]
  <2>1. checked.ok /\ checked.value.audit_nullifier = nullifier
    BY <1>4, <1>7, ErrOk
  <2>2. NotConsumed(c, nullifier) <=> nullifier \notin consumed
    BY DEF NotConsumed
  <2>3. [c EXCEPT !.consumed = @ \cup {nullifier}]
          = [authorized |-> authorized, consumed |-> consumed \cup {nullifier}]
    <3>1. \A x : [c EXCEPT !.consumed = x] = [authorized |-> authorized, consumed |-> x]
      OBVIOUS
    <3>2. c.consumed = consumed
      OBVIOUS
    <3> QED
      BY <3>1, <3>2
  <2> HIDE DEF checked, nullifier
  <2>4. CASE nullifier \in consumed
    <3>1. called = Answer(Err("Replay"), c)
      BY <2>1, <2>2, <2>4 DEF VerifyAndConsume, checked
    <3> QED
      BY <1>5, <2>4, <3>1
  <2>5. CASE nullifier \notin consumed
    <3>1. called = Answer(Ok(AcceptedAttestation(checked.value)),
                          [c EXCEPT !.consumed = @ \cup {nullifier}])
      BY <2>1, <2>2, <2>5 DEF VerifyAndConsume, checked
    <3> QED
      BY <1>5, <2>3, <2>5, <3>1, ErrOk
  <2> QED
    BY <2>4, <2>5
<1> QED
  BY <1>6, <1>7 DEF host
------------------------------------------------------------------------------
(* The preimages can be read back. *)

\* The concatenation as an operator the provers do not look into.
Join(s, t) == s \o t

LEMMA JoinProperties ==
  ASSUME NEW S, NEW s \in Seq(S), NEW t \in Seq(S)
  PROVE  /\ Join(s, t) \in Seq(S)
         /\ Len(Join(s, t)) = Len(s) + Len(t) /\ Len(s) \in Nat /\ Len(t) \in Nat
         /\ \A i \in 1..Len(s) : Join(s, t)[i] = s[i]
         /\ \A i \in Len(s) + 1 .. Len(s) + Len(t) : Join(s, t)[i] = t[i - Len(s)]
<1>1. /\ s \o t \in Seq(S) /\ Len(s \o t) = Len(s) + Len(t)
      /\ \A i \in 1 .. Len(s) + Len(t) :
           (s \o t)[i] = IF i <= Len(s) THEN s[i] ELSE t[i - Len(s)]
  BY ConcatProperties
<1>2. Len(s) \in Nat /\ Len(t) \in Nat
  OBVIOUS
<1>3. PICK whole : whole = s \o t /\ whole = Join(s, t)
  BY DEF Join
<1>4. \A i \in 1 .. Len(s) + Len(t) :
        whole[i] = IF i <= Len(s) THEN s[i] ELSE t[i - Len(s)]
  BY <1>1, <1>3, Zenon
<1>5. \A i \in 1 .. Len(s) : whole[i] = s[i]
  BY <1>2, <1>4
<1>6. \A i \in Len(s) + 1 .. Len(s) + Len(t) : whole[i] = t[i - Len(s)]
  BY <1>2, <1>4
<1> QED
  BY <1>1, <1>2, <1>3, <1>5, <1>6, Zenon

LEMMA JoinAssociates ==
  ASSUME NEW S, NEW s \in Seq(S), NEW t \in Seq(S), NEW u \in Seq(S)
  PROVE  Join(Join(s, t), u) = Join(s, Join(t, u))
BY DEF Join

\* Concatenations with parts of one length are equal only when their parts are.
LEMMA JoinSplit ==
  ASSUME NEW S, NEW s \in Seq(S), NEW t \in Seq(S), NEW u \in Seq(S), NEW v \in Seq(S),
         Len(s) = Len(t)
  PROVE  Join(s, u) = Join(t, v) => s = t /\ u = v
<1>1. ASSUME NEW a \in Seq(S), NEW b \in Seq(S)
      PROVE  /\ Len(Join(a, b)) = Len(a) + Len(b) /\ Len(a) \in Nat /\ Len(b) \in Nat
             /\ \A i \in 1..Len(a) : Join(a, b)[i] = a[i]
             /\ \A i \in Len(a) + 1 .. Len(a) + Len(b) : Join(a, b)[i] = b[i - Len(a)]
  BY JoinProperties, ZenonT(40)
<1>2. /\ Len(Join(s, u)) = Len(s) + Len(u) /\ Len(s) \in Nat /\ Len(u) \in Nat
      /\ \A i \in 1..Len(s) : Join(s, u)[i] = s[i]
      /\ \A i \in Len(s) + 1 .. Len(s) + Len(u) : Join(s, u)[i] = u[i - Len(s)]
  BY <1>1, Zenon
<1>3. /\ Len(Join(t, v)) = Len(t) + Len(v) /\ Len(t) \in Nat /\ Len(v) \in Nat
      /\ \A i \in 1..Len(t) : Join(t, v)[i] = t[i]
      /\ \A i \in Len(t) + 1 .. Len(t) + Len(v) : Join(t, v)[i] = v[i - Len(t)]
  BY <1>1, Zenon
<1>4. SUFFICES ASSUME NEW whole, whole = Join(s, u), whole = Join(t, v)
               PROVE  s = t /\ u = v
  BY Zenon
<1>5. Len(u) = Len(v)
  BY <1>2, <1>3, <1>4
<1>6. s = t
  <2>1. \A i \in 1..Len(s) : s[i] = t[i]
    BY <1>2, <1>3, <1>4
  <2> QED
    BY <2>1, SeqExtensional
<1>7. u = v
  <2>1. ASSUME NEW i \in 1..Len(u) PROVE u[i] = v[i]
    <3> DEFINE k == Len(s) + i
    <3>1. k \in Len(s) + 1 .. Len(s) + Len(u) /\ k - Len(s) = i
      BY <1>2
    <3> HIDE DEF k
    <3> QED
      BY <1>2, <1>3, <1>4, <1>5, <3>1
  <2> QED
    BY <1>5, <2>1, SeqExtensional
<1> QED
  BY <1>6, <1>7

\* A counted list says itself where it ends.
LEMMA CountedSplit ==
  ASSUME NEW S, Nat \subseteq S, NEW s \in Seq(S), NEW t \in Seq(S),
         NEW u \in Seq(S), NEW v \in Seq(S), Join(Counted(s), u) = Join(Counted(t), v)
  PROVE  s = t /\ u = v
<1>1. \A w \in Seq(S) : /\ <<Len(w)>> \in Seq(S) /\ Len(<<Len(w)>>) = 1
                        /\ <<Len(w)>>[1] = Len(w) /\ Len(w) \in Nat
  OBVIOUS
<1>2. \A w : Counted(w) = Join(<<Len(w)>>, w)
  BY DEF Counted, Join
<1>3. \A w \in Seq(S) : /\ Counted(w) \in Seq(S) /\ Len(Counted(w)) = 1 + Len(w)
                        /\ Counted(w)[1] = Len(w)
  <2>1. TAKE w \in Seq(S)
  <2> DEFINE one == <<Len(w)>>
  <2>2. one \in Seq(S) /\ Len(one) = 1 /\ one[1] = Len(w)
    BY <1>1, <2>1
  <2>3. Counted(w) = Join(one, w)
    BY <1>2
  <2> HIDE DEF one
  <2> QED
    <3>1. Join(one, w) \in Seq(S) /\ Len(Join(one, w)) = 1 + Len(w)
      <4>1. one \in Seq(S) /\ Len(one) = 1 /\ w \in Seq(S)
        BY <2>1, <2>2
      <4>2. Join(one, w) \in Seq(S) /\ Len(Join(one, w)) = Len(one) + Len(w)
        BY <4>1, JoinProperties, Zenon
      <4> QED
        BY <4>1, <4>2, Zenon
    <3>2. Join(one, w)[1] = one[1]
      <4>1. 1 \in 1..Len(one)
        BY <2>2
      <4> QED
        BY <2>1, <2>2, <4>1, JoinProperties, Zenon
    <3> QED
      BY <2>2, <2>3, <3>1, <3>2, Zenon
<1>4. Join(Counted(s), u)[1] = Len(s) /\ Join(Counted(t), v)[1] = Len(t)
  <2>1. \A w \in Seq(S), x \in Seq(S) : 1 \in 1..Len(w) => Join(w, x)[1] = w[1]
    BY JoinProperties
  <2>2. 1 \in 1..Len(Counted(s)) /\ 1 \in 1..Len(Counted(t))
    <3>1. \A n \in Nat : 1 \in 1..(1 + n)
      OBVIOUS
    <3> QED
      BY <1>1, <1>3, <3>1
  <2> QED
    BY <1>3, <2>1, <2>2
<1>5. Len(s) = Len(t)
  BY <1>4
<1>6. Counted(s) = Counted(t) /\ u = v
  BY <1>3, <1>5, JoinSplit
<1>7. s = t
  <2> DEFINE one == <<Len(s)>>
  <2>1. one \in Seq(S) /\ Counted(s) = Join(one, s) /\ Counted(t) = Join(one, t)
    BY <1>1, <1>2, <1>5
  <2> HIDE DEF one
  <2> QED
    <3>1. Join(one, s) = Join(one, t)
      BY <1>6, <2>1, Zenon
    <3>2. one \in Seq(S)
      BY <2>1
    <3> QED
      BY <3>1, <3>2, JoinSplit, Zenon
<1> QED
  BY <1>6, <1>7

\* What is written to a preimage.
TypeNames == {"address", "bytes", "symbol", "u64"}

Written ==
  TypeNames \cup Nat \cup STRING \cup {"NC_ZK_PRIVATE_POLICY_V1", "NC_ZK_ACTION_PLAN_V1"}

LEMMA NaturalsAreWritten ==
  /\ Nat \subseteq Written /\ STRING \subseteq Written /\ TypeNames \subseteq Written
  /\ "NC_ZK_PRIVATE_POLICY_V1" \in Written /\ "NC_ZK_ACTION_PLAN_V1" \in Written
  /\ \A s \in Seq(Nat) : s \in Seq(Written) /\ Counted(s) \in Seq(Written)
<1>1. /\ Nat \subseteq Written /\ STRING \subseteq Written /\ TypeNames \subseteq Written
      /\ "NC_ZK_PRIVATE_POLICY_V1" \in Written /\ "NC_ZK_ACTION_PLAN_V1" \in Written
  BY Zenon DEF Written
<1>2. ASSUME NEW S, Nat \subseteq S, NEW s \in Seq(Nat)
      PROVE  s \in Seq(S) /\ Counted(s) \in Seq(S)
  <2>1. s \in Seq(S)
    <3>1. s \in [1..Len(s) -> Nat] /\ Len(s) \in Nat
      BY SeqIsFunction
    <3>2. s \in [1..Len(s) -> S]
      BY <1>2, <3>1
    <3>3. \A n \in Nat : \A f \in [1..n -> S] : f \in Seq(S)
      OBVIOUS
    <3> QED
      BY <3>1, <3>2, <3>3
  <2>2. <<Len(s)>> \in Seq(S)
    <3>1. Len(s) \in S
      BY <1>2
    <3>2. \A x \in S : <<x>> \in Seq(S)
      OBVIOUS
    <3> QED
      BY <3>1, <3>2
  <2> QED
    BY <2>1, <2>2, JoinProperties DEF Counted, Join
<1> QED
  BY <1>1, <1>2

\* The preimage of a policy determines the policy.
LEMMA PolicyPreimageIsInjective ==
  ASSUME NEW p \in PrivatePolicy, NEW q \in PrivatePolicy,
         PolicyPreimage(p) = PolicyPreimage(q)
  PROVE  p = q
<1> DEFINE Head4(r) == <<"NC_ZK_PRIVATE_POLICY_V1", r.schema_version, r.policy_version,
                         r.commitment_salt>>
           A(r) == Counted(r.allowed_contracts)
           B(r) == Counted(r.allowed_contract_functions)
           C(r) == Counted(r.allowed_assets)
           D(r) == Counted(r.allowed_recipients)
           L(r) == Limits(r)
<1>1. \A r : PolicyPreimage(r)
               = Join(Join(Join(Join(Join(Head4(r), A(r)), B(r)), C(r)), D(r)), L(r))
  BY DEF PolicyPreimage, Join
<1>2. ASSUME NEW r \in PrivatePolicy
      PROVE  /\ r.schema_version \in Nat /\ r.policy_version \in Nat /\ r.commitment_salt \in Nat
             /\ r.allowed_contracts \in Seq(Nat) /\ r.allowed_contract_functions \in Seq(Nat)
             /\ r.allowed_assets \in Seq(Nat) /\ r.allowed_recipients \in Seq(Nat)
             /\ r.max_amount_minor \in Nat /\ r.approval_threshold_minor \in Nat
             /\ r.min_intent_confidence_bps \in Nat
  BY DEF PrivatePolicy
<1>3. ASSUME NEW r \in PrivatePolicy
      PROVE  /\ Head4(r) \in Seq(Written) /\ Len(Head4(r)) = 4
             /\ L(r) \in Seq(Written) /\ Len(L(r)) = 3
             /\ A(r) \in Seq(Written) /\ B(r) \in Seq(Written)
             /\ C(r) \in Seq(Written) /\ D(r) \in Seq(Written)
             /\ r.allowed_contracts \in Seq(Written)
             /\ r.allowed_contract_functions \in Seq(Written)
             /\ r.allowed_assets \in Seq(Written) /\ r.allowed_recipients \in Seq(Written)
  <2>1. \A S : \A a, b, c, d \in S : /\ <<a, b, c, d>> \in Seq(S) /\ Len(<<a, b, c, d>>) = 4
                                     /\ <<a, b, c>> \in Seq(S) /\ Len(<<a, b, c>>) = 3
    OBVIOUS
  <2>2. "NC_ZK_PRIVATE_POLICY_V1" \in Written
    BY NaturalsAreWritten, Zenon
  <2>3. \A n \in Nat : n \in Written
    BY NaturalsAreWritten, Zenon
  <2>4. Head4(r) \in Seq(Written) /\ Len(Head4(r)) = 4
    BY <1>2, <2>1, <2>2, <2>3
  <2>5. L(r) \in Seq(Written) /\ Len(L(r)) = 3
    BY <1>2, <2>1, <2>3 DEF Limits
  <2> QED
    BY <1>2, <2>4, <2>5, NaturalsAreWritten
<1>4. \A r : /\ Head4(r)[2] = r.schema_version /\ Head4(r)[3] = r.policy_version
             /\ Head4(r)[4] = r.commitment_salt
             /\ L(r)[1] = r.max_amount_minor /\ L(r)[2] = r.approval_threshold_minor
             /\ L(r)[3] = r.min_intent_confidence_bps
  BY DEF Limits
<1> HIDE DEF Head4, L
<1> DEFINE L4(r) == Join(D(r), L(r))
           L3(r) == Join(C(r), L4(r))
           L2(r) == Join(B(r), L3(r))
           L1(r) == Join(A(r), L2(r))
<1>5. ASSUME NEW r \in PrivatePolicy
      PROVE  /\ L4(r) \in Seq(Written) /\ L3(r) \in Seq(Written)
             /\ L2(r) \in Seq(Written) /\ L1(r) \in Seq(Written)
  BY <1>3, JoinProperties
<1>6. ASSUME NEW r \in PrivatePolicy
      PROVE  PolicyPreimage(r) = Join(Head4(r), L1(r))
  <2>1. ASSUME NEW S, NEW h \in Seq(S), NEW a \in Seq(S), NEW b \in Seq(S), NEW c \in Seq(S),
               NEW d \in Seq(S), NEW l \in Seq(S)
        PROVE  Join(Join(Join(Join(Join(h, a), b), c), d), l)
                 = Join(h, Join(a, Join(b, Join(c, Join(d, l)))))
    <3>1. /\ Join(h, a) \in Seq(S) /\ Join(d, l) \in Seq(S) /\ Join(c, Join(d, l)) \in Seq(S)
          /\ Join(b, Join(c, Join(d, l))) \in Seq(S)
          /\ Join(Join(h, a), b) \in Seq(S) /\ Join(Join(Join(h, a), b), c) \in Seq(S)
      BY JoinProperties
    <3>2. Join(Join(Join(Join(Join(h, a), b), c), d), l)
            = Join(Join(Join(Join(h, a), b), c), Join(d, l))
      BY <3>1, JoinAssociates
    <3>3. Join(Join(Join(Join(h, a), b), c), Join(d, l))
            = Join(Join(Join(h, a), b), Join(c, Join(d, l)))
      BY <3>1, JoinAssociates
    <3>4. Join(Join(Join(h, a), b), Join(c, Join(d, l)))
            = Join(Join(h, a), Join(b, Join(c, Join(d, l))))
      BY <3>1, JoinAssociates
    <3>5. Join(Join(h, a), Join(b, Join(c, Join(d, l))))
            = Join(h, Join(a, Join(b, Join(c, Join(d, l)))))
      BY <3>1, JoinAssociates
    <3> QED
      BY <3>2, <3>3, <3>4, <3>5
  <2>2. /\ Head4(r) \in Seq(Written) /\ A(r) \in Seq(Written) /\ B(r) \in Seq(Written)
        /\ C(r) \in Seq(Written) /\ D(r) \in Seq(Written) /\ L(r) \in Seq(Written)
    BY <1>3
  <2> QED
    BY <1>1, <2>1, <2>2
<1>7. Head4(p) = Head4(q) /\ L1(p) = L1(q)
  <2> HIDE DEF L1
  <2>1. Join(Head4(p), L1(p)) = Join(Head4(q), L1(q))
    BY <1>6
  <2>2. /\ L1(p) \in Seq(Written) /\ L1(q) \in Seq(Written)
        /\ Head4(p) \in Seq(Written) /\ Head4(q) \in Seq(Written)
        /\ Len(Head4(p)) = Len(Head4(q))
    BY <1>3, <1>5
  <2> QED
    BY <2>1, <2>2, JoinSplit
<1>8. ASSUME NEW s \in Seq(Written), NEW t \in Seq(Written),
             NEW u \in Seq(Written), NEW v \in Seq(Written),
             Join(Counted(s), u) = Join(Counted(t), v)
      PROVE  s = t /\ u = v
  BY <1>8, CountedSplit, NaturalsAreWritten, Zenon
<1>9. p.allowed_contracts = q.allowed_contracts /\ L2(p) = L2(q)
  <2> HIDE DEF L2
  <2>1. Join(A(p), L2(p)) = Join(A(q), L2(q))
    BY <1>7
  <2>2. /\ p.allowed_contracts \in Seq(Written) /\ q.allowed_contracts \in Seq(Written)
        /\ L2(p) \in Seq(Written) /\ L2(q) \in Seq(Written)
    BY <1>3, <1>5
  <2> QED
    BY <1>8, <2>1, <2>2
<1>10. p.allowed_contract_functions = q.allowed_contract_functions /\ L3(p) = L3(q)
  <2> HIDE DEF L3
  <2>1. Join(B(p), L3(p)) = Join(B(q), L3(q))
    BY <1>9
  <2>2. /\ p.allowed_contract_functions \in Seq(Written) /\ q.allowed_contract_functions \in Seq(Written)
        /\ L3(p) \in Seq(Written) /\ L3(q) \in Seq(Written)
    BY <1>3, <1>5
  <2> QED
    BY <1>8, <2>1, <2>2
<1>11. p.allowed_assets = q.allowed_assets /\ L4(p) = L4(q)
  <2> HIDE DEF L4
  <2>1. Join(C(p), L4(p)) = Join(C(q), L4(q))
    BY <1>10
  <2>2. /\ p.allowed_assets \in Seq(Written) /\ q.allowed_assets \in Seq(Written)
        /\ L4(p) \in Seq(Written) /\ L4(q) \in Seq(Written)
    BY <1>3, <1>5
  <2> QED
    BY <1>8, <2>1, <2>2
<1>14. p.allowed_recipients = q.allowed_recipients /\ L(p) = L(q)
  BY <1>3, <1>8, <1>11
<1>12. /\ p.schema_version = q.schema_version /\ p.policy_version = q.policy_version
       /\ p.commitment_salt = q.commitment_salt
       /\ p.max_amount_minor = q.max_amount_minor
       /\ p.approval_threshold_minor = q.approval_threshold_minor
       /\ p.min_intent_confidence_bps = q.min_intent_confidence_bps
  BY <1>4, <1>7, <1>14, Zenon
<1>13. \A r \in PrivatePolicy :
         r = [schema_version |-> r.schema_version, policy_version |-> r.policy_version,
              commitment_salt |-> r.commitment_salt, allowed_contracts |-> r.allowed_contracts,
              allowed_contract_functions |-> r.allowed_contract_functions,
              allowed_assets |-> r.allowed_assets, allowed_recipients |-> r.allowed_recipients,
              max_amount_minor |-> r.max_amount_minor,
              approval_threshold_minor |-> r.approval_threshold_minor,
              min_intent_confidence_bps |-> r.min_intent_confidence_bps]
  BY DEF PrivatePolicy
<1> QED
  BY <1>9, <1>10, <1>11, <1>12, <1>13, <1>14

\* So does the preimage of a plan.
LEMMA PlanPreimageIsInjective ==
  ASSUME NEW p \in TypedActionPlan, NEW q \in TypedActionPlan,
         PlanPreimage(p) = PlanPreimage(q)
  PROVE  p = q
<1> DEFINE Head8(r) == <<"NC_ZK_ACTION_PLAN_V1", r.schema_version, r.intent_label,
                         r.action_kind, r.contract_id, r.function,
                         r.intent_confidence_bps, Len(r.args)>>
           Field(r, i) == LET arg == r.args[(i + 2) \div 3]
                          IN  CASE i % 3 = 1 -> arg.name
                                [] i % 3 = 2 -> arg.value.type
                                [] OTHER     -> arg.value.v
           Rest(r) == [i \in 1 .. 3 * Len(r.args) |-> Field(r, i)]
<1>1. \A r : PlanPreimage(r) = Join(Head8(r), Rest(r))
  BY DEF PlanPreimage, Join
<1>2. ASSUME NEW r \in TypedActionPlan
      PROVE  /\ r.schema_version \in Nat /\ r.intent_label \in STRING /\ r.action_kind \in STRING
             /\ r.contract_id \in Nat /\ r.function \in Nat
             /\ r.intent_confidence_bps \in Nat /\ r.args \in Seq(TypedArg)
             /\ Len(r.args) \in Nat
             /\ \A k \in 1..Len(r.args) : r.args[k] \in TypedArg
  <2>1. /\ r.schema_version \in Nat /\ r.intent_label \in STRING /\ r.action_kind \in STRING
        /\ r.contract_id \in Nat /\ r.function \in Nat
        /\ r.intent_confidence_bps \in Nat /\ r.args \in Seq(TypedArg)
    BY DEF TypedActionPlan
  <2>2. \A S : \A s \in Seq(S) : Len(s) \in Nat /\ \A k \in 1..Len(s) : s[k] \in S
    OBVIOUS
  <2> QED
    BY <2>1, <2>2
<1>3. \A a \in TypedArg : /\ a.name \in Nat /\ a.value.type \in TypeNames /\ a.value.v \in Nat
                          /\ a.value = [type |-> a.value.type, v |-> a.value.v]
                          /\ a = [name |-> a.name, value |-> a.value]
  <2>1. \A a \in TypedArg : /\ a.name \in Nat /\ a.value \in TypedValue
                            /\ a = [name |-> a.name, value |-> a.value]
    BY DEF TypedArg
  <2>2. \A v \in TypedValue : /\ v.type \in TypeNames /\ v.v \in Nat
                              /\ v = [type |-> v.type, v |-> v.v]
    BY DEF TypedValue, TypeNames
  <2> QED
    BY <2>1, <2>2
<1>4. ASSUME NEW r \in TypedActionPlan
      PROVE  Head8(r) \in Seq(Written) /\ Len(Head8(r)) = 8
  <2>1. \A S : \A a, b, c, d, e, f, g, h \in S :
          <<a, b, c, d, e, f, g, h>> \in Seq(S) /\ Len(<<a, b, c, d, e, f, g, h>>) = 8
    OBVIOUS
  <2>2. "NC_ZK_ACTION_PLAN_V1" \in Written
    BY NaturalsAreWritten, Zenon
  <2>3. /\ \A n \in Nat : n \in Written
        /\ \A n \in STRING : n \in Written
    BY NaturalsAreWritten, Zenon
  <2> QED
    BY <1>2, <2>1, <2>2, <2>3
<1>5. ASSUME NEW k \in Nat \ {0}
      PROVE  /\ (3 * k - 2 + 2) \div 3 = k /\ (3 * k - 2) % 3 = 1
             /\ (3 * k - 1 + 2) \div 3 = k /\ (3 * k - 1) % 3 = 2
             /\ (3 * k + 2) \div 3 = k /\ (3 * k) % 3 = 0
  OBVIOUS
<1>6. ASSUME NEW r, NEW k \in Nat \ {0}
      PROVE  /\ Field(r, 3 * k - 2) = r.args[k].name
             /\ Field(r, 3 * k - 1) = r.args[k].value.type
             /\ Field(r, 3 * k) = r.args[k].value.v
  BY <1>5
<1>7. ASSUME NEW n \in Nat, NEW i \in 1 .. 3 * n
      PROVE  (i + 2) \div 3 \in 1 .. n
  OBVIOUS
<1>8. ASSUME NEW r \in TypedActionPlan
      PROVE  Rest(r) \in Seq(Written) /\ Len(Rest(r)) = 3 * Len(r.args)
  <2>1. ASSUME NEW i \in 1 .. 3 * Len(r.args)
        PROVE  Field(r, i) \in Written
    <3>1. r.args[(i + 2) \div 3] \in TypedArg
      BY <1>2, <1>7
    <3>2. PICK a \in TypedArg : a = r.args[(i + 2) \div 3]
      BY <3>1
    <3>3. Field(r, i) \in {a.name, a.value.type, a.value.v}
      BY <3>2
    <3> HIDE DEF Field
    <3> QED
      BY <1>3, <3>3, NaturalsAreWritten, Zenon
  <2>2. 3 * Len(r.args) \in Nat
    BY <1>2
  <2>3. \A n \in Nat : \A f \in [1..n -> Written] : f \in Seq(Written) /\ Len(f) = n
    OBVIOUS
  <2> HIDE DEF Field
  <2>4. Rest(r) \in [1 .. 3 * Len(r.args) -> Written]
    BY <2>1
  <2> QED
    BY <2>2, <2>3, <2>4
<1> HIDE DEF Field
<1>9. Head8(p) = Head8(q) /\ Rest(p) = Rest(q)
  <2> HIDE DEF Head8, Rest
  <2> QED
    BY <1>1, <1>4, <1>8, JoinSplit
<1>10. /\ p.schema_version = q.schema_version /\ p.intent_label = q.intent_label
       /\ p.action_kind = q.action_kind /\ p.contract_id = q.contract_id
       /\ p.function = q.function /\ p.intent_confidence_bps = q.intent_confidence_bps
       /\ Len(p.args) = Len(q.args)
  BY <1>9
<1>11. ASSUME NEW k \in 1..Len(p.args)
       PROVE  p.args[k] = q.args[k]
  <2>1. /\ k \in Nat \ {0} /\ 3 * k - 2 \in 1 .. 3 * Len(p.args)
        /\ 3 * k - 1 \in 1 .. 3 * Len(p.args) /\ 3 * k \in 1 .. 3 * Len(p.args)
    BY <1>2
  <2>2. \A i \in 1 .. 3 * Len(p.args) : Field(p, i) = Field(q, i)
    <3>1. \A i \in 1 .. 3 * Len(p.args) : Rest(p)[i] = Field(p, i)
      OBVIOUS
    <3>2. \A i \in 1 .. 3 * Len(p.args) : Rest(q)[i] = Field(q, i)
      BY <1>10
    <3> QED
      BY <1>9, <3>1, <3>2
  <2>3. /\ p.args[k].name = q.args[k].name /\ p.args[k].value.type = q.args[k].value.type
        /\ p.args[k].value.v = q.args[k].value.v
    <3>1. /\ Field(p, 3 * k - 2) = Field(q, 3 * k - 2)
          /\ Field(p, 3 * k - 1) = Field(q, 3 * k - 1)
          /\ Field(p, 3 * k) = Field(q, 3 * k)
      BY <2>1, <2>2, Zenon
    <3>2. ASSUME NEW r \in {p, q}
          PROVE  /\ Field(r, 3 * k - 2) = r.args[k].name
                 /\ Field(r, 3 * k - 1) = r.args[k].value.type
                 /\ Field(r, 3 * k) = r.args[k].value.v
      BY <1>6, <2>1, Zenon
    <3> QED
      BY <3>1, <3>2
  <2>4. p.args[k] \in TypedArg /\ q.args[k] \in TypedArg
    BY <1>2, <1>10
  <2> QED
    BY <1>3, <2>3, <2>4
<1>12. p.args = q.args
  <2>1. \A S : \A s, t \in Seq(S) :
          Len(s) = Len(t) /\ (\A k \in 1..Len(s) : s[k] = t[k]) => s = t
    BY SeqIsFunction
  <2> QED
    BY <1>2, <1>10, <1>11, <2>1
<1> QED
  BY <1>10, <1>12 DEF TypedActionPlan

------------------------------------------------------------------------------
(* The run. *)

Journal(p, q) == GuestJournal(EvaluatorImage, p, q, Nonce)

\* A proof is what the guest returns for the input, an artifact is made of its bytes.
RunInv ==
  /\ plan \in Plans /\ policy \in Policies
  /\ proof = NoProof \/ proof = Execute(EvaluatorImage, plan, policy, Nonce)
  /\ artifact # None => proof.ok /\ artifact = FromReceipt(proof.value)

\* The invariant of the run: execute of the guest and from_receipt of the host, and nothing
\* in between.
THEOREM EvaluationInvariant == Spec => []RunInv
<1>1. Init => RunInv
  BY DEF Init, RunInv
<1>2. RunInv /\ [Next]_vars => RunInv'
  <2> SUFFICES ASSUME RunInv, [Next]_vars
               PROVE  RunInv'
    OBVIOUS
  <2>1. CASE Prove
    <3>1. ~proof.ok
      BY <2>1 DEF Prove, NoProof
    <3>2. artifact' = None
      BY <2>1, <3>1 DEF RunInv, Prove
    <3> QED
      BY <2>1, <3>2 DEF RunInv, Prove
  <2>2. CASE Publish
    BY <2>2 DEF RunInv, Publish, FromReceipt
  <2>3. CASE UNCHANGED vars
    BY <2>3 DEF RunInv, FromReceipt, vars
  <2> QED
    BY <2>1, <2>2, <2>3 DEF Next
<1> QED
  BY <1>1, <1>2, PTL DEF Spec

\* Whatever evaluate answers, a journal can say.
LEMMA EvaluateIsValidDecision ==
  ASSUME NEW p, NEW q
  PROVE  Evaluate(p, q) \in ValidDecisions
<1>1. \/ \E code \in {"Allowlist", "ContractPolicy", "IntentSafety"} :
           Evaluate(p, q) = Blocked(code)
      \/ Evaluate(p, q) = RequiresApproval
      \/ Evaluate(p, q) = Approved
  BY Decisions
<1> QED
  BY <1>1, Zenon DEF ValidDecisions

\* A proof carries the journal of its input, which can be decoded.
LEMMA ProofCarriesJournal ==
  ASSUME RunInv, proof.ok
  PROVE  /\ plan \in TypedActionPlan /\ policy \in PrivatePolicy
         /\ ShapeOfPlan(plan) = "valid" /\ ValidPolicy(policy)
         /\ proof.value = Encode(Journal(plan, policy))
         /\ Decode(proof.value) = Ok(Journal(plan, policy))
         /\ \E S : proof.value \in Seq(S)
         /\ Len(proof.value) = 11
<1>1. proof = Execute(EvaluatorImage, plan, policy, Nonce)
  BY DEF RunInv, NoProof
<1>2. plan \in TypedActionPlan /\ policy \in PrivatePolicy
  BY PlansAssumption, PoliciesAssumption DEF RunInv
<1>3. /\ ShapeOfPlan(plan) = "valid" /\ ValidPolicy(policy)
      /\ ValidJournal(Journal(plan, policy))
      /\ proof = Ok(Encode(Journal(plan, policy)))
  BY <1>1, ErrOk, Zenon DEF Execute, Journal
<1>4. proof.value = Encode(Journal(plan, policy))
  BY <1>3, ErrOk, Zenon
<1>5. Decode(Encode(Journal(plan, policy))) = Ok(Journal(plan, policy))
  <2>1. \E decision \in ValidDecisions : \E hash, commitment, version, nullifier :
          Journal(plan, policy)
            = IntoJournal(decision, EvaluatorImage, hash, commitment, version, nullifier)
    BY EvaluateIsValidDecision, Zenon DEF Journal, GuestJournal
  <2> QED
    BY <1>3, <2>1, DecodeOfEncode, Zenon
<1> QED
  BY <1>2, <1>3, <1>4, <1>5, EncodingIsSequence, Zenon

\* What a policy blocks, a policy that allows less blocks too, and what it hands to a
\* person is not approved by one that allows less (the order of the gates of evaluate).
THEOREM TighteningHolds == Spec => []TighteningNeverPermits
<1>1. RunInv => TighteningNeverPermits
  <2> SUFFICES ASSUME RunInv, proof.ok, NEW p \in Policies, ValidPolicy(p), Tighter(p, policy)
               PROVE  Freedom(Evaluate(plan, p)) <= Freedom(Evaluate(plan, policy))
    BY Zenon DEF TighteningNeverPermits
  <2>1. p \in PrivatePolicy
    BY PoliciesAssumption
  <2> QED
    BY <2>1, ProofCarriesJournal, TighterIsNoFreer
<1> QED
  BY <1>1, EvaluationInvariant, PTL

\* What evaluate lets through is named by the lists and limits of the policy it read, and
\* the threshold for a person is respected.
THEOREM PermittedIsWithin == Spec => []PermittedIsWithinPolicy
<1>1. RunInv => PermittedIsWithinPolicy
  <2> SUFFICES ASSUME RunInv, proof.ok, Evaluate(plan, policy).decision_status # "Blocked"
               PROVE  PermittedIsWithinPolicy
    BY Zenon DEF PermittedIsWithinPolicy
  <2>1. Passes(plan, policy)
    BY Decisions, DecisionFreedom
  <2>2. plan \in TypedActionPlan /\ policy \in PrivatePolicy
    BY ProofCarriesJournal
  <2> QED
    BY <2>1, <2>2, PassedIsWithin, Zenon DEF PermittedIsWithinPolicy
<1> QED
  BY <1>1, EvaluationInvariant, PTL

\* The two canonical preimages can be read back, so what is hashed and published with the
\* decision leaves no room for another policy or another plan.
THEOREM HashesBind == Spec => []HashesBindDecision
<1>1. RunInv => HashesBindDecision
  <2> SUFFICES ASSUME RunInv, proof.ok PROVE HashesBindDecision
    BY Zenon DEF HashesBindDecision
  <2>1. plan \in TypedActionPlan /\ policy \in PrivatePolicy
    BY ProofCarriesJournal
  <2>2. ASSUME NEW p \in Policies, PolicyPreimage(p) = PolicyPreimage(policy)
        PROVE  p = policy
    BY <2>1, <2>2, PoliciesAssumption, PolicyPreimageIsInjective
  <2>3. ASSUME NEW p \in Plans, PlanPreimage(p) = PlanPreimage(plan)
        PROVE  p = plan
    BY <2>1, <2>3, PlansAssumption, PlanPreimageIsInjective
  <2> QED
    BY <2>2, <2>3, Zenon DEF HashesBindDecision
<1> QED
  BY <1>1, EvaluationInvariant, PTL

\* The shape rules leave one way to write a plan down, so a plan has one hash.
LEMMA ValidPlansAreCanonical ==
  ASSUME NEW p \in TypedActionPlan, NEW q \in TypedActionPlan,
         ShapeOfPlan(p) = "valid", ShapeOfPlan(q) = "valid", Content(p) = Content(q)
  PROVE  p = q
<1>1. /\ p.contract_id = q.contract_id /\ p.function = q.function
      /\ p.intent_confidence_bps = q.intent_confidence_bps
      /\ Entries(p.args) = Entries(q.args)
  BY DEF Content
<1>2. ASSUME NEW r \in TypedActionPlan, ShapeOfPlan(r) = "valid"
      PROVE  /\ r.schema_version = CONTRACT_VERSION /\ r.intent_label = "ContractInvoke"
             /\ r.action_kind = "soroban_contract_invoke"
             /\ CanonicalOrder(r.args) /\ r.args \in Seq(TypedArg)
  <2>1. r.args \in Seq(TypedArg)
    BY DEF TypedActionPlan
  <2> QED
    BY <1>2, <2>1 DEF ShapeOfPlan
<1>3. p.args = q.args
  BY <1>1, <1>2, CanonicalArgsAreUnique
<1> QED
  BY <1>1, <1>2, <1>3 DEF TypedActionPlan

\* A plan that was proved cannot be written in a second way that the shape rules accept, so
\* it cannot be proved again under another hash and nullifier (validate_shape).
THEOREM OneHash == Spec => []OneHashPerPlan
<1>1. RunInv => OneHashPerPlan
  <2> SUFFICES ASSUME RunInv, proof.ok, NEW p \in Plans, ShapeOfPlan(p) = "valid",
                      Content(p) = Content(plan)
               PROVE  PlanPreimage(p) = PlanPreimage(plan)
    BY Zenon DEF OneHashPerPlan
  <2>1. p \in TypedActionPlan
    BY PlansAssumption
  <2>2. p = plan
    BY <2>1, ProofCarriesJournal, ValidPlansAreCanonical
  <2> QED
    BY <2>2
<1> QED
  BY <1>1, EvaluationInvariant, PTL

\* PublicJournal::decode reads every byte and gives each one meaning, so no second byte
\* string is decoded to a journal that was proved.
THEOREM OneEncoding == Spec => []OneEncodingPerJournal
<1>1. RunInv => OneEncodingPerJournal
  <2> SUFFICES ASSUME RunInv, proof.ok, NEW bytes \in Altered(proof.value), Decode(bytes).ok
               PROVE  Encode(Decode(bytes).value) = bytes
    BY Zenon DEF OneEncodingPerJournal
  <2>1. PICK T : bytes \in Seq(T)
    BY ProofCarriesJournal, AlteredAreSequences, Zenon
  <2> QED
    BY <2>1, EncodeOfDecode
<1> QED
  BY <1>1, EvaluationInvariant, PTL

\* The host library, the contract library and the Soroban contract take the same bytes for
\* a proof, and both stores of nullifiers take them once (verify_attestation,
\* verify_and_consume of the library and verify_and_consume of the contract).
THEOREM VerifiersAgreeAlways == Spec => []VerifiersAgree
<1>1. ASSUME NEW bytes, NEW genuine \in BOOLEAN
      PROVE  LET host == HostVerify(EvaluatorImage, bytes, SealLength, genuine)
                 library == BoundaryConsume(EvaluatorImage, bytes, SealLength, genuine, TRUE, {})
                 again == BoundaryConsume(EvaluatorImage, bytes, SealLength, genuine, TRUE,
                                          library.consumed)
                 seal == [len |-> SealLength,
                          proves |-> IF genuine THEN <<EvaluatorImage, bytes>> ELSE <<>>]
                 storage == [authorized |-> IF host.ok THEN {PolicyOf(host.value)} ELSE {},
                             consumed |-> {}]
                 soroban == VerifyAndConsume(storage, Owner, seal, bytes)
             IN  /\ library.answer.ok <=> host.ok
                 /\ soroban.answer.ok <=> host.ok
                 /\ soroban.contract.consumed = library.consumed
                 /\ host.ok => /\ again.answer = Err("Replay")
                               /\ VerifyAndConsume(soroban.contract, Owner, seal, bytes).answer
                                    = Err("Replay")
  <2> DEFINE host == HostVerify(EvaluatorImage, bytes, SealLength, genuine)
             library == Boundary(EvaluatorImage, bytes, SealLength, genuine, {})
             again == Boundary(EvaluatorImage, bytes, SealLength, genuine,
                                      library.consumed)
             seal == [len |-> SealLength,
                      proves |-> IF genuine THEN <<EvaluatorImage, bytes>> ELSE <<>>]
             authorized == IF host.ok THEN {PolicyOf(host.value)} ELSE {}
             nullifier == Decode(bytes).value.audit_nullifier
             storage == [authorized |-> authorized, consumed |-> {}]
             used == [authorized |-> authorized, consumed |-> {nullifier}]
             soroban == VerifyAndConsume(storage, Owner, seal, bytes)
  <2>1. /\ library.answer.ok <=> host.ok
        /\ library.consumed = IF host.ok THEN {nullifier} ELSE {}
        /\ host.ok => again.answer = Err("Replay")
    <3>1. PICK len \in Nat \ {0} : len = SealLength
      BY SealHasProof
    <3>2. Boundary(EvaluatorImage, bytes, len, genuine, {}).answer.ok
            <=> HostVerify(EvaluatorImage, bytes, len, genuine).ok
      BY LibraryAccepts
    <3>3. HostVerify(EvaluatorImage, bytes, len, genuine).ok =>
            Boundary(EvaluatorImage, bytes, len, genuine, {}).consumed = {nullifier}
      BY LibraryAccepts
    <3>4. ASSUME NEW kept, kept = Boundary(EvaluatorImage, bytes, len, genuine, {}).consumed,
                 HostVerify(EvaluatorImage, bytes, len, genuine).ok
          PROVE  Boundary(EvaluatorImage, bytes, len, genuine, kept).answer = Err("Replay")
      BY <3>4, LibraryAccepts
    <3>5. ~HostVerify(EvaluatorImage, bytes, len, genuine).ok =>
            Boundary(EvaluatorImage, bytes, len, genuine, {}).consumed = {}
      BY LibraryAccepts
    <3> QED
      BY <3>1, <3>2, <3>3, <3>4, <3>5, Zenon
  <2>2. /\ ~host.ok => soroban.answer = Err("InvalidAttestation") /\ soroban.contract = storage
        /\ host.ok /\ PolicyOf(Decode(bytes).value) \in authorized =>
             soroban.answer.ok /\ soroban.contract = used
    <3>1. nullifier \notin {} /\ {} \cup {nullifier} = {nullifier}
      OBVIOUS
    <3>2. ASSUME NEW none, NEW c, NEW by, c = [authorized |-> by, consumed |-> none], NEW s,
                 s = [len |-> SealLength,
                      proves |-> IF genuine THEN <<EvaluatorImage, bytes>> ELSE <<>>]
          PROVE  /\ ~HostVerify(EvaluatorImage, bytes, SealLength, genuine).ok =>
                      /\ VerifyAndConsume(c, Owner, s, bytes).answer = Err("InvalidAttestation")
                      /\ VerifyAndConsume(c, Owner, s, bytes).contract = c
                 /\ /\ HostVerify(EvaluatorImage, bytes, SealLength, genuine).ok
                    /\ PolicyOf(Decode(bytes).value) \in by
                    /\ Decode(bytes).value.audit_nullifier \notin none
                    =>
                    /\ VerifyAndConsume(c, Owner, s, bytes).answer.ok
                    /\ VerifyAndConsume(c, Owner, s, bytes).contract
                         = [authorized |-> by,
                            consumed |-> none \cup {Decode(bytes).value.audit_nullifier}]
      BY <3>2, SorobanAccepts
    <3>3. /\ storage = [authorized |-> authorized, consumed |-> {}]
          /\ used = [authorized |-> authorized, consumed |-> {} \cup {nullifier}]
          /\ seal = [len |-> SealLength,
                     proves |-> IF genuine THEN <<EvaluatorImage, bytes>> ELSE <<>>]
      BY <3>1, Zenon
    <3> HIDE DEF storage, used, seal, authorized
    <3>4. /\ ~HostVerify(EvaluatorImage, bytes, SealLength, genuine).ok =>
               /\ VerifyAndConsume(storage, Owner, seal, bytes).answer = Err("InvalidAttestation")
               /\ VerifyAndConsume(storage, Owner, seal, bytes).contract = storage
          /\ /\ HostVerify(EvaluatorImage, bytes, SealLength, genuine).ok
             /\ PolicyOf(Decode(bytes).value) \in authorized
             /\ Decode(bytes).value.audit_nullifier \notin {}
             =>
             /\ VerifyAndConsume(storage, Owner, seal, bytes).answer.ok
             /\ VerifyAndConsume(storage, Owner, seal, bytes).contract
                  = [authorized |-> authorized,
                     consumed |-> {} \cup {Decode(bytes).value.audit_nullifier}]
      BY <3>2, <3>3
    <3> QED
      BY <3>1, <3>3, <3>4, Zenon
  <2>3. host.ok /\ PolicyOf(Decode(bytes).value) \in authorized =>
          VerifyAndConsume(used, Owner, seal, bytes).answer = Err("Replay")
    <3>1. nullifier \in {nullifier}
      OBVIOUS
    <3> QED
      BY <3>1, SorobanAccepts, SMTT(30)
  <2>4. host.ok => PolicyOf(Decode(bytes).value) \in authorized
    <3>1. host.ok => host = Ok(Decode(bytes).value)
      BY SealHasProof, HostAccepts
    <3>2. host.ok => host.value = Decode(bytes).value
      BY <3>1, ErrOk, Zenon
    <3> HIDE DEF host
    <3> QED
      BY <3>2
  <2>5. storage.consumed = {} /\ used.consumed = {nullifier}
    BY Zenon
  <2> HIDE DEF host, library, again, seal, authorized, nullifier, storage, used, soroban
  <2>6. /\ library.answer.ok <=> host.ok
        /\ soroban.answer.ok <=> host.ok
        /\ soroban.contract.consumed = library.consumed
        /\ host.ok => /\ again.answer = Err("Replay")
                      /\ VerifyAndConsume(soroban.contract, Owner, seal, bytes).answer
                           = Err("Replay")
    <3>1. CASE host.ok
      BY <2>1, <2>2, <2>3, <2>4, <2>5, <3>1
    <3>2. CASE ~host.ok
      BY <2>1, <2>2, <2>5, <3>2, ErrOk
    <3> QED
      BY <3>1, <3>2
  <2> QED
    BY <2>6, Zenon DEF host, library, again, Boundary, seal, authorized, storage, soroban
<1>2. VerifiersAgree
  BY <1>1, Zenon DEF VerifiersAgree
<1> QED
  BY <1>2, PTL

\* What the local inspection says of an artifact whose journal can be decoded.
LEMMA InspectAnswers ==
  ASSUME NEW bytes, NEW p, NEW a, NEW j, NEW no \in BOOLEAN, ~no, Decode(bytes) = Ok(j),
         j.evaluator_image_id = EvaluatorImage,
         a = [schema_version |-> 1, unreadable |-> no, image |-> EvaluatorImage,
              plan |-> p, bytes |-> bytes, digest |-> Sha256(bytes),
              seal |-> [len |-> SealLength, proves |-> <<EvaluatorImage, bytes>>]]
  PROVE  /\ Inspect(a).ok => /\ ShapeOfPlan(p) = "valid"
                             /\ j.action_plan_hash = Sha256(PlanPreimage(p))
         /\ ShapeOfPlan(p) = "valid" /\ j.action_plan_hash = Sha256(PlanPreimage(p)) =>
              Inspect(a) = Ok(j)
<1>1. /\ a.schema_version = 1 /\ a.image = EvaluatorImage /\ a.plan = p
      /\ a.bytes = bytes /\ a.digest = Sha256(bytes) /\ a.seal.len = SealLength
  OBVIOUS
<1>2. ~a.unreadable
  <2>1. a.unreadable = no
    OBVIOUS
  <2> QED
    BY <2>1
<1>3. Decode(bytes).ok /\ Decode(bytes).value = j
  BY ErrOk
<1>4. ~(a.seal.len <= 4)
  BY <1>1, SealHasProof
<1>5. Inspect(a) = IF ShapeOfPlan(p) # "valid" THEN Err("invalid_action_plan")
                   ELSE IF j.action_plan_hash # Sha256(PlanPreimage(p))
                   THEN Err("action_plan_hash_mismatch")
                   ELSE Ok(j)
  BY <1>1, <1>2, <1>3, <1>4, Zenon DEF Inspect
<1> QED
  BY <1>5, ErrOk

\* The host writes the artifact before it runs the boundaries over it; they cannot refuse
\* it, and the inspection takes it with its own plan only.
THEOREM PublishedArtifactHolds == Spec => []PublishedArtifactPasses
<1>1. RunInv => PublishedArtifactPasses
  <2> SUFFICES ASSUME RunInv, artifact # None PROVE PublishedArtifactPasses
    BY Zenon DEF PublishedArtifactPasses
  <2>0. PICK no \in BOOLEAN : no = FALSE
    OBVIOUS
  <2> DEFINE bytes == proof.value
             j == Journal(plan, policy)
             record(p) == [schema_version |-> 1, unreadable |-> no, image |-> EvaluatorImage,
                           plan |-> p, bytes |-> bytes, digest |-> Sha256(bytes),
                           seal |-> [len |-> SealLength, proves |-> <<EvaluatorImage, bytes>>]]
  <2>1. proof.ok /\ artifact = record(plan)
    BY <2>0, Zenon DEF RunInv, FromReceipt
  <2>2. /\ plan \in TypedActionPlan /\ ShapeOfPlan(plan) = "valid"
        /\ Decode(bytes) = Ok(j)
    BY <2>1, ProofCarriesJournal
  <2>3. /\ j.evaluator_image_id = EvaluatorImage
        /\ j.action_plan_hash = Sha256(PlanPreimage(plan))
    BY DEF Journal, GuestJournal, IntoJournal
  <2> HIDE DEF bytes, j
  <2>4. PassesBoundaries(artifact)
    <3>1. /\ artifact.image = EvaluatorImage /\ artifact.bytes = bytes
          /\ artifact.seal.len = SealLength /\ artifact.seal.proves = <<EvaluatorImage, bytes>>
      BY <2>1
    <3>2. PICK genuine \in BOOLEAN :
            genuine = ReceiptVerifies(artifact.seal, artifact.image, artifact.bytes)
      BY Zenon DEF ReceiptVerifies
    <3>3. genuine
      BY <3>1, <3>2 DEF ReceiptVerifies
    <3>4. Decode(bytes).ok /\ Decode(bytes).value.evaluator_image_id = EvaluatorImage
      BY <2>2, <2>3, ErrOk
    <3>5. SealLength \in Nat \ {0}
      BY SealHasProof
    <3>6. HostVerify(EvaluatorImage, bytes, SealLength, genuine).ok
      BY <3>3, <3>4, <3>5, HostAccepts
    <3>7. /\ Boundary(EvaluatorImage, bytes, SealLength, genuine, {}).answer.ok
          /\ \A used : used = Boundary(EvaluatorImage, bytes, SealLength, genuine, {}).consumed =>
               Boundary(EvaluatorImage, bytes, SealLength, genuine, used).answer = Err("Replay")
      BY <3>5, <3>6, LibraryAccepts
    <3> QED
      BY <3>1, <3>2, <3>6, <3>7, Zenon DEF PassesBoundaries, Boundary
  <2>5. Inspect(artifact) = Ok(Decode(artifact.bytes).value)
    <3>1. Inspect(artifact) = Ok(j)
      BY <2>0, <2>1, <2>2, <2>3, InspectAnswers
    <3>2. artifact.bytes = bytes
      BY <2>1
    <3> QED
      BY <2>2, <3>1, <3>2, ErrOk, Zenon
  <2>6. ASSUME NEW p \in Plans, Inspect([artifact EXCEPT !.plan = p]).ok
        PROVE  Content(p) = Content(plan)
    <3>1. [artifact EXCEPT !.plan = p] = record(p)
      <4>1. \A a, b, c, d, e, f, g :
              [[schema_version |-> a, unreadable |-> b, image |-> c, plan |-> d, bytes |-> e,
                digest |-> f, seal |-> g] EXCEPT !.plan = p]
                = [schema_version |-> a, unreadable |-> b, image |-> c, plan |-> p,
                   bytes |-> e, digest |-> f, seal |-> g]
        OBVIOUS
      <4>2. \A x : [record(x) EXCEPT !.plan = p] = record(p)
        BY <4>1
      <4> HIDE DEF record
      <4> QED
        BY <2>1, <4>2, Zenon
    <3>2. j.action_plan_hash = Sha256(PlanPreimage(p))
      <4>1. PICK a : a = record(p)
        OBVIOUS
      <4>2. Inspect(a).ok
        BY <2>6, <3>1, <4>1, Zenon
      <4> QED
        BY <2>0, <2>2, <2>3, <4>1, <4>2, InspectAnswers
    <3>3. PlanPreimage(p) = PlanPreimage(plan)
      BY <2>3, <3>2 DEF Sha256
    <3>4. p = plan
      BY <2>2, <3>3, PlansAssumption, PlanPreimageIsInjective
    <3> QED
      BY <3>4
  <2> QED
    BY <2>4, <2>5, <2>6, Zenon DEF PublishedArtifactPasses
<1> QED
  BY <1>1, EvaluationInvariant, PTL

==============================================================================
