---------------------------- MODULE PlanGatesProofs ----------------------------
(***************************************************************************)
(* Proofs about one prompt through the three front ends (PlanGates).       *)
(*                                                                         *)
(* The answers are written once (the one of the REPL twice), each from the *)
(* policy files of its moment, so the inductive invariant GatesInv says of *)
(* every answer from which files, by which templates and by which verdict  *)
(* it was made.  What is left is about the operators: what a verdict of 0  *)
(* says of a plan, what the typed templates do to an action, and what the  *)
(* lint of the policies says of their templates.                           *)
(***************************************************************************)
EXTENDS PlanGates, TLAPS, FiniteSetTheorems, WellFoundedInduction

(* Numbers. *)

\* A set of natural numbers that is not empty has a least element.
LEMMA NatSetHasMin ==
  ASSUME NEW S \in SUBSET Nat, S # {}
  PROVE  \E i \in S : \A j \in S : i <= j
<1>1. IsWellFoundedOn(OpToRel(<, Nat), Nat)
  BY NatLessThanWellFounded
<1>2. PICK i \in S : ~\E j \in S : <<j, i>> \in OpToRel(<, Nat)
  BY <1>1, WFMin, Zenon
<1>3. \A j \in S : ~(j < i)
  BY <1>2 DEF OpToRel
<1> QED
  BY <1>3

\* A set of numbers up to n that is not empty has a greatest element.
LEMMA BoundedSetHasMax ==
  ASSUME NEW n \in Nat, NEW S \in SUBSET (1..n), S # {}
  PROVE  \E i \in S : \A j \in S : j <= i
<1> DEFINE M == {n - i : i \in S}
<1>0. \A i \in S : i \in Int /\ n - i \in Nat
  OBVIOUS
<1>1. M \in SUBSET Nat /\ M # {}
  BY <1>0
<1>2. PICK m \in M : \A k \in M : m <= k
  BY <1>1, NatSetHasMin
<1>3. PICK i \in S : m = n - i
  OBVIOUS
<1>4. \A j \in S : n - j \in M
  OBVIOUS
<1> QED
  <2>1. \A j \in S : n - i <= n - j
    BY <1>2, <1>3, <1>4
  <2>2. \A j \in S : j <= i
    BY <1>0, <2>1
  <2> QED
    BY <2>2

-----------------------------------------------------------------------------
(* Types of arguments. *)

\* A value of a type stays one when the typed templates rewrite it.
LEMMA NormalizeKeepsValid ==
  ASSUME NEW v, NEW ty \in TypedTypes, ValidArg(v, ty)
  PROVE  ValidArg(Normalize(v, ty), ty)
BY DEF TypedTypes, ValidArg, Normalize, Rewrites, Accepts, Strings, SchemaTypes

\* A type with values is spelled in its canonical way.
LEMMA ValidIsCanonical ==
  ASSUME NEW v, NEW ty, ValidArg(v, ty)
  PROVE  CanonicalType(ty) = ty
BY DEF ValidArg, CanonicalType, SchemaTypes, Accepts

-----------------------------------------------------------------------------
(* Policies. *)

\* A sequence of a set is one of a larger set.
LEMMA SeqMonotone ==
  ASSUME NEW S, NEW T, S \subseteq T, NEW s \in Seq(S)
  PROVE  s \in Seq(T)
<1>1. \A i \in 1..Len(s) : s[i] \in T
  OBVIOUS
<1>2. Len(s) \in Nat /\ DOMAIN s = 1..Len(s)
  OBVIOUS
<1>3. s = [i \in 1..Len(s) |-> s[i]]
  OBVIOUS
<1> QED
  BY <1>1, <1>2, <1>3

\* Every load of the files is a sequence.
LEMMA LoadsAreSequences ==
  ASSUME NEW c \in Cases, NEW f \in FileSets(c),
         NEW policies \in PolicyLoads(f) \union {SortedPolicyLoad(f)}
  PROVE  \E n \in Nat : DOMAIN policies = 1..n
<1> DEFINE S == ToSet(f.dir)
<1>1. f.dir \in Seq(S)
  BY FilesAssumption
<1>2. IsFiniteSet(S)
  <2>1. PICK n \in Nat : DOMAIN f.dir = 1..n
    BY <1>1
  <2>2. IsFiniteSet(1..n)
    BY FS_Interval
  <2>3. S = {f.dir[i] : i \in 1..n}
    BY <2>1 DEF ToSet
  <2>4. \E g \in [1..n -> S] : \A s \in S : \E i \in 1..n : g[i] = s
    <3> DEFINE g == [i \in 1..n |-> f.dir[i]]
    <3>1. g \in [1..n -> S]
      BY <2>3
    <3>2. \A s \in S : \E i \in 1..n : g[i] = s
      BY <2>3
    <3> HIDE DEF g
    <3> QED
      BY <3>1, <3>2
  <2> QED
    BY <2>2, <2>4, FS_Surjection DEF Surjection
<1>3. Cardinality(S) \in Nat
  BY <1>2, FS_CardinalityType
<1>4. \A dir \in SetToSeqs(S) : dir \in Seq(S)
  BY <1>3 DEF SetToSeqs
<1>5. \A dir \in Seq(S) : \E n \in Nat : DOMAIN (FirstPolicy(f) \o dir) = 1..n
  <2>1. SUFFICES ASSUME NEW dir \in Seq(S)
                 PROVE  FirstPolicy(f) \o dir \in Seq(S \union {f.first})
    OBVIOUS
  <2> DEFINE T == S \union {f.first}
  <2>2. dir \in Seq(T)
    BY SeqMonotone
  <2>3. FirstPolicy(f) \in Seq(T)
    <3>1. f.first \in T
      OBVIOUS
    <3> HIDE DEF T
    <3> QED
      BY <3>1 DEF FirstPolicy
  <2> HIDE DEF T
  <2>4. FirstPolicy(f) \o dir \in Seq(T)
    BY <2>2, <2>3
  <2> QED
    BY <2>4 DEF T
<1> QED
  BY <1>1, <1>4, <1>5 DEF PolicyLoads, SortedPolicyLoad

\* The policy of a contract is the last of the loaded ones that name it.
LEMMA LastPolicyGoverns ==
  ASSUME NEW policies, NEW n \in Nat, DOMAIN policies = 1..n,
         NEW contract, HasPolicy(policies, contract)
  PROVE  \E i \in DOMAIN policies :
           /\ policies[i].contract = contract
           /\ \A j \in DOMAIN policies : policies[j].contract = contract => j <= i
           /\ PolicyOf(policies, contract) = policies[i]
<1> DEFINE all == Governs(policies, contract)
<1>1. all \in SUBSET (1..n) /\ all # {}
  BY DEF Governs, HasPolicy
<1>2. \E i \in all : \A j \in all : j <= i
  BY <1>1, BoundedSetHasMax
<1> DEFINE last == CHOOSE i \in all : \A j \in all : j <= i
<1>3. last \in all /\ \A j \in all : j <= last
  BY <1>2
<1>4. PolicyOf(policies, contract) = policies[last]
  BY DEF PolicyOf
<1> HIDE DEF last
<1> QED
  BY <1>3, <1>4 DEF Governs

\* When only one policy names a contract it is the policy of the contract.
LEMMA OnlyPolicyGoverns ==
  ASSUME NEW policies, NEW contract, NEW i \in Nat, Governs(policies, contract) = {i}
  PROVE  HasPolicy(policies, contract) /\ PolicyOf(policies, contract) = policies[i]
<1>1. (CHOOSE k \in {i} : \A j \in {i} : j <= k) = i
  <2>1. \E k \in {i} : \A j \in {i} : j <= k
    OBVIOUS
  <2> QED
    BY <2>1
<1> QED
  BY <1>1 DEF HasPolicy, PolicyOf

\* An argument that is declared has the type of the required ones first.
LEMMA DeclaredTypes ==
  ASSUME NEW schema
  PROVE  /\ DOMAIN Declared(schema) = DOMAIN schema.required \union DOMAIN schema.optional
         /\ \A k \in DOMAIN schema.required : Declared(schema)[k] = schema.required[k]
         /\ \A k \in DOMAIN schema.optional \ DOMAIN schema.required :
              Declared(schema)[k] = schema.optional[k]
BY DEF Declared

\* Arguments without an error are an object that is complete, declared and typed.
LEMMA NoArgErrors ==
  ASSUME NEW schema, NEW args
  PROVE  ArgErrors(schema, args) = {} <=>
           /\ args.object
           /\ DOMAIN schema.required \subseteq DOMAIN args.at
           /\ DOMAIN args.at \subseteq DOMAIN Declared(schema)
           /\ \A k \in DOMAIN args.at : ValidArg(args.at[k], Declared(schema)[k])
<1> DEFINE keys     == DOMAIN args.at
           types    == Declared(schema)
           mistyped == {k \in keys \intersect DOMAIN types : ~ValidArg(args.at[k], types[k])}
<1>1. CASE ~args.object
  BY <1>1 DEF ArgErrors
<1>2. CASE args.object
  <2>1. ArgErrors(schema, args) = {} <=>
          /\ DOMAIN schema.required \ keys = {} /\ mistyped = {} /\ keys \ DOMAIN types = {}
    BY <1>2 DEF ArgErrors
  <2>2. keys \subseteq DOMAIN types =>
          (mistyped = {} <=> \A k \in keys : ValidArg(args.at[k], types[k]))
    OBVIOUS
  <2> HIDE DEF keys, types, mistyped
  <2>3. keys \ DOMAIN types = {} <=> keys \subseteq DOMAIN types
    OBVIOUS
  <2>4. DOMAIN schema.required \ keys = {} <=> DOMAIN schema.required \subseteq keys
    OBVIOUS
  <2> QED
    BY <1>2, <2>1, <2>2, <2>3, <2>4 DEF keys, types
<1> QED
  BY <1>1, <1>2

\* A call without a policy error is permitted.
LEMMA NoErrorsMeansPermitted ==
  ASSUME NEW policies, NEW n \in Nat, DOMAIN policies = 1..n,
         NEW a, InvokeErrors(policies, a) = {}
  PROVE  Permitted(a, policies)
<1>1. HasPolicy(policies, a.contract)
  BY DEF InvokeErrors
<1>2. PICK i \in DOMAIN policies :
        /\ policies[i].contract = a.contract
        /\ \A j \in DOMAIN policies : policies[j].contract = a.contract => j <= i
        /\ PolicyOf(policies, a.contract) = policies[i]
  BY <1>1, LastPolicyGoverns
<1>3. policies[i].allowed = {} \/ a.function \in policies[i].allowed
  BY <1>1, <1>2 DEF InvokeErrors
<1>4. ASSUME a.function \in DOMAIN policies[i].schema
      PROVE  LET schema == policies[i].schema[a.function]
             IN  /\ a.args.object
                 /\ \A k \in DOMAIN schema.required : k \in DOMAIN a.args.at
                 /\ \A k \in DOMAIN a.args.at :
                      \/ k \in DOMAIN schema.required /\ ValidArg(a.args.at[k], schema.required[k])
                      \/ k \in DOMAIN schema.optional /\ ValidArg(a.args.at[k], schema.optional[k])
  <2> DEFINE schema == policies[i].schema[a.function]
  <2>1. HasSchema(policies, a) /\ SchemaOf(policies, a) = schema
    BY <1>1, <1>2, <1>4 DEF HasSchema, SchemaOf
  <2>2. ArgErrors(schema, a.args) = {}
    BY <1>1, <1>2, <1>3, <2>1 DEF InvokeErrors
  <2> HIDE DEF schema
  <2>3. /\ a.args.object
        /\ DOMAIN schema.required \subseteq DOMAIN a.args.at
        /\ DOMAIN a.args.at \subseteq DOMAIN Declared(schema)
        /\ \A k \in DOMAIN a.args.at : ValidArg(a.args.at[k], Declared(schema)[k])
    BY <2>2, NoArgErrors
  <2>4. ASSUME NEW k \in DOMAIN a.args.at
        PROVE  \/ k \in DOMAIN schema.required /\ ValidArg(a.args.at[k], schema.required[k])
               \/ k \in DOMAIN schema.optional /\ ValidArg(a.args.at[k], schema.optional[k])
    <3>1. ValidArg(a.args.at[k], Declared(schema)[k]) /\ k \in DOMAIN Declared(schema)
      BY <2>3, <2>4
    <3> QED
      BY <3>1, DeclaredTypes
  <2> QED
    BY <2>3, <2>4 DEF schema
<1> QED
  BY <1>2, <1>3, <1>4 DEF Permitted

-----------------------------------------------------------------------------
(* Typed templates. *)

\* A contract call has the fields of one.
IsCall(a) == a.kind = "invoke" => a = Invoke(a.contract, a.function, a.args)

\* An action the typed templates look at.
Templated(policies, a) ==
  a.kind = "invoke" /\ HasSchema(policies, a) /\ a.args.object

\* An action stays as it is, becomes Unknown for a bad slot, or has its
\* arguments normalized.
LEMMA TypedActionCases ==
  ASSUME NEW policies, NEW a, IsCall(a)
  PROVE  LET t == TypedAction(policies, a)
             schema == SchemaOf(policies, a)
         IN  \/ ~Templated(policies, a) /\ t = a
             \/ Templated(policies, a) /\ SlotTypeError(schema, a.args) /\ t = Unknown
             \/ /\ Templated(policies, a) /\ ~SlotTypeError(schema, a.args)
                /\ t = Invoke(a.contract, a.function, NormalizedArgs(schema, a.args))
<1> DEFINE schema == SchemaOf(policies, a)
<1>1. CASE ~Templated(policies, a)
  BY <1>1 DEF Templated, TypedAction
<1>2. CASE Templated(policies, a) /\ SlotTypeError(schema, a.args)
  BY <1>2 DEF Templated, TypedAction
<1>3. CASE Templated(policies, a) /\ ~SlotTypeError(schema, a.args)
  <2> DEFINE norm == NormalizedArgs(schema, a.args)
  <2>1. TypedAction(policies, a) = [a EXCEPT !.args = norm]
    BY <1>3 DEF Templated, TypedAction
  <2>2. a = Invoke(a.contract, a.function, a.args)
    BY <1>3 DEF Templated, IsCall
  <2> HIDE DEF norm
  <2>3. PICK c, f, x : c = a.contract /\ f = a.function /\ x = a.args
    OBVIOUS
  <2>4. a = Invoke(c, f, x)
    BY <2>2, <2>3
  <2>5. [a EXCEPT !.args = norm] = Invoke(c, f, norm)
    BY <2>4 DEF Invoke
  <2> QED
    BY <1>3, <2>1, <2>3, <2>5 DEF norm
<1> QED
  BY <1>1, <1>2, <1>3

\* What is still a contract call after the typed templates has its typed slots
\* in the canonical form of their types.
LEMMA TypedSlotsAreValid ==
  ASSUME NEW policies, NEW b, IsCall(b),
         NEW a, a = TypedAction(policies, b), Templated(policies, a),
         NEW k \in DOMAIN Declared(SchemaOf(policies, a)) \intersect DOMAIN a.args.at,
         SlotType(SchemaOf(policies, a), k) \in TypedTypes
  PROVE  ValidArg(a.args.at[k], SlotType(SchemaOf(policies, a), k))
<1>1. a # Unknown
  BY DEF Templated, Unknown
<1>2. /\ Templated(policies, b) /\ ~SlotTypeError(SchemaOf(policies, b), b.args)
      /\ a = Invoke(b.contract, b.function, NormalizedArgs(SchemaOf(policies, b), b.args))
  BY <1>1, TypedActionCases
<1>3. /\ a.contract = b.contract /\ a.function = b.function
      /\ a.args = NormalizedArgs(SchemaOf(policies, b), b.args)
  BY <1>2 DEF Invoke
<1>4. SchemaOf(policies, a) = SchemaOf(policies, b)
  BY <1>3 DEF SchemaOf
<1> DEFINE schema == SchemaOf(policies, b)
<1>5. DOMAIN a.args.at = DOMAIN b.args.at
  BY <1>3 DEF NormalizedArgs, Object
<1>6. k \in TypedKeys(schema, b.args)
  BY <1>4, <1>5 DEF TypedKeys, SlotType
<1> HIDE DEF schema
<1>7. a.args.at[k] = Normalize(b.args.at[k], SlotType(schema, k))
  BY <1>3, <1>5, <1>6 DEF NormalizedArgs, Object, schema
<1>8. ~NormalizeFails(b.args.at[k], SlotType(schema, k))
  BY <1>2, <1>6 DEF SlotTypeError, schema
<1> QED
  BY <1>4, <1>7, <1>8 DEF NormalizeFails, schema

\* A call without a policy error stays one without an error: its slots can be
\* normalized and the values are still of their types.
LEMMA NormalizationKeepsPermitted ==
  ASSUME NEW policies, NEW a, IsCall(a), a.kind = "invoke", InvokeErrors(policies, a) = {}
  PROVE  LET t == TypedAction(policies, a)
         IN  /\ t.kind = "invoke" /\ t.contract = a.contract /\ t.function = a.function
             /\ InvokeErrors(policies, t) = {}
<1> DEFINE t == TypedAction(policies, a)
           schema == SchemaOf(policies, a)
<1>1. CASE ~Templated(policies, a)
  BY <1>1, TypedActionCases
<1>2. CASE Templated(policies, a)
  <2>1. ArgErrors(schema, a.args) = {}
    BY <1>2 DEF Templated, InvokeErrors, HasSchema
  <2>2. /\ a.args.object
        /\ DOMAIN schema.required \subseteq DOMAIN a.args.at
        /\ DOMAIN a.args.at \subseteq DOMAIN Declared(schema)
        /\ \A k \in DOMAIN a.args.at : ValidArg(a.args.at[k], Declared(schema)[k])
    BY <2>1, NoArgErrors
  <2>3. ASSUME NEW k \in TypedKeys(schema, a.args)
        PROVE  /\ ValidArg(Normalize(a.args.at[k], SlotType(schema, k)), SlotType(schema, k))
               /\ SlotType(schema, k) = Declared(schema)[k]
    <3>1. k \in DOMAIN a.args.at /\ SlotType(schema, k) \in TypedTypes
      BY <2>3 DEF TypedKeys, SlotType
    <3>2. ValidArg(a.args.at[k], Declared(schema)[k])
      BY <2>2, <3>1
    <3>3. SlotType(schema, k) = Declared(schema)[k]
      BY <3>2, ValidIsCanonical DEF SlotType
    <3> QED
      BY <3>1, <3>2, <3>3, NormalizeKeepsValid
  <2>4. ~SlotTypeError(schema, a.args)
    BY <2>3 DEF SlotTypeError, NormalizeFails
  <2> DEFINE norm == NormalizedArgs(schema, a.args)
  <2>5. t = Invoke(a.contract, a.function, norm)
    BY <1>2, <2>4, TypedActionCases
  <2>6. norm.object /\ DOMAIN norm.at = DOMAIN a.args.at
    BY DEF NormalizedArgs, Object
  <2>7. \A k \in DOMAIN norm.at :
          norm.at[k] = IF k \in TypedKeys(schema, a.args)
                       THEN Normalize(a.args.at[k], SlotType(schema, k)) ELSE a.args.at[k]
    BY DEF NormalizedArgs, Object
  <2> HIDE DEF norm
  <2>8. \A k \in DOMAIN norm.at : ValidArg(norm.at[k], Declared(schema)[k])
    <3>1. SUFFICES ASSUME NEW k \in DOMAIN norm.at
                   PROVE  ValidArg(norm.at[k], Declared(schema)[k])
      OBVIOUS
    <3>2. CASE k \in TypedKeys(schema, a.args)
      BY <2>3, <2>7, <3>2
    <3>3. CASE k \notin TypedKeys(schema, a.args)
      BY <2>2, <2>6, <2>7, <3>3
    <3> QED
      BY <3>2, <3>3
  <2>9. ArgErrors(schema, norm) = {}
    BY <2>2, <2>6, <2>8, NoArgErrors
  <2>10. t.kind = "invoke" /\ t.contract = a.contract /\ t.function = a.function /\ t.args = norm
    BY <2>5 DEF Invoke
  <2>11. /\ HasPolicy(policies, t.contract)
         /\ ~(/\ PolicyOf(policies, t.contract).allowed # {}
              /\ t.function \notin PolicyOf(policies, t.contract).allowed)
    BY <2>10 DEF InvokeErrors
  <2>12. SchemaOf(policies, t) = schema
    BY <2>10 DEF SchemaOf
  <2> HIDE DEF t, schema
  <2>13. InvokeErrors(policies, t) = {}
    BY <2>9, <2>10, <2>11, <2>12 DEF InvokeErrors
  <2> QED
    BY <2>10, <2>13 DEF t
<1> QED
  BY <1>1, <1>2

-----------------------------------------------------------------------------
(* Plans. *)

\* A plan of the builder and of the templates: one action.
OneAction(plan) ==
  /\ plan = [actions |-> plan.actions, warnings |-> plan.warnings]
  /\ DOMAIN plan.actions = {1}
  /\ IsCall(plan.actions[1])

\* What the builder of a label makes is an action of its kind.
LEMMA BuildersMakeCalls ==
  ASSUME NEW label \in Labels, NEW prompt, Build(label, prompt).ok
  PROVE  IsCall(Build(label, prompt).value)
<1>1. ASSUME NEW slots, NEW warning, NEW action, action.kind # "invoke",
             Build(label, prompt) = Require(slots, warning, action)
      PROVE  IsCall(Build(label, prompt).value)
  BY <1>1 DEF Require, Slot, Missing, IsCall
<1>2. ~Missing("no_action_mapping").ok
  BY DEF Missing
<1>3. \A slots, warning, action :
        Build(label, prompt) = Require(slots, warning, action) /\ action.kind # "invoke"
          => IsCall(Build(label, prompt).value)
  BY <1>1
<1>4. CASE label = "BalanceQuery"
  <2>1. \E slots, warning, action :
          Build(label, prompt) = Require(slots, warning, action) /\ action.kind # "invoke"
    BY <1>4 DEF Build, BuildBalanceQuery
  <2> QED
    BY <1>3, <2>1
<1>5. CASE label = "CreateAccount"
  <2>1. \E slots, warning, action :
          Build(label, prompt) = Require(slots, warning, action) /\ action.kind # "invoke"
    BY <1>5 DEF Build, BuildCreateAccount
  <2> QED
    BY <1>3, <2>1
<1>6. CASE label = "ChangeTrust"
  <2>1. \E slots, warning, action :
          Build(label, prompt) = Require(slots, warning, action) /\ action.kind # "invoke"
    BY <1>6 DEF Build, BuildChangeTrust
  <2> QED
    BY <1>3, <2>1
<1>7. CASE label = "TransferXLM"
  <2>1. \E slots, warning, action :
          Build(label, prompt) = Require(slots, warning, action) /\ action.kind # "invoke"
    BY <1>7 DEF Build, BuildTransferXLM, Pay
  <2> QED
    BY <1>3, <2>1
<1>8. CASE label = "TransferAsset"
  <2>1. \E slots, warning, action :
          Build(label, prompt) = Require(slots, warning, action) /\ action.kind # "invoke"
    BY <1>8 DEF Build, BuildTransferAsset, Pay
  <2> QED
    BY <1>3, <2>1
<1>9. CASE label = "FundTestnet"
  <2>1. \E slots, warning, action :
          Build(label, prompt) = Require(slots, warning, action) /\ action.kind # "invoke"
    BY <1>9 DEF Build, BuildFundTestnet
  <2> QED
    BY <1>3, <2>1
<1>10. CASE label = "TxStatus"
  <2>1. \E slots, warning, action :
          Build(label, prompt) = Require(slots, warning, action) /\ action.kind # "invoke"
    BY <1>10 DEF Build, BuildTxStatus
  <2> QED
    BY <1>3, <2>1
<1>11. CASE label = "ContractDeploy"
  <2>1. \E slots, warning, action :
          Build(label, prompt) = Require(slots, warning, action) /\ action.kind # "invoke"
    BY <1>11 DEF Build, BuildContractDeploy, Deploy
  <2> QED
    BY <1>3, <2>1
<1>12. CASE label = "ContractInvoke"
  <2>1. Build(label, prompt) = BuildContractInvoke(prompt)
    BY <1>12 DEF Build
  <2>2. \E x : BuildContractInvoke(prompt) = Slot(Invoke(prompt.contract, prompt.function, x))
               \/ ~BuildContractInvoke(prompt).ok
    BY DEF BuildContractInvoke, Missing
  <2>3. PICK x : Build(label, prompt) = Slot(Invoke(prompt.contract, prompt.function, x))
    BY <2>1, <2>2
  <2> QED
    BY <2>3 DEF Slot, Invoke, IsCall
<1>13. CASE label = "Unknown"
  BY <1>2, <1>13 DEF Build
<1> QED
  BY <1>4, <1>5, <1>6, <1>7, <1>8, <1>9, <1>10, <1>11, <1>12, <1>13 DEF Labels

\* The builder makes a plan of one action.
LEMMA BuilderMakesOneAction ==
  ASSUME NEW prompt, NEW decision, decision.label \in Labels
  PROVE  OneAction(BuildActionPlan(prompt, decision))
<1> DEFINE built == Build(decision.label, prompt)
<1>1. IsCall(Unknown)
  BY DEF Unknown, IsCall
<1>2. built.ok => IsCall(built.value)
  BY BuildersMakeCalls
<1> HIDE DEF built
<1>3. ASSUME NEW a, NEW w, IsCall(a)
      PROVE  OneAction([actions |-> <<a>>, warnings |-> w])
  BY <1>3 DEF OneAction
<1>4. CASE decision.downgraded
  BY <1>1, <1>3, <1>4 DEF BuildActionPlan, built
<1>5. CASE ~decision.downgraded /\ built.ok
  BY <1>2, <1>3, <1>5 DEF BuildActionPlan, built
<1>6. CASE ~decision.downgraded /\ ~built.ok
  BY <1>1, <1>3, <1>6 DEF BuildActionPlan, built
<1> QED
  BY <1>4, <1>5, <1>6

\* So do the intent templates.
LEMMA IntentTemplatesKeepOneAction ==
  ASSUME NEW prompt, NEW policies, NEW plan, OneAction(plan),
         NEW q \in ApplyIntentTemplates(prompt, plan, policies)
  PROVE  OneAction(q)
<1>1. CASE q = plan
  BY <1>1
<1>2. ASSUME NEW policy, NEW template, q = ExpandWith(prompt, plan, policy, template)
      PROVE  OneAction(q)
  <2>1. q = plan \/ q = [plan EXCEPT !.warnings = @ \union {"intent_error"}]
        \/ \E x : q = [actions  |-> <<Invoke(policy.contract, Trim(template.function), x)>>,
                       warnings |-> plan.warnings \ Repairable]
    BY <1>2 DEF ExpandWith
  <2>2. CASE q = [plan EXCEPT !.warnings = @ \union {"intent_error"}]
    <3>1. PICK a, w : a = plan.actions /\ w = plan.warnings
      OBVIOUS
    <3>2. plan = [actions |-> a, warnings |-> w]
      BY <3>1 DEF OneAction
    <3>3. q = [actions |-> a, warnings |-> w \union {"intent_error"}]
      BY <2>2, <3>2
    <3> QED
      BY <3>1, <3>3 DEF OneAction
  <2>3. ASSUME NEW x, q = [actions  |-> <<Invoke(policy.contract, Trim(template.function), x)>>,
                           warnings |-> plan.warnings \ Repairable]
        PROVE  OneAction(q)
    <3>1. IsCall(Invoke(policy.contract, Trim(template.function), x))
      BY DEF Invoke, IsCall
    <3> QED
      BY <2>3, <3>1 DEF OneAction
  <2> QED
    BY <2>1, <2>2, <2>3
<1> QED
  BY <1>1, <1>2 DEF ApplyIntentTemplates

\* So do the typed templates, and they add a warning to an action they convert.
LEMMA TypedTemplatesKeepOneAction ==
  ASSUME NEW policies, NEW plan, OneAction(plan)
  PROVE  LET q == ApplyTypedTemplates(plan, policies)
         IN  /\ OneAction(q)
             /\ q.actions[1] = TypedAction(policies, plan.actions[1])
             /\ plan.warnings \subseteq q.warnings
             /\ q.warnings \subseteq plan.warnings \union {"intent_error"}
             /\ "intent_error" \notin q.warnings =>
                  (q.actions[1] = Unknown => plan.actions[1] = Unknown)
             /\ q.actions[1] # Unknown => q.warnings = plan.warnings
<1> DEFINE q == ApplyTypedTemplates(plan, policies)
           typed == [i \in DOMAIN plan.actions |-> TypedAction(policies, plan.actions[i])]
           converted == \E i \in DOMAIN typed : typed[i] = Unknown /\ plan.actions[i] # Unknown
<1>1. DOMAIN typed = {1} /\ typed[1] = TypedAction(policies, plan.actions[1])
  BY DEF OneAction
<1>2. converted <=> typed[1] = Unknown /\ plan.actions[1] # Unknown
  BY <1>1
<1>3. q = [actions |-> typed,
           warnings |-> plan.warnings \union (IF converted THEN {"intent_error"} ELSE {})]
  BY DEF ApplyTypedTemplates
<1>4. IsCall(TypedAction(policies, plan.actions[1]))
  <2>1. PICK a : a = plan.actions[1]
    OBVIOUS
  <2>2. IsCall(a)
    BY <2>1 DEF OneAction
  <2>3. IsCall(Unknown) /\ \A x : IsCall(Invoke(a.contract, a.function, x))
    BY DEF IsCall, Unknown, Invoke
  <2> QED
    BY <2>1, <2>2, <2>3, TypedActionCases
<1> HIDE DEF typed, converted, q
<1>5. q.actions = typed
      /\ q.warnings = plan.warnings \union (IF converted THEN {"intent_error"} ELSE {})
      /\ q = [actions |-> q.actions, warnings |-> q.warnings]
  BY <1>3
<1> QED
  BY <1>1, <1>2, <1>4, <1>5 DEF OneAction, q

-----------------------------------------------------------------------------
(* The inductive invariant: how every answer was made. *)

\* An answer on the files of its moment.
AnswerOn(f, plan, policies, code) ==
  [done |-> TRUE, plan |-> plan, policies |-> policies, files |-> f, code |-> code]

BuiltPlan == BuildActionPlan(case.prompt, Decision)

CaseInv == case \in Cases /\ env \in Environments(case) /\ files \in FileSets(case)

\* The API judged a plan of the templates, all from one load of the files.
ApiJudged(f, policies, plan) ==
  /\ f \in FileSets(case) /\ policies \in PolicyLoads(f)
  /\ plan \in ServerPlans(case.prompt, Decision, policies)
  /\ api = AnswerOn(f, plan, policies,
                    ServerVerdict(plan, ServerSettings(env), policies, f.broken))

ApiRefused(f, code) ==
  /\ code \in {1, 2}
  /\ api = AnswerOn(f, [actions |-> <<>>, warnings |-> {}], <<>>, code)

ApiInv ==
  \/ api = NotRun
  \/ \E f, policies, plan : ApiJudged(f, policies, plan)
  \/ \E f, code : ApiRefused(f, code)

\* The REPL has a plan of the templates of an earlier load, or it has typed that
\* plan again and judged it by the load of now.
ReplBuilt(f, policies, plan) ==
  /\ f \in FileSets(case) /\ policies \in PolicyLoads(f)
  /\ plan \in ApplyIntentTemplates(case.prompt, BuiltPlan, policies)

ReplJudged(f, policies, plan) ==
  /\ f \in FileSets(case) /\ policies \in PolicyLoads(f)
  /\ repl = AnswerOn(f, ApplyTypedTemplates(plan, policies), policies,
                     ReplVerdict(ApplyTypedTemplates(plan, policies), PromptSettings(env),
                                 policies, f.broken, TRUE, TRUE))

ReplInv ==
  \/ repl = NotRun
  \/ \E f, policies, plan : ReplBuilt(f, policies, plan) /\ repl = AnswerOn(f, plan, policies, None)
  \/ \E g, earlier, f, policies, plan : ReplBuilt(g, earlier, plan) /\ ReplJudged(f, policies, plan)

McpInv == mcp = NotRun \/ \E f : mcp = AnswerOn(f, BuiltPlan, <<>>, None)

\* evaluate_guardrails was given a plan that had been answered.
McpJudged(f, answer) ==
  /\ f \in FileSets(case) /\ answer \in {mcp, api} /\ answer.done
  /\ judged = AnswerOn(f, answer.plan, SortedPolicyLoad(f),
                       McpVerdict(answer.plan, LocalSettings(env), SortedPolicyLoad(f), f.broken))

JudgedInv == judged = NotRun \/ \E f, answer : McpJudged(f, answer)

\* The CLI ran the plan of the API.
CliJudged(f, policies) ==
  /\ f \in FileSets(case) /\ policies \in PolicyLoads(f) /\ api.done
  /\ run = AnswerOn(f, api.plan, policies,
                    ReplVerdict(api.plan, LocalSettings(env), policies, f.broken, TRUE, FALSE))

RunInv == run = NotRun \/ \E f, policies : CliJudged(f, policies)

GatesInv == CaseInv /\ ApiInv /\ ReplInv /\ McpInv /\ JudgedInv /\ RunInv

\* A verdict is an answer on the files of now.
LEMMA VerdictIsAnswer ==
  ASSUME NEW plan, NEW policies, NEW code
  PROVE  Verdict(plan, policies, code) = AnswerOn(files, plan, policies, code)
BY DEF Verdict, AnswerOn

LEMMA AnswerFields ==
  ASSUME NEW f, NEW plan, NEW policies, NEW code
  PROVE  LET answer == AnswerOn(f, plan, policies, code)
         IN  /\ answer.done /\ answer.plan = plan /\ answer.policies = policies
             /\ answer.files = f /\ answer.code = code
BY DEF AnswerOn

LEMMA InitGates == Init => GatesInv
BY DEF Init, GatesInv, CaseInv, ApiInv, ReplInv, McpInv, JudgedInv, RunInv

\* The rest of the invariant is not disturbed by an answer nobody had yet.
LEMMA AnswersStay ==
  ASSUME GatesInv, UNCHANGED <<case, env>>,
         api.done => UNCHANGED api, mcp.done => UNCHANGED mcp
  PROVE  /\ UNCHANGED judged => JudgedInv'
         /\ UNCHANGED run => RunInv'
<1>1. ASSUME UNCHANGED judged PROVE JudgedInv'
  <2>1. CASE judged = NotRun
    BY <1>1, <2>1 DEF JudgedInv, NotRun
  <2>2. ASSUME NEW f, NEW answer, McpJudged(f, answer)
        PROVE  McpJudged(f, answer)'
    BY <1>1, <2>2 DEF McpJudged
  <2> QED
    BY <2>1, <2>2 DEF JudgedInv, GatesInv
<1>2. ASSUME UNCHANGED run PROVE RunInv'
  <2>1. CASE run = NotRun
    BY <1>2, <2>1 DEF RunInv, NotRun
  <2>2. ASSUME NEW f, NEW policies, CliJudged(f, policies)
        PROVE  CliJudged(f, policies)'
    BY <1>2, <2>2 DEF CliJudged
  <2> QED
    BY <2>1, <2>2 DEF RunInv, GatesInv
<1> QED
  BY <1>1, <1>2

LEMMA StepGates ==
  ASSUME GatesInv, [Next]_vars
  PROVE  GatesInv'
<1> USE DEF GatesInv
<1>1. CASE ApiAnswer \/ ApiFails
  <2>1. ~api.done /\ UNCHANGED <<case, env, files, repl, mcp, judged, run>>
    BY <1>1 DEF ApiAnswer, ApiFails
  <2>2. CaseInv' /\ ReplInv' /\ McpInv'
    BY <2>1 DEF CaseInv, ReplInv, ReplBuilt, ReplJudged, McpInv, BuiltPlan, Decision, NotRun
  <2>3. JudgedInv' /\ RunInv'
    BY <2>1, AnswersStay
  <2>4. ApiInv'
    <3>1. CASE ApiAnswer
      <4>1. PICK policies \in PolicyLoads(files) :
              \E plan \in ServerPlans(case.prompt, Decision, policies) :
                api' = Verdict(plan, policies,
                         ServerVerdict(plan, ServerSettings(env), policies, files.broken))
        BY <3>1 DEF ApiAnswer
      <4>2. PICK plan \in ServerPlans(case.prompt, Decision, policies) :
              api' = AnswerOn(files, plan, policies,
                       ServerVerdict(plan, ServerSettings(env), policies, files.broken))
        BY <4>1, VerdictIsAnswer
      <4>3. \E f : f = files
        OBVIOUS
      <4>4. PICK f : f = files
        BY <4>3
      <4>5. ApiJudged(f, policies, plan)'
        BY <2>1, <4>2, <4>4 DEF ApiJudged, CaseInv, Decision
      <4> QED
        BY <4>5 DEF ApiInv
    <3>2. CASE ApiFails
      <4>1. PICK code \in {1, 2} :
              api' = Verdict([actions |-> <<>>, warnings |-> {}], <<>>, code)
        BY <3>2 DEF ApiFails
      <4>2. PICK f : f = files
        OBVIOUS
      <4>3. ApiRefused(f, code)'
        BY <4>1, <4>2, VerdictIsAnswer DEF ApiRefused
      <4> QED
        BY <4>3 DEF ApiInv
    <3> QED
      BY <1>1, <3>1, <3>2
  <2> QED
    BY <2>2, <2>3, <2>4
<1>2. CASE ReplBuild
  <2>1. UNCHANGED <<case, env, files, api, mcp, judged, run>>
    BY <1>2 DEF ReplBuild
  <2>2. CaseInv' /\ ApiInv' /\ McpInv'
    BY <2>1 DEF CaseInv, ApiInv, ApiJudged, ApiRefused, McpInv, BuiltPlan, Decision, NotRun
  <2>3. JudgedInv' /\ RunInv'
    BY <2>1, AnswersStay
  <2>4. ReplInv'
    <3>1. PICK policies \in PolicyLoads(files) :
            \E plan \in ApplyIntentTemplates(case.prompt, BuiltPlan, policies) :
              repl' = Verdict(plan, policies, None)
      BY <1>2 DEF ReplBuild, BuiltPlan
    <3>2. PICK plan \in ApplyIntentTemplates(case.prompt, BuiltPlan, policies) :
            repl' = AnswerOn(files, plan, policies, None)
      BY <3>1, VerdictIsAnswer
    <3>3. PICK f : f = files
      OBVIOUS
    <3>4. ReplBuilt(f, policies, plan)' /\ (repl = AnswerOn(f, plan, policies, None))'
      BY <2>1, <3>2, <3>3 DEF ReplBuilt, CaseInv, BuiltPlan, Decision
    <3> QED
      BY <3>4 DEF ReplInv
  <2> QED
    BY <2>2, <2>3, <2>4
<1>3. CASE ReplExecute
  <2>1. UNCHANGED <<case, env, files, api, mcp, judged, run>>
    BY <1>3 DEF ReplExecute
  <2>2. CaseInv' /\ ApiInv' /\ McpInv'
    BY <2>1 DEF CaseInv, ApiInv, ApiJudged, ApiRefused, McpInv, BuiltPlan, Decision, NotRun
  <2>3. JudgedInv' /\ RunInv'
    BY <2>1, AnswersStay
  <2>4. ReplInv'
    <3>1. \E g, earlier : ReplBuilt(g, earlier, repl.plan)
      <4>1. repl.done /\ repl.code = None
        BY <1>3 DEF ReplExecute
      <4>2. repl # NotRun
        BY <4>1 DEF NotRun
      <4>3. ASSUME NEW f, NEW policies, NEW plan, ReplJudged(f, policies, plan) PROVE FALSE
        <5>1. repl.code \in 0..5
          BY <4>3 DEF ReplJudged, AnswerOn, ReplVerdict
        <5> QED
          BY <4>1, <5>1, NoneAssumption
      <4> QED
        BY <4>2, <4>3 DEF ReplInv, AnswerOn
    <3>2. PICK g, earlier, plan : ReplBuilt(g, earlier, plan) /\ plan = repl.plan
      BY <3>1
    <3>3. PICK policies \in PolicyLoads(files) :
            repl' = Verdict(ReplPlan(repl.plan, policies, TRUE), policies,
                      ReplVerdict(ReplPlan(repl.plan, policies, TRUE), PromptSettings(env),
                                  policies, files.broken, TRUE, TRUE))
      BY <1>3 DEF ReplExecute
    <3>4. ReplPlan(repl.plan, policies, TRUE) = ApplyTypedTemplates(plan, policies)
      BY <3>2 DEF ReplPlan
    <3>5. PICK f : f = files
      OBVIOUS
    <3>6. ReplJudged(f, policies, plan)'
      BY <2>1, <3>3, <3>4, <3>5, VerdictIsAnswer DEF ReplJudged, CaseInv
    <3>7. ReplBuilt(g, earlier, plan)'
      BY <2>1, <3>2 DEF ReplBuilt, BuiltPlan, Decision
    <3> QED
      BY <3>6, <3>7 DEF ReplInv
  <2> QED
    BY <2>2, <2>3, <2>4
<1>4. CASE McpPlan
  <2>1. ~mcp.done /\ UNCHANGED <<case, env, files, api, repl, judged, run>>
    BY <1>4 DEF McpPlan
  <2>2. CaseInv' /\ ApiInv' /\ ReplInv'
    BY <2>1 DEF CaseInv, ApiInv, ApiJudged, ApiRefused, ReplInv, ReplBuilt, ReplJudged,
                BuiltPlan, Decision, NotRun
  <2>3. JudgedInv' /\ RunInv'
    BY <2>1, AnswersStay
  <2>4. McpInv'
    <3>1. PICK f : f = files
      OBVIOUS
    <3>2. mcp' = AnswerOn(f, BuiltPlan, <<>>, None)
      BY <1>4, <3>1, VerdictIsAnswer DEF McpPlan, BuiltPlan
    <3> QED
      BY <2>1, <3>2 DEF McpInv, BuiltPlan, Decision
  <2> QED
    BY <2>2, <2>3, <2>4
<1>5. CASE McpEvaluate
  <2>1. UNCHANGED <<case, env, files, api, repl, mcp, run>>
    BY <1>5 DEF McpEvaluate
  <2>2. CaseInv' /\ ApiInv' /\ ReplInv' /\ McpInv'
    BY <2>1 DEF CaseInv, ApiInv, ApiJudged, ApiRefused, ReplInv, ReplBuilt, ReplJudged,
                McpInv, BuiltPlan, Decision, NotRun
  <2>3. RunInv'
    BY <2>1, AnswersStay
  <2>4. JudgedInv'
    <3>1. PICK answer \in {mcp, api} :
            /\ answer.done
            /\ judged' = Verdict(answer.plan, SortedPolicyLoad(files),
                           McpVerdict(answer.plan, LocalSettings(env), SortedPolicyLoad(files),
                                      files.broken))
      BY <1>5 DEF McpEvaluate
    <3>2. PICK f : f = files
      OBVIOUS
    <3>3. McpJudged(f, answer)'
      BY <2>1, <3>1, <3>2, VerdictIsAnswer DEF McpJudged, CaseInv
    <3> QED
      BY <3>3 DEF JudgedInv
  <2> QED
    BY <2>2, <2>3, <2>4
<1>6. CASE CliRun
  <2>1. api.done /\ UNCHANGED <<case, env, files, api, repl, mcp, judged>>
    BY <1>6 DEF CliRun
  <2>2. CaseInv' /\ ApiInv' /\ ReplInv' /\ McpInv'
    BY <2>1 DEF CaseInv, ApiInv, ApiJudged, ApiRefused, ReplInv, ReplBuilt, ReplJudged,
                McpInv, BuiltPlan, Decision, NotRun
  <2>3. JudgedInv'
    BY <2>1, AnswersStay
  <2>4. RunInv'
    <3>1. PICK policies \in PolicyLoads(files) :
            run' = Verdict(api.plan, policies,
                     ReplVerdict(api.plan, LocalSettings(env), policies, files.broken, TRUE, FALSE))
      BY <1>6 DEF CliRun
    <3>2. PICK f : f = files
      OBVIOUS
    <3>3. CliJudged(f, policies)'
      BY <2>1, <3>1, <3>2, VerdictIsAnswer DEF CliJudged, CaseInv
    <3> QED
      BY <3>3 DEF RunInv
  <2> QED
    BY <2>2, <2>3, <2>4
<1>7. CASE EditFiles \/ UNCHANGED vars
  <2>1. UNCHANGED <<case, env, api, repl, mcp, judged, run>> /\ files' \in FileSets(case)
    BY <1>7 DEF EditFiles, vars, CaseInv
  <2>2. CaseInv' /\ ApiInv' /\ ReplInv' /\ McpInv'
    BY <2>1 DEF CaseInv, ApiInv, ApiJudged, ApiRefused, ReplInv, ReplBuilt, ReplJudged,
                McpInv, BuiltPlan, Decision, NotRun
  <2>3. JudgedInv' /\ RunInv'
    BY <2>1, AnswersStay
  <2> QED
    BY <2>2, <2>3
<1> QED
  BY <1>1, <1>2, <1>3, <1>4, <1>5, <1>6, <1>7 DEF Next

\* Every answer was made by the templates and the verdict of its front end
\* (build_stellar_intent_plan_response, build_plan_from_intent_prompt and
\* execute_plan, evaluate_guardrails), on files that were there at its moment.
THEOREM AnswersAreAccountedFor == Spec => []GatesInv
<1>1. Init => GatesInv
  BY InitGates
<1>2. GatesInv /\ [Next]_vars => GatesInv'
  BY StepGates
<1> QED
  BY <1>1, <1>2, PTL DEF Spec

-----------------------------------------------------------------------------
(* What a verdict of 0 says of a plan. *)

\* The assets the environment lists.
ListedAssets == IF env.assets = None THEN {} ELSE env.assets

FrontEnds == {ServerSettings(env), LocalSettings(env), PromptSettings(env)}

\* The settings of a front end have the lists of the environment and the flags
\* as the front end reads them; only the REPL puts XLM in a missing list.
LEMMA SettingsFields ==
  /\ ServerSettings(env).enforce_policies = ExactFlag(env.policy_flag)
  /\ LocalSettings(env).enforce_policies = TrimmedFlag(env.policy_flag)
  /\ PromptSettings(env).enforce_policies = TrimmedFlag(env.policy_flag)
  /\ \A s \in FrontEnds :
       s.enforce_lists = TrimmedFlag(env.lists_flag) /\ s.contracts = env.contracts
  /\ \A s \in {ServerSettings(env), LocalSettings(env)} : s.assets = ListedAssets
  /\ PromptSettings(env).assets # ListedAssets =>
       env.interactive /\ env.assets = None /\ PromptSettings(env).assets = {<<"XLM">>}
<1> DEFINE lists == TrimmedFlag(env.lists_flag)
<1>1. lists \in BOOLEAN /\ ExactFlag(env.policy_flag) \in BOOLEAN
      /\ TrimmedFlag(env.policy_flag) \in BOOLEAN
  BY DEF ExactFlag, TrimmedFlag
<1>2. ASSUME NEW e \in BOOLEAN
      PROVE  /\ SettingsWith(env, e).enforce_policies = e
             /\ SettingsWith(env, e).enforce_lists = lists
             /\ SettingsWith(env, e).assets = ListedAssets
             /\ SettingsWith(env, e).contracts = env.contracts
  <2> HIDE DEF lists
  <2> QED
    BY <1>1 DEF SettingsWith, lists, ListedAssets
<1>3. /\ PromptSettings(env).enforce_policies = LocalSettings(env).enforce_policies
      /\ PromptSettings(env).enforce_lists = LocalSettings(env).enforce_lists
      /\ PromptSettings(env).contracts = LocalSettings(env).contracts
      /\ \/ PromptSettings(env) = LocalSettings(env)
         \/ env.interactive /\ env.assets = None /\ PromptSettings(env).assets = {<<"XLM">>}
  BY DEF PromptSettings, LocalSettings, SettingsWith
<1> QED
  BY <1>1, <1>2, <1>3 DEF ServerSettings, LocalSettings, FrontEnds

\* What the lists and the policies of a front end let through.
NotBlocked(answer, s) ==
  /\ ~ListsBlock(answer.plan, s)
  /\ ~PoliciesBlock(answer.plan, s, answer.policies, answer.files.broken)

\* Whatever the front end, a plan that passes was blocked neither by the lists
\* nor by the policies that were loaded for the verdict.
LEMMA PassedMeansNotBlocked ==
  ASSUME GatesInv, NEW answer \in {api, repl, judged, run}, Passed(answer)
  PROVE  /\ answer.files \in FileSets(case)
         /\ answer.policies \in PolicyLoads(answer.files) \union {SortedPolicyLoad(answer.files)}
         /\ \E s \in FrontEnds : NotBlocked(answer, s)
         /\ answer \in {api, judged, run} =>
              \E s \in {ServerSettings(env), LocalSettings(env)} : NotBlocked(answer, s)
<1> USE DEF GatesInv, NotBlocked, FrontEnds
<1>1. answer.done /\ answer.code = 0 /\ answer # NotRun
  BY DEF Passed, NotRun
<1>2. ASSUME NEW plan, NEW s, NEW policies, NEW broken
      PROVE  /\ ServerVerdict(plan, s, policies, broken) = 0
                  => ~ListsBlock(plan, s) /\ ~PoliciesBlock(plan, s, policies, broken)
             /\ \A flow, intent : ReplVerdict(plan, s, policies, broken, flow, intent) = 0
                  => ~ListsBlock(plan, s) /\ ~PoliciesBlock(plan, s, policies, broken)
             /\ McpVerdict(plan, s, policies, broken) = 0
                  => ~ListsBlock(plan, s) /\ ~PoliciesBlock(plan, s, policies, broken)
  BY DEF ServerVerdict, ReplVerdict, McpVerdict
<1>3. CASE answer = api
  <2>1. PICK f, policies, plan : ApiJudged(f, policies, plan)
    BY <1>1, <1>3 DEF ApiInv, ApiRefused, AnswerOn
  <2>2. /\ answer.files = f /\ answer.policies = policies /\ answer.plan = plan
        /\ ServerVerdict(plan, ServerSettings(env), policies, f.broken) = 0
    BY <1>1, <1>3, <2>1, AnswerFields DEF ApiJudged
  <2> QED
    BY <1>2, <2>1, <2>2 DEF ApiJudged
<1>4. CASE answer = repl /\ answer \notin {api, judged, run}
  <2>1. PICK f, policies, plan : ReplJudged(f, policies, plan)
    BY <1>1, <1>4, NoneAssumption DEF ReplInv, AnswerOn
  <2> DEFINE typed == ApplyTypedTemplates(plan, policies)
  <2>2. /\ answer.files = f /\ answer.policies = policies /\ answer.plan = typed
        /\ ReplVerdict(typed, PromptSettings(env), policies, f.broken, TRUE, TRUE) = 0
    <3>1. PICK code : code = ReplVerdict(typed, PromptSettings(env), policies, f.broken, TRUE, TRUE)
      OBVIOUS
    <3>2. repl = AnswerOn(f, typed, policies, code)
      BY <2>1, <3>1 DEF ReplJudged
    <3>3. /\ answer.files = f /\ answer.policies = policies /\ answer.plan = typed
          /\ code = 0
      BY <1>1, <1>4, <3>2, AnswerFields
    <3> QED
      BY <3>1, <3>3, Zenon
  <2>3. NotBlocked(answer, PromptSettings(env))
    BY <1>2, <2>2
  <2> QED
    BY <1>4, <2>1, <2>2, <2>3 DEF ReplJudged
<1>5. CASE answer = judged
  <2>1. PICK f, planned : McpJudged(f, planned)
    BY <1>1, <1>5 DEF JudgedInv
  <2>2. /\ answer.files = f /\ answer.policies = SortedPolicyLoad(f) /\ answer.plan = planned.plan
        /\ McpVerdict(planned.plan, LocalSettings(env), SortedPolicyLoad(f), f.broken) = 0
    BY <1>1, <1>5, <2>1, AnswerFields DEF McpJudged
  <2> QED
    BY <1>2, <2>1, <2>2 DEF McpJudged
<1>6. CASE answer = run
  <2>1. PICK f, policies : CliJudged(f, policies)
    BY <1>1, <1>6 DEF RunInv
  <2>2. /\ answer.files = f /\ answer.policies = policies /\ answer.plan = api.plan
        /\ ReplVerdict(api.plan, LocalSettings(env), policies, f.broken, TRUE, FALSE) = 0
    <3>1. PICK code : code = ReplVerdict(api.plan, LocalSettings(env), policies, f.broken, TRUE, FALSE)
      OBVIOUS
    <3>2. run = AnswerOn(f, api.plan, policies, code)
      BY <2>1, <3>1 DEF CliJudged
    <3>3. /\ answer.files = f /\ answer.policies = policies /\ answer.plan = api.plan
          /\ code = 0
      BY <1>1, <1>6, <3>2, AnswerFields
    <3> QED
      BY <3>1, <3>3, Zenon
  <2> QED
    BY <1>2, <2>1, <2>2 DEF CliJudged
<1> QED
  BY <1>3, <1>4, <1>5, <1>6

\* What enforced lists do not block, they name.
LEMMA UnblockedIsNamed ==
  ASSUME NEW a, NEW assets, ~OutsideEnforcedLists(a, assets, env.contracts),
         \/ assets = ListedAssets
         \/ env.interactive /\ env.assets = None /\ assets = {<<"XLM">>}
  PROVE  Listed(a) \/ (assets # ListedAssets /\ XlmByDefault(a))
<1>1. CASE a.kind = "invoke"
  <2>1. ContractListed(env.contracts, a.contract, a.function)
    BY <1>1 DEF OutsideEnforcedLists, OutsideLists
  <2>2. \E e \in env.contracts : e = <<a.contract>> \/ e = <<a.contract, a.function>>
    BY <2>1 DEF ContractListed
  <2>3. Listed(a)
    BY <1>1, <2>2 DEF Listed
  <2> QED
    BY <2>3
<1>2. CASE a.kind \in {"payment", "trust"}
  <2>1. AssetListed(assets, a.code, a.issuer) /\ assets # {}
    BY <1>2 DEF OutsideEnforcedLists, OutsideLists
  <2>2. CASE assets = ListedAssets
    <3>1. env.assets # None /\ assets = env.assets
      BY <2>1, <2>2 DEF ListedAssets
    <3>2. \/ \E e \in env.assets : e = <<a.code>> \/ e = <<a.code, a.issuer>>
          \/ a.code \in {"xlm", "XLM"} /\ <<"XLM">> \in env.assets
      BY <2>1, <3>1 DEF AssetListed, IsXlm
    <3>3. Listed(a)
      BY <1>2, <3>1, <3>2 DEF Listed
    <3> QED
      BY <3>3
  <2>3. CASE env.interactive /\ env.assets = None /\ assets = {<<"XLM">>}
    <3>1. IsXlm(a.code) \/ <<a.code, a.issuer>> = <<"XLM">> \/ <<a.code>> = <<"XLM">>
      BY <2>1, <2>3 DEF AssetListed
    <3>2. a.code \in {"xlm", "XLM"}
      BY <3>1 DEF IsXlm
    <3>3. assets # ListedAssets
      BY <2>1, <2>3 DEF ListedAssets
    <3> QED
      BY <1>2, <2>3, <3>2, <3>3 DEF XlmByDefault
  <2> QED
    BY <2>2, <2>3
<1>3. CASE a.kind \notin {"payment", "trust", "invoke"}
  <2>1. Listed(a)
    BY <1>3 DEF Listed
  <2> QED
    BY <2>1
<1> QED
  BY <1>1, <1>2, <1>3

\* An action of a plan the lists of a front end do not block.
LEMMA UnblockedIsListed ==
  ASSUME NEW plan, NEW i \in DOMAIN plan.actions, NEW s \in FrontEnds,
         TrimmedFlag(env.lists_flag), ~ListsBlock(plan, s)
  PROVE  /\ Listed(plan.actions[i]) \/ XlmByDefault(plan.actions[i])
         /\ s \in {ServerSettings(env), LocalSettings(env)} => Listed(plan.actions[i])
<1>1. s.enforce_lists /\ s.contracts = env.contracts
  BY SettingsFields
<1>2. s \in {ServerSettings(env), LocalSettings(env)} => s.assets = ListedAssets
  BY SettingsFields
<1>3. \/ s.assets = ListedAssets
      \/ env.interactive /\ env.assets = None /\ s.assets = {<<"XLM">>}
  <2>1. CASE s \in {ServerSettings(env), LocalSettings(env)}
    BY <1>2, <2>1
  <2>2. CASE s = PromptSettings(env)
    BY <2>2, SettingsFields
  <2> QED
    BY <2>1, <2>2 DEF FrontEnds
<1>4. ~OutsideEnforcedLists(plan.actions[i], s.assets, env.contracts)
  BY <1>1 DEF ListsBlock, ListViolations
<1> QED
  BY <1>2, <1>3, <1>4, UnblockedIsNamed

\* Enforced allowlists fail closed in every front end, for every plan, list and
\* policy file; only the REPL passes XLM that no list names, when the environment
\* has no list of assets (validate_enforced_plan, the three verdicts that call it
\* and run_repl).
THEOREM ListsFailClosed == Spec => []PassedPlansStayInLists
<1>1. GatesInv => PassedPlansStayInLists
  <2> SUFFICES ASSUME GatesInv, TrimmedFlag(env.lists_flag)
               PROVE  PassedPlansStayInLists
    BY DEF PassedPlansStayInLists
  <2>1. ASSUME NEW answer \in {api, judged, run}, Passed(answer),
               NEW i \in DOMAIN answer.plan.actions
        PROVE  Listed(answer.plan.actions[i])
    <3>1. PICK s \in {ServerSettings(env), LocalSettings(env)} : NotBlocked(answer, s)
      BY <2>1, PassedMeansNotBlocked
    <3> QED
      BY <2>1, <3>1, UnblockedIsListed DEF NotBlocked, FrontEnds
  <2>2. ASSUME Passed(repl), NEW i \in DOMAIN repl.plan.actions
        PROVE  Listed(repl.plan.actions[i]) \/ XlmByDefault(repl.plan.actions[i])
    <3>1. PICK s \in FrontEnds : NotBlocked(repl, s)
      BY <2>2, PassedMeansNotBlocked
    <3> QED
      BY <2>2, <3>1, UnblockedIsListed DEF NotBlocked
  <2> QED
    BY <2>1, <2>2 DEF PassedPlansStayInLists, Actions
<1> QED
  BY <1>1, AnswersAreAccountedFor, PTL

\* What enforced policies do not block, they permit, and they were all read.
LEMMA UnblockedIsPermitted ==
  ASSUME NEW plan, NEW policies, NEW n \in Nat, DOMAIN policies = 1..n, NEW broken,
         EnforcedPolicyErrors(plan, policies, broken) = {}
  PROVE  /\ \A i \in DOMAIN plan.actions :
              plan.actions[i].kind = "invoke" => Permitted(plan.actions[i], policies)
         /\ NeedsContractPolicy(plan) => ~broken /\ policies # <<>>
<1>1. NeedsContractPolicy(plan) => ~broken /\ policies # <<>>
  BY DEF EnforcedPolicyErrors
<1>2. ASSUME NEW i \in DOMAIN plan.actions, plan.actions[i].kind = "invoke"
      PROVE  Permitted(plan.actions[i], policies)
  <2>1. NeedsContractPolicy(plan)
    BY <1>2 DEF NeedsContractPolicy
  <2>2. PolicyErrors(plan, policies) = {}
    BY DEF EnforcedPolicyErrors
  <2>3. InvokeErrors(policies, plan.actions[i]) = {}
    BY <1>1, <1>2, <2>1, <2>2 DEF PolicyErrors
  <2> QED
    BY <2>3, NoErrorsMeansPermitted
<1> QED
  BY <1>1, <1>2

\* Enforced contract policies fail closed in every front end, by the files of
\* the moment of the verdict (validate_contract_policies after
\* load_contract_policies).
THEOREM PoliciesFailClosed == Spec => []PassedCallsHavePolicies
<1>1. GatesInv => PassedCallsHavePolicies
  <2>1. SUFFICES ASSUME GatesInv, NEW answer \in {api, repl, judged, run}, Passed(answer),
                        env.policy_flag = "on"
                 PROVE  /\ \A i \in DOMAIN answer.plan.actions :
                             answer.plan.actions[i].kind = "invoke"
                               => Permitted(answer.plan.actions[i], answer.policies)
                        /\ NeedsContractPolicy(answer.plan)
                             => ~answer.files.broken /\ answer.policies # <<>>
    BY DEF PassedCallsHavePolicies, Actions, NeedsContractPolicy
  <2>2. PICK s \in FrontEnds :
          ~PoliciesBlock(answer.plan, s, answer.policies, answer.files.broken)
    BY <2>1, PassedMeansNotBlocked DEF NotBlocked
  <2>3. s.enforce_policies
    BY <2>1, SettingsFields DEF ExactFlag, TrimmedFlag, FrontEnds
  <2>4. EnforcedPolicyErrors(answer.plan, answer.policies, answer.files.broken) = {}
    BY <2>2, <2>3 DEF PoliciesBlock
  <2>5. \E n \in Nat : DOMAIN answer.policies = 1..n
    BY <2>1, PassedMeansNotBlocked, LoadsAreSequences DEF GatesInv, CaseInv
  <2> QED
    BY <2>4, <2>5, UnblockedIsPermitted
<1> QED
  BY <1>1, AnswersAreAccountedFor, PTL

-----------------------------------------------------------------------------
(* Where the plans of the answers come from. *)

LEMMA BuiltPlanIsOneAction ==
  ASSUME CaseInv
  PROVE  OneAction(BuiltPlan)
<1>1. case.label \in Labels /\ "Unknown" \in Labels
  BY CasesAssumption DEF CaseInv, Labels
<1>2. Decision.label \in Labels
  BY <1>1 DEF Decision, DecideLabel
<1> QED
  BY <1>2, BuilderMakesOneAction DEF BuiltPlan

\* A plan of the templates is a typed plan of one action.
LEMMA ServerPlansAreTyped ==
  ASSUME CaseInv, NEW policies, NEW plan \in ServerPlans(case.prompt, Decision, policies)
  PROVE  \E p \in ApplyIntentTemplates(case.prompt, BuiltPlan, policies) :
           OneAction(p) /\ plan = ApplyTypedTemplates(p, policies)
<1>1. PICK p \in ApplyIntentTemplates(case.prompt, BuiltPlan, policies) :
        plan = ApplyTypedTemplates(p, policies)
  BY DEF ServerPlans, BuiltPlan
<1> QED
  BY <1>1, BuiltPlanIsOneAction, IntentTemplatesKeepOneAction

-----------------------------------------------------------------------------
(* Low confidence. *)

\* A plan whose action was not trusted.
Declined(plan) ==
  OneAction(plan) /\ plan.actions[1] = Unknown /\ "intent_warning" \in plan.warnings

LEMMA DeclinedStaysDeclined ==
  ASSUME NEW plan, Declined(plan), NEW policies
  PROVE  Declined(ApplyTypedTemplates(plan, policies))
<1>1. TypedAction(policies, Unknown) = Unknown
  BY DEF TypedAction, Unknown
<1> QED
  BY <1>1, TypedTemplatesKeepOneAction DEF Declined

\* No template takes up a plan that was declined.
LEMMA DeclinedIsNotExpanded ==
  ASSUME CaseInv, ~case.confident, case.label # "Unknown", NEW policies,
         NEW plan \in ApplyIntentTemplates(case.prompt, BuiltPlan, policies)
  PROVE  Declined(plan)
<1>1. Decision.downgraded
  BY DEF Decision, DecideLabel
<1>2. BuiltPlan = [actions |-> <<Unknown>>, warnings |-> {"intent_warning"}]
  BY <1>1 DEF BuiltPlan, BuildActionPlan
<1>3. ~Expandable(BuiltPlan)
  BY <1>2 DEF Expandable, Repairable
<1>4. plan = BuiltPlan
  BY <1>3 DEF ApplyIntentTemplates
<1>5. BuiltPlan.actions[1] = Unknown /\ "intent_warning" \in BuiltPlan.warnings
  BY <1>2
<1> QED
  BY <1>4, <1>5, BuiltPlanIsOneAction DEF Declined

\* A declined plan does not pass.
LEMMA DeclinedIsBlocked ==
  ASSUME NEW plan, Declined(plan), NEW settings, NEW policies, NEW broken
  PROVE  /\ ServerVerdict(plan, settings, policies, broken) # 0
         /\ McpVerdict(plan, settings, policies, broken) # 0
         /\ ReplVerdict(plan, settings, policies, broken, TRUE, TRUE) # 0
<1>1. IntentBlocked(plan)
  BY DEF IntentBlocked, Declined
<1> QED
  BY <1>1 DEF ServerVerdict, McpVerdict, ReplVerdict

\* The plan and the code of every answer to a prompt below the threshold.
LEMMA LowConfidenceAnswers ==
  ASSUME GatesInv, ~case.confident, case.label # "Unknown"
  PROVE  /\ api.done => Declined(api.plan) \/ api.plan = [actions |-> <<>>, warnings |-> {}]
         /\ mcp.done => Declined(mcp.plan)
         /\ repl.done => Declined(repl.plan)
         /\ repl.done => repl.code # 0
         /\ ~Passed(api)
         /\ ~Passed(judged)
<1> USE DEF GatesInv
<1>1. api.done => \/ Declined(api.plan) /\ api.code # 0
                  \/ api.plan = [actions |-> <<>>, warnings |-> {}] /\ api.code # 0
  <2>1. SUFFICES ASSUME api.done, api # NotRun
                 PROVE  \/ Declined(api.plan) /\ api.code # 0
                        \/ api.plan = [actions |-> <<>>, warnings |-> {}] /\ api.code # 0
    BY DEF NotRun
  <2>2. ASSUME NEW f, NEW policies, NEW plan, ApiJudged(f, policies, plan)
        PROVE  Declined(api.plan) /\ api.code # 0
    <3>1. PICK p \in ApplyIntentTemplates(case.prompt, BuiltPlan, policies) :
            plan = ApplyTypedTemplates(p, policies)
      BY <2>2, ServerPlansAreTyped DEF ApiJudged
    <3>2. Declined(plan)
      BY <3>1, DeclinedIsNotExpanded, DeclinedStaysDeclined
    <3>3. api.plan = plan
          /\ api.code = ServerVerdict(plan, ServerSettings(env), policies, f.broken)
      BY <2>2, AnswerFields DEF ApiJudged
    <3> QED
      BY <3>2, <3>3, DeclinedIsBlocked
  <2>3. ASSUME NEW f, NEW code, ApiRefused(f, code)
        PROVE  api.plan = [actions |-> <<>>, warnings |-> {}] /\ api.code # 0
    BY <2>3, AnswerFields DEF ApiRefused
  <2> QED
    BY <2>1, <2>2, <2>3 DEF ApiInv
<1>2. mcp.done => Declined(mcp.plan)
  <2>1. BuiltPlan \in ApplyIntentTemplates(case.prompt, BuiltPlan, <<>>)
    <3>1. MatchingTemplates(case.prompt, <<>>) = {}
      BY DEF MatchingTemplates
    <3> QED
      BY <3>1 DEF ApplyIntentTemplates
  <2>2. Declined(BuiltPlan)
    BY <2>1, DeclinedIsNotExpanded
  <2> QED
    BY <2>2, AnswerFields DEF McpInv, NotRun
<1>3. repl.done => Declined(repl.plan) /\ repl.code # 0
  <2>1. ASSUME NEW f, NEW policies, NEW plan, ReplBuilt(f, policies, plan),
               repl = AnswerOn(f, plan, policies, None)
        PROVE  Declined(repl.plan) /\ repl.code # 0
    BY <2>1, AnswerFields, DeclinedIsNotExpanded, NoneAssumption DEF ReplBuilt
  <2>2. ASSUME NEW g, NEW earlier, NEW f, NEW policies, NEW plan,
               ReplBuilt(g, earlier, plan), ReplJudged(f, policies, plan)
        PROVE  Declined(repl.plan) /\ repl.code # 0
    <3> DEFINE typed == ApplyTypedTemplates(plan, policies)
    <3>1. Declined(typed)
      BY <2>2, DeclinedIsNotExpanded, DeclinedStaysDeclined DEF ReplBuilt
    <3>2. PICK code : code = ReplVerdict(typed, PromptSettings(env), policies, f.broken, TRUE, TRUE)
      OBVIOUS
    <3>3. repl.plan = typed /\ repl.code = code
      <4>1. repl = AnswerOn(f, typed, policies, code)
        BY <2>2, <3>2 DEF ReplJudged
      <4> QED
        BY <4>1, AnswerFields
    <3>4. code # 0
      BY <3>1, <3>2, DeclinedIsBlocked, Zenon
    <3> QED
      BY <3>1, <3>3, <3>4
  <2> QED
    BY <2>1, <2>2 DEF ReplInv, NotRun
<1>4. ~Passed(judged)
  <2>1. SUFFICES ASSUME Passed(judged), NEW f, NEW answer, McpJudged(f, answer)
                 PROVE  FALSE
    BY DEF JudgedInv, Passed, NotRun
  <2>2. judged.code = McpVerdict(answer.plan, LocalSettings(env), SortedPolicyLoad(f), f.broken)
    BY <2>1, AnswerFields DEF McpJudged
  <2>3. Declined(answer.plan) \/ answer.plan = [actions |-> <<>>, warnings |-> {}]
    BY <1>1, <1>2, <2>1 DEF McpJudged
  <2>4. CASE Declined(answer.plan)
    BY <2>1, <2>2, <2>4, DeclinedIsBlocked DEF Passed
  <2>5. CASE answer.plan = [actions |-> <<>>, warnings |-> {}]
    <3>1. answer.plan.actions = <<>>
      BY <2>5
    <3> QED
      BY <2>1, <2>2, <3>1 DEF McpVerdict, Passed
  <2> QED
    BY <2>3, <2>4, <2>5
<1> QED
  BY <1>1, <1>2, <1>3, <1>4 DEF Passed

\* A prompt below the threshold never becomes an action, whatever templates the
\* policy files have (decide_label and plan_is_template_expandable).
THEOREM LowConfidenceHolds == Spec => []LowConfidenceIsFinal
<1>1. GatesInv => LowConfidenceIsFinal
  <2>1. SUFFICES ASSUME GatesInv, ~case.confident, case.label # "Unknown"
                 PROVE  /\ \A answer \in {api, repl, mcp} :
                             answer.done => Actions(answer) \subseteq {Unknown}
                        /\ ~Passed(api) /\ ~Passed(judged)
                        /\ repl.done => repl.code # 0
    BY DEF LowConfidenceIsFinal
  <2>2. ASSUME NEW answer, Declined(answer.plan)
        PROVE  Actions(answer) \subseteq {Unknown}
    BY <2>2 DEF Actions, Declined, OneAction
  <2>3. ASSUME NEW answer, answer.plan = [actions |-> <<>>, warnings |-> {}]
        PROVE  Actions(answer) \subseteq {Unknown}
    BY <2>3 DEF Actions
  <2> QED
    BY <2>1, <2>2, <2>3, LowConfidenceAnswers
<1> QED
  BY <1>1, AnswersAreAccountedFor, PTL

-----------------------------------------------------------------------------
(* Typed slots. *)

\* A plan the API judged, or the REPL lets pass, is a typed plan of one action.
LEMMA PassedPlansAreTyped ==
  ASSUME GatesInv, NEW answer \in {api, repl}, Passed(answer)
  PROVE  \E p : OneAction(p) /\ answer.plan = ApplyTypedTemplates(p, answer.policies)
<1> USE DEF GatesInv
<1>1. answer.done /\ answer.code = 0 /\ answer # NotRun
  BY DEF Passed, NotRun
<1>2. CASE answer = api
  <2>1. PICK f, policies, plan : ApiJudged(f, policies, plan)
    BY <1>1, <1>2 DEF ApiInv, ApiRefused, AnswerOn
  <2>2. answer.policies = policies /\ answer.plan = plan
    BY <1>2, <2>1, AnswerFields DEF ApiJudged
  <2> QED
    BY <2>1, <2>2, ServerPlansAreTyped DEF ApiJudged
<1>3. CASE answer = repl
  <2>1. PICK g, earlier, f, policies, plan :
          ReplBuilt(g, earlier, plan) /\ ReplJudged(f, policies, plan)
    BY <1>1, <1>3, NoneAssumption DEF ReplInv, AnswerOn
  <2>2. OneAction(plan)
    BY <2>1, BuiltPlanIsOneAction, IntentTemplatesKeepOneAction DEF ReplBuilt
  <2>3. answer.policies = policies /\ answer.plan = ApplyTypedTemplates(plan, policies)
    <3>1. PICK code :
            repl = AnswerOn(f, ApplyTypedTemplates(plan, policies), policies, code)
      BY <2>1 DEF ReplJudged
    <3> QED
      BY <1>3, <3>1, AnswerFields
  <2> QED
    BY <2>2, <2>3
<1> QED
  BY <1>2, <1>3

\* Typed slots hold in every plan the API or a REPL flow lets pass, also when
\* the policies are not enforced (apply_policy_typed_templates_v2).
THEOREM TypedSlotsAreTyped == Spec => []TypedSlotsHold
<1>1. GatesInv => TypedSlotsHold
  <2>1. SUFFICES ASSUME GatesInv, NEW answer \in {api, repl}, Passed(answer),
                        NEW a \in Actions(answer), Templated(answer.policies, a),
                        NEW k \in DOMAIN Declared(SchemaOf(answer.policies, a))
                                    \intersect DOMAIN a.args.at,
                        CanonicalType(Declared(SchemaOf(answer.policies, a))[k]) \in TypedTypes
                 PROVE  ValidArg(a.args.at[k],
                                 CanonicalType(Declared(SchemaOf(answer.policies, a))[k]))
    BY DEF TypedSlotsHold, Templated
  <2>2. PICK p : OneAction(p) /\ answer.plan = ApplyTypedTemplates(p, answer.policies)
    BY <2>1, PassedPlansAreTyped
  <2>3. a = TypedAction(answer.policies, p.actions[1]) /\ IsCall(p.actions[1])
    BY <2>1, <2>2, TypedTemplatesKeepOneAction DEF Actions, OneAction
  <2>4. SlotType(SchemaOf(answer.policies, a), k)
          = CanonicalType(Declared(SchemaOf(answer.policies, a))[k])
    BY DEF SlotType
  <2> QED
    BY <2>1, <2>3, <2>4, TypedSlotsAreValid
<1> QED
  BY <1>1, AnswersAreAccountedFor, PTL

-----------------------------------------------------------------------------
(* The three verdicts. *)

\* But for a value with blanks around it, the server reads the policy flag as
\* the others do.
LEMMA FlagsAgree ==
  ASSUME CaseInv, env.policy_flag # "padded"
  PROVE  ServerSettings(env) = LocalSettings(env)
<1>1. env.policy_flag \in {"off", "on", "padded"}
  BY EnvironmentsAssumption DEF CaseInv
<1>2. ExactFlag(env.policy_flag) = TrimmedFlag(env.policy_flag)
  BY <1>1 DEF ExactFlag, TrimmedFlag
<1> QED
  BY <1>2 DEF ServerSettings, LocalSettings

\* A plan of the API that passes passes everywhere: the verdicts of
\* neurochain-server, neurochain-stellar and the MCP runtime agree on it, unless
\* the policy flag has blanks around it, which only the server minds.
THEOREM VerdictsAgreeOnApiPlans == Spec => []ApiPlansPassEverywhere
<1>1. GatesInv => ApiPlansPassEverywhere
  <2>1. SUFFICES ASSUME GatesInv, NEW answer \in {judged, run}, Passed(api), answer.done,
                        answer.plan = api.plan, answer.files = api.files,
                        answer.policies = api.policies, env.policy_flag # "padded"
                 PROVE  answer.code = 0
    BY DEF ApiPlansPassEverywhere
  <2> USE DEF GatesInv
  <2>2. PICK f, policies, plan : ApiJudged(f, policies, plan)
    BY <2>1, AnswerFields DEF ApiInv, ApiRefused, Passed, NotRun
  <2>3. /\ api.files = f /\ api.policies = policies /\ api.plan = plan
        /\ ServerVerdict(plan, LocalSettings(env), policies, f.broken) = 0
    BY <2>1, <2>2, AnswerFields, FlagsAgree DEF ApiJudged, Passed
  <2>4. /\ ~ListsBlock(plan, LocalSettings(env))
        /\ ~PoliciesBlock(plan, LocalSettings(env), policies, f.broken)
        /\ ~IntentBlocked(plan)
    BY <2>3 DEF ServerVerdict
  <2>5. plan.actions # <<>>
    <3>1. OneAction(plan)
      <4>1. PICK p : OneAction(p) /\ plan = ApplyTypedTemplates(p, policies)
        BY <2>1, <2>2, ServerPlansAreTyped DEF ApiJudged
      <4> QED
        BY <4>1, TypedTemplatesKeepOneAction
    <3> QED
      BY <3>1 DEF OneAction
  <2>6. CASE answer = judged
    <3>1. PICK g, planned : McpJudged(g, planned)
      BY <2>1, <2>6 DEF JudgedInv, NotRun
    <3>2. /\ answer.files = g /\ answer.policies = SortedPolicyLoad(g)
          /\ answer.plan = planned.plan
          /\ answer.code = McpVerdict(planned.plan, LocalSettings(env), SortedPolicyLoad(g), g.broken)
      BY <2>6, <3>1, AnswerFields DEF McpJudged
    <3>3. answer.code = McpVerdict(plan, LocalSettings(env), policies, f.broken)
      BY <2>1, <2>3, <3>2
    <3> QED
      BY <2>4, <2>5, <3>3 DEF McpVerdict
  <2>7. CASE answer = run
    <3>1. PICK g, loaded : CliJudged(g, loaded)
      BY <2>1, <2>7 DEF RunInv, NotRun
    <3>2. PICK code :
            /\ code = ReplVerdict(api.plan, LocalSettings(env), loaded, g.broken, TRUE, FALSE)
            /\ run = AnswerOn(g, api.plan, loaded, code)
      BY <3>1 DEF CliJudged
    <3>3. run.files = g /\ run.policies = loaded /\ run.code = code
      <4>1. run = AnswerOn(g, api.plan, loaded, code)
        BY <3>2
      <4> QED
        BY <4>1, AnswerFields
    <3>4. answer.files = g /\ answer.policies = loaded /\ answer.code = code
      BY <2>7, <3>3
    <3>5. loaded = policies /\ g = f /\ api.plan = plan
      BY <2>1, <2>3, <3>4
    <3>6. code = 0
      BY <2>4, <3>2, <3>5 DEF ReplVerdict
    <3> QED
      BY <3>4, <3>6
  <2> QED
    BY <2>6, <2>7
<1> QED
  BY <1>1, AnswersAreAccountedFor, PTL

\* A plan the guardrails have nothing against is one they have nothing against
\* after the typed templates.
LEMMA CleanPlanStaysClean ==
  ASSUME NEW plan, OneAction(plan), NEW s, NEW policies, NEW broken,
         ~ListsBlock(plan, s), EnforcedPolicyErrors(plan, policies, broken) = {},
         ~IntentBlocked(plan)
  PROVE  LET q == ApplyTypedTemplates(plan, policies)
         IN  /\ ~ListsBlock(q, s)
             /\ EnforcedPolicyErrors(q, policies, broken) = {}
             /\ ~IntentBlocked(q)
<1> DEFINE q == ApplyTypedTemplates(plan, policies)
<1>1. PICK a, t : a = plan.actions[1] /\ t = q.actions[1]
  OBVIOUS
<1>2. /\ IsCall(a) /\ a # Unknown /\ plan.warnings = {}
      /\ DOMAIN plan.actions = {1}
  BY <1>1 DEF OneAction, IntentBlocked
<1>3. /\ t = TypedAction(policies, a)
      /\ DOMAIN q.actions = {1}
      /\ t # Unknown => q.warnings = {}
  BY <1>1, <1>2, TypedTemplatesKeepOneAction DEF OneAction
<1>4. a.kind = "invoke" => policies # <<>> /\ InvokeErrors(policies, a) = {}
  <2>1. SUFFICES ASSUME a.kind = "invoke"
                 PROVE  policies # <<>> /\ InvokeErrors(policies, a) = {}
    OBVIOUS
  <2>2. NeedsContractPolicy(plan)
    BY <1>1, <1>2, <2>1 DEF NeedsContractPolicy
  <2>3. policies # <<>> /\ PolicyErrors(plan, policies) = {}
    BY <2>2 DEF EnforcedPolicyErrors
  <2>4. 1 \in {i \in DOMAIN plan.actions : plan.actions[i].kind = "invoke"}
    BY <1>1, <1>2, <2>1
  <2> QED
    BY <1>1, <2>3, <2>4 DEF PolicyErrors
<1>5. \/ t = a
      \/ /\ a.kind = "invoke" /\ t.kind = "invoke"
         /\ t.contract = a.contract /\ t.function = a.function
  <2>1. CASE a.kind = "invoke"
    BY <1>2, <1>3, <1>4, <2>1, NormalizationKeepsPermitted
  <2>2. CASE a.kind # "invoke"
    BY <1>2, <1>3, <2>2, TypedActionCases DEF Templated
  <2> QED
    BY <2>1, <2>2
<1>6. t # Unknown
  BY <1>2, <1>5 DEF Unknown
<1>7. t.kind = "invoke" => InvokeErrors(policies, t) = {}
  BY <1>2, <1>3, <1>4, <1>5, NormalizationKeepsPermitted
<1> HIDE DEF q
<1>8. ~IntentBlocked(q)
  BY <1>1, <1>3, <1>6 DEF IntentBlocked
<1>9. ~ListsBlock(q, s)
  <2>1. ASSUME NEW assets, NEW contracts
        PROVE  /\ OutsideLists(t, assets, contracts) => OutsideLists(a, assets, contracts)
               /\ OutsideEnforcedLists(t, assets, contracts)
                    => OutsideEnforcedLists(a, assets, contracts)
    BY <1>5 DEF OutsideEnforcedLists, OutsideLists
  <2>2. 1 \in ListViolations(q, s) => 1 \in ListViolations(plan, s)
    BY <1>1, <1>2, <1>3, <2>1 DEF ListViolations
  <2>3. ListViolations(q, s) \subseteq {1}
    BY <1>3 DEF ListViolations
  <2> QED
    BY <2>2, <2>3 DEF ListsBlock
<1>10. EnforcedPolicyErrors(q, policies, broken) = {}
  <2>1. PolicyErrors(q, policies) = {}
    BY <1>1, <1>3, <1>7 DEF PolicyErrors
  <2>2. NeedsContractPolicy(q) => NeedsContractPolicy(plan)
    BY <1>1, <1>2, <1>3, <1>5 DEF NeedsContractPolicy
  <2> QED
    BY <2>1, <2>2 DEF EnforcedPolicyErrors
<1> QED
  BY <1>8, <1>9, <1>10 DEF q

\* A plan the MCP server lets pass under enforced policies is one the API would
\* have let pass: normalize_typed_slot_value never makes an argument the policy
\* check accepts one that it refuses.
THEOREM McpIsNoLaxer == Spec => []McpNoLaxerThanApi
<1>1. GatesInv => McpNoLaxerThanApi
  <2>1. SUFFICES ASSUME GatesInv, Passed(judged), api.done, mcp.done, api.code \notin {1, 2},
                        judged.plan = mcp.plan, judged.files = api.files,
                        judged.policies = api.policies, env.policy_flag = "on"
                 PROVE  api.code = 0
    BY DEF McpNoLaxerThanApi
  <2> USE DEF GatesInv
  <2>2. PICK f, policies, plan : ApiJudged(f, policies, plan)
    BY <2>1, AnswerFields DEF ApiInv, ApiRefused, NotRun
  <2>3. /\ api.files = f /\ api.policies = policies
        /\ api.code = ServerVerdict(plan, LocalSettings(env), policies, f.broken)
    BY <2>1, <2>2, AnswerFields, FlagsAgree DEF ApiJudged
  <2>4. mcp.plan = BuiltPlan
    BY <2>1, AnswerFields DEF McpInv, NotRun
  <2>5. McpVerdict(BuiltPlan, LocalSettings(env), policies, f.broken) = 0
    <3>1. PICK g, planned : McpJudged(g, planned)
      BY <2>1 DEF JudgedInv, Passed, NotRun
    <3>2. /\ judged.files = g /\ judged.policies = SortedPolicyLoad(g)
          /\ judged.plan = planned.plan
          /\ judged.code = McpVerdict(planned.plan, LocalSettings(env), SortedPolicyLoad(g), g.broken)
      BY <3>1, AnswerFields DEF McpJudged
    <3> QED
      BY <2>1, <2>3, <2>4, <3>2 DEF Passed
  <2>6. /\ ~ListsBlock(BuiltPlan, LocalSettings(env))
        /\ ~PoliciesBlock(BuiltPlan, LocalSettings(env), policies, f.broken)
        /\ ~IntentBlocked(BuiltPlan)
    BY <2>5 DEF McpVerdict
  <2>7. EnforcedPolicyErrors(BuiltPlan, policies, f.broken) = {}
    BY <2>1, <2>6, SettingsFields DEF PoliciesBlock, TrimmedFlag
  <2>8. plan = ApplyTypedTemplates(BuiltPlan, policies)
    <3>1. PICK p \in ApplyIntentTemplates(case.prompt, BuiltPlan, policies) :
            plan = ApplyTypedTemplates(p, policies)
      BY <2>1, <2>2, ServerPlansAreTyped DEF ApiJudged
    <3>2. ~Expandable(BuiltPlan)
      BY <2>6 DEF Expandable, IntentBlocked
    <3> QED
      BY <3>1, <3>2 DEF ApplyIntentTemplates
  <2>9. /\ ~ListsBlock(plan, LocalSettings(env))
        /\ EnforcedPolicyErrors(plan, policies, f.broken) = {}
        /\ ~IntentBlocked(plan)
    BY <2>1, <2>6, <2>7, <2>8, BuiltPlanIsOneAction, CleanPlanStaysClean
  <2> QED
    BY <2>3, <2>9 DEF ServerVerdict, PoliciesBlock
<1> QED
  BY <1>1, AnswersAreAccountedFor, PTL

-----------------------------------------------------------------------------
(* Templates and their lint. *)

\* A match is a template of one of the policies.
LEMMA MatchesAreTemplates ==
  ASSUME NEW policies, NEW n \in Nat, DOMAIN policies = 1..n, NEW prompt,
         NEW m \in MatchingTemplates(prompt, policies)
  PROVE  \E i \in DOMAIN policies : \E t \in policies[i].templates : m = <<policies[i], t>>
<1> DEFINE matches(p) == {t \in p.templates : t.phrase \in prompt.phrases}
           hits == {i \in DOMAIN policies : matches(policies[i]) # {}}
           first == CHOOSE i \in hits : \A j \in hits : i <= j
<1>1. hits # {} /\ m \in {<<policies[first], t>> : t \in matches(policies[first])}
  BY DEF MatchingTemplates
<1>2. \E i \in hits : \A j \in hits : i <= j
  <2>1. hits \in SUBSET Nat
    OBVIOUS
  <2> HIDE DEF hits
  <2> QED
    BY <1>1, <2>1, NatSetHasMin
<1>3. first \in hits
  <2> HIDE DEF hits
  <2> QED
    BY <1>2
<1>4. first \in DOMAIN policies
  BY <1>3
<1> HIDE DEF first, hits
<1> QED
  BY <1>1, <1>4

\* The policy check of a call of an allowed function that has every required
\* argument finds fault with types and undeclared arguments only.
LEMMA CompleteCallErrors ==
  ASSUME NEW policies, NEW i \in Nat, NEW a, Governs(policies, a.contract) = {i},
         policies[i].allowed = {} \/ a.function \in policies[i].allowed,
         a.args.object,
         a.function \in DOMAIN policies[i].schema =>
           DOMAIN policies[i].schema[a.function].required \subseteq DOMAIN a.args.at
  PROVE  InvokeErrors(policies, a) \subseteq {"policy_args_type", "policy_args_unknown"}
<1>1. HasPolicy(policies, a.contract) /\ PolicyOf(policies, a.contract) = policies[i]
  BY OnlyPolicyGoverns
<1>2. CASE ~HasSchema(policies, a)
  BY <1>1, <1>2 DEF InvokeErrors
<1>3. CASE HasSchema(policies, a)
  <2> DEFINE schema == SchemaOf(policies, a)
  <2>1. DOMAIN schema.required \subseteq DOMAIN a.args.at
    BY <1>1, <1>3 DEF HasSchema, SchemaOf
  <2>2. InvokeErrors(policies, a) = ArgErrors(schema, a.args)
    BY <1>1, <1>3 DEF InvokeErrors
  <2> HIDE DEF schema
  <2>3. DOMAIN schema.required \ DOMAIN a.args.at = {}
    BY <2>1
  <2>4. ArgErrors(schema, a.args) \subseteq {"policy_args_type", "policy_args_unknown"}
    BY <2>3 DEF ArgErrors
  <2> QED
    BY <2>2, <2>4
<1> QED
  BY <1>2, <1>3

\* A template without a lint error is applied, or lacks an argument it requires,
\* or is refused, for the policy spells its function with blanks around it.
LEMMA LintedTemplateExpands ==
  ASSUME NEW prompt, NEW plan, OneAction(plan), NEW policy, LintPasses(policy),
         NEW t \in policy.templates
  PROVE  LET q == ExpandWith(prompt, plan, policy, t)
             args == TemplateArgs(prompt, t)
         IN  \/ "intent_error" \in q.warnings
             \/ q = plan /\ AllowedOnlyPadded(policy, Trim(t.function))
             \/ /\ q.actions = <<Invoke(policy.contract, Trim(t.function), Object(args))>>
                /\ policy.allowed = {} \/ Trim(t.function) \in policy.allowed
                /\ Trim(t.function) \in DOMAIN policy.schema =>
                     DOMAIN policy.schema[Trim(t.function)].required \subseteq DOMAIN args
<1> DEFINE args == TemplateArgs(prompt, t)
           q == ExpandWith(prompt, plan, policy, t)
<1>1. CASE TemplateRefused(policy, t)
  <2>1. /\ Trim(t.function) \notin policy.allowed
        /\ \E f \in policy.allowed : Trim(f) = Trim(t.function)
    BY <1>1 DEF TemplateRefused, LintPasses, TemplateLintPasses
  <2>2. AllowedOnlyPadded(policy, Trim(t.function))
    BY <2>1 DEF AllowedOnlyPadded, Trim
  <2> QED
    BY <1>1, <2>2 DEF ExpandWith
<1>2. CASE ~TemplateRefused(policy, t) /\ MissingRequired(args, t, policy)
  <2>1. q = [plan EXCEPT !.warnings = @ \union {"intent_error"}]
    BY <1>2 DEF ExpandWith
  <2>2. PICK a, w : a = plan.actions /\ w = plan.warnings
    OBVIOUS
  <2>3. plan = [actions |-> a, warnings |-> w]
    BY <2>2 DEF OneAction
  <2>4. q = [actions |-> a, warnings |-> w \union {"intent_error"}]
    BY <2>1, <2>3
  <2>5. "intent_error" \in q.warnings
    BY <2>4
  <2> QED
    BY <2>5
<1>3. CASE ~TemplateRefused(policy, t) /\ ~MissingRequired(args, t, policy)
  <2>1. q.actions = <<Invoke(policy.contract, Trim(t.function), Object(args))>>
    BY <1>3 DEF ExpandWith
  <2>2. Trim(t.function) \in DOMAIN policy.schema =>
          DOMAIN policy.schema[Trim(t.function)].required \subseteq DOMAIN args
    BY <1>3 DEF MissingRequired
  <2>3. policy.allowed = {} \/ Trim(t.function) \in policy.allowed
    BY <1>3 DEF TemplateRefused
  <2> QED
    BY <2>1, <2>2, <2>3
<1> QED
  BY <1>1, <1>2, <1>3

\* The typed templates leave a complete call complete, or report a bad slot.
LEMMA TypedCompleteCall ==
  ASSUME NEW policies, NEW a, IsCall(a), a.kind = "invoke", a.args.object
  PROVE  LET t == TypedAction(policies, a)
         IN  \/ t = Unknown
             \/ /\ t.kind = "invoke" /\ t.contract = a.contract /\ t.function = a.function
                /\ t.args.object /\ DOMAIN t.args.at = DOMAIN a.args.at
<1> DEFINE t == TypedAction(policies, a)
           norm == NormalizedArgs(SchemaOf(policies, a), a.args)
<1>1. t = Unknown \/ t = a \/ t = Invoke(a.contract, a.function, norm)
  BY TypedActionCases
<1>2. norm.object /\ DOMAIN norm.at = DOMAIN a.args.at
  BY DEF NormalizedArgs, Object
<1> HIDE DEF norm, t
<1>3. t = Invoke(a.contract, a.function, norm) =>
        /\ t.kind = "invoke" /\ t.contract = a.contract /\ t.function = a.function
        /\ t.args = norm
  BY DEF Invoke
<1>4. \/ t = Unknown
      \/ /\ t.kind = "invoke" /\ t.contract = a.contract /\ t.function = a.function
         /\ t.args.object /\ DOMAIN t.args.at = DOMAIN a.args.at
  BY <1>1, <1>2, <1>3
<1> QED
  BY <1>4 DEF t

\* A plan that may be expanded holds nothing but one unknown action.
LEMMA ExpandableIsUnknown ==
  ASSUME Expandable(BuiltPlan)
  PROVE  \E w : BuiltPlan = [actions |-> <<Unknown>>, warnings |-> w]
<1>1. ASSUME NEW x, BuiltPlan = [actions |-> <<x>>, warnings |-> {}] PROVE FALSE
  BY <1>1 DEF Expandable
<1> QED
  BY <1>1 DEF BuiltPlan, BuildActionPlan

\* The typed templates leave such a plan as it is, and it is blocked.
LEMMA UnexpandedIsBlocked ==
  ASSUME NEW plan, NEW w, plan = [actions |-> <<Unknown>>, warnings |-> w], NEW policies
  PROVE  /\ ApplyTypedTemplates(plan, policies) = plan
         /\ \A settings, broken : ServerVerdict(plan, settings, policies, broken) # 0
<1> DEFINE typed == [i \in DOMAIN plan.actions |-> TypedAction(policies, plan.actions[i])]
<1>1. DOMAIN plan.actions = {1} /\ plan.actions[1] = Unknown
  OBVIOUS
<1>2. TypedAction(policies, Unknown) = Unknown
  BY DEF TypedAction, Unknown
<1>3. typed = <<Unknown>>
  BY <1>1, <1>2
<1>4. ~\E i \in DOMAIN typed : typed[i] = Unknown /\ plan.actions[i] # Unknown
  BY <1>1, <1>3
<1>5. ApplyTypedTemplates(plan, policies) = [actions |-> typed, warnings |-> plan.warnings]
  BY <1>4 DEF ApplyTypedTemplates
<1>6. ApplyTypedTemplates(plan, policies) = plan
  BY <1>3, <1>5
<1>7. IntentBlocked(plan)
  BY <1>1 DEF IntentBlocked
<1> QED
  BY <1>6, <1>7 DEF ServerVerdict

\* A prompt that names a linted template becomes a complete call of an allowed
\* function, or an intent error, or stays Unknown and blocked because the policy
\* spells the function with blanks around it (validate_intent_template and
\* apply_contract_intent_templates).
THEOREM LintedTemplatesAreComplete == Spec => []LintedTemplatesFit
<1>1. GatesInv => LintedTemplatesFit
  <2>1. SUFFICES ASSUME GatesInv, api.done, api.code \notin {1, 2}, Expandable(BuiltPlan),
                        MatchingTemplates(case.prompt, api.policies) # {},
                        \A i \in DOMAIN api.policies :
                          /\ LintPasses(api.policies[i])
                          /\ Governs(api.policies, api.policies[i].contract) = {i},
                        "intent_error" \notin api.plan.warnings,
                        ~(/\ api.plan = BuiltPlan /\ api.code # 0
                          /\ \E found \in MatchingTemplates(case.prompt, api.policies) :
                               AllowedOnlyPadded(found[1], Trim(found[2].function)))
                 PROVE  /\ \A a \in Actions(api) : a.kind = "invoke"
                        /\ PolicyErrors(api.plan, api.policies)
                             \subseteq {"policy_args_type", "policy_args_unknown"}
    BY DEF LintedTemplatesFit, BuiltPlan
  <2>2. PICK f, policies, plan : ApiJudged(f, policies, plan)
    BY <2>1, AnswerFields DEF ApiInv, ApiRefused, NotRun, GatesInv
  <2>3. api.policies = policies /\ api.plan = plan
    BY <2>2, AnswerFields DEF ApiJudged
  <2>4. PICK n \in Nat : DOMAIN policies = 1..n
    BY <2>1, <2>2, LoadsAreSequences DEF ApiJudged, GatesInv, CaseInv
  <2>5. PICK p \in ApplyIntentTemplates(case.prompt, BuiltPlan, policies) :
          OneAction(p) /\ plan = ApplyTypedTemplates(p, policies)
    BY <2>1, <2>2, ServerPlansAreTyped DEF ApiJudged, GatesInv
  <2>6. PICK m \in MatchingTemplates(case.prompt, policies) :
          p = ExpandWith(case.prompt, BuiltPlan, m[1], m[2])
    BY <2>1, <2>3, <2>5 DEF ApplyIntentTemplates
  <2>7. PICK i \in DOMAIN policies : \E t \in policies[i].templates : m = <<policies[i], t>>
    BY <2>4, <2>6, MatchesAreTemplates
  <2>8. PICK t \in policies[i].templates : m = <<policies[i], t>>
    BY <2>7
  <2>9. p = ExpandWith(case.prompt, BuiltPlan, policies[i], t)
    BY <2>6, <2>8
  <2>10. "intent_error" \notin p.warnings
    BY <2>1, <2>3, <2>5, TypedTemplatesKeepOneAction
  <2> DEFINE args == TemplateArgs(case.prompt, t)
  <2>11. /\ p.actions = <<Invoke(policies[i].contract, Trim(t.function), Object(args))>>
         /\ policies[i].allowed = {} \/ Trim(t.function) \in policies[i].allowed
         /\ Trim(t.function) \in DOMAIN policies[i].schema =>
              DOMAIN policies[i].schema[Trim(t.function)].required \subseteq DOMAIN args
    <3>1. LintPasses(policies[i]) /\ OneAction(BuiltPlan)
      BY <2>1, <2>3, BuiltPlanIsOneAction DEF GatesInv
    <3>2. ASSUME p = BuiltPlan, AllowedOnlyPadded(policies[i], Trim(t.function)) PROVE FALSE
      <4> PICK w : BuiltPlan = [actions |-> <<Unknown>>, warnings |-> w]
        BY <2>1, ExpandableIsUnknown
      <4>1. api.plan = BuiltPlan
        BY <2>3, <2>5, <3>2, UnexpandedIsBlocked
      <4>2. api.code # 0
        <5>1. api.code = ServerVerdict(plan, ServerSettings(env), policies, f.broken)
          BY <2>2, AnswerFields DEF ApiJudged
        <5>2. plan = [actions |-> <<Unknown>>, warnings |-> w]
          BY <2>3, <4>1
        <5> QED
          BY <5>1, <5>2, UnexpandedIsBlocked
      <4>3. m \in MatchingTemplates(case.prompt, api.policies) /\ m[1] = policies[i] /\ m[2] = t
        BY <2>3, <2>6, <2>8
      <4> QED
        BY <2>1, <3>2, <4>1, <4>2, <4>3
    <3> QED
      BY <2>9, <2>10, <3>1, <3>2, LintedTemplateExpands
  <2> HIDE DEF args
  <2>12. PICK a : a = p.actions[1]
    OBVIOUS
  <2>13. a = Invoke(policies[i].contract, Trim(t.function), Object(args))
    BY <2>11, <2>12
  <2>14. /\ IsCall(a) /\ a.kind = "invoke" /\ a.contract = policies[i].contract
         /\ a.function = Trim(t.function) /\ a.args.object /\ a.args.at = args
    BY <2>13 DEF Invoke, IsCall, Object
  <2>15. PICK b : b = plan.actions[1]
    OBVIOUS
  <2>16. b = TypedAction(policies, a) /\ b # Unknown /\ DOMAIN plan.actions = {1}
    <3>1. a # Unknown
      BY <2>14 DEF Unknown
    <3>2. OneAction(plan) /\ b = TypedAction(policies, a)
      BY <2>5, <2>12, <2>15, TypedTemplatesKeepOneAction
    <3>3. b = Unknown => a = Unknown
      <4>1. "intent_error" \notin plan.warnings
        BY <2>1, <2>3
      <4> QED
        BY <2>5, <2>12, <2>15, <4>1, TypedTemplatesKeepOneAction
    <3> QED
      BY <3>1, <3>2, <3>3 DEF OneAction
  <2>17. /\ b.kind = "invoke" /\ b.contract = policies[i].contract /\ b.function = Trim(t.function)
         /\ b.args.object /\ DOMAIN b.args.at = DOMAIN args
    BY <2>14, <2>16, TypedCompleteCall
  <2>18. InvokeErrors(policies, b) \subseteq {"policy_args_type", "policy_args_unknown"}
    <3>1. Governs(policies, b.contract) = {i} /\ i \in Nat
      <4>1. Governs(policies, policies[i].contract) = {i}
        BY <2>1, <2>3
      <4> QED
        BY <2>4, <2>17, <4>1
    <3> QED
      BY <2>11, <2>17, <3>1, CompleteCallErrors
  <2>19. PolicyErrors(plan, policies) \subseteq {"policy_args_type", "policy_args_unknown"}
    BY <2>15, <2>16, <2>18 DEF PolicyErrors
  <2> QED
    BY <2>3, <2>15, <2>16, <2>17, <2>19 DEF Actions
<1> QED
  BY <1>1, AnswersAreAccountedFor, PTL
===============================================================================
