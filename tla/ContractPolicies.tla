--------------------------- MODULE ContractPolicies ---------------------------
(***************************************************************************)
(* Contract policies (soroban_deep.rs): intent templates that turn a       *)
(* prompt into an invocation, the typed templates that normalize its       *)
(* arguments, the policy check of a plan and the lint of the policy files. *)
(*                                                                         *)
(* A plan is [actions, warnings]: warnings holds the kinds of warning the  *)
(* guards look at.  An action is a record with a kind.  The arguments of   *)
(* an invocation are [object, at]: at maps the keys of an object to its    *)
(* values.  A policy is                                                    *)
(*   [contract, allowed, schema, templates]                                *)
(* where allowed is a set of functions (empty: every function), schema     *)
(* maps a function to [required, optional], each a map from argument to    *)
(* type, and templates is the set of intent templates, in no order: the    *)
(* program keeps them in a HashMap.  Names are compared as the files spell *)
(* them, except where the code trims them first (Trim).                    *)
(***************************************************************************)
EXTENDS ArgTypes, Naturals, Sequences, FiniteSets

CONSTANTS
  None,   \* an absent optional value
  Padded  \* maps a name written with blanks around it to the name itself

\* What is left of a name has no blanks around it.
ASSUME PaddedAssumption == \A n \in DOMAIN Padded : Padded[n] \notin DOMAIN Padded

\* str::trim of a name; a name of blanks is left empty.
Trim(name) == IF name \in DOMAIN Padded THEN Padded[name] ELSE name

Unknown == [kind |-> "unknown"]

Invoke(contract, function, args) ==
  [kind |-> "invoke", contract |-> contract, function |-> function, args |-> args]

Deploy == [kind |-> "deploy"]

Object(at) == [object |-> TRUE, at |-> at]

\* Warnings a template may still repair (is_template_expandable_intent_warning).
Repairable == {"slot_missing_invoke", "no_action_mapping"}

\* plan_is_template_expandable.
Expandable(plan) ==
  /\ plan.actions # <<>>
  /\ \A i \in DOMAIN plan.actions : plan.actions[i] = Unknown
  /\ plan.warnings \intersect Repairable # {}

-----------------------------------------------------------------------------
(* Intent templates.  A template is [phrase, function, args]; an argument   *)
(* of it is [value, source, default, ty].  A prompt is [phrases, sources, ...]: *)
(* the template phrases it contains and what each source extracts from it.  *)

\* extract_arg_source: the texts a prompt yields, all of them strings.
ExtractArgSource(prompt, source) ==
  IF source \in DOMAIN prompt.sources THEN prompt.sources[source] ELSE None

\* A fixed value first, then the source, then the default.
ResolveTemplateArg(prompt, arg) ==
  LET extracted == IF arg.source = None THEN None
                   ELSE ExtractArgSource(prompt, arg.source)
  IN  IF arg.value # None THEN arg.value
      ELSE IF extracted # None THEN extracted
      ELSE arg.default

\* The arguments that resolve to something (build_template_args).
TemplateArgs(prompt, template) ==
  LET resolved == {k \in DOMAIN template.args :
                     ResolveTemplateArg(prompt, template.args[k]) # None}
  IN  [k \in resolved |-> ResolveTemplateArg(prompt, template.args[k])]

MissingRequired(args, template, policy) ==
  /\ Trim(template.function) \in DOMAIN policy.schema
  /\ ~(DOMAIN policy.schema[Trim(template.function)].required \subseteq DOMAIN args)

\* The trimmed function, compared with the allowed functions as they are spelled.
TemplateRefused(policy, template) ==
  \/ Trim(template.function) = ""
  \/ policy.allowed # {} /\ Trim(template.function) \notin policy.allowed

\* find_matching_template: the first policy with a matching template, and any
\* of its matching templates, for the map has no order.
MatchingTemplates(prompt, policies) ==
  LET matches(p) == {t \in p.templates : t.phrase \in prompt.phrases}
      hits == {i \in DOMAIN policies : matches(policies[i]) # {}}
  IN  IF hits = {} THEN {}
      ELSE LET first == CHOOSE i \in hits : \A j \in hits : i <= j
           IN  {<<policies[first], t>> : t \in matches(policies[first])}

\* Mutant: a template that lacks a required argument is applied all the same.
ExpandIncomplete(prompt, plan, policy, template) ==
  IF TemplateRefused(policy, template) THEN plan
  ELSE [actions  |-> <<Invoke(policy.contract, Trim(template.function),
                              Object(TemplateArgs(prompt, template)))>>,
        warnings |-> plan.warnings \ Repairable]

\* One matching template applied to a plan.
ExpandWith(prompt, plan, policy, template) ==
  LET args == TemplateArgs(prompt, template)
  IN  IF TemplateRefused(policy, template) THEN plan
      ELSE IF MissingRequired(args, template, policy)
      THEN [plan EXCEPT !.warnings = @ \union {"intent_error"}]
      ELSE [actions  |-> <<Invoke(policy.contract, Trim(template.function), Object(args))>>,
            warnings |-> plan.warnings \ Repairable]

\* The plans apply_contract_intent_templates may leave.
ApplyIntentTemplates(prompt, plan, policies) ==
  LET found == MatchingTemplates(prompt, policies)
  IN  IF ~Expandable(plan) \/ found = {} THEN {plan}
      ELSE {ExpandWith(prompt, plan, f[1], f[2]) : f \in found}

-----------------------------------------------------------------------------
(* Typed templates.                                                         *)

\* The policy of a contract: the last one loaded wins (HashMap::insert).
Governs(policies, contract) == {i \in DOMAIN policies : policies[i].contract = contract}

PolicyOf(policies, contract) ==
  LET all == Governs(policies, contract)
  IN  policies[CHOOSE i \in all : \A j \in all : j <= i]

HasPolicy(policies, contract) == Governs(policies, contract) # {}

HasSchema(policies, action) ==
  /\ HasPolicy(policies, action.contract)
  /\ action.function \in DOMAIN PolicyOf(policies, action.contract).schema

SchemaOf(policies, action) == PolicyOf(policies, action.contract).schema[action.function]

\* The arguments a schema declares, with their types.  The instances declare no
\* argument both as required and as optional.
Declared(schema) ==
  [k \in DOMAIN schema.required \union DOMAIN schema.optional |->
     IF k \in DOMAIN schema.required THEN schema.required[k] ELSE schema.optional[k]]

\* The declared arguments the typed templates look at.
TypedKeys(schema, args) ==
  {k \in DOMAIN Declared(schema) \intersect DOMAIN args.at :
     CanonicalType(Declared(schema)[k]) \in TypedTypes}

SlotType(schema, key) == CanonicalType(Declared(schema)[key])

SlotTypeError(schema, args) ==
  \E k \in TypedKeys(schema, args) : NormalizeFails(args.at[k], SlotType(schema, k))

\* apply_policy_typed_schema_to_args without an error: every typed slot is
\* normalized.
NormalizedArgs(schema, args) ==
  Object([k \in DOMAIN args.at |->
            IF k \in TypedKeys(schema, args) THEN Normalize(args.at[k], SlotType(schema, k))
            ELSE args.at[k]])

\* Mutant: a bad slot leaves the invocation in the plan.
TypedActionKeepsBadSlot(policies, action) ==
  IF action.kind = "invoke" /\ HasSchema(policies, action) /\ action.args.object
     /\ ~SlotTypeError(SchemaOf(policies, action), action.args)
  THEN [action EXCEPT !.args = NormalizedArgs(SchemaOf(policies, action), @)]
  ELSE action

\* One action under the typed templates: an invocation with a bad slot becomes
\* Unknown, arguments that are no object are left to the policy check.
TypedAction(policies, action) ==
  IF action.kind = "invoke" /\ HasSchema(policies, action) /\ action.args.object
  THEN LET schema == SchemaOf(policies, action)
       IN  IF SlotTypeError(schema, action.args) THEN Unknown
           ELSE [action EXCEPT !.args = NormalizedArgs(schema, @)]
  ELSE action

ApplyTypedTemplates(plan, policies) ==
  LET typed == [i \in DOMAIN plan.actions |-> TypedAction(policies, plan.actions[i])]
      converted == \E i \in DOMAIN typed : typed[i] = Unknown /\ plan.actions[i] # Unknown
  IN  [actions  |-> typed,
       warnings |-> plan.warnings \union (IF converted THEN {"intent_error"} ELSE {})]

-----------------------------------------------------------------------------
(* The policy check of a plan and the lint of the policies.                 *)

\* The errors of the arguments of one invocation, whose object has keys: types
\* are compared as they are spelled.
ArgErrors(schema, args) ==
  LET keys == DOMAIN args.at
      types == Declared(schema)
      mistyped == {k \in keys \intersect DOMAIN types : ~ValidArg(args.at[k], types[k])}
  IN  IF ~args.object THEN {"policy_args_invalid"}
      ELSE {"policy_args_missing" : k \in DOMAIN schema.required \ keys}
        \union {"policy_args_type" : k \in mistyped}
        \union {"policy_args_unknown" : k \in keys \ DOMAIN types}

\* Mutant: an argument the schema does not declare is let through.
InvokeErrorsKnownArgs(policies, action) ==
  IF ~HasPolicy(policies, action.contract) THEN {"policy_missing"}
  ELSE IF /\ PolicyOf(policies, action.contract).allowed # {}
          /\ action.function \notin PolicyOf(policies, action.contract).allowed
  THEN {"policy_function_denied"}
  ELSE IF HasSchema(policies, action)
  THEN ArgErrors(SchemaOf(policies, action), action.args) \ {"policy_args_unknown"}
  ELSE {}

InvokeErrors(policies, action) ==
  IF ~HasPolicy(policies, action.contract) THEN {"policy_missing"}
  ELSE IF /\ PolicyOf(policies, action.contract).allowed # {}
          /\ action.function \notin PolicyOf(policies, action.contract).allowed
  THEN {"policy_function_denied"}
  ELSE IF HasSchema(policies, action)
  THEN ArgErrors(SchemaOf(policies, action), action.args)
  ELSE {}

\* validate_contract_policies: no policies, no errors; a deployment is not checked.
PolicyErrors(plan, policies) ==
  IF policies = <<>> THEN {}
  ELSE UNION {InvokeErrors(policies, plan.actions[i]) :
                i \in {i \in DOMAIN plan.actions : plan.actions[i].kind = "invoke"}}

\* plan_needs_contract_policy.
NeedsContractPolicy(plan) ==
  \E i \in DOMAIN plan.actions : plan.actions[i].kind \in {"invoke", "deploy"}

\* One argument of a template: its own type, if any, is that of the schema, and
\* something can give it a value.  The sources of the instances are all known.
ArgLintPasses(types, key, arg) ==
  /\ arg.ty # None =>
       /\ CanonicalType(arg.ty) \in SchemaTypes
       /\ key \in DOMAIN types => CanonicalType(types[key]) = CanonicalType(arg.ty)
  /\ ~(arg.source = None /\ arg.value = None /\ arg.default = None)

\* validate_intent_template without an error: a function without a schema only
\* gets a warning.  Both sides of the comparison with the allowed functions are
\* trimmed here, which TemplateRefused and InvokeErrors do not do.
TemplateLintPasses(policy, template) ==
  /\ Trim(template.function) # ""
  /\ policy.allowed # {} =>
       \E f \in policy.allowed : Trim(f) = Trim(template.function)
  /\ Trim(template.function) \in DOMAIN policy.schema =>
       LET schema == policy.schema[Trim(template.function)]
       IN  /\ DOMAIN schema.required \subseteq DOMAIN template.args
           /\ \A k \in DOMAIN template.args :
                ArgLintPasses(Declared(schema), k, template.args[k])

\* validate_contract_policy_template without an error.  Its errors only become
\* warnings of the plan: they never block.
LintPasses(policy) ==
  /\ \A f \in {policy.contract} \union policy.allowed \union DOMAIN policy.schema : Trim(f) # ""
  /\ \A f \in DOMAIN policy.schema :
       LET types == Declared(policy.schema[f])
       IN  \A k \in DOMAIN types : CanonicalType(types[k]) \in SchemaTypes
  /\ \A t \in policy.templates : TemplateLintPasses(policy, t)
===============================================================================
