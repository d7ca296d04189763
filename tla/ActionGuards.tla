----------------------------- MODULE ActionGuards -----------------------------
(***************************************************************************)
(* The allowlists (actions.rs) and the verdict of the guardrails in each   *)
(* of the three places that implement it: POST /api/stellar/intent-plan    *)
(* (neurochain-server.rs), execute_plan of the REPL, the CLI and the       *)
(* scripts (neurochain-stellar.rs) and evaluate_guardrails of the MCP      *)
(* server (mcp_v0_runtime.rs).                                             *)
(*                                                                         *)
(* The environment is [lists_flag, policy_flag, assets, contracts,         *)
(* interactive]: a flag is "off", "on" or "padded" (on, with blanks around *)
(* it), assets is None (NC_ASSET_ALLOWLIST is unset or blank) or the set   *)
(* of its entries, <<code>> or <<code, issuer>>, contracts the set of      *)
(* entries <<contract>> or <<contract, function>>, and interactive says    *)
(* whether prompts are typed into the REPL or come from a script or an     *)
(* argument.  The settings a front end makes of it are                     *)
(* [enforce_lists, enforce_policies, assets, contracts].  The files are    *)
(* [first, dir, broken]: the file of NC_CONTRACT_POLICY (or None), the     *)
(* files of the policy directory in the order of their paths, and whether  *)
(* a file could not be read or parsed.                                     *)
(***************************************************************************)
EXTENDS IntentPlan, SequencesExt

\* eq_ignore_ascii_case("XLM").
IsXlm(code) == code \in {"XLM", "xlm"}

\* is_asset_allowed of a list that is not empty.
AssetListed(list, code, issuer) ==
  IF IsXlm(code) THEN <<"XLM">> \in list
  ELSE <<code, issuer>> \in list \/ <<code>> \in list

\* is_contract_allowed of a list that is not empty.
ContractListed(list, contract, function) ==
  <<contract, function>> \in list \/ <<contract>> \in list

\* validate_plan: an empty list allows everything.
OutsideLists(action, assets, contracts) ==
  \/ /\ action.kind = "invoke"
     /\ contracts # {} /\ ~ContractListed(contracts, action.contract, action.function)
  \/ /\ action.kind \in {"payment", "trust"}
     /\ assets # {} /\ ~AssetListed(assets, action.code, action.issuer)

\* Mutant: an empty list allows everything, also when the lists are enforced.
OutsideEnforcedListsEmptyAllows(action, assets, contracts) ==
  OutsideLists(action, assets, contracts)

\* validate_enforced_plan: an empty list allows nothing of its kind.
OutsideEnforcedLists(action, assets, contracts) ==
  \/ OutsideLists(action, assets, contracts)
  \/ action.kind = "invoke" /\ contracts = {}
  \/ action.kind \in {"payment", "trust"} /\ assets = {}

\* The flags as all front ends read them: trimmed (parse_bool_value, env_bool).
TrimmedFlag(flag) == flag # "off"

\* policy_enforced of the server compares the value as it is.
ExactFlag(flag) == flag = "on"

\* Without a list of assets the server and the scripts have an empty one.
SettingsWith(env, enforce_policies) ==
  [enforce_lists    |-> TrimmedFlag(env.lists_flag),
   enforce_policies |-> enforce_policies,
   assets           |-> IF env.assets = None THEN {} ELSE env.assets,
   contracts        |-> env.contracts]

ServerSettings(env) == SettingsWith(env, ExactFlag(env.policy_flag))

\* The CLI and the scripts, and the MCP server.
LocalSettings(env) == SettingsWith(env, TrimmedFlag(env.policy_flag))

\* Prompts that are typed into the REPL: run_repl makes a missing list of assets
\* the list of XLM.
PromptSettings(env) ==
  IF env.interactive /\ env.assets = None
  THEN [LocalSettings(env) EXCEPT !.assets = {<<"XLM">>}]
  ELSE LocalSettings(env)

ListViolations(plan, settings) ==
  {i \in DOMAIN plan.actions :
     IF settings.enforce_lists
     THEN OutsideEnforcedLists(plan.actions[i], settings.assets, settings.contracts)
     ELSE OutsideLists(plan.actions[i], settings.assets, settings.contracts)}

-----------------------------------------------------------------------------
(* Loading the policy files.                                                *)

FirstPolicy(files) == IF files.first = None THEN <<>> ELSE <<files.first>>

\* load_contract_policies of the server and the REPL: read_dir has no order.
PolicyLoads(files) == {FirstPolicy(files) \o dir : dir \in SetToSeqs(ToSet(files.dir))}

\* load_contract_policies of the MCP server sorts the paths.
SortedPolicyLoad(files) == FirstPolicy(files) \o files.dir

\* The policy errors that count when the policies are enforced: those of the
\* plan, and for a plan with contract actions those of the files.
EnforcedPolicyErrors(plan, policies, broken) ==
  PolicyErrors(plan, policies)
  \union (IF NeedsContractPolicy(plan)
          THEN (IF broken THEN {"policy_load_failed"} ELSE {})
               \union (IF policies = <<>> THEN {"policy_unconfigured"} ELSE {})
          ELSE {})

ListsBlock(plan, settings) == settings.enforce_lists /\ ListViolations(plan, settings) # {}

PoliciesBlock(plan, settings, policies, broken) ==
  settings.enforce_policies /\ EnforcedPolicyErrors(plan, policies, broken) # {}

-----------------------------------------------------------------------------
(* The three verdicts: 0, or the exit code 3, 4 or 5.                       *)

\* build_stellar_intent_plan_response after the typed templates.
ServerVerdict(plan, settings, policies, broken) ==
  IF ListsBlock(plan, settings) THEN 3
  ELSE IF PoliciesBlock(plan, settings, policies, broken) THEN 4
  ELSE IF IntentBlocked(plan) THEN 5
  ELSE 0

\* execute_plan before it simulates: intent safety is for flows in intent mode.
ReplVerdict(plan, settings, policies, broken, flow, intent) ==
  IF ListsBlock(plan, settings) THEN 3
  ELSE IF PoliciesBlock(plan, settings, policies, broken) THEN 4
  ELSE IF flow /\ intent /\ IntentBlocked(plan) THEN 5
  ELSE 0

\* Mutant: policy errors count without enforcement.
McpVerdictAlwaysEnforces(plan, settings, policies, broken) ==
  IF ListsBlock(plan, settings) THEN 3
  ELSE IF EnforcedPolicyErrors(plan, policies, broken) # {} THEN 4
  ELSE IF plan.actions = <<>> \/ IntentBlocked(plan) THEN 5
  ELSE 0

\* Mutant: an intent error without a downgrade does not block.
McpVerdictDowngradedOnly(plan, settings, policies, broken) ==
  IF ListsBlock(plan, settings) THEN 3
  ELSE IF PoliciesBlock(plan, settings, policies, broken) THEN 4
  ELSE IF plan.actions = <<>> \/ "intent_warning" \in plan.warnings THEN 5
  ELSE 0

\* evaluate_guardrails_with_config: an empty plan is blocked as well.
McpVerdict(plan, settings, policies, broken) ==
  IF ListsBlock(plan, settings) THEN 3
  ELSE IF PoliciesBlock(plan, settings, policies, broken) THEN 4
  ELSE IF plan.actions = <<>> \/ IntentBlocked(plan) THEN 5
  ELSE 0

\* The plan the guardrails of the server see, for one load of the files.
ServerPlans(prompt, decision, policies) ==
  {ApplyTypedTemplates(p, policies) :
     p \in ApplyIntentTemplates(prompt, BuildActionPlan(prompt, decision), policies)}

\* execute_plan types the plan again in intent mode only.
ReplPlan(plan, policies, intent) ==
  IF intent THEN ApplyTypedTemplates(plan, policies) ELSE plan
===============================================================================
