------------------------------ MODULE IntentPlan ------------------------------
(***************************************************************************)
(* From a prompt to a plan of one action (intent_stellar.rs): the label    *)
(* the classifier gives, the slots the extractors find and the action the  *)
(* builder of the label makes of them, or Unknown with a warning.          *)
(*                                                                         *)
(* A prompt is what the extractors see of it:                              *)
(*   accounts   the account ids in the order they occur, each with whether *)
(*              it is written as the issuer of an asset (CODE:G...)        *)
(*   to         the index of the first account after the words "to",       *)
(*              "destination" or "recipient", or 0                         *)
(*   amount, asset (the code before the first issuer), hash, contract,     *)
(*   function, alias, wasm   a value or None                               *)
(*   args       None (no JSON), or the JSON value that follows "args="     *)
(*   arg_types  None, or the declared type of each argument                *)
(*   phrases, sources        see ContractPolicies                          *)
(***************************************************************************)
EXTENDS ContractPolicies

Extracted == {"accounts", "to", "amount", "asset", "hash", "contract", "function",
              "alias", "wasm", "args", "arg_types", "phrases", "sources"}

Labels == {"BalanceQuery", "CreateAccount", "ChangeTrust", "TransferXLM",
           "TransferAsset", "FundTestnet", "TxStatus", "ContractDeploy",
           "ContractInvoke", "Unknown"}

Slot(value) == [ok |-> TRUE, value |-> value]
Missing(warning) == [ok |-> FALSE, warning |-> warning]

\* An action needs every slot; the first missing one is reported.
Require(slots, warning, action) ==
  IF None \in slots THEN Missing(warning) ELSE Slot(action)

Account(prompt, index) ==
  IF index \in DOMAIN prompt.accounts THEN prompt.accounts[index].id ELSE None

\* extract_asset_pair: the first account that is written as an issuer.
Issuer(prompt) ==
  LET issuers == {i \in DOMAIN prompt.accounts : prompt.accounts[i].issuer}
  IN  IF issuers = {} THEN None
      ELSE Account(prompt, CHOOSE i \in issuers : \A j \in issuers : i <= j)

OrElse(value, other) == IF value # None THEN value ELSE other

Pay(to, amount, code, issuer) ==
  [kind |-> "payment", to |-> to, amount |-> amount, code |-> code, issuer |-> issuer]

-----------------------------------------------------------------------------
(* The builders of the labels.                                              *)

\* Only the account is required; the asset is optional.
BuildBalanceQuery(prompt) ==
  Require({Account(prompt, 1)}, "intent_error",
    [kind |-> "balance", account |-> Account(prompt, 1)])

BuildCreateAccount(prompt) ==
  Require({Account(prompt, 1), prompt.amount}, "intent_error",
    [kind |-> "create", destination |-> Account(prompt, 1), amount |-> prompt.amount])

BuildChangeTrust(prompt) ==
  Require({Issuer(prompt)}, "intent_error",
    [kind |-> "trust", code |-> prompt.asset, issuer |-> Issuer(prompt),
     limit |-> prompt.amount])

\* The account after "to", or the first one.
XlmDestination(prompt) == OrElse(Account(prompt, prompt.to), Account(prompt, 1))

BuildTransferXLM(prompt) ==
  Require({XlmDestination(prompt), prompt.amount}, "intent_error",
    Pay(XlmDestination(prompt), prompt.amount, "XLM", None))

\* The account after "to", or the second one, or the first one.
AssetDestination(prompt) ==
  OrElse(Account(prompt, prompt.to), OrElse(Account(prompt, 2), Account(prompt, 1)))

BuildTransferAsset(prompt) ==
  Require({AssetDestination(prompt), prompt.amount, Issuer(prompt)}, "intent_error",
    Pay(AssetDestination(prompt), prompt.amount, prompt.asset, Issuer(prompt)))

BuildFundTestnet(prompt) ==
  Require({Account(prompt, 1)}, "intent_error",
    [kind |-> "fund", account |-> Account(prompt, 1)])

BuildTxStatus(prompt) ==
  Require({prompt.hash}, "intent_error", [kind |-> "status", hash |-> prompt.hash])

BuildContractDeploy(prompt) ==
  Require({prompt.alias, prompt.wasm}, "intent_error", Deploy)

\* extract_args_json: without readable JSON the arguments are an empty object.
ExtractArgs(prompt) == IF prompt.args = None THEN Object(<<>>) ELSE prompt.args

\* validate_contract_invoke_arg_types without an error: the prompt may declare
\* the four typed slots only, for arguments it gives.
ArgTypesHold(args, types) ==
  \A k \in DOMAIN types :
    /\ CanonicalType(types[k]) \in TypedTypes
    /\ k \in DOMAIN args.at
    /\ ~NormalizeFails(args.at[k], CanonicalType(types[k]))

TypedPromptArgs(args, types) ==
  Object([k \in DOMAIN args.at |->
            IF k \in DOMAIN types THEN Normalize(args.at[k], CanonicalType(types[k]))
            ELSE args.at[k]])

BuildContractInvoke(prompt) ==
  LET args == ExtractArgs(prompt)
      action(a) == Slot(Invoke(prompt.contract, prompt.function, a))
  IN  IF None \in {prompt.contract, prompt.function} THEN Missing("slot_missing_invoke")
      ELSE IF ~args.object THEN Missing("intent_error")
      ELSE IF prompt.arg_types = None THEN action(args)
      ELSE IF ArgTypesHold(args, prompt.arg_types)
      THEN action(TypedPromptArgs(args, prompt.arg_types))
      ELSE Missing("intent_error")

-----------------------------------------------------------------------------
(* The decision and the plan.                                               *)

\* Mutant: a downgraded label is treated as one the classifier does not know,
\* which an intent template may repair.
DecideLabelForgets(label, confident) ==
  [label |-> IF confident THEN label ELSE "Unknown", downgraded |-> FALSE]

\* decide_label: a known label below the threshold is downgraded.
DecideLabel(label, confident) ==
  LET downgraded == label # "Unknown" /\ ~confident
  IN  [label |-> IF downgraded THEN "Unknown" ELSE label, downgraded |-> downgraded]

Build(label, prompt) ==
  CASE label = "BalanceQuery" -> BuildBalanceQuery(prompt)
    [] label = "CreateAccount" -> BuildCreateAccount(prompt)
    [] label = "ChangeTrust" -> BuildChangeTrust(prompt)
    [] label = "TransferXLM" -> BuildTransferXLM(prompt)
    [] label = "TransferAsset" -> BuildTransferAsset(prompt)
    [] label = "FundTestnet" -> BuildFundTestnet(prompt)
    [] label = "TxStatus" -> BuildTxStatus(prompt)
    [] label = "ContractDeploy" -> BuildContractDeploy(prompt)
    [] label = "ContractInvoke" -> BuildContractInvoke(prompt)
    [] label = "Unknown" -> Missing("no_action_mapping")

\* build_action_plan: always one action.
BuildActionPlan(prompt, decision) ==
  LET built == Build(decision.label, prompt)
  IN  IF decision.downgraded THEN [actions |-> <<Unknown>>, warnings |-> {"intent_warning"}]
      ELSE IF built.ok THEN [actions |-> <<built.value>>, warnings |-> {}]
      ELSE [actions |-> <<Unknown>>, warnings |-> {built.warning}]

\* has_intent_blocking_issue: every warning of the model is an intent_error or
\* an intent_warning.
IntentBlocked(plan) ==
  \/ \E i \in DOMAIN plan.actions : plan.actions[i] = Unknown
  \/ plan.warnings # {}
===============================================================================
