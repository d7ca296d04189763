----------------------------- MODULE MCPlanGates -----------------------------
(* Instances of PlanGates: prompts, environments and policy files.          *)
EXTENDS PlanGates

\* A prompt that mentions nothing.
Silent ==
  [accounts |-> <<>>, to |-> 0, amount |-> None, asset |-> None, hash |-> None,
   contract |-> None, function |-> None, alias |-> None, wasm |-> None,
   args |-> None, arg_types |-> None, phrases |-> {}, sources |-> <<>>]

Party == [id |-> "alice", issuer |-> FALSE]
Anchor == [id |-> "anchor", issuer |-> TRUE]

PayXlm == [Silent EXCEPT !.accounts = <<Party>>, !.to = 1, !.amount = "5"]
PayUsd == [Silent EXCEPT !.accounts = <<Anchor, Party>>, !.to = 2, !.amount = "5", !.asset = "USD"]
PayUsdToNobody == [Silent EXCEPT !.accounts = <<Anchor>>, !.amount = "5", !.asset = "USD"]
Trust(code) == [Silent EXCEPT !.accounts = <<Anchor>>, !.asset = code]

Call(args) == [Silent EXCEPT !.contract = "C1", !.function = "hello", !.args = args]
To(value) == Object("to" :> value)
Hello(to) == [Silent EXCEPT !.phrases = {"hello"}, !.sources = "after_to" :> to]

Case(prompt, label, confident) == [prompt |-> prompt, label |-> label, confident |-> confident]

PaymentCases ==
  {Case(PayXlm, "TransferXLM", TRUE), Case(PayUsd, "TransferAsset", TRUE),
   Case(Trust("USD"), "ChangeTrust", TRUE), Case(Trust("XLM"), "ChangeTrust", TRUE),
   Case(PayUsdToNobody, "TransferAsset", TRUE), Case(PayXlm, "TransferXLM", FALSE),
   Case(PayXlm, "CreateAccount", TRUE), Case(PayXlm, "BalanceQuery", TRUE),
   Case(PayXlm, "FundTestnet", TRUE), Case([Silent EXCEPT !.hash = "h"], "TxStatus", TRUE),
   Case(Call(To("digits")), "ContractInvoke", TRUE)}

ContractCases ==
  {Case(Call(To(v)), "ContractInvoke", TRUE) : v \in {"word", "padded", "text", "account_raw"}}
  \union {Case(Call(Object([k \in {"to", "count"} |-> IF k = "to" THEN "word" ELSE v])),
               "ContractInvoke", TRUE) : v \in {"grouped", "negative"}}
  \union {Case(Call([object |-> FALSE, at |-> <<>>]), "ContractInvoke", TRUE),
          Case(Call(None), "ContractInvoke", TRUE),
          Case(Call(Object("extra" :> "word" @@ "to" :> "word")), "ContractInvoke", TRUE),
          Case([Call(To("hex_raw")) EXCEPT !.arg_types = "to" :> "bytes"], "ContractInvoke", TRUE),
          Case([Call(To("word")) EXCEPT !.arg_types = "amount" :> "u64"], "ContractInvoke", TRUE),
          Case(Hello("word"), "Unknown", TRUE), Case(Hello("text"), "ContractInvoke", TRUE),
          Case([Hello("word") EXCEPT !.sources = <<>>], "ContractInvoke", TRUE),
          Case(Hello("word"), "ContractInvoke", FALSE),
          Case([Silent EXCEPT !.alias = "a", !.wasm = "w"], "ContractDeploy", TRUE)}

-----------------------------------------------------------------------------
Schema(required, optional) == [required |-> required, optional |-> optional]
FromPrompt == [value |-> None, source |-> "after_to", default |-> None, ty |-> None]
Fixed(value) == [value |-> value, source |-> None, default |-> None, ty |-> None]
Template(function, args) == [phrase |-> "hello", function |-> function, args |-> args]

Greeter ==
  [contract |-> "C1", allowed |-> {"hello"},
   schema |-> "hello" :> Schema("to" :> "symbol", "count" :> "u64"),
   templates |-> {Template("hello", "to" :> FromPrompt)}]

\* Any function, an address instead of a symbol, and two matching templates.
Sender ==
  [contract |-> "C1", allowed |-> {},
   schema |-> "hello" :> Schema("to" :> "address", "count" :> "U64"),
   templates |-> {Template(" hello ", "to" :> FromPrompt), Template("other", "to" :> Fixed("word"))}]

\* Templates of a function the policy does not allow and of no function.
Closed ==
  [contract |-> "C1", allowed |-> {"other"}, schema |-> <<>>,
   templates |-> {Template("hello", "to" :> FromPrompt), Template("  ", <<>>)}]

\* The lint accepts the spelling of the allowed function, the expansion does not.
Spelled == [Greeter EXCEPT !.allowed = {" hello "}]

Elsewhere == [contract |-> "C2", allowed |-> {}, schema |-> <<>>, templates |-> {}]

Files(first, dir, broken) == [first |-> first, dir |-> dir, broken |-> broken]

PolicyFiles ==
  {Files(None, <<>>, FALSE), Files(Greeter, <<>>, FALSE), Files(Greeter, <<>>, TRUE),
   Files(Greeter, <<Sender>>, FALSE), Files(None, <<Sender, Elsewhere>>, FALSE), Files(Closed, <<>>, FALSE),
   Files(Spelled, <<>>, FALSE)}

NoPolicies == {Files(None, <<>>, FALSE), Files(None, <<>>, TRUE)}

Env(lists, policies, assets, contracts, interactive) ==
  [lists_flag |-> lists, policy_flag |-> policies, assets |-> assets, contracts |-> contracts,
   interactive |-> interactive]

Flags == {"off", "on"}

PaymentEnvs ==
  {Env(l, "off", assets, contracts, TRUE) : l \in Flags,
     assets \in {None, {}, {<<"XLM">>}, {<<"USD", "anchor">>}, {<<"XLM">>, <<"USD">>}},
     contracts \in {{}, {<<"C1", "hello">>}, {<<"C1", "other">>}}}
  \union {Env(l, "off", None, {}, FALSE) : l \in Flags}

ContractEnvs ==
  {Env("off", p, None, {}, FALSE) : p \in Flags \union {"padded"}}
  \union {Env("on", "on", None, {<<"C1">>}, FALSE)}

-----------------------------------------------------------------------------
(* Payments meet the allowlists, contract calls the policies: the rest of    *)
(* the combinations is not looked at.                                        *)
MCPadded == " hello " :> "hello" @@ "  " :> ""
MCCases == PaymentCases \union ContractCases
MCEnvironments(c) == IF c \in PaymentCases THEN PaymentEnvs ELSE ContractEnvs
MCFileSets(c) == IF c \in PaymentCases THEN NoPolicies ELSE PolicyFiles
===============================================================================
