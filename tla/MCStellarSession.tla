--------------------------- MODULE MCStellarSession ---------------------------
(* Plan files of every kind of action, scripts of four lines of every shape  *)
(* and a few longer ones, and sessions of the REPL.                          *)
EXTENDS StellarSession

MCInvocations ==
  {a \in [repl : BOOLEAN, path : {"none", "json", "script"}, text : BOOLEAN,
          flow : {"default", "on", "off"}] : TRUE}

Env(horizon, friendbot, source, exec, x402) ==
  [network |-> "testnet", horizon |-> horizon, friendbot |-> friendbot, source |-> source,
   exec |-> exec, x402 |-> x402, allowlist |-> FALSE, policy |-> TRUE]
Usual == Env("unset", "unset", TRUE, FALSE, TRUE)
MCEnvironments ==
  {Usual, [Usual EXCEPT !.source = FALSE], Env("own", "blank", TRUE, TRUE, FALSE),
   [Usual EXCEPT !.network = "public", !.policy = FALSE]}

MCFiles ==
  {<<Action(k)>> : k \in Kinds}
  \union {<<[Action("payment") EXCEPT !.ready = FALSE], Action("deploy")>>}
  \union {<<Action("payment"), Action(k), Action("invoke")>> : k \in {"deploy", "trust", "unknown"}}

At(indent, words) == [indent |-> indent, words |-> words]
Top0(words) == At(0, words)

\* Scripts of four lines that begin with an if, are indented below headers only and
\* have their elif and else in chains.
ShapeLines ==
  {At(i, w) : i \in 0..2, w \in {<<"if", "1">>, <<"if", "0">>, <<"elif", "1">>, <<"else">>,
                                 <<"action", "status">>}}
Fits(script, line) ==
  /\ line.indent > Last(script).indent => IsHeader(Last(script).words)
  /\ IsElif(line.words) \/ IsElse(line.words) =>
       \E k \in DOMAIN script :
         /\ script[k].indent = line.indent /\ IsHeader(script[k].words)
         /\ \A m \in (k + 1)..Len(script) : script[m].indent > line.indent
Grown(script) == {Append(script, l) : l \in {x \in ShapeLines : Fits(script, x)}}
Shapes1 == {<<At(0, <<"if", "1">>)>>, <<At(0, <<"if", "0">>)>>}
Shapes2 == UNION {Grown(s) : s \in Shapes1}
Shapes3 == UNION {Grown(s) : s \in Shapes2}
Shapes == UNION {Grown(s) : s \in Shapes3}

\* A chain in a chain, with conditions of all kinds.
Conditions ==
  {<<"x">>, <<"x", "==", "1">>, <<"1", ">=", "1.0">>, <<"0", "or", "1", "and", "x">>,
   <<"x", "and">>, <<"1", "xor", "1">>}
Nested(outer, inner) ==
  << At(0, <<"set", "x", "=", "1">>), At(0, <<"if">> \o outer),
     At(2, <<"set", "x", "=", "0">>), At(2, <<"if">> \o inner), At(4, <<"action", "fund">>),
     At(2, <<"else">>), At(4, <<"action", "payment">>),
     At(0, <<"elif">> \o inner), At(2, <<"set", "x", "from", "ai", "?">>),
     At(0, <<"else">>), At(2, <<"pay", "them">>), At(0, <<"neuro", "bye">>) >>

Plain3(a, b, c) == <<Top0(a), Top0(b), Top0(c)>>
FlowScripts ==
  {Plain3(<<"x402", "on">>, <<"x402.request", "payable">>, <<"x402.finalize", id>>)
     : id \in {"last", "x402c0001", "x402c0002"}}
  \union {Plain3(<<"x402.request", "payable">>, <<"x402.finalize">>, <<"x402.finalize">>),
          Plain3(<<"action", "payment">>, <<"pay", "them">>, <<"action", "unknown">>),
          Plain3(<<"wallet", "generate", "k">>, <<"policy_enforce", "off">>, <<"action", "invoke">>),
          Plain3(<<"cli", "stellar">>, <<"wallet_bootstrap", "k">>, <<"action", "payment">>),
          Plain3(<<"network", "public">>, <<"intent_threshold", "high">>, <<"action", "payment">>),
          Plain3(<<"intent_threshold", "1">>, <<"debug">>, <<"macro", "from", "ai", "?">>),
          Plain3(<<"horizon", "own">>, <<"friendbot", "off">>, <<"network", "public">>),
          Plain3(<<"source", "k">>, <<"x402.request">>, <<"action", "payment">>),
          Plain3(<<"source", "k">>, <<"x402", "request">>, <<"action", "payment">>)}

Broken ==
  {<<At(0, <<"if", "1">>), At(1, <<"fund", "me">>), line>>
     : line \in {At(2, <<"action", "fund">>), At(1, <<"else">>)}}

AllScripts ==
  Shapes \union Broken \union {Nested(a, b) : a, b \in Conditions} \union FlowScripts
MCScripts == AllScripts

MCBlocks ==
  {<<Top0(w)>> : w \in {<<"x402.request", "payable">>, <<"x402.request", "amount">>, <<"x402.finalize">>,
                        <<"x402.finalize", "x402c0001">>, <<"action", "payment">>, <<"pay", "them">>,
                        <<"network", "public">>, <<"horizon", "own">>, <<"friendbot", "off">>,
                        <<"setup", "testnet">>, <<"exit">>, <<"keygen", "k">>, <<"wallet_bootstrap", "k">>}}
  \union {<<Top0(<<"wallet", "k">>), Top0(<<"x402">>)>>,
          <<Top0(<<"policy_enforce", "off">>), Top0(<<"allowlist_enforce">>)>>,
          <<Top0(<<"x402.request", "payable">>), Top0(<<"x402.finalize", "last">>)>>,
          <<Top0(<<"intent_threshold", "high">>), Top0(<<"macro", "from", "ai", "?">>),
            Top0(<<"x402", "request">>), Top0(<<"set", "x", "from", "ai", "?">>),
            Top0(<<"cli", "stellar">>)>>}

MCChallengeIds == <<"x402c0001", "x402c0002", "x402c0003">>

MCUnderstood == {<<"payment">>, <<"unknown">>}
===============================================================================
