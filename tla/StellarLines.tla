----------------------------- MODULE StellarLines -----------------------------
(***************************************************************************)
(* What a line of a .nc script or of the REPL means to                     *)
(* neurochain-stellar.rs.  A line is [indent, words]: the words in lower   *)
(* case, without comment, quotes and the colon of a header; `name: v`,     *)
(* `name=v` and `name v` are all <<name, v>>.                              *)
(*                                                                         *)
(* The parsers are asked one after the other and the first that knows the  *)
(* line takes it, so `wallet generate k` sets the source account and       *)
(* `x402 request` is an invalid value of x402.                             *)
(***************************************************************************)
EXTENDS Integers, Sequences, SequencesExt, FiniteSetsExt

\* The directives with their names, in the order in which they are tried.
SetupLines == <<
  <<"model", {<<"ai">>}>>,
  <<"network", {<<"network">>}>>,
  <<"source", {<<"wallet">>, <<"source">>, <<"lompakko">>}>>,
  <<"generate", {<<"wallet_generate">>, <<"generate_wallet">>, <<"wallet_create">>, <<"keygen">>,
                 <<"wallet", "generate">>, <<"keys", "generate">>, <<"generate", "wallet">>}>>,
  <<"bootstrap", {<<"wallet_bootstrap">>, <<"bootstrap_wallet">>, <<"wallet", "bootstrap">>,
                  <<"bootstrap", "wallet">>}>>,
  <<"horizon", {<<"horizon">>, <<"horizon_url">>}>>,
  <<"friendbot", {<<"friendbot">>, <<"friendbot_url">>}>>,
  <<"cli", {<<"stellar_cli">>, <<"cli">>}>>,
  <<"plain", {<<"simulate_flag">>, <<"soroban_simulate_flag">>}>> >>

GuardLines == <<
  <<"txrep", {<<"txrep">>, <<"txrep_preview">>}>>,
  <<"threshold", {<<"intent_threshold">>}>>,
  <<"plain", {<<"asset_allowlist">>, <<"allowlist_assets">>,
              <<"soroban_allowlist">>, <<"contract_allowlist">>, <<"allowlist_contracts">>,
              <<"contract_policy">>, <<"policy_file">>, <<"policy">>,
              <<"contract_policy_dir">>, <<"policy_dir">>}>>,
  <<"allowlist", {<<"allowlist_enforce">>}>>,
  <<"policy", {<<"contract_policy_enforce">>, <<"policy_enforce">>}>>,
  <<"debug", {<<"debug">>, <<"intent_debug">>}>>,
  <<"x402", {<<"x402">>}>> >>

Directives == SetupLines \o GuardLines

\* The directives that are on or off, and those of their names that switch them
\* on without a value.
Toggles == {"txrep", "allowlist", "policy", "debug", "x402"}
Alone == {<<"txrep">>, <<"allowlist_enforce">>, <<"contract_policy_enforce">>,
          <<"policy_enforce">>, <<"debug">>, <<"x402">>}

\* parse_named_value: `name v` or `set name = v`, with a value.
Spellings(name) == {name, <<"set">> \o name \o <<"=">>}
NamedBy(name, words) ==
  \/ \E spelling \in Spellings(name) :
       IsPrefix(spelling, words) /\ Len(words) > Len(spelling)
  \/ words = name /\ words \in Alone

Takers(words) ==
  {i \in DOMAIN Directives : \E name \in Directives[i][2] : NamedBy(name, words)}

\* Which parser takes a line: the first directive, or
IsFromAi(words) == Len(words) > 4 /\ words[1] = "set" /\ SubSeq(words, 3, 4) = <<"from", "ai">>
IsIntentName(words) == words[2] \in {"intent", "stellar intent"}
IsAssignment(words) == Len(words) > 3 /\ words[1] = "set" /\ words[3] = "="
IsManualAction(words) == words[1] = "action"

Kind(words) ==
  IF Takers(words) # {} THEN Directives[Min(Takers(words))][1]
  ELSE CASE words[1] = "x402.request" -> "request"
         [] words[1] = "x402.finalize" -> "finalize"
         [] IsFromAi(words) -> IF IsIntentName(words) THEN "prompt" ELSE "predict"
         [] Len(words) > 3 /\ SubSeq(words, 1, 3) = <<"macro", "from", "ai">> -> "macro"
         [] words[1] = "neuro" -> "neuro"
         [] IsAssignment(words) -> "assign"
         [] IsManualAction(words) -> "action"
         [] OTHER -> "prompt"

\* The first word of a directive's value.
ValueOf(words) ==
  LET name == CHOOSE n \in Directives[Min(Takers(words))][2] : NamedBy(n, words)
      spelling == Max({Len(p) : p \in {q \in Spellings(name) : IsPrefix(q, words)}})
  IN IF words = name THEN "on" ELSE words[spelling + 1]
-----------------------------------------------------------------------------
IsIf(words) == words[1] = "if" /\ Len(words) > 1
IsElif(words) == words[1] = "elif" /\ Len(words) > 1
IsElse(words) == words = <<"else">>
IsHeader(words) == IsIf(words) \/ IsElif(words) \/ IsElse(words)

(***************************************************************************)
(* Conditions.  A value is text; the texts that are numbers have a rank.   *)
(* == compares the texts and < the ranks, so 1 == 1.0 is false and         *)
(* 1 >= 1.0 is true.                                                       *)
(***************************************************************************)
Values == {"0", "1", "1.0", "2"}
RankOf == [v \in Values |-> CASE v = "0" -> 0 [] v = "2" -> 2 [] OTHER -> 1]

Falsy == {"0", "false", "none", "null"}

Comparisons == {"==", "!=", ">", "<", ">=", "<="}

Resolve(token, variables) == IF token \in DOMAIN variables THEN variables[token] ELSE token

Compare(op, l, r) ==
  CASE op = "==" -> l = r
    [] op = "!=" -> l # r
    [] op = ">" -> RankOf[l] > RankOf[r]
    [] op = "<" -> RankOf[l] < RankOf[r]
    [] op = ">=" -> RankOf[l] >= RankOf[r]
    [] op = "<=" -> RankOf[l] <= RankOf[r]

\* The atom at i, a comparison or a value that is not false, and what follows.
Atom(tokens, i, variables) ==
  IF i + 2 <= Len(tokens) /\ tokens[i + 1] \in Comparisons
  THEN [holds |-> Compare(tokens[i + 1], Resolve(tokens[i], variables),
                          Resolve(tokens[i + 2], variables)),
        next |-> i + 3]
  ELSE [holds |-> Resolve(tokens[i], variables) \notin Falsy, next |-> i + 1]

\* From the left, `and` and `or` alike; what is not a connective, or has nothing
\* to its right, makes the condition false.
Holds(tokens, variables) ==
  LET rest[i \in 2..(Len(tokens) + 1), result \in BOOLEAN] ==
        IF i > Len(tokens) THEN result
        ELSE IF i = Len(tokens) THEN FALSE
        ELSE LET rhs == Atom(tokens, i + 1, variables)
             IN CASE tokens[i] = "and" -> rest[rhs.next, result /\ rhs.holds]
                  [] tokens[i] = "or" -> rest[rhs.next, result \/ rhs.holds]
                  [] OTHER -> FALSE
      first == Atom(tokens, 1, variables)
  IN tokens # <<>> /\ rest[first.next, first.holds]
===============================================================================
