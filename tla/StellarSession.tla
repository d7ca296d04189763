---------------------------- MODULE StellarSession ----------------------------
(***************************************************************************)
(* A session of neurochain-stellar.rs: the command line chooses a plan     *)
(* file, a prompt, a .nc script or the REPL.  A script is executed line by *)
(* line into one plan, which is then executed; the REPL executes a plan    *)
(* per block of actions, prompt and finalized x402 challenge.  Both keep   *)
(* their settings, variables and x402 challenges in memory (ctx).          *)
(***************************************************************************)
EXTENDS StellarFlow, StellarLines

CONSTANTS
  Invocations,  \* the command lines: [repl, path, text, flow]
  Environments, \* the settings that the environment gives
  Files,        \* the plans of plan files
  Scripts,      \* the scripts, sequences of lines
  Blocks,       \* the blocks typed at the REPL
  Understood,   \* what a prompt may be understood as: sequences of kinds
  ChallengeIds, \* the names of the challenges a session creates, in order; their
                \* number is a bound
  MaxBlocks     \* bound on the blocks of a REPL session

Lines == [indent : Nat, words : Seq(STRING) \ {<<>>}]
Settings == {"unset", "blank", "own"}

ASSUME SessionAssumption ==
  /\ Files \subseteq Seq([kind : Kinds, ready : BOOLEAN, challenge : {0}])
  /\ Understood \subseteq Seq(Kinds)
  /\ ChallengeIds \in Seq(STRING)
  /\ Scripts \subseteq Seq(Lines) /\ Blocks \subseteq Seq(Lines)
  /\ \A env \in Environments : env.horizon \in Settings /\ env.friendbot \in Settings

VARIABLES
  call,    \* [mode, flow]
  phase,   \* start, building, reading, executing or stopped
  input,   \* the lines of the script, or of the last block
  at,      \* the line that is next
  stack,   \* the blocks and chains of branches that are open
  ctx,     \* settings, variables, challenges and plan so far
  paying,  \* the challenge the REPL finalizes, or 0
  typed,   \* the number of blocks typed
  ran      \* the lines of the script that ran (history)

sessionVars == <<call, phase, input, at, stack, ctx, paying, typed, ran>>
vars == <<flowVars, sessionVars>>

DefaultHorizon(network) ==
  IF network \in {"public", "pubnet", "mainnet"} THEN "public" ELSE "testnet"
DefaultFriendbot(network) == IF network = "testnet" THEN "testnet" ELSE "none"

\* load_network_config and runtime_settings_from_env: an endpoint is pinned when
\* the variable has a value, and is blank when the variable is.
Endpoint(variable, default) == IF variable = "unset" THEN default ELSE variable
Context(env) ==
  [network |-> env.network,
   horizon |-> Endpoint(env.horizon, DefaultHorizon(env.network)),
   friendbot |-> Endpoint(env.friendbot, DefaultFriendbot(env.network)),
   pinned |-> [horizon |-> env.horizon = "own", friendbot |-> env.friendbot = "own"],
   source |-> env.source, exec |-> env.exec,
   x402 |-> env.x402, allowlist |-> env.allowlist, policy |-> env.policy,
   variables |-> <<>>, challenges |-> <<>>, plan |-> <<>>, prompted |-> FALSE]

\* parse_cli_args
Refused(a) == (a.path # "none" /\ a.text) \/ (a.repl /\ (a.path # "none" \/ a.text))
Mode(a) ==
  CASE a.repl \/ (a.path = "none" /\ ~a.text) -> "repl"
    [] a.text -> "text"
    [] OTHER -> a.path
FlowOn(a) == IF a.flow = "default" THEN Mode(a) = "repl" ELSE a.flow = "on"

Init ==
  /\ FlowInit
  /\ \E a \in Invocations : ~Refused(a) /\ call = [mode |-> Mode(a), flow |-> FlowOn(a)]
  /\ \E env \in Environments :
       ctx = IF call.mode = "repl" THEN [Context(env) EXCEPT !.source = FALSE]
             ELSE Context(env)
  /\ phase = "start"
  /\ input = <<>> /\ at = 1 /\ stack = <<>>
  /\ paying = 0 /\ typed = 0 /\ ran = {}

\* The codes with which the enforced guards may refuse a plan.
Codes == {0} \union (IF ctx.allowlist THEN {3} ELSE {}) \union (IF ctx.policy THEN {4} ELSE {})

Run(actions, asked) == Execute(actions, asked, Codes, call.flow, ctx.source)

Action(kind) == [kind |-> kind, ready |-> TRUE, challenge |-> 0]
Actions(kinds) == [i \in DOMAIN kinds |-> Action(kinds[i])]
-----------------------------------------------------------------------------
(* main: one plan, and the exit code of execute_plan. *)

RunFile ==
  /\ phase = "start" /\ call.mode = "json"
  /\ \E p \in Files : Run(p, FALSE)
  /\ phase' = "executing"
  /\ UNCHANGED <<call, input, at, stack, ctx, paying, typed, ran>>

\* A prompt that cannot be classified ends the program.
RunText ==
  /\ phase = "start" /\ call.mode = "text"
  /\ \/ \E kinds \in Understood : Run(Actions(kinds), TRUE) /\ phase' = "executing"
     \/ phase' = "stopped" /\ UNCHANGED flowVars
  /\ UNCHANGED <<call, input, at, stack, ctx, paying, typed, ran>>

Block(indent, execute) ==
  [kind |-> "block", indent |-> indent, execute |-> execute, taken |-> FALSE, runs |-> FALSE]

OpenScript ==
  /\ phase = "start" /\ call.mode = "script"
  /\ input' \in Scripts
  /\ stack' = <<Block(0, TRUE)>>
  /\ phase' = "building"
  /\ UNCHANGED <<flowVars, call, at, ctx, paying, typed, ran>>

OpenRepl ==
  /\ phase = "start" /\ call.mode = "repl"
  /\ phase' = "reading"
  /\ UNCHANGED <<flowVars, call, input, at, stack, ctx, paying, typed, ran>>
-----------------------------------------------------------------------------
(* execute_script_block and execute_if_chain. *)

Top == Last(stack)
Words == input[at].words
Within == at <= Len(input)

InBlock == phase = "building" /\ Top.kind = "block"
AtLine == InBlock /\ Within /\ input[at].indent = Top.indent

\* An error ends the script, and with it the program.
FailScript ==
  /\ phase' = "stopped"
  /\ UNCHANGED <<flowVars, call, input, at, stack, ctx, paying, typed, ran>>

BadIndentation == InBlock /\ Within /\ input[at].indent > Top.indent /\ FailScript

OrphanBranch == AtLine /\ (IsElif(Words) \/ IsElse(Words)) /\ FailScript

Condition == IsElse(Words) \/ Holds(Tail(Words), ctx.variables)

\* A header of a chain whose earlier branches were taken or not, with its body.
OpenBranch(base, chain, taken) ==
  LET runs == chain.execute /\ ~taken /\ Condition
      body == IF at < Len(input) /\ input[at + 1].indent > chain.indent
              THEN <<Block(input[at + 1].indent, runs)>> ELSE <<>>
  IN /\ stack' = base \o <<[chain EXCEPT !.taken = taken, !.runs = runs]>> \o body
     /\ at' = at + 1
     /\ ran' = IF runs THEN ran \union {at} ELSE ran
     /\ UNCHANGED <<flowVars, call, phase, input, ctx, paying, typed>>

OpenChain ==
  /\ AtLine /\ IsIf(Words)
  /\ OpenBranch(stack, [Top EXCEPT !.kind = "chain"], FALSE)

Continues ==
  Within /\ input[at].indent = Top.indent /\ (IsElif(Words) \/ IsElse(Words))

\* Mutant: only the branch before is remembered.
TakenBefore(chain) == chain.runs

\* branch_taken
Taken(chain) == chain.taken \/ chain.runs

NextBranch ==
  /\ phase = "building" /\ Top.kind = "chain" /\ Continues
  /\ OpenBranch(Front(stack), Top, Taken(Top))

CloseChain ==
  /\ phase = "building" /\ Top.kind = "chain" /\ ~Continues
  /\ stack' = Front(stack)
  /\ UNCHANGED <<flowVars, call, phase, input, at, ctx, paying, typed, ran>>

BlockEnds == InBlock /\ (Within => input[at].indent < Top.indent)

CloseBlock ==
  /\ BlockEnds /\ Len(stack) > 1
  /\ stack' = Front(stack)
  /\ UNCHANGED <<flowVars, call, phase, input, at, ctx, paying, typed, ran>>

\* The script is built: its plan is executed, as a prompt's when it had one.
RunScript ==
  /\ BlockEnds /\ Len(stack) = 1
  /\ Run(ctx.plan, ctx.prompted)
  /\ phase' = "executing"
  /\ UNCHANGED <<call, input, at, stack, ctx, paying, typed, ran>>

SkipStatement ==
  /\ AtLine /\ ~IsHeader(Words) /\ ~Top.execute
  /\ at' = at + 1
  /\ UNCHANGED <<flowVars, call, phase, input, stack, ctx, paying, typed, ran>>
-----------------------------------------------------------------------------
(* run_repl: blocks, and the lines of a block. *)

Ready == phase = "reading" /\ pc \in {"idle", "done"} /\ paying = 0

TypeBlock ==
  /\ Ready /\ ~Within /\ typed < MaxBlocks
  /\ input' \in Blocks
  /\ at' = 1
  /\ typed' = typed + 1
  /\ UNCHANGED <<flowVars, call, phase, stack, ctx, paying, ran>>

IsBlock(words) == at = 1 /\ Len(input) = 1 /\ Words = words

Exit ==
  /\ Ready /\ Within /\ IsBlock(<<"exit">>)
  /\ phase' = "stopped"
  /\ UNCHANGED <<flowVars, call, input, at, stack, ctx, paying, typed, ran>>

SetupTestnet ==
  /\ Ready /\ Within /\ IsBlock(<<"setup", "testnet">>)
  /\ ctx' = [ctx EXCEPT !.network = "testnet", !.horizon = "testnet", !.friendbot = "testnet",
                        !.pinned = [horizon |-> FALSE, friendbot |-> FALSE]]
  /\ at' = at + 1
  /\ UNCHANGED <<flowVars, call, phase, input, stack, paying, typed, ran>>

AllManual == \A i \in DOMAIN input : IsManualAction(input[i].words)

\* A block of actions only is one plan, and not a prompt's.
RunManual ==
  /\ Ready /\ Within /\ AllManual
  /\ Run([i \in DOMAIN input |-> Action(input[i].words[2])], FALSE)
  /\ at' = Len(input) + 1
  /\ UNCHANGED <<call, phase, input, stack, ctx, paying, typed, ran>>
-----------------------------------------------------------------------------
(* execute_statement, and the same directives in run_repl. *)

InRepl ==
  Ready /\ Within /\ ~AllManual /\ ~IsBlock(<<"exit">>) /\ ~IsBlock(<<"setup", "testnet">>)
InScript == AtLine /\ ~IsHeader(Words) /\ Top.execute

Value == ValueOf(Words)

\* The statement is done, with the context it leaves behind.
Done(c) ==
  /\ ctx' = c
  /\ at' = at + 1
  /\ ran' = IF phase = "building" THEN ran \union {at} ELSE ran
  /\ UNCHANGED <<flowVars, call, phase, input, stack, paying, typed>>

\* The statement fails: the REPL prints the error, a script ends.
Fails == IF phase = "reading" THEN Done(ctx) ELSE FailScript

\* Directives that change nothing a plan depends on here, and neuro.
Plain == Done(ctx)

Threshold == IF Value \in Values THEN Done(ctx) ELSE Fails

Macro == Fails

\* apply_network
Network ==
  Done([ctx EXCEPT
             !.network = Value,
             !.horizon = IF ctx.pinned.horizon THEN @ ELSE DefaultHorizon(Value),
             !.friendbot = IF ctx.pinned.friendbot THEN @ ELSE DefaultFriendbot(Value)])

\* Mutant: an endpoint of one's own is not pinned.
HorizonNotPinned ==
  Done([ctx EXCEPT !.horizon = "own"])

Horizon ==
  Done([ctx EXCEPT !.horizon = "own", !.pinned.horizon = TRUE])

Friendbot ==
  Done([ctx EXCEPT !.friendbot = IF Value = "off" THEN "none" ELSE "own",
                      !.pinned.friendbot = TRUE])

Source ==
  Done([ctx EXCEPT !.source = TRUE])

\* A line that runs a process while a script is built needs the permission of the
\* environment; the stellar CLI or friendbot may fail.
Wallet(possible) ==
  \/ (InRepl \/ ctx.exec) /\ possible /\ Done([ctx EXCEPT !.source = TRUE])
  \/ Fails

Generate == Wallet(TRUE)
Bootstrap == Wallet(ctx.friendbot # "none")

CliBinary == IF InRepl \/ ctx.exec THEN Done(ctx) ELSE FailScript

\* parse_bool_value: on, off, or an error.
Toggle(flag) ==
  CASE Value \notin {"on", "off"} -> Fails
    [] flag \in {"txrep", "debug"} -> Done(ctx)
    [] OTHER -> Done([ctx EXCEPT ![flag] = Value = "on"])
-----------------------------------------------------------------------------
(* x402 challenges. *)

Payment(words, n) ==
  [kind |-> "payment", ready |-> words[2] = "payable", challenge |-> n]

Request ==
  /\ Len(ctx.challenges) < Len(ChallengeIds)
  /\ IF ctx.x402 /\ Len(Words) > 1
     THEN LET payment == Payment(Words, Len(ctx.challenges) + 1)
          IN Done([ctx EXCEPT !.challenges =
                     Append(@, [payment |-> payment, finalized |-> FALSE])])
     ELSE Fails

\* The id in an x402.finalize line, and the challenges it stands for.
Requested(words) == IF Len(words) = 1 THEN "last" ELSE words[2]
Resolved(requested) ==
  {n \in DOMAIN ctx.challenges :
     requested = ChallengeIds[n] \/ (requested = "last" /\ n = Len(ctx.challenges))}

Open == {n \in Resolved(Requested(Words)) : ctx.x402 /\ ~ctx.challenges[n].finalized}

\* A script queues the payment and is done with the challenge.
FinalizeInScript ==
  /\ InScript
  /\ \/ \E n \in Open :
          Done([ctx EXCEPT !.plan = Append(@, ctx.challenges[n].payment),
                           !.challenges[n].finalized = TRUE])
     \/ Open = {} /\ FailScript

\* The REPL executes it at once, as a plan that is not a prompt's,
FinalizeInRepl ==
  /\ InRepl
  /\ \/ \E n \in Open :
          /\ Run(<<ctx.challenges[n].payment>>, FALSE)
          /\ paying' = n
          /\ at' = at + 1
          /\ UNCHANGED <<call, phase, input, stack, ctx, typed, ran>>
     \/ Open = {} /\ Done(ctx)

\* Mutant: a payment without an answer that says ok may be made again.
PaidIfOk == exit = 0 /\ \E i \in DOMAIN outputs : outputs[i].status = "ok"

\* and marks it when execute_plan returned 0, sent or not.
Paid == exit = 0

Finalized ==
  /\ phase = "reading" /\ pc = "done" /\ paying # 0
  /\ ctx' = [ctx EXCEPT !.challenges[paying].finalized = Paid]
  /\ paying' = 0
  /\ UNCHANGED <<flowVars, call, phase, input, at, stack, typed, ran>>
-----------------------------------------------------------------------------
(* Variables, actions and prompts. *)

Bound(variables, name, value) ==
  [v \in DOMAIN variables \union {name} |-> IF v = name THEN value ELSE variables[v]]

Assign ==
  Done([ctx EXCEPT !.variables = Bound(@, Words[2], Resolve(Words[4], @))])

\* set x from AI: what the model predicts, or its failure.
Predict ==
  \/ \E v \in Values : Done([ctx EXCEPT !.variables = Bound(@, Words[2], v)])
  \/ Fails

ActionLine ==
  Done([ctx EXCEPT !.plan = Append(@, Action(Words[2]))])

\* append_intent_prompt
PromptInScript ==
  /\ InScript
  /\ \/ \E kinds \in Understood :
          Done([ctx EXCEPT !.plan = @ \o Actions(kinds), !.prompted = TRUE])
     \/ FailScript

PromptInRepl ==
  /\ InRepl
  /\ \/ \E kinds \in Understood :
          /\ Run(Actions(kinds), TRUE)
          /\ at' = at + 1
          /\ UNCHANGED <<call, phase, input, stack, ctx, paying, typed, ran>>
     \/ Done(ctx)
-----------------------------------------------------------------------------
Flow == FlowNext /\ UNCHANGED sessionVars

Structure ==
  \/ BadIndentation \/ OrphanBranch \/ OpenChain \/ NextBranch \/ CloseChain
  \/ CloseBlock \/ RunScript \/ SkipStatement

\* Which parser takes the next statement: the REPL has no literal assignments, and
\* actions only in blocks of their own.
Statements ==
  /\ InRepl \/ InScript
  /\ \E kind \in {Kind(Words)} :
       \/ kind \in {"model", "plain", "neuro"} /\ Plain
       \/ kind = "threshold" /\ Threshold
       \/ kind = "macro" /\ Macro
       \/ kind = "network" /\ Network
       \/ kind = "horizon" /\ Horizon
       \/ kind = "friendbot" /\ Friendbot
       \/ kind = "source" /\ Source
       \/ kind = "generate" /\ Generate
       \/ kind = "bootstrap" /\ Bootstrap
       \/ kind = "cli" /\ CliBinary
       \/ kind \in Toggles /\ Toggle(kind)
       \/ kind = "request" /\ Request
       \/ kind = "finalize" /\ (FinalizeInScript \/ FinalizeInRepl)
       \/ kind = "predict" /\ Predict
       \/ kind = "assign" /\ InScript /\ Assign
       \/ kind = "action" /\ InScript /\ ActionLine
       \/ kind = "prompt" /\ PromptInScript
       \/ kind \in {"prompt", "assign", "action"} /\ PromptInRepl

Next ==
  \/ Flow \/ Structure \/ Statements
  \/ RunFile \/ RunText \/ OpenScript \/ OpenRepl
  \/ TypeBlock \/ Exit \/ SetupTestnet \/ RunManual \/ Finalized

Spec == Init /\ [][Next]_vars
-----------------------------------------------------------------------------
\* A challenge of a session is paid at most once, whatever is typed after a
\* payment that failed, was refused or was not confirmed.  Code: the finalized
\* flag of execute_statement and run_repl.
ChallengePaidOnce ==
  \A i, j \in Sent :
    i # j => ledger[i].challenge = 0 \/ ledger[i].challenge # ledger[j].challenge

\* The lines of a script that the indentation puts below a header, and the headers
\* that continue its chain.
Encloses(h, s) ==
  /\ h < s /\ IsHeader(input[h].words)
  /\ \A k \in (h + 1)..s : input[k].indent > input[h].indent
SameChain(h, g) ==
  /\ h < g /\ input[g].indent = input[h].indent
  /\ \A k \in (h + 1)..g :
       \/ input[k].indent > input[h].indent
       \/ /\ input[k].indent = input[h].indent
          /\ IsElif(input[k].words) \/ IsElse(input[k].words)

\* Of the branches of a chain at most one runs, and some branch does when there is
\* an else; a statement runs exactly when all the branches it is nested in do.
\* Code: execute_script_block and execute_if_chain hand `execute` down a recursion
\* and share the line index.
BranchesRunAlone ==
  call.mode = "script" =>
    /\ \A h, g \in ran : IsHeader(input[h].words) => ~SameChain(h, g)
    /\ \A s \in 1..(at - 1) :
         LET reached == \A h \in 1..s : Encloses(h, s) => h \in ran
         IN IF IsHeader(input[s].words)
            THEN /\ s \in ran => reached
                 /\ reached /\ IsElse(input[s].words) =>
                      \E h \in ran : h = s \/ SameChain(h, s)
            ELSE s \in ran <=> reached

\* An endpoint that nobody pinned is never that of another network.  Code: the
\* _from_env flags of ScriptBuildContext and run_repl; a blank variable gives a
\* blank endpoint until the network is set.
EndpointsFollowNetwork ==
  /\ ~ctx.pinned.horizon => ctx.horizon \in {"blank", DefaultHorizon(ctx.network)}
  /\ ~ctx.pinned.friendbot => ctx.friendbot \in {"blank", DefaultFriendbot(ctx.network)}
===============================================================================
