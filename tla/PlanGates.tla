------------------------------- MODULE PlanGates -------------------------------
(***************************************************************************)
(* One prompt through the three front ends of the guardrails: the API      *)
(* answers it in one request; the REPL, or a script, builds a plan and     *)
(* then executes it, loading the policy files both times; the MCP client   *)
(* plans and then sends a plan to be evaluated, its own or the one the API *)
(* returned; and the CLI runs the plan of the API from a file.  Somebody   *)
(* may edit the policy files at any moment.                                *)
(***************************************************************************)
EXTENDS ActionGuards

CONSTANTS
  Cases,         \* pairs of a prompt and the label the classifier gives it
  Environments(_), \* the environments of the processes a case is tried in
  FileSets(_),     \* the policy files somebody may write meanwhile
  MaxEdits       \* bound on the edits of the policy files

ASSUME CasesAssumption ==
  \A c \in Cases : DOMAIN c.prompt = Extracted /\ c.label \in Labels /\ c.confident \in BOOLEAN

\* A flag is off, on, or on with blanks around it; the directory is a sequence.
ASSUME EnvironmentsAssumption ==
  \A c \in Cases : \A e \in Environments(c) :
    {e.lists_flag, e.policy_flag} \subseteq {"off", "on", "padded"} /\ e.interactive \in BOOLEAN

ASSUME FilesAssumption ==
  \A c \in Cases : \A f \in FileSets(c) : f.dir \in Seq(ToSet(f.dir))

\* An answer that is not there is no verdict.
ASSUME NoneAssumption == None \notin 0..5

VARIABLES
  case,      \* [prompt, label, confident]
  env,       \* the environment of every process
  files,     \* the policy files
  api,       \* the answer of the API
  repl,      \* the plan of the REPL and the verdict of execute_plan
  mcp,       \* the plan the MCP server returned
  judged,    \* the verdict of evaluate_guardrails
  run,       \* the verdict of the CLI on the plan of the API
  edits      \* how often the files were edited

vars == <<case, env, files, api, repl, mcp, judged, run, edits>>

NotRun == [done |-> FALSE]

\* A verdict with the plan, the policies and the files it was given on.
Verdict(plan, policies, code) ==
  [done |-> TRUE, plan |-> plan, policies |-> policies, files |-> files, code |-> code]

Decision == DecideLabel(case.label, case.confident)

Init ==
  /\ case \in Cases
  /\ env \in Environments(case)
  /\ files \in FileSets(case)
  /\ api = NotRun /\ repl = NotRun /\ mcp = NotRun /\ judged = NotRun /\ run = NotRun
  /\ edits = 0

\* POST /api/stellar/intent-plan, from a caller who sends no lists or flags of
\* his own: the files are loaded once.
ApiAnswer ==
  /\ ~api.done
  /\ \E policies \in PolicyLoads(files) :
       \E plan \in ServerPlans(case.prompt, Decision, policies) :
         api' = Verdict(plan, policies,
                        ServerVerdict(plan, ServerSettings(env), policies, files.broken))
  /\ UNCHANGED <<case, env, files, repl, mcp, judged, run, edits>>

\* The request is refused, or the classifier is: an empty plan.
ApiFails ==
  /\ ~api.done
  /\ \E code \in {1, 2} :
       api' = Verdict([actions |-> <<>>, warnings |-> {}], <<>>, code)
  /\ UNCHANGED <<case, env, files, repl, mcp, judged, run, edits>>

\* build_plan_from_intent_prompt: the templates of the files as they are now.
ReplBuild ==
  /\ ~repl.done
  /\ \E policies \in PolicyLoads(files) :
       \E plan \in ApplyIntentTemplates(case.prompt,
                     BuildActionPlan(case.prompt, Decision), policies) :
         repl' = Verdict(plan, policies, None)
  /\ UNCHANGED <<case, env, files, api, mcp, judged, run, edits>>

\* execute_plan in a flow: the files are loaded again.
ReplExecute ==
  /\ repl.done /\ repl.code = None
  /\ \E policies \in PolicyLoads(files) :
       LET plan == ReplPlan(repl.plan, policies, TRUE)
       IN  repl' = Verdict(plan, policies,
                           ReplVerdict(plan, PromptSettings(env), policies, files.broken,
                                       TRUE, TRUE))
  /\ UNCHANGED <<case, env, files, api, mcp, judged, run, edits>>

\* plan_stellar_action: no templates and no policies.
McpPlan ==
  /\ ~mcp.done
  /\ mcp' = Verdict(BuildActionPlan(case.prompt, Decision), <<>>, None)
  /\ UNCHANGED <<case, env, files, api, repl, judged, run, edits>>

\* evaluate_guardrails of a plan with its own hash.
McpEvaluate ==
  /\ ~judged.done
  /\ \E answer \in {mcp, api} :
       /\ answer.done
       /\ LET policies == SortedPolicyLoad(files)
          IN  judged' = Verdict(answer.plan, policies,
                          McpVerdict(answer.plan, LocalSettings(env), policies, files.broken))
  /\ UNCHANGED <<case, env, files, api, repl, mcp, run, edits>>

\* neurochain-stellar <plan.json> --flow: no intent mode.
CliRun ==
  /\ api.done /\ ~run.done
  /\ \E policies \in PolicyLoads(files) :
       run' = Verdict(api.plan, policies,
                      ReplVerdict(api.plan, LocalSettings(env), policies, files.broken,
                                  TRUE, FALSE))
  /\ UNCHANGED <<case, env, files, api, repl, mcp, judged, edits>>

\* Somebody replaces the policy files.
EditFiles ==
  /\ edits < MaxEdits
  /\ files' \in FileSets(case) \ {files}
  /\ edits' = edits + 1
  /\ UNCHANGED <<case, env, api, repl, mcp, judged, run>>

Next ==
  \/ ApiAnswer \/ ApiFails \/ ReplBuild \/ ReplExecute \/ McpPlan \/ McpEvaluate \/ CliRun
  \/ EditFiles

Spec == Init /\ [][Next]_vars
-----------------------------------------------------------------------------
Actions(answer) == {answer.plan.actions[i] : i \in DOMAIN answer.plan.actions}

Passed(answer) == answer.done /\ answer.code = 0

\* An asset or a contract call that the lists name.
Listed(action) ==
  CASE action.kind \in {"payment", "trust"} ->
         /\ env.assets # None
         /\ \/ \E e \in env.assets : e = <<action.code>> \/ e = <<action.code, action.issuer>>
            \/ action.code \in {"xlm", "XLM"} /\ <<"XLM">> \in env.assets
    [] action.kind = "invoke" ->
         \E e \in env.contracts : e = <<action.contract>>
                                  \/ e = <<action.contract, action.function>>
    [] OTHER -> TRUE

\* A call that the policy of its contract, the last one loaded, permits, with
\* arguments that are declared, complete and of the declared types.
Permitted(action, policies) ==
  \E i \in DOMAIN policies :
    /\ policies[i].contract = action.contract
    /\ \A j \in DOMAIN policies : policies[j].contract = action.contract => j <= i
    /\ policies[i].allowed = {} \/ action.function \in policies[i].allowed
    /\ action.function \in DOMAIN policies[i].schema =>
         LET schema == policies[i].schema[action.function]
         IN  /\ action.args.object
             /\ \A k \in DOMAIN schema.required : k \in DOMAIN action.args.at
             /\ \A k \in DOMAIN action.args.at :
                  \/ k \in DOMAIN schema.required /\ ValidArg(action.args.at[k], schema.required[k])
                  \/ k \in DOMAIN schema.optional /\ ValidArg(action.args.at[k], schema.optional[k])

\* What the REPL adds to a missing list of assets.
XlmByDefault(action) ==
  /\ env.interactive /\ env.assets = None
  /\ action.kind \in {"payment", "trust"} /\ action.code \in {"xlm", "XLM"}

\* Enforced allowlists fail closed in every front end, whatever the templates
\* made of the plan: a plan that passes names only listed assets and calls.  Only
\* the REPL lets something pass that no list names: XLM, when the environment has
\* no list of assets, for then it starts with the list of XLM.
\* Code: validate_enforced_plan and its three callers, and run_repl
\* (neurochain-stellar.rs:4545).
PassedPlansStayInLists ==
  TrimmedFlag(env.lists_flag) =>
    /\ \A answer \in {api, judged, run} :
         Passed(answer) => \A a \in Actions(answer) : Listed(a)
    /\ Passed(repl) => \A a \in Actions(repl) : Listed(a) \/ XlmByDefault(a)

\* Enforced contract policies fail closed: a contract call of a plan that
\* passes has a policy among the files of the moment of the verdict, not of the
\* moment the plan was built, and all those files could be read.
\* Code: validate_contract_policies and the loads of its callers.
PassedCallsHavePolicies ==
  \A answer \in {api, repl, judged, run} :
    Passed(answer) /\ env.policy_flag = "on" =>
      /\ \A a \in Actions(answer) : a.kind = "invoke" => Permitted(a, answer.policies)
      /\ (\E a \in Actions(answer) : a.kind \in {"invoke", "deploy"}) =>
           /\ ~answer.files.broken
           /\ answer.policies # <<>>

\* A plan of the API that passes is one the typed templates have nothing left to
\* do for: the MCP server and the CLI, given the same plan under the same files,
\* let it pass too.  Code: the normalization has to be idempotent and to end in
\* values the policy check accepts, in all three implementations of the verdict.
ApiPlansPassEverywhere ==
  \A answer \in {judged, run} :
    (/\ Passed(api) /\ answer.done
     /\ answer.plan = api.plan
     /\ answer.files = api.files /\ answer.policies = api.policies
     /\ env.policy_flag # "padded")
      => answer.code = 0

\* A plan the MCP server lets pass under enforced policies is one the API would
\* have let pass: templates and normalization make the API no stricter.
McpNoLaxerThanApi ==
  (/\ Passed(judged) /\ api.done /\ mcp.done /\ api.code \notin {1, 2}
   /\ judged.plan = mcp.plan
   /\ judged.files = api.files /\ judged.policies = api.policies
   /\ env.policy_flag = "on")
    => api.code = 0

\* Typed slots hold in every plan that the API or a REPL flow lets pass, also
\* when the policies are not enforced (docs/security.md:32): what cannot be
\* normalized has become Unknown and was blocked.
TypedSlotsHold ==
  \A answer \in {api, repl} : Passed(answer) =>
    \A a \in Actions(answer) :
      (a.kind = "invoke" /\ HasSchema(answer.policies, a) /\ a.args.object) =>
        LET types == Declared(SchemaOf(answer.policies, a))
        IN  \A k \in DOMAIN types \intersect DOMAIN a.args.at :
              CanonicalType(types[k]) \in TypedTypes
                => ValidArg(a.args.at[k], CanonicalType(types[k]))

\* A prompt below the threshold never becomes an action, not even when it names
\* an intent template (docs/stellar_actions_guide.md:295).
LowConfidenceIsFinal ==
  ~case.confident /\ case.label # "Unknown" =>
    /\ \A answer \in {api, repl, mcp} : answer.done => Actions(answer) \subseteq {Unknown}
    /\ ~Passed(api) /\ ~Passed(judged)
    /\ repl.done => repl.code # 0

AllowedOnlyPadded(policy, function) ==
  /\ function \notin policy.allowed
  /\ \E f \in policy.allowed \intersect DOMAIN Padded : Padded[f] = function

\* When the lint of the policies has nothing to say and every contract has one
\* policy, a prompt that names a template of theirs becomes a call the policies
\* know, of a function they allow, with every argument they require (only types
\* and undeclared arguments can still be wrong), or an intent error.  There is one
\* exception: the policy allows the function only under a spelling with blanks
\* around it, which the lint accepts; the plan then stays Unknown and is blocked.
\* Code: validate_intent_template of the lint (soroban_deep.rs:397) has to ask for
\* at least what apply_contract_intent_templates (108) and the policy check (232)
\* ask for.
LintedTemplatesFit ==
  LET built == BuildActionPlan(case.prompt, Decision)
  IN  (/\ api.done /\ api.code \notin {1, 2}
       /\ Expandable(built)
       /\ MatchingTemplates(case.prompt, api.policies) # {}
       /\ \A i \in DOMAIN api.policies :
            /\ LintPasses(api.policies[i])
            /\ Governs(api.policies, api.policies[i].contract) = {i})
        => \/ "intent_error" \in api.plan.warnings
           \/ /\ \A a \in Actions(api) : a.kind = "invoke"
              /\ PolicyErrors(api.plan, api.policies)
                   \subseteq {"policy_args_type", "policy_args_unknown"}
           \/ /\ api.plan = built /\ api.code # 0
              /\ \E found \in MatchingTemplates(case.prompt, api.policies) :
                   AllowedOnlyPadded(found[1], Trim(found[2].function))
===============================================================================
