# NeuroChain: TLA+ models, model checks and proofs

NeuroChain turns prompts and scripts into Stellar action plans, checks them
against guardrails, submits them through the `stellar` command line tool, sells
the check through an x402 payment gateway, and lets a zero-knowledge proof of a
check be consumed on chain.  The modules in this directory describe the parts of
that system whose state and ordering decide whether it is correct: the x402
challenges and their settlement, the guardrails and their three front ends, the
sessions of the command line program, and the ZK guardrail with its contract.

Paths below are relative to the repository root.

## 1. The system

| Component | Source | State it keeps | Operations |
|---|---|---|---|
| x402 challenge store | `src/x402_store.rs` | challenges, used challenges, settlement records, id counter; a JSON file with a backup and a temporary file | create, inspect, finalize, record verification, begin and complete settlement, persist, load |
| x402 route and verifiers | `src/bin/neurochain-server.rs`, `src/x402_facilitator.rs` | the mutex around the store, the verifier chosen at start | 402 challenge, mock finalization, facilitator verification, evaluation of the paid plan |
| x402 settlement gate | `src/x402_facilitator.rs` | none of its own; it drives the store | `settle_after_verified_request`, `mark_settlement_outcome_unknown` |
| x402 facilitator transport | `src/x402_facilitator.rs` | none | build requests, map status codes, parse answers |
| x402 replies and audit | `src/x402_stellar.rs`, `src/x402_audit.rs` | append-only audit lines | format |
| API server | `src/bin/neurochain-server.rs` | inference semaphore | `/analyze`, `/stellar/intent-plan` |
| Guardrails | `src/actions.rs`, `src/soroban_deep.rs`, `src/intent_stellar.rs` | none (policies from files) | build plan, allowlist, contract policies, intent safety |
| Stellar REPL and scripts | `src/bin/neurochain-stellar.rs` | session settings, x402 and ZK session state | run scripts, conditions, flow gates, simulate, submit |
| ZK guardrail contract | `hackathons/stellar-real-world-zk/soroban` | owner, verifier, authorized policies, consumed nullifiers | verify, consume, authorize, revoke |
| ZK evaluation and hosts | `hackathons/stellar-real-world-zk/{shared,guest,host,contracts,risc0}` | none | evaluate, commit, prove |
| ZK attestation client | `src/zk_attestation.rs` | none | load and check an attestation |
| MCP v0 | `src/mcp_v0_*.rs`, `src/bin/neurochain-mcp-v0-stdio.rs` | none across calls | no-submit tools |
| DSL | `src/lexer`, `src/parser`, `src/interpreter` | variables, model choice | statements, macros |
| Inference, demo server, converters | `src/ai`, other `src/bin` | none | - |

Interactions.  The route and the settlement gate share the store through one
mutex, which they hold while they wait for the facilitator.  The file store is
the only state of the server that survives a restart.  The guardrails are called
by the server, the REPL, the script runner and MCP, which prepare and judge a plan
in four separate pieces of code.  The command line program reaches the ledger and
the ZK contract through the `stellar` tool and reads Horizon, both of which other
holders of the account use too.

What is hard.  A crash or an error between any two file system calls; a
settlement that times out here and succeeds there; a repeated or concurrent use
of one payment; a rejection, an expiry or an acceptance that meets a state that
changed in between; a restart with another verifier; policy files that are edited
between the plan and the verdict, and read in no order; a call of the `stellar`
tool that fails after its transaction was applied; a transaction of somebody else
between ours and the question for the latest one; an attestation whose policy is
revoked before it is consumed, or that two sessions consume; a branch of a script
that is skipped with other branches inside.  `PROJECT.json` lists each hazard at
its line.

What makes a component correct:

* store: what a caller was told is what a restart reads; a used challenge never
  becomes usable again; every stored state can be loaded;
* route: one payment pays for one evaluation, recorded before it is given;
* settlement: one request per payment; what the chain executed is never open
  again; what is reported as settled was executed; every attempt ends;
* guardrails: no plan passes that an enforced check rejects, a prompt nobody
  understood submits nothing, and the front ends agree about a plan;
* sessions: every action is sent at most once, after judgement and confirmation,
  and what is printed about it is about it; a challenge is paid once;
* ZK guardrail: what is permitted is inside the policy, the published hashes
  determine the decision, an evaluation is used once, under an authorized policy.

## 2. Modules

```
X402State          the state value and its transitions (no variables)
  X402AtomicStore  abstract: an atomic, durable store
    X402Gateway    route + verifiers + settlement gate over the abstract store
      MCX402Gateway  TLC's instance (symmetry)
  X402FileStore    persist()/load() call by call; implements X402AtomicStore
  X402StateProofs  lemmas about the transitions
    X402FileStoreProofs  inductive invariant, safety, refinement
    X402GatewayProofs    inductive invariant, safety of payment and settlement,
                         refinement of X402Lifecycle under one verifier mode
X402Lifecycle      abstract: the life of one challenge; implemented by X402Gateway

ArgTypes           argument values, their types, normalization
  IntentPlan       classified prompt -> plan; allowlists
    ContractPolicies  policy files, templates, policy check, lint
      ActionGuards    the verdicts of the API, REPL/CLI and MCP
        PlanGates     one prompt through all of them, files edited meanwhile
          MCPlanGates
          PlanGatesProofs  what every answer was made from; the verdicts

StellarFlow        execute_plan: preview, confirm, submit, report; the ledger
StellarLines       what a line of a script or of the REPL means
  StellarSession   the program: plan file, prompt, script or REPL
    MCStellarSession
    StellarSessionProofs  inductive invariant, safety of the flow, challenges, endpoints
    StellarScriptProofs   the open branches of a script

ZkJournal          plan, policy, evaluate, the journal and its encodings
  ZkContract       guest, verifiers, the Soroban contract, the local inspection
    ZkEvaluation   one run of the prover
      MCZkEvaluation
      ZkEvaluationProofs  the gates, the preimages, the encoding, the verifiers
    ZkSession      sessions, owner and others against deployed contracts
      MCZkSession
      ZkSessionProofs  inductive invariant, safety, refinement
ZkOneTimeUse       abstract: one use of an evaluation; implemented by ZkSession
```

### x402

**X402State** has one operator per method of `X402StellarState`; an operator
takes a state and the clock and returns the outcome and the next state.  Ids are
numbers, digests and hashes are model values.  The time stamps nothing reads back
are left out; `expires_at` is kept.

**X402FileStore** has one action per file system call.  `Persisting` is the part
of an operation before `persist()`: it computes the next state in memory and
keeps the old one in `saved` (the local `previous`).  `WriteTmp`, `DropBackup`,
`Backup`, `Replace`, `Restore` and `Cleanup` are `persist()`; each has an error
branch that ends in `Abort`, the roll back.  `StartLoad`, `Read`, `RestoreBackup`
and `Recover` are `load()`; when `Recover` found settlements in progress it runs
through `persist()` before the store serves.  `Crash` may happen at every step.

**X402AtomicStore** is what the rest of the server may rely on: an operation
changes memory and durable state together or not at all.

**X402Gateway** has the requests, the settlement calls, the facilitator and the
clock.  A request or a settlement call holds the mutex from its first call of the
store until its last (`LockFree`).  The facilitator is external: `Execute` and
`Refuse` decide a dispatched settlement at any later time, also after the process
stopped waiting.  History variables (`accepted`, `refused`, `dispatched`,
`executed`, `granted`, `reported`) record what the properties speak of and guard
nothing except that the settlement gate is called with an accepted verification.

**X402Lifecycle** is the state diagram of the contract: open, verified, in
progress, and one of three ends; or finalized without a payment record.

### Guardrails

A text is abstracted to what the extractors find in it: a prompt is a record of the
accounts, amounts, names and phrases found, an argument is one of sixteen forms of
value (a word, a padded word, a number with separators, an address, ...), and
**ArgTypes** says which types each kind passes and what normalization makes of it.
**IntentPlan** decides label and threshold and builds the action of each label
(`intent_stellar.rs`), **ContractPolicies** has the intent templates, the typed
templates, the policy check and the lint (`soroban_deep.rs`), **ActionGuards** the
allowlists and the three verdicts with their exit codes (`actions.rs`, the server,
`execute_plan`, the MCP runtime).  The order of `read_dir` and of a `HashMap` is a
choice: `PolicyLoads` and the templates that match.

**PlanGates** runs one prompt through the API, the REPL, MCP (with its own plan or the
API's) and the CLI (with the API's plan from a file), in any order, while `EditFiles`
changes the policy files.  A verdict keeps the plan, policies and files it was given
on, so that a property can say which of them it has to agree with.

### Sessions of the command line program

**StellarFlow** is `execute_plan`.  A call of the `stellar` tool is two steps, the call
and the line that is printed about it; the call may fail with its transaction in the
ledger, and `Other` adds transactions of other holders in between.  A transaction is
known by the run, the action and the challenge it belongs to, which the program never
sees: the properties compare it with what is printed.  A deployment, which the tool sends as
two transactions (the code, then the contract), counts as one.

**StellarLines** has the directives as a table of names in the order of the parsers;
the first that knows a line takes it.  Conditions are evaluated from the left with no
precedence and no parentheses, as the code does.

**StellarSession** turns `execute_script_block` and `execute_if_chain`, which call each
other over a shared index, into a machine with an explicit `stack` of blocks and chains.
Every statement of a script and every line of the REPL is an action; the same operator
serves both where the code does the same, and `InScript` and `InRepl` tell them apart
where it does not.  A REPL block is typed when the last one was executed.  `ran` and
`typed` are history variables; `paying` is the challenge id the REPL keeps across
`execute_plan`.

### ZK guardrail

**ZkJournal** has the two input shapes, the gates of `evaluate` in their order, the two
canonical preimages and the byte encoding of the journal; a hash is its preimage, so
that it is injective and nothing else.  **ZkContract** has the guest, the host library,
the contract library and every entry point of the Soroban contract as a function from
storage to answer and storage.  The RISC Zero verifier is external: a seal proves an
image and a byte string or nothing.

**ZkEvaluation** proves one plan under one policy and publishes the artifact.
**ZkSession** has the ZK commands of the REPL as they interleave with other sessions,
the owner of the contract and other transactions of the source account.  A command is
three steps (start, call, finish), and the reply to a call that was applied may be lost.
A configured contract that is no guardrail answers anything.

## 3. Runs

| Run | Shows | Bounds |
|---|---|---|
| `file_store` | types, `MemoryIsStored`, `ReplayProtectionSurvives`, refinement of the atomic store | 2 challenges, 1 payment, clock 0..1 |
| `file_store_restore_fails` | finding: a second failing rename loses finalized challenges | same, the restoring rename may fail |
| `gateway_contention` | `SingleDispatch`, `ExecutedStaysBlocked`, `SettledWasExecuted`, `RecordedWhileOpen` | 1 challenge, 2 payments, 2 requests, 2 settlement calls, failing writes, clock 0..2 |
| `gateway_lifecycle` | `StoreAlwaysLoads`, refinement of `X402Lifecycle` | 2 challenges, 1 request, 1 settlement call |
| `gateway_mock` | `GrantedOnce` | 2 challenges, 2 requests, failing writes |
| `gateway_live` | `MutexReleased`, `StartedSettlementEnds` | 1 challenge, 2 payments, any number of crashes |
| `gateway_mode_switch` | finding: a restart in the other mode makes the store unloadable | 1 challenge |
| `gateway_rejected` | finding: a rejected payment may be recorded as verified when repeated | 1 challenge |
| `gates` | what passes is in the lists, has a policy and fits its types; the front ends agree; low confidence is final; linted templates fit | 27 prompts with a label, 36 environments, 8 sets of policy files, 1 edit |
| `session` | nothing sent unjudged, once, in order; traceable hashes, honest lines; challenges paid once; branches exclude each other; endpoints follow the network | every script of 4 well-indented lines, 50 other ones, 4 REPL blocks, 3 challenges, 1 foreign transaction |
| `zk_evaluation` | what an evaluation permits; hashes and encodings are injective; all verifiers agree | 68 plans and 31 policies around the bundled fixtures, each pair proved |
| `zk_session` | one consumer, honest status, refinement of `ZkOneTimeUse`, permitted transactions | 2 contending sessions; 1 session with 3 contracts; 1 without and 1 in remote mode; 3 transactions |

Why the bounds are enough.  No transition reads another challenge than its own;
the challenges share the id counter, the mutex and the file, and two of them show
every interplay of those.  Two payments are needed for one to be offered in place
of the other.  A clock of three values with a time to live of 1 has a time before,
at and after the expiry.  The files hold whole states, so the number of challenges
does not change the order of the file system calls; the proofs below cover every
number.  Symmetry is used for requests, settlement calls and payments, which the
modules only compare for equality; the run that checks liveness uses none.

In the guardrail run each gate has an input on both sides of it, and an enforced check
is combined with each front end.  A case chooses its environments and its policy files
(`Environments`, `FileSets`): payments meet the allowlists and contract calls the
policies, two checks that share no code and no state.  The lists of assets are none (the
REPL then starts with `XLM`), empty, or name XLM, another asset or both; one policy allows
its function only under a spelling with blanks around it.  In `zk_evaluation` amounts,
thresholds and confidences lie at, below and above each limit.  In `zk_session` two
sessions are enough to race for one nullifier, and a third would change nothing the
other two do.  `Starts`, `Contracts` and `Files` say who is in use and with what: the
two contending sessions, one whose settings move between two guardrails and a contract
that is none, and the two that may not send are explored in separate behaviours, because
sessions meet only in the storage of a contract and in the ledger of their source account.
In `session` four lines nest two chains and let each branch of a chain be
taken, skipped or empty at both levels; four blocks are a request, a payment, a change
of settings and a second payment.

Deadlock is checked in the runs of the x402 modules and of `zk_session`.  A plan that was
judged everywhere (`gates`), a proof that was published (`zk_evaluation`) and a program
that ended (`session`) really stop.

Fairness (`gateway_live`).  A blocking call of the facilitator client ends with an
answer or a time-out (`X402FacilitatorConfig::validate` bounds the time-out), so
`FacilitatorFails` and `SettleUncertain` are weakly fair; a task that holds the
mutex goes on (`RecordVerified`, `Dispatch`); a stopped server is started again.
No answer of the facilitator is fair, nor is the absence of crashes.  The run takes
a working file system: with a file system that always fails no settlement can be
recorded as ended.

## 4. Proofs

`X402StateProofs` proves what each transition does to the shape of the state, to
the set of used challenges and to the id counter.  `X402FileStoreProofs` proves, for
every number of challenges and every set of payments, hashes and clock readings and
under the assumption `RestoreMayFail = FALSE`:

* `TypesCorrect`, `MemoryIsAlwaysStored`, `ReplayProtectionHolds`: the invariants
  and the action property of the run `file_store`;
* `FileStoreIsAtomic`: `Spec => ImplementsAtomicStore`.

`MemoryIsStored` is not inductive: it says nothing while `persist()` runs.  `Inv`
adds what holds at each file system call: where the stored state is (`FilesInv`),
that memory is the result of one operation on the stored state (`ComesFrom`), that
`saved` is the stored state, and that no backup outlives the file it backs up
(`Whole`).  The proof has one step per action; every error return is one lemma
(`AbortInv`).  For the refinement, `StoredStep` shows that only the rename of the
temporary file changes what a restart reads, `ReplaceRefines` maps that rename to
`StoreWrite` or `StoreRecover`, and every other step maps to a start, a crash or a
stutter.

The assumption is needed: the run `file_store_restore_fails` is the counterexample.

`X402GatewayProofs` proves `SingleDispatch`, `ExecutedStaysBlocked`,
`SettledWasExecuted`, `RecordedWhileOpen` and `GrantedOnce` of `X402Gateway`, for
every number of challenges, requests, settlement calls and payments and for every
mix of verifier modes, without a further assumption (`GatewayTypes` is its type
invariant).  None of them is inductive.  `Inv` adds

* `ProcessInv`: a serving process has in memory what a restart would read, and a
  process that does not serve has nothing in progress;
* `JobInv`: at most one settlement call is busy (the mutex), the stored record of its
  challenge is in progress and bound to its payment, and before its dispatch nothing
  was sent;
* `DispatchInv`: a challenge without a started attempt had no request sent, and what
  is in flight or was decided belongs to the payment the record is bound to;
* `OutcomeInv`: `rejected` and `settled` agree with what the facilitator did, and
  `executed` counts it;
* `AcceptInv`, `GrantInv`: what a request in progress carries, and that two requests
  never hold the same granted challenge.

It is `JobInv` with `DispatchInv` that makes one attempt per challenge true: a call
starts only from `verified_pending_settlement`, which implies that nothing was sent,
and the record leaves that state in the step that starts the call.  The proof has a
lemma per action; `RecordEffect`, `BeginEffect`, `CompleteEffect` and `RecoverEffect`
of `X402StateProofs` say what a transition does to the records.  `RecordedWhileOpen` and
`SettlementRecordsAdvance` are action properties of the same invariant (`StepAdvances`): the
only step that makes a record is `RecordVerified`, which inspects the challenge again at the
time the facilitator has answered.

Three more results have the hypothesis `OneMode`, that the verifier mode is the same at
every start: `LoadInvariant`, `RestartsFindALoadableStore` (`StoreAlwaysLoads`) and
`GatewayFollowsLifecycle` (`Spec => ImplementsLifecycle`).  The run `gateway_mode_switch`
is the counterexample without it.  `LoadInv` adds to `Inv` that the stored state keeps the
rules of `validate_loaded_state` (`Sound`) and that payments are recorded under the
facilitator only (`VerifierInv`): the mock verifier, which finalizes a challenge without
looking for a record, never runs beside one.  For the refinement
every step is shown to move the phase of at most one challenge, by one arrow of the life cycle (`StepMoves`, `Moved`, `Recorded`); `RecoverInProgress` moves several at once
and maps to `Restart` of the abstract specification.  What of the life cycle is left when
the mode does change needs `Inv` only and is `SettlementRecordsAdvance`, an action property:
a record stays bound to its payment, goes from verified to in progress to its end and never
back, and an end is final with its transaction hash.

`AttemptsHaveOwners` is the safety half of the liveness property `StartedSettlementEnds`, which
stays with TLC.  Its hypothesis `~StoreMayFail` is that of the run that checks the liveness: a
call whose last write fails leaves its attempt in progress, and only the next start ends it.
`OwnerInv` adds to `Inv` that settlements are on record for known challenges only
(`KnownRecords`), which is why none of the refusals of `complete_settlement` can meet a call in
progress (`CompletionEnds`).

`ZkSessionProofs` proves, for every set of sessions, artifacts, contracts and policies,
`ResultBelongsToInspection`, `ReportedConsumeIsStored`, `ConsumedByOneSession`,
`TransactionsArePermitted` and the refinement `ImplementsOneTimeUse` of `ZkSession`, from
`SessionAssumption` only, which says what the constants are.  `Inv` adds to the properties the types (`Shapes`), that a command in progress works on an
artifact whose inspection succeeded and that a consume that was answered is in the
storage of its contract (`CmdInv`), and that a recorded result agrees with the session's
inspection (`ResultInv`).  What makes a consume unique is that the answer to it is given
in the step that stores the nullifier, which was not stored before (`CallEffect`); from
there on `UsesAreStored` and the growth of the storage (`ContractStep`) keep every other
session out.  `LedgerInv` says that a command in progress keeps the permission it was
started with; the gates are read at its start and the transaction is sent later.

`StellarSessionProofs` proves `NothingSentUnjudged`, `SentOnceInOrder`,
`HashesAreTraceable`, `OkWasSent`, `ChallengePaidOnce` and `EndpointsFollowNetwork` of
`StellarSession`, for every set of command lines, environments, scripts, blocks and plan
files and for any number of blocks, challenges and foreign transactions, from `SessionAssumption`
(what the constants are).  `Inv` joins

* `FlowInv`, about one plan in `execute_plan`: it was permitted when it came so far, it has
  one line for each action that is done (`PermittedInv`), a call that is answered left in
  the ledger what its answer says (`AnswerInv`), and the transactions of the plan in
  execution lie before the cursor, those of earlier plans in earlier runs (`SentInv`);
* `ContextInv`: a challenge is in the plan of a script only when it is finalized, and no
  challenge is in it twice;
* `PaidInv`, `ReplInv`: the plan in execution pays no challenge that an earlier one paid, and
  a challenge that was paid is finalized or is the one the REPL is paying (`paying`).

The REPL marks a challenge only after `execute_plan` returned; `ReplInv` holds across that
gap because nothing else starts while `paying` is set (`Ready`).

`StellarScriptProofs` proves `BranchesRunAlone` from `SessionAssumption`, for scripts of any
length and any nesting.  The property speaks of the indentation of lines, the code of a flag
that two functions hand to each other, so the invariant ties the two: the indentation grows
from the bottom of the stack (`Stacked`), `execute` of a block or chain says that every header
that is still open and indented less ran (`Reached`), and `taken` and `runs` of a chain say that
a header of it ran (`ChainRan`).  `NextLineEffect` says what one more line does to these
predicates, and `BranchInv` covers the two ways to meet a header.

`PlanGatesProofs` proves all properties of the run `gates`, for every set of prompts,
allowlists, policies and files, from `CasesAssumption`, `EnvironmentsAssumption` (a flag is
off, on or padded), `FilesAssumption` (a directory is a sequence of policies) and
`NoneAssumption`.  The invariant is `GatesInv`: of every answer it says which files were
loaded for it, which templates made its plan and which verdict its code is.  The rest
are lemmas about operators:

* a verdict with code 0 passed every check that is on, so an enforced list or policy fails
  closed (`ListsFailClosed`, `PoliciesFailClosed`), but for the XLM that the REPL lists when
  the environment has no list of assets;
* normalization is idempotent and keeps an argument within the type it was normalized to,
  so typing a plan a second time changes nothing the policy check looks at
  (`VerdictsAgreeOnApiPlans`), and never makes a valid argument invalid (`McpIsNoLaxer`);
* no template applies to a plan of `Unknown` (`LowConfidenceHolds`), and a linted template
  has every argument its function requires, unless the policy allows the function only
  under a spelling with blanks around it (`LintedTemplatesAreComplete`).

`ZkEvaluationProofs` proves all properties of the run `zk_evaluation` from
`PlansAssumption` and `PoliciesAssumption`, which say that the inputs have the types of the
code (lists of any length, any contents).  `RunInv` says that a proof is what the guest
returned for the plan and policy at hand and that an artifact is made of such a proof; the
weight lies on the operators:

* a canonical list is determined by its set, since two sorted lists without duplicates
  differ at no least index; so a plan that the shape rules accept has one writing
  (`OneHash`);
* the preimages are read back field by field, a list by its count (`HashesBind`);
* the tags of each enumeration are distinct and decoding inverts encoding, hence any
  accepted variation of a proved journal is the encoding of what was decoded
  (`OneEncoding`);
* each of the three verifiers accepts under the same condition on image, journal and seal
  (`VerifiersAgreeAlways`, `PublishedArtifactHolds`).

What the proofs take from the model and not from the code: a hash is its preimage, that is
SHA-256 has no collisions, and a seal proves what its prover executed.

Only model-checked are `MutexReleased` and `StartedSettlementEnds` of the run `gateway_live`,
which are liveness under fairness and out of the prover's reach.
What a recursive definition computes for every input cannot be proved either, for want of
induction over data: the proofs use `Holds`, the value of a condition, as an arbitrary
Boolean, and no theorem says that it evaluates from the left.

## 5. Where the code and its documents differ

Three runs check a sentence of a document that the code does not keep; they are the
`findings` of `PROJECT.json`.  The models show further differences, which are written
here because they are about a message or a corner rather than about a state:

* `zk status` prints what the last recorded command found.  The guide speaks of the
  "nullifier state" (`docs/stellar_actions_guide.md:1490`); after a verification that
  follows a consume, the status says nothing of the consumed nullifier.
* The hash an attestation reports is the first new one of the source account, which may
  be a transaction of somebody else (`FinishAttest`).
* A latest hash is marked "(latest)" for an invocation and not for a deployment
  (`DeployLine`; `docs/stellar_actions_guide.md:553`), and `HashesAreTraceable` says so.
* `extract_tx_hash` (`src/bin/neurochain-stellar.rs:620`) takes any 64 hexadecimal digits of
  the output for the hash.  The output of an invocation is what the function returns, so a
  32-byte value is printed as `tx_hash` without a note, also of a function that only reads
  and sends nothing (`ReturnValue`, `OutputHashes`).
* The lint trims the allowed functions of a policy (`src/soroban_deep.rs:397`), the expansion
  (108) and the policy check (232) do not: with `" hello "` in `allowed_functions` the lint is
  silent, the template is not applied and the plan stays blocked without an intent error.
  `LintedTemplatesFit` names this exception.
* The REPL starts with the asset list `XLM` when the environment has none
  (`src/bin/neurochain-stellar.rs:4545`, `README.md:313`); scripts, plan files, the API and
  MCP start with an empty one.  Under enforcement an XLM payment passes in the REPL and
  nowhere else (`PromptSettings`, `PassedPlansStayInLists`).
* A payment of an asset that names nobody to pay takes the issuer as its recipient
  (`docs/stellar_actions_guide.md:368`).
* An allowlist of `XLM` also lets an issued asset with the code `XLM` pass
  (`README.md:195`).
* MCP applies no typed templates, so a slot type error is its exit code 4 or another, not 5
  (`docs/mcp_v0_tool_contract.md:524`), and an enforcement flag with blanks around it is on
  for MCP and the command line program and off for the API's policies
  (`docs/mcp_v0_tool_contract.md:75`); `ApiPlansPassEverywhere` leaves that flag out.
* `wallet generate k` and `wallet bootstrap k` set the source account, because the
  directive `wallet` is tried before them, and `x402 request` is an invalid value of
  `x402` (`Takers`).
* `x402.finalize` in the REPL marks the challenge when `execute_plan` returns 0, which it
  also does when the flow is off, when the payment was not confirmed and when it failed:
  a challenge is paid at most once (`ChallengePaidOnce`), and may be closed unpaid.
* A blank `NC_STELLAR_HORIZON_URL` is used as it is until the network is set
  (`EndpointsFollowNetwork`).
* A variable set in the REPL is never read.

## 6. Plan

1. The payments of a session as an abstract specification, a challenge that is open, being
   paid or closed, that `StellarSession` implements, with its proof.
2. `AttemptsHaveOwners` for a store that fails: an attempt without a job is one whose last
   write failed, which needs a history variable for failed writes.

## 7. Not modelled

* The parsers of `.nc` action arguments and of TXREP files: text in, action out, no state.
* The classifier behind a prompt, any label with any confidence in the models, and ONNX
  inference.
* Allowlists and flags in a request of the API; the inference semaphore of `/analyze`, whose
  permit is an owned value that is dropped on every path.
* The framing and the fixture of the MCP server; the transport of the facilitator client
  beyond what its answers and errors lead to.
* The DSL interpreter (`src/lexer`, `src/parser`, `src/interpreter`): a sequential evaluator
  that takes no part in plans, payments or proofs.
* Formatting of replies, help, logs and audit lines; the demo server and the TXREP
  converters, which keep no state.
* Two processes on one store file, which the documentation declares unsupported; loss of
  data by the operating system after a completed file system call.
* The end of the standard input of the REPL, which the code reads as an endless row of empty
  blocks; life times of Soroban storage entries.
