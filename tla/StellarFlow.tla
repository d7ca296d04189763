----------------------------- MODULE StellarFlow -----------------------------
(***************************************************************************)
(* execute_plan (neurochain-stellar.rs): the guards judge a plan, and with *)
(* the flow on it is simulated, previewed, confirmed and submitted.  The   *)
(* actions of a plan are submitted one after the other through the stellar *)
(* CLI; every call may fail before or after its transaction has reached    *)
(* the ledger, and other holders of the same source account submit         *)
(* transactions meanwhile.  A session executes several plans.              *)
(*                                                                         *)
(* An action is [kind, ready, challenge]: ready is FALSE when the program  *)
(* refuses it before it calls anything (an amount it cannot parse, an      *)
(* asset without an issuer, a wasm file that does not exist, no source     *)
(* account), challenge is the x402 challenge it pays, or 0.                *)
(***************************************************************************)
EXTENDS Integers, Sequences, SequencesExt, FiniteSets

CONSTANTS
  MaxOthers   \* bound on the transactions of others

VARIABLES
  plan,      \* the plan
  run,       \* its number in the session
  prompted,  \* whether a prompt had a part in it (intent_mode)
  pc,        \* idle, judged, previewed, submitting, answering or done
  cursor,    \* the action that is submitted
  answer,    \* what the CLI answered for it: ok, and the hash found in its output
  ledger,    \* the transactions of the source account
  outputs,   \* what submit_plan prints of each action
  exit       \* the code execute_plan returns

flowVars == <<plan, run, prompted, pc, cursor, answer, ledger, outputs, exit>>

Classic == {"create", "trust", "payment"}
Contract == {"invoke", "deploy"}
Reads == {"balance", "fund", "status"}
Kinds == Classic \union Contract \union Reads \union {"unknown"}

\* A transaction is known by the action it is of; what a line has for a hash.
Tx(r, i, c) == [run |-> r, action |-> i, challenge |-> c]
Foreign == Tx(0, 1, 0)
NoHash == Tx(0, 0, 0)
Own == Tx(run, cursor, plan[cursor].challenge)

\* 64 hexadecimal digits that are the hash of no transaction.
ReturnValue == Tx(0, 2, 0)

\* extract_tx_hash takes any run of 64 hexadecimal digits of the output for the
\* hash: the output of an invocation is what the function returns, also when it
\* only reads.
OutputHashes(sent) ==
  {NoHash} \union (IF sent THEN {Own} ELSE {})
           \union (IF plan[cursor].kind \in Contract THEN {ReturnValue} ELSE {})

NoAnswer == [ok |-> FALSE, hash |-> NoHash]

Others == Cardinality({i \in DOMAIN ledger : ledger[i] = Foreign})

FlowInit ==
  /\ plan = <<>>
  /\ run = 0
  /\ prompted = FALSE
  /\ pc = "idle"
  /\ cursor = 1
  /\ answer = NoAnswer
  /\ ledger = <<>>
  /\ outputs = <<>>
  /\ exit = 0

\* has_intent_blocking_issue
Unclear(actions) == \E i \in DOMAIN actions : actions[i].kind = "unknown"

\* Mutant: the intent safety guard looks at the first action only.
VerdictOfFirst(code, actions, asked, flow) ==
  IF code = 0 /\ flow /\ asked /\ Unclear(SubSeq(actions, 1, 1)) THEN 5 ELSE code

\* What execute_plan answers before the flow: the code of an enforced guard, or
\* of the intent safety guard, which only looks at a plan that goes on.
Verdict(code, actions, asked, flow) ==
  IF code = 0 /\ flow /\ asked /\ Unclear(actions) THEN 5 ELSE code

\* The source account is looked up when an action is submitted.
WithSource(actions, source) ==
  [i \in DOMAIN actions |->
     [actions[i] EXCEPT !.ready = @ /\ (source \/ actions[i].kind \in Reads)]]

\* execute_plan up to the preview; codes are those the guards may answer.
Execute(actions, asked, codes, flow, source) ==
  /\ plan' = WithSource(actions, source)
  /\ run' = run + 1
  /\ prompted' = asked
  /\ \E code \in codes : exit' = Verdict(code, actions, asked, flow)
  /\ pc' = IF flow /\ exit' = 0 THEN "judged" ELSE "done"
  /\ cursor' = 1
  /\ answer' = NoAnswer
  /\ outputs' = <<>>
  /\ UNCHANGED ledger

\* simulate_plan: nothing it runs sends a transaction (--send no, --build-only),
\* and what fails only becomes a warning of the preview.
Simulate ==
  /\ pc = "judged"
  /\ pc' = "previewed"
  /\ UNCHANGED <<plan, run, prompted, cursor, answer, ledger, outputs, exit>>

\* confirm_submit: --yes, or an answer at the prompt; a refusal ends the flow
\* with exit code 0 as well.
Confirm ==
  /\ pc = "previewed"
  /\ \/ pc' = "submitting"
     \/ pc' = "done"
  /\ UNCHANGED <<plan, run, prompted, cursor, answer, ledger, outputs, exit>>

Line(status, hash, marked) ==
  [action |-> cursor, status |-> status, hash |-> hash, marked |-> marked]

NextAction(line) ==
  /\ outputs' = Append(outputs, line)
  /\ cursor' = cursor + 1
  /\ pc' = "submitting"

\* An action that is refused without a call, or has no submission.
Skip ==
  /\ pc = "submitting" /\ cursor \in DOMAIN plan
  /\ plan[cursor].kind = "unknown" \/ ~plan[cursor].ready
  /\ NextAction(Line("error", NoHash, FALSE))
  /\ UNCHANGED <<plan, run, prompted, answer, ledger, exit>>

\* Balances, friendbot and transaction status: no transaction of the source.
Read ==
  /\ pc = "submitting" /\ cursor \in DOMAIN plan
  /\ plan[cursor].kind \in Reads /\ plan[cursor].ready
  /\ \E status \in {"ok", "error"} : NextAction(Line(status, NoHash, FALSE))
  /\ UNCHANGED <<plan, run, prompted, answer, ledger, exit>>

\* Mutant: a call that failed is made again.
CallRetries ==
  /\ pc = "submitting" /\ cursor \in DOMAIN plan
  /\ plan[cursor].kind \in Classic \union Contract /\ plan[cursor].ready
  /\ \E sent, again, ok \in BOOLEAN : \E hash \in OutputHashes(again) :
       /\ ok => again
       /\ ledger' = ledger \o (IF sent THEN <<Own>> ELSE <<>>)
                           \o (IF again THEN <<Own>> ELSE <<>>)
       /\ answer' = [ok |-> ok, hash |-> IF ok THEN hash ELSE NoHash]
  /\ pc' = "answering"
  /\ UNCHANGED <<plan, run, prompted, cursor, outputs, exit>>

\* stellar_tx_new, soroban_cli_invoke and soroban_cli_deploy: the CLI runs once.
\* When it fails the transaction may be in the ledger all the same; when it
\* succeeds it is, but for a call of a function that only reads, which the CLI
\* answers from its simulation.  A deployment, which uploads the code before it
\* creates the contract, counts as one transaction.
Call ==
  /\ pc = "submitting" /\ cursor \in DOMAIN plan
  /\ plan[cursor].kind \in Classic \union Contract /\ plan[cursor].ready
  /\ \E sent, ok \in BOOLEAN : \E hash \in OutputHashes(sent) :
       /\ ok => sent \/ plan[cursor].kind = "invoke"
       /\ ledger' = IF sent THEN Append(ledger, Own) ELSE ledger
       /\ answer' = [ok |-> ok, hash |-> IF ok THEN hash ELSE NoHash]
  /\ pc' = "answering"
  /\ UNCHANGED <<plan, run, prompted, cursor, outputs, exit>>

\* fetch_latest_tx_hash: the latest transaction of the source account, if the
\* account has a key and Horizon answers.
Latest == {NoHash} \union (IF ledger = <<>> THEN {} ELSE {Last(ledger)})

Error == Line("error", NoHash, FALSE)

\* What a call that succeeded prints: the hash in the output or, without one,
\*   - of a classic transaction, the hash computed from the output, or none;
ClassicLine == Line("ok", answer.hash, FALSE)

\* Mutant: the latest hash has no note.
InvokeLineNoNote(latest) ==
  Line("ok", IF answer.hash # NoHash THEN answer.hash ELSE latest, FALSE)

\*   - of an invocation, the latest hash with a note;
InvokeLine(latest) ==
  IF answer.hash # NoHash THEN Line("ok", answer.hash, FALSE)
  ELSE Line("ok", latest, latest # NoHash)

\*   - of a deployment, the latest hash.
DeployLine(latest) ==
  Line("ok", IF answer.hash # NoHash THEN answer.hash ELSE latest, FALSE)

\* Mutant: the status of the CLI is not looked at.
ReportIgnoresStatus ==
  /\ pc = "answering"
  /\ NextAction(ClassicLine)
  /\ answer' = NoAnswer
  /\ UNCHANGED <<plan, run, prompted, ledger, exit>>

\* The line of a submitted action.
Report ==
  /\ pc = "answering"
  /\ \/ ~answer.ok /\ NextAction(Error)
     \/ answer.ok /\ plan[cursor].kind \in Classic /\ NextAction(ClassicLine)
     \/ /\ answer.ok /\ plan[cursor].kind = "invoke"
        /\ \E latest \in Latest : NextAction(InvokeLine(latest))
     \/ /\ answer.ok /\ plan[cursor].kind = "deploy"
        /\ \E latest \in Latest : NextAction(DeployLine(latest))
  /\ answer' = NoAnswer
  /\ UNCHANGED <<plan, run, prompted, ledger, exit>>

Finish ==
  /\ pc = "submitting" /\ cursor \notin DOMAIN plan
  /\ pc' = "done"
  /\ UNCHANGED <<plan, run, prompted, cursor, answer, ledger, outputs, exit>>

\* Another holder of the source account submits a transaction.
Other ==
  /\ Others < MaxOthers /\ pc \in {"submitting", "answering"}
  /\ ledger' = Append(ledger, Foreign)
  /\ UNCHANGED <<plan, run, prompted, pc, cursor, answer, outputs, exit>>

FlowNext ==
  \/ Simulate \/ Confirm \/ Skip \/ Read \/ Call \/ Report \/ Finish
  \/ Other
-----------------------------------------------------------------------------
\* The transactions of the session in the ledger.
Sent == {i \in DOMAIN ledger : ledger[i] # Foreign}

\* A plan that a guard blocks, that has a part nobody understood after a prompt,
\* or that is not confirmed sends nothing, and neither does a preview.  Code: the
\* order of guards, simulate_plan and confirm_submit in execute_plan.
NothingSentUnjudged ==
  (\E i \in Sent : ledger[i].run = run) =>
    /\ exit = 0 /\ pc \in {"submitting", "answering", "done"}
    /\ ~(prompted /\ Unclear(plan))

\* Every action of every plan is sent at most once and in the order of the plans
\* and their actions, also when calls fail after their transaction was sent.
\* Code: submit_plan never repeats a call.
SentOnceInOrder ==
  \A i, j \in Sent : i < j =>
    \/ ledger[i].run < ledger[j].run
    \/ ledger[i].run = ledger[j].run /\ ledger[i].action < ledger[j].action

\* A hash that is printed is that of the transaction of its action, which is in
\* the ledger, or the latest of the ledger, whoever sent it, and then it has the
\* note or is that of a deployment.  Only what is printed for a contract may be
\* no transaction at all: the value a function returned, without a note.
\* Code: submit_plan with extract_tx_hash (neurochain-stellar.rs:1398, 1434).
HashesAreTraceable ==
  \A i \in DOMAIN outputs : outputs[i].hash # NoHash =>
    LET own == Tx(run, i, plan[i].challenge)
    IN  \/ outputs[i].hash = ReturnValue /\ plan[i].kind \in Contract /\ ~outputs[i].marked
        \/ /\ outputs[i].hash \in ToSet(ledger)
           /\ outputs[i].hash = own \/ outputs[i].marked \/ plan[i].kind = "deploy"

\* A line that says ok, but for a call of a contract function, is about a
\* transaction in the ledger.  Code: the Ok and Err branches of submit_plan.
OkWasSent ==
  \A i \in DOMAIN outputs :
    outputs[i].status = "ok" /\ plan[i].kind \in Classic \union {"deploy"}
      => Tx(run, i, plan[i].challenge) \in ToSet(ledger)
===============================================================================
