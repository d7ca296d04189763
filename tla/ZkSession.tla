------------------------------- MODULE ZkSession -------------------------------
(***************************************************************************)
(* The ZK commands of the REPL (src/bin/neurochain-stellar.rs) against     *)
(* deployed guardrail contracts, with everything that happens between two  *)
(* steps of a command: other sessions, the policy owner, and transactions  *)
(* of the same source account from elsewhere.                              *)
(*                                                                         *)
(* A command resolves its artifact, calls the contract through the Stellar *)
(* CLI, compares the answer with the local inspection and only then        *)
(* records it; zk.stellar.attest reads the latest transaction of the       *)
(* source account before and after, zk.stellar.consume asks for the        *)
(* nullifier once more.  The reply of a call may be lost after the         *)
(* transaction was applied.  A contract id may be set to a contract that   *)
(* is no guardrail, which answers anything.                                *)
(***************************************************************************)
EXTENDS ZkContract, FiniteSets

CONSTANTS
  Sessions,
  Artifacts,    \* names of proof artifacts
  Artifact,     \* the artifact of a name
  Bundled,      \* the artifacts of zk.demo
  Deployments,  \* contract ids, each on its network
  Testnet,      \* the deployments on the network "testnet"
  Guardrail,    \* any one deployment: the one ImplementsOneTimeUse is about
  Foreign,      \* contracts that are no guardrail
  Policies,     \* commitments with their versions
  Source,       \* the source account of each session
  Contracts,    \* the deployments the user of each session configures
  Files,        \* the artifacts the user of each session works with
  Starts,       \* the deployments the settings may name first
  Flow,         \* sessions started with --flow
  Remote,       \* sessions started in remote mode
  MaxTx,        \* bound: transactions on the testnet ledger
  None
ASSUME SessionAssumption ==
  /\ Bundled \subseteq Artifacts /\ Guardrail \in Deployments
  /\ Testnet \subseteq Deployments /\ Foreign \subseteq Deployments
  /\ MaxTx \in Nat
  /\ \A p \in Policies : p = <<p[1], p[2]>>
  /\ None \notin Artifacts
  /\ Contracts \in [Sessions -> SUBSET Deployments]
  /\ Files \in [Sessions -> SUBSET Artifacts]
  /\ Starts \subseteq [Sessions -> Deployments]

VARIABLES
  contract,    \* [Deployments -> the storage of the contract]
  ledger,      \* transactions on testnet: the account and what they were
  deployment,  \* [Sessions -> the deployment the settings name]
  inspection,  \* [Sessions -> zk_last_inspection, by name]
  result,      \* [Sessions -> zk_last_stellar_result]
  cmd          \* [Sessions -> the command in progress]

vars == <<contract, ledger, deployment, inspection, result, cmd>>

Inspections == [a \in Artifacts |-> Inspect(Artifact[a])]
Local(a) == Inspections[a]

Init ==
  /\ contract = [d \in Deployments |-> Deployed]
  /\ ledger = <<[account |-> "friendbot", call |-> "create", session |-> None]>>
  /\ deployment \in Starts
  /\ inspection = [s \in Sessions |-> None]
  /\ result = [s \in Sessions |-> None]
  /\ cmd = [s \in Sessions |-> None]

\* Bound: a session is used when its settings name one of its contracts, so that
\* an instance may start with some of its sessions.
InUse(s) == deployment[s] \in Contracts[s]

Busy(s) == cmd[s] # None
Idle(s) == InUse(s) /\ ~Busy(s)

\* The latest transaction of an account, by its place in the ledger; every
\* account was created by a transaction.
Of(account) == {1} \cup {i \in 1 .. Len(ledger) : ledger[i].account = account}
Latest(account) == CHOOSE i \in Of(account) : \A j \in Of(account) : j <= i

------------------------------------------------------------------------------
(* Settings and local inspection *)

\* `network:` and `zk_contract:` change the settings and no result.
SetDeployment(s, d) ==
  /\ Idle(s)
  /\ deployment' = [deployment EXCEPT ![s] = d]
  /\ UNCHANGED <<contract, ledger, inspection, result, cmd>>

\* Mutant: the result of an earlier proof is kept.
InspectLocallyKeepsResult(s, a) ==
  /\ Idle(s)
  /\ a \in Bundled \/ s \notin Remote
  /\ Local(a).ok
  /\ inspection' = [inspection EXCEPT ![s] = a]
  /\ UNCHANGED <<contract, ledger, deployment, result, cmd>>

\* zk.demo, and zk.verify which reads files and is refused in remote mode.
InspectLocally(s, a) ==
  /\ Idle(s)
  /\ a \in Bundled \/ s \notin Remote
  /\ Local(a).ok
  /\ inspection' = [inspection EXCEPT ![s] = a]
  /\ result' = [result EXCEPT ![s] = None]
  /\ UNCHANGED <<contract, ledger, deployment, cmd>>

------------------------------------------------------------------------------
(* The commands on Stellar *)

\* resolve_zk_inspection: a bundled artifact, or the last one inspected.
Resolves(s, a) == Local(a).ok /\ (a \in Bundled \/ inspection[s] = a)

\* Mutant: a consume is only refused in remote mode.
PermittedWithoutFlow(s, kind) ==
  CASE kind = "verify" -> TRUE
    [] kind = "attest" -> s \in Flow /\ deployment[s] \in Testnet
    [] kind = "consume" -> s \notin Remote

Permitted(s, kind) ==
  CASE kind = "verify" -> TRUE
    [] kind = "attest" -> s \in Flow /\ deployment[s] \in Testnet
    [] kind = "consume" -> s \notin Remote /\ s \in Flow

Command(kind, a, stage, baseline, accepted) ==
  [kind |-> kind, artifact |-> a, stage |-> stage, baseline |-> baseline,
   accepted |-> accepted]

\* A command that passes its gates (and, for a consume, the confirmation)
\* resolves the artifact; attest also reads the baseline from Horizon.
Start(s, kind, a) ==
  /\ Idle(s)
  /\ Permitted(s, kind)
  /\ Resolves(s, a)
  /\ cmd' = [cmd EXCEPT ![s] =
               Command(kind, a, "call", Latest(Source[s]), None)]
  /\ UNCHANGED <<contract, ledger, deployment, inspection, result>>

\* What the contract does with the call, and what a foreign contract answers.
CallAnswer(s) ==
  LET a == Artifact[cmd[s].artifact]
      c == contract[deployment[s]]
  IN  IF cmd[s].kind = "consume"
      THEN VerifyAndConsume(c, Source[s], a.seal, a.bytes)
      ELSE Verify(c, a.seal, a.bytes)

ForeignAnswers == {AcceptedAttestation(Local(a).value) : a \in {b \in Artifacts : Local(b).ok}}

Reply(s, accepted) ==
  cmd' = [cmd EXCEPT ![s] = Command(cmd[s].kind, cmd[s].artifact, "replied",
                                    cmd[s].baseline, accepted)]

Fail(s) == cmd' = [cmd EXCEPT ![s] = None]

\* invoke_zk_guardrail_contract: the call is simulated, applied when it is sent
\* and it succeeds, and its reply arrives or does not (the CLI is stopped, the
\* output is no JSON).
Invoke(s) ==
  /\ Busy(s) /\ cmd[s].stage = "call"
  /\ LET d == deployment[s]
         sends == cmd[s].kind # "verify"
         call == CallAnswer(s)
         applied == sends /\ (d \in Foreign \/ call.answer.ok)
     IN  /\ contract' = IF d \in Foreign THEN contract
                        ELSE [contract EXCEPT ![d] = call.contract]
         /\ IF applied /\ d \in Testnet
            THEN /\ Len(ledger) < MaxTx
                 /\ ledger' = Append(ledger, [account |-> Source[s],
                                              call |-> cmd[s].kind, session |-> s])
            ELSE UNCHANGED ledger
         /\ \/ Fail(s)
            \/ d \notin Foreign /\ call.answer.ok /\ Reply(s, call.answer.value)
            \/ d \in Foreign /\ \E accepted \in ForeignAnswers : Reply(s, accepted)
  /\ UNCHANGED <<deployment, inspection, result>>

\* validate_zk_stellar_result: every binding and decision field.
Matches(a, accepted) == accepted = AcceptedAttestation(Local(a).value)

\* Mutant: every result is captured in the mode of a consume.
RecordAsConsume(s, hash) ==
  /\ result' = [result EXCEPT ![s] =
                  [kind |-> "consume", deployment |-> deployment[s],
                   accepted |-> cmd[s].accepted, hash |-> hash]]
  /\ inspection' = [inspection EXCEPT ![s] = cmd[s].artifact]
  /\ Fail(s)

Record(s, hash) ==
  /\ result' = [result EXCEPT ![s] =
                  [kind |-> cmd[s].kind, deployment |-> deployment[s],
                   accepted |-> cmd[s].accepted, hash |-> hash]]
  /\ inspection' = [inspection EXCEPT ![s] = cmd[s].artifact]
  /\ Fail(s)

Abandon(s) == Fail(s) /\ UNCHANGED <<inspection, result>>

Replied(s, kind) == Busy(s) /\ cmd[s].kind = kind /\ cmd[s].stage = "replied"

FinishVerify(s) ==
  /\ Replied(s, "verify")
  /\ IF Matches(cmd[s].artifact, cmd[s].accepted) THEN Record(s, None) ELSE Abandon(s)
  /\ UNCHANGED <<contract, ledger, deployment>>

\* wait_for_new_zk_transaction_hash: the first hash that differs from the
\* baseline, if Horizon shows one in time; Horizon may lag behind the ledger.
NewHashes(s) == {None} \cup {i \in Of(Source[s]) : i > cmd[s].baseline}

FinishAttest(s) ==
  /\ Replied(s, "attest")
  /\ IF Matches(cmd[s].artifact, cmd[s].accepted)
     THEN \E hash \in NewHashes(s) : Record(s, hash)
     ELSE Abandon(s)
  /\ UNCHANGED <<contract, ledger, deployment>>

\* query_zk_nullifier_consumed; a foreign contract answers anything.
AnswersConsumed(s) ==
  \/ deployment[s] \in Foreign
  \/ IsConsumed(contract[deployment[s]], cmd[s].accepted.audit_nullifier)

FinishConsume(s) ==
  /\ Replied(s, "consume")
  /\ \/ /\ Matches(cmd[s].artifact, cmd[s].accepted)
        /\ AnswersConsumed(s)
        /\ Record(s, None)
     \/ Abandon(s)  \* the comparison or the question fails
  /\ UNCHANGED <<contract, ledger, deployment>>

------------------------------------------------------------------------------
(* The others *)

\* Bound: the owner leaves contracts alone that no session may use.
Observed(d) == d \notin Foreign /\ \E s \in Sessions : InUse(s) /\ d \in Contracts[s]

OwnerAuthorizes(d, p) ==
  /\ Observed(d)
  /\ contract' = [contract EXCEPT ![d] =
                    AuthorizePolicy(@, Owner, p[1], p[2]).contract]
  /\ UNCHANGED <<ledger, deployment, inspection, result, cmd>>

OwnerRevokes(d, p) ==
  /\ Observed(d)
  /\ contract' = [contract EXCEPT ![d] = RevokePolicy(@, Owner, p[1], p[2]).contract]
  /\ UNCHANGED <<ledger, deployment, inspection, result, cmd>>

\* The source account of a session pays for something else.
OtherTransaction(s) ==
  /\ InUse(s) /\ Len(ledger) < MaxTx
  /\ ledger' = Append(ledger, [account |-> Source[s], call |-> "other", session |-> None])
  /\ UNCHANGED <<contract, deployment, inspection, result, cmd>>

Next ==
  \/ \E s \in Sessions :
       \/ \E d \in Contracts[s] : SetDeployment(s, d)
       \/ \E a \in Files[s] :
            \/ InspectLocally(s, a)
            \/ \E kind \in {"verify", "attest", "consume"} : Start(s, kind, a)
       \/ Invoke(s)
       \/ FinishVerify(s)
       \/ FinishAttest(s)
       \/ FinishConsume(s)
       \/ OtherTransaction(s)
  \/ \E d \in Deployments, p \in Policies : OwnerAuthorizes(d, p) \/ OwnerRevokes(d, p)

Spec == Init /\ [][Next]_vars

------------------------------------------------------------------------------
(* Properties *)

AcceptedOf(a) == AcceptedAttestation(Local(a).value)

Results == {"verify", "attest", "consume"}

\* What the status shows as verified on Stellar is the proof that was inspected
\* last, field by field, whatever was inspected, verified or lost in between,
\* and whatever the configured contract answered.
ResultBelongsToInspection ==
  \A s \in Sessions :
    result[s] # None => /\ inspection[s] # None
                        /\ result[s].accepted = AcceptedOf(inspection[s])

\* A consume the status reports is in the storage of the guardrail it names,
\* also after the settings moved on to another contract.
ReportedConsumeIsStored ==
  \A s \in Sessions :
    (/\ result[s] # None
     /\ result[s].kind = "consume"
     /\ result[s].deployment \notin Foreign)
    => IsConsumed(contract[result[s].deployment], result[s].accepted.audit_nullifier)

\* Two sessions never both report, or are about to report, the consume of one
\* evaluation on one guardrail, though a read-only verification of it succeeds
\* for everybody before and after.
AnsweredUse(s) ==
  IF cmd[s] # None /\ cmd[s].kind = "consume" /\ cmd[s].stage = "replied"
  THEN {<<deployment[s], cmd[s].accepted.audit_nullifier>>} ELSE {}

ReportedUse(s) ==
  IF result[s] # None /\ result[s].kind = "consume"
  THEN {<<result[s].deployment, result[s].accepted.audit_nullifier>>} ELSE {}

Uses(s) == {use \in AnsweredUse(s) \cup ReportedUse(s) : use[1] \notin Foreign}

ConsumedByOneSession ==
  \A s, t \in Sessions : s # t => Uses(s) \cap Uses(t) = {}

\* A session without --flow, or in remote mode, pays for no transaction of the
\* contract that changes its storage, and none at all without --flow.
TransactionsArePermitted ==
  \A i \in 1 .. Len(ledger) :
    /\ ledger[i].call \in {"attest", "consume"} => ledger[i].session \in Flow
    /\ ledger[i].call = "consume" => ledger[i].session \notin Remote

\* A deployed guardrail, whichever, uses an evaluation once, under an authorized policy,
\* for every interleaving of sessions and of the owner's changes.
OneTimeUse ==
  INSTANCE ZkOneTimeUse WITH
    used <- contract[Guardrail].consumed,
    policies <- contract[Guardrail].authorized,
    Evaluations <- {[nullifier |-> Local(a).value.audit_nullifier,
                     policy |-> PolicyOf(Local(a).value)] :
                      a \in {b \in Artifacts : Local(b).ok}},
    Policies <- Policies \cup {InitialPolicy},
    Initial <- InitialPolicy

ImplementsOneTimeUse == OneTimeUse!Spec
==============================================================================
