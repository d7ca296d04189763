--------------------------- MODULE ZkSessionProofs ---------------------------
(***************************************************************************)
(* Proofs about ZkSession for every set of sessions, artifacts, deployed   *)
(* contracts and policies.                                                 *)
(***************************************************************************)
EXTENDS ZkSession, TLAPS

Good == {a \in Artifacts : Local(a).ok}
Nullifier(a) == Local(a).value.audit_nullifier
Nullifiers == {Nullifier(a) : a \in Good}
Authorizable == Policies \cup {InitialPolicy}
Storage == [authorized : SUBSET Authorizable, consumed : SUBSET Nullifiers]

Shapes ==
  /\ contract \in [Deployments -> Storage]
  /\ deployment \in [Sessions -> Deployments]
  /\ inspection \in [Sessions -> Artifacts \cup {None}]
  /\ result = [s \in Sessions |-> result[s]]
  /\ cmd = [s \in Sessions |-> cmd[s]]

\* A command works on an artifact that was inspected, and the answer to a
\* consume arrives after the nullifier was stored.
CmdInv ==
  \A s \in Sessions : cmd[s] # None =>
    /\ cmd[s].kind \in Results
    /\ cmd[s].artifact \in Good
    /\ (/\ cmd[s].kind = "consume" /\ cmd[s].stage = "replied"
        /\ deployment[s] \notin Foreign)
       => cmd[s].accepted.audit_nullifier \in contract[deployment[s]].consumed

ResultInv ==
  \A s \in Sessions : result[s] # None =>
    /\ result[s].kind \in Results
    /\ result[s].deployment \in Deployments
    /\ inspection[s] # None
    /\ result[s].accepted = AcceptedOf(inspection[s])
    /\ (result[s].kind = "consume" /\ result[s].deployment \notin Foreign)
       => result[s].accepted.audit_nullifier \in contract[result[s].deployment].consumed

Inv == Shapes /\ CmdInv /\ ResultInv /\ ConsumedByOneSession

------------------------------------------------------------------------------
(* The contract *)

\* What a session inspected is what the contract decodes.
LEMMA LocalValue ==
  ASSUME NEW a \in Artifacts, Local(a).ok
  PROVE  /\ Decode(Artifact[a].bytes).ok
         /\ Local(a).value = Decode(Artifact[a].bytes).value
  BY DEF Local, Inspections, Inspect, Ok, Err

LEMMA Verified ==
  ASSUME NEW c, NEW seal, NEW bytes, Decode(bytes).ok,
         VerifyAttestation(c, seal, bytes).ok
  PROVE  /\ VerifyAttestation(c, seal, bytes).value = Decode(bytes).value
         /\ PolicyOf(Decode(bytes).value) \in c.authorized
  BY DEF VerifyAttestation, Ok, Err, PolicyAuthorized

LEMMA ConsumeEffect ==
  ASSUME NEW c, NEW caller, NEW seal, NEW bytes, Decode(bytes).ok
  PROVE  LET call == VerifyAndConsume(c, caller, seal, bytes)
             journal == Decode(bytes).value
         IN  \/ call.contract = c /\ ~call.answer.ok
             \/ /\ call.answer.ok
                /\ call.answer.value = AcceptedAttestation(journal)
                /\ journal.audit_nullifier \notin c.consumed
                /\ PolicyOf(journal) \in c.authorized
                /\ call.contract = [c EXCEPT !.consumed = @ \cup {journal.audit_nullifier}]
  <1> DEFINE checked == VerifyAttestation(c, seal, bytes)
             journal == Decode(bytes).value
             call == VerifyAndConsume(c, caller, seal, bytes)
  <1>1. CASE caller # Owner \/ ~checked.ok
    BY <1>1 DEF VerifyAndConsume, Answer, Err
  <1>2. CASE caller = Owner /\ checked.ok
    <2>1. checked.value = journal /\ PolicyOf(journal) \in c.authorized
      BY <1>2, Verified
    <2>2. CASE journal.audit_nullifier \in c.consumed
      BY <1>2, <2>1, <2>2 DEF VerifyAndConsume, NotConsumed, Answer, Err
    <2>3. CASE journal.audit_nullifier \notin c.consumed
      <3>1. call = Answer(Ok(AcceptedAttestation(journal)),
                          [c EXCEPT !.consumed = @ \cup {journal.audit_nullifier}])
        BY <1>2, <2>1, <2>3 DEF VerifyAndConsume, NotConsumed
      <3>2. QED
        BY <2>1, <2>3, <3>1 DEF Answer, Ok
    <2>4. QED
      BY <2>2, <2>3
  <1>3. QED
    BY <1>1, <1>2

\* A call stores nothing, or it is a consume that answers with its artifact's
\* journal, finds the nullifier unused and the policy authorized, and adds
\* the nullifier.
Stores(c, a, next) ==
  /\ Nullifier(a) \notin c.consumed
  /\ PolicyOf(Local(a).value) \in c.authorized
  /\ next = [c EXCEPT !.consumed = @ \cup {Nullifier(a)}]

LEMMA CallEffect ==
  ASSUME CmdInv, NEW s \in Sessions, cmd[s] # None
  PROVE  /\ CallAnswer(s).answer.ok =>
              CallAnswer(s).answer.value = AcceptedOf(cmd[s].artifact)
         /\ \/ /\ CallAnswer(s).contract = contract[deployment[s]]
               /\ cmd[s].kind = "consume" => ~CallAnswer(s).answer.ok
            \/ /\ cmd[s].kind = "consume"
               /\ CallAnswer(s).answer.ok
               /\ Stores(contract[deployment[s]], cmd[s].artifact,
                         CallAnswer(s).contract)
  <1> DEFINE bytes == Artifact[cmd[s].artifact].bytes
             seal == Artifact[cmd[s].artifact].seal
             c == contract[deployment[s]]
  <1>1. cmd[s].artifact \in Artifacts /\ Local(cmd[s].artifact).ok
    BY DEF CmdInv, Good
  <1>2. Decode(bytes).ok /\ Local(cmd[s].artifact).value = Decode(bytes).value
    BY <1>1, LocalValue
  <1>3. CASE cmd[s].kind = "consume"
    <2>1. CallAnswer(s) = VerifyAndConsume(c, Source[s], seal, bytes)
      BY <1>3 DEF CallAnswer
    <2> HIDE DEF bytes, seal, c
    <2>2. QED
      BY <1>2, <1>3, <2>1, ConsumeEffect DEF Stores, Nullifier, AcceptedOf, c
  <1>4. CASE cmd[s].kind # "consume"
    <2>1. CallAnswer(s) = Verify(c, seal, bytes)
      BY <1>4 DEF CallAnswer
    <2> HIDE DEF bytes, seal, c
    <2>2. Verify(c, seal, bytes).contract = c
      BY DEF Verify, Answer
    <2>3. Verify(c, seal, bytes).answer.ok =>
            Verify(c, seal, bytes).answer.value = AcceptedAttestation(Decode(bytes).value)
      BY <1>2, Verified DEF Verify, Answer, Ok, Err
    <2>4. QED
      BY <1>2, <1>4, <2>1, <2>2, <2>3 DEF AcceptedOf, c
  <1>5. QED
    BY <1>3, <1>4

------------------------------------------------------------------------------
(* The invariant *)

\* The initial state of a contract is of the right shape.
LEMMA InitInv == Init => Inv
  <1> SUFFICES ASSUME Init PROVE Inv
    OBVIOUS
  <1>1. Deployed \in Storage
    BY DEF Deployed, Storage, Authorizable
  <1>2. Shapes
    BY <1>1, SessionAssumption DEF Init, Shapes
  <1>3. CmdInv /\ ResultInv
    BY DEF Init, CmdInv, ResultInv
  <1>4. ConsumedByOneSession
    BY DEF Init, ConsumedByOneSession, Uses, AnsweredUse, ReportedUse
  <1>5. QED
    BY <1>2, <1>3, <1>4 DEF Inv

\* Every use a session answered or reported is stored.
LEMMA UsesAreStored ==
  ASSUME Inv, NEW s \in Sessions, NEW use \in Uses(s)
  PROVE  use[2] \in contract[use[1]].consumed
  BY DEF Inv, CmdInv, ResultInv, Uses, AnsweredUse, ReportedUse

\* A step that only takes uses away from sessions keeps them disjoint.
LEMMA FewerUses ==
  ASSUME ConsumedByOneSession, \A s \in Sessions : Uses(s)' \subseteq Uses(s)
  PROVE  ConsumedByOneSession'
  BY DEF ConsumedByOneSession

\* Steps of the contracts keep what sessions were told.
Grows(d) == contract[d].consumed \subseteq contract'[d].consumed

LEMMA ContractStep ==
  ASSUME Inv, contract' \in [Deployments -> Storage],
         \A d \in Deployments : Grows(d),
         UNCHANGED <<deployment, inspection, result, cmd>>
  PROVE  Inv'
  <1>1. Shapes'
    BY DEF Inv, Shapes
  <1>2. CmdInv'
    BY DEF Inv, Shapes, CmdInv, Grows
  <1>3. ResultInv'
    BY DEF Inv, Shapes, ResultInv, Grows
  <1>4. ConsumedByOneSession'
    <2>1. \A s \in Sessions : Uses(s)' = Uses(s)
      BY DEF Uses, AnsweredUse, ReportedUse
    <2>2. QED
      BY <2>1, FewerUses DEF Inv
  <1>5. QED
    BY <1>1, <1>2, <1>3, <1>4 DEF Inv

LEMMA OwnerInv ==
  ASSUME Inv, NEW d \in Deployments, NEW p \in Policies,
         OwnerAuthorizes(d, p) \/ OwnerRevokes(d, p)
  PROVE  Inv' /\ contract'[Guardrail].consumed = contract[Guardrail].consumed
  <1> USE SessionAssumption
  <1>1. contract[d] \in Storage
    BY DEF Inv, Shapes
  <1>2. PICK next \in Storage :
          /\ contract' = [contract EXCEPT ![d] = next]
          /\ next.consumed = contract[d].consumed
    <2>1. CASE OwnerAuthorizes(d, p)
      <3>1. PICK more \in SUBSET Authorizable :
              contract' = [contract EXCEPT ![d] = [contract[d] EXCEPT !.authorized = more]]
        <4>1. CASE p[2] = 0
          <5>1. contract' = [contract EXCEPT ![d] = contract[d]]
            BY <2>1, <4>1 DEF OwnerAuthorizes, AuthorizePolicy, Answer
          <5>2. contract[d] = [contract[d] EXCEPT !.authorized = contract[d].authorized]
            BY <1>1 DEF Storage
          <5>3. QED
            BY <1>1, <5>1, <5>2 DEF Storage
        <4>2. CASE p[2] # 0
          <5>1. contract[d].authorized \cup {<<p[1], p[2]>>} \in SUBSET Authorizable
            BY <1>1 DEF Storage, Authorizable
          <5>2. QED
            BY <2>1, <4>2, <5>1 DEF OwnerAuthorizes, AuthorizePolicy, Answer
        <4>3. QED
          BY <4>1, <4>2
      <3>2. [contract[d] EXCEPT !.authorized = more] \in Storage
        BY <1>1, <3>1 DEF Storage
      <3>3. [contract[d] EXCEPT !.authorized = more].consumed = contract[d].consumed
        BY <1>1 DEF Storage
      <3>4. QED
        BY <3>1, <3>2, <3>3
    <2>2. CASE OwnerRevokes(d, p)
      <3>1. contract' = [contract EXCEPT ![d] =
               [contract[d] EXCEPT !.authorized = contract[d].authorized \ {<<p[1], p[2]>>}]]
        BY <2>2 DEF OwnerRevokes, RevokePolicy, Answer
      <3>2. [contract[d] EXCEPT !.authorized = contract[d].authorized \ {<<p[1], p[2]>>}]
              \in Storage
        BY <1>1 DEF Storage
      <3>3. QED
        BY <1>1, <3>1, <3>2 DEF Storage
    <2>3. QED
      BY <2>1, <2>2
  <1>3. contract' \in [Deployments -> Storage]
    BY <1>2 DEF Inv, Shapes
  <1>4. \A e \in Deployments : contract'[e].consumed = contract[e].consumed
    BY <1>2 DEF Inv, Shapes
  <1>5. UNCHANGED <<deployment, inspection, result, cmd>>
    BY DEF OwnerAuthorizes, OwnerRevokes
  <1>6. QED
    BY <1>3, <1>4, <1>5, ContractStep DEF Grows

\* Steps of one session that leave the contracts alone.
SessionStep(s) ==
  /\ UNCHANGED contract
  /\ Shapes'
  /\ \A t \in Sessions \ {s} :
       /\ deployment'[t] = deployment[t]
       /\ inspection'[t] = inspection[t]
       /\ result'[t] = result[t]
       /\ cmd'[t] = cmd[t]

LEMMA SessionStepInv ==
  ASSUME Inv, NEW s \in Sessions, SessionStep(s), Uses(s)' \subseteq Uses(s),
         cmd'[s] # None =>
           /\ cmd'[s].kind \in Results
           /\ cmd'[s].artifact \in Good
           /\ cmd'[s].stage = "call",
         result'[s] # None =>
           \/ /\ result'[s] = result[s] /\ inspection'[s] = inspection[s]
           \/ /\ result'[s].kind \in Results
              /\ result'[s].deployment \in Deployments
              /\ inspection'[s] # None
              /\ result'[s].accepted = AcceptedOf(inspection'[s])
              /\ (result'[s].kind = "consume" /\ result'[s].deployment \notin Foreign)
                 => result'[s].accepted.audit_nullifier
                      \in contract[result'[s].deployment].consumed
  PROVE  Inv'
  <1>1. CmdInv'
    BY DEF Inv, CmdInv, SessionStep
  <1>2. ResultInv'
    <2> SUFFICES ASSUME NEW t \in Sessions, result'[t] # None
                 PROVE  /\ result'[t].kind \in Results
                        /\ result'[t].deployment \in Deployments
                        /\ inspection'[t] # None
                        /\ result'[t].accepted = AcceptedOf(inspection'[t])
                        /\ (result'[t].kind = "consume" /\ result'[t].deployment \notin Foreign)
                           => result'[t].accepted.audit_nullifier
                                \in contract'[result'[t].deployment].consumed
      BY DEF ResultInv, AcceptedOf, Local
    <2>1. CASE t = s
      BY <2>1 DEF Inv, ResultInv, SessionStep
    <2>2. CASE t # s
      BY <2>2 DEF Inv, ResultInv, SessionStep
    <2>3. QED
      BY <2>1, <2>2
  <1>3. ConsumedByOneSession'
    <2>1. \A t \in Sessions \ {s} : Uses(t)' = Uses(t)
      BY DEF SessionStep, Uses, AnsweredUse, ReportedUse
    <2>2. QED
      BY <2>1, FewerUses DEF Inv
  <1>4. QED
    BY <1>1, <1>2, <1>3 DEF Inv, SessionStep

LEMMA SetDeploymentInv ==
  ASSUME Inv, NEW s \in Sessions, NEW d \in Deployments, SetDeployment(s, d)
  PROVE  Inv'
  <1>1. SessionStep(s)
    BY DEF SetDeployment, SessionStep, Inv, Shapes
  <1>2. Uses(s)' \subseteq Uses(s)
    BY DEF SetDeployment, Idle, Busy, Uses, AnsweredUse, ReportedUse
  <1>3. QED
    BY <1>1, <1>2, SessionStepInv DEF SetDeployment, Idle, Busy

LEMMA InspectLocallyInv ==
  ASSUME Inv, NEW s \in Sessions, NEW a \in Artifacts, InspectLocally(s, a)
  PROVE  Inv'
  <1>1. SessionStep(s)
    BY DEF InspectLocally, SessionStep, Inv, Shapes
  <1>2. result'[s] = None /\ cmd'[s] = None
    BY DEF InspectLocally, Idle, Busy, Inv, Shapes
  <1>3. Uses(s)' \subseteq Uses(s)
    BY <1>2 DEF Uses, AnsweredUse, ReportedUse
  <1>4. QED
    BY <1>1, <1>2, <1>3, SessionStepInv

LEMMA StartInv ==
  ASSUME Inv, NEW s \in Sessions, NEW kind \in Results, NEW a \in Artifacts,
         Start(s, kind, a)
  PROVE  Inv'
  <1>1. PICK baseline : cmd' = [cmd EXCEPT ![s] = Command(kind, a, "call", baseline, None)]
    BY DEF Start
  <1>2. SessionStep(s)
    BY <1>1 DEF Start, SessionStep, Inv, Shapes
  <1>3. /\ cmd'[s].kind = kind
        /\ cmd'[s].artifact = a
        /\ cmd'[s].stage = "call"
    BY <1>1 DEF Command, Inv, Shapes
  <1>4. a \in Good
    BY DEF Start, Resolves, Good
  <1>5. Uses(s)' \subseteq Uses(s)
    BY <1>3 DEF Start, Idle, Busy, Uses, AnsweredUse, ReportedUse
  <1>6. UNCHANGED <<inspection, result>>
    BY DEF Start
  <1>7. QED
    BY <1>2, <1>3, <1>4, <1>5, <1>6, SessionStepInv

\* Failing a command takes its answered use away.
LEMMA AbandonInv ==
  ASSUME Inv, NEW s \in Sessions, Fail(s),
         UNCHANGED <<contract, deployment, inspection, result>>
  PROVE  Inv'
  <1>1. SessionStep(s)
    BY DEF Fail, SessionStep, Inv, Shapes
  <1>2. cmd'[s] = None
    BY DEF Fail, Inv, Shapes
  <1>3. Uses(s)' \subseteq Uses(s)
    BY <1>2 DEF Uses, AnsweredUse, ReportedUse
  <1>4. QED
    BY <1>1, <1>2, <1>3, SessionStepInv

\* Recording a matching answer moves its use from the command to the result.
LEMMA RecordInv ==
  ASSUME Inv, NEW s \in Sessions, NEW hash, NEW kind \in Results, Replied(s, kind),
         Matches(cmd[s].artifact, cmd[s].accepted), Record(s, hash),
         UNCHANGED <<contract, deployment>>
  PROVE  Inv'
  <1> DEFINE a == cmd[s].artifact
  <1>0. /\ cmd[s] # None /\ cmd[s].stage = "replied" /\ cmd[s].kind = kind
        /\ a \in Good /\ a \in Artifacts /\ a # None
    BY SessionAssumption DEF Inv, CmdInv, Replied, Busy, Good
  <1>1. /\ cmd'[s] = None
        /\ inspection'[s] = a
        /\ result'[s] = [kind |-> kind, deployment |-> deployment[s],
                         accepted |-> cmd[s].accepted, hash |-> hash]
    BY <1>0 DEF Record, Fail, Inv, Shapes
  <1>2. SessionStep(s)
    BY <1>0 DEF Record, Fail, SessionStep, Inv, Shapes
  <1>3. /\ result'[s].kind = kind
        /\ result'[s].deployment = deployment[s]
        /\ result'[s].accepted = cmd[s].accepted
    BY <1>1
  <1>4. deployment[s] \in Deployments
    BY DEF Inv, Shapes
  <1>5. cmd[s].accepted = AcceptedOf(a)
    BY DEF Matches, AcceptedOf
  <1>6. (kind = "consume" /\ deployment[s] \notin Foreign) =>
          cmd[s].accepted.audit_nullifier \in contract[deployment[s]].consumed
    BY <1>0 DEF Inv, CmdInv
  <1>7. Uses(s)' \subseteq Uses(s)
    <2>1. AnsweredUse(s)' = {}
      BY <1>1 DEF AnsweredUse
    <2>2. ReportedUse(s)' \subseteq AnsweredUse(s)
      BY <1>0, <1>3 DEF AnsweredUse, ReportedUse
    <2>3. QED
      BY <2>1, <2>2 DEF Uses
  <1>8. QED
    BY <1>0, <1>1, <1>2, <1>3, <1>4, <1>5, <1>6, <1>7, SessionStepInv

LEMMA FinishInv ==
  ASSUME Inv, NEW s \in Sessions, FinishVerify(s) \/ FinishAttest(s) \/ FinishConsume(s)
  PROVE  Inv' /\ UNCHANGED contract
  <1>1. CASE FinishVerify(s)
    BY <1>1, RecordInv, AbandonInv DEF FinishVerify, Abandon, Results
  <1>2. CASE FinishAttest(s)
    BY <1>2, RecordInv, AbandonInv DEF FinishAttest, Abandon, Results
  <1>3. CASE FinishConsume(s)
    BY <1>3, RecordInv, AbandonInv DEF FinishConsume, Abandon, Results
  <1>4. QED
    BY <1>1, <1>2, <1>3

LEMMA OtherTransactionInv ==
  ASSUME Inv, NEW s \in Sessions, OtherTransaction(s)
  PROVE  Inv' /\ UNCHANGED contract
  <1>1. UNCHANGED <<contract, deployment, inspection, result, cmd>>
    BY DEF OtherTransaction
  <1>2. contract' \in [Deployments -> Storage]
    BY <1>1 DEF Inv, Shapes
  <1>3. QED
    BY <1>1, <1>2, ContractStep DEF Grows

\* What a call of a session does to the contracts.
LEMMA InvokeContract ==
  ASSUME Inv, NEW s \in Sessions, Invoke(s)
  PROVE  /\ contract' \in [Deployments -> Storage]
         /\ \A d \in Deployments : Grows(d)
         /\ \/ UNCHANGED contract
            \/ /\ deployment[s] \notin Foreign
               /\ Stores(contract[deployment[s]], cmd[s].artifact, contract'[deployment[s]])
               /\ \A d \in Deployments \ {deployment[s]} : contract'[d] = contract[d]
         /\ (/\ deployment[s] \notin Foreign /\ cmd[s].kind = "consume"
             /\ CallAnswer(s).answer.ok)
            => Stores(contract[deployment[s]], cmd[s].artifact, contract'[deployment[s]])
  <1> DEFINE d == deployment[s]
             next == CallAnswer(s).contract
  <1>0. cmd[s] # None /\ d \in Deployments /\ contract[d] \in Storage
        /\ cmd[s].artifact \in Good
    BY DEF Invoke, Busy, Inv, Shapes, CmdInv
  <1>1. CASE d \in Foreign
    <2>1. UNCHANGED contract
      BY <1>1 DEF Invoke
    <2>2. QED
      BY <1>1, <2>1 DEF Inv, Shapes, Grows
  <1>2. CASE d \notin Foreign
    <2>1. contract' = [contract EXCEPT ![d] = next]
      BY <1>2 DEF Invoke
    <2>2. CASE next = contract[d] /\ (cmd[s].kind = "consume" => ~CallAnswer(s).answer.ok)
      <3>1. UNCHANGED contract
        BY <1>0, <2>1, <2>2 DEF Inv, Shapes
      <3>2. QED
        BY <2>2, <3>1 DEF Inv, Shapes, Grows
    <2>3. CASE Stores(contract[d], cmd[s].artifact, next)
      <3>1. /\ next \in Storage
            /\ contract[d].consumed \subseteq next.consumed
        BY <1>0, <2>3 DEF Stores, Storage, Nullifiers
      <3>2. contract' \in [Deployments -> Storage] /\ contract'[d] = next
            /\ \A e \in Deployments \ {d} : contract'[e] = contract[e]
        BY <1>0, <2>1, <3>1 DEF Inv, Shapes
      <3>3. \A e \in Deployments : Grows(e)
        BY <3>1, <3>2 DEF Grows
      <3>4. QED
        BY <1>2, <2>3, <3>2, <3>3
    <2>4. QED
      BY <1>0, <2>2, <2>3, CallEffect DEF Inv
  <1>3. QED
    BY <1>1, <1>2

LEMMA InvokeInv ==
  ASSUME Inv, NEW s \in Sessions, Invoke(s)
  PROVE  Inv'
  <1> DEFINE d == deployment[s]
  <1>0. /\ cmd[s] # None
        /\ contract' \in [Deployments -> Storage]
        /\ \A e \in Deployments : Grows(e)
        /\ UNCHANGED <<deployment, inspection, result>>
    BY InvokeContract DEF Invoke, Busy
  <1>1. CASE Fail(s)
    <2>1. Shapes'
      BY <1>0, <1>1 DEF Inv, Shapes, Fail
    <2>2. cmd'[s] = None /\ \A t \in Sessions \ {s} : cmd'[t] = cmd[t]
      BY <1>1 DEF Inv, Shapes, Fail
    <2>3. CmdInv'
      BY <1>0, <2>2 DEF Inv, Shapes, CmdInv, Grows
    <2>4. ResultInv'
      BY <1>0 DEF Inv, ResultInv, Grows, AcceptedOf, Local
    <2>5. \A t \in Sessions : Uses(t)' \subseteq Uses(t)
      BY <1>0, <2>2 DEF Uses, AnsweredUse, ReportedUse
    <2>6. QED
      BY <2>1, <2>3, <2>4, <2>5, FewerUses DEF Inv
  <1>2. CASE \E accepted : Reply(s, accepted)
             /\ (d \notin Foreign => CallAnswer(s).answer.ok
                                     /\ accepted = CallAnswer(s).answer.value)
    <2>1. PICK accepted : /\ Reply(s, accepted)
                          /\ d \notin Foreign => /\ CallAnswer(s).answer.ok
                                                 /\ accepted = CallAnswer(s).answer.value
      BY <1>2
    <2>2. /\ cmd'[s].kind = cmd[s].kind
          /\ cmd'[s].artifact = cmd[s].artifact
          /\ cmd'[s].stage = "replied"
          /\ cmd'[s].accepted = accepted
          /\ \A t \in Sessions \ {s} : cmd'[t] = cmd[t]
      BY <2>1 DEF Reply, Command, Inv, Shapes
    <2>3. Shapes'
      BY <1>0, <2>1 DEF Inv, Shapes, Reply
    <2>4. cmd[s].kind \in Results /\ cmd[s].artifact \in Good
      BY <1>0 DEF Inv, CmdInv
    <2>5. ASSUME cmd[s].kind = "consume", d \notin Foreign
          PROVE  /\ accepted.audit_nullifier \notin contract[d].consumed
                 /\ accepted.audit_nullifier \in contract'[d].consumed
      <3>1. Stores(contract[d], cmd[s].artifact, contract'[d])
        BY <2>1, <2>5, InvokeContract
      <3>2. accepted = AcceptedOf(cmd[s].artifact)
        BY <1>0, <2>1, <2>5, CallEffect DEF Inv
      <3>3. accepted.audit_nullifier = Nullifier(cmd[s].artifact)
        BY <3>2 DEF AcceptedOf, AcceptedAttestation, Nullifier
      <3>4. contract[d] \in Storage
        BY DEF Inv, Shapes
      <3>5. QED
        BY <3>1, <3>3, <3>4 DEF Stores, Storage
    <2>6. CmdInv'
      <3> SUFFICES ASSUME NEW t \in Sessions, cmd'[t] # None
                   PROVE  /\ cmd'[t].kind \in Results
                          /\ cmd'[t].artifact \in Good
                          /\ (/\ cmd'[t].kind = "consume" /\ cmd'[t].stage = "replied"
                              /\ deployment'[t] \notin Foreign)
                             => cmd'[t].accepted.audit_nullifier
                                  \in contract'[deployment'[t]].consumed
        BY DEF CmdInv, Good, Local
      <3>1. CASE t = s
        BY <1>0, <2>2, <2>4, <2>5, <3>1
      <3>2. CASE t # s
        BY <1>0, <2>2, <3>2 DEF Inv, Shapes, CmdInv, Grows
      <3>3. QED
        BY <3>1, <3>2
    <2>7. ResultInv'
      BY <1>0 DEF Inv, ResultInv, Grows, AcceptedOf, Local
    <2>8. ConsumedByOneSession'
      <3>1. \A t \in Sessions \ {s} : Uses(t)' = Uses(t)
        BY <1>0, <2>2 DEF Uses, AnsweredUse, ReportedUse
      <3>2. \A use \in Uses(s)' : use \in Uses(s)
               \/ (use[1] = d /\ use[2] \notin contract[d].consumed)
        BY <1>0, <2>2, <2>5 DEF Uses, AnsweredUse, ReportedUse
      <3>3. \A t \in Sessions : \A use \in Uses(t) : use[2] \in contract[use[1]].consumed
        BY UsesAreStored
      <3>4. \A t \in Sessions \ {s} : Uses(s)' \cap Uses(t)' = {}
        BY <3>1, <3>2, <3>3 DEF Inv, ConsumedByOneSession
      <3>5. QED
        BY <3>1, <3>4 DEF Inv, ConsumedByOneSession
    <2>9. QED
      BY <2>3, <2>6, <2>7, <2>8 DEF Inv
  <1>3. QED
    BY <1>1, <1>2 DEF Invoke

LEMMA NextInv == Inv /\ [Next]_vars => Inv'
  <1> SUFFICES ASSUME Inv, [Next]_vars PROVE Inv'
    OBVIOUS
  <1>1. CASE UNCHANGED vars
    <2>1. UNCHANGED <<contract, deployment, inspection, result, cmd>>
      BY <1>1 DEF vars
    <2>2. QED
      BY <2>1, ContractStep DEF Inv, Shapes, Grows
  <1>2. CASE Next
    BY <1>2, SetDeploymentInv, InspectLocallyInv, StartInv, InvokeInv, FinishInv,
       OtherTransactionInv, OwnerInv, SessionAssumption DEF Next, Results
  <1>3. QED
    BY <1>1, <1>2

------------------------------------------------------------------------------
(* The transactions the sessions pay for *)

\* Who may send a call of this kind.
MaySend(call, s) ==
  /\ call \in {"attest", "consume"} => s \in Flow
  /\ call = "consume" => s \notin Remote

Transaction ==
  {t \in [account : {"friendbot"} \cup {Source[s] : s \in Sessions},
          call : Results \cup {"create", "other"},
          session : Sessions \cup {None}] : MaySend(t.call, t.session)}

\* A command keeps the permission it was started with, and the ledger holds
\* permitted transactions only.
LedgerInv ==
  /\ ledger \in Seq(Transaction)
  /\ \A s \in Sessions : cmd[s] # None => MaySend(cmd[s].kind, s)

LEMMA LedgerInit == Init => LedgerInv
  <1> SUFFICES ASSUME Init PROVE LedgerInv
    OBVIOUS
  <1> DEFINE first == [account |-> "friendbot", call |-> "create", session |-> None]
  <1>1. first \in Transaction
    BY DEF Transaction, MaySend
  <1>2. ledger = <<first>>
    BY DEF Init
  <1> HIDE DEF first
  <1>3. ledger \in Seq(Transaction)
    BY <1>1, <1>2
  <1>4. QED
    BY <1>3 DEF Init, LedgerInv

\* The commands that go on after a step are those that were permitted.
LEMMA SameCommands ==
  ASSUME LedgerInv, UNCHANGED ledger,
         \A s \in Sessions : cmd'[s] # None =>
           \/ cmd[s] # None /\ cmd'[s].kind = cmd[s].kind
           \/ MaySend(cmd'[s].kind, s)
  PROVE  LedgerInv'
  BY DEF LedgerInv, Transaction, MaySend

LEMMA StartLedger ==
  ASSUME Inv, LedgerInv, NEW s \in Sessions, NEW kind \in Results, NEW a \in Artifacts,
         Start(s, kind, a)
  PROVE  LedgerInv'
  <1>1. MaySend(kind, s)
    BY DEF Start, Permitted, MaySend, Results
  <1>2. PICK baseline : cmd' = [cmd EXCEPT ![s] = Command(kind, a, "call", baseline, None)]
    BY DEF Start
  <1>3. cmd'[s].kind = kind /\ \A t \in Sessions \ {s} : cmd'[t] = cmd[t]
    BY <1>2 DEF Command, Inv, Shapes
  <1>4. UNCHANGED ledger
    BY DEF Start
  <1>5. QED
    BY <1>1, <1>3, <1>4, SameCommands

LEMMA InvokeLedger ==
  ASSUME Inv, LedgerInv, NEW s \in Sessions, Invoke(s)
  PROVE  LedgerInv'
  <1> DEFINE sent == [account |-> Source[s], call |-> cmd[s].kind, session |-> s]
  <1>1. cmd[s].kind \in Results /\ MaySend(cmd[s].kind, s)
    BY DEF Invoke, Busy, Inv, CmdInv, LedgerInv
  <1>2. sent \in Transaction
    BY <1>1 DEF Transaction
  <1>3. UNCHANGED ledger \/ ledger' = Append(ledger, sent)
    BY DEF Invoke
  <1> HIDE DEF sent
  <1>4. ledger' \in Seq(Transaction)
    BY <1>2, <1>3 DEF LedgerInv
  <1>5. Fail(s) \/ \E accepted : Reply(s, accepted)
    BY DEF Invoke
  <1>6. \A t \in Sessions : cmd'[t] # None => cmd[t] # None /\ cmd'[t].kind = cmd[t].kind
    <2>1. CASE Fail(s)
      BY <2>1 DEF Fail, Inv, Shapes
    <2>2. CASE \E accepted : Reply(s, accepted)
      BY <2>2 DEF Reply, Command, Invoke, Busy, Inv, Shapes
    <2>3. QED
      BY <1>5, <2>1, <2>2
  <1>7. QED
    BY <1>4, <1>6 DEF LedgerInv, Transaction, MaySend

LEMMA FinishLedger ==
  ASSUME Inv, LedgerInv, NEW s \in Sessions,
         FinishVerify(s) \/ FinishAttest(s) \/ FinishConsume(s)
  PROVE  LedgerInv'
  <1>1. UNCHANGED ledger
    BY DEF FinishVerify, FinishAttest, FinishConsume
  <1>2. Fail(s)
    BY DEF FinishVerify, FinishAttest, FinishConsume, Record, Abandon
  <1>3. QED
    BY <1>1, <1>2, SameCommands DEF Fail, Inv, Shapes

LEMMA OtherLedger ==
  ASSUME LedgerInv, NEW s \in Sessions, OtherTransaction(s)
  PROVE  LedgerInv'
  <1> DEFINE sent == [account |-> Source[s], call |-> "other", session |-> None]
  <1>1. sent \in Transaction
    BY DEF Transaction, MaySend
  <1>2. ledger' = Append(ledger, sent) /\ UNCHANGED cmd
    BY DEF OtherTransaction
  <1> HIDE DEF sent
  <1>3. ledger' \in Seq(Transaction)
    BY <1>1, <1>2 DEF LedgerInv
  <1>4. QED
    BY <1>2, <1>3 DEF LedgerInv, Transaction, MaySend

LEMMA LedgerNext == Inv /\ LedgerInv /\ [Next]_vars => LedgerInv'
  <1> SUFFICES ASSUME Inv, LedgerInv, [Next]_vars PROVE LedgerInv'
    OBVIOUS
  <1>1. ASSUME UNCHANGED <<ledger, cmd>> PROVE LedgerInv'
    BY <1>1, SameCommands
  <1>2. CASE UNCHANGED vars
    BY <1>1, <1>2 DEF vars
  <1>3. CASE \E s \in Sessions : \E d \in Contracts[s] : SetDeployment(s, d)
    BY <1>1, <1>3 DEF SetDeployment
  <1>4. CASE \E s \in Sessions : \E a \in Files[s] : InspectLocally(s, a)
    BY <1>1, <1>4 DEF InspectLocally
  <1>5. CASE \E s \in Sessions : \E a \in Files[s] :
               \E kind \in {"verify", "attest", "consume"} : Start(s, kind, a)
    BY <1>5, StartLedger, SessionAssumption DEF Results
  <1>6. CASE \E d \in Deployments, p \in Policies : OwnerAuthorizes(d, p) \/ OwnerRevokes(d, p)
    BY <1>1, <1>6 DEF OwnerAuthorizes, OwnerRevokes
  <1>7. QED
    BY <1>2, <1>3, <1>4, <1>5, <1>6, InvokeLedger, FinishLedger, OtherLedger DEF Next

------------------------------------------------------------------------------
(* The theorems *)

THEOREM Invariant == Spec => []Inv
  BY InitInv, NextInv, PTL DEF Spec

\* The status of a session never shows one proof's verification for another.
THEOREM ResultsBelong == Spec => []ResultBelongsToInspection
  <1>1. Inv => ResultBelongsToInspection
    BY DEF Inv, ResultInv, ResultBelongsToInspection
  <1>2. QED
    BY <1>1, Invariant, PTL

\* A consume that is reported is stored, whatever was lost on the way.
THEOREM ReportedConsumesAreStored == Spec => []ReportedConsumeIsStored
  <1>1. Inv => ReportedConsumeIsStored
    BY DEF Inv, ResultInv, ReportedConsumeIsStored, IsConsumed
  <1>2. QED
    BY <1>1, Invariant, PTL

\* Two sessions never both get the consume of one evaluation.
THEOREM OneConsumer == Spec => []ConsumedByOneSession
  <1>1. Inv => ConsumedByOneSession
    BY DEF Inv
  <1>2. QED
    BY <1>1, Invariant, PTL

\* Whatever was set, inspected or lost between the start of a command and its
\* call, a session without --flow pays for no transaction and one in remote mode
\* consumes nothing.
THEOREM OnlyPermittedTransactions == Spec => []TransactionsArePermitted
  <1>1. LedgerInv => TransactionsArePermitted
    BY DEF LedgerInv, Transaction, MaySend, TransactionsArePermitted
  <1>2. QED
    BY <1>1, LedgerInit, LedgerNext, Invariant, PTL DEF Spec

\* Every deployed guardrail uses an evaluation at most once and only under a
\* policy that is authorized at that moment.
THEOREM GuardrailIsOneTime == Spec => ImplementsOneTimeUse
  <1> USE SessionAssumption
  <1>1. Init => OneTimeUse!Init
    BY DEF Init, OneTimeUse!Init, Deployed
  <1>2. Inv /\ Inv' /\ [Next]_vars =>
          [OneTimeUse!Next]_<<contract[Guardrail].consumed, contract[Guardrail].authorized>>
    <2> SUFFICES ASSUME Inv, Inv', [Next]_vars
                 PROVE  [OneTimeUse!Next]_<<contract[Guardrail].consumed,
                                            contract[Guardrail].authorized>>
      OBVIOUS
    <2>1. ASSUME contract'[Guardrail].consumed = contract[Guardrail].consumed
          PROVE  OneTimeUse!Next
      BY <2>1 DEF Inv, Shapes, Storage, Authorizable, OneTimeUse!Next, OneTimeUse!ChangePolicies
    <2>2. CASE UNCHANGED contract
      BY <2>2
    <2>3. CASE \E s \in Sessions : Invoke(s)
      <3>1. PICK s \in Sessions : Invoke(s)
        BY <2>3
      <3>2. CASE deployment[s] = Guardrail
                 /\ Stores(contract[Guardrail], cmd[s].artifact, contract'[Guardrail])
        <4> DEFINE a == cmd[s].artifact
                   e == [nullifier |-> Local(a).value.audit_nullifier,
                         policy |-> PolicyOf(Local(a).value)]
        <4>1. a \in Artifacts /\ Local(a).ok
          BY <3>1 DEF Invoke, Busy, Inv, CmdInv, Good
        <4>2. contract[Guardrail] \in Storage
          BY DEF Inv, Shapes
        <4>3. OneTimeUse!Use(e)
          BY <3>2, <4>2 DEF Stores, Nullifier, Storage, OneTimeUse!Use
        <4>4. QED
          BY <4>1, <4>3 DEF OneTimeUse!Next
      <3>3. CASE contract'[Guardrail] = contract[Guardrail]
        BY <2>1, <3>3
      <3>4. QED
        BY <3>1, <3>2, <3>3, <2>2, InvokeContract
    <2>4. CASE \E d \in Deployments, p \in Policies : OwnerAuthorizes(d, p) \/ OwnerRevokes(d, p)
      BY <2>1, <2>4, OwnerInv
    <2>5. QED
      BY <2>2, <2>3, <2>4
      DEF Next, vars, SetDeployment, InspectLocally, Start, FinishVerify, FinishAttest,
          FinishConsume, OtherTransaction
  <1>3. QED
    BY <1>1, <1>2, Invariant, PTL DEF Spec, ImplementsOneTimeUse, OneTimeUse!Spec
==============================================================================
