-------------------------- MODULE X402GatewayProofs --------------------------
(***************************************************************************)
(* X402Gateway for every number of challenges, requests, settlement jobs   *)
(* and payments, and for every mix of verifier modes: one settle request   *)
(* per challenge, what the chain executed stays blocked, what is reported  *)
(* as settled was executed, and one paid evaluation per challenge.         *)
(***************************************************************************)
EXTENDS X402Gateway, X402StateProofs

USE GatewayAssumption, MaxIdAssumption, NoneAssumption, TimeAssumption

State(id) == durable.settlements[id].state
Bound(id) == durable.settlements[id].request_digest
VerdictOf(id) ==
  IF Bound(id) \in Digests THEN verdict[<<id, Bound(id)>>] ELSE "none"

\* The memory of a process that serves is what a restart would read, and
\* nothing is in progress in a process that does not serve.
ProcessInv ==
  /\ server = "up" => mem = durable
  /\ server # "up" => /\ req = [r \in Requests |-> Idle]
                      /\ job = [j \in Jobs |-> Idle]

\* The one job that holds the mutex owns the attempt the store has on record.
JobInv ==
  /\ \A i, j \in Jobs : job[i] # Idle /\ job[j] # Idle => i = j
  /\ \A j \in Jobs : job[j] # Idle =>
       /\ State(job[j].id) = "settlement_in_progress"
       /\ Bound(job[j].id) = job[j].digest
       /\ job[j].pc = "begun" => dispatched[job[j].id] = 0

\* What was sent, what became of it, and what the store says of it.
DispatchInv(id) ==
  /\ State(id) \in {"none", "verified_pending_settlement"} => dispatched[id] = 0
  /\ dispatched[id] <= 1
  /\ \A d \in Digests :
       /\ <<id, d>> \in inflight \/ verdict[<<id, d>>] # "none" =>
            Bound(id) = d /\ dispatched[id] = 1
       /\ <<id, d>> \in inflight => verdict[<<id, d>>] = "none"

OutcomeInv(id) ==
  /\ executed[id] = IF VerdictOf(id) = "executed" THEN 1 ELSE 0
  /\ State(id) = "settlement_rejected" => VerdictOf(id) = "refused"
  /\ State(id) = "settled" => VerdictOf(id) = "executed"
  /\ id \in reported => State(id) = "settled"

AcceptInv ==
  /\ \A r \in Requests :
       /\ req[r].pc = "verifying" => req[r].digest \in Digests
       /\ req[r].pc = "accepted" => <<req[r].id, req[r].digest>> \in accepted
  /\ \A id \in ChallengeIds : Verified(durable, id) => <<id, Bound(id)>> \in accepted

GrantInv ==
  /\ \A r \in Requests : req[r].pc = "finalized" =>
       req[r].id \in durable.used /\ granted[req[r].id] = 0
  /\ \A q, r \in Requests :
       req[q].pc = "finalized" /\ req[r].pc = "finalized" /\ req[q].id = req[r].id
         => q = r
  /\ GrantedOnce

Inv ==
  /\ TypeOK
  /\ ProcessInv
  /\ JobInv
  /\ \A id \in ChallengeIds : DispatchInv(id) /\ OutcomeInv(id)
  /\ AcceptInv
  /\ GrantInv

------------------------------------------------------------------------------
(* Parts of the invariant that a step leaves alone *)

\* A settlement job and a request in progress name a challenge.
LEMMA JobType ==
  ASSUME TypeOK, NEW j \in Jobs, job[j] # Idle
  PROVE  /\ job[j] \in [pc : {"begun", "waiting"}, id : ChallengeIds,
                        digest : Digests \cup {None}]
         /\ job[j].id \in ChallengeIds
         /\ job[j].pc \in {"begun", "waiting"}
BY DEF TypeOK, Process

LEMMA RequestType ==
  ASSUME TypeOK, NEW r \in Requests, req[r] # Idle
  PROVE  /\ req[r] \in [pc : {"verifying", "accepted", "finalized"},
                        id : ChallengeIds, digest : Digests \cup {None}]
         /\ req[r].id \in ChallengeIds
BY DEF TypeOK, Process

\* A job that is busy runs in a process that serves, on a recorded payment.
LEMMA BusyJob ==
  ASSUME Inv, NEW j \in Jobs, job[j] # Idle
  PROVE  /\ server = "up" /\ mem = durable
         /\ job[j].id \in ChallengeIds /\ job[j].digest \in Digests
         /\ durable.settlements[job[j].id] \in Settlement
         /\ State(job[j].id) = "settlement_in_progress"
         /\ Bound(job[j].id) = job[j].digest
<1>1. server = "up" /\ mem = durable
  BY DEF Inv, ProcessInv
<1>2. job[j].id \in ChallengeIds
  BY JobType DEF Inv
<1>3. State(job[j].id) = "settlement_in_progress" /\ Bound(job[j].id) = job[j].digest
  BY DEF Inv, JobInv
<1>4. durable.settlements[job[j].id] \in Settlement
  BY <1>2, <1>3 DEF Inv, TypeOK, StoreTypeOK, StoreState, State, NoSettlement
<1> QED
  BY <1>1, <1>2, <1>3, <1>4 DEF Settlement, Bound

LEMMA BusyRequest ==
  ASSUME Inv, NEW r \in Requests, req[r] # Idle
  PROVE  server = "up" /\ mem = durable /\ req[r].id \in ChallengeIds
BY RequestType DEF Inv, ProcessInv

\* The records of the settlements and their history are as they were.
LEMMA RecordsSame ==
  ASSUME Inv, durable'.settlements = durable.settlements,
         UNCHANGED <<inflight, verdict, executed, dispatched, reported>>
  PROVE  \A id \in ChallengeIds : DispatchInv(id)' /\ OutcomeInv(id)'
BY DEF Inv, DispatchInv, OutcomeInv, State, Bound, VerdictOf

LEMMA JobsSame ==
  ASSUME Inv, durable'.settlements = durable.settlements, UNCHANGED <<job, dispatched>>
  PROVE  JobInv'
BY DEF Inv, JobInv, State, Bound

LEMMA AcceptSame ==
  ASSUME Inv, durable'.settlements = durable.settlements, accepted \subseteq accepted',
         \A r \in Requests :
           req'[r].pc \in {"verifying", "accepted"} => req'[r] = req[r]
  PROVE  AcceptInv'
BY DEF Inv, AcceptInv, Verified, Bound

LEMMA GrantSame ==
  ASSUME Inv, durable.used \subseteq durable'.used, UNCHANGED granted,
         \A r \in Requests : req'[r].pc = "finalized" => req'[r] = req[r]
  PROVE  GrantInv'
BY DEF Inv, GrantInv, GrantedOnce

LEMMA InitInv == Init => Inv
<1>. SUFFICES ASSUME Init PROVE Inv
  OBVIOUS
<1>0. Idle \in Process({"verifying", "accepted", "finalized"})
      /\ Idle \in Process({"begun", "waiting"})
  BY DEF Process
<1>1. TypeOK
  <2>1. StoreTypeOK /\ now \in Times /\ mode \in {"mock", "facilitator"}
    BY EmptyFacts DEF Init, StoreInit, StoreTypeOK, ServerStates, Times
  <2>. HIDE DEF Idle
  <2>2. /\ req \in [Requests -> Process({"verifying", "accepted", "finalized"})]
        /\ job \in [Jobs -> Process({"begun", "waiting"})]
    BY <1>0 DEF Init
  <2>3. verdict \in [Payment -> {"none", "executed", "refused"}]
    BY DEF Init
  <2> QED
    BY <2>1, <2>2, <2>3 DEF Init, TypeOK
<1>2. ProcessInv
  BY DEF Init, StoreInit, ProcessInv
<1>3. JobInv
  BY DEF Init, JobInv
<1>4. ASSUME NEW id \in ChallengeIds
      PROVE  State(id) = "none" /\ Bound(id) = None /\ ~Verified(durable, id)
  BY DEF Init, StoreInit, EmptyState, NoSettlement, State, Bound, Verified
<1>5. ASSUME NEW id \in ChallengeIds
      PROVE  DispatchInv(id) /\ OutcomeInv(id)
  BY <1>4 DEF Init, Payment, DispatchInv, OutcomeInv, VerdictOf
<1>6. AcceptInv
  BY <1>4 DEF Init, AcceptInv, Idle
<1>7. GrantInv
  BY DEF Init, GrantInv, GrantedOnce, Idle
<1> QED
  BY <1>1, <1>2, <1>3, <1>5, <1>6, <1>7 DEF Inv

------------------------------------------------------------------------------
(* The requests keep the invariant *)

LEMMA UnpaidInv == ASSUME Inv, Unpaid PROVE Inv'
<1> DEFINE n == CreateChallenge(mem, now).state
<1>1. /\ mem' = n /\ durable' = n /\ server' = server /\ mem = durable
      /\ mem \in StoreState /\ now \in Times /\ mem.next_id < MaxId
  BY DEF Inv, TypeOK, StoreTypeOK, ProcessInv, Unpaid, Write, Serving
<1>. HIDE DEF n
<1>2. n \in StoreState /\ n.used = mem.used /\ n.settlements = mem.settlements
  BY <1>1, CreateFacts, CreateEffect DEF n
<1>3. UNCHANGED <<processVars, now, externalVars, historyVars>>
  BY DEF Unpaid
<1>4. TypeOK'
  BY <1>1, <1>2, <1>3 DEF Inv, TypeOK, StoreTypeOK, processVars, externalVars, historyVars
<1>5. ProcessInv'
  BY <1>1, <1>3 DEF Inv, ProcessInv, processVars
<1>6. JobInv'
  BY <1>1, <1>2, <1>3, JobsSame DEF processVars, historyVars
<1>7. \A id \in ChallengeIds : DispatchInv(id)' /\ OutcomeInv(id)'
  BY <1>1, <1>2, <1>3, RecordsSame DEF externalVars, historyVars
<1>8. AcceptInv' /\ GrantInv'
  BY <1>1, <1>2, <1>3, AcceptSame, GrantSame DEF processVars, historyVars
<1> QED
  BY <1>4, <1>5, <1>6, <1>7, <1>8 DEF Inv

LEMMA MockVerifyInv ==
  ASSUME Inv, NEW r \in Requests, NEW id \in ChallengeIds, MockVerify(r, id)
  PROVE  Inv'
<1> DEFINE n == BeginFinalize(mem, id, now).state
           out == BeginFinalize(mem, id, now).outcome
           granting == [pc |-> "finalized", id |-> id, digest |-> None]
<1>1. /\ mem' = n /\ durable' = n /\ server' = server /\ mem = durable
      /\ mem \in StoreState /\ now \in Times /\ server = "up" /\ req[r] = Idle
  BY DEF Inv, TypeOK, StoreTypeOK, ProcessInv, MockVerify, Write, Serving
<1>2. \/ out # "Finalized" /\ req' = req
      \/ out = "Finalized" /\ req' = [req EXCEPT ![r] = granting]
  BY DEF MockVerify, SetReq
<1>3. UNCHANGED <<mode, job, now, externalVars, historyVars>>
  BY DEF MockVerify
<1>. HIDE DEF n, out
<1>4. /\ n \in StoreState /\ mem.used \subseteq n.used
      /\ n.settlements = mem.settlements
      /\ out = "Finalized" => id \notin mem.used /\ id \in n.used
  BY <1>1, FinalizeFacts, FinalizeEffect DEF n, out
<1>5. TypeOK'
  <2>1. granting \in Process({"verifying", "accepted", "finalized"})
    BY DEF Process
  <2>. HIDE DEF granting
  <2>2. req' \in [Requests -> Process({"verifying", "accepted", "finalized"})]
    BY <1>2, <2>1 DEF Inv, TypeOK
  <2> QED
    BY <1>1, <1>3, <1>4, <2>2
    DEF Inv, TypeOK, StoreTypeOK, externalVars, historyVars
<1>6. ProcessInv'
  BY <1>1, <1>3 DEF Inv, ProcessInv
<1>7. JobInv'
  BY <1>1, <1>3, <1>4, JobsSame DEF historyVars
<1>8. \A x \in ChallengeIds : DispatchInv(x)' /\ OutcomeInv(x)'
  BY <1>1, <1>3, <1>4, RecordsSame DEF externalVars, historyVars
<1>9. AcceptInv'
  <2>1. \A q \in Requests :
          req'[q].pc \in {"verifying", "accepted"} => req'[q] = req[q]
    BY <1>2 DEF Inv, TypeOK
  <2> QED
    BY <2>1, <1>1, <1>3, <1>4, AcceptSame DEF historyVars
<1>10. GrantInv'
  <2>1. CASE req' = req
    BY <2>1, <1>1, <1>3, <1>4, GrantSame DEF historyVars
  <2>2. CASE out = "Finalized" /\ req' = [req EXCEPT ![r] = granting]
    <3>1. granted' = granted /\ durable' = n
      BY <1>1, <1>3 DEF historyVars
    <3>2. req'[r] = granting /\ \A q \in Requests \ {r} : req'[q] = req[q]
      BY <2>2 DEF Inv, TypeOK
    <3>3. id \notin durable.used /\ id \in n.used /\ durable.used \subseteq n.used
      BY <1>1, <1>4, <2>2
    <3>4. granted[id] = 0
      BY <3>3 DEF Inv, GrantInv, GrantedOnce, TypeOK
    <3>5. \A q \in Requests : req[q].pc = "finalized" => req[q].id # id
      BY <3>3 DEF Inv, GrantInv
    <3> QED
      BY <3>1, <3>2, <3>3, <3>4, <3>5 DEF Inv, GrantInv, GrantedOnce
  <2> QED
    BY <1>2, <2>1, <2>2
<1> QED
  BY <1>5, <1>6, <1>7, <1>8, <1>9, <1>10 DEF Inv

LEMMA EvaluateInv ==
  ASSUME Inv, NEW r \in Requests, Evaluate(r)
  PROVE  Inv'
<1>1. /\ UNCHANGED <<storeVars, mode, job, now, externalVars>>
      /\ UNCHANGED <<accepted, refused, dispatched, reported>>
      /\ server = "up" /\ req[r].pc = "finalized"
      /\ req' = [req EXCEPT ![r] = Idle]
      /\ granted' = [granted EXCEPT ![req[r].id] = @ + 1]
  BY DEF Evaluate, EndReq, Bump, Serving
<1>2. req[r].id \in ChallengeIds
  BY <1>1, RequestType DEF Inv, Idle
<1>3. req[r].id \in durable.used /\ granted[req[r].id] = 0
  BY <1>1 DEF Inv, GrantInv
<1>4. /\ req'[r] = Idle /\ \A q \in Requests \ {r} : req'[q] = req[q]
      /\ granted'[req[r].id] = 1
      /\ \A id \in ChallengeIds \ {req[r].id} : granted'[id] = granted[id]
  BY <1>1, <1>2, <1>3 DEF Inv, TypeOK
<1>5. TypeOK'
  <2>1. granted' \in [ChallengeIds -> Nat]
    BY <1>1, <1>2, <1>4 DEF Inv, TypeOK
  <2>2. Idle \in Process({"verifying", "accepted", "finalized"})
    BY DEF Process
  <2>. HIDE DEF Idle
  <2>3. req' \in [Requests -> Process({"verifying", "accepted", "finalized"})]
    BY <1>1, <2>2 DEF Inv, TypeOK
  <2> QED
    BY <1>1, <2>1, <2>3 DEF Inv, TypeOK, StoreTypeOK, storeVars, externalVars
<1>6. ProcessInv'
  BY <1>1 DEF Inv, ProcessInv, storeVars
<1>7. JobInv'
  BY <1>1, JobsSame DEF storeVars
<1>8. \A id \in ChallengeIds : DispatchInv(id)' /\ OutcomeInv(id)'
  BY <1>1, RecordsSame DEF storeVars, externalVars
<1>9. AcceptInv'
  BY <1>1, <1>4, AcceptSame DEF storeVars, Idle
<1>10. GrantInv'
  <2>1. \A q \in Requests \ {r} : req[q].pc = "finalized" => req[q].id # req[r].id
    BY <1>1 DEF Inv, GrantInv
  <2>2. durable' = durable
    BY <1>1 DEF storeVars
  <2>3. \A q \in Requests : req'[q].pc = "finalized" =>
          q # r /\ req'[q] = req[q]
    BY <1>4 DEF Idle
  <2>4. \A q \in Requests : req'[q].pc = "finalized" =>
          req'[q].id \in durable'.used /\ granted'[req'[q].id] = 0
    <3>. TAKE q \in Requests
    <3>. HAVE req'[q].pc = "finalized"
    <3>1. q # r /\ req'[q] = req[q] /\ req[q].pc = "finalized"
      BY <2>3
    <3>2. req[q].id \in ChallengeIds
      BY <3>1, RequestType DEF Inv, Idle
    <3> QED
      BY <3>1, <3>2, <2>1, <2>2, <1>4 DEF Inv, GrantInv
  <2>5. \A q, x \in Requests :
          req'[q].pc = "finalized" /\ req'[x].pc = "finalized"
            /\ req'[q].id = req'[x].id => q = x
    BY <2>3 DEF Inv, GrantInv
  <2>6. GrantedOnce'
    BY <1>3, <1>4, <2>2 DEF Inv, GrantInv, GrantedOnce
  <2> QED
    BY <2>4, <2>5, <2>6 DEF GrantInv
<1> QED
  BY <1>5, <1>6, <1>7, <1>8, <1>9, <1>10 DEF Inv

\* A step of a request that touches neither the store nor a settlement.
LEMMA RequestOnlyInv ==
  ASSUME Inv, NEW r \in Requests,
         NEW next \in Process({"verifying", "accepted"}),
         server = "up",
         req' = [req EXCEPT ![r] = next],
         next.pc = "verifying" => next.digest \in Digests,
         next.pc = "accepted" => <<next.id, next.digest>> \in accepted',
         accepted \subseteq accepted', accepted' \subseteq Payment,
         refused' \subseteq Payment,
         UNCHANGED <<storeVars, mode, job, now, externalVars>>,
         UNCHANGED <<dispatched, granted, reported>>
  PROVE  Inv'
<1>1. /\ next \in Process({"verifying", "accepted", "finalized"})
      /\ next.pc # "finalized"
  BY DEF Process, Idle
<1>2. req'[r] = next /\ \A q \in Requests \ {r} : req'[q] = req[q]
  BY DEF Inv, TypeOK
<1>3. TypeOK'
  <2>1. req' \in [Requests -> Process({"verifying", "accepted", "finalized"})]
    BY <1>1 DEF Inv, TypeOK
  <2> QED
    BY <2>1 DEF Inv, TypeOK, StoreTypeOK, storeVars, externalVars
<1>4. ProcessInv'
  BY DEF Inv, ProcessInv, storeVars
<1>5. JobInv'
  BY JobsSame DEF storeVars
<1>6. \A id \in ChallengeIds : DispatchInv(id)' /\ OutcomeInv(id)'
  BY RecordsSame DEF storeVars, externalVars
<1>7. AcceptInv'
  BY <1>2 DEF Inv, AcceptInv, storeVars, Verified, Bound
<1>8. GrantInv'
  BY <1>1, <1>2, GrantSame DEF storeVars
<1> QED
  BY <1>3, <1>4, <1>5, <1>6, <1>7, <1>8 DEF Inv

LEMMA AskFacilitatorInv ==
  ASSUME Inv, NEW r \in Requests, NEW id \in ChallengeIds, NEW digest \in Digests,
         AskFacilitator(r, id, digest)
  PROVE  Inv'
<1> DEFINE next == [pc |-> "verifying", id |-> id, digest |-> digest]
<1>1. next \in Process({"verifying", "accepted"}) /\ next.pc # "accepted"
      /\ next.digest \in Digests
  BY DEF Process
<1>2. server = "up" /\ req' = [req EXCEPT ![r] = next]
  BY DEF AskFacilitator, Serving, SetReq
<1>3. UNCHANGED <<storeVars, mode, job, now, externalVars, historyVars>>
  BY DEF AskFacilitator
<1>. HIDE DEF next
<1> QED
  BY <1>1, <1>2, <1>3, RequestOnlyInv DEF historyVars, Inv, TypeOK

LEMMA FacilitatorAcceptsInv ==
  ASSUME Inv, NEW r \in Requests, FacilitatorAccepts(r)
  PROVE  Inv'
<1> DEFINE next == [pc |-> "accepted", id |-> req[r].id, digest |-> req[r].digest]
<1>1. req[r].pc = "verifying" /\ req[r] # Idle
  BY DEF FacilitatorAccepts, Idle
<1>2. server = "up" /\ req[r].id \in ChallengeIds
  BY <1>1, BusyRequest
<1>3. req[r].digest \in Digests
  BY <1>1 DEF Inv, AcceptInv
<1>4. next.pc # "verifying" /\ next \in Process({"verifying", "accepted"})
  BY <1>2, <1>3 DEF Process
<1>5. req' = [req EXCEPT ![r] = next]
      /\ accepted' = accepted \cup {<<next.id, next.digest>>}
  BY DEF FacilitatorAccepts, SetReq
<1>6. UNCHANGED <<storeVars, mode, job, now, externalVars>>
      /\ UNCHANGED <<refused, dispatched, granted, reported>>
  BY DEF FacilitatorAccepts
<1>7. accepted' \subseteq Payment
  BY <1>2, <1>3, <1>5 DEF Inv, TypeOK, Payment
<1>. HIDE DEF next
<1> QED
  BY <1>2, <1>4, <1>5, <1>6, <1>7, RequestOnlyInv DEF Inv, TypeOK

\* The facilitator rejects, or its answer cannot be used: nothing is kept.
LEMMA FacilitatorEndsInv ==
  ASSUME Inv, NEW r \in Requests, FacilitatorRejects(r) \/ FacilitatorFails(r)
  PROVE  Inv'
<1>1. req[r].pc = "verifying" /\ req[r] # Idle
  BY DEF FacilitatorRejects, FacilitatorFails, Idle
<1>2. server = "up" /\ req[r].id \in ChallengeIds /\ req[r].digest \in Digests
  BY <1>1, BusyRequest DEF Inv, AcceptInv
<1>3. refused' \subseteq Payment
  BY <1>2 DEF FacilitatorRejects, FacilitatorFails, historyVars, Inv, TypeOK, Payment
<1>4. /\ req' = [req EXCEPT ![r] = Idle]
      /\ UNCHANGED <<storeVars, mode, job, now, externalVars>>
      /\ UNCHANGED <<accepted, dispatched, granted, reported>>
  BY DEF FacilitatorRejects, FacilitatorFails, EndReq, historyVars
<1>5. Idle \in Process({"verifying", "accepted"}) /\ Idle.pc = "idle"
  BY DEF Process, Idle
<1>. HIDE DEF Idle
<1> QED
  BY <1>2, <1>3, <1>4, <1>5, RequestOnlyInv DEF Inv, TypeOK

\* A verified payment enters the store: the challenge had no record before.
LEMMA RecordVerifiedInv ==
  ASSUME Inv, NEW r \in Requests, RecordVerified(r)
  PROVE  Inv'
<1>1. req[r].pc = "accepted" /\ req[r] # Idle /\ req' = [req EXCEPT ![r] = Idle]
  BY DEF RecordVerified, Idle, EndReq
<1>2. UNCHANGED <<mode, job, now, externalVars, historyVars>>
  BY DEF RecordVerified
<1>3. server = "up" /\ mem = durable
  BY <1>1, BusyRequest
<1>4. PICK id \in ChallengeIds, digest \in Digests :
        id = req[r].id /\ digest = req[r].digest /\ <<id, digest>> \in accepted
  BY <1>1, BusyRequest DEF Inv, AcceptInv, TypeOK, Payment
<1> DEFINE n == RecordVerifiedPayment(mem, id, digest, now).state
<1>5. mem \in StoreState /\ now \in Times
  BY DEF Inv, TypeOK, StoreTypeOK
<1>6. server' = server /\ mem' = durable' /\ (durable' = n \/ durable' = durable)
  BY <1>3, <1>4 DEF RecordVerified, Write, WriteErr, storeVars
<1>. HIDE DEF n
<1>7. n \in StoreState /\ n.used = mem.used
  BY <1>3, <1>4, <1>5, RecordFacts DEF n
<1>8. \/ n = mem
      \/ /\ mem.settlements[id] = NoSettlement
         /\ Replaced(mem, n, id, digest, "verified_pending_settlement")
  BY <1>3, <1>4, <1>5, RecordEffect DEF n
<1>9. durable' \in StoreState /\ durable'.used = durable.used
  BY <1>3, <1>5, <1>6, <1>7
<1>10. \/ durable' = durable
       \/ /\ State(id) = "none" /\ Bound(id) = None
          /\ State(id)' = "verified_pending_settlement" /\ Bound(id)' = digest
          /\ \A x \in ChallengeIds \ {id} :
               durable'.settlements[x] = durable.settlements[x]
  BY <1>3, <1>6, <1>8 DEF Replaced, State, Bound, NoSettlement
<1>11. \A q \in Requests : req'[q] = Idle \/ req'[q] = req[q]
  BY <1>1 DEF Inv, TypeOK
<1>12. TypeOK'
  <2>1. Idle \in Process({"verifying", "accepted", "finalized"})
    BY DEF Process
  <2>. HIDE DEF Idle
  <2>2. req' \in [Requests -> Process({"verifying", "accepted", "finalized"})]
    BY <1>1, <2>1 DEF Inv, TypeOK
  <2> QED
    BY <1>2, <1>5, <1>6, <1>9, <2>2
    DEF Inv, TypeOK, StoreTypeOK, externalVars, historyVars
<1>13. ProcessInv'
  BY <1>2, <1>3, <1>6 DEF Inv, ProcessInv
<1>14. JobInv'
  <2>1. job' = job /\ dispatched' = dispatched
    BY <1>2 DEF historyVars
  <2>2. \A j \in Jobs : job[j] # Idle => job[j].id \in ChallengeIds
    BY JobType DEF Inv
  <2> QED
    BY <1>10, <2>1, <2>2 DEF Inv, JobInv, State, Bound
<1>15. ASSUME NEW x \in ChallengeIds
       PROVE  DispatchInv(x)' /\ OutcomeInv(x)'
  <2>1. DispatchInv(x) /\ OutcomeInv(x)
    BY DEF Inv
  <2>2. UNCHANGED <<inflight, verdict, executed, dispatched, reported>>
    BY <1>2 DEF externalVars, historyVars
  <2>3. CASE durable' = durable \/ x # id
    <3>1. State(x)' = State(x) /\ Bound(x)' = Bound(x)
      BY <1>10, <2>3 DEF State, Bound
    <3> QED
      BY <2>1, <2>2, <3>1 DEF DispatchInv, OutcomeInv, VerdictOf
  <2>4. CASE durable' # durable /\ x = id
    <3>1. /\ State(x) = "none" /\ Bound(x) = None
          /\ State(x)' = "verified_pending_settlement" /\ Bound(x)' = digest
      BY <1>10, <2>4
    <3>2. \A d \in Digests :
            <<x, d>> \notin inflight /\ verdict[<<x, d>>] = "none"
      BY <2>1, <3>1 DEF DispatchInv
    <3>3. DispatchInv(x)'
      BY <2>1, <2>2, <3>1, <3>2 DEF DispatchInv
    <3>4. VerdictOf(x) = "none" /\ VerdictOf(x)' = "none"
      BY <2>2, <3>1, <3>2 DEF VerdictOf
    <3> QED
      BY <2>1, <2>2, <3>1, <3>3, <3>4 DEF OutcomeInv
  <2> QED
    BY <2>3, <2>4
<1>16. AcceptInv'
  <2>1. accepted' = accepted
    BY <1>2 DEF historyVars
  <2> QED
    BY <1>4, <1>10, <1>11, <2>1 DEF Inv, AcceptInv, Verified, Bound, Idle
<1>17. GrantInv'
  BY <1>2, <1>9, <1>11, GrantSame DEF historyVars, Idle
<1> QED
  BY <1>12, <1>13, <1>14, <1>15, <1>16, <1>17 DEF Inv

------------------------------------------------------------------------------
(* The settlement jobs keep the invariant *)

\* An attempt starts: its challenge was verified, so nothing was sent for it.
LEMMA StartedInv ==
  ASSUME Inv, NEW j \in Jobs, NEW id \in ChallengeIds, NEW digest \in Digests,
         Serving, LockFree,
         BeginSettlement(mem, id, digest, now).outcome = "Started",
         Write(BeginSettlement(mem, id, digest, now).state),
         job' = [job EXCEPT ![j] = [pc |-> "begun", id |-> id, digest |-> digest]],
         UNCHANGED <<mode, req, now, externalVars, historyVars>>
  PROVE  Inv'
<1> DEFINE n == BeginSettlement(mem, id, digest, now).state
           begun == [pc |-> "begun", id |-> id, digest |-> digest]
<1>1. /\ mem' = n /\ durable' = n /\ server' = server /\ mem = durable
      /\ mem \in StoreState /\ now \in Times /\ server = "up"
  BY DEF Inv, TypeOK, StoreTypeOK, ProcessInv, Write, Serving
<1>. HIDE DEF n
<1>2. n \in StoreState /\ n.used = mem.used
  BY <1>1, BeginFacts DEF n
<1>3. /\ mem.settlements[id].state = "verified_pending_settlement"
      /\ mem.settlements[id].request_digest = digest
      /\ Replaced(mem, n, id, digest, "settlement_in_progress")
  BY <1>1, BeginEffect DEF n
<1>4. /\ State(id) = "verified_pending_settlement" /\ Bound(id) = digest
      /\ State(id)' = "settlement_in_progress" /\ Bound(id)' = digest
      /\ \A x \in ChallengeIds \ {id} :
           durable'.settlements[x] = durable.settlements[x]
  BY <1>1, <1>3 DEF Replaced, State, Bound
<1>5. begun \in Process({"begun", "waiting"}) /\ begun.id = id
      /\ begun.digest = digest /\ begun.pc = "begun"
  BY DEF Process
<1>. HIDE DEF begun
<1>6. job'[j] = begun /\ \A i \in Jobs \ {j} : job'[i] = Idle
  BY DEF begun, LockFree, Inv, TypeOK
<1>7. TypeOK'
  <2>1. job' \in [Jobs -> Process({"begun", "waiting"})]
    BY <1>5 DEF begun, Inv, TypeOK
  <2> QED
    BY <1>1, <1>2, <2>1 DEF Inv, TypeOK, StoreTypeOK, externalVars, historyVars
<1>8. ProcessInv'
  BY <1>1 DEF ProcessInv
<1>9. dispatched' = dispatched /\ dispatched[id] = 0
  BY <1>4 DEF historyVars, Inv, DispatchInv
<1>10. JobInv'
  BY <1>4, <1>5, <1>6, <1>9 DEF JobInv
<1>11. ASSUME NEW x \in ChallengeIds
       PROVE  DispatchInv(x)' /\ OutcomeInv(x)'
  <2>1. DispatchInv(x) /\ OutcomeInv(x)
    BY DEF Inv
  <2>2. UNCHANGED <<inflight, verdict, executed, dispatched, reported>>
    BY DEF externalVars, historyVars
  <2>3. Bound(x)' = Bound(x) /\ (x # id => State(x)' = State(x))
    BY <1>4 DEF State, Bound
  <2> QED
    BY <1>4, <2>1, <2>2, <2>3 DEF DispatchInv, OutcomeInv, VerdictOf
<1>12. AcceptInv'
  <2>1. Verified(durable, id)
    BY <1>4 DEF Verified, State, NoSettlement
  <2>2. \A x \in ChallengeIds :
          /\ Bound(x)' = Bound(x)
          /\ Verified(durable', x) => Verified(durable, x)
    BY <1>4, <2>1 DEF Verified, Bound
  <2>3. accepted' = accepted /\ req' = req
    BY DEF historyVars
  <2> QED
    BY <2>2, <2>3 DEF Inv, AcceptInv
<1>13. GrantInv'
  BY <1>1, <1>2, GrantSame DEF historyVars
<1> QED
  BY <1>7, <1>8, <1>10, <1>11, <1>12, <1>13 DEF Inv

\* The store answers that the payment is settled: the call reports it.
LEMMA AlreadySettledInv ==
  ASSUME Inv, NEW id \in ChallengeIds, NEW digest \in Digests, Serving,
         BeginSettlement(mem, id, digest, now).outcome = "AlreadySettled",
         reported' = reported \cup {id},
         UNCHANGED <<storeVars, mode, req, job, now, externalVars>>,
         UNCHANGED <<accepted, refused, dispatched, granted>>
  PROVE  Inv'
<1>1. State(id) = "settled"
  BY DEF BeginSettlement, Result, BeginSettlementOutcome, Inspection, SettlementState,
         State, Inv, ProcessInv, Serving
<1>2. TypeOK'
  BY DEF Inv, TypeOK, StoreTypeOK, storeVars, externalVars
<1>3. ProcessInv' /\ JobInv' /\ AcceptInv' /\ GrantInv'
  BY JobsSame, AcceptSame, GrantSame DEF Inv, ProcessInv, storeVars
<1>4. \A x \in ChallengeIds : DispatchInv(x)' /\ OutcomeInv(x)'
  BY <1>1 DEF Inv, DispatchInv, OutcomeInv, State, Bound, VerdictOf,
              storeVars, externalVars
<1> QED
  BY <1>2, <1>3, <1>4 DEF Inv

LEMMA BeginSettleInv ==
  ASSUME Inv, NEW j \in Jobs, NEW id \in ChallengeIds, NEW digest \in Digests,
         BeginSettle(j, id, digest)
  PROVE  Inv'
<1>1. CASE BeginSettlement(mem, id, digest, now).outcome = "Started"
  BY <1>1, StartedInv DEF BeginSettle, historyVars
<1>2. CASE BeginSettlement(mem, id, digest, now).outcome = "AlreadySettled"
  BY <1>2, AlreadySettledInv DEF BeginSettle
<1> QED
  BY <1>1, <1>2 DEF BeginSettle

\* The first and only settle request of the challenge goes out.
LEMMA DispatchStepInv ==
  ASSUME Inv, NEW j \in Jobs, Dispatch(j)
  PROVE  Inv'
<1>1. job[j].pc = "begun" /\ job[j] # Idle
  BY DEF Dispatch, Idle
<1>2. PICK id \in ChallengeIds, digest \in Digests :
        /\ id = job[j].id /\ digest = job[j].digest
        /\ State(id) = "settlement_in_progress" /\ Bound(id) = digest
  BY <1>1, BusyJob
<1>3. /\ job' = [job EXCEPT ![j].pc = "waiting"]
      /\ dispatched' = [dispatched EXCEPT ![id] = @ + 1]
      /\ inflight' = inflight \cup {<<id, digest>>}
      /\ UNCHANGED <<storeVars, mode, req, now, verdict, executed>>
      /\ UNCHANGED <<accepted, refused, granted, reported>>
  BY <1>2 DEF Dispatch, SetJob, Bump
<1>4. server = "up" /\ dispatched[id] = 0 /\ \A i \in Jobs \ {j} : job[i] = Idle
  BY <1>1, <1>2 DEF Inv, ProcessInv, JobInv
<1>5. dispatched'[id] = 1 /\ \A x \in ChallengeIds \ {id} : dispatched'[x] = dispatched[x]
  BY <1>3, <1>4 DEF Inv, TypeOK
<1>6. job'[j] = [pc |-> "waiting", id |-> id, digest |-> digest]
  <2>1. job[j] \in [pc : {"begun", "waiting"}, id : ChallengeIds,
                    digest : Digests \cup {None}]
    BY <1>1, JobType DEF Inv
  <2>2. job'[j] = [job[j] EXCEPT !.pc = "waiting"]
    BY <1>3 DEF Inv, TypeOK
  <2> QED
    BY <1>2, <2>1, <2>2
<1>7. job' \in [Jobs -> Process({"begun", "waiting"})]
  <2>1. job'[j] \in Process({"begun", "waiting"})
    BY <1>6 DEF Process
  <2>2. job' = [job EXCEPT ![j] = job'[j]]
    BY <1>3 DEF Inv, TypeOK
  <2> QED
    BY <2>1, <2>2 DEF Inv, TypeOK
<1>8. \A i \in Jobs \ {j} : job'[i] = Idle
  BY <1>3, <1>4 DEF Inv, TypeOK
<1>9. TypeOK'
  BY <1>3, <1>5, <1>7 DEF Inv, TypeOK, StoreTypeOK, storeVars, Payment
<1>10. ProcessInv'
  BY <1>3, <1>4 DEF Inv, ProcessInv, storeVars
<1>11. JobInv'
  BY <1>2, <1>3, <1>6, <1>8 DEF JobInv, State, Bound, storeVars
<1>12. ASSUME NEW x \in ChallengeIds
       PROVE  DispatchInv(x)' /\ OutcomeInv(x)'
  <2>1. DispatchInv(x) /\ OutcomeInv(x)
    BY DEF Inv
  <2>2. State(x)' = State(x) /\ Bound(x)' = Bound(x) /\ VerdictOf(x)' = VerdictOf(x)
    BY <1>3 DEF State, Bound, VerdictOf, storeVars
  <2>3. OutcomeInv(x)'
    BY <1>3, <2>1, <2>2 DEF OutcomeInv
  <2>4. DispatchInv(x)'
    <3>1. CASE x # id
      <4>1. \A d \in Digests : <<x, d>> \in inflight' <=> <<x, d>> \in inflight
        BY <1>3, <3>1
      <4> QED
        BY <1>3, <1>5, <2>1, <2>2, <3>1, <4>1 DEF DispatchInv
    <3>2. CASE x = id
      <4>1. \A d \in Digests : verdict[<<x, d>>] = "none" /\ <<x, d>> \notin inflight
        BY <1>4, <2>1, <3>2 DEF DispatchInv
      <4>2. \A d \in Digests : <<x, d>> \in inflight' => d = digest
        BY <1>3, <4>1
      <4> QED
        BY <1>2, <1>3, <1>5, <2>2, <3>2, <4>1, <4>2 DEF DispatchInv
    <3> QED
      BY <3>1, <3>2
  <2> QED
    BY <2>3, <2>4
<1>13. AcceptInv' /\ GrantInv'
  BY <1>3, AcceptSame, GrantSame DEF storeVars
<1> QED
  BY <1>9, <1>10, <1>11, <1>12, <1>13 DEF Inv

\* The end of an attempt, given that the completion agrees with the verdict.
LEMMA FinishInv ==
  ASSUME Inv, NEW j \in Jobs, job[j] # Idle,
         NEW completion \in Completions, NEW hash \in Hashes \cup {None},
         completion = "Settled" => VerdictOf(job[j].id) = "executed",
         completion = "Rejected" => VerdictOf(job[j].id) = "refused",
         Finish(j, completion, hash)
  PROVE  Inv'
<1>1. PICK id \in ChallengeIds, digest \in Digests :
        /\ id = job[j].id /\ digest = job[j].digest
        /\ State(id) = "settlement_in_progress" /\ Bound(id) = digest
        /\ completion = "Settled" => VerdictOf(id) = "executed"
        /\ completion = "Rejected" => VerdictOf(id) = "refused"
  BY BusyJob
<1> DEFINE n == CompleteSettlement(mem, id, digest, completion, hash).state
           out == CompleteSettlement(mem, id, digest, completion, hash).outcome
<1>2. /\ mem = durable /\ server = "up" /\ mem \in StoreState
      /\ mem.settlements[id].state = "settlement_in_progress"
      /\ mem.settlements[id].request_digest = digest
  BY <1>1, BusyJob DEF Inv, TypeOK, StoreTypeOK, State, Bound
<1>3. /\ job' = [job EXCEPT ![j] = Idle]
      /\ UNCHANGED <<mode, req, now, externalVars>>
      /\ UNCHANGED <<accepted, refused, dispatched, granted>>
  BY DEF Finish, EndJob
<1>4. \/ /\ mem' = n /\ durable' = n /\ server' = server
         /\ reported' = IF \/ out = "Completed" /\ completion = "Settled"
                           \/ out = "AlreadyCompleted" /\ completion # "OutcomeUnknown"
                        THEN reported \cup {id} ELSE reported
      \/ UNCHANGED storeVars /\ UNCHANGED reported
  BY <1>1 DEF Finish, Write, WriteErr
<1>. HIDE DEF n, out
<1>5. n \in StoreState /\ mem.used \subseteq n.used
  BY <1>2, CompleteFacts DEF n
<1>6. /\ out # "AlreadyCompleted"
      /\ out # "Completed" => n = mem
      /\ out = "Completed" => Replaced(mem, n, id, digest, CompletedState(completion))
  BY <1>2, CompleteEffect DEF n, out
<1>7. /\ server' = server /\ mem' = durable' /\ durable' \in StoreState
      /\ durable.used \subseteq durable'.used
  BY <1>2, <1>4, <1>5 DEF storeVars
<1>8. \/ durable' = durable /\ reported' = reported
      \/ /\ State(id)' = CompletedState(completion) /\ Bound(id)' = digest
         /\ \A x \in ChallengeIds \ {id} :
              durable'.settlements[x] = durable.settlements[x]
         /\ reported' = IF completion = "Settled" THEN reported \cup {id} ELSE reported
  <2>1. CASE UNCHANGED storeVars /\ UNCHANGED reported
    BY <2>1 DEF storeVars
  <2>2. CASE out = "Completed" /\ durable' = n
    BY <1>2, <1>4, <1>6, <2>2 DEF Replaced, State, Bound, storeVars
  <2>3. CASE out # "Completed" /\ durable' = n
    BY <1>2, <1>4, <1>6, <2>3 DEF storeVars
  <2> QED
    BY <1>4, <2>1, <2>2, <2>3
<1>9. \A i \in Jobs : job'[i] = Idle
  BY <1>3 DEF Inv, TypeOK, JobInv
<1>10. TypeOK'
  <2>1. Idle \in Process({"begun", "waiting"})
    BY DEF Process
  <2>. HIDE DEF Idle
  <2>2. job' \in [Jobs -> Process({"begun", "waiting"})]
    BY <1>3, <2>1 DEF Inv, TypeOK
  <2>3. reported' \subseteq ChallengeIds
    BY <1>8 DEF Inv, TypeOK
  <2> QED
    BY <1>3, <1>7, <2>2, <2>3 DEF Inv, TypeOK, StoreTypeOK, externalVars
<1>11. ProcessInv'
  BY <1>2, <1>7 DEF ProcessInv
<1>12. JobInv'
  BY <1>9 DEF JobInv
<1>13. ASSUME NEW x \in ChallengeIds
       PROVE  DispatchInv(x)' /\ OutcomeInv(x)'
  <2>1. DispatchInv(x) /\ OutcomeInv(x)
    BY DEF Inv
  <2>2. UNCHANGED <<inflight, verdict, executed, dispatched>>
    BY <1>3 DEF externalVars
  <2>3. Bound(x)' = Bound(x) /\ VerdictOf(x)' = VerdictOf(x)
        /\ (x # id => State(x)' = State(x))
    BY <1>1, <1>8, <2>2 DEF State, Bound, VerdictOf
  <2>4. x # id => (x \in reported' <=> x \in reported)
    BY <1>8
  <2>5. CASE x # id \/ (durable' = durable /\ reported' = reported)
    <3>1. State(x)' = State(x) /\ (x \in reported' <=> x \in reported)
      BY <2>3, <2>4, <2>5 DEF State
    <3> QED
      BY <2>1, <2>2, <2>3, <3>1 DEF DispatchInv, OutcomeInv
  <2>6. CASE x = id /\ State(id)' = CompletedState(completion)
             /\ reported' = IF completion = "Settled" THEN reported \cup {id} ELSE reported
    <3>1. State(x) # "settled" /\ x \notin reported
      BY <1>1, <2>1, <2>6 DEF OutcomeInv
    <3>2. State(x)' \in TerminalStates
          /\ (State(x)' = "settled" <=> completion = "Settled")
          /\ (State(x)' = "settlement_rejected" <=> completion = "Rejected")
      BY <2>6 DEF CompletedState, Completions, TerminalStates
    <3>3. x \in reported' <=> completion = "Settled"
      BY <2>6, <3>1
    <3>4. OutcomeInv(x)'
      BY <1>1, <2>1, <2>2, <2>3, <2>6, <3>2, <3>3 DEF OutcomeInv
    <3>5. DispatchInv(x)'
      BY <2>1, <2>2, <2>3, <3>2 DEF DispatchInv, TerminalStates
    <3> QED
      BY <3>4, <3>5
  <2> QED
    BY <1>8, <2>5, <2>6
<1>14. AcceptInv'
  <2>1. Verified(durable, id)
    BY <1>1 DEF Verified, State, NoSettlement
  <2>2. \A x \in ChallengeIds :
          /\ Bound(x)' = Bound(x)
          /\ Verified(durable', x) => Verified(durable, x)
    BY <1>1, <1>8, <2>1 DEF Verified, Bound
  <2> QED
    BY <1>3, <2>2 DEF Inv, AcceptInv
<1>15. GrantInv'
  BY <1>3, <1>7, GrantSame
<1> QED
  BY <1>10, <1>11, <1>12, <1>13, <1>14, <1>15 DEF Inv

LEMMA SettleInv ==
  ASSUME Inv, NEW j \in Jobs, SettleSucceeds(j) \/ SettleRejected(j) \/ SettleUncertain(j)
  PROVE  Inv'
<1>1. job[j] # Idle
  BY DEF SettleSucceeds, SettleRejected, SettleUncertain, Idle
<1>2. VerdictOf(job[j].id) = verdict[<<job[j].id, job[j].digest>>]
  BY <1>1, BusyJob DEF VerdictOf
<1>3. CASE SettleSucceeds(j)
  BY <1>1, <1>2, <1>3, FinishInv DEF SettleSucceeds, Completions
<1>4. CASE SettleRejected(j)
  BY <1>1, <1>2, <1>4, FinishInv DEF SettleRejected, Completions
<1>5. CASE SettleUncertain(j)
  BY <1>1, <1>5, FinishInv DEF SettleUncertain, Completions
<1> QED
  BY <1>3, <1>4, <1>5

------------------------------------------------------------------------------
(* The facilitator, crashes, restarts and the clock keep the invariant *)

LEMMA FacilitatorInv ==
  ASSUME Inv, NEW p \in Payment, Execute(p) \/ Refuse(p)
  PROVE  Inv'
<1>1. PICK id \in ChallengeIds, digest \in Digests : p = <<id, digest>>
  BY DEF Payment
<1>2. /\ p \in inflight /\ inflight' = inflight \ {p}
      /\ UNCHANGED <<storeVars, processVars, now, historyVars>>
      /\ \/ /\ verdict' = [verdict EXCEPT ![p] = "executed"]
            /\ executed' = [executed EXCEPT ![id] = @ + 1]
         \/ /\ verdict' = [verdict EXCEPT ![p] = "refused"]
            /\ executed' = executed
  BY <1>1 DEF Execute, Refuse, Bump
<1>3. /\ Bound(id) = digest /\ dispatched[id] = 1 /\ verdict[p] = "none"
      /\ VerdictOf(id) = "none" /\ executed[id] = 0
  BY <1>1, <1>2 DEF Inv, DispatchInv, OutcomeInv, VerdictOf
<1>4. /\ \A q \in Payment \ {p} : verdict'[q] = verdict[q]
      /\ \/ verdict'[p] = "executed" /\ executed'[id] = 1
         \/ verdict'[p] = "refused" /\ executed'[id] = 0
      /\ \A x \in ChallengeIds \ {id} : executed'[x] = executed[x]
  BY <1>1, <1>2, <1>3 DEF Inv, TypeOK
<1>5. TypeOK'
  BY <1>1, <1>2 DEF Inv, TypeOK, StoreTypeOK, storeVars, processVars, historyVars
<1>6. ProcessInv' /\ JobInv' /\ AcceptInv' /\ GrantInv'
  BY <1>2, JobsSame, AcceptSame, GrantSame
  DEF Inv, ProcessInv, storeVars, processVars, historyVars
<1>7. ASSUME NEW x \in ChallengeIds
      PROVE  DispatchInv(x)' /\ OutcomeInv(x)'
  <2>1. DispatchInv(x) /\ OutcomeInv(x)
    BY DEF Inv
  <2>2. State(x)' = State(x) /\ Bound(x)' = Bound(x)
        /\ dispatched' = dispatched /\ reported' = reported
    BY <1>2 DEF State, Bound, storeVars, historyVars
  <2>3. CASE x # id
    <3>1. \A d \in Digests : verdict'[<<x, d>>] = verdict[<<x, d>>]
                            /\ (<<x, d>> \in inflight' <=> <<x, d>> \in inflight)
      BY <1>1, <1>2, <1>4, <2>3 DEF Payment
    <3>2. VerdictOf(x)' = VerdictOf(x) /\ executed'[x] = executed[x]
      BY <1>4, <2>2, <2>3, <3>1 DEF VerdictOf
    <3> QED
      BY <2>1, <2>2, <3>1, <3>2 DEF DispatchInv, OutcomeInv
  <2>4. CASE x = id
    <3>1. \A d \in Digests \ {digest} : verdict'[<<x, d>>] = verdict[<<x, d>>]
            /\ (<<x, d>> \in inflight' <=> <<x, d>> \in inflight)
      BY <1>1, <1>2, <1>4, <2>4 DEF Payment
    <3>2. <<x, digest>> \notin inflight'
      BY <1>1, <1>2, <2>4
    <3>3. DispatchInv(x)'
      BY <1>3, <2>1, <2>2, <2>4, <3>1, <3>2 DEF DispatchInv
    <3>4. VerdictOf(x)' = verdict'[p]
      BY <1>1, <1>3, <2>2, <2>4 DEF VerdictOf
    <3>5. State(x) \notin {"settlement_rejected", "settled"} /\ x \notin reported
      BY <1>3, <2>1, <2>4 DEF OutcomeInv
    <3>6. OutcomeInv(x)'
      BY <1>4, <2>2, <2>4, <3>4, <3>5 DEF OutcomeInv
    <3> QED
      BY <3>3, <3>6
  <2> QED
    BY <2>3, <2>4
<1> QED
  BY <1>5, <1>6, <1>7 DEF Inv

LEMMA CrashInv == ASSUME Inv, Crash PROVE Inv'
<1>1. /\ server' = "down" /\ durable' = durable /\ mem' = EmptyState
      /\ req' = [r \in Requests |-> Idle] /\ job' = [j \in Jobs |-> Idle]
      /\ UNCHANGED <<mode, now, externalVars, historyVars>>
  BY DEF Crash, StoreCrash
<1>2. TypeOK'
  <2>1. Idle \in Process({"verifying", "accepted", "finalized"})
        /\ Idle \in Process({"begun", "waiting"})
    BY DEF Process
  <2>. HIDE DEF Idle
  <2>2. req' \in [Requests -> Process({"verifying", "accepted", "finalized"})]
        /\ job' \in [Jobs -> Process({"begun", "waiting"})]
    BY <1>1, <2>1
  <2> QED
    BY <1>1, <2>2, EmptyFacts
    DEF Inv, TypeOK, StoreTypeOK, ServerStates, externalVars, historyVars
<1>3. ProcessInv' /\ JobInv'
  BY <1>1 DEF ProcessInv, JobInv
<1>4. \A id \in ChallengeIds : DispatchInv(id)' /\ OutcomeInv(id)'
  BY <1>1, RecordsSame DEF externalVars, historyVars
<1>5. AcceptInv' /\ GrantInv'
  BY <1>1, AcceptSame, GrantSame DEF historyVars, Idle
<1> QED
  BY <1>2, <1>3, <1>4, <1>5 DEF Inv

\* A restart that stores the recovered state; nothing runs yet.
LEMMA RecoverInv ==
  ASSUME Inv, StoreRecover, mode' \in Modes,
         UNCHANGED <<req, job, now, externalVars, historyVars>>
  PROVE  Inv'
<1>1. /\ server = "down" /\ durable' = RecoverInProgress(durable)
      /\ mem' = mem /\ server' = server
  BY DEF StoreRecover
<1>2. durable \in StoreState /\ durable' \in StoreState /\ durable'.used = durable.used
  BY <1>1, RecoverFacts DEF Inv, TypeOK, StoreTypeOK
<1>3. ASSUME NEW id \in ChallengeIds
      PROVE  /\ Bound(id)' = Bound(id)
             /\ State(id)' = IF State(id) = "settlement_in_progress"
                             THEN "settlement_outcome_unknown" ELSE State(id)
  BY <1>1, <1>2, RecoverEffect DEF State, Bound
<1>4. TypeOK'
  BY <1>1, <1>2 DEF Inv, TypeOK, StoreTypeOK, externalVars, historyVars
<1>5. ProcessInv' /\ JobInv'
  BY <1>1 DEF Inv, ProcessInv, JobInv
<1>6. ASSUME NEW id \in ChallengeIds
      PROVE  DispatchInv(id)' /\ OutcomeInv(id)'
  <2>1. DispatchInv(id) /\ OutcomeInv(id)
    BY DEF Inv
  <2>2. UNCHANGED <<inflight, verdict, executed, dispatched, reported>>
    BY DEF externalVars, historyVars
  <2>3. VerdictOf(id)' = VerdictOf(id)
    BY <1>3, <2>2 DEF VerdictOf
  <2> QED
    BY <1>3, <2>1, <2>2, <2>3 DEF DispatchInv, OutcomeInv
<1>7. AcceptInv'
  <2>1. ASSUME NEW id \in ChallengeIds, Verified(durable', id)
        PROVE  Verified(durable, id)
    <3>1. SUFFICES ASSUME durable.settlements[id] = NoSettlement PROVE FALSE
      BY DEF Verified
    <3>2. durable'.settlements[id] = durable.settlements[id]
      BY <1>1, <1>2, <3>1 DEF RecoverInProgress, InProgress, SettlementState,
                              StoreState, NoSettlement
    <3> QED
      BY <2>1, <3>1, <3>2 DEF Verified
  <2> QED
    BY <1>3, <2>1 DEF Inv, AcceptInv, historyVars
<1>8. GrantInv'
  BY <1>2, GrantSame DEF historyVars
<1> QED
  BY <1>4, <1>5, <1>6, <1>7, <1>8 DEF Inv

\* The other steps of a start, and the clock: the stored state stays.
LEMMA QuietInv ==
  ASSUME Inv, durable' = durable, mem' \in StoreState, server' \in ServerStates,
         server' = "up" => mem' = durable',
         server' # "up" => server # "up",
         mode' \in {"mock", "facilitator"}, now' \in Times,
         UNCHANGED <<req, job, externalVars, historyVars>>
  PROVE  Inv'
<1>1. TypeOK' /\ ProcessInv'
  BY DEF Inv, TypeOK, StoreTypeOK, ProcessInv, externalVars, historyVars
<1>2. JobInv' /\ AcceptInv' /\ GrantInv'
  BY JobsSame, AcceptSame, GrantSame DEF historyVars
<1>3. \A id \in ChallengeIds : DispatchInv(id)' /\ OutcomeInv(id)'
  BY RecordsSame DEF externalVars, historyVars
<1> QED
  BY <1>1, <1>2, <1>3 DEF Inv

LEMMA StartInv == ASSUME Inv, Start PROVE Inv'
<1>1. CASE StoreRecover
  BY <1>1, RecoverInv DEF Start
<1>2. CASE StoreStart \/ StoreStartFails
  BY <1>2, QuietInv DEF Start, StoreStart, StoreStartFails, ServerStates,
                        Inv, TypeOK, StoreTypeOK
<1> QED
  BY <1>1, <1>2 DEF Start

LEMMA ClockInv == ASSUME Inv, ClockChanges PROVE Inv'
BY QuietInv DEF ClockChanges, storeVars, processVars, Inv, TypeOK, StoreTypeOK,
                ProcessInv

LEMMA NextInv == ASSUME Inv, [Next]_vars PROVE Inv'
<1>1. CASE Unpaid
  BY <1>1, UnpaidInv
<1>2. CASE \E r \in Requests : RequestStep(r)
  BY <1>2, MockVerifyInv, EvaluateInv, AskFacilitatorInv, FacilitatorAcceptsInv,
     FacilitatorEndsInv, RecordVerifiedInv DEF RequestStep
<1>3. CASE \E j \in Jobs : JobStep(j)
  BY <1>3, BeginSettleInv, DispatchStepInv, SettleInv DEF JobStep
<1>4. CASE \E p \in Payment : Execute(p) \/ Refuse(p)
  BY <1>4, FacilitatorInv
<1>5. CASE Crash
  BY <1>5, CrashInv
<1>6. CASE Start
  BY <1>6, StartInv
<1>7. CASE ClockChanges
  BY <1>7, ClockInv
<1>8. CASE UNCHANGED vars
  BY <1>8, QuietInv DEF vars, storeVars, processVars, Inv, TypeOK, StoreTypeOK,
                        ProcessInv
<1> QED
  BY <1>1, <1>2, <1>3, <1>4, <1>5, <1>6, <1>7, <1>8 DEF Next

------------------------------------------------------------------------------
(* A deployment that never changes its verifier mode.  With both modes a     *)
(* challenge with a verified payment can be finalized by the mock verifier,  *)
(* and load() refuses what is stored then.                                   *)

OneMode == \A m, n \in Modes : m = n

\* Payments are verified and recorded by the facilitator verifier only.
VerifierInv ==
  /\ mode \in Modes
  /\ \A r \in Requests :
       req[r].pc \in {"verifying", "accepted"} => "facilitator" \in Modes
  /\ \A id \in ChallengeIds : Bound(id) # None => "facilitator" \in Modes

LoadInv == Sound(durable) /\ VerifierInv

\* The steps of the store, by what they do to the phases of the challenges.
Recorded(s, n, id) ==
  /\ PhaseOf(s, id) = "open" /\ PhaseOf(n, id) = "verified"
  /\ n.settlements[id].request_digest \in Digests
  /\ \A x \in ChallengeIds \ {id} : SamePhase(s, n, x)

Moved(s, n) ==
  \E id \in ChallengeIds :
    \/ Moves(s, n, id, "none", "open")
    \/ Moves(s, n, id, "open", "finalized")
    \/ Moves(s, n, id, "verified", "in_progress")
    \/ \E end \in {"settled", "rejected", "unknown"} : Moves(s, n, id, "in_progress", end)

Recovered(s, n) ==
  \A id \in ChallengeIds :
    /\ PhaseOf(n, id) = IF PhaseOf(s, id) = "in_progress" THEN "unknown" ELSE PhaseOf(s, id)
    /\ n.settlements[id].request_digest = s.settlements[id].request_digest

\* A step that binds no challenge.
NotBinding(s, n) == Stays(s, n) \/ Moved(s, n) \/ Recovered(s, n)

LEMMA BindingKept ==
  ASSUME NotBinding(durable, durable')
  PROVE  \A id \in ChallengeIds : Bound(id)' = Bound(id)
BY DEF NotBinding, Stays, Moved, Recovered, Moves, SamePhase, Bound

LEMMA SameStays == ASSUME NEW s PROVE Stays(s, s)
BY DEF Stays, SamePhase

LEMMA LoadInitInv == Init => LoadInv
<1> SUFFICES ASSUME Init PROVE LoadInv
  OBVIOUS
<1>1. durable = EmptyState /\ mode \in Modes /\ req = [r \in Requests |-> Idle]
  BY DEF Init, StoreInit
<1> QED
  BY <1>1, EmptySound DEF LoadInv, VerifierInv, Idle, Bound

\* What every step does to what is stored, and that it stays loadable.
LEMMA RequestMoves ==
  ASSUME OneMode, Inv, LoadInv, NEW r \in Requests, RequestStep(r)
  PROVE  /\ Sound(durable')
         /\ \/ NotBinding(durable, durable')
            \/ /\ req[r].pc = "accepted"
               /\ \E id \in ChallengeIds : Recorded(durable, durable', id)
<1>1. CASE UNCHANGED durable
  BY <1>1, SameStays DEF LoadInv, NotBinding
<1>2. ASSUME NEW id \in ChallengeIds, MockVerify(r, id),
             durable' = BeginFinalize(mem, id, now).state
      PROVE  Sound(durable') /\ NotBinding(durable, durable')
  <2>1. mem = durable /\ mem \in StoreState /\ now \in Times /\ mode = "mock"
    BY <1>2 DEF MockVerify, Serving, Inv, ProcessInv, TypeOK, StoreTypeOK
  <2>2. "facilitator" \notin Modes
    BY <2>1 DEF OneMode, LoadInv, VerifierInv
  <2>3. ~Verified(durable, id)
    BY <2>1, <2>2 DEF LoadInv, VerifierInv, Bound, Verified, StoreState, Settlement
  <2>4. Sound(durable')
        /\ (Stays(durable, durable') \/ Moves(durable, durable', id, "open", "finalized"))
    BY <1>2, <2>1, <2>3, FinalizeMoves DEF LoadInv
  <2> QED
    BY <2>4 DEF NotBinding, Moved
<1>3. CASE RecordVerified(r) /\ ~(UNCHANGED durable)
  <2>1. req[r].pc = "accepted" /\ req[r] # Idle
    BY <1>3 DEF RecordVerified, Idle
  <2>2. PICK id \in ChallengeIds, digest \in Digests : id = req[r].id /\ digest = req[r].digest
    BY <2>1, BusyRequest DEF Inv, AcceptInv, TypeOK, Payment
  <2>3. mem = durable /\ mem \in StoreState /\ now \in Times
    BY <2>1, BusyRequest DEF Inv, TypeOK, StoreTypeOK
  <2>4. durable' = RecordVerifiedPayment(durable, id, digest, now).state
    BY <1>3, <2>2, <2>3 DEF RecordVerified, Write, WriteErr, storeVars
  <2>5. /\ Sound(durable')
        /\ \/ durable' = durable
           \/ /\ PhaseOf(durable, id) = "open" /\ PhaseOf(durable', id) = "verified"
              /\ durable'.settlements[id].request_digest = digest
              /\ \A x \in ChallengeIds \ {id} : SamePhase(durable, durable', x)
    BY <2>3, <2>4, RecordMoves DEF LoadInv
  <2> QED
    BY <1>3, <2>1, <2>5 DEF Recorded
<1>4. CASE \E id \in ChallengeIds : MockVerify(r, id)
  <2>1. PICK id \in ChallengeIds : MockVerify(r, id)
    BY <1>4
  <2> QED
    BY <1>2, <2>1 DEF MockVerify, Write
<1> QED
  BY <1>1, <1>3, <1>4
  DEF RequestStep, Evaluate, AskFacilitator, FacilitatorAccepts, FacilitatorRejects,
      FacilitatorFails, storeVars

LEMMA JobMoves ==
  ASSUME Inv, LoadInv, NEW j \in Jobs, JobStep(j)
  PROVE  Sound(durable') /\ NotBinding(durable, durable')
<1>1. CASE UNCHANGED durable
  BY <1>1, SameStays DEF LoadInv, NotBinding
<1>2. ASSUME NEW id \in ChallengeIds, NEW digest \in Digests, BeginSettle(j, id, digest),
             ~(UNCHANGED durable)
      PROVE  Sound(durable') /\ NotBinding(durable, durable')
  <2>1. mem = durable /\ mem \in StoreState /\ now \in Times
    BY <1>2 DEF BeginSettle, Serving, Inv, ProcessInv, TypeOK, StoreTypeOK
  <2>2. /\ BeginSettlement(mem, id, digest, now).outcome = "Started"
        /\ durable' = BeginSettlement(mem, id, digest, now).state
    BY <1>2 DEF BeginSettle, Write, storeVars
  <2>3. Sound(durable') /\ Moves(durable, durable', id, "verified", "in_progress")
    BY <2>1, <2>2, BeginMoves DEF LoadInv
  <2> QED
    BY <2>3 DEF NotBinding, Moved
<1>3. ASSUME job[j].pc \in {"begun", "waiting"}, NEW completion \in Completions,
             NEW hash \in Hashes \cup {None}, Finish(j, completion, hash), ~(UNCHANGED durable)
      PROVE  Sound(durable') /\ NotBinding(durable, durable')
  <2>1. job[j] # Idle
    BY <1>3 DEF Idle
  <2>2. PICK id \in ChallengeIds, digest \in Digests : id = job[j].id /\ digest = job[j].digest
    BY <2>1, BusyJob
  <2>3. mem = durable /\ mem \in StoreState
    BY <2>1, BusyJob DEF Inv, TypeOK, StoreTypeOK
  <2>4. durable' = CompleteSettlement(durable, id, digest, completion, hash).state
    BY <1>3, <2>2, <2>3 DEF Finish, Write, WriteErr, storeVars
  <2>5. /\ Sound(durable')
        /\ \/ durable' = durable
           \/ \E end \in {"settled", "rejected", "unknown"} :
                Moves(durable, durable', id, "in_progress", end)
    BY <2>3, <2>4, CompleteMoves DEF LoadInv
  <2> QED
    BY <1>3, <2>5 DEF NotBinding, Moved
<1>4. CASE SettleSucceeds(j) \/ SettleRejected(j) \/ SettleUncertain(j)
  BY <1>1, <1>3, <1>4 DEF SettleSucceeds, SettleRejected, SettleUncertain, Completions
<1> QED
  BY <1>1, <1>2, <1>4 DEF JobStep, Dispatch, storeVars

LEMMA StepMoves ==
  ASSUME OneMode, Inv, LoadInv, [Next]_vars
  PROVE  /\ Sound(durable')
         /\ \/ NotBinding(durable, durable')
            \/ \E r \in Requests, id \in ChallengeIds :
                 req[r].pc = "accepted" /\ Recorded(durable, durable', id)
<1>1. CASE UNCHANGED durable
  BY <1>1, SameStays DEF LoadInv, NotBinding
<1>2. CASE Unpaid
  <2>1. /\ mem = durable /\ mem \in StoreState /\ now \in Times /\ mem.next_id < MaxId
        /\ durable' = CreateChallenge(mem, now).state
    BY <1>2 DEF Unpaid, Write, Serving, Inv, ProcessInv, TypeOK, StoreTypeOK
  <2>2. Sound(durable') /\ \E id \in ChallengeIds : Moves(durable, durable', id, "none", "open")
    BY <2>1, CreateMoves DEF LoadInv
  <2> QED
    BY <2>2 DEF NotBinding, Moved
<1>3. CASE \E r \in Requests : RequestStep(r)
  BY <1>3, RequestMoves
<1>4. CASE \E j \in Jobs : JobStep(j)
  BY <1>4, JobMoves
<1>5. CASE StoreRecover
  <2>1. durable' = RecoverInProgress(durable) /\ durable \in StoreState
    BY <1>5 DEF StoreRecover, Inv, TypeOK, StoreTypeOK
  <2>2. Sound(durable') /\ Recovered(durable, durable')
    BY <2>1, RecoverMoves DEF LoadInv, Recovered
  <2> QED
    BY <2>2 DEF NotBinding
<1> QED
  BY <1>1, <1>2, <1>3, <1>4, <1>5
  DEF Next, Execute, Refuse, Crash, StoreCrash, Start, StoreStart, StoreStartFails,
      ClockChanges, vars, storeVars

LEMMA VerifierNextInv ==
  ASSUME OneMode, Inv, LoadInv, [Next]_vars
  PROVE  LoadInv'
<1>1. mode' \in Modes
  BY DEF LoadInv, VerifierInv, Next, Unpaid, RequestStep, JobStep, MockVerify, Evaluate,
         AskFacilitator, FacilitatorAccepts, FacilitatorRejects, FacilitatorFails,
         RecordVerified, BeginSettle, Dispatch, SettleSucceeds, SettleRejected,
         SettleUncertain, Finish, Execute, Refuse, Crash, Start, ClockChanges,
         processVars, vars
<1>2. \A q \in Requests : req'[q].pc \in {"verifying", "accepted"} =>
        "facilitator" \in Modes
  <2>1. CASE UNCHANGED req \/ req' = [q \in Requests |-> Idle]
    BY <2>1 DEF LoadInv, VerifierInv, Idle
  <2>2. ASSUME NEW r \in Requests, RequestStep(r)
        PROVE  \A q \in Requests : req'[q].pc \in {"verifying", "accepted"} =>
                 "facilitator" \in Modes
    <3>1. \/ req' = req \/ req' = [req EXCEPT ![r] = Idle]
          \/ \E x, d : req' = [req EXCEPT ![r] = [pc |-> "finalized", id |-> x, digest |-> d]]
          \/ mode = "facilitator"
          \/ req[r].pc = "verifying"
      BY <2>2 DEF RequestStep, MockVerify, Evaluate, AskFacilitator, FacilitatorAccepts,
                  FacilitatorRejects, FacilitatorFails, RecordVerified, SetReq, EndReq
    <3>2. CASE mode = "facilitator" \/ req[r].pc = "verifying"
      BY <3>2 DEF LoadInv, VerifierInv
    <3>3. CASE req' = req \/ req' = [req EXCEPT ![r] = Idle]
      BY <3>3 DEF LoadInv, VerifierInv, Idle, Inv, TypeOK
    <3>4. ASSUME NEW x, NEW d,
                 req' = [req EXCEPT ![r] = [pc |-> "finalized", id |-> x, digest |-> d]]
          PROVE  \A q \in Requests : req'[q].pc \in {"verifying", "accepted"} =>
                   "facilitator" \in Modes
      BY <3>4 DEF LoadInv, VerifierInv, Inv, TypeOK
    <3> QED
      BY <3>1, <3>2, <3>3, <3>4
  <2> QED
    BY <2>1, <2>2
    DEF Next, Unpaid, JobStep, BeginSettle, Dispatch, SettleSucceeds, SettleRejected,
        SettleUncertain, Finish, Execute, Refuse, Crash, Start, ClockChanges,
        processVars, vars
<1>3. /\ Sound(durable')
      /\ \/ NotBinding(durable, durable')
         \/ \E r \in Requests, id \in ChallengeIds :
              req[r].pc = "accepted" /\ Recorded(durable, durable', id)
  BY StepMoves
<1>4. \A id \in ChallengeIds : Bound(id)' # None => "facilitator" \in Modes
  <2>1. CASE NotBinding(durable, durable')
    BY <2>1, BindingKept DEF LoadInv, VerifierInv
  <2>2. CASE \E r \in Requests : req[r].pc = "accepted"
    BY <2>2 DEF LoadInv, VerifierInv
  <2> QED
    BY <1>3, <2>1, <2>2
<1> QED
  BY <1>1, <1>2, <1>3, <1>4 DEF LoadInv, VerifierInv

------------------------------------------------------------------------------
(* What the record of a settlement does in one step, whatever the verifier   *)
(* modes are.                                                                *)

\* A record is made for a payment, its attempt starts, the attempt ends; the
\* payment it is bound to stays, and an end is not changed at all.
Advances(old, new) ==
  \/ new = old
  \/ old = NoSettlement /\ new.state = "verified_pending_settlement"
  \/ /\ new.request_digest = old.request_digest
     /\ \/ /\ old.state = "verified_pending_settlement"
           /\ new.state = "settlement_in_progress"
        \/ /\ old.state = "settlement_in_progress"
           /\ new.state \in TerminalStates

RecordsAdvance ==
  \A id \in ChallengeIds :
    Advances(durable.settlements[id], durable'.settlements[id]) /\ RecordedOpen(id)

\* A record that was there, or that stays away, is not made by the step.
LEMMA NotMade ==
  ASSUME NEW id \in ChallengeIds,
         \/ durable'.settlements[id] = durable.settlements[id]
         \/ durable.settlements[id].state # "none"
  PROVE  RecordedOpen(id)
BY DEF RecordedOpen, Verified, NoSettlement

LEMMA RequestAdvances ==
  ASSUME Inv, NEW r \in Requests, RequestStep(r)
  PROVE  RecordsAdvance /\ durable.used \subseteq durable'.used
<1>1. CASE UNCHANGED durable
  BY <1>1, NotMade DEF RecordsAdvance, Advances
<1>2. ASSUME NEW id \in ChallengeIds, MockVerify(r, id)
      PROVE  RecordsAdvance /\ durable.used \subseteq durable'.used
  <2>1. /\ mem = durable /\ mem \in StoreState /\ now \in Times
        /\ durable' = BeginFinalize(mem, id, now).state
    BY <1>2 DEF MockVerify, Serving, Write, Inv, ProcessInv, TypeOK, StoreTypeOK
  <2>2. durable'.settlements = durable.settlements /\ durable.used \subseteq durable'.used
    BY <2>1, FinalizeEffect, FinalizeFacts
  <2> QED
    BY <2>2, NotMade DEF RecordsAdvance, Advances
<1>3. CASE RecordVerified(r) /\ ~(UNCHANGED durable)
  <2>1. req[r].pc = "accepted" /\ req[r] # Idle
    BY <1>3 DEF RecordVerified, Idle
  <2>2. PICK id \in ChallengeIds, digest \in Digests : id = req[r].id /\ digest = req[r].digest
    BY <2>1, BusyRequest DEF Inv, AcceptInv, TypeOK, Payment
  <2>3. mem = durable /\ mem \in StoreState /\ now \in Times
    BY <2>1, BusyRequest DEF Inv, TypeOK, StoreTypeOK
  <2>4. durable' = RecordVerifiedPayment(durable, id, digest, now).state
    BY <1>3, <2>2, <2>3 DEF RecordVerified, Write, WriteErr, storeVars
  <2>5. durable'.used = durable.used
    BY <2>3, <2>4, RecordFacts
  <2>6. /\ durable.settlements[id] = NoSettlement
        /\ Inspection(durable, id, now) = "Available"
        /\ Replaced(durable, durable', id, digest, "verified_pending_settlement")
    BY <1>3, <2>3, <2>4, RecordEffect
  <2>7. <<id, digest>> \in accepted
    BY <2>1, <2>2 DEF Inv, AcceptInv
  <2>8. RecordedOpen(id)
    BY <2>6, <2>7 DEF Replaced, RecordedOpen
  <2>9. \A x \in ChallengeIds \ {id} : RecordedOpen(x)
    BY <2>6, NotMade DEF Replaced
  <2> QED
    BY <2>5, <2>6, <2>8, <2>9 DEF Replaced, RecordsAdvance, Advances
<1> QED
  BY <1>1, <1>2, <1>3
  DEF RequestStep, Evaluate, AskFacilitator, FacilitatorAccepts, FacilitatorRejects,
      FacilitatorFails, storeVars

LEMMA JobAdvances ==
  ASSUME Inv, NEW j \in Jobs, JobStep(j)
  PROVE  RecordsAdvance /\ durable.used \subseteq durable'.used
<1>1. CASE UNCHANGED durable
  BY <1>1, NotMade DEF RecordsAdvance, Advances
<1>2. ASSUME NEW id \in ChallengeIds, NEW digest \in Digests, BeginSettle(j, id, digest),
             ~(UNCHANGED durable)
      PROVE  RecordsAdvance /\ durable.used \subseteq durable'.used
  <2>1. mem = durable /\ mem \in StoreState /\ now \in Times
    BY <1>2 DEF BeginSettle, Serving, Inv, ProcessInv, TypeOK, StoreTypeOK
  <2>2. /\ BeginSettlement(mem, id, digest, now).outcome = "Started"
        /\ durable' = BeginSettlement(mem, id, digest, now).state
    BY <1>2 DEF BeginSettle, Write, storeVars
  <2>3. durable'.used = durable.used
    BY <2>1, <2>2, BeginFacts
  <2>4. /\ durable.settlements[id].state = "verified_pending_settlement"
        /\ durable.settlements[id].request_digest = digest
        /\ Replaced(durable, durable', id, digest, "settlement_in_progress")
    BY <2>1, <2>2, BeginEffect
  <2>5. \A x \in ChallengeIds : RecordedOpen(x)
    BY <2>4, NotMade DEF Replaced
  <2> QED
    BY <2>3, <2>4, <2>5 DEF Replaced, RecordsAdvance, Advances
<1>3. ASSUME job[j].pc \in {"begun", "waiting"}, NEW completion \in Completions,
             NEW hash \in Hashes \cup {None}, Finish(j, completion, hash), ~(UNCHANGED durable)
      PROVE  RecordsAdvance /\ durable.used \subseteq durable'.used
  <2>1. job[j] # Idle
    BY <1>3 DEF Idle
  <2>2. PICK id \in ChallengeIds, digest \in Digests :
          /\ id = job[j].id /\ digest = job[j].digest
          /\ durable.settlements[id].state = "settlement_in_progress"
          /\ durable.settlements[id].request_digest = digest
    BY <2>1, BusyJob DEF State, Bound
  <2>3. mem = durable /\ mem \in StoreState
    BY <2>1, BusyJob DEF Inv, TypeOK, StoreTypeOK
  <2>4. durable' = CompleteSettlement(durable, id, digest, completion, hash).state
    BY <1>3, <2>2, <2>3 DEF Finish, Write, WriteErr, storeVars
  <2>5. durable.used \subseteq durable'.used
    BY <2>3, <2>4, CompleteFacts
  <2>6. Replaced(durable, durable', id, digest, CompletedState(completion))
    BY <1>3, <2>2, <2>3, <2>4, CompleteEffect
  <2>7. CompletedState(completion) \in TerminalStates
    BY DEF CompletedState, Completions, TerminalStates
  <2>8. \A x \in ChallengeIds : RecordedOpen(x)
    BY <2>2, <2>6, NotMade DEF Replaced
  <2> QED
    BY <2>2, <2>5, <2>6, <2>7, <2>8 DEF Replaced, RecordsAdvance, Advances
<1>4. CASE SettleSucceeds(j) \/ SettleRejected(j) \/ SettleUncertain(j)
  BY <1>1, <1>3, <1>4 DEF SettleSucceeds, SettleRejected, SettleUncertain, Completions
<1> QED
  BY <1>1, <1>2, <1>4 DEF JobStep, Dispatch, storeVars

LEMMA StepAdvances ==
  ASSUME Inv, [Next]_vars
  PROVE  RecordsAdvance /\ durable.used \subseteq durable'.used
<1>1. CASE UNCHANGED durable
  BY <1>1, NotMade DEF RecordsAdvance, Advances
<1>2. CASE Unpaid
  <2>1. /\ mem = durable /\ mem \in StoreState /\ now \in Times /\ mem.next_id < MaxId
        /\ durable' = CreateChallenge(mem, now).state
    BY <1>2 DEF Unpaid, Write, Serving, Inv, ProcessInv, TypeOK, StoreTypeOK
  <2>2. durable'.settlements = durable.settlements /\ durable'.used = durable.used
    BY <2>1, CreateFacts, CreateEffect
  <2> QED
    BY <2>2, NotMade DEF RecordsAdvance, Advances
<1>3. CASE StoreRecover
  <2>1. durable' = RecoverInProgress(durable) /\ durable \in StoreState
    BY <1>3 DEF StoreRecover, Inv, TypeOK, StoreTypeOK
  <2>2. durable'.used = durable.used
    BY <2>1, RecoverFacts
  <2>3. ASSUME NEW id \in ChallengeIds
        PROVE  /\ Advances(durable.settlements[id], durable'.settlements[id])
               /\ RecordedOpen(id)
    <3>1. CASE State(id) = "settlement_in_progress"
      BY <2>1, <3>1, RecoverEffect, NotMade DEF State, Advances, TerminalStates
    <3>2. CASE State(id) # "settlement_in_progress"
      <4>1. durable'.settlements[id] = durable.settlements[id]
        BY <2>1, <3>2 DEF State, RecoverInProgress, InProgress, SettlementState, StoreState
      <4> QED
        BY <4>1, NotMade DEF Advances
    <3> QED
      BY <3>1, <3>2
  <2> QED
    BY <2>2, <2>3 DEF RecordsAdvance
<1> QED
  BY <1>1, <1>2, <1>3, RequestAdvances, JobAdvances
  DEF Next, Execute, Refuse, Crash, StoreCrash, Start, StoreStart, StoreStartFails,
      ClockChanges, vars, storeVars

------------------------------------------------------------------------------
(* Who ends an attempt that was started                                      *)

\* A settlement is on record for challenges that were issued only.
KnownRecords == \A id \in ChallengeIds : Verified(durable, id) => Known(durable, id)

\* In a process that serves, an attempt on record has a job that will end it.
AttemptsOwned ==
  server = "up" =>
    \A id \in ChallengeIds : State(id) = "settlement_in_progress" =>
      \E j \in Jobs : job[j] # Idle /\ job[j].id = id

OwnerInv == KnownRecords /\ AttemptsOwned

LEMMA OwnerInitInv == Init => OwnerInv
BY DEF Init, StoreInit, EmptyState, OwnerInv, KnownRecords, AttemptsOwned, Verified, State,
       NoSettlement

\* A step that starts and ends no attempt, and ends no job.
LEMMA OwnersSame ==
  ASSUME OwnerInv, KeepsKnown(durable, durable'),
         durable'.settlements = durable.settlements, UNCHANGED <<server, job>>
  PROVE  OwnerInv'
BY DEF OwnerInv, KnownRecords, AttemptsOwned, KeepsKnown, Verified, State

LEMMA RequestOwners ==
  ASSUME Inv, OwnerInv, NEW r \in Requests, RequestStep(r)
  PROVE  OwnerInv'
<1>1. CASE UNCHANGED storeVars
  BY <1>1, OwnersSame
  DEF KeepsKnown, storeVars, RequestStep, MockVerify, Evaluate, AskFacilitator,
      FacilitatorAccepts, FacilitatorRejects, FacilitatorFails, RecordVerified
<1>2. ASSUME NEW id \in ChallengeIds, MockVerify(r, id)
      PROVE  OwnerInv'
  <2>1. /\ mem = durable /\ mem \in StoreState /\ now \in Times
        /\ durable' = BeginFinalize(mem, id, now).state
        /\ UNCHANGED <<server, job>>
    BY <1>2 DEF MockVerify, Serving, Write, Inv, ProcessInv, TypeOK, StoreTypeOK
  <2>2. durable'.settlements = durable.settlements /\ KeepsKnown(durable, durable')
    BY <2>1, FinalizeEffect, FinalizeKeepsKnown
  <2> QED
    BY <2>1, <2>2, OwnersSame
<1>3. CASE RecordVerified(r) /\ ~(UNCHANGED durable)
  <2>1. req[r].pc = "accepted" /\ req[r] # Idle
    BY <1>3 DEF RecordVerified, Idle
  <2>2. PICK id \in ChallengeIds, digest \in Digests : id = req[r].id /\ digest = req[r].digest
    BY <2>1, BusyRequest DEF Inv, AcceptInv, TypeOK, Payment
  <2>3. mem = durable /\ mem \in StoreState /\ now \in Times
    BY <2>1, BusyRequest DEF Inv, TypeOK, StoreTypeOK
  <2>4. /\ durable' = RecordVerifiedPayment(durable, id, digest, now).state
        /\ UNCHANGED <<server, job>>
    BY <1>3, <2>2, <2>3 DEF RecordVerified, Write, WriteErr, storeVars
  <2>5. durable'.challenges = durable.challenges /\ Known(durable, id)
    BY <1>3, <2>3, <2>4, RecordKnown
  <2>6. Replaced(durable, durable', id, digest, "verified_pending_settlement")
    BY <1>3, <2>3, <2>4, RecordEffect
  <2>7. KnownRecords'
    BY <2>5, <2>6 DEF OwnerInv, KnownRecords, Known, Verified, Replaced
  <2>8. AttemptsOwned'
    BY <2>4, <2>6 DEF OwnerInv, AttemptsOwned, State, Replaced
  <2> QED
    BY <2>7, <2>8 DEF OwnerInv
<1>4. CASE \E id \in ChallengeIds : MockVerify(r, id)
  BY <1>2, <1>4
<1>5. CASE RecordVerified(r)
  <2>1. mem = durable
    BY <1>5, BusyRequest DEF RecordVerified, Idle
  <2> QED
    BY <1>1, <1>3, <1>5, <2>1 DEF RecordVerified, Write, WriteErr, storeVars
<1> QED
  BY <1>1, <1>4, <1>5
  DEF RequestStep, Evaluate, AskFacilitator, FacilitatorAccepts, FacilitatorRejects,
      FacilitatorFails

LEMMA JobOwners ==
  ASSUME ~StoreMayFail, Inv, OwnerInv, NEW j \in Jobs, JobStep(j)
  PROVE  OwnerInv'
<1>1. ASSUME NEW id \in ChallengeIds, NEW digest \in Digests, BeginSettle(j, id, digest)
      PROVE  OwnerInv'
  <2>1. mem = durable /\ mem \in StoreState /\ now \in Times
    BY <1>1 DEF BeginSettle, Serving, Inv, ProcessInv, TypeOK, StoreTypeOK
  <2>2. CASE UNCHANGED <<storeVars, job>>
    BY <2>2, OwnersSame DEF KeepsKnown, storeVars
  <2>3. CASE BeginSettlement(mem, id, digest, now).outcome = "Started"
             /\ Write(BeginSettlement(mem, id, digest, now).state)
             /\ job' = [job EXCEPT ![j] = [pc |-> "begun", id |-> id, digest |-> digest]]
    <3>1. durable' = BeginSettlement(mem, id, digest, now).state
      BY <2>3 DEF Write
    <3>2. /\ durable.settlements[id].state = "verified_pending_settlement"
          /\ Replaced(durable, durable', id, digest, "settlement_in_progress")
          /\ durable'.challenges = durable.challenges
      BY <2>1, <2>3, <3>1, BeginEffect, BeginKnown
    <3>3. Verified(durable, id) /\ KnownRecords'
      BY <3>2 DEF OwnerInv, KnownRecords, Known, Verified, Replaced, NoSettlement
    <3>4. job[j] = Idle
      BY <1>1 DEF BeginSettle, LockFree
    <3>5. job'[j] # Idle /\ job'[j].id = id /\ \A i \in Jobs \ {j} : job'[i] = job[i]
      BY <2>3 DEF Inv, TypeOK, Idle
    <3>6. AttemptsOwned'
      BY <2>3, <3>2, <3>4, <3>5 DEF OwnerInv, AttemptsOwned, State, Replaced, Write
    <3> QED
      BY <3>3, <3>6 DEF OwnerInv
  <2> QED
    BY <1>1, <2>2, <2>3 DEF BeginSettle
<1>2. CASE Dispatch(j)
  <2>1. UNCHANGED storeVars /\ job' = [job EXCEPT ![j].pc = "waiting"] /\ job[j] # Idle
    BY <1>2 DEF Dispatch, SetJob, Idle
  <2>2. /\ job'[j] # Idle /\ job'[j].id = job[j].id
        /\ \A i \in Jobs \ {j} : job'[i] = job[i]
    BY <2>1, JobType DEF Inv, TypeOK, Idle
  <2> QED
    BY <2>1, <2>2 DEF OwnerInv, KnownRecords, AttemptsOwned, State, storeVars
<1>3. ASSUME job[j].pc \in {"begun", "waiting"}, NEW completion \in Completions,
             NEW hash \in Hashes \cup {None}, completion = "Settled" => hash \in Hashes,
             Finish(j, completion, hash)
      PROVE  OwnerInv'
  <2>1. job[j] # Idle
    BY <1>3 DEF Idle
  <2>2. PICK id \in ChallengeIds, digest \in Digests :
          /\ id = job[j].id /\ digest = job[j].digest
          /\ durable.settlements[id].state = "settlement_in_progress"
          /\ durable.settlements[id].request_digest = digest
    BY <2>1, BusyJob DEF State, Bound
  <2>3. mem = durable /\ mem \in StoreState
    BY <2>1, BusyJob DEF Inv, TypeOK, StoreTypeOK
  <2>4. /\ durable' = CompleteSettlement(durable, id, digest, completion, hash).state
        /\ server' = server /\ job' = [job EXCEPT ![j] = Idle]
    BY <1>3, <2>2, <2>3 DEF Finish, Write, WriteErr, EndJob
  <2>5. Known(durable, id)
    BY <2>2 DEF OwnerInv, KnownRecords, Verified, NoSettlement
  <2>6. /\ KeepsKnown(durable, durable')
        /\ Replaced(durable, durable', id, digest, CompletedState(completion))
    BY <1>3, <2>2, <2>3, <2>4, <2>5, CompletionEnds
  <2>7. CompletedState(completion) # "settlement_in_progress"
    BY DEF CompletedState, Completions
  <2>8. KnownRecords'
    BY <2>5, <2>6 DEF OwnerInv, KnownRecords, KeepsKnown, Verified, Replaced
  <2>9. \A i \in Jobs : i # j => job'[i] = job[i]
    BY <2>4 DEF Inv, TypeOK
  <2>10. AttemptsOwned'
    BY <2>2, <2>4, <2>6, <2>7, <2>9 DEF OwnerInv, AttemptsOwned, State, Replaced
  <2> QED
    BY <2>8, <2>10 DEF OwnerInv
<1>4. CASE SettleSucceeds(j) \/ SettleRejected(j) \/ SettleUncertain(j)
  BY <1>3, <1>4 DEF SettleSucceeds, SettleRejected, SettleUncertain, Completions
<1> QED
  BY <1>1, <1>2, <1>4 DEF JobStep

LEMMA StepOwners ==
  ASSUME ~StoreMayFail, Inv, OwnerInv, [Next]_vars
  PROVE  OwnerInv'
<1>1. CASE UNCHANGED <<durable, server, job>>
  BY <1>1, OwnersSame DEF KeepsKnown
<1>2. CASE Unpaid
  <2>1. /\ mem = durable /\ mem \in StoreState /\ now \in Times /\ mem.next_id < MaxId
        /\ durable' = CreateChallenge(mem, now).state /\ UNCHANGED <<server, job>>
    BY <1>2 DEF Unpaid, Write, Serving, Inv, ProcessInv, TypeOK, StoreTypeOK, processVars
  <2>2. durable'.settlements = durable.settlements /\ KeepsKnown(durable, durable')
    BY <2>1, CreateEffect, CreateKeepsKnown
  <2> QED
    BY <2>1, <2>2, OwnersSame
<1>3. CASE Crash
  BY <1>3 DEF Crash, StoreCrash, OwnerInv, KnownRecords, AttemptsOwned
<1>4. CASE Start
  <2>1. CASE StoreRecover
    <3>1. durable' = RecoverInProgress(durable) /\ durable \in StoreState /\ server' = "down"
      BY <2>1 DEF StoreRecover, Inv, TypeOK, StoreTypeOK
    <3>2. durable'.challenges = durable.challenges
      BY <3>1 DEF RecoverInProgress, StoreState
    <3>3. ASSUME NEW id \in ChallengeIds, Verified(durable', id)
          PROVE  Verified(durable, id)
      BY <3>1, <3>3 DEF Verified, RecoverInProgress, InProgress, SettlementState, StoreState,
                        NoSettlement
    <3> QED
      BY <3>1, <3>2, <3>3 DEF OwnerInv, KnownRecords, AttemptsOwned, Known
  <2>2. CASE StoreStart
    <3>1. durable' = durable /\ \A id \in ChallengeIds : State(id) # "settlement_in_progress"
      BY <2>2 DEF StoreStart, InProgress, State, SettlementState
    <3> QED
      BY <3>1 DEF OwnerInv, KnownRecords, AttemptsOwned, State
  <2>3. CASE StoreStartFails
    BY <2>3 DEF StoreStartFails, OwnerInv, KnownRecords, AttemptsOwned
  <2> QED
    BY <1>4, <2>1, <2>2, <2>3 DEF Start
<1> QED
  BY <1>1, <1>2, <1>3, <1>4, RequestOwners, JobOwners
  DEF Next, Execute, Refuse, ClockChanges, vars, storeVars, processVars

------------------------------------------------------------------------------
(* Theorems *)

\* The invariant holds in every state of the paid route, through crashes,
\* failed writes, late answers and changes of the verifier mode.
THEOREM GatewayInvariant == Spec => []Inv
<1>1. Init => Inv
  BY InitInv
<1>2. Inv /\ [Next]_vars => Inv'
  BY NextInv
<1> QED
  BY <1>1, <1>2, PTL DEF Spec

\* No challenge gets a second settle request: settle_after_verified_request
\* sends one only after begin_settlement is stored.
THEOREM OneSettleRequest == Spec => []SingleDispatch
<1>1. Inv => SingleDispatch
  BY DEF Inv, DispatchInv, SingleDispatch
<1> QED
  BY <1>1, GatewayInvariant, PTL

\* A payment the chain executed is settled, in progress or of unknown outcome
\* in the stored state, never open to another attempt.
THEOREM ExecutedPaymentsStayBlocked == Spec => []ExecutedStaysBlocked
<1>1. ASSUME Inv PROVE ExecutedStaysBlocked
  <2>. SUFFICES ASSUME NEW id \in ChallengeIds, executed[id] > 0
                PROVE  SettlementState(durable, id) \in
                         {"settlement_in_progress", "settled",
                          "settlement_outcome_unknown"}
    BY DEF ExecutedStaysBlocked
  <2>1. DispatchInv(id) /\ OutcomeInv(id)
    BY <1>1 DEF Inv
  <2>2. VerdictOf(id) = "executed"
    BY <2>1 DEF OutcomeInv
  <2>3. State(id) # "settlement_rejected"
    BY <2>1, <2>2 DEF OutcomeInv
  <2>4. dispatched[id] = 1
    BY <2>1, <2>2 DEF DispatchInv, VerdictOf
  <2>5. State(id) \notin {"none", "verified_pending_settlement"}
    BY <2>1, <2>4 DEF DispatchInv
  <2>6. State(id) \in SettlementStates
    BY <1>1, <2>5 DEF Inv, TypeOK, StoreTypeOK, StoreState, State, Settlement, NoSettlement
  <2> QED
    BY <2>3, <2>5, <2>6 DEF SettlementStates, SettlementState, State
<1> QED
  BY <1>1, GatewayInvariant, PTL

\* What the store has as settled, and what a call reported as settled, the
\* chain executed exactly once.
THEOREM SettlementsAreExecuted == Spec => []SettledWasExecuted
<1>1. Inv => SettledWasExecuted
  BY DEF Inv, OutcomeInv, SettledWasExecuted, State, SettlementState
<1> QED
  BY <1>1, GatewayInvariant, PTL

\* A payment gets on record only if the facilitator called it valid and the
\* challenge is open when the record is made, however late the facilitator
\* answers and wherever the clock is set meanwhile.
THEOREM PaymentsAreRecordedWhileOpen == Spec => RecordedWhileOpen
<1>1. ASSUME Inv, [Next]_vars
      PROVE  [\A id \in ChallengeIds : RecordedOpen(id)]_vars
  BY <1>1, StepAdvances DEF RecordsAdvance
<1> QED
  BY <1>1, GatewayInvariant, PTL DEF Spec, RecordedWhileOpen

\* A challenge buys one evaluation, and only once its use is stored.
THEOREM OneEvaluation == Spec => []GrantedOnce
<1>1. Inv => GrantedOnce
  BY DEF Inv, GrantInv
<1> QED
  BY <1>1, GatewayInvariant, PTL

\* Whatever verifier the process is restarted with: the stored record of a
\* settlement is bound to one payment for good, goes from verified to in
\* progress to its end and never back, its end with its transaction hash is
\* final, and a challenge that was used stays used.
THEOREM SettlementRecordsAdvance ==
  Spec => [][RecordsAdvance /\ durable.used \subseteq durable'.used]_vars
<1>1. ASSUME Inv, [Next]_vars
      PROVE  [RecordsAdvance /\ durable.used \subseteq durable'.used]_vars
  BY <1>1, StepAdvances
<1> QED
  BY <1>1, GatewayInvariant, PTL DEF Spec

\* When the store does not fail, every attempt that a serving process has on
\* record belongs to a settlement call in progress: none is left behind by a
\* refused completion, a late answer or a restart, so that only the answer or
\* the time-out of that call is waited for.
THEOREM AttemptsHaveOwners ==
  ASSUME ~StoreMayFail
  PROVE  Spec => []AttemptsOwned
<1>1. ASSUME Inv, OwnerInv, [Next]_vars PROVE OwnerInv'
  BY <1>1, StepOwners
<1>2. OwnerInv => AttemptsOwned
  BY DEF OwnerInv
<1> QED
  BY <1>1, <1>2, OwnerInitInv, GatewayInvariant, PTL DEF Spec

\* Every state of the paid route has the shape TypeOK says.
THEOREM GatewayTypes == Spec => []TypeOK
<1>1. Inv => TypeOK
  BY DEF Inv
<1> QED
  BY <1>1, GatewayInvariant, PTL

\* As long as the verifier mode is not changed, what the server stores passes
\* validate_loaded_state and payments are recorded under the facilitator only.
THEOREM LoadInvariant ==
  ASSUME OneMode
  PROVE  Spec => []LoadInv
<1>1. Init => LoadInv
  BY LoadInitInv
<1>2. ASSUME Inv, LoadInv, [Next]_vars PROVE LoadInv'
  BY <1>2, VerifierNextInv
<1> QED
  BY <1>1, <1>2, GatewayInvariant, PTL DEF Spec

\* A restart of a deployment that keeps its verifier mode never finds a store
\* that load() refuses.
THEOREM RestartsFindALoadableStore ==
  ASSUME OneMode
  PROVE  Spec => []StoreAlwaysLoads
<1>1. ASSUME Inv, LoadInv PROVE StoreAlwaysLoads
  <2>1. durable \in StoreState
    BY <1>1 DEF Inv, TypeOK, StoreTypeOK
  <2>2. PICK n : n = RecoverInProgress(durable)
    OBVIOUS
  <2>3. n \in StoreState /\ Sound(n)
    BY <1>1, <2>1, <2>2, RecoverFacts, RecoverMoves DEF LoadInv
  <2> QED
    BY <2>2, <2>3, SoundIsValid DEF StoreAlwaysLoads
<1> QED
  BY <1>1, GatewayInvariant, LoadInvariant, PTL

\* Every step of the server takes at most one challenge one step along its life
\* cycle, or is the recovery of a start.
LEMMA StepFollowsLifecycle ==
  ASSUME OneMode, Inv, LoadInv, [Next]_vars
  PROVE  [Lifecycle!Next]_(Lifecycle!lifecycle)
<1> DEFINE phase == [id \in ChallengeIds |-> LifecyclePhase(id)]
           binding == [id \in ChallengeIds |-> durable.settlements[id].request_digest]
<1>1. \A id \in ChallengeIds : /\ LifecyclePhase(id) = PhaseOf(durable, id)
                               /\ LifecyclePhase(id)' = PhaseOf(durable', id)
  BY DEF LifecyclePhase, PhaseOf, SettlementState, Known
<1>2. /\ phase = [id \in ChallengeIds |-> PhaseOf(durable, id)]
      /\ phase' = [id \in ChallengeIds |-> PhaseOf(durable', id)]
      /\ binding' = [id \in ChallengeIds |-> durable'.settlements[id].request_digest]
  BY <1>1
<1>. HIDE DEF phase
<1>3. \/ NotBinding(durable, durable')
      \/ \E id \in ChallengeIds : Recorded(durable, durable', id)
  BY StepMoves
<1>4. CASE Stays(durable, durable')
  <2>1. phase' = phase /\ binding' = binding
    BY <1>2, <1>4 DEF Stays, SamePhase
  <2> QED
    BY <2>1 DEF phase, Lifecycle!lifecycle
<1>5. CASE Recovered(durable, durable')
  <2>1. /\ phase' = [id \in ChallengeIds |-> IF phase[id] = "in_progress" THEN "unknown"
                                             ELSE phase[id]]
        /\ binding' = binding
    BY <1>2, <1>5 DEF Recovered
  <2> QED
    BY <2>1 DEF phase, Lifecycle!Next, Lifecycle!Restart
<1>6. ASSUME NEW id \in ChallengeIds, NEW from, NEW to,
             Moves(durable, durable', id, from, to)
      PROVE  phase[id] = from /\ phase' = [phase EXCEPT ![id] = to] /\ binding' = binding
  BY <1>2, <1>6 DEF Moves, SamePhase
<1>7. CASE Moved(durable, durable')
  <2>1. PICK id \in ChallengeIds :
          \/ Moves(durable, durable', id, "none", "open")
          \/ Moves(durable, durable', id, "open", "finalized")
          \/ Moves(durable, durable', id, "verified", "in_progress")
          \/ \E end \in {"settled", "rejected", "unknown"} :
               Moves(durable, durable', id, "in_progress", end)
    BY <1>7 DEF Moved
  <2>2. CASE Moves(durable, durable', id, "none", "open")
    BY <1>6, <2>2 DEF phase, Lifecycle!Next, Lifecycle!Issue, Lifecycle!Move
  <2>3. CASE Moves(durable, durable', id, "open", "finalized")
    BY <1>6, <2>3 DEF phase, Lifecycle!Next, Lifecycle!Finalize, Lifecycle!Move
  <2>4. CASE Moves(durable, durable', id, "verified", "in_progress")
    BY <1>6, <2>4 DEF phase, Lifecycle!Next, Lifecycle!StartSettlement, Lifecycle!Move
  <2>5. ASSUME NEW end \in {"settled", "rejected", "unknown"},
               Moves(durable, durable', id, "in_progress", end)
        PROVE  Lifecycle!EndSettlement(id)
    BY <1>6, <2>5 DEF phase, Lifecycle!EndSettlement, Lifecycle!Move, Lifecycle!Ended
  <2> QED
    BY <2>1, <2>2, <2>3, <2>4, <2>5 DEF Lifecycle!Next
<1>8. ASSUME NEW id \in ChallengeIds, Recorded(durable, durable', id)
      PROVE  Lifecycle!Verify(id)
  <2>1. /\ phase[id] = "open" /\ phase' = [phase EXCEPT ![id] = "verified"]
        /\ \E p \in Digests : binding' = [binding EXCEPT ![id] = p]
    BY <1>2, <1>8 DEF Recorded, SamePhase
  <2> QED
    BY <2>1 DEF phase, Lifecycle!Verify, Lifecycle!Move
<1> QED
  BY <1>3, <1>4, <1>5, <1>7, <1>8 DEF NotBinding, Lifecycle!Next

\* As long as the verifier mode is not changed, the paid route implements the
\* life cycle of the contract: every challenge is bound once, settled by one
\* attempt, and its end is final.
THEOREM GatewayFollowsLifecycle ==
  ASSUME OneMode
  PROVE  Spec => ImplementsLifecycle
<1>1. ASSUME Init PROVE Lifecycle!Init
  <2>1. durable = EmptyState
    BY <1>1 DEF Init, StoreInit
  <2>2. \A id \in ChallengeIds : /\ LifecyclePhase(id) = "none"
                                 /\ durable.settlements[id].request_digest = None
    BY <2>1, EmptySound DEF LifecyclePhase, PhaseOf, SettlementState, Known
  <2> QED
    BY <2>2 DEF Lifecycle!Init
<1>2. ASSUME Inv, LoadInv, [Next]_vars
      PROVE  [Lifecycle!Next]_(Lifecycle!lifecycle)
  BY <1>2, StepFollowsLifecycle
<1> QED
  BY <1>1, <1>2, GatewayInvariant, LoadInvariant, PTL
  DEF Spec, ImplementsLifecycle, Lifecycle!Spec
==============================================================================
