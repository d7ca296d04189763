----------------------------- MODULE X402Gateway -----------------------------
(***************************************************************************)
(* The paid route of the server and the settlement gate, over the store of *)
(* X402AtomicStore: the handler of POST /api/x402/stellar/intent-plan      *)
(* (src/bin/neurochain-server.rs), the mock and the facilitator verifier   *)
(* and settle_after_verified_request (src/x402_facilitator.rs).            *)
(*                                                                         *)
(* Requests and settlement jobs take the mutex of the store and keep it    *)
(* while they talk to the facilitator.  The process crashes and restarts   *)
(* at any point, possibly with the other verifier mode; a call of the      *)
(* store may fail; the facilitator accepts, rejects, answers late or not   *)
(* at all, and a settle request that was sent may still be executed after  *)
(* the process stopped waiting for it.  The clock is the system clock: it  *)
(* may be set back.                                                        *)
(*                                                                         *)
(* The facilitator is external: it is taken at its word (it reports a      *)
(* transaction hash for what it executed, a rejection for what it will not *)
(* execute), because src/x402_facilitator.rs takes it so.  Replies that    *)
(* change no state (401, 402, 409, 500, 503) are stuttering steps.         *)
(***************************************************************************)
EXTENDS X402AtomicStore

CONSTANTS
  Modes,        \* verifier modes a process may be started with
  Requests,     \* requests with a payment signature that run concurrently
  Jobs,         \* callers of settle_after_verified_request
  StoreMayFail  \* a call of the store may return Err

ASSUME GatewayAssumption ==
  /\ Modes \subseteq {"mock", "facilitator"}
  /\ StoreMayFail \in BOOLEAN

VARIABLES
  mode,       \* the verifier of the running process
  now,        \* the system clock
  req,        \* the signed requests in progress
  job,        \* the settlement calls in progress
  inflight,   \* settle requests the facilitator has not dealt with
  verdict,    \* what the facilitator did with a settle request
  (* history *)
  accepted,   \* payments the facilitator called valid
  refused,    \* payments the facilitator called invalid
  dispatched, \* how often a settlement of a challenge was sent
  executed,   \* how often the chain executed a payment of a challenge
  granted,    \* how often paid evaluation was given for a challenge
  reported    \* challenges a settlement call reported as paid

processVars == <<mode, req, job>>
externalVars == <<inflight, verdict, executed>>
historyVars == <<accepted, refused, dispatched, granted, reported>>
vars == <<storeVars, processVars, now, externalVars, historyVars>>

Payment == ChallengeIds \X Digests
Idle == [pc |-> "idle", id |-> 0, digest |-> None]
Process(pcs) ==
  {Idle} \cup [pc : pcs, id : ChallengeIds, digest : Digests \cup {None}]

TypeOK ==
  /\ StoreTypeOK
  /\ mode \in {"mock", "facilitator"}
  /\ now \in Times
  /\ req \in [Requests -> Process({"verifying", "accepted", "finalized"})]
  /\ job \in [Jobs -> Process({"begun", "waiting"})]
  /\ inflight \subseteq Payment
  /\ verdict \in [Payment -> {"none", "executed", "refused"}]
  /\ accepted \subseteq Payment
  /\ refused \subseteq Payment
  /\ dispatched \in [ChallengeIds -> Nat]
  /\ executed \in [ChallengeIds -> Nat]
  /\ granted \in [ChallengeIds -> Nat]
  /\ reported \subseteq ChallengeIds

Init ==
  /\ StoreInit
  /\ mode \in Modes
  /\ now = 0
  /\ req = [r \in Requests |-> Idle]
  /\ job = [j \in Jobs |-> Idle]
  /\ inflight = {} /\ verdict = [p \in Payment |-> "none"]
  /\ accepted = {} /\ refused = {} /\ reported = {}
  /\ dispatched = [id \in ChallengeIds |-> 0]
  /\ executed = [id \in ChallengeIds |-> 0]
  /\ granted = [id \in ChallengeIds |-> 0]

------------------------------------------------------------------------------
(* The store under its mutex *)

LockFree ==
  /\ \A r \in Requests : req[r].pc \notin {"verifying", "accepted"}
  /\ \A j \in Jobs : job[j] = Idle

Serving == server = "up"

\* Ok: the store persisted the next state.  Err: it kept the old one.
Write(next) == mem' = next /\ durable' = next /\ UNCHANGED server
WriteErr == StoreMayFail /\ UNCHANGED storeVars

SetReq(r, pc, id, digest) ==
  req' = [req EXCEPT ![r] = [pc |-> pc, id |-> id, digest |-> digest]]
EndReq(r) == req' = [req EXCEPT ![r] = Idle]
SetJob(j, pc) == job' = [job EXCEPT ![j].pc = pc]
EndJob(j) == job' = [job EXCEPT ![j] = Idle]
Bump(count, id) == [count EXCEPT ![id] = @ + 1]

------------------------------------------------------------------------------
(* Requests *)

\* A request without a signature: 402 with a new challenge.
Unpaid ==
  /\ Serving /\ LockFree
  /\ mem.next_id < MaxId
  /\ Write(CreateChallenge(mem, now).state)
  /\ UNCHANGED <<processVars, now, externalVars, historyVars>>

\* Mutant: the payment is granted although the store returned an error.
MockVerifyIgnoresError(r, id) ==
  LET result == BeginFinalize(mem, id, now)
  IN  /\ Serving /\ LockFree /\ mode = "mock"
      /\ req[r] = Idle
      /\ result.outcome # "UnknownChallenge"
      /\ Write(result.state) \/ WriteErr
      /\ IF result.outcome = "Finalized"
         THEN SetReq(r, "finalized", id, None)
         ELSE UNCHANGED req
      /\ UNCHANGED <<mode, job, now, externalVars, historyVars>>

\* "paid:<challenge_id>" under the mock verifier.
MockVerify(r, id) ==
  LET result == BeginFinalize(mem, id, now)
  IN  /\ Serving /\ LockFree /\ mode = "mock"
      /\ req[r] = Idle
      /\ result.outcome # "UnknownChallenge"
      /\ Write(result.state)
      /\ IF result.outcome = "Finalized"
         THEN SetReq(r, "finalized", id, None)
         ELSE UNCHANGED req
      /\ UNCHANGED <<mode, job, now, externalVars, historyVars>>

\* After the mutex is released: the guardrails run, the plan is returned.
Evaluate(r) ==
  /\ Serving
  /\ req[r].pc = "finalized"
  /\ granted' = Bump(granted, req[r].id)
  /\ EndReq(r)
  /\ UNCHANGED <<storeVars, mode, job, now, externalVars,
                 accepted, refused, dispatched, reported>>

\* The facilitator verifier inspects the challenge, then asks the facilitator.
AskFacilitator(r, id, digest) ==
  /\ Serving /\ LockFree /\ mode = "facilitator"
  /\ req[r] = Idle
  /\ Inspection(mem, id, now) = "Available"
  /\ ~Verified(mem, id)
  /\ SetReq(r, "verifying", id, digest)
  /\ UNCHANGED <<storeVars, mode, job, now, externalVars, historyVars>>

FacilitatorAccepts(r) ==
  /\ req[r].pc = "verifying"
  /\ SetReq(r, "accepted", req[r].id, req[r].digest)
  /\ accepted' = accepted \cup {<<req[r].id, req[r].digest>>}
  /\ UNCHANGED <<storeVars, mode, job, now, externalVars,
                 refused, dispatched, granted, reported>>

\* isValid = false: nothing is stored.
FacilitatorRejects(r) ==
  /\ req[r].pc = "verifying"
  /\ EndReq(r)
  /\ refused' = refused \cup {<<req[r].id, req[r].digest>>}
  /\ UNCHANGED <<storeVars, mode, job, now, externalVars,
                 accepted, dispatched, granted, reported>>

\* An unsupported capability, a time-out, an unreadable answer.
FacilitatorFails(r) ==
  /\ req[r].pc = "verifying"
  /\ EndReq(r)
  /\ UNCHANGED <<storeVars, mode, job, now, externalVars, historyVars>>

RecordVerified(r) ==
  /\ req[r].pc = "accepted"
  /\ \/ Write(RecordVerifiedPayment(mem, req[r].id, req[r].digest, now).state)
     \/ WriteErr
  /\ EndReq(r)
  /\ UNCHANGED <<mode, job, now, externalVars, historyVars>>

------------------------------------------------------------------------------
(* settle_after_verified_request, called with an accepted verification *)

BeginSettle(j, id, digest) ==
  LET result == BeginSettlement(mem, id, digest, now)
  IN  /\ Serving /\ LockFree
      /\ <<id, digest>> \in accepted
      /\ \/ /\ result.outcome = "Started"
            /\ Write(result.state)
            /\ job' = [job EXCEPT ![j] =
                         [pc |-> "begun", id |-> id, digest |-> digest]]
            /\ UNCHANGED reported
         \/ /\ result.outcome = "AlreadySettled"
            /\ reported' = reported \cup {id}
            /\ UNCHANGED <<storeVars, job>>
      /\ UNCHANGED <<mode, req, now, externalVars,
                     accepted, refused, dispatched, granted>>

\* transport.settle sends the request.
Dispatch(j) ==
  /\ job[j].pc = "begun"
  /\ SetJob(j, "waiting")
  /\ dispatched' = Bump(dispatched, job[j].id)
  /\ inflight' = inflight \cup {<<job[j].id, job[j].digest>>}
  /\ UNCHANGED <<storeVars, mode, req, now, verdict, executed,
                 accepted, refused, granted, reported>>

\* The call of the store that ends the attempt, and the return.
Finish(j, completion, hash) ==
  LET result == CompleteSettlement(mem, job[j].id, job[j].digest, completion, hash)
  IN  /\ \/ /\ Write(result.state)
            /\ reported' = IF \/ result.outcome = "Completed" /\ completion = "Settled"
                              \/ result.outcome = "AlreadyCompleted"
                                   /\ completion # "OutcomeUnknown"
                           THEN reported \cup {job[j].id} ELSE reported
         \/ WriteErr /\ UNCHANGED reported
      /\ EndJob(j)
      /\ UNCHANGED <<mode, req, now, externalVars,
                     accepted, refused, dispatched, granted>>

\* success = true with a transaction hash.
SettleSucceeds(j) ==
  /\ job[j].pc = "waiting"
  /\ verdict[<<job[j].id, job[j].digest>>] = "executed"
  /\ \E hash \in Hashes : Finish(j, "Settled", hash)

\* Mutant: success is not looked at.
SettleRejectionIgnored(j) ==
  /\ job[j].pc = "waiting"
  /\ verdict[<<job[j].id, job[j].digest>>] = "refused"
  /\ \E hash \in Hashes : Finish(j, "Settled", hash)

\* success = false without a transaction hash.
SettleRejected(j) ==
  /\ job[j].pc = "waiting"
  /\ verdict[<<job[j].id, job[j].digest>>] = "refused"
  /\ Finish(j, "Rejected", None)

\* Mutant: a time-out counts as a rejection.
SettleTimeoutRejects(j) ==
  /\ job[j].pc \in {"begun", "waiting"}
  /\ Finish(j, "Rejected", None)

\* Mutant: a settle request that was sent has no time-out.
SettleWaitsForever(j) ==
  /\ job[j].pc = "begun"
  /\ Finish(j, "OutcomeUnknown", None)

\* The request could not be sent, no answer came in time, or the answer is
\* unreadable or contradicts itself: mark_settlement_outcome_unknown.
SettleUncertain(j) ==
  /\ job[j].pc \in {"begun", "waiting"}
  /\ Finish(j, "OutcomeUnknown", None)

------------------------------------------------------------------------------
(* The facilitator and the chain *)

Execute(p) ==
  /\ p \in inflight
  /\ inflight' = inflight \ {p}
  /\ verdict' = [verdict EXCEPT ![p] = "executed"]
  /\ executed' = Bump(executed, p[1])
  /\ UNCHANGED <<storeVars, processVars, now, historyVars>>

Refuse(p) ==
  /\ p \in inflight
  /\ inflight' = inflight \ {p}
  /\ verdict' = [verdict EXCEPT ![p] = "refused"]
  /\ UNCHANGED <<storeVars, processVars, now, executed, historyVars>>

------------------------------------------------------------------------------
(* The process and the clock *)

Crash ==
  /\ StoreCrash
  /\ req' = [r \in Requests |-> Idle]
  /\ job' = [j \in Jobs |-> Idle]
  /\ UNCHANGED <<mode, now, externalVars, historyVars>>

\* build_x402_challenge_store and build_x402_payment_verifier.
Start ==
  /\ \/ StoreRecover
     \/ StoreStart
     \/ (StoreMayFail \/ ~ValidState(RecoverInProgress(durable))) /\ StoreStartFails
  /\ mode' \in Modes
  /\ UNCHANGED <<req, job, now, externalVars, historyVars>>

ClockChanges ==
  /\ now' \in Times \ {now}
  /\ UNCHANGED <<storeVars, processVars, externalVars, historyVars>>

RequestStep(r) ==
  \/ \E id \in ChallengeIds : MockVerify(r, id)
  \/ Evaluate(r)
  \/ \E id \in ChallengeIds, digest \in Digests : AskFacilitator(r, id, digest)
  \/ FacilitatorAccepts(r)
  \/ FacilitatorRejects(r)
  \/ FacilitatorFails(r)
  \/ RecordVerified(r)

JobStep(j) ==
  \/ \E id \in ChallengeIds, digest \in Digests : BeginSettle(j, id, digest)
  \/ Dispatch(j)
  \/ SettleSucceeds(j)
  \/ SettleRejected(j)
  \/ SettleUncertain(j)

Next ==
  \/ Unpaid
  \/ \E r \in Requests : RequestStep(r)
  \/ \E j \in Jobs : JobStep(j)
  \/ \E p \in Payment : Execute(p) \/ Refuse(p)
  \/ Crash
  \/ Start
  \/ ClockChanges

Spec == Init /\ [][Next]_vars

(***************************************************************************)
(* Fairness.  Every blocking call of the facilitator client has a bounded  *)
(* time-out (X402FacilitatorConfig::validate), so a request or a           *)
(* settlement that waits is answered or gives up; a task that holds the    *)
(* mutex runs on; a stopped server is started again by its operator.       *)
(***************************************************************************)
Fairness ==
  /\ \A r \in Requests :
       /\ WF_vars(FacilitatorFails(r))
       /\ WF_vars(RecordVerified(r))
  /\ \A j \in Jobs : WF_vars(Dispatch(j)) /\ WF_vars(SettleUncertain(j))
  /\ WF_vars(Start)

FairSpec == Spec /\ Fairness

------------------------------------------------------------------------------
(* Properties *)

\* A challenge gets one settlement attempt: no retry, crash, failed write or
\* restart sends a second settle request (begin_settlement is stored first).
SingleDispatch == \A id \in ChallengeIds : dispatched[id] <= 1

\* A payment the chain executed is never on record as open, as verified or as
\* rejected: a time-out, a crash or a failed write after the request was sent
\* leaves it blocked for every later attempt.
ExecutedStaysBlocked ==
  \A id \in ChallengeIds : executed[id] > 0 =>
    SettlementState(durable, id) \in
      {"settlement_in_progress", "settled", "settlement_outcome_unknown"}

\* What the store or a settlement call reports as settled was executed by the
\* chain, once.
SettledWasExecuted ==
  \A id \in ChallengeIds :
    SettlementState(durable, id) = "settled" \/ id \in reported =>
      executed[id] = 1

\* A payment gets on record only if the facilitator called this payment valid
\* for this challenge and the challenge is still open when it is recorded: the
\* facilitator may answer after the challenge expired, and what was seen before
\* it was asked does not count (record_verified_payment inspects again).
RecordedOpen(id) ==
  Verified(durable', id) /\ ~Verified(durable, id) =>
    /\ Inspection(durable, id, now) = "Available"
    /\ <<id, durable'.settlements[id].request_digest>> \in accepted

RecordedWhileOpen == [][\A id \in ChallengeIds : RecordedOpen(id)]_vars

\* A challenge pays for one evaluation, and no evaluation runs before a
\* restart would know the challenge as used.
GrantedOnce ==
  \A id \in ChallengeIds :
    /\ granted[id] <= 1
    /\ granted[id] > 0 => id \in durable.used

\* load() accepts every state the server stores (validate_loaded_state), so a
\* restart never makes the store refuse service for good.
StoreAlwaysLoads == ValidState(RecoverInProgress(durable))

\* The stored state of each challenge follows the life cycle of the contract:
\* no phase is skipped or left again, and the binding never changes.
LifecyclePhase(id) ==
  LET state == SettlementState(durable, id)
  IN  CASE state = "settled" -> "settled"
        [] state # "settled" /\ durable.challenges[id].finalized -> "finalized"
        [] OTHER ->
             CASE state = "verified_pending_settlement" -> "verified"
               [] state = "settlement_in_progress" -> "in_progress"
               [] state = "settlement_rejected" -> "rejected"
               [] state = "settlement_outcome_unknown" -> "unknown"
               [] OTHER -> IF Known(durable, id) THEN "open" ELSE "none"

Lifecycle == INSTANCE X402Lifecycle WITH
  Ids <- ChallengeIds, Payments <- Digests, Unbound <- None,
  phase <- [id \in ChallengeIds |-> LifecyclePhase(id)],
  binding <- [id \in ChallengeIds |-> durable.settlements[id].request_digest]

ImplementsLifecycle == Lifecycle!Spec

\* A payment the facilitator rejected is never recorded as verified later.
RejectedStaysRejected ==
  \A id \in ChallengeIds : Verified(durable, id) =>
    <<id, durable.settlements[id].request_digest>> \notin refused

\* The mutex of the store is always released again, also when the facilitator
\* never answers.
MutexReleased == []<>LockFree

\* An attempt that was stored as started gets a final state, after a crash by
\* the restart (given that the file system works).
StartedSettlementEnds ==
  \A id \in ChallengeIds :
    SettlementState(durable, id) = "settlement_in_progress"
      ~> SettlementState(durable, id) \in TerminalStates
==============================================================================
