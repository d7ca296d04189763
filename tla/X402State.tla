------------------------------ MODULE X402State ------------------------------
(***************************************************************************)
(* The challenge, replay and settlement state of the x402 gateway and the  *)
(* transitions X402StellarState performs on it (src/x402_store.rs).  The   *)
(* module has no variables: a transition maps a state value and the clock  *)
(* to an outcome and the next state value, as the Rust methods do.         *)
(*                                                                         *)
(* The ids "x402s0001", "x402s0002", ... are the numbers 1, 2, ...  The    *)
(* maps are total: an id that is no key of the HashMap has the value       *)
(* NoChallenge or NoSettlement.  The time stamps that nothing reads back   *)
(* (created_at, finalized_at, verified_at, settlement_started_at,          *)
(* settlement_completed_at) are left out; expires_at is kept.              *)
(***************************************************************************)
EXTENDS Naturals

CONSTANTS
  MaxId,     \* bound: challenges created in a behaviour
  Digests,   \* request digests: 64 hex digits (is_request_digest)
  Hashes,    \* transaction hashes: 64 hex digits (is_stellar_transaction_hash)
  None,      \* no digest, no hash
  TTL,       \* NC_X402_STELLAR_TTL_SECS
  MaxTime    \* bound: the clock reads 0 .. MaxTime

ASSUME MaxIdAssumption == MaxId \in Nat
ASSUME NoneAssumption == None \notin Digests /\ None \notin Hashes
ASSUME TimeAssumption == TTL \in Nat /\ MaxTime \in Nat

ChallengeIds == 1 .. MaxId
Times == 0 .. MaxTime

PaymentStates ==
  {"payment_required", "replay_blocked", "expired", "finalized", "settled"}

SettlementStates ==
  {"verified_pending_settlement", "settlement_in_progress", "settled",
   "settlement_rejected", "settlement_outcome_unknown"}

\* The states a settlement attempt ends in.
TerminalStates ==
  {"settled", "settlement_rejected", "settlement_outcome_unknown"}

Challenge ==
  [expires_at : Nat, finalized : BOOLEAN, payment_state : PaymentStates]

NoChallenge ==
  [expires_at |-> 0, finalized |-> FALSE, payment_state |-> "none"]

Settlement ==
  [request_digest : Digests, state : SettlementStates,
   transaction_hash : Hashes \cup {None}]

NoSettlement ==
  [request_digest |-> None, state |-> "none", transaction_hash |-> None]

StoreState ==
  [next_id     : 0 .. MaxId,
   challenges  : [ChallengeIds -> Challenge \cup {NoChallenge}],
   used        : SUBSET ChallengeIds,
   settlements : [ChallengeIds -> Settlement \cup {NoSettlement}]]

\* X402StellarState::default()
EmptyState ==
  [next_id     |-> 0,
   challenges  |-> [id \in ChallengeIds |-> NoChallenge],
   used        |-> {},
   settlements |-> [id \in ChallengeIds |-> NoSettlement]]

Known(s, id) == s.challenges[id] # NoChallenge
Verified(s, id) == s.settlements[id] # NoSettlement
Consumed(s, id) == id \in s.used \/ s.challenges[id].finalized
ExpiredAt(s, id, now) == now >= s.challenges[id].expires_at
BoundTo(s, id, digest) == s.settlements[id].request_digest = digest
SettlementState(s, id) == s.settlements[id].state

Result(outcome, s) == [outcome |-> outcome, state |-> s]

------------------------------------------------------------------------------
(* Challenges *)

CreateChallenge(s, now) ==
  LET id == s.next_id + 1
  IN  Result("Created",
        [s EXCEPT !.next_id = id,
                  !.challenges[id] = [expires_at |-> now + TTL,
                                      finalized |-> FALSE,
                                      payment_state |-> "payment_required"]])

\* inspect_challenge: what a verification may start from; nothing changes.
Inspection(s, id, now) ==
  IF ~Known(s, id) THEN "UnknownChallenge"
  ELSE IF Consumed(s, id) THEN "ReplayBlocked"
  ELSE IF ExpiredAt(s, id, now) THEN "Expired"
  ELSE "Available"

SetPaymentState(s, id, ps) == [s EXCEPT !.challenges[id].payment_state = ps]

MarkUsed(s, id, ps) ==
  [s EXCEPT !.challenges[id] = [@ EXCEPT !.finalized = TRUE, !.payment_state = ps],
            !.used = @ \cup {id}]

\* The finalization of the mock verifier: it looks at no settlement record.
BeginFinalize(s, id, now) ==
  LET seen == Inspection(s, id, now)
  IN  CASE seen = "UnknownChallenge" -> Result(seen, s)
        [] seen = "ReplayBlocked" ->
             Result(seen, SetPaymentState(s, id, "replay_blocked"))
        [] seen = "Expired" -> Result(seen, SetPaymentState(s, id, "expired"))
        [] seen = "Available" ->
             Result("Finalized", MarkUsed(s, id, "finalized"))

------------------------------------------------------------------------------
(* Settlements *)

SetSettlement(s, id, record) == [s EXCEPT !.settlements[id] = record]

\* Mutant: a challenge that expired while the facilitator was asked is open.
RecordVerificationLate(s, id, digest, now) ==
  IF digest \notin Digests THEN "BindingMismatch"
  ELSE IF Inspection(s, id, now) \notin {"Available", "Expired"}
       THEN Inspection(s, id, now)
  ELSE IF ~Verified(s, id) THEN "Recorded"
  ELSE IF ~BoundTo(s, id, digest) THEN "BindingMismatch"
  ELSE IF SettlementState(s, id) = "verified_pending_settlement"
       THEN "AlreadyRecorded"
  ELSE "SettlementBlocked"

RecordVerificationOutcome(s, id, digest, now) ==
  IF digest \notin Digests THEN "BindingMismatch"
  ELSE IF Inspection(s, id, now) # "Available" THEN Inspection(s, id, now)
  ELSE IF ~Verified(s, id) THEN "Recorded"
  ELSE IF ~BoundTo(s, id, digest) THEN "BindingMismatch"
  ELSE IF SettlementState(s, id) = "verified_pending_settlement"
       THEN "AlreadyRecorded"
  ELSE "SettlementBlocked"

RecordVerifiedPayment(s, id, digest, now) ==
  LET outcome == RecordVerificationOutcome(s, id, digest, now)
  IN  Result(outcome,
        IF outcome # "Recorded" THEN s
        ELSE SetSettlement(s, id,
               [request_digest |-> digest,
                state |-> "verified_pending_settlement",
                transaction_hash |-> None]))

\* Mutant: an attempt found in progress is started again, as a retry would.
BeginSettlementRetries(s, id, digest, now) ==
  IF Inspection(s, id, now) # "Available" THEN Inspection(s, id, now)
  ELSE IF ~Verified(s, id) THEN "NotVerified"
  ELSE IF ~BoundTo(s, id, digest) THEN "BindingMismatch"
  ELSE IF SettlementState(s, id) \in
            {"verified_pending_settlement", "settlement_in_progress"}
       THEN "Started" ELSE "Blocked"

BeginSettlementOutcome(s, id, digest, now) ==
  LET seen == Inspection(s, id, now)
      state == SettlementState(s, id)
  IN  IF seen = "ReplayBlocked"
      THEN IF BoundTo(s, id, digest) /\ state = "settled"
           THEN "AlreadySettled" ELSE "ReplayBlocked"
      ELSE IF seen # "Available" THEN seen
      ELSE IF ~Verified(s, id) THEN "NotVerified"
      ELSE IF ~BoundTo(s, id, digest) THEN "BindingMismatch"
      ELSE CASE state = "verified_pending_settlement" -> "Started"
             [] state = "settlement_in_progress" -> "AlreadyInProgress"
             [] state = "settled" -> "AlreadySettled"
             [] OTHER -> "Blocked"

BeginSettlement(s, id, digest, now) ==
  LET outcome == BeginSettlementOutcome(s, id, digest, now)
  IN  Result(outcome,
        IF outcome # "Started" THEN s
        ELSE SetSettlement(s, id,
               [s.settlements[id] EXCEPT !.state = "settlement_in_progress"]))

\* X402SettlementCompletion; the hash of a refusal is not looked at.
Completions == {"Settled", "Rejected", "OutcomeUnknown"}

\* Mutant: the name of the completion is stored as the state.
CompletedStateUnmapped(completion) ==
  IF completion = "Settled" THEN "settled" ELSE completion

CompletedState(completion) ==
  CASE completion = "Settled" -> "settled"
    [] completion = "Rejected" -> "settlement_rejected"
    [] completion = "OutcomeUnknown" -> "settlement_outcome_unknown"

CompleteSettlementOutcome(s, id, digest, completion, hash) ==
  IF ~Known(s, id) THEN "UnknownChallenge"
  ELSE IF ~Verified(s, id) THEN "NotVerified"
  ELSE IF ~BoundTo(s, id, digest) THEN "BindingMismatch"
  ELSE IF SettlementState(s, id) = "settled" THEN "AlreadyCompleted"
  ELSE IF SettlementState(s, id) # "settlement_in_progress"
          \/ (completion = "Settled" /\ hash \notin Hashes)
       THEN "StateConflict"
  ELSE "Completed"

\* Mutant: a settled payment does not finalize its challenge.
CompleteSettlementOnly(s, id, digest, completion, hash) ==
  LET outcome == CompleteSettlementOutcome(s, id, digest, completion, hash)
  IN  Result(outcome,
        IF outcome # "Completed" THEN s
        ELSE SetSettlement(s, id,
               [s.settlements[id] EXCEPT
                  !.state = CompletedState(completion),
                  !.transaction_hash = IF completion = "Settled" THEN hash ELSE @]))

CompleteSettlement(s, id, digest, completion, hash) ==
  LET outcome == CompleteSettlementOutcome(s, id, digest, completion, hash)
      ended == SetSettlement(s, id,
                 [s.settlements[id] EXCEPT
                    !.state = CompletedState(completion),
                    !.transaction_hash = IF completion = "Settled" THEN hash ELSE @])
  IN  Result(outcome,
        IF outcome # "Completed" THEN s
        ELSE IF completion = "Settled" THEN MarkUsed(ended, id, "settled")
        ELSE ended)

------------------------------------------------------------------------------
(* The operations together *)

\* One operation of the store on the state s, at a time the clock may read.
\* The operations that leave the state alone are stuttering steps.
Transition(s, t, next) ==
  \/ /\ s.next_id < MaxId
     /\ next = CreateChallenge(s, t).state
  \/ \E id \in ChallengeIds : next = BeginFinalize(s, id, t).state
  \/ \E id \in ChallengeIds, digest \in Digests :
       \/ next = RecordVerifiedPayment(s, id, digest, t).state
       \/ next = BeginSettlement(s, id, digest, t).state
       \/ \E completion \in Completions, hash \in Hashes \cup {None} :
            next = CompleteSettlement(s, id, digest, completion, hash).state

------------------------------------------------------------------------------
(* Loading a stored state *)

InProgress(s) ==
  {id \in ChallengeIds : SettlementState(s, id) = "settlement_in_progress"}

\* Mutant: a settlement left in progress becomes open for another attempt.
RecoverForRetry(s) ==
  [s EXCEPT !.settlements =
     [id \in ChallengeIds |->
        IF id \in InProgress(s)
        THEN [s.settlements[id] EXCEPT !.state = "verified_pending_settlement"]
        ELSE s.settlements[id]]]

\* A settlement that a stopped process left in progress has an unknown end.
RecoverInProgress(s) ==
  [s EXCEPT !.settlements =
     [id \in ChallengeIds |->
        IF id \in InProgress(s)
        THEN [s.settlements[id] EXCEPT !.state = "settlement_outcome_unknown"]
        ELSE s.settlements[id]]]

\* validate_loaded_state accepts the state.
ValidState(s) ==
  /\ \A id \in s.used : Known(s, id) /\ s.challenges[id].finalized
  /\ \A id \in ChallengeIds : Verified(s, id) =>
       /\ Known(s, id)
       /\ s.settlements[id].request_digest \in Digests
       /\ IF SettlementState(s, id) = "settled"
          THEN /\ s.settlements[id].transaction_hash \in Hashes
               /\ s.challenges[id].finalized
               /\ id \in s.used
          ELSE /\ s.settlements[id].transaction_hash = None
               /\ ~s.challenges[id].finalized
==============================================================================
