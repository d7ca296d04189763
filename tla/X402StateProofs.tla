--------------------------- MODULE X402StateProofs ---------------------------
(***************************************************************************)
(* What the transitions of X402State preserve: the shape of the state, the *)
(* set of used challenges and the id counter.                              *)
(***************************************************************************)
EXTENDS X402State, TLAPS

USE MaxIdAssumption, NoneAssumption, TimeAssumption

\* A new challenge: X402StellarState::create_challenge.
LEMMA CreateFacts ==
  ASSUME NEW s \in StoreState, NEW t \in Times, s.next_id < MaxId,
         NEW n, n = CreateChallenge(s, t).state
  PROVE  n \in StoreState /\ n.used = s.used /\ s.next_id <= n.next_id
<1> DEFINE id == s.next_id + 1
           c == [expires_at |-> t + TTL, finalized |-> FALSE,
                 payment_state |-> "payment_required"]
<1>1. n = [s EXCEPT !.next_id = id, !.challenges[id] = c]
  BY DEF CreateChallenge, Result
<1>2. c \in Challenge
  BY DEF Challenge, PaymentStates, Times
<1>3. id \in ChallengeIds /\ id \in 0 .. MaxId /\ s.next_id <= id
  BY DEF ChallengeIds, StoreState
<1>. DEFINE ch == [s.challenges EXCEPT ![id] = c]
<1>. HIDE DEF c, id
<1>4. ch \in [ChallengeIds -> Challenge \cup {NoChallenge}]
  BY <1>2, <1>3 DEF StoreState
<1>5. n = [s EXCEPT !.next_id = id, !.challenges = ch]
  BY <1>1 DEF StoreState
<1>. HIDE DEF ch
<1> QED
  BY <1>3, <1>4, <1>5 DEF StoreState

\* The payment state of a known challenge is overwritten.
LEMMA SetPaymentStateFacts ==
  ASSUME NEW s \in StoreState, NEW id \in ChallengeIds, Known(s, id),
         NEW ps \in PaymentStates,
         NEW n, n = SetPaymentState(s, id, ps)
  PROVE  n \in StoreState /\ n.used = s.used /\ n.next_id = s.next_id
<1> DEFINE c == [s.challenges[id] EXCEPT !.payment_state = ps]
<1>1. c \in Challenge
  BY DEF StoreState, Challenge, Known
<1>2. n = [s EXCEPT !.challenges[id] = c]
  BY DEF SetPaymentState
<1>. HIDE DEF c
<1> QED
  BY <1>1, <1>2 DEF StoreState

\* A known challenge is finalized and enters used_challenges.
LEMMA MarkUsedFacts ==
  ASSUME NEW s \in StoreState, NEW id \in ChallengeIds, Known(s, id),
         NEW ps \in PaymentStates,
         NEW n, n = MarkUsed(s, id, ps)
  PROVE  n \in StoreState /\ s.used \subseteq n.used /\ n.next_id = s.next_id
<1> DEFINE c == [s.challenges[id] EXCEPT !.finalized = TRUE, !.payment_state = ps]
<1>1. c \in Challenge
  BY DEF StoreState, Challenge, Known
<1>2. n = [s EXCEPT !.challenges[id] = c, !.used = @ \cup {id}]
  BY DEF MarkUsed
<1>. DEFINE ch == [s.challenges EXCEPT ![id] = c]
<1>. HIDE DEF c
<1>3. ch \in [ChallengeIds -> Challenge \cup {NoChallenge}]
  BY <1>1 DEF StoreState
<1>4. n = [s EXCEPT !.challenges = ch, !.used = @ \cup {id}]
  BY <1>2 DEF StoreState
<1>. HIDE DEF ch
<1> QED
  BY <1>3, <1>4, ZenonT(40) DEF StoreState

\* X402StellarState::begin_finalize.
LEMMA FinalizeFacts ==
  ASSUME NEW s \in StoreState, NEW id \in ChallengeIds, NEW t \in Times,
         NEW n, n = BeginFinalize(s, id, t).state
  PROVE  n \in StoreState /\ s.used \subseteq n.used /\ s.next_id <= n.next_id
<1>0. s.next_id <= s.next_id
  BY DEF StoreState
<1>1. CASE Inspection(s, id, t) = "UnknownChallenge"
  BY <1>0, <1>1 DEF BeginFinalize, Result
<1>2. CASE Inspection(s, id, t) = "ReplayBlocked"
  <2>1. n = SetPaymentState(s, id, "replay_blocked") /\ Known(s, id)
    BY <1>2 DEF BeginFinalize, Result, Inspection
  <2> QED BY <1>0, <2>1, SetPaymentStateFacts DEF PaymentStates
<1>3. CASE Inspection(s, id, t) = "Expired"
  <2>1. n = SetPaymentState(s, id, "expired") /\ Known(s, id)
    BY <1>3 DEF BeginFinalize, Result, Inspection
  <2> QED BY <1>0, <2>1, SetPaymentStateFacts DEF PaymentStates
<1>4. CASE Inspection(s, id, t) = "Available"
  <2>1. n = MarkUsed(s, id, "finalized") /\ Known(s, id)
    BY <1>4 DEF BeginFinalize, Result, Inspection
  <2> QED BY <1>0, <2>1, MarkUsedFacts DEF PaymentStates
<1> QED
  BY <1>1, <1>2, <1>3, <1>4 DEF Inspection

\* A settlement record is inserted or replaced.
LEMMA SetSettlementFacts ==
  ASSUME NEW s \in StoreState, NEW id \in ChallengeIds, NEW r \in Settlement
  PROVE  /\ SetSettlement(s, id, r) \in StoreState
         /\ SetSettlement(s, id, r).used = s.used
         /\ SetSettlement(s, id, r).next_id = s.next_id
         /\ SetSettlement(s, id, r).challenges = s.challenges
         /\ SetSettlement(s, id, r).settlements = [s.settlements EXCEPT ![id] = r]
  BY DEF StoreState, SetSettlement

\* X402StellarState::record_verified_payment.
LEMMA RecordFacts ==
  ASSUME NEW s \in StoreState, NEW id \in ChallengeIds, NEW digest \in Digests,
         NEW t \in Times,
         NEW n, n = RecordVerifiedPayment(s, id, digest, t).state
  PROVE  n \in StoreState /\ n.used = s.used /\ n.next_id = s.next_id
<1> DEFINE r == [request_digest |-> digest,
                 state |-> "verified_pending_settlement",
                 transaction_hash |-> None]
<1>1. r \in Settlement
  BY DEF Settlement, SettlementStates
<1>2. n = s \/ n = SetSettlement(s, id, r)
  BY DEF RecordVerifiedPayment, Result
<1>. DEFINE m == SetSettlement(s, id, r)
<1>. HIDE DEF r
<1>3. m \in StoreState /\ m.used = s.used /\ m.next_id = s.next_id
  BY <1>1, SetSettlementFacts
<1> QED
  BY <1>2, <1>3

\* X402StellarState::begin_settlement.
LEMMA BeginFacts ==
  ASSUME NEW s \in StoreState, NEW id \in ChallengeIds, NEW digest \in Digests,
         NEW t \in Times,
         NEW n, n = BeginSettlement(s, id, digest, t).state
  PROVE  n \in StoreState /\ n.used = s.used /\ n.next_id = s.next_id
<1> DEFINE r == [s.settlements[id] EXCEPT !.state = "settlement_in_progress"]
<1>1. CASE BeginSettlementOutcome(s, id, digest, t) # "Started"
  BY <1>1 DEF BeginSettlement, Result
<1>2. CASE BeginSettlementOutcome(s, id, digest, t) = "Started"
  <2>1. Verified(s, id)
    BY <1>2 DEF BeginSettlementOutcome, Inspection
  <2>2. r \in Settlement
    BY <2>1 DEF StoreState, Verified, Settlement, SettlementStates
  <2>3. n = SetSettlement(s, id, r)
    BY <1>2 DEF BeginSettlement, Result
  <2>. DEFINE m == SetSettlement(s, id, r)
  <2>. HIDE DEF r
  <2>4. m \in StoreState /\ m.used = s.used /\ m.next_id = s.next_id
    BY <2>2, SetSettlementFacts
  <2> QED
    BY <2>3, <2>4
<1> QED
  BY <1>1, <1>2

\* X402StellarState::complete_settlement.
LEMMA CompleteFacts ==
  ASSUME NEW s \in StoreState, NEW id \in ChallengeIds, NEW digest \in Digests,
         NEW completion \in Completions, NEW hash \in Hashes \cup {None},
         NEW n, n = CompleteSettlement(s, id, digest, completion, hash).state
  PROVE  n \in StoreState /\ s.used \subseteq n.used /\ n.next_id = s.next_id
<1> DEFINE outcome == CompleteSettlementOutcome(s, id, digest, completion, hash)
           r == [s.settlements[id] EXCEPT
                   !.state = CompletedState(completion),
                   !.transaction_hash = IF completion = "Settled" THEN hash ELSE @]
           ended == SetSettlement(s, id, r)
<1>1. CASE outcome # "Completed"
  BY <1>1 DEF CompleteSettlement, Result
<1>2. CASE outcome = "Completed"
  <2>1. Verified(s, id) /\ Known(s, id)
    BY <1>2 DEF CompleteSettlementOutcome
  <2>2. r \in Settlement
    BY <2>1 DEF StoreState, Verified, Settlement, SettlementStates,
                CompletedState, Completions
  <2>3. n = IF completion = "Settled" THEN MarkUsed(ended, id, "settled") ELSE ended
    BY <1>2 DEF CompleteSettlement, Result
  <2>. HIDE DEF r
  <2>4. /\ ended \in StoreState
        /\ ended.used = s.used /\ ended.next_id = s.next_id
        /\ ended.challenges = s.challenges
    BY <2>2, SetSettlementFacts
  <2>5. Known(ended, id)
    BY <2>1, <2>4 DEF Known
  <2>. HIDE DEF ended
  <2>6. CASE completion # "Settled"
    BY <2>3, <2>4, <2>6
  <2>7. CASE completion = "Settled"
    BY <2>3, <2>4, <2>5, <2>7, MarkUsedFacts DEF PaymentStates
  <2> QED
    BY <2>6, <2>7
<1> QED
  BY <1>1, <1>2

\* The recovery of settlements that were in progress, in load().
LEMMA RecoverFacts ==
  ASSUME NEW s \in StoreState, NEW n, n = RecoverInProgress(s)
  PROVE  /\ n \in StoreState
         /\ n.used = s.used /\ n.next_id = s.next_id
         /\ InProgress(s) = {} => n = s
         /\ InProgress(n) = {}
         /\ RecoverInProgress(n) = n
<1> DEFINE rec == [id \in ChallengeIds |->
                     IF id \in InProgress(s)
                     THEN [s.settlements[id] EXCEPT
                             !.state = "settlement_outcome_unknown"]
                     ELSE s.settlements[id]]
<1>1. n = [s EXCEPT !.settlements = rec]
  BY DEF RecoverInProgress
<1>2. ASSUME NEW id \in ChallengeIds
      PROVE  rec[id] \in Settlement \cup {NoSettlement}
  BY DEF InProgress, SettlementState, StoreState, Settlement, SettlementStates,
         NoSettlement
<1>3. ASSUME NEW id \in ChallengeIds
      PROVE  rec[id].state # "settlement_in_progress"
  BY DEF InProgress, SettlementState, StoreState, Settlement, NoSettlement
<1>4. InProgress(s) = {} => rec = s.settlements
  BY DEF StoreState
<1>5. rec \in [ChallengeIds -> Settlement \cup {NoSettlement}]
  BY <1>2
<1>. HIDE DEF rec
<1>6. n \in StoreState /\ n.used = s.used /\ n.next_id = s.next_id
      /\ n.settlements = rec
  BY <1>1, <1>5 DEF StoreState
<1>7. InProgress(s) = {} => n = s
  BY <1>1, <1>4 DEF StoreState
<1>8. InProgress(n) = {}
  BY <1>3, <1>6 DEF InProgress, SettlementState
<1>9. RecoverInProgress(n) = n
  <2>1. [id \in ChallengeIds |->
           IF id \in InProgress(n)
           THEN [n.settlements[id] EXCEPT !.state = "settlement_outcome_unknown"]
           ELSE n.settlements[id]] = n.settlements
    BY <1>8, <1>6 DEF StoreState
  <2> QED
    BY <2>1, <1>6 DEF RecoverInProgress, StoreState
<1> QED
  BY <1>6, <1>7, <1>8, <1>9

\* The state in which nothing happened yet.
LEMMA EmptyFacts ==
  EmptyState \in StoreState /\ InProgress(EmptyState) = {} /\ EmptyState.next_id = 0
BY DEF EmptyState, StoreState, InProgress, SettlementState, NoSettlement, ChallengeIds

\* Every operation of the store keeps the shape of the state, forgets no used
\* challenge and never takes the id counter back.
LEMMA TransitionFacts ==
  ASSUME NEW s \in StoreState, NEW t \in Times, NEW n, Transition(s, t, n)
  PROVE  n \in StoreState /\ s.used \subseteq n.used /\ s.next_id <= n.next_id
<1>0. s.next_id <= s.next_id
  BY DEF StoreState
<1>1. CASE s.next_id < MaxId /\ n = CreateChallenge(s, t).state
  BY <1>1, CreateFacts
<1>2. CASE \E id \in ChallengeIds : n = BeginFinalize(s, id, t).state
  BY <1>2, FinalizeFacts
<1>3. CASE \E id \in ChallengeIds, digest \in Digests :
             n = RecordVerifiedPayment(s, id, digest, t).state
  BY <1>0, <1>3, RecordFacts
<1>4. CASE \E id \in ChallengeIds, digest \in Digests :
             n = BeginSettlement(s, id, digest, t).state
  BY <1>0, <1>4, BeginFacts
<1>5. CASE \E id \in ChallengeIds, digest \in Digests,
               completion \in Completions, hash \in Hashes \cup {None} :
             n = CompleteSettlement(s, id, digest, completion, hash).state
  <2>1. PICK id \in ChallengeIds, digest \in Digests, completion \in Completions,
             hash \in Hashes \cup {None} :
               n = CompleteSettlement(s, id, digest, completion, hash).state
    BY <1>5
  <2> QED
    BY <1>0, <2>1, CompleteFacts
<1> QED
  BY <1>1, <1>2, <1>3, <1>4, <1>5 DEF Transition

------------------------------------------------------------------------------
(* What each operation does to the records of the settlements *)

\* The record of one settlement is replaced by one with this state.
Replaced(s, n, id, digest, state) ==
  /\ \A other \in ChallengeIds \ {id} : n.settlements[other] = s.settlements[other]
  /\ n.settlements[id].request_digest = digest
  /\ n.settlements[id].state = state

\* A new challenge and the mock finalization touch no settlement.
LEMMA CreateEffect ==
  ASSUME NEW s \in StoreState, NEW t \in Times,
         NEW n, n = CreateChallenge(s, t).state
  PROVE  n.settlements = s.settlements
BY DEF CreateChallenge, Result, StoreState

LEMMA FinalizeEffect ==
  ASSUME NEW s \in StoreState, NEW id \in ChallengeIds, NEW t \in Times,
         NEW n, n = BeginFinalize(s, id, t).state
  PROVE  /\ n.settlements = s.settlements
         /\ BeginFinalize(s, id, t).outcome = "Finalized" =>
              id \notin s.used /\ id \in n.used
<1>1. CASE Inspection(s, id, t) = "UnknownChallenge"
  BY <1>1 DEF BeginFinalize, Result
<1>2. CASE Inspection(s, id, t) = "ReplayBlocked"
  BY <1>2 DEF BeginFinalize, Result, SetPaymentState, StoreState
<1>3. CASE Inspection(s, id, t) = "Expired"
  BY <1>3 DEF BeginFinalize, Result, SetPaymentState, StoreState
<1>4. CASE Inspection(s, id, t) = "Available"
  <2>1. n = MarkUsed(s, id, "finalized")
    BY <1>4 DEF BeginFinalize, Result
  <2>2. id \notin s.used
    BY <1>4 DEF Inspection, Consumed
  <2>3. n.settlements = s.settlements /\ n.used = s.used \cup {id}
    BY <2>1 DEF MarkUsed, StoreState
  <2> QED BY <2>2, <2>3
<1> QED
  BY <1>1, <1>2, <1>3, <1>4 DEF Inspection

\* A verified payment is recorded only for an open challenge without a record.
LEMMA RecordEffect ==
  ASSUME NEW s \in StoreState, NEW id \in ChallengeIds, NEW digest \in Digests,
         NEW t \in Times,
         NEW n, n = RecordVerifiedPayment(s, id, digest, t).state
  PROVE  \/ n = s
         \/ /\ s.settlements[id] = NoSettlement
            /\ Inspection(s, id, t) = "Available"
            /\ Replaced(s, n, id, digest, "verified_pending_settlement")
<1>1. CASE RecordVerificationOutcome(s, id, digest, t) # "Recorded"
  BY <1>1 DEF RecordVerifiedPayment, Result
<1>2. CASE RecordVerificationOutcome(s, id, digest, t) = "Recorded"
  <2>1. s.settlements[id] = NoSettlement /\ Inspection(s, id, t) = "Available"
    BY <1>2 DEF RecordVerificationOutcome, Inspection, Verified
  <2> QED
    BY <1>2, <2>1 DEF RecordVerifiedPayment, Result, SetSettlement, StoreState, Replaced
<1> QED
  BY <1>1, <1>2

\* A settlement starts from a verified payment with the same binding.
LEMMA BeginEffect ==
  ASSUME NEW s \in StoreState, NEW id \in ChallengeIds, NEW digest \in Digests,
         NEW t \in Times,
         BeginSettlement(s, id, digest, t).outcome = "Started",
         NEW n, n = BeginSettlement(s, id, digest, t).state
  PROVE  /\ s.settlements[id].state = "verified_pending_settlement"
         /\ s.settlements[id].request_digest = digest
         /\ Replaced(s, n, id, digest, "settlement_in_progress")
<1>1. BeginSettlementOutcome(s, id, digest, t) = "Started"
  BY DEF BeginSettlement, Result
<1>2. /\ s.settlements[id].state = "verified_pending_settlement"
      /\ s.settlements[id].request_digest = digest
  BY <1>1 DEF BeginSettlementOutcome, Inspection, SettlementState, BoundTo
<1>. DEFINE r == [s.settlements[id] EXCEPT !.state = "settlement_in_progress"]
<1>3. n = SetSettlement(s, id, r)
  BY <1>1 DEF BeginSettlement, Result
<1>4. s.settlements[id] \in Settlement
  BY <1>2 DEF StoreState, NoSettlement
<1>5. r.request_digest = digest /\ r.state = "settlement_in_progress"
  BY <1>2, <1>4 DEF Settlement
<1>. HIDE DEF r
<1> QED
  BY <1>2, <1>3, <1>5 DEF SetSettlement, StoreState, Replaced

\* An attempt that was in progress gets its end, or nothing changes.
LEMMA CompleteEffect ==
  ASSUME NEW s \in StoreState, NEW id \in ChallengeIds, NEW digest \in Digests,
         NEW completion \in Completions, NEW hash \in Hashes \cup {None},
         s.settlements[id].state = "settlement_in_progress",
         s.settlements[id].request_digest = digest,
         NEW n, n = CompleteSettlement(s, id, digest, completion, hash).state,
         NEW out, out = CompleteSettlement(s, id, digest, completion, hash).outcome
  PROVE  /\ out # "AlreadyCompleted"
         /\ out # "Completed" => n = s
         /\ out = "Completed" =>
              Replaced(s, n, id, digest, CompletedState(completion))
<1>0. out = CompleteSettlementOutcome(s, id, digest, completion, hash)
  BY DEF CompleteSettlement, Result
<1>1. out # "AlreadyCompleted"
  BY <1>0 DEF CompleteSettlementOutcome, SettlementState
<1>2. CASE out # "Completed"
  BY <1>0, <1>1, <1>2 DEF CompleteSettlement, Result
<1>3. CASE out = "Completed"
  <2>. DEFINE r == [s.settlements[id] EXCEPT
                      !.state = CompletedState(completion),
                      !.transaction_hash = IF completion = "Settled" THEN hash ELSE @]
              ended == SetSettlement(s, id, r)
  <2>1. s.settlements[id] \in Settlement
    BY DEF StoreState, NoSettlement
  <2>2. r.request_digest = digest /\ r.state = CompletedState(completion)
    BY <2>1 DEF Settlement
  <2>3. n = IF completion = "Settled" THEN MarkUsed(ended, id, "settled") ELSE ended
    BY <1>0, <1>3 DEF CompleteSettlement, Result
  <2>. HIDE DEF r
  <2>4. ended.settlements = [s.settlements EXCEPT ![id] = r]
    BY DEF SetSettlement, StoreState
  <2>5. n.settlements = ended.settlements
    BY <2>3 DEF MarkUsed, SetSettlement, StoreState
  <2>6. n.settlements = [s.settlements EXCEPT ![id] = r]
    BY <2>4, <2>5
  <2> QED
    BY <1>1, <1>3, <2>2, <2>6 DEF Replaced, StoreState
<1> QED
  BY <1>2, <1>3

\* The recovery changes settlements in progress only, and only their state.
LEMMA RecoverEffect ==
  ASSUME NEW s \in StoreState, NEW id \in ChallengeIds,
         NEW n, n = RecoverInProgress(s)
  PROVE  /\ n.settlements[id].request_digest = s.settlements[id].request_digest
         /\ n.settlements[id].state =
              IF s.settlements[id].state = "settlement_in_progress"
              THEN "settlement_outcome_unknown" ELSE s.settlements[id].state
<1>1. s.settlements[id] \in Settlement \/ s.settlements[id] = NoSettlement
  BY DEF StoreState
<1>2. n.settlements[id] = IF s.settlements[id].state = "settlement_in_progress"
        THEN [s.settlements[id] EXCEPT !.state = "settlement_outcome_unknown"]
        ELSE s.settlements[id]
  BY DEF RecoverInProgress, InProgress, SettlementState, StoreState
<1> QED
  BY <1>1, <1>2 DEF Settlement, NoSettlement
------------------------------------------------------------------------------
(* A challenge that was issued stays known *)

KeepsKnown(s, n) == \A id \in ChallengeIds : Known(s, id) => Known(n, id)

LEMMA CreateKeepsKnown ==
  ASSUME NEW s \in StoreState, NEW t \in Times, s.next_id < MaxId,
         NEW n, n = CreateChallenge(s, t).state
  PROVE  KeepsKnown(s, n)
<1> DEFINE id == s.next_id + 1
           c == [expires_at |-> t + TTL, finalized |-> FALSE,
                 payment_state |-> "payment_required"]
<1>1. n = [s EXCEPT !.next_id = id, !.challenges[id] = c]
  BY DEF CreateChallenge, Result
<1>2. c # NoChallenge
  BY DEF NoChallenge
<1>. HIDE DEF c
<1> QED
  BY <1>1, <1>2 DEF KeepsKnown, Known, StoreState

LEMMA PaymentStateKeepsKnown ==
  ASSUME NEW s \in StoreState, NEW id \in ChallengeIds, NEW ps \in PaymentStates,
         Known(s, id), NEW n, n = SetPaymentState(s, id, ps)
  PROVE  KeepsKnown(s, n)
<1> DEFINE c == [s.challenges[id] EXCEPT !.payment_state = ps]
<1>1. n = [s EXCEPT !.challenges[id] = c]
  BY DEF SetPaymentState
<1>2. c.payment_state = ps /\ ps # "none"
  BY DEF StoreState, Challenge, Known, PaymentStates
<1>3. c # NoChallenge
  BY <1>2 DEF NoChallenge
<1>. HIDE DEF c
<1> QED
  BY <1>1, <1>3 DEF KeepsKnown, Known, StoreState

LEMMA MarkUsedKeepsKnown ==
  ASSUME NEW s \in StoreState, NEW id \in ChallengeIds, NEW ps \in PaymentStates,
         Known(s, id), NEW n, n = MarkUsed(s, id, ps)
  PROVE  KeepsKnown(s, n)
<1> DEFINE c == [s.challenges[id] EXCEPT !.finalized = TRUE, !.payment_state = ps]
<1>1. n = [s EXCEPT !.challenges[id] = c, !.used = @ \cup {id}]
  BY DEF MarkUsed
<1>2. c.payment_state = ps /\ ps # "none"
  BY DEF StoreState, Challenge, Known, PaymentStates
<1>3. c # NoChallenge
  BY <1>2 DEF NoChallenge
<1>. HIDE DEF c
<1> QED
  BY <1>1, <1>3 DEF KeepsKnown, Known, StoreState

LEMMA FinalizeKeepsKnown ==
  ASSUME NEW s \in StoreState, NEW id \in ChallengeIds, NEW t \in Times,
         NEW n, n = BeginFinalize(s, id, t).state
  PROVE  KeepsKnown(s, n)
<1>1. CASE Inspection(s, id, t) = "UnknownChallenge"
  BY <1>1 DEF BeginFinalize, Result, KeepsKnown
<1>2. CASE Inspection(s, id, t) # "UnknownChallenge"
  <2>1. Known(s, id)
    BY <1>2 DEF Inspection
  <2>2. \/ n = SetPaymentState(s, id, "replay_blocked")
        \/ n = SetPaymentState(s, id, "expired")
        \/ n = MarkUsed(s, id, "finalized")
    BY <1>2 DEF BeginFinalize, Result, Inspection
  <2> QED
    BY <2>1, <2>2, PaymentStateKeepsKnown, MarkUsedKeepsKnown DEF PaymentStates
<1> QED
  BY <1>1, <1>2

\* A verified payment is recorded for a challenge that was issued.
LEMMA RecordKnown ==
  ASSUME NEW s \in StoreState, NEW id \in ChallengeIds, NEW digest \in Digests,
         NEW t \in Times,
         NEW n, n = RecordVerifiedPayment(s, id, digest, t).state
  PROVE  n.challenges = s.challenges /\ (n = s \/ Known(s, id))
BY DEF RecordVerifiedPayment, RecordVerificationOutcome, Inspection, Result,
       SetSettlement, StoreState

LEMMA BeginKnown ==
  ASSUME NEW s \in StoreState, NEW id \in ChallengeIds, NEW digest \in Digests,
         NEW t \in Times,
         NEW n, n = BeginSettlement(s, id, digest, t).state
  PROVE  n.challenges = s.challenges
BY DEF BeginSettlement, Result, SetSettlement, StoreState

\* A stored attempt gets its end when a settlement call completes it: none of
\* the refusals of complete_settlement applies.
LEMMA CompletionEnds ==
  ASSUME NEW s \in StoreState, NEW id \in ChallengeIds, NEW digest \in Digests,
         NEW completion \in Completions, NEW hash \in Hashes \cup {None},
         completion = "Settled" => hash \in Hashes,
         Known(s, id),
         s.settlements[id].state = "settlement_in_progress",
         s.settlements[id].request_digest = digest,
         NEW n, n = CompleteSettlement(s, id, digest, completion, hash).state
  PROVE  /\ KeepsKnown(s, n)
         /\ Replaced(s, n, id, digest, CompletedState(completion))
<1> DEFINE r == [s.settlements[id] EXCEPT
                   !.state = CompletedState(completion),
                   !.transaction_hash = IF completion = "Settled" THEN hash ELSE @]
           ended == SetSettlement(s, id, r)
<1>1. CompleteSettlementOutcome(s, id, digest, completion, hash) = "Completed"
  BY DEF CompleteSettlementOutcome, Verified, NoSettlement, BoundTo, SettlementState
<1>2. CompleteSettlement(s, id, digest, completion, hash).outcome = "Completed"
  BY <1>1 DEF CompleteSettlement, Result
<1>3. Replaced(s, n, id, digest, CompletedState(completion))
  BY <1>2, CompleteEffect
<1>4. n = IF completion = "Settled" THEN MarkUsed(ended, id, "settled") ELSE ended
  BY <1>1 DEF CompleteSettlement, Result
<1>5. r \in Settlement
  <2>1. s.settlements[id] \in Settlement
    BY DEF StoreState, NoSettlement
  <2>2. CompletedState(completion) \in SettlementStates
    BY DEF CompletedState, Completions, SettlementStates
  <2> QED
    BY <2>1, <2>2 DEF Settlement
<1>. HIDE DEF r
<1>6. ended \in StoreState /\ ended.challenges = s.challenges
  BY <1>5, SetSettlementFacts
<1>7. Known(ended, id)
  BY <1>6 DEF Known
<1>. HIDE DEF ended
<1>8. KeepsKnown(ended, n)
  <2>1. CASE completion = "Settled"
    BY <1>4, <1>6, <1>7, <2>1, MarkUsedKeepsKnown DEF PaymentStates
  <2> QED
    BY <1>4, <2>1 DEF KeepsKnown
<1> QED
  BY <1>3, <1>6, <1>8 DEF KeepsKnown, Known
------------------------------------------------------------------------------
(* What each operation does to the phase of a challenge, and that a state   *)
(* load() accepts stays one                                                 *)

\* The phase of a challenge in the life cycle of the contract.
PhaseOf(s, id) ==
  LET state == SettlementState(s, id)
  IN  CASE state = "settled" -> "settled"
        [] state # "settled" /\ s.challenges[id].finalized -> "finalized"
        [] OTHER ->
             CASE state = "verified_pending_settlement" -> "verified"
               [] state = "settlement_in_progress" -> "in_progress"
               [] state = "settlement_rejected" -> "rejected"
               [] state = "settlement_outcome_unknown" -> "unknown"
               [] OTHER -> IF Known(s, id) THEN "open" ELSE "none"

\* What validate_loaded_state asks of one challenge, and that the id counter
\* is not behind it.
SoundAt(s, id) ==
  /\ Known(s, id) => id <= s.next_id
  /\ id \in s.used => Known(s, id) /\ s.challenges[id].finalized
  /\ Verified(s, id) =>
       /\ Known(s, id)
       /\ IF SettlementState(s, id) = "settled"
          THEN /\ s.settlements[id].transaction_hash \in Hashes
               /\ s.challenges[id].finalized
               /\ id \in s.used
          ELSE /\ s.settlements[id].transaction_hash = None
               /\ ~s.challenges[id].finalized

Sound(s) == \A id \in ChallengeIds : SoundAt(s, id)

\* What does not touch a challenge.
Untouched(s, n, id) ==
  /\ n.challenges[id] = s.challenges[id]
  /\ n.settlements[id] = s.settlements[id]
  /\ id \in n.used <=> id \in s.used

SamePhase(s, n, id) ==
  /\ PhaseOf(n, id) = PhaseOf(s, id)
  /\ n.settlements[id].request_digest = s.settlements[id].request_digest

\* One challenge moves on, bound as it was; the others stay.
Moves(s, n, id, from, to) ==
  /\ PhaseOf(s, id) = from /\ PhaseOf(n, id) = to
  /\ n.settlements[id].request_digest = s.settlements[id].request_digest
  /\ \A x \in ChallengeIds \ {id} : SamePhase(s, n, x)

Stays(s, n) == \A x \in ChallengeIds : SamePhase(s, n, x)

LEMMA SoundIsValid ==
  ASSUME NEW s \in StoreState, Sound(s)
  PROVE  ValidState(s)
<1>1. \A id \in s.used : Known(s, id) /\ s.challenges[id].finalized
  BY DEF StoreState, Sound, SoundAt
<1>2. \A id \in ChallengeIds : Verified(s, id) => s.settlements[id].request_digest \in Digests
  BY DEF StoreState, Verified, Settlement
<1> QED
  BY <1>1, <1>2 DEF Sound, SoundAt, ValidState

LEMMA UntouchedSound ==
  ASSUME NEW s \in StoreState, NEW n \in StoreState, NEW id \in ChallengeIds,
         SoundAt(s, id), Untouched(s, n, id), s.next_id <= n.next_id
  PROVE  SoundAt(n, id) /\ SamePhase(s, n, id)
<1>1. s.next_id \in Nat /\ n.next_id \in Nat /\ id \in Nat
  BY DEF StoreState, ChallengeIds
<1>2. Known(n, id) = Known(s, id) /\ Verified(n, id) = Verified(s, id)
      /\ SettlementState(n, id) = SettlementState(s, id)
  BY DEF Untouched, Known, Verified, SettlementState
<1>3. SoundAt(n, id)
  BY <1>1, <1>2 DEF SoundAt, Untouched
<1>4. PhaseOf(n, id) = PhaseOf(s, id)
  BY <1>2 DEF PhaseOf, Untouched
<1> QED
  BY <1>3, <1>4 DEF SamePhase, Untouched

\* A challenge is issued under an id that nothing is known of.
LEMMA CreateMoves ==
  ASSUME NEW s \in StoreState, NEW t \in Times, s.next_id < MaxId, Sound(s),
         NEW n, n = CreateChallenge(s, t).state
  PROVE  Sound(n) /\ \E id \in ChallengeIds : Moves(s, n, id, "none", "open")
<1> DEFINE new == s.next_id + 1
           c == [expires_at |-> t + TTL, finalized |-> FALSE,
                 payment_state |-> "payment_required"]
<1>1. PICK id \in ChallengeIds : id = new
  BY DEF ChallengeIds, StoreState
<1>2. n = [s EXCEPT !.next_id = id, !.challenges[id] = c]
  BY <1>1 DEF CreateChallenge, Result
<1>3. c # NoChallenge /\ c.finalized = FALSE
  BY DEF NoChallenge
<1>4. id > s.next_id /\ id \in Nat /\ s.next_id \in Nat
  BY <1>1 DEF StoreState
<1>. HIDE DEF c, new
<1>5. /\ n.next_id = id /\ n.used = s.used /\ n.settlements = s.settlements
      /\ n.challenges[id] = c
      /\ \A x \in ChallengeIds \ {id} : n.challenges[x] = s.challenges[x]
  BY <1>2 DEF StoreState
<1>6. n \in StoreState /\ s.next_id <= n.next_id
  BY CreateFacts
<1>7. \A x \in ChallengeIds \ {id} : SoundAt(n, x) /\ SamePhase(s, n, x)
  <2>1. \A x \in ChallengeIds \ {id} : Untouched(s, n, x)
    BY <1>5 DEF Untouched
  <2> QED
    BY <2>1, <1>6, UntouchedSound DEF Sound
<1>8. ~Known(s, id)
  BY <1>4 DEF Sound, SoundAt
<1>9. s.settlements[id] = NoSettlement /\ id \notin s.used
  BY <1>8 DEF Sound, SoundAt, Verified
<1>10. SoundAt(n, id)
  BY <1>4, <1>5, <1>9 DEF SoundAt, Verified
<1>11. PhaseOf(s, id) = "none"
  BY <1>8, <1>9 DEF PhaseOf, SettlementState, NoSettlement, Known, NoChallenge
<1>12. PhaseOf(n, id) = "open"
  BY <1>3, <1>5, <1>9 DEF PhaseOf, SettlementState, NoSettlement, Known
<1> QED
  BY <1>5, <1>7, <1>10, <1>11, <1>12 DEF Sound, Moves
\* A note on a known challenge moves nothing.
LEMMA PaymentStateStays ==
  ASSUME NEW s \in StoreState, Sound(s), NEW id \in ChallengeIds, Known(s, id),
         NEW ps \in PaymentStates,
         NEW n, n = SetPaymentState(s, id, ps)
  PROVE  Sound(n) /\ Stays(s, n)
<1> DEFINE c == [s.challenges[id] EXCEPT !.payment_state = ps]
<1>1. c \in Challenge /\ c.finalized = s.challenges[id].finalized
  BY DEF StoreState, Challenge, Known
<1>2. n = [s EXCEPT !.challenges[id] = c]
  BY DEF SetPaymentState
<1>3. c # NoChallenge
  BY <1>1 DEF Challenge, NoChallenge, PaymentStates
<1>. HIDE DEF c
<1>4. /\ n.next_id = s.next_id /\ n.used = s.used /\ n.settlements = s.settlements
      /\ n.challenges[id] = c
      /\ \A x \in ChallengeIds \ {id} : n.challenges[x] = s.challenges[x]
  BY <1>2 DEF StoreState
<1>5. n \in StoreState /\ s.next_id <= n.next_id
  BY <1>4, SetPaymentStateFacts DEF StoreState
<1>6. \A x \in ChallengeIds \ {id} : SoundAt(n, x) /\ SamePhase(s, n, x)
  <2>1. \A x \in ChallengeIds \ {id} : Untouched(s, n, x)
    BY <1>4 DEF Untouched
  <2> QED
    BY <2>1, <1>5, UntouchedSound DEF Sound
<1>7. Known(n, id) /\ Verified(n, id) = Verified(s, id)
      /\ SettlementState(n, id) = SettlementState(s, id)
  BY <1>3, <1>4 DEF Known, Verified, SettlementState
<1>8. SoundAt(n, id) /\ SamePhase(s, n, id)
  BY <1>1, <1>4, <1>7 DEF Sound, SoundAt, SamePhase, PhaseOf
<1> QED
  BY <1>6, <1>8 DEF Sound, Stays

\* A known challenge that is not finalized enters used_challenges.
LEMMA MarkUsedMoves ==
  ASSUME NEW s \in StoreState, Sound(s), NEW id \in ChallengeIds, Known(s, id),
         ~Verified(s, id), ~s.challenges[id].finalized,
         NEW n, n = MarkUsed(s, id, "finalized")
  PROVE  Sound(n) /\ Moves(s, n, id, "open", "finalized")
<1> DEFINE c == [s.challenges[id] EXCEPT !.finalized = TRUE, !.payment_state = "finalized"]
<1>1. c \in Challenge /\ c.finalized = TRUE
  BY DEF StoreState, Challenge, Known, PaymentStates
<1>2. n = [s EXCEPT !.challenges[id] = c, !.used = @ \cup {id}]
  BY DEF MarkUsed
<1>3. c # NoChallenge
  BY <1>1 DEF Challenge, NoChallenge, PaymentStates
<1>. HIDE DEF c
<1>4. /\ n.next_id = s.next_id /\ n.used = s.used \cup {id}
      /\ n.settlements = s.settlements
      /\ n.challenges[id] = c
      /\ \A x \in ChallengeIds \ {id} : n.challenges[x] = s.challenges[x]
  BY <1>2 DEF StoreState
<1>5. n \in StoreState /\ s.next_id <= n.next_id
  BY <1>4, MarkUsedFacts DEF StoreState, PaymentStates
<1>6. \A x \in ChallengeIds \ {id} : SoundAt(n, x) /\ SamePhase(s, n, x)
  <2>1. \A x \in ChallengeIds \ {id} : Untouched(s, n, x)
    BY <1>4 DEF Untouched
  <2> QED
    BY <2>1, <1>5, UntouchedSound DEF Sound
<1>7. Known(n, id) /\ ~Verified(n, id) /\ id <= n.next_id
  BY <1>3, <1>4 DEF Known, Verified, Sound, SoundAt
<1>8. SoundAt(n, id)
  BY <1>1, <1>4, <1>7 DEF SoundAt
<1>9. SettlementState(s, id) = "none" /\ SettlementState(n, id) = "none"
  BY <1>4 DEF Verified, SettlementState, NoSettlement
<1>10. PhaseOf(s, id) = "open" /\ PhaseOf(n, id) = "finalized"
  BY <1>1, <1>4, <1>9 DEF PhaseOf
<1> QED
  BY <1>4, <1>6, <1>8, <1>10 DEF Sound, Moves

LEMMA FinalizeMoves ==
  ASSUME NEW s \in StoreState, Sound(s), NEW id \in ChallengeIds, NEW t \in Times,
         ~Verified(s, id),
         NEW n, n = BeginFinalize(s, id, t).state
  PROVE  Sound(n) /\ (Stays(s, n) \/ Moves(s, n, id, "open", "finalized"))
<1>1. CASE Inspection(s, id, t) = "UnknownChallenge"
  BY <1>1 DEF BeginFinalize, Result, Stays, SamePhase
<1>2. CASE Inspection(s, id, t) = "ReplayBlocked"
  <2>1. n = SetPaymentState(s, id, "replay_blocked") /\ Known(s, id)
    BY <1>2 DEF BeginFinalize, Result, Inspection
  <2> QED BY <2>1, PaymentStateStays DEF PaymentStates
<1>3. CASE Inspection(s, id, t) = "Expired"
  <2>1. n = SetPaymentState(s, id, "expired") /\ Known(s, id)
    BY <1>3 DEF BeginFinalize, Result, Inspection
  <2> QED BY <2>1, PaymentStateStays DEF PaymentStates
<1>4. CASE Inspection(s, id, t) = "Available"
  <2>1. n = MarkUsed(s, id, "finalized") /\ Known(s, id) /\ ~s.challenges[id].finalized
    BY <1>4 DEF BeginFinalize, Result, Inspection, Consumed
  <2> QED BY <2>1, MarkUsedMoves
<1> QED
  BY <1>1, <1>2, <1>3, <1>4 DEF Inspection

\* A record of a challenge that is known and not finalized, without a hash.
LEMMA RecordSound ==
  ASSUME NEW s \in StoreState, Sound(s), NEW id \in ChallengeIds, Known(s, id),
         ~s.challenges[id].finalized, NEW r \in Settlement,
         r.state # "settled", r.transaction_hash = None,
         NEW n, n = SetSettlement(s, id, r)
  PROVE  /\ Sound(n) /\ n.settlements[id] = r /\ n.challenges = s.challenges
         /\ \A x \in ChallengeIds \ {id} : SamePhase(s, n, x)
<1>1. /\ n \in StoreState /\ n.used = s.used /\ n.next_id = s.next_id
      /\ n.challenges = s.challenges /\ n.settlements = [s.settlements EXCEPT ![id] = r]
  BY SetSettlementFacts
<1>2. /\ n.settlements[id] = r /\ s.next_id <= n.next_id
      /\ \A x \in ChallengeIds \ {id} : n.settlements[x] = s.settlements[x]
  BY <1>1 DEF StoreState
<1>3. \A x \in ChallengeIds \ {id} : SoundAt(n, x) /\ SamePhase(s, n, x)
  <2>1. \A x \in ChallengeIds \ {id} : Untouched(s, n, x)
    BY <1>1, <1>2 DEF Untouched
  <2> QED
    BY <2>1, <1>1, <1>2, UntouchedSound DEF Sound
<1>4. SoundAt(n, id)
  BY <1>1, <1>2 DEF Sound, SoundAt, Known, SettlementState
<1> QED
  BY <1>1, <1>2, <1>3, <1>4 DEF Sound

LEMMA RecordMoves ==
  ASSUME NEW s \in StoreState, Sound(s), NEW id \in ChallengeIds, NEW digest \in Digests,
         NEW t \in Times,
         NEW n, n = RecordVerifiedPayment(s, id, digest, t).state
  PROVE  /\ Sound(n)
         /\ \/ n = s
            \/ /\ PhaseOf(s, id) = "open" /\ PhaseOf(n, id) = "verified"
               /\ n.settlements[id].request_digest = digest
               /\ \A x \in ChallengeIds \ {id} : SamePhase(s, n, x)
<1> DEFINE r == [request_digest |-> digest,
                 state |-> "verified_pending_settlement",
                 transaction_hash |-> None]
<1>1. CASE RecordVerificationOutcome(s, id, digest, t) # "Recorded"
  BY <1>1 DEF RecordVerifiedPayment, Result
<1>2. CASE RecordVerificationOutcome(s, id, digest, t) = "Recorded"
  <2>1. /\ Known(s, id) /\ ~s.challenges[id].finalized
        /\ s.settlements[id] = NoSettlement
    BY <1>2 DEF RecordVerificationOutcome, Inspection, Verified, Consumed
  <2>2. n = SetSettlement(s, id, r)
    BY <1>2 DEF RecordVerifiedPayment, Result
  <2>3. /\ r \in Settlement /\ r.state = "verified_pending_settlement"
        /\ r.transaction_hash = None /\ r.request_digest = digest
    BY DEF Settlement, SettlementStates
  <2>. HIDE DEF r
  <2>4. /\ Sound(n) /\ n.settlements[id] = r /\ n.challenges = s.challenges
        /\ \A x \in ChallengeIds \ {id} : SamePhase(s, n, x)
    BY <2>1, <2>2, <2>3, RecordSound
  <2>5. PhaseOf(s, id) = "open"
    BY <2>1 DEF PhaseOf, SettlementState, NoSettlement
  <2>6. PhaseOf(n, id) = "verified"
    BY <2>1, <2>3, <2>4 DEF PhaseOf, SettlementState
  <2> QED
    BY <2>3, <2>4, <2>5, <2>6
<1> QED
  BY <1>1, <1>2

LEMMA BeginMoves ==
  ASSUME NEW s \in StoreState, Sound(s), NEW id \in ChallengeIds, NEW digest \in Digests,
         NEW t \in Times,
         BeginSettlement(s, id, digest, t).outcome = "Started",
         NEW n, n = BeginSettlement(s, id, digest, t).state
  PROVE  Sound(n) /\ Moves(s, n, id, "verified", "in_progress")
<1>1. BeginSettlementOutcome(s, id, digest, t) = "Started"
  BY DEF BeginSettlement, Result
<1>2. s.settlements[id].state = "verified_pending_settlement" /\ Verified(s, id)
  BY <1>1 DEF BeginSettlementOutcome, Inspection, SettlementState
<1> DEFINE r == [s.settlements[id] EXCEPT !.state = "settlement_in_progress"]
<1>3. n = SetSettlement(s, id, r)
  BY <1>1 DEF BeginSettlement, Result
<1>4. s.settlements[id] \in Settlement
  BY <1>2 DEF StoreState, Verified
<1>5. /\ Known(s, id) /\ ~s.challenges[id].finalized
      /\ s.settlements[id].transaction_hash = None
  BY <1>2 DEF Sound, SoundAt, SettlementState
<1>6. /\ r \in Settlement /\ r.state = "settlement_in_progress"
      /\ r.transaction_hash = None
      /\ r.request_digest = s.settlements[id].request_digest
  BY <1>4, <1>5 DEF Settlement, SettlementStates
<1>. HIDE DEF r
<1>7. /\ Sound(n) /\ n.settlements[id] = r /\ n.challenges = s.challenges
      /\ \A x \in ChallengeIds \ {id} : SamePhase(s, n, x)
  BY <1>3, <1>5, <1>6, RecordSound
<1>8. PhaseOf(s, id) = "verified" /\ PhaseOf(n, id) = "in_progress"
  BY <1>2, <1>5, <1>6, <1>7 DEF PhaseOf, SettlementState
<1> QED
  BY <1>6, <1>7, <1>8 DEF Moves
\* The end of an attempt: with the payment the challenge is used.
LEMMA CompleteMoves ==
  ASSUME NEW s \in StoreState, Sound(s), NEW id \in ChallengeIds, NEW digest \in Digests,
         NEW completion \in Completions, NEW hash \in Hashes \cup {None},
         NEW n, n = CompleteSettlement(s, id, digest, completion, hash).state
  PROVE  /\ Sound(n)
         /\ \/ n = s
            \/ \E end \in {"settled", "rejected", "unknown"} :
                 Moves(s, n, id, "in_progress", end)
<1> DEFINE outcome == CompleteSettlementOutcome(s, id, digest, completion, hash)
           r == [s.settlements[id] EXCEPT
                   !.state = CompletedState(completion),
                   !.transaction_hash = IF completion = "Settled" THEN hash ELSE @]
           ended == SetSettlement(s, id, r)
<1>1. CASE outcome # "Completed"
  BY <1>1 DEF CompleteSettlement, Result
<1>2. CASE outcome = "Completed"
  <2>1. /\ Verified(s, id) /\ Known(s, id)
        /\ s.settlements[id].state = "settlement_in_progress"
        /\ completion = "Settled" => hash \in Hashes
    BY <1>2 DEF CompleteSettlementOutcome, SettlementState
  <2>2. /\ ~s.challenges[id].finalized /\ s.settlements[id].transaction_hash = None
        /\ s.settlements[id] \in Settlement
    BY <2>1 DEF Sound, SoundAt, SettlementState, StoreState, Verified
  <2>3. /\ r \in Settlement /\ r.state = CompletedState(completion)
        /\ r.transaction_hash = IF completion = "Settled" THEN hash ELSE None
        /\ r.request_digest = s.settlements[id].request_digest
    BY <2>1, <2>2 DEF Settlement, SettlementStates, CompletedState, Completions
  <2>4. n = IF completion = "Settled" THEN MarkUsed(ended, id, "settled") ELSE ended
    BY <1>2 DEF CompleteSettlement, Result
  <2>. HIDE DEF r
  <2>5. PhaseOf(s, id) = "in_progress"
    BY <2>1, <2>2 DEF PhaseOf, SettlementState
  <2>6. CASE completion # "Settled"
    <3>1. /\ r.state \in {"settlement_rejected", "settlement_outcome_unknown"}
          /\ r.transaction_hash = None
      BY <2>3, <2>6 DEF CompletedState, Completions
    <3>2. /\ Sound(n) /\ n.settlements[id] = r /\ n.challenges = s.challenges
          /\ \A x \in ChallengeIds \ {id} : SamePhase(s, n, x)
      BY <2>1, <2>2, <2>3, <2>4, <2>6, <3>1, RecordSound
    <3>3. PhaseOf(n, id) \in {"rejected", "unknown"}
      BY <2>2, <3>1, <3>2 DEF PhaseOf, SettlementState
    <3> QED
      BY <2>3, <2>5, <3>2, <3>3 DEF Moves
  <2>7. CASE completion = "Settled"
    <3>1. /\ ended \in StoreState /\ ended.used = s.used /\ ended.next_id = s.next_id
          /\ ended.challenges = s.challenges
          /\ ended.settlements = [s.settlements EXCEPT ![id] = r]
      BY <2>3, SetSettlementFacts
    <3>. HIDE DEF ended
    <3>. DEFINE c == [ended.challenges[id] EXCEPT !.finalized = TRUE,
                                                  !.payment_state = "settled"]
    <3>2. c \in Challenge /\ c.finalized = TRUE
      <4>1. ended.challenges[id] \in Challenge
        BY <2>1, <3>1 DEF StoreState, Known
      <4> QED
        BY <4>1 DEF Challenge, PaymentStates
    <3>3. n = [ended EXCEPT !.challenges[id] = c, !.used = @ \cup {id}]
      BY <2>4, <2>7 DEF MarkUsed
    <3>4. c # NoChallenge
      BY <3>2 DEF Challenge, NoChallenge, PaymentStates
    <3>. HIDE DEF c
    <3>5. /\ n.next_id = s.next_id /\ n.used = s.used \cup {id}
          /\ n.challenges[id] = c /\ n.settlements[id] = r
          /\ \A x \in ChallengeIds \ {id} : /\ n.challenges[x] = s.challenges[x]
                                            /\ n.settlements[x] = s.settlements[x]
      BY <3>1, <3>3 DEF StoreState
    <3>6. n \in StoreState /\ s.next_id <= n.next_id
      BY <3>5, CompleteFacts DEF StoreState
    <3>7. \A x \in ChallengeIds \ {id} : SoundAt(n, x) /\ SamePhase(s, n, x)
      <4>1. \A x \in ChallengeIds \ {id} : Untouched(s, n, x)
        BY <3>5 DEF Untouched
      <4> QED
        BY <4>1, <3>6, UntouchedSound DEF Sound
    <3>8. r.state = "settled" /\ r.transaction_hash \in Hashes
      BY <2>1, <2>3, <2>7 DEF CompletedState
    <3>9. SoundAt(n, id)
      BY <2>1, <3>2, <3>4, <3>5, <3>8 DEF Sound, SoundAt, Known, SettlementState
    <3>10. PhaseOf(n, id) = "settled"
      BY <3>5, <3>8 DEF PhaseOf, SettlementState
    <3> QED
      BY <2>3, <2>5, <3>5, <3>7, <3>9, <3>10 DEF Sound, Moves
  <2> QED
    BY <2>6, <2>7
<1> QED
  BY <1>1, <1>2

\* The recovery at a start: what was in progress has an unknown end.
LEMMA RecoverMoves ==
  ASSUME NEW s \in StoreState, Sound(s), NEW n, n = RecoverInProgress(s)
  PROVE  /\ Sound(n)
         /\ \A id \in ChallengeIds :
              /\ PhaseOf(n, id) = IF PhaseOf(s, id) = "in_progress" THEN "unknown"
                                  ELSE PhaseOf(s, id)
              /\ n.settlements[id].request_digest = s.settlements[id].request_digest
<1>1. n \in StoreState /\ n.used = s.used /\ n.next_id = s.next_id
  BY RecoverFacts
<1>2. n.challenges = s.challenges
  BY DEF RecoverInProgress, StoreState
<1>3. SUFFICES ASSUME NEW id \in ChallengeIds
               PROVE  /\ SoundAt(n, id)
                      /\ PhaseOf(n, id) = IF PhaseOf(s, id) = "in_progress" THEN "unknown"
                                          ELSE PhaseOf(s, id)
                      /\ n.settlements[id].request_digest = s.settlements[id].request_digest
  BY DEF Sound
<1>4. n.settlements[id] = IF s.settlements[id].state = "settlement_in_progress"
        THEN [s.settlements[id] EXCEPT !.state = "settlement_outcome_unknown"]
        ELSE s.settlements[id]
  BY DEF RecoverInProgress, InProgress, SettlementState, StoreState
<1>5. CASE s.settlements[id].state = "settlement_in_progress"
  <2>1. s.settlements[id] \in Settlement /\ Verified(s, id)
    BY <1>5 DEF StoreState, NoSettlement, Verified
  <2>2. /\ n.settlements[id].state = "settlement_outcome_unknown"
        /\ n.settlements[id].request_digest = s.settlements[id].request_digest
        /\ n.settlements[id].transaction_hash = s.settlements[id].transaction_hash
    BY <1>4, <1>5, <2>1 DEF Settlement
  <2>3. SoundAt(s, id) /\ ~s.challenges[id].finalized
    BY <1>5, <2>1 DEF Sound, SoundAt, SettlementState
  <2>4. SoundAt(n, id)
    BY <1>1, <1>2, <1>5, <2>1, <2>2, <2>3 DEF SoundAt, Known, SettlementState
  <2>5. PhaseOf(s, id) = "in_progress" /\ PhaseOf(n, id) = "unknown"
    BY <1>2, <1>5, <2>2, <2>3 DEF PhaseOf, SettlementState
  <2> QED
    BY <2>2, <2>4, <2>5
<1>6. CASE s.settlements[id].state # "settlement_in_progress"
  <2>1. Untouched(s, n, id) /\ s.next_id <= n.next_id
    BY <1>1, <1>2, <1>4, <1>6 DEF Untouched, StoreState
  <2>2. SoundAt(n, id) /\ SamePhase(s, n, id)
    BY <1>1, <2>1, UntouchedSound DEF Sound
  <2>3. PhaseOf(s, id) # "in_progress"
    BY <1>6 DEF PhaseOf, SettlementState
  <2> QED
    BY <2>2, <2>3 DEF SamePhase
<1> QED
  BY <1>5, <1>6

LEMMA EmptySound ==
  /\ Sound(EmptyState)
  /\ \A id \in ChallengeIds : /\ PhaseOf(EmptyState, id) = "none"
                              /\ EmptyState.settlements[id].request_digest = None
BY DEF EmptyState, Sound, SoundAt, Known, Verified, PhaseOf, SettlementState,
       NoSettlement, NoChallenge
==============================================================================
