------------------------- MODULE X402FileStoreProofs -------------------------
(***************************************************************************)
(* X402FileStore for every number of challenges, every set of payments and *)
(* every clock: the types, MemoryIsStored, ReplayProtectionSurvives, and   *)
(* that the file store implements X402AtomicStore.                         *)
(***************************************************************************)
EXTENDS X402FileStore, X402StateProofs

USE FileAssumption

\* Nothing but the file at `path` holds the stored state.
Whole == main = NoFile => bak = NoFile

\* The new state of a running persist() comes from the stored one.
ComesFrom(old, new) ==
  IF server = "up" THEN \E t \in Times : Transition(old, t, new)
  ELSE new = RecoverInProgress(old) /\ ValidState(new)

BeforeReplace == PersistSteps \ {"cleanup"}

ControlInv ==
  /\ server \in {"down", "unavailable"} => step = "idle"
  /\ server = "up" => step \notin LoadSteps
  /\ server = "loading" => step # "idle"

FilesInv ==
  /\ Ready => Whole
  /\ step \in {"write", "drop_backup", "backup", "recover"} => Whole
  /\ step = "backup" => bak = NoFile
  /\ step \in {"drop_backup", "backup", "replace"} => tmp = mem
  /\ step \in {"replace", "restore", "restore_backup"} => main = NoFile
  /\ step \in {"restore", "restore_backup"} => bak # NoFile
  /\ step = "cleanup" => main = mem

MemoryInv ==
  /\ Ready => mem = Stored
  /\ step \in {"restore_backup", "recover"} => mem = Stored
  /\ step \in BeforeReplace => ComesFrom(Stored, mem)
  /\ step \in BeforeReplace /\ server = "up" => saved = Stored
  /\ step = "cleanup" /\ server = "loading" =>
       ValidState(mem) /\ InProgress(mem) = {}

Inv == TypeOK /\ ControlInv /\ FilesInv /\ MemoryInv

------------------------------------------------------------------------------
(* The invariant is inductive *)

\* What a restart reads is a state.
LEMMA StoredType == TypeOK => Stored \in StoreState
BY EmptyFacts DEF TypeOK, Stored

\* An operation that persists is one Transition of the state in memory.
LEMMA OperationFacts ==
  ASSUME Operation
  PROVE  Ready /\ Persisting(mem') /\ \E t \in Times : Transition(mem, t, mem')
<1>1. PICK t \in Times :
        \/ Create(t)
        \/ \E id \in ChallengeIds : Finalize(id, t)
        \/ \E id \in ChallengeIds, digest \in Digests : Record(id, digest, t)
        \/ \E id \in ChallengeIds, digest \in Digests : Begin(id, digest, t)
        \/ \E id \in ChallengeIds, digest \in Digests,
             completion \in Completions, hash \in Hashes \cup {None} :
             Complete(id, digest, completion, hash)
  BY DEF Operation
<1>. SUFFICES Ready /\ Persisting(mem') /\ Transition(mem, t, mem')
  OBVIOUS
<1>2. CASE Create(t)
  BY <1>2 DEF Create, Persisting, Transition
<1>3. CASE \E id \in ChallengeIds : Finalize(id, t)
  BY <1>3 DEF Finalize, Persisting, Transition
<1>4. CASE \E id \in ChallengeIds, digest \in Digests : Record(id, digest, t)
  BY <1>4 DEF Record, Persisting, Transition
<1>5. CASE \E id \in ChallengeIds, digest \in Digests : Begin(id, digest, t)
  BY <1>5 DEF Begin, Persisting, Transition
<1>6. CASE \E id \in ChallengeIds, digest \in Digests,
               completion \in Completions, hash \in Hashes \cup {None} :
             Complete(id, digest, completion, hash)
  <2>1. PICK id \in ChallengeIds, digest \in Digests,
             completion \in Completions, hash \in Hashes \cup {None} :
             Complete(id, digest, completion, hash)
    BY <1>6
  <2>2. Ready /\ Persisting(mem')
        /\ mem' = CompleteSettlement(mem, id, digest, completion, hash).state
    BY <2>1 DEF Complete, Persisting
  <2> QED
    BY <2>2 DEF Transition
<1> QED
  BY <1>1, <1>2, <1>3, <1>4, <1>5, <1>6

\* An error return keeps the invariant when the files are as they were.
LEMMA AbortInv ==
  ASSUME Inv, Abort, Stored' = Stored,
         server = "up" => saved = Stored /\ Whole',
         main' \in StoreState \cup {NoFile},
         bak' \in StoreState \cup {NoFile},
         tmp' \in StoreState \cup {NoFile, Torn}
  PROVE  Inv'
<1>1. mem' \in StoreState /\ saved' \in StoreState
  BY EmptyFacts DEF Inv, TypeOK, Abort
<1>2. server' \in {"down", "loading", "up", "unavailable"}
      /\ (server' = "up" <=> server = "up") /\ server' # "loading"
  BY DEF Inv, TypeOK, Abort
<1>3. step' = "idle"
  BY DEF Abort
<1>4. TypeOK' /\ ControlInv'
  BY <1>1, <1>2, <1>3 DEF TypeOK, ControlInv, LoadSteps
<1>5. FilesInv'
  BY <1>2, <1>3 DEF FilesInv, Ready
<1>6. server = "up" => mem' = Stored'
  BY DEF Abort
<1>7. MemoryInv'
  BY <1>2, <1>3, <1>6 DEF MemoryInv, Ready, BeforeReplace, PersistSteps
<1> QED
  BY <1>4, <1>5, <1>7 DEF Inv

LEMMA InitInv == Init => Inv
BY EmptyFacts DEF Init, Inv, TypeOK, ControlInv, FilesInv, MemoryInv, Ready,
                  Stored, BeforeReplace, PersistSteps, LoadSteps

\* The steps of persist() keep the invariant, if the restoring rename works.
LEMMA PersistInv ==
  ASSUME Inv, Persist, RestoreMayFail = FALSE
  PROVE  Inv'
<1>. USE DEF PersistSteps, BeforeReplace
<1>1. CASE WriteTmp
  <2>1. CASE tmp' = mem /\ Proceed("drop_backup")
    BY <1>1, <2>1 DEF WriteTmp, Proceed, Inv, TypeOK, ControlInv, FilesInv,
                      MemoryInv, ComesFrom, Ready, Stored, Whole, LoadSteps
  <2>2. CASE Abort
    <3>1. Stored' = Stored /\ (Whole => Whole')
      BY <1>1 DEF WriteTmp, Stored, Whole
    <3> QED
      BY <1>1, <2>2, <3>1, AbortInv DEF WriteTmp, Inv, TypeOK, FilesInv, MemoryInv
  <2> QED
    BY <1>1, <2>1, <2>2 DEF WriteTmp
<1>2. CASE DropBackup
  <2>1. CASE bak' = NoFile /\ Proceed("backup")
    <3>1. Stored' = Stored
      BY <1>2, <2>1 DEF DropBackup, Inv, FilesInv, Whole, Stored
    <3> QED
      BY <1>2, <2>1, <3>1 DEF DropBackup, Proceed, Inv, TypeOK, ControlInv, FilesInv,
                        MemoryInv, ComesFrom, Ready, Whole, LoadSteps
  <2>2. CASE UNCHANGED bak /\ Abort
    <3>1. Stored' = Stored /\ (Whole => Whole')
      BY <1>2, <2>2 DEF DropBackup, Stored, Whole
    <3> QED
      BY <1>2, <2>2, <3>1, AbortInv DEF DropBackup, Inv, TypeOK, FilesInv, MemoryInv
  <2> QED
    BY <1>2, <2>1, <2>2 DEF DropBackup
<1>3. CASE Backup
  <2>1. CASE /\ \/ main = NoFile /\ UNCHANGED <<main, bak, tmp>>
                \/ main # NoFile /\ bak' = main /\ main' = NoFile /\ UNCHANGED tmp
             /\ Proceed("replace")
    <3>1. Stored' = Stored
      BY <1>3, <2>1 DEF Backup, Inv, FilesInv, TypeOK, Stored
    <3> QED
      BY <1>3, <2>1, <3>1 DEF Backup, Proceed, Inv, TypeOK, ControlInv, FilesInv,
                        MemoryInv, ComesFrom, Ready, Whole, LoadSteps
  <2>2. CASE UNCHANGED files /\ Abort
    <3>1. Stored' = Stored /\ (Whole => Whole')
      BY <1>3, <2>2 DEF files, Stored, Whole
    <3> QED
      BY <1>3, <2>2, <3>1, AbortInv DEF Backup, Inv, TypeOK, FilesInv, MemoryInv, files
  <2> QED
    BY <1>3, <2>1, <2>2 DEF Backup, files
<1>4. CASE Replace
  <2>1. CASE main' = tmp /\ tmp' = NoFile /\ UNCHANGED bak /\ Proceed("cleanup")
    <3>1. ASSUME server = "loading"
          PROVE  ValidState(mem) /\ InProgress(mem) = {}
      BY <1>4, <3>1, StoredType, RecoverFacts
      DEF Replace, Inv, MemoryInv, ComesFrom
    <3>2. mem' = mem /\ server' = server
      BY <2>1 DEF Proceed
    <3>3. server = "loading" => ValidState(mem') /\ InProgress(mem') = {}
      BY <3>1, <3>2
    <3>4. TypeOK' /\ ControlInv'
      BY <1>4, <2>1 DEF Replace, Proceed, Inv, TypeOK, ControlInv, FilesInv, LoadSteps
    <3>5. FilesInv'
      BY <1>4, <2>1 DEF Replace, Proceed, Inv, TypeOK, FilesInv, Ready
    <3>6. MemoryInv'
      BY <1>4, <2>1, <3>2, <3>3 DEF Replace, Proceed, MemoryInv, Ready
    <3> QED
      BY <3>4, <3>5, <3>6 DEF Inv
  <2>2. CASE bak # NoFile /\ main = NoFile /\ UNCHANGED files /\ Proceed("restore")
    BY <1>4, <2>2 DEF Replace, Proceed, Inv, TypeOK, ControlInv, FilesInv,
                      MemoryInv, ComesFrom, Ready, Stored, LoadSteps, files
  <2>3. CASE ~(bak # NoFile /\ main = NoFile) /\ UNCHANGED files /\ Abort
    <3>1. Stored' = Stored /\ Whole'
      BY <2>3 DEF files, Stored, Whole
    <3> QED
      BY <1>4, <2>3, <3>1, AbortInv DEF Replace, Inv, TypeOK, MemoryInv, files
  <2> QED
    BY <1>4, <2>1, <2>2, <2>3 DEF Replace
<1>5. CASE Restore
  <2>1. main' = bak /\ bak' = NoFile /\ main = NoFile /\ bak \in StoreState
    BY <1>5 DEF Restore, Inv, TypeOK, FilesInv
  <2>2. Stored' = Stored /\ Whole'
    BY <2>1 DEF Stored, Whole
  <2> QED
    BY <1>5, <2>1, <2>2, AbortInv DEF Restore, Inv, TypeOK, MemoryInv
<1>6. CASE Cleanup
  <2>1. main = mem /\ mem \in StoreState /\ main' = main /\ mem' = mem
    BY <1>6 DEF Cleanup, Inv, TypeOK, FilesInv
  <2>2. mem' = Stored' /\ Whole'
    BY <2>1 DEF Stored, Whole
  <2> QED
    BY <1>6, <2>1, <2>2, EmptyFacts DEF Cleanup, Inv, TypeOK, ControlInv, FilesInv,
                  MemoryInv, Ready, LoadSteps
<1> QED
  BY <1>1, <1>2, <1>3, <1>4, <1>5, <1>6 DEF Persist

\* So do the steps of load().
LEMMA LoadInv ==
  ASSUME Inv, Load
  PROVE  Inv'
<1>. USE DEF PersistSteps, BeforeReplace
<1>1. CASE StartLoad
  BY <1>1 DEF StartLoad, Inv, TypeOK, ControlInv, FilesInv, MemoryInv, Ready,
              LoadSteps, files
<1>2. CASE Read
  <2>1. CASE /\ mem' = Stored
             /\ step' = IF main = NoFile /\ bak # NoFile
                        THEN "restore_backup" ELSE "recover"
             /\ UNCHANGED <<server, saved>>
    <3>1. Stored' = Stored
      BY <1>2 DEF Read, files, Stored
    <3>2. server = "loading"
      BY <1>2 DEF Read, Inv, TypeOK, ControlInv, LoadSteps
    <3> QED
      BY <1>2, <2>1, <3>1, <3>2, StoredType
      DEF Read, Inv, TypeOK, ControlInv, FilesInv, MemoryInv, Ready, Whole,
          LoadSteps, files
  <2>2. CASE Abort
    <3>1. Stored' = Stored /\ server # "up"
      BY <1>2 DEF Read, files, Stored, Inv, ControlInv, LoadSteps
    <3> QED
      BY <1>2, <2>2, <3>1, AbortInv DEF Read, Inv, TypeOK, files
  <2> QED
    BY <1>2, <2>1, <2>2 DEF Read
<1>3. CASE RestoreBackup
  <2>1. server = "loading" /\ main = NoFile /\ bak \in StoreState
    BY <1>3 DEF RestoreBackup, Inv, TypeOK, ControlInv, FilesInv, LoadSteps
  <2>2. CASE main' = bak /\ bak' = NoFile /\ Proceed("recover")
    <3>1. Stored' = Stored
      BY <2>1, <2>2 DEF Stored
    <3> QED
      BY <1>3, <2>1, <2>2, <3>1
      DEF RestoreBackup, Proceed, Inv, TypeOK, ControlInv, FilesInv, MemoryInv,
          Ready, Whole, LoadSteps
  <2>3. CASE UNCHANGED <<main, bak>> /\ Abort
    <3>1. Stored' = Stored
      BY <2>3 DEF Stored
    <3> QED
      BY <1>3, <2>1, <2>3, <3>1, AbortInv DEF RestoreBackup, Inv, TypeOK
  <2> QED
    BY <1>3, <2>2, <2>3 DEF RestoreBackup
<1>4. CASE Recover
  <2>. DEFINE recovered == RecoverInProgress(mem)
  <2>1. server = "loading" /\ mem = Stored /\ Whole
    BY <1>4 DEF Recover, Inv, ControlInv, TypeOK, FilesInv, MemoryInv, LoadSteps
  <2>2. Stored' = Stored /\ Whole'
    BY <1>4, <2>1 DEF Recover, files, Stored, Whole
  <2>3. recovered \in StoreState /\ (InProgress(mem) = {} => recovered = mem)
    BY RecoverFacts DEF Inv, TypeOK
  <2>4. CASE Abort
    BY <1>4, <2>1, <2>2, <2>4, AbortInv DEF Recover, Inv, TypeOK, files
  <2>5. CASE ~Abort
    <3>1. /\ ValidState(recovered) /\ mem' = recovered /\ UNCHANGED saved
          /\ IF InProgress(mem) = {}
             THEN step' = "idle" /\ server' = "up"
             ELSE step' = "write" /\ UNCHANGED server
      BY <1>4, <2>5 DEF Recover
    <3>2. CASE InProgress(mem) = {}
      BY <1>4, <2>1, <2>2, <2>3, <3>1, <3>2
      DEF Recover, Inv, TypeOK, ControlInv, FilesInv, MemoryInv, Ready, LoadSteps, files
    <3>3. CASE InProgress(mem) # {}
      <4>1. ComesFrom(Stored, mem)'
        BY <2>1, <2>2, <3>1, <3>3 DEF ComesFrom
      <4> QED
        BY <1>4, <2>1, <2>2, <2>3, <3>1, <3>3, <4>1
        DEF Recover, Inv, TypeOK, ControlInv, FilesInv, MemoryInv, Ready, LoadSteps,
            files
    <3> QED
      BY <3>2, <3>3
  <2> QED
    BY <2>4, <2>5
<1> QED
  BY <1>1, <1>2, <1>3, <1>4 DEF Load

LEMMA NextInv ==
  ASSUME Inv, [Next]_vars, RestoreMayFail = FALSE
  PROVE  Inv'
<1>1. CASE Operation
  <2>1. Ready /\ Persisting(mem') /\ \E t \in Times : Transition(mem, t, mem')
    BY <1>1, OperationFacts
  <2>2. mem' \in StoreState
    BY <2>1, TransitionFacts DEF Inv, TypeOK
  <2>3. Stored' = Stored
    BY <2>1 DEF Persisting, files, Stored
  <2>4. mem = Stored /\ saved' = Stored' /\ (Whole => Whole')
    BY <2>1, <2>3 DEF Inv, MemoryInv, Persisting, Whole, files
  <2>5. ComesFrom(Stored, mem)'
    BY <2>1, <2>3, <2>4 DEF ComesFrom, Ready, Persisting
  <2>6. TypeOK' /\ ControlInv'
    BY <2>1, <2>2 DEF Ready, Persisting, Inv, TypeOK, ControlInv, PersistSteps,
                      LoadSteps, files
  <2>7. FilesInv' /\ MemoryInv'
    BY <2>1, <2>4, <2>5 DEF Ready, Persisting, Inv, FilesInv, MemoryInv, files
  <2> QED
    BY <2>6, <2>7 DEF Inv
<1>2. CASE Persist
  BY <1>2, PersistInv
<1>3. CASE Load
  BY <1>3, LoadInv
<1>4. CASE Crash
  BY <1>4, EmptyFacts DEF Crash, Inv, TypeOK, ControlInv, FilesInv, MemoryInv, Ready,
              PersistSteps, BeforeReplace, LoadSteps, files
<1>5. CASE UNCHANGED vars
  BY <1>5 DEF vars, files, Inv, TypeOK, ControlInv, FilesInv, MemoryInv, Ready,
              Whole, Stored, ComesFrom
<1> QED
  BY <1>1, <1>2, <1>3, <1>4, <1>5 DEF Next

\* The invariant of every behaviour in which a restoring rename works.
THEOREM StoreInvariant ==
  ASSUME RestoreMayFail = FALSE
  PROVE  Spec => []Inv
<1>1. Init => Inv
  BY InitInv
<1>2. Inv /\ [Next]_vars => Inv'
  BY NextInv
<1> QED
  BY <1>1, <1>2, PTL DEF Spec

\* A store that answers requests holds in memory what a restart would read,
\* whichever file system call failed and wherever the process crashed before.
THEOREM MemoryIsAlwaysStored ==
  ASSUME RestoreMayFail = FALSE
  PROVE  Spec => []MemoryIsStored
<1>1. Inv => MemoryIsStored
  BY DEF Inv, MemoryInv, MemoryIsStored
<1> QED
  BY <1>1, StoreInvariant, PTL

\* The types are correct in every reachable state.
THEOREM TypesCorrect ==
  ASSUME RestoreMayFail = FALSE
  PROVE  Spec => []TypeOK
<1>1. Inv => TypeOK
  BY DEF Inv
<1> QED
  BY <1>1, StoreInvariant, PTL

------------------------------------------------------------------------------
(* What a step does to the stored state *)

\* Only the rename of the temporary file to `path` changes what a restart
\* reads, and then to the state in memory.
LEMMA StoredStep ==
  ASSUME Inv, [Next]_vars, RestoreMayFail = FALSE
  PROVE  \/ Stored' = Stored
         \/ /\ step = "replace" /\ step' = "cleanup"
            /\ Stored' = mem /\ UNCHANGED <<server, mem, saved>>
<1>1. CASE Operation
  BY <1>1, OperationFacts DEF Persisting, files, Stored
<1>2. CASE Crash \/ UNCHANGED vars
  BY <1>2 DEF Crash, vars, files, Stored
<1>3. CASE StartLoad \/ Read \/ Recover
  BY <1>3 DEF StartLoad, Read, Recover, files, Stored
<1>4. CASE RestoreBackup
  BY <1>4 DEF RestoreBackup, Inv, TypeOK, FilesInv, Stored
<1>5. CASE WriteTmp \/ Cleanup
  BY <1>5 DEF WriteTmp, Cleanup, Inv, TypeOK, FilesInv, Stored
<1>6. CASE DropBackup
  BY <1>6 DEF DropBackup, Inv, FilesInv, Whole, Stored
<1>7. CASE Backup
  BY <1>7 DEF Backup, files, Inv, TypeOK, FilesInv, Stored
<1>8. CASE Replace
  BY <1>8 DEF Replace, Proceed, files, Inv, TypeOK, FilesInv, Stored
<1>9. CASE Restore
  BY <1>9 DEF Restore, Inv, TypeOK, FilesInv, Stored
<1> QED
  BY <1>1, <1>2, <1>3, <1>4, <1>5, <1>6, <1>7, <1>8, <1>9 DEF Next, Load, Persist

\* No failed call and no crash makes the stored state forget a used challenge
\* or give an id out a second time.
THEOREM ReplayProtectionHolds ==
  ASSUME RestoreMayFail = FALSE
  PROVE  Spec => ReplayProtectionSurvives
<1>1. ASSUME Inv, [Next]_vars
      PROVE  Stored.used \subseteq Stored'.used /\ Stored.next_id <= Stored'.next_id
  <2>1. Stored \in StoreState /\ mem \in StoreState
    BY <1>1, StoredType DEF Inv, TypeOK
  <2>2. CASE Stored' = Stored
    BY <2>1, <2>2 DEF StoreState
  <2>3. CASE step = "replace" /\ Stored' = mem
    <3>1. ComesFrom(Stored, mem)
      BY <1>1, <2>3 DEF Inv, MemoryInv, BeforeReplace, PersistSteps
    <3>2. CASE \E t \in Times : Transition(Stored, t, mem)
      BY <2>1, <2>3, <3>2, TransitionFacts
    <3>3. CASE mem = RecoverInProgress(Stored)
      <4>1. mem.used = Stored.used /\ mem.next_id = Stored.next_id
        BY <2>1, <3>3, RecoverFacts
      <4> QED
        BY <2>1, <2>3, <4>1 DEF StoreState
    <3> QED
      BY <3>1, <3>2, <3>3 DEF ComesFrom
  <2> QED
    BY <1>1, <2>2, <2>3, StoredStep
<1> QED
  BY <1>1, StoreInvariant, PTL DEF Spec, ReplayProtectionSurvives

------------------------------------------------------------------------------
(* The operators of the instance are the operators of X402State *)

LEMMA SameConstants ==
  /\ Atomic!EmptyState = EmptyState
  /\ Atomic!Times = Times
  /\ Atomic!ChallengeIds = ChallengeIds
  /\ Atomic!Completions = Completions
BY DEF Atomic!EmptyState, EmptyState, Atomic!Times, Times,
       Atomic!ChallengeIds, ChallengeIds, Atomic!Completions, Completions,
       Atomic!NoChallenge, NoChallenge, Atomic!NoSettlement, NoSettlement

LEMMA SameInspection ==
  ASSUME NEW s, NEW id, NEW t
  PROVE  Atomic!Inspection(s, id, t) = Inspection(s, id, t)
BY DEF Atomic!NoChallenge, NoChallenge, Atomic!Known, Known, Atomic!Consumed,
       Consumed, Atomic!ExpiredAt, ExpiredAt, Atomic!Inspection, Inspection

LEMMA SameFinalize ==
  ASSUME NEW s, NEW id, NEW t
  PROVE  Atomic!BeginFinalize(s, id, t) = BeginFinalize(s, id, t)
BY SameInspection DEF Atomic!SetPaymentState, SetPaymentState, Atomic!MarkUsed, MarkUsed,
       Atomic!Result, Result, Atomic!BeginFinalize, BeginFinalize

LEMMA SameRecord ==
  ASSUME NEW s, NEW id, NEW digest, NEW t
  PROVE  Atomic!RecordVerifiedPayment(s, id, digest, t)
           = RecordVerifiedPayment(s, id, digest, t)
BY SameInspection DEF Atomic!NoSettlement, NoSettlement, Atomic!Verified, Verified,
       Atomic!BoundTo, BoundTo, Atomic!SettlementState, SettlementState,
       Atomic!Result, Result, Atomic!SetSettlement, SetSettlement,
       Atomic!RecordVerificationOutcome, RecordVerificationOutcome,
       Atomic!RecordVerifiedPayment, RecordVerifiedPayment

LEMMA SameBegin ==
  ASSUME NEW s, NEW id, NEW digest, NEW t
  PROVE  Atomic!BeginSettlement(s, id, digest, t) = BeginSettlement(s, id, digest, t)
BY SameInspection DEF Atomic!NoSettlement, NoSettlement, Atomic!Verified, Verified,
       Atomic!BoundTo, BoundTo, Atomic!SettlementState, SettlementState,
       Atomic!Result, Result, Atomic!SetSettlement, SetSettlement,
       Atomic!BeginSettlementOutcome, BeginSettlementOutcome,
       Atomic!BeginSettlement, BeginSettlement

LEMMA SameComplete ==
  ASSUME NEW s, NEW id, NEW digest, NEW completion, NEW hash
  PROVE  Atomic!CompleteSettlement(s, id, digest, completion, hash)
           = CompleteSettlement(s, id, digest, completion, hash)
BY DEF Atomic!NoSettlement, NoSettlement, Atomic!NoChallenge, NoChallenge,
       Atomic!Known, Known, Atomic!MarkUsed, MarkUsed, Atomic!CompletedState,
       CompletedState, Atomic!Verified, Verified, Atomic!BoundTo, BoundTo,
       Atomic!SettlementState, SettlementState, Atomic!Result, Result,
       Atomic!SetSettlement, SetSettlement, Atomic!CompleteSettlementOutcome,
       CompleteSettlementOutcome, Atomic!CompleteSettlement,
       CompleteSettlement

LEMMA SameTransition ==
  ASSUME NEW s, NEW t, NEW n
  PROVE  Atomic!Transition(s, t, n) <=> Transition(s, t, n)
<1>1. Atomic!CreateChallenge(s, t) = CreateChallenge(s, t)
  BY DEF Atomic!CreateChallenge, CreateChallenge, Atomic!Result, Result
<1> QED
  BY <1>1, SameConstants, SameFinalize, SameRecord, SameBegin, SameComplete
  DEF Atomic!Transition, Transition

LEMMA SameLoad ==
  ASSUME NEW s
  PROVE  /\ Atomic!InProgress(s) = InProgress(s)
         /\ Atomic!RecoverInProgress(s) = RecoverInProgress(s)
         /\ Atomic!ValidState(s) = ValidState(s)
BY DEF Atomic!NoSettlement, NoSettlement, Atomic!NoChallenge, NoChallenge,
       Atomic!Known, Known, Atomic!Verified, Verified, Atomic!SettlementState,
       SettlementState, Atomic!InProgress, InProgress,
       Atomic!RecoverInProgress, RecoverInProgress, Atomic!ValidState,
       ValidState, Atomic!ChallengeIds, ChallengeIds

------------------------------------------------------------------------------
(* The file store implements the atomic store *)

SeenUnchanged == UNCHANGED <<MemSeen, Stored, ServerSeen>>

\* An error return is invisible, or it is the failure of a start.
LEMMA AbortRefines ==
  ASSUME Inv, Abort, Stored' = Stored, step \notin {"idle", "cleanup"}
  PROVE  SeenUnchanged \/ Atomic!StoreStartFails
<1>1. CASE server = "up"
  BY <1>1 DEF Abort, SeenUnchanged, MemSeen, ServerSeen
<1>2. CASE server = "loading"
  BY <1>2 DEF Abort, MemSeen, ServerSeen, Atomic!StoreStartFails
<1>3. server \in {"up", "loading"}
  BY DEF Inv, TypeOK, ControlInv
<1> QED
  BY <1>1, <1>2, <1>3

\* A step inside persist() or load(): neither a return nor the rename to `path`.
LEMMA InnerRefines ==
  ASSUME UNCHANGED <<server, mem, saved>>, Stored' = Stored,
         \/ server # "up"
         \/ {step, step'} \subseteq BeforeReplace
  PROVE  SeenUnchanged
BY DEF SeenUnchanged, MemSeen, ServerSeen, BeforeReplace, PersistSteps

\* The rename of the temporary file to `path`.
LEMMA ReplaceRefines ==
  ASSUME Inv, step = "replace", step' = "cleanup", Stored' = mem,
         UNCHANGED <<server, mem, saved>>
  PROVE  Atomic!StoreWrite \/ Atomic!StoreRecover
<1>1. ComesFrom(Stored, mem) /\ (server = "up" => saved = Stored)
  BY DEF Inv, MemoryInv, BeforeReplace, PersistSteps
<1>2. server \in {"up", "loading"}
  BY DEF Inv, TypeOK, ControlInv
<1>3. CASE server = "up"
  <2>1. PICK t \in Times : Transition(Stored, t, mem)
    BY <1>1, <1>3 DEF ComesFrom
  <2>2. MemSeen = Stored /\ MemSeen' = mem /\ ServerSeen = "up" /\ ServerSeen' = "up"
    BY <1>1, <1>3 DEF MemSeen, ServerSeen
  <2>3. t \in Atomic!Times /\ Atomic!Transition(MemSeen, t, MemSeen')
    BY <2>1, <2>2, SameConstants, SameTransition
  <2> QED
    BY <2>2, <2>3 DEF Atomic!StoreWrite
<1>4. CASE server = "loading"
  <2>1. mem = RecoverInProgress(Stored) /\ ValidState(mem)
    BY <1>1, <1>4 DEF ComesFrom
  <2>2. MemSeen = MemSeen' /\ ServerSeen = "down" /\ ServerSeen' = "down"
    BY <1>4 DEF MemSeen, ServerSeen
  <2> QED
    BY <2>1, <2>2, SameLoad DEF Atomic!StoreRecover
<1> QED
  BY <1>2, <1>3, <1>4

\* The return of load() with a store.
LEMMA LoadedRefines ==
  ASSUME server = "loading", server' = "up", step' = "idle",
         mem' = Stored, Stored' = Stored,
         InProgress(Stored) = {}, ValidState(Stored)
  PROVE  Atomic!StoreStart
BY SameLoad DEF MemSeen, ServerSeen, Atomic!StoreStart

LEMMA StepRefines ==
  ASSUME Inv, [Next]_vars, RestoreMayFail = FALSE
  PROVE  Atomic!StoreNext \/ SeenUnchanged
<1>. USE DEF PersistSteps, BeforeReplace, LoadSteps
<1>1. Stored' = Stored
      \/ /\ step = "replace" /\ step' = "cleanup"
         /\ Stored' = mem /\ UNCHANGED <<server, mem, saved>>
  BY StoredStep
<1>2. CASE step = "replace" /\ step' = "cleanup"
           /\ Stored' = mem /\ UNCHANGED <<server, mem, saved>>
  BY <1>2, ReplaceRefines DEF Atomic!StoreNext
<1>. SUFFICES ASSUME Stored' = Stored,
                     ~ /\ step = "replace" /\ step' = "cleanup"
                       /\ Stored' = mem /\ UNCHANGED <<server, mem, saved>>
              PROVE  Atomic!StoreNext \/ SeenUnchanged
  BY <1>1, <1>2
<1>3. ASSUME Abort, step \notin {"idle", "cleanup"}
      PROVE  Atomic!StoreNext \/ SeenUnchanged
  BY <1>3, AbortRefines DEF Atomic!StoreNext
<1>4. CASE Operation
  <2>1. Ready /\ Persisting(mem')
    BY <1>4, OperationFacts
  <2> QED
    BY <2>1 DEF Ready, Persisting, SeenUnchanged, MemSeen, ServerSeen
<1>5. CASE WriteTmp
  BY <1>3, <1>5, InnerRefines DEF WriteTmp, Proceed
<1>6. CASE DropBackup
  BY <1>3, <1>6, InnerRefines DEF DropBackup, Proceed
<1>7. CASE Backup
  BY <1>3, <1>7, InnerRefines DEF Backup, Proceed
<1>8. CASE Replace
  <2>1. ~(main' = tmp /\ tmp' = NoFile /\ UNCHANGED bak /\ Proceed("cleanup"))
    BY <1>8, <1>1 DEF Replace, Proceed, Inv, TypeOK, FilesInv, Stored
  <2> QED
    BY <1>3, <1>8, <2>1, InnerRefines DEF Replace, Proceed
<1>9. CASE Restore
  BY <1>3, <1>9 DEF Restore
<1>10. CASE Cleanup
  <2>1. server \in {"up", "loading"} /\ Stored = mem
    BY <1>10 DEF Cleanup, Inv, TypeOK, ControlInv, FilesInv, Stored
  <2>2. CASE server = "up"
    BY <1>10, <2>2 DEF Cleanup, SeenUnchanged, MemSeen, ServerSeen
  <2>3. CASE server = "loading"
    <3>1. ValidState(Stored) /\ InProgress(Stored) = {}
      BY <1>10, <2>1, <2>3 DEF Cleanup, Inv, MemoryInv
    <3> QED
      BY <1>10, <2>1, <2>3, <3>1, LoadedRefines DEF Cleanup, Atomic!StoreNext
  <2> QED
    BY <2>1, <2>2, <2>3
<1>11. CASE StartLoad
  BY <1>11 DEF StartLoad, SeenUnchanged, MemSeen, ServerSeen
<1>12. CASE Read
  <2>1. server = "loading"
    BY <1>12 DEF Read, Inv, TypeOK, ControlInv
  <2> QED
    BY <1>3, <1>12, <2>1 DEF Read, SeenUnchanged, MemSeen, ServerSeen
<1>13. CASE RestoreBackup
  <2>1. server = "loading"
    BY <1>13 DEF RestoreBackup, Inv, TypeOK, ControlInv
  <2> QED
    BY <1>3, <1>13, <2>1, InnerRefines DEF RestoreBackup, Proceed
<1>14. CASE Recover
  <2>1. server = "loading" /\ mem = Stored /\ mem \in StoreState
    BY <1>14 DEF Recover, Inv, TypeOK, ControlInv, MemoryInv
  <2>2. InProgress(mem) = {} => RecoverInProgress(mem) = mem
    BY <2>1, RecoverFacts
  <2>3. CASE Abort
    BY <1>3, <1>14, <2>3 DEF Recover
  <2>4. CASE ~Abort
    <3>1. CASE InProgress(mem) = {}
      BY <1>14, <2>1, <2>2, <2>4, <3>1, LoadedRefines DEF Recover, Atomic!StoreNext
    <3>2. CASE InProgress(mem) # {}
      BY <1>14, <2>1, <2>4, <3>2 DEF Recover, SeenUnchanged, MemSeen, ServerSeen
    <3> QED
      BY <3>1, <3>2
  <2> QED
    BY <2>3, <2>4
<1>15. CASE Crash
  <2>1. CASE server = "loading"
    BY <1>15, <2>1 DEF Crash, SeenUnchanged, MemSeen, ServerSeen
  <2>2. CASE server # "loading"
    BY <1>15, <2>2, SameConstants
    DEF Crash, MemSeen, ServerSeen, Atomic!StoreNext, Atomic!StoreCrash
  <2> QED
    BY <2>1, <2>2
<1>16. CASE UNCHANGED vars
  BY <1>16 DEF vars, SeenUnchanged, MemSeen, ServerSeen
<1> QED
  BY <1>4, <1>5, <1>6, <1>7, <1>8, <1>9, <1>10, <1>11, <1>12, <1>13, <1>14, <1>15,
     <1>16 DEF Next, Load, Persist

\* FileX402ChallengeStore keeps the promise of X402AtomicStore: to its callers
\* and across restarts every operation happens at once or not at all.
THEOREM FileStoreIsAtomic ==
  ASSUME RestoreMayFail = FALSE
  PROVE  Spec => ImplementsAtomicStore
<1>1. Init => Atomic!StoreInit
  BY SameConstants DEF Init, Atomic!StoreInit, MemSeen, ServerSeen, Stored
<1>2. ASSUME Inv, [Next]_vars
      PROVE  [Atomic!StoreNext]_(Atomic!storeVars)
  BY <1>2, StepRefines DEF SeenUnchanged, Atomic!storeVars
<1> QED
  BY <1>1, <1>2, StoreInvariant, PTL DEF Spec, ImplementsAtomicStore, Atomic!StoreSpec
==============================================================================
