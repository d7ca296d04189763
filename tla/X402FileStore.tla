---------------------------- MODULE X402FileStore ----------------------------
(***************************************************************************)
(* FileX402ChallengeStore (src/x402_store.rs): the challenge state kept in *)
(* a JSON file, replaced by the file system calls of persist() one after   *)
(* the other, and read back by load() when the process starts.             *)
(*                                                                         *)
(* The process may crash between any two file system calls, and every call *)
(* may fail.  The store is used under the mutex of the server, so no       *)
(* second operation runs while one persists: only the crash interleaves.   *)
(* A crash is a crash of the process: what a completed call wrote stays.   *)
(* load() reading an empty file is left out: no step leaves one at `path`. *)
(***************************************************************************)
EXTENDS X402State

CONSTANTS
  NoFile,         \* the path does not exist
  Torn,           \* content of a file whose write did not finish
  RestoreMayFail  \* the rename back to `path`, after a failed one, may fail

ASSUME FileAssumption ==
  /\ NoFile \notin StoreState
  /\ Torn \notin StoreState
  /\ RestoreMayFail \in BOOLEAN

VARIABLES
  server,  \* "down", "loading", "up", or "unavailable"
  step,    \* the next file system call of persist() or load()
  mem,     \* FileX402ChallengeStore.state
  saved,   \* the local `previous` of the operation that persists
  main,    \* the file at `path`
  bak,     \* the file at `path` with extension json.bak
  tmp      \* the file at `path` with extension json.tmp

vars == <<server, step, mem, saved, main, bak, tmp>>
files == <<main, bak, tmp>>

PersistSteps == {"write", "drop_backup", "backup", "replace", "restore", "cleanup"}
LoadSteps == {"read", "restore_backup", "recover"}

TypeOK ==
  /\ server \in {"down", "loading", "up", "unavailable"}
  /\ step \in {"idle"} \cup PersistSteps \cup LoadSteps
  /\ mem \in StoreState
  /\ saved \in StoreState
  /\ main \in StoreState \cup {NoFile}
  /\ bak \in StoreState \cup {NoFile}
  /\ tmp \in StoreState \cup {NoFile, Torn}

Init ==
  /\ server = "down" /\ step = "idle"
  /\ mem = EmptyState /\ saved = EmptyState
  /\ main = NoFile /\ bak = NoFile /\ tmp = NoFile

\* The state the next load() reads.
Stored ==
  IF main # NoFile THEN main ELSE IF bak # NoFile THEN bak ELSE EmptyState

Ready == server = "up" /\ step = "idle"

------------------------------------------------------------------------------
(* The operations of the store, up to their call of persist() *)

Persisting(next) ==
  /\ mem' = next
  /\ saved' = mem
  /\ step' = "write"
  /\ UNCHANGED <<server, files>>

Create(now) ==
  /\ Ready
  /\ mem.next_id < MaxId
  /\ Persisting(CreateChallenge(mem, now).state)

Finalize(id, now) ==
  LET r == BeginFinalize(mem, id, now)
  IN  /\ Ready
      /\ r.outcome # "UnknownChallenge"
      /\ Persisting(r.state)

Record(id, digest, now) ==
  LET r == RecordVerifiedPayment(mem, id, digest, now)
  IN  /\ Ready
      /\ r.outcome = "Recorded"
      /\ Persisting(r.state)

Begin(id, digest, now) ==
  LET r == BeginSettlement(mem, id, digest, now)
  IN  /\ Ready
      /\ r.outcome = "Started"
      /\ Persisting(r.state)

Complete(id, digest, completion, hash) ==
  LET r == CompleteSettlement(mem, id, digest, completion, hash)
  IN  /\ Ready
      /\ r.outcome = "Completed"
      /\ Persisting(r.state)

------------------------------------------------------------------------------
(* persist() *)

\* Mutant: the error return keeps the new state in memory.
AbortKeepsMemory ==
  /\ step' = "idle"
  /\ saved' = EmptyState
  /\ IF server = "up" THEN UNCHANGED <<mem, server>>
     ELSE mem' = EmptyState /\ server' = "unavailable"

\* The error return: the operation puts `previous` back, load() gives up.
Abort ==
  /\ step' = "idle"
  /\ saved' = EmptyState
  /\ IF server = "up"
     THEN mem' = saved /\ UNCHANGED server
     ELSE mem' = EmptyState /\ server' = "unavailable"

Proceed(next) == step' = next /\ UNCHANGED <<server, mem, saved>>

\* Mutant: the result of write_all and sync_all is ignored.
WriteTmpUnchecked ==
  /\ step = "write"
  /\ tmp' \in {mem, Torn}
  /\ Proceed("drop_backup")
  /\ UNCHANGED <<main, bak>>

\* create_dir_all, open, write_all and sync_all of the temporary file.
WriteTmp ==
  /\ step = "write"
  /\ \/ tmp' = mem /\ Proceed("drop_backup")
     \/ tmp' \in {tmp, Torn} /\ Abort
  /\ UNCHANGED <<main, bak>>

DropBackup ==
  /\ step = "drop_backup"
  /\ \/ bak' = NoFile /\ Proceed("backup")
     \/ bak # NoFile /\ UNCHANGED bak /\ Abort
  /\ UNCHANGED <<main, tmp>>

\* Mutant: the old file is removed, not kept as the backup.
BackupRemoves ==
  /\ step = "backup"
  /\ main' = NoFile
  /\ UNCHANGED <<bak, tmp>>
  /\ Proceed("replace")

Backup ==
  /\ step = "backup"
  /\ \/ main = NoFile /\ UNCHANGED files /\ Proceed("replace")
     \/ /\ main # NoFile
        /\ bak' = main /\ main' = NoFile
        /\ UNCHANGED tmp
        /\ Proceed("replace")
     \/ main # NoFile /\ UNCHANGED files /\ Abort

Replace ==
  /\ step = "replace"
  /\ \/ /\ main' = tmp /\ tmp' = NoFile
        /\ UNCHANGED bak
        /\ Proceed("cleanup")
     \/ /\ bak # NoFile /\ main = NoFile
        /\ UNCHANGED files
        /\ Proceed("restore")
     \/ /\ ~(bak # NoFile /\ main = NoFile)
        /\ UNCHANGED files
        /\ Abort

\* `let _ = fs::rename(&backup_path, &self.path)` before the error return.
Restore ==
  /\ step = "restore"
  /\ \/ main' = bak /\ bak' = NoFile
     \/ RestoreMayFail /\ UNCHANGED <<main, bak>>
  /\ UNCHANGED tmp
  /\ Abort

\* `let _ = fs::remove_file(backup_path)` and the return of Ok.
Cleanup ==
  /\ step = "cleanup"
  /\ bak' \in {bak, NoFile}
  /\ step' = "idle"
  /\ saved' = EmptyState
  /\ server' = "up"
  /\ UNCHANGED <<mem, main, tmp>>

------------------------------------------------------------------------------
(* load(), and the end of the process *)

StartLoad ==
  /\ server = "down"
  /\ server' = "loading"
  /\ step' = "read"
  /\ UNCHANGED <<mem, saved, files>>

Read ==
  /\ step = "read"
  /\ \/ /\ mem' = Stored
        /\ step' = IF main = NoFile /\ bak # NoFile
                   THEN "restore_backup" ELSE "recover"
        /\ UNCHANGED <<server, saved>>
     \/ Abort
  /\ UNCHANGED files

RestoreBackup ==
  /\ step = "restore_backup"
  /\ \/ main' = bak /\ bak' = NoFile /\ Proceed("recover")
     \/ UNCHANGED <<main, bak>> /\ Abort
  /\ UNCHANGED tmp

\* Mutant: load() serves the recovered state without storing it.
RecoverUnstored ==
  /\ step = "recover"
  /\ IF ~ValidState(RecoverInProgress(mem)) THEN Abort
     ELSE /\ mem' = RecoverInProgress(mem)
          /\ step' = "idle" /\ server' = "up"
          /\ UNCHANGED saved
  /\ UNCHANGED files

Recover ==
  LET recovered == RecoverInProgress(mem)
  IN  /\ step = "recover"
      /\ IF ~ValidState(recovered) THEN Abort
         ELSE /\ mem' = recovered
              /\ IF InProgress(mem) = {}
                 THEN step' = "idle" /\ server' = "up"
                 ELSE step' = "write" /\ UNCHANGED server
              /\ UNCHANGED saved
      /\ UNCHANGED files

Crash ==
  /\ server # "down"
  /\ server' = "down" /\ step' = "idle"
  /\ mem' = EmptyState /\ saved' = EmptyState
  /\ UNCHANGED files

Operation ==
  \E now \in Times :
    \/ Create(now)
    \/ \E id \in ChallengeIds : Finalize(id, now)
    \/ \E id \in ChallengeIds, digest \in Digests : Record(id, digest, now)
    \/ \E id \in ChallengeIds, digest \in Digests : Begin(id, digest, now)
    \/ \E id \in ChallengeIds, digest \in Digests,
         completion \in Completions, hash \in Hashes \cup {None} :
         Complete(id, digest, completion, hash)

Persist == WriteTmp \/ DropBackup \/ Backup \/ Replace \/ Restore \/ Cleanup
Load == StartLoad \/ Read \/ RestoreBackup \/ Recover

Next == Operation \/ Persist \/ Load \/ Crash

Spec == Init /\ [][Next]_vars

------------------------------------------------------------------------------
(* Properties *)

\* Whatever failed or crashed before, a store that answers requests holds in
\* memory what a restart would read: an Ok was stored, an Err changed nothing
\* (the roll back to `previous` and the renames of persist()).
MemoryIsStored == Ready => mem = Stored

\* No step, no failed file system call and no crash makes the stored state
\* forget a used challenge or step back the id counter: a finalized payment
\* stays blocked for replay and no id is given out twice.
ReplayProtectionSurvives ==
  [][Stored.used \subseteq Stored'.used /\ Stored.next_id <= Stored'.next_id]_vars

\* A finalized challenge stays blocked for replay after later restarts (the
\* guide's promise of the file store), also when a restoring rename fails.
FinalizedStayBlocked == [][Stored.used \subseteq Stored'.used]_vars

\* The state the caller may rely on: the new one once it has reached `path`.
MemSeen ==
  IF server # "up" THEN EmptyState
  ELSE IF step \in {"idle", "cleanup"} THEN mem ELSE saved

ServerSeen == IF server = "loading" THEN "down" ELSE server

\* The store has the atomic, durable operations of X402AtomicStore: the steps
\* of persist() before the rename to `path` are invisible to a restart.
Atomic == INSTANCE X402AtomicStore WITH
  mem <- MemSeen, durable <- Stored, server <- ServerSeen

ImplementsAtomicStore == Atomic!StoreSpec
==============================================================================
