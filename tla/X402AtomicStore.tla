--------------------------- MODULE X402AtomicStore ---------------------------
(***************************************************************************)
(* What the persistent x402 challenge store promises the rest of the       *)
(* server (trait X402ChallengeStore, src/x402_store.rs): every operation   *)
(* that changes the state changes the memory of the process and the state  *)
(* a restart loads in ONE step, or it reports an error and changes         *)
(* neither; a crash loses the memory only; a restart gives back what was   *)
(* stored, with every settlement that was in progress marked as of unknown *)
(* outcome, or a store that refuses every call.                            *)
(*                                                                         *)
(* X402FileStore shows that the file store implements this module;         *)
(* X402Gateway builds the server on top of it.                             *)
(***************************************************************************)
EXTENDS X402State

VARIABLES
  mem,      \* the state in the memory of the process
  durable,  \* the state a restart would read
  server    \* "down", "up", or "unavailable" (the store could not be loaded)

storeVars == <<mem, durable, server>>

ServerStates == {"down", "up", "unavailable"}

StoreTypeOK ==
  /\ mem \in StoreState
  /\ durable \in StoreState
  /\ server \in ServerStates

StoreInit ==
  /\ mem = EmptyState
  /\ durable = EmptyState
  /\ server = "down"

StoreWrite ==
  /\ server = "up"
  /\ \E t \in Times : Transition(mem, t, mem')
  /\ durable' = mem'
  /\ UNCHANGED server

StoreCrash ==
  /\ server # "down"
  /\ server' = "down"
  /\ mem' = EmptyState
  /\ UNCHANGED durable

\* The load of a process that starts writes the recovered state back first.
StoreRecover ==
  /\ server = "down"
  /\ ValidState(RecoverInProgress(durable))
  /\ durable' = RecoverInProgress(durable)
  /\ UNCHANGED <<mem, server>>

\* Mutant: a process starts with the attempts of its predecessor in progress.
StoreStartUnrecovered ==
  /\ server = "down"
  /\ ValidState(durable)
  /\ mem' = durable
  /\ server' = "up"
  /\ UNCHANGED durable

StoreStart ==
  /\ server = "down"
  /\ InProgress(durable) = {}
  /\ ValidState(durable)
  /\ mem' = durable
  /\ server' = "up"
  /\ UNCHANGED durable

\* An input/output error, or a stored state that fails its validation.
StoreStartFails ==
  /\ server = "down"
  /\ server' = "unavailable"
  /\ UNCHANGED <<mem, durable>>

StoreNext ==
  \/ StoreWrite
  \/ StoreCrash
  \/ StoreRecover
  \/ StoreStart
  \/ StoreStartFails

StoreSpec == StoreInit /\ [][StoreNext]_storeVars
==============================================================================
