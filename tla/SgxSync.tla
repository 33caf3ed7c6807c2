------------------------------- MODULE SgxSync -------------------------------
(* The SGX provider: runner and enclave are one process, the state stream a    *)
(* pair of Unix sockets in it, so the enclave, the thread that stores its       *)
(* states and whatever is in flight between them always end together.          *)
EXTENDS EnclaveSync

VARIABLE torn   \* part of a frame was left on the socket pair by a failed write

vars == <<pc, state, cs, resp, signed, file, stream, lost, torn>>

TypeOK ==
  /\ pc \in {"off", "connect", "read", "persist", "sign", "respond", "failed"}
  /\ SyncTypeOK
  /\ torn \in BOOLEAN

Init == SessionInit /\ SyncInit /\ torn = FALSE

\* `start`: StateSyncer::new loads the file, the enclave gets its state as an
\* argument and unseals its key.
Start ==
  /\ pc = "off"
  /\ file' = LoadedState
  /\ state' = LoadedState
  /\ pc' = "connect"
  /\ UNCHANGED <<cs, resp, signed, stream, lost, torn>>

SessionStep ==
  /\ \/ HandleRequest /\ UNCHANGED syncVars
     \/ GetConnection
     \/ ResetConnection
  /\ UNCHANGED torn

Send == SendState /\ UNCHANGED torn

\* Variant: the state in memory is assigned before the write that fails.
SendErrorAssigned ==
  /\ pc = "persist"
  /\ state' = cs
  /\ pc' = "failed" /\ resp' = "none" /\ cs' = InitialState
  /\ torn' \in {torn, TRUE}
  /\ UNCHANGED signed /\ UNCHANGED syncVars

\* persist_state fails to write to the socket pair, before the first byte of
\* the frame or inside it.
SendError ==
  /\ pc = "persist"
  /\ PersistFailed
  /\ torn' \in {torn, TRUE}
  /\ UNCHANGED syncVars

\* A frame written behind a partial one is read as part of it, and no state
\* comes out, until the lengths happen to bring the reader back in step.
SendSwallowed ==
  /\ pc = "persist"
  /\ torn
  /\ lost' = TRUE
  /\ Persisted
  /\ UNCHANGED <<file, stream, torn>>

\* The thread of launch_syncer.
Store == pc # "off" /\ StoreNext /\ UNCHANGED sessionVars /\ UNCHANGED torn
StoreError == pc # "off" /\ StoreFails /\ UNCHANGED sessionVars /\ UNCHANGED torn

\* The process ends: killed, or because the enclave stopped.  The syncer thread
\* is not joined.
Exit ==
  /\ pc # "off"
  /\ Off
  /\ DropStream
  /\ torn' = FALSE
  /\ UNCHANGED file

Next ==
  \/ Start
  \/ SessionStep
  \/ Send \/ SendError \/ SendSwallowed
  \/ Store \/ StoreError
  \/ Exit

Spec == Init /\ [][Next]_vars

\* The syncer thread keeps running.
Fairness == WF_vars(Store)

FairSpec == Spec /\ Fairness

-----------------------------------------------------------------------------
\* A running enclave signs from exactly the newest state on its way to the file,
\* after failed sends too: check_update_consensus_state assigns the state in
\* memory only once it was sent.  When the file missed a state, because a write
\* of it failed, what is in flight still ends in the enclave's state and brings
\* the file up to it.  Only an enclave whose updates a partial frame swallows is
\* ahead of both.
EnclaveHoldsNewest ==
  pc # "off" => state = Newest \/ (lost /\ (torn \/ stream = <<>>))
=============================================================================
