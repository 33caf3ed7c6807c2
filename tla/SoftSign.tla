------------------------------ MODULE SoftSign ------------------------------
(* The software signer (providers/softsign): one process that keeps its       *)
(* consensus state in a file next to its keys, and dies on the first error    *)
(* of its request loop.  Somebody restarts it.                                *)
EXTENDS Session

CONSTANT NoFile   \* the state file does not exist

ASSUME FileAssumption == NoFile \notin ConsensusStates

VARIABLE file   \* what a read of config.state_file_path returns

vars == <<pc, state, cs, resp, signed, file>>

Locations == {"off", "connect", "read", "persist", "rename", "sign", "respond", "failed"}

TypeOK ==
  /\ pc \in Locations
  /\ state \in ConsensusStates
  /\ cs \in ConsensusStates
  /\ resp \in Responses
  /\ signed \subseteq ConsensusStates
  /\ file \in ConsensusStates \cup {NoFile}

Init == SessionInit /\ file = NoFile

-----------------------------------------------------------------------------
\* `start`: load_state on an existing file.  A key that does not load stops the
\* process before it connects.
Start ==
  /\ pc = "off"
  /\ file \in ConsensusStates
  /\ state' = file
  /\ pc' = "connect"
  /\ UNCHANGED <<cs, resp, signed, file>>

\* `start` without a state file: write_initial_state.  A process that dies
\* before the rename in persist_state leaves the file absent, so the steps of
\* that write need not be told apart here.
StartFresh ==
  /\ pc = "off"
  /\ file = NoFile
  /\ file' = InitialState
  /\ state' = InitialState
  /\ pc' = "connect"
  /\ UNCHANGED <<cs, resp, signed>>

\* The socket opens, the handshake succeeds and the peer id is the expected
\* one.  A refused connection is retried or, like the rest, a panic.
Connect ==
  /\ pc = "connect"
  /\ pc' = "read"
  /\ UNCHANGED <<state, cs, resp, signed, file>>

ConnectPanic == pc = "connect" /\ Off /\ UNCHANGED file

\* Variant: the old state file is gone before the new one is in place.
WriteInPlace ==
  /\ pc = "persist"
  /\ pc' = "rename"
  /\ file' = NoFile
  /\ UNCHANGED <<state, cs, resp, signed>>

\* persist_state: the new state is written to a temporary file in the same
\* directory, which nobody reads, and renamed over the state file.
WriteTemp ==
  /\ pc = "persist"
  /\ pc' = "rename"
  /\ UNCHANGED <<state, cs, resp, signed, file>>

Rename ==
  /\ pc = "rename"
  /\ file' = cs
  /\ Persisted

\* Either step of persist_state returns an error; the temporary file is
\* removed when it goes out of scope.
PersistError ==
  /\ pc \in {"persist", "rename"}
  /\ PersistFailed
  /\ UNCHANGED file

\* request_loop().expect(...)
Panic == pc = "failed" /\ Off /\ UNCHANGED file

\* The process is killed between any two steps.
Kill == pc # "off" /\ Off /\ UNCHANGED file

Next ==
  \/ Start \/ StartFresh \/ Connect \/ ConnectPanic
  \/ HandleRequest /\ UNCHANGED file
  \/ WriteTemp \/ Rename \/ PersistError
  \/ Panic \/ Kill

Spec == Init /\ [][Next]_vars

-----------------------------------------------------------------------------
\* No two signatures made over the whole life of the state file, across
\* crashes, panics and restarts, disagree on the block at one height, round
\* and step (check_consensus_state, persisted before the key is used).
NoDoubleSign == \A s, n \in signed : ~Conflict(s, n)

\* A prevote and the precommit of the same round, or a proposal and the
\* prevote, are never signed for two different blocks, even when the process
\* died in between (the cross-step half of check_block_id).
NoFlip == \A s, n \in signed : ~Flip(s, n)

\* The file is never behind a signature: a process that starts from it
\* refuses everything that could contradict what was signed before
\* (persist_state precedes signing_key.sign).
FileCoversSigned ==
  signed # {} => file \in ConsensusStates /\ \A s \in signed : Follows(s, file)

\* The vote a restarted signer is asked for again, because the answer got
\* lost, is not refused: what the file holds is always accepted again.
RetryAccepted ==
  pc = "read" /\ file \in ConsensusStates =>
    \A s \in signed : SameHRS(s, file) => Accepted(state, s)

\* The file never goes back to an earlier height, round or step, and is at no
\* point of persist_state gone, wherever the process dies (the temporary file
\* and the rename, fed by the checks).
FileOnlyAdvances ==
  [][(file \in ConsensusStates) =>
       file' \in ConsensusStates /\ NotAfter(file, file')]_file

\* The signer keeps the promise of the abstract specification, and never loses
\* track.
Guard == INSTANCE DoubleSignGuard WITH blind <- FALSE
GuardSpec == Guard!Spec
=============================================================================
