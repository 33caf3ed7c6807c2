----------------------------- MODULE EnclaveSync -----------------------------
(* What the two enclave providers (Nitro and SGX) have in common: a session    *)
(* inside the enclave that outlives its connections to the validator, and      *)
(* persists its state by writing it to a stream whose other end, a thread on   *)
(* the host, stores it in a file.  Nothing is acknowledged: persist_state       *)
(* returns as soon as the stream has taken the bytes.                           *)
EXTENDS Session, SequencesExt

CONSTANTS
  NoFile,       \* the state file does not exist
  MaxInFlight   \* bound: states the stream holds before a write blocks

ASSUME EnclaveFileAssumption == NoFile \notin ConsensusStates
ASSUME InFlightAssumption == MaxInFlight \in Nat \ {0}

VARIABLES
  file,     \* the state file on the host
  stream,   \* states written by the enclave and not yet read by the host
  lost      \* history: some state written by the enclave will never be stored

syncVars == <<file, stream, lost>>

SyncInit == file = NoFile /\ stream = <<>> /\ lost = FALSE

SyncTypeOK ==
  /\ state \in ConsensusStates
  /\ cs \in ConsensusStates
  /\ resp \in Responses
  /\ signed \subseteq ConsensusStates
  /\ file \in ConsensusStates \cup {NoFile}
  /\ stream \in Seq(ConsensusStates) /\ Len(stream) <= MaxInFlight
  /\ lost \in BOOLEAN

\* Variants: the file is ignored; a state read from the stream is not written.
LoadedStateBlank == InitialState
StoreNextSkips ==
  /\ stream # <<>>
  /\ stream' = Tail(stream)
  /\ UNCHANGED <<file, lost>>

\* The state a StateSyncer loads; it writes the initial one if there is none.
LoadedState == IF file = NoFile THEN InitialState ELSE file

-----------------------------------------------------------------------------
\* get_connection: retried every second until the validator accepts.
GetConnection ==
  /\ pc = "connect"
  /\ pc' = "read"
  /\ UNCHANGED <<state, cs, resp, signed>> /\ UNCHANGED syncVars

\* The loop of `entry`: request_loop returned an error, the connection is
\* replaced and the session, with the state it holds, goes on.
ResetConnection ==
  /\ pc = "failed"
  /\ pc' = "connect"
  /\ UNCHANGED <<state, cs, resp, signed>> /\ UNCHANGED syncVars

\* A variant that takes the key into use without having sent anything.
SendNothing ==
  /\ pc = "persist"
  /\ Persisted
  /\ UNCHANGED syncVars

\* persist_state with a host that still reads.
SendState ==
  /\ pc = "persist"
  /\ Len(stream) < MaxInFlight
  /\ stream' = Append(stream, cs)
  /\ Persisted
  /\ UNCHANGED <<file, lost>>

\* One turn of the host's loop, sync_from_stream and persist_state.  A failed
\* write to the file is logged and otherwise ignored.
StoreNext ==
  /\ stream # <<>>
  /\ file' = Head(stream)
  /\ stream' = Tail(stream)
  /\ UNCHANGED lost

StoreFails ==
  /\ stream # <<>>
  /\ stream' = Tail(stream)
  /\ lost' = TRUE
  /\ UNCHANGED file

\* The reading end is gone, with what it had not read.
DropStream ==
  /\ stream' = <<>>
  /\ lost' = (lost \/ stream # <<>>)

-----------------------------------------------------------------------------
\* No two signatures disagree at one height, round and step, and no prevote
\* and precommit of a round differ in their block, as long as every state the
\* enclave sent before signing was, or still will be, stored by the host.
NoDoubleSignUnlessLost == lost \/ \A s, n \in signed : ~Conflict(s, n) /\ ~Flip(s, n)

\* The reason: the newest state on its way to the file, or in it, follows
\* every signature, so an enclave started after the host has drained the
\* stream knows all of them.
Newest == IF stream = <<>> THEN file ELSE Last(stream)
NewestCoversSigned ==
  lost \/ signed = {} \/ (Newest \in ConsensusStates /\ \A s \in signed : Follows(s, Newest))

\* States in flight arrive in the order in which the checks admitted them,
\* none of them older than the file, losses or not.
InFlightInOrder ==
  /\ \A i, j \in DOMAIN stream : i < j => Follows(stream[i], stream[j])
  /\ file \in ConsensusStates => \A i \in DOMAIN stream : Follows(file, stream[i])

\* The file on the host never goes back, even after updates were lost and an
\* enclave was restarted from it.
FileOnlyAdvances ==
  [][(file \in ConsensusStates) =>
       file' \in ConsensusStates /\ NotAfter(file, file')]_file

\* The promise of the crate ("State tracking for double signing prevention")
\* without the proviso about lost updates.
NoDoubleSign == \A s, n \in signed : ~Conflict(s, n)

\* Every state the enclave sent ends up in the file, or a later one does,
\* unless it was lost.
EveryUpdateStored ==
  \A c \in {RequestState(r) : r \in SignRequests} :
    (c \in ToSet(stream)) ~> (lost \/ (file \in ConsensusStates /\ NotAfter(c, file)))

\* The enclave and the host together keep the promise of the abstract
\* specification; they lose track when an update is lost, and in no other way.
Guard == INSTANCE DoubleSignGuard WITH blind <- lost
GuardSpec == Guard!Spec
=============================================================================
