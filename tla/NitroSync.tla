------------------------------ MODULE NitroSync ------------------------------
(* The Nitro provider: an enclave VM and a helper process on the host, which   *)
(* die independently.  The helper loads the state file, pushes the start        *)
(* configuration to the enclave once, accepts the enclave's state connection    *)
(* once, hands it the state, and from then on stores what it is sent.           *)
EXTENDS EnclaveSync

CONSTANT MaxConfigs   \* bound: configurations pushed and not yet read

ASSUME ConfigsAssumption == MaxConfigs \in Nat \ {0}

VARIABLES
  configs,     \* configurations waiting at the enclave's listener
  helper,      \* where the helper's state syncer is
  hostState,   \* StateSyncer.state
  linked,      \* the enclave takes its state connection to be alive
  stop         \* a stop signal is waiting in stop_recv

vars == <<pc, state, cs, resp, signed, file, stream, lost, configs, helper, hostState, linked, stop>>
hostVars == <<configs, helper, hostState, linked, stop>>

TypeOK ==
  /\ pc \in {"off", "boot", "load", "loading", "connect", "read", "persist", "sign", "respond", "failed"}
  /\ helper \in {"off", "bound", "listening", "serving", "polling", "finished"}
  /\ configs \in 0..MaxConfigs
  /\ hostState \in ConsensusStates
  /\ linked \in BOOLEAN /\ stop \in BOOLEAN
  /\ SyncTypeOK

Init ==
  /\ SessionInit /\ SyncInit
  /\ configs = 0
  /\ helper = "off" /\ hostState = InitialState
  /\ linked = FALSE /\ stop = FALSE

Reading == helper \in {"serving", "polling"}

-----------------------------------------------------------------------------
\* The enclave.

\* nitro-cli starts the enclave, which listens for a configuration.
Boot ==
  /\ pc = "off"
  /\ pc' = "boot"
  /\ UNCHANGED <<state, cs, resp, signed>> /\ UNCHANGED syncVars /\ UNCHANGED hostVars

\* The loop over the listener's connections takes the next configuration.
TakeConfig ==
  /\ pc = "boot" /\ configs > 0
  /\ pc' = "load"
  /\ configs' = configs - 1
  /\ UNCHANGED <<state, cs, resp, signed, helper, hostState, linked, stop>> /\ UNCHANGED syncVars

\* StateHolder::new meets incoming() and sync_to_stream in the helper.
Accept ==
  /\ pc = "load" /\ helper = "listening"
  /\ pc' = "loading" /\ helper' = "serving"
  /\ linked' = TRUE
  /\ UNCHANGED <<state, cs, resp, signed, configs, hostState, stop>> /\ UNCHANGED syncVars

\* load_state reads what the helper has sent.
LoadState ==
  /\ pc = "loading" /\ linked
  /\ pc' = "connect"
  /\ state' = hostState
  /\ UNCHANGED <<cs, resp, signed>> /\ UNCHANGED syncVars /\ UNCHANGED hostVars

\* The configuration is unreadable, KMS refuses the keys, or the state
\* connection cannot be opened or read: `entry` returns and the listener
\* waits for another configuration.
EntryError ==
  /\ pc \in {"load", "loading"}
  /\ pc' = "boot"
  /\ linked' = FALSE
  /\ UNCHANGED <<state, cs, resp, signed, configs, helper, hostState, stop>> /\ UNCHANGED syncVars

Send == linked /\ Reading /\ SendState /\ UNCHANGED hostVars

\* The helper is gone but the enclave's kernel does not know yet: the write
\* succeeds and nobody will read it.
SendUnread ==
  /\ pc = "persist"
  /\ linked /\ ~Reading
  /\ lost' = TRUE
  /\ Persisted
  /\ UNCHANGED <<file, stream>> /\ UNCHANGED hostVars

SendError == pc = "persist" /\ ~linked /\ PersistFailed /\ UNCHANGED syncVars /\ UNCHANGED hostVars

LinkBreaks ==
  /\ linked /\ ~Reading
  /\ linked' = FALSE
  /\ UNCHANGED sessionVars /\ UNCHANGED syncVars /\ UNCHANGED <<configs, helper, hostState, stop>>

\* The enclave is terminated or crashes; what it wrote can still be read.
EnclaveStop ==
  /\ pc # "off"
  /\ Off
  /\ linked' = FALSE
  /\ configs' = 0
  /\ UNCHANGED syncVars /\ UNCHANGED <<helper, hostState, stop>>

-----------------------------------------------------------------------------
\* The helper.

\* Variants: it resumes from a state it has not read from the file; it writes
\* the initial state over the file.
HelperStartBlank ==
  /\ helper = "off"
  /\ helper' = "bound"
  /\ hostState' = InitialState
  /\ file' = LoadedState
  /\ stop' = FALSE
  /\ UNCHANGED sessionVars /\ UNCHANGED <<stream, lost, configs, linked>>

HelperStartWipes ==
  /\ helper = "off"
  /\ helper' = "bound"
  /\ hostState' = LoadedState
  /\ file' = InitialState
  /\ stop' = FALSE
  /\ UNCHANGED sessionVars /\ UNCHANGED <<stream, lost, configs, linked>>

\* StateSyncer::new
HelperStart ==
  /\ helper = "off"
  /\ helper' = "bound"
  /\ hostState' = LoadedState
  /\ file' = LoadedState
  /\ stop' = FALSE
  /\ UNCHANGED sessionVars /\ UNCHANGED <<stream, lost, configs, linked>>

\* The configuration is queued at the enclave's listener; one that is already
\* signing will not look at it.
PushConfig ==
  /\ helper = "bound"
  /\ pc # "off" /\ configs < MaxConfigs
  /\ helper' = "listening"
  /\ configs' = configs + 1
  /\ UNCHANGED sessionVars /\ UNCHANGED syncVars /\ UNCHANGED <<hostState, linked, stop>>

\* `start` fails before it launches the syncer: no enclave to connect to, no
\* key file, no credentials.
StartError ==
  /\ helper = "bound"
  /\ helper' = "off"
  /\ UNCHANGED sessionVars /\ UNCHANGED syncVars /\ UNCHANGED <<configs, hostState, linked, stop>>

\* sync_from_stream returned a state: it is kept, written to the file, and the
\* stop signal is polled.  While nothing arrives, and after the enclave has
\* closed the stream, the loop stays where it is.
Store ==
  /\ helper = "serving"
  /\ StoreNext \/ StoreFails
  /\ hostState' = Head(stream)
  /\ helper' = "polling"
  /\ UNCHANGED sessionVars /\ UNCHANGED <<configs, linked, stop>>

Poll ==
  /\ helper = "polling"
  /\ \/ stop /\ helper' = "finished" /\ DropStream
     \/ ~stop /\ helper' = "serving" /\ UNCHANGED <<stream, lost>>
  /\ UNCHANGED sessionVars /\ UNCHANGED <<file, configs, hostState, linked, stop>>

\* Ctrl-C, or the launcher's stop signal.
StopSignal ==
  /\ helper # "off" /\ ~stop
  /\ stop' = TRUE
  /\ UNCHANGED sessionVars /\ UNCHANGED syncVars /\ UNCHANGED <<configs, helper, hostState, linked>>

\* The helper process ends: its syncer finished, or it is killed.
HelperExit ==
  /\ helper # "off"
  /\ helper' = "off"
  /\ DropStream
  /\ UNCHANGED sessionVars /\ UNCHANGED <<file, configs, hostState, linked, stop>>

SessionStep ==
  /\ \/ HandleRequest /\ UNCHANGED syncVars
     \/ GetConnection
     \/ ResetConnection
  /\ UNCHANGED hostVars

Next ==
  \/ Boot \/ TakeConfig \/ Accept \/ LoadState \/ EntryError \/ EnclaveStop
  \/ SessionStep
  \/ Send \/ SendUnread \/ SendError \/ LinkBreaks
  \/ HelperStart \/ PushConfig \/ StartError
  \/ Store \/ Poll \/ StopSignal \/ HelperExit

Spec == Init /\ [][Next]_vars

\* The helper's thread runs, and a connection whose peer is gone is found dead.
Fairness ==
  /\ WF_vars(Store) /\ WF_vars(Poll)
  /\ WF_vars(LinkBreaks)

FairSpec == Spec /\ Fairness

-----------------------------------------------------------------------------
\* A running enclave signs from exactly the newest state on its way to the file:
\* no second connection, late configuration or restarted helper puts another
\* state in between.  When the file missed a state, because the helper died or
\* failed to write it, what is in flight still ends in the enclave's state and
\* brings the file up to it (nitro-helper/src/state.rs:103 only logs the failure).
EnclaveHoldsNewest ==
  pc \notin {"off", "boot", "load", "loading"} =>
    state = Newest \/ (lost /\ stream = <<>>)

\* "Launches the state syncer, when get data from stop_recv, the thread will be
\* finished" (doc of launch_syncer).
StopFinishes == (stop /\ helper = "serving") ~> (helper \in {"finished", "off"})
=============================================================================
