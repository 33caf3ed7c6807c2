------------------------------ MODULE LaunchAll ------------------------------
(* `tmkms-nitro-helper launch-all`: one process that starts the enclave, the    *)
(* vsock proxy and the helper in threads of their own, and stops them by a       *)
(* signal each of them receives on a channel.  What the helper thread does        *)
(* with its signal is the subject of NitroSync.                                   *)
EXTENDS Naturals

CONSTANT Timeout   \* seconds Launcher::run waits for the enclave (15 in the code)

ASSUME TimeoutAssumption == Timeout \in Nat \ {0}

VARIABLES
  main,      \* where Launcher::run is
  waited,    \* its counter `t`
  thread,    \* where threads 1 (enclave), 2 (vsock proxy) and 3 (helper) are
  sending,   \* who is sending stop signals, and to which thread next
  pending,   \* threads with a stop signal in their channel
  foreign,   \* an enclave that was active before the launcher started
  enclave,   \* the enclave started by the launcher is running
  proxy,     \* the vsock-proxy child is running
  refused,   \* history: nitro-cli did not terminate the enclave; ignored
  exited     \* the launcher process is gone

launchVars == <<main, waited, thread, sending, pending, foreign, enclave, proxy, refused, exited>>
childVars == <<foreign, enclave, proxy, refused>>

Threads == 1 .. 3
MainThread == 0

LaunchInit ==
  /\ main = "waiting" /\ waited = 0
  /\ thread = [i \in Threads |-> IF i = 3 THEN "none" ELSE "starting"]
  /\ sending = [i \in 0 .. 3 |-> 0]
  /\ pending = {}
  /\ foreign \in BOOLEAN
  /\ enclave = FALSE /\ proxy = FALSE /\ refused = FALSE /\ exited = FALSE

\* A thread's receiver is dropped when the function it was moved into returns.
Listening(i) == thread[i] \in {"none", "starting", "blocked"}

-----------------------------------------------------------------------------
\* A variant that discards a signal sent before the enclave was up.
EnclaveUpLosesSignal ==
  /\ ~exited /\ thread[1] = "starting" /\ ~foreign
  /\ enclave' = TRUE
  /\ thread' = [thread EXCEPT ![1] = "blocked"]
  /\ pending' = pending \ {1}
  /\ UNCHANGED <<main, waited, sending, foreign, proxy, refused, exited>>

\* run_enclave.  An error of nitro-cli, of the log server or an active enclave
\* makes it fail; otherwise it blocks on its channel.
EnclaveUp ==
  /\ ~exited /\ thread[1] = "starting" /\ ~foreign
  /\ enclave' = TRUE
  /\ thread' = [thread EXCEPT ![1] = "blocked"]
  /\ UNCHANGED <<main, waited, sending, pending, foreign, proxy, refused, exited>>

StopEnclave ==
  /\ ~exited /\ thread[1] = "blocked" /\ 1 \in pending
  /\ \/ enclave' = FALSE /\ UNCHANGED refused
     \/ refused' = TRUE /\ UNCHANGED enclave
  /\ thread' = [thread EXCEPT ![1] = "done"]
  /\ UNCHANGED <<main, waited, sending, pending, foreign, proxy, exited>>

\* run_vsock_proxy.  A proxy that is already running is left alone.
ProxyFound ==
  /\ ~exited /\ thread[2] = "starting"
  /\ thread' = [thread EXCEPT ![2] = "done"]
  /\ UNCHANGED <<main, waited, sending, pending, exited>> /\ UNCHANGED childVars

ProxyUp ==
  /\ ~exited /\ thread[2] = "starting"
  /\ proxy' = TRUE
  /\ thread' = [thread EXCEPT ![2] = "blocked"]
  /\ UNCHANGED <<main, waited, sending, pending, foreign, enclave, refused, exited>>

\* A variant of StopProxy that forgets child.kill().
StopProxyForgotten ==
  /\ ~exited /\ thread[2] = "blocked" /\ 2 \in pending
  /\ thread' = [thread EXCEPT ![2] = "done"]
  /\ UNCHANGED <<main, waited, sending, pending, exited>> /\ UNCHANGED childVars

StopProxy ==
  /\ ~exited /\ thread[2] = "blocked" /\ 2 \in pending
  /\ proxy' = FALSE
  /\ thread' = [thread EXCEPT ![2] = "done"]
  /\ UNCHANGED <<main, waited, sending, pending, foreign, enclave, refused, exited>>

\* `start`: the configuration is pushed and the state syncer launched.  It
\* returns when the syncer has noticed the signal, which need not happen.
HelperServes ==
  /\ ~exited /\ thread[3] = "starting"
  /\ thread' = [thread EXCEPT ![3] = "blocked"]
  /\ UNCHANGED <<main, waited, sending, pending, exited>> /\ UNCHANGED childVars

HelperReturns ==
  /\ ~exited /\ thread[3] = "blocked" /\ 3 \in pending
  /\ thread' = [thread EXCEPT ![3] = "done"]
  /\ UNCHANGED <<main, waited, sending, pending, exited>> /\ UNCHANGED childVars

\* The function of thread i returns an error; the thread starts to send stop
\* signals to all threads, its own included.  nitro-cli may have started the
\* enclave when parse_output finds its answer unreadable.
Error(i) ==
  /\ ~exited /\ thread[i] = "starting"
  /\ thread' = [thread EXCEPT ![i] = "failed"]
  /\ sending' = [sending EXCEPT ![i] = 1]
  /\ \/ UNCHANGED enclave
     \/ i = 1 /\ ~foreign /\ enclave' = TRUE
  /\ UNCHANGED <<main, waited, pending, foreign, proxy, refused, exited>>

\* A variant that goes on after a send to a thread that no longer listens.
SendIgnoringErrors(i) ==
  /\ ~exited /\ sending[i] \in Threads
  /\ pending' = pending \cup {sending[i]}
  /\ sending' = [sending EXCEPT ![i] = sending[i] + 1]
  /\ UNCHANGED <<main, waited, thread, exited>> /\ UNCHANGED childVars

\* One tx.send(()) of thread i (or of the main thread after a timeout): a
\* receiver that is gone makes it exit(1) on the spot.
SendStop(i) ==
  /\ ~exited /\ sending[i] \in Threads
  /\ IF Listening(sending[i])
       THEN /\ pending' = pending \cup {sending[i]}
            /\ sending' = [sending EXCEPT ![i] = sending[i] + 1]
            /\ UNCHANGED exited
       ELSE exited' = TRUE /\ UNCHANGED <<pending, sending>>
  /\ UNCHANGED <<main, waited, thread>> /\ UNCHANGED childVars

-----------------------------------------------------------------------------
\* Launcher::run after it has spawned the first two threads.

EnclaveFound ==
  /\ ~exited /\ main = "waiting"
  /\ enclave \/ foreign
  /\ main' = "handler"
  /\ thread' = [thread EXCEPT ![3] = "starting"]
  /\ UNCHANGED <<waited, sending, pending, exited>> /\ UNCHANGED childVars

NotFound ==
  /\ ~exited /\ main = "waiting"
  /\ ~enclave /\ ~foreign
  /\ waited' = waited + 1
  /\ IF waited' < Timeout
       THEN UNCHANGED <<main, sending>>
       ELSE main' = "timeout" /\ sending' = [sending EXCEPT ![MainThread] = 1]
  /\ UNCHANGED <<thread, pending, exited>> /\ UNCHANGED childVars

TimeoutSent ==
  /\ ~exited /\ main = "timeout" /\ sending[MainThread] = 4
  /\ main' = "handler"
  /\ UNCHANGED <<waited, thread, sending, pending, exited>> /\ UNCHANGED childVars

SetHandler ==
  /\ ~exited /\ main = "handler"
  /\ main' = "joining"
  /\ UNCHANGED <<waited, thread, sending, pending, exited>> /\ UNCHANGED childVars

\* describe_enclave or set_handler fails: run returns and the process ends.
RunError ==
  /\ ~exited /\ main \in {"waiting", "handler"}
  /\ main' = "aborted" /\ exited' = TRUE
  /\ UNCHANGED <<waited, thread, sending, pending>> /\ UNCHANGED childVars

\* The Ctrl-C handler: errors are logged only.
CtrlC ==
  /\ ~exited /\ main = "joining"
  /\ pending' = pending \cup {i \in Threads : Listening(i)}
  /\ UNCHANGED <<main, waited, thread, sending, exited>> /\ UNCHANGED childVars

\* Every spawned thread has been joined.
Return ==
  /\ ~exited /\ main = "joining"
  /\ \A i \in Threads :
       \/ thread[i] \in {"none", "done"}
       \/ thread[i] = "failed" /\ sending[i] = 4
  /\ main' = "returned" /\ exited' = TRUE
  /\ UNCHANGED <<waited, thread, sending, pending>> /\ UNCHANGED childVars

LaunchNext ==
  \/ EnclaveUp \/ StopEnclave
  \/ ProxyFound \/ ProxyUp \/ StopProxy
  \/ HelperServes \/ HelperReturns
  \/ \E i \in Threads : Error(i)
  \/ \E i \in 0 .. 3 : SendStop(i)
  \/ EnclaveFound \/ NotFound \/ TimeoutSent \/ SetHandler \/ RunError \/ CtrlC \/ Return

LaunchSpec == LaunchInit /\ [][LaunchNext]_launchVars

\* Threads that can move do; a nitro-cli or vsock-proxy that was started comes
\* up or fails.  Nothing makes the user press Ctrl-C, and nothing makes the
\* helper return (NitroSync).
LaunchFairness ==
  /\ WF_launchVars(EnclaveUp \/ Error(1)) /\ WF_launchVars(StopEnclave)
  /\ WF_launchVars(ProxyFound \/ ProxyUp \/ Error(2)) /\ WF_launchVars(StopProxy)
  /\ WF_launchVars(HelperServes \/ Error(3))
  /\ \A i \in 0 .. 3 : WF_launchVars(SendStop(i))
  /\ WF_launchVars(EnclaveFound \/ NotFound) /\ WF_launchVars(TimeoutSent)
  /\ WF_launchVars(SetHandler) /\ WF_launchVars(Return)

LaunchFairSpec == LaunchSpec /\ LaunchFairness

-----------------------------------------------------------------------------
\* A launcher whose threads were all joined leaves nothing behind: the proxy it
\* spawned is dead, the enclave terminated unless nitro-cli refused.
JoinedMeansStopped == main = "returned" => ~proxy /\ (~enclave \/ refused)

\* A stop signal is not lost, even one that was sent while the enclave was
\* still starting: the thread that owns the enclave acts on it, or the launcher
\* is gone before it can.
SignalStopsEnclave ==
  (1 \in pending) ~> (exited \/ (thread[1] \in {"failed", "done"} /\ (~enclave \/ refused)))

\* When the enclave cannot be started in time, or any of the three threads
\* returns an error, the launcher ends by itself.
FailureEnds ==
  (main = "timeout" \/ \E i \in Threads : thread[i] = "failed") ~> exited
=============================================================================
