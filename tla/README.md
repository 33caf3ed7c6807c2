# tmkms-light in TLA+

tmkms-light is a remote signer for Tendermint validators. It holds the consensus
key, takes proposals and votes from one validator, checks each against the last
consensus state it signed, persists the new state, signs and answers. It runs in
three *providers*: as a plain process (softsign), in an AWS Nitro enclave with a
helper process on the host, and in an Intel SGX enclave inside a runner process.
The one thing it must never do is sign two different values at one height, round
and step, whatever crashes, restarts, lost answers and failed writes happen.

This directory holds TLA+ models of it, TLC configurations, and TLAPS proofs.
`PROJECT.json` lists the components, the runs, which source lines each definition
stands for, the hazards each property is aimed at, and the findings.

    tlc -workers 2 -config SoftSign.cfg MCSoftSign     # a run
    tlapm SoftSignProofs.tla                           # the proofs of a module

## Inventory

| component | state | operations | interacts with |
|---|---|---|---|
| checks (`src/chain/state.rs`) | last consensus state | `check_consensus_state`, `check_update_consensus_state` | calls `PersistStateSync` of the provider |
| session (`src/session.rs`) | configuration, connection, state | `request_loop`, `handle_request`, `reset_connection` | validator; the checks; the key |
| messages (`src/rpc.rs`) | none | decode a request, encode a response | session |
| framing (`src/utils.rs`) | none | `read_u16_payload`, `write_u16_payload` | every stream between enclave and host |
| softsign | state file, key file | `init`, `start`, load and persist the state | session |
| Nitro enclave | state connection, session | listener for configurations, `entry` (start, keygen) | helper over vsock |
| Nitro helper | state file, last state | push the configuration, `StateSyncer`, `Proxy`, log server | enclave, validator |
| Nitro launcher | three threads, their channels | `Launcher::run`, `run_enclave`, `run_vsock_proxy`, Ctrl-C | nitro-cli, vsock-proxy, helper |
| SGX enclave | session, socket pair | `entry` (wrap key, keygen, recover, start), sealing, cloud backup | runner |
| SGX runner | state file, key and backup files | `cloud-wrap`, `init`, `start`, `recover`, state syncer | enclave, validator |

What is hard in it, and the property that makes each part correct:

* *Crashes between check, persist, sign and answer.* The next process must start
  from a state that covers every signature: `FileCoversSigned`, `NoDoubleSign`.
* *Two programs that die independently* (Nitro): an old enclave outlives its
  helper, a new enclave reads a configuration of a dead helper.
  `EnclaveHoldsNewest`, `InFlightInOrder`, `NoDoubleSignUnlessLost`.
* *A state stream without acknowledgements* (Nitro, SGX). What is promised holds
  only while no update is lost; `nitro_sync_crash` shows what happens otherwise. A
  failed send or a failed write of the file must leave memory, stream and file in an
  order from which the next update repairs it: `EnclaveHoldsNewest`, `FileOnlyAdvances`.
* *Lost answers and retries*: the same vote is asked for again. `RetryAccepted`.
* *Signals and threads* (launcher): a signal that is sent too early, a thread that
  fails while others start. `SignalStopsEnclave`, `FailureEnds`.
* *Framing over a byte stream* that cuts anywhere and may end anywhere. `InStep`,
  `AllRead`, `ReaderNotices`.
* *Key files written step by step*, on a machine that may change its CPU.
  `BackupTaken`, `KeysApart`.
* *A relay that serves one connection at a time* (Nitro proxy) between an enclave
  that asks for a new connection before it drops the old one and a validator that
  hangs up when it likes. `OneInFlight`, `RequestSettled`, `Reattaches`.
* *One read taken for one log record*, cut anywhere, with lengths and values that may
  hold the separator. `ShowsWholeFields`, `KeepsServing`.
* *Loops that must run backwards* (AES key unwrapping). `RoundTrip`,
  `OpensOnlyWrapped`.

## Modules

    ConsensusState ── Session ─┬─ SoftSign
          │                    └─ EnclaveSync ─┬─ SgxSync
    DoubleSignGuard                            └─ NitroSync
    (implemented by SoftSign, SgxSync and NitroSync)
    LaunchAll   Framing   SgxKeys   ValidatorLink   LogForward   KeyWrap

**ConsensusState** is the consensus state (height, round, step, block id) and the
four checks in the order the code runs them, with the three results callers tell
apart: `Regression` ends the session, `DoubleSignError` is answered, `Accepted`
goes on. `Follows` is the vocabulary of the properties: later or equal, no conflict,
no change of block from one step to the next.

**DoubleSignGuard** is the abstract specification: signatures are added one at a
time and each follows all before it, until the record of some of them is lost
(`blind`). SoftSign implements it and never loses anything; SgxSync and NitroSync
implement it with their history variable `lost` for `blind`: losing an update on its
way to the file is the only way in which they leave it.

**Session** is `handle_request`. `pc` says how far a request is; a request is
decided in one step (`WrongChain`, `TooHigh`, `Regressed`, `Refuse`, `Admit`), the
persistence steps belong to the provider, then `Sign` and `Respond`, each with its
error. `signed` is a history variable: every consensus state the key was used for.
The signature is counted when it is made, not when the answer is delivered.

**SoftSign** adds the state file. Writing goes to a temporary file and is then
renamed (`WriteTemp`, `Rename`), every error of the loop is a panic, and the process
may be killed between any two steps and started again. Reads and renames see the
same file: a machine that loses power before the rename is on disk is not modelled.

**EnclaveSync** is what Nitro and SGX share: a session that replaces its connection
and goes on (`ResetConnection`, `GetConnection`), a `stream` of states to the host,
a host that stores them or fails to (`StoreNext`, `StoreFails`), and `lost`, the
history of whether some update was or will never be stored.

**SgxSync**: enclave, runner and stream are one process. `Exit` ends them together. A
send that fails may leave part of a frame behind (`torn`); the session goes on, and
the reader takes what follows for the rest of that frame (`SendSwallowed`) until the
lengths happen to bring it back in step. In Nitro a send fails only when the
connection is gone, and with it its reader.

**NitroSync**: the enclave VM (`Boot`, `TakeConfig`, `Accept`, `LoadState`,
`EnclaveStop`) and the helper (`HelperStart`, `PushConfig`, `Store`, `Poll`,
`HelperExit`) are started and stopped independently. Configurations queue at the
enclave's listener and survive the helper that pushed them. The helper
serves the first state connection it accepts and never looks at another.
`SendUnread` is a write to a peer that is gone before the kernel knows.

**LaunchAll**: `thread[i]` for the enclave, vsock-proxy and helper threads,
`pending` for the stop signals in their channels, `sending[i]` for how far a failed
thread (or, after a timeout, the main one) is in its loop over the three senders.
A send to a dropped receiver exits the process. The enclave's thread may fail with
the enclave started, when the answer of nitro-cli does not parse.

**Framing**: a writer puts frames on a byte stream, the reader cuts them out again
with reads of any length. The writer may die inside a frame, the connection may be
reset with bytes unread.

**SgxKeys**: the six files of the SGX provider. A sealed key is a key and the CPU it
opens on; a cloud key is wrapped for an RSA key; a backup is a key under a cloud
key. Commands are sequences of steps that may fail between and inside the writes.

**ValidatorLink** composes three actors. The *enclave* gets a connection, shakes hands
on it if there is an identity key (`secure`), drops the one before, and reads and
answers (`Connect`, `Handshake`, `ResetConnection`, `ReadMsg`, `Respond`, `Retry`); an
error of `handle_request` leaves its connection open while the next one is asked for
(`RequestError`). The *proxy* thread of the helper listens, accepts one client, opens
the validator's socket for it, and relays with `select` and two transfers, each of
which overwrites `disconnected`; then it drops everything, the connections waiting at
its listener included. The *validator* is not in the repository and is modelled from
what the code expects of it: one request under way per connection, a connection it
may close at any time. A connection of the enclave and the Unix connection behind it
share an identifier; `vsock` and `unix` say which ends are open, and four sequences
hold what is on the wire in each direction. What a request is about is Session's
subject; here it is only its kind.

**LogForward**: the enclave's tracing layer keeps the fields of its spans and writes
an event as length-prefixed fields on a connection of its own; the helper's server
reads once and parses field by field. Bytes are digits of a small base, one of which is the
newline, lengths are little-endian numbers of two of them, and the names of fields,
which hold no newline, are single units outside the bytes. `event` remembers what
was sent, for the property only. A user field of an event may be named like the
metadata; one named like the priority and not one byte long makes `Log::update`
panic (`UpdatePanics`), which ends the server's thread.

**KeyWrap** is `aes256_unwrap_key_with_pad` turn by turn, over any block cipher given
by its two inverse functions. `HsmInit` starts with a key that an HSM wraps first (the
wrapping the unit tests carry), `OtherInit` with any payload. `trace` records the turns of
the wrapping, for the proof.

Definitions called *variants* in the modules (for instance `CheckStepStrict`,
`WriteInPlace`) are slips a programmer could make. They are used by no
specification; putting one in place of the definition it varies makes TLC report
the property that `PROJECT.json` pairs with it.

The names of LaunchAll, KeyWrap and LogForward carry a prefix (`LaunchSpec`, `WrapSpec`,
`LogSpec`), because one module of proofs extends them together with another component.

`MCRequests` and the other `MC` modules hold the requests and payloads of the small
instances.

## Runs

| run | result | shows |
|---|---|---|
| `softsign` | pass | no double sign, no change of block between consecutive steps, file never behind a signature nor gone, repeated vote accepted, file only advances, and the refinement of `DoubleSignGuard` |
| `sgx_sync` | pass | no double sign unless an update was lost; updates in order, the file never goes back and the enclave holds the newest state even then; every update is stored unless lost; `DoubleSignGuard` is implemented |
| `nitro_sync` | pass | the same for enclave and helper that die independently |
| `nitro_sync_crash` | violation | a helper that dies before it has stored the last state |
| `nitro_sync_stop` | violation | the syncer polls its stop signal only after a state arrived |
| `launch_all` | pass | signals are not lost; timeout and errors end the launcher; a joined launcher leaves nothing running |
| `framing` | pass | the reader stays in step; everything written is read; the reader notices the end |
| `sgx_keys` | pass | an init with usable wrapping keys leaves two matching backups; identity and consensus key differ unless recover wrote the identity key |
| `sgx_keys_recover_id` | violation | recover of the identity key seals the consensus key |
| `validator_link` | pass | one read is one message and an answer goes to who asked; no validator waits for ever on a dead relay; a failed session is attached again |
| `log_forward` | pass | a line shown is made of whole fields of one event, with their values; the server gets on, unless a user field named like the priority makes it panic |
| `key_wrap` | pass | what was wrapped comes out, and nothing else opens |

The violations are disagreements between the code and its own comments, quoted in
`PROJECT.json` under `findings`. `nitro_sync_crash` is the other half of
`NoDoubleSignUnlessLost`: it shows that its proviso is needed. The SGX provider has
the same window, within one process.

### Bounds

* `Height = {0,1,2}`, where the initial state stands at 0, `MaxHeight` is 1 and
  height 2 is only asked for to be refused. `Round = {0,1}` in `softsign`, `{0}` in
  the enclave runs. Two block ids and nil. The checks only compare heights and
  rounds, so equal, smaller and greater are what matters, and the theorems about
  the three providers remove the bound.
* `softsign` asks for proposals and votes; the enclave runs, where the session is the
  same and the streams are the subject, for votes only, Nitro's without nil.
* `MaxInFlight = 2` states in the stream: one read, one behind it. A full stream
  blocks the enclave's write, as a full socket does. `MaxConfigs = 2` queued
  configurations (one stale, one current), 1 in `nitro_sync_stop`.
* `Timeout = 2` turns in `LaunchAll` (15 in the code): one turn that waits and one
  that gives up.
* `Framing` has bytes of two values and a two-byte length, so a length goes up to 3;
  payloads of 0 to 3 bytes and one of 4, which is refused as one of 65536 is in the
  code; three frames.
* `SgxKeys`: two CPUs, two cloud keys, at most 6 keys generated (4 in the violation
  run): a wrap key, an init, and both again after it.
* `ValidatorLink`: three connections, so that one is relayed, one waits behind it and
  one is still being dropped by its other end; two kinds of request, one with a
  consensus state and one without, enough to tell an answer from that of another
  request. With and without encryption.
* `LogForward`: bytes of base 3 with newline 2, so that a value of two bytes has a
  length that holds a newline byte, as one of ten has with base 256; a value with a
  newline and one of a single byte, which is no priority, one span, four fields in it, a buffer of 40 units, which
  the longest records exceed, and one event under way.
* `KeyWrap`: two words of 4 bits, twelve turns, two keys of a toy cipher; every key and
  every payload. The theorems hold for every number of words and every cipher.

### Fairness

* The host's syncer threads keep running (`Store`, `Poll`): plain loops.
* `LinkBreaks`: a kernel reports a closed peer in the end.
* `LaunchAll`: threads run, and `nitro-cli` and `vsock-proxy` come up or fail. There
  is no fairness for Ctrl-C, nor for the return of the helper, which `StopFinishes`
  shows may never happen.
* `Framing`: the reader is called again and again, and a read with bytes returns.
* `ValidatorLink`: the session and the proxy thread run, and the validator reads what
  it is sent and notices a closed connection (weak fairness). It can be reached, and
  is the expected one, again and again, though not at every try (strong fairness of
  `OpenServer` and `Handshake`). With encryption, it also gives up on a request that
  is never answered: `get_connection` shakes hands on the new connection while the
  old one is still open and relayed, so that nothing but the validator's own timeout
  breaks the circle. Without encryption that is not needed, and not assumed.
* `LogForward`: the server's thread runs.

No fairness is assumed of requests, of crashes or of restarts.

`CHECK_DEADLOCK FALSE` stands where the system may stop: the launcher after its
exit, a reader after the end of its stream, the key files when the bound on keys
is used up, and an unwrapping that has returned.

## Proofs

Proved with TLAPS for all heights, rounds, blocks, requests, stream and queue
capacities, numbers of connections, widths of bytes and lengths, payloads, numbers of
words and block ciphers. Assumptions: `0` is a height and a
round, both are naturals, nil is not a block, `NoFile`, and in SgxKeys `Torn`, are no
contents of files, requests are well-formed, the stream and the queue of configurations hold
at least one element; bytes have at least two values, payloads and logged strings
consist of them, the length of a logged string fits its field, and the newline is a
byte, a priority is one byte; no connection nor kind of request is `None`, and each kind has its answer; bounds
are naturals; of the cipher, that its two functions are inverse on blocks and
that mixing a step number in twice undoes it. TLC evaluates all of them in the runs.

**ConsensusStateProofs** has what the checks give: an accepted state follows the one
it was checked against (`AcceptedFollows`), and if `f` follows a signature then so does
every state accepted after `f` (`FollowsAccepted`). This works because
`Follows` forbids a change of block from one step to the next only; forbidding it
over the whole round does not carry over a nil vote (see the observations).

**SoftSignProofs.** `NoDoubleSign` alone is not inductive: nothing in it says that
the next request is checked against what was signed. The invariant `IInv` adds that
a running process has in memory what its file holds (`MemoryIsFile`), that the
request between check and rename passed the checks against that memory
(`PendingAccepted`), that the key is used for the state just persisted
(`SignsState`), and that the file follows every signature (`FileCoversSigned`). From
it: `TypeCorrect`, `NeverDoubleSigns`, `NeverFlips`, `FileAheadOfKey`,
`FileAdvances`, `RetriesAreAccepted`, and `ImplementsGuard`, the
refinement of the abstract guard: only `Sign` changes `signed`, and the state signed is
the file, which follows all.

**EnclaveSyncProofs** holds what the two enclave providers share. Memory and file now
differ by what is in flight. `Ahead` says that the enclave's state is not behind the file
nor any state in the stream, and is the newest of them unless something was lost;
`InOrder` collects what the stream promises (its order, the newest update covering
every signature unless lost, and with it no double sign); `Pending` is what is known of a request
between its check and its signature. One lemma for each kind of step
(`OrderHandleRequest`, `OrderSend`, `OrderSign`, `OrderStore`, `OrderDrop`,
`OrderLoad`, `OrderQuiet`) says that it keeps them. `Attached` is what survives losses:
whatever is in flight ends in the enclave's state.

**SgxSyncProofs.** `SInv` adds to these that the stream is empty when the process is
gone and a file exists while it runs (`Layout`). From it: `SgxTypeCorrect`,
`SgxDoubleSignsOnlyAfterLoss`, `SgxUpdatesAheadOfKey`, `SgxUpdatesInOrder`,
`SgxFileAdvances`, `SgxImplementsGuard` and, with `Attached` for a process without a
partial frame in its stream, `SgxEnclaveHoldsNewest`. Order and file hold with losses
too: an enclave restarted from an old file may double sign, but never writes the
file back.

**NitroSyncProofs.** Two programs that come and go need `Lifetimes`: nothing is in
flight without a helper that reads it; a file exists while either program could use it; a helper that has not
been connected to yet has in memory what its file holds; and an enclave that is
about to load its state is sent that one. `Ahead` and `Attached` hold of a running enclave
only. From `NInv`:
`NitroTypeCorrect`, `NitroDoubleSignsOnlyAfterLoss`, `NitroEnclaveHoldsNewest`,
`NitroUpdatesInOrder`, `NitroFileAdvances`, `NitroImplementsGuard`.

**SgxKeysProofs.** `KeysApart` is not inductive, because `recover` writes the consensus key
from its backup: `Apart` says of every place the consensus key can come from (its file,
its backup, what a command has read) that the identity key is not in it, and `Generated`
that a new key is in none of them. `Progress` follows an `init`: what it was given are still
the files at hand, what it has in its hands is the backup of the key it has just
written, and there is one if the keys are usable. From `KInv`: `SgxKeysTypeCorrect`,
`KeysStayApart` and `InitLeavesBackups`.

The second half of the module is about KeyWrap. One turn of the unwrapping undoes one of
the wrapping (`UndoTurn`) and the other way round (`TurnUndo`), for every cipher.
`UnwrapsWrapped` follows with the invariant `RInv` that an unwrapping with the right key
walks back along `trace`. `OpensOnlyWrappings` is the converse, for any payload: `OInv`
says that wrapping turns from where the unwrapping is lead back to the payload
(`Rewraps`), so that those from the key returned do. `WrappingBegins` shows that they
are what the recursive function `Wrapping` computes.

**NitroHostProofs** has the two components of the Nitro host, the validator's connection
and the launcher. `OneInFlight` speaks of four queues and says nothing of the enclave
that holds a request nor of the validator that waits; its invariant `VInv` adds where
the message of a connection is. `Carried`: as long as the validator holds its end, a
request it asked, or the answer to it, is at one of five places (on its way
through the Unix socket or the vsock, in the enclave's hands, on the way back through
either) and nothing else is on the connection, or it is lost. To keep that through breaks and new connections, `VInv` says
which connections enclave and proxy have open (`EnclaveSide`, `ProxySide`), that nothing
is on its way to an end that is closed (`Drained`) nor on one that waits to be
relayed (`Unused`), and that no connection waits twice. From it: `LinkTypeCorrect` and
`LinkOneInFlight`. For the launcher, `JoinedMeansStopped` needs to know whose the children are: an
enclave that runs belongs to a thread that waits for its signal, or nitro-cli refused
to terminate it, or its thread failed and will never get past its first stop signal,
the one to itself, which ends the launcher; the proxy belongs to a thread that waits; and a process that
returned takes no further step (`Owned`). `JoinedLauncherStopped` follows, since a
thread that was joined is not waiting, nor has the enclave's failed.

**FramingProofs** has the two byte formats. `InStep` compares what was delivered with what
was sent, while a read sees only bytes. The invariant `FInv` ties them together: there are a
sequence of all bytes written and, for each frame, the number `at[i]` of bytes before
it, such that the stream is what is left of the bytes and the reader stands in the frame after the
last one delivered (`Streaming`). A writer that died leaves the last frame incomplete, and a
stream that ended leaves the reader with what was delivered and at most the start of one
payload more (`CutShort`, `Ended`). `LengthKept` is the arithmetic of the two-byte length, and
the place where the limit of a payload is used.

`LinesOfWholeFields` is the same for a log record, which has one read only and a parser
that looks for newlines. `LogInv` says that the parser has taken whole fields:
for some `n` its index is the length of the encoding of the first `n` fields, and its log is
that of these fields (`Taken`); and that when it shows the line, the next field did not
arrive whole (`AllTaken`). The step from `n` to `n + 1` (`NextField`) rests on names without newlines, so that the first newline
found is the one behind the name, and on `LengthBack`: the digits of a length make it
again, newline bytes among them or not.

Three of these proofs meet a recursive function (the digits of a length, the
concatenation of records, the wrapping). What is needed of one is that it exists and satisfies
its equation. That is proved by a least counterexample, with the library's theorem
that the naturals are well-founded, in `RecursionExists`, `ConcatsExist` and `WrappingExists`.

Every invariant and every action property of the runs is stated by a theorem. Only
model-checked are the liveness properties, since the prover has no reasoning about
fairness: `EveryUpdateStored` in both enclave providers, `SignalStopsEnclave`,
`FailureEnds`, `AllRead`, `ReaderNotices`, `RequestSettled`, `Reattaches` and
`KeepsServing`. What the recursive functions compute is proved only as far as the
theorems need it.

## Observations

Disagreements and edges met while modelling that are not among the findings:

* `check_block_id` (`src/chain/state.rs:68`) compares with the last signed state only.
  A proposal for a, a nil prevote and a precommit for b in one round are all signed:
  between two steps in a row there is no change of block (`NoFlip`), over the round
  there may be one.
* `launch_all.rs:16` speaks of stopping gracefully. A thread that fails sends the stop
  signals from its own loop and exits the process at its own dropped receiver
  (line 49), which may leave the enclave and the proxy running.
* `sgx_app.rs:123` turns an error of the cloud backup into `None`: `init` returns Ok
  without the backup that was asked for. `BackupTaken` has the condition under which
  the backup is there. Nor does it say anything of a failed command, which may
  destroy a key or a backup it was about to replace (`config.rs:52`): no property
  promises that they survive.
* `tracing_layer.rs:66` documents a default field prefix that the code does not set. An
  event with a field named `priority` whose value is not one byte long therefore makes
  the copy at line 360 panic and ends the thread that is to "keep listening"
  (`enclave_log_server.rs:38`). `KeepsServing` has this as its only exception.
* `tmkms-nitro-helper init` waits without a timeout for an enclave that may have been
  given a Start before, and then never answers.

## Not modelled

* Nitro key generation and credentials: straight-line code between two services (KMS
  and the instance metadata), each answer of which overwrites one file. An enclave
  that signs never answers a Keygen, by the shape of `entry`; there is no interleaving
  to explore.
* Connections (a trait and a wrapper that forwards), configuration and error types,
  the key file of softsign: plain data without state that later steps depend on.
* Cryptography: signing always yields a signature, sealing, wrapping for an RSA key and
  the encrypted connection are symbolic; only the loops of the AES key wrapping are
  modelled.
* The protobuf encoding of messages and the conversion of ids and timestamps.
* Errors of a read on a connection that lives on (Framing): the streams are blocking,
  and an error comes with the end of the connection.
* Connections in SgxSync and NitroSync are a step that succeeds in the end; a session
  sees their failures as `ReadError` and `RespondError`. ValidatorLink is the detail
  behind them for Nitro.
* Two signers over one state file: nothing locks it, and the code does not claim to
  handle it. A machine that loses power before a rename is on disk.

## Plan

Done, in this order: checks, session and softsign with its proofs; the two enclave
providers; the launcher; framing; the SGX keys; the proofs for SGX; the validator's
connection through the proxy; key unwrapping and its proofs; log forwarding; the
refinement for both enclave providers; the proofs for Nitro, the launcher and the SGX
keys; those for framing, the validator's connection and log forwarding, and the
converse for key unwrapping.

Left:

1. `SgxKeys` composed with `SgxSync`: a key recovered on a host with another state
   file, an identity key of another CPU.
2. Nitro's `init`, if it ever gets a timeout or a retry.
