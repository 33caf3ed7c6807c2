---------------------------- MODULE ValidatorLink ----------------------------
(* How a Nitro enclave reaches a validator behind a Unix socket: the session's *)
(* connections over vsock (nitro.rs, rpc.rs), the proxy thread of the helper    *)
(* that relays one of them at a time (proxy.rs), and the validator at the       *)
(* other end.  A connection of the enclave and the Unix connection the proxy    *)
(* opens for it share one identifier, which is used again when both are gone.   *)
(* Closing an end discards what that end has not read.                          *)
EXTENDS Naturals, Sequences, SequencesExt

CONSTANTS
  Conns,    \* bound: connections that exist at one time
  None,     \* no connection, no request
  Kinds     \* the requests a validator makes, a subset of DOMAIN AnswerOf

\* Response::encode: the message that answers each kind of request,
\* with a result or with an error.
AnswerOf ==
  [vote |-> "SignedVoteResponse", proposal |-> "SignedProposalResponse",
   pubkey |-> "PubKeyResponse", ping |-> "PingResponse"]

ASSUME ConnAssumption == None \notin Conns
ASSUME KindAssumption == Kinds \subseteq DOMAIN AnswerOf /\ None \notin Kinds

VARIABLES
  secure,            \* is there an identity key, so that connections are encrypted?
  epc, conn, next,   \* the enclave: its step, its connection, the one to replace it
  request,           \* the request in its hands
  ppc, client,       \* the proxy: its step and the connection it relays
  backlog,           \* connections waiting at its listener
  ready,             \* what select found readable
  disconnected,      \* its flag of that name
  vsock, unix,       \* per connection, which ends are open
  encOut, encIn,     \* per connection, what is on the vsock: from and to the enclave
  valOut, valIn,     \* per connection, what is on the Unix socket: from and to the validator
  asked              \* per connection, the request the validator waits for

enclaveVars == <<secure, epc, conn, next, request>>
proxyVars == <<ppc, client, backlog, ready, disconnected>>
wireVars == <<encOut, encIn, valOut, valIn>>
vars == <<enclaveVars, proxyVars, vsock, unix, wireVars, asked>>

Relaying == {"select", "upstream", "downstream", "test"}

TypeOK ==
  /\ secure \in BOOLEAN
  /\ epc \in {"connect", "handshake", "swap", "read", "respond", "failed"}
  /\ conn \in Conns \cup {None} /\ next \in Conns \cup {None}
  /\ request \in Kinds \cup {None}
  /\ ppc \in {"listen", "accept", "open", "sleep"} \cup Relaying
  /\ client \in Conns \cup {None}
  /\ backlog \in Seq(Conns) /\ IsInjective(backlog)
  /\ ready \subseteq {"client", "server"} /\ disconnected \in BOOLEAN
  /\ vsock \in [Conns -> SUBSET {"enclave", "proxy"}]
  /\ unix \in [Conns -> SUBSET {"proxy", "validator"}]
  /\ encIn \in [Conns -> Seq(Kinds)] /\ valOut \in [Conns -> Seq(Kinds)]
  /\ \A c \in Conns : {encOut[c], valIn[c]} \subseteq Seq({AnswerOf[k] : k \in Kinds})
  /\ asked \in [Conns -> Kinds \cup {None}]

Init ==
  /\ secure \in BOOLEAN
  /\ epc = "connect" /\ conn = None /\ next = None /\ request = None
  /\ ppc = "listen" /\ client = None /\ backlog = <<>>
  /\ ready = {} /\ disconnected = FALSE
  /\ vsock = [c \in Conns |-> {}] /\ unix = [c \in Conns |-> {}]
  /\ encOut = [c \in Conns |-> <<>>] /\ encIn = [c \in Conns |-> <<>>]
  /\ valOut = [c \in Conns |-> <<>>] /\ valIn = [c \in Conns |-> <<>>]
  /\ asked = [c \in Conns |-> None]

-----------------------------------------------------------------------------
\* The enclave.

\* get_connection: the listener's queue takes a connection at once; without a
\* listener it is tried again.  The old connection is still open.
Connect(c) ==
  /\ epc = "connect"
  /\ ppc # "listen"
  /\ vsock[c] = {} /\ unix[c] = {}
  /\ vsock' = [vsock EXCEPT ![c] = {"enclave", "proxy"}]
  /\ backlog' = Append(backlog, c)
  /\ next' = c /\ epc' = IF secure THEN "handshake" ELSE "swap"
  /\ UNCHANGED <<secure, conn, request, ppc, client, ready, disconnected, unix, asked>>
  /\ UNCHANGED wireVars

\* get_secret_connection: the handshake needs a relay and a validator that
\* answers.
Handshake ==
  /\ epc = "handshake"
  /\ client = next /\ ppc \in Relaying /\ "validator" \in unix[next]
  /\ epc' = "swap"
  /\ UNCHANGED <<secure, conn, next, request, vsock, unix, asked>>
  /\ UNCHANGED proxyVars /\ UNCHANGED wireVars

\* It fails when the connection ends, or the peer is not the expected one; the
\* connection is dropped and another one asked for.
HandshakeFails ==
  /\ epc = "handshake"
  /\ \/ "proxy" \notin vsock[next]
     \/ client = next /\ ppc \in Relaying
  /\ vsock' = [vsock EXCEPT ![next] = @ \ {"enclave"}]
  /\ encIn' = [encIn EXCEPT ![next] = <<>>]
  /\ next' = None /\ epc' = "connect"
  /\ UNCHANGED <<secure, conn, request, unix, encOut, valOut, valIn, asked>>
  /\ UNCHANGED proxyVars

\* reset_connection, which drops the old connection.
ResetConnection ==
  /\ epc = "swap"
  /\ vsock' = [c \in Conns |-> IF c = conn THEN vsock[c] \ {"enclave"} ELSE vsock[c]]
  /\ encIn' = [c \in Conns |-> IF c = conn THEN <<>> ELSE encIn[c]]
  /\ conn' = next /\ next' = None /\ epc' = "read"
  /\ UNCHANGED <<secure, request, unix, encOut, valOut, valIn, asked>>
  /\ UNCHANGED proxyVars

\* read_msg: one read, from which one message is decoded; what else the read
\* returned is dropped with the buffer.
ReadMsg ==
  /\ epc = "read" /\ encIn[conn] # <<>>
  /\ request' = Head(encIn[conn])
  /\ encIn' = [encIn EXCEPT ![conn] = <<>>]
  /\ epc' = "respond"
  /\ UNCHANGED <<secure, conn, next, vsock, unix, encOut, valOut, valIn, asked>>
  /\ UNCHANGED proxyVars

\* Variant: a read of no bytes is taken for "no request yet".
ReadAgain ==
  /\ epc = "read" /\ encIn[conn] = <<>> /\ "proxy" \notin vsock[conn]
  /\ UNCHANGED vars

\* A read of no bytes does not decode.
ReadEnds ==
  /\ epc = "read" /\ encIn[conn] = <<>> /\ "proxy" \notin vsock[conn]
  /\ epc' = "failed"
  /\ UNCHANGED <<secure, conn, next, request, vsock, unix, asked>>
  /\ UNCHANGED proxyVars /\ UNCHANGED wireVars

\* Variant: an answer that could not be written is kept for the next connection.
RespondOnNext ==
  /\ epc = "respond"
  /\ IF "proxy" \in vsock[conn]
       THEN /\ encOut' = [encOut EXCEPT ![conn] = Append(@, AnswerOf[request])]
            /\ epc' = "read" /\ request' = None
       ELSE epc' = "failed" /\ UNCHANGED <<encOut, request>>
  /\ UNCHANGED <<secure, conn, next, vsock, unix, encIn, valOut, valIn, asked>>
  /\ UNCHANGED proxyVars

\* Variant: the message written is the request's, not its answer's.
RespondEchoes ==
  /\ epc = "respond"
  /\ IF "proxy" \in vsock[conn]
       THEN encOut' = [encOut EXCEPT ![conn] = Append(@, request)] /\ epc' = "read"
       ELSE epc' \in {"read", "failed"} /\ UNCHANGED encOut
  /\ request' = None
  /\ UNCHANGED <<secure, conn, next, vsock, unix, encIn, valOut, valIn, asked>>
  /\ UNCHANGED proxyVars

\* write_all of the response; a write to a connection whose other end is gone
\* fails, or is lost if that is not known yet.
Respond ==
  /\ epc = "respond"
  /\ IF "proxy" \in vsock[conn]
       THEN encOut' = [encOut EXCEPT ![conn] = Append(@, AnswerOf[request])] /\ epc' = "read"
       ELSE epc' \in {"read", "failed"} /\ UNCHANGED encOut
  /\ request' = None
  /\ UNCHANGED <<secure, conn, next, vsock, unix, encIn, valOut, valIn, asked>>
  /\ UNCHANGED proxyVars

\* handle_request returns an error (a regression, a height above the maximum, a
\* state that cannot be persisted) with the connection intact.
RequestError ==
  /\ epc = "respond"
  /\ epc' = "failed" /\ request' = None
  /\ UNCHANGED <<secure, conn, next, vsock, unix, asked>>
  /\ UNCHANGED proxyVars /\ UNCHANGED wireVars

\* The loop of `entry` asks for another connection.
Retry ==
  /\ epc = "failed"
  /\ epc' = "connect"
  /\ UNCHANGED <<secure, conn, next, request, vsock, unix, asked>>
  /\ UNCHANGED proxyVars /\ UNCHANGED wireVars

Enclave ==
  \/ \E c \in Conns : Connect(c)
  \/ Handshake \/ ResetConnection \/ ReadMsg \/ ReadEnds \/ Respond \/ Retry

-----------------------------------------------------------------------------
\* The proxy.

\* sock_listen; when the bind fails it sleeps and tries again.
Listen ==
  /\ ppc = "listen"
  /\ ppc' = "accept"
  /\ UNCHANGED <<client, backlog, ready, disconnected, vsock, unix, asked>>
  /\ UNCHANGED enclaveVars /\ UNCHANGED wireVars

\* sock_accept takes the connection that has waited longest...
Accept ==
  /\ ppc = "accept" /\ backlog # <<>>
  /\ client' = Head(backlog) /\ backlog' = Tail(backlog)
  /\ ppc' = "open"
  /\ UNCHANGED <<ready, disconnected, vsock, unix, asked>>
  /\ UNCHANGED enclaveVars /\ UNCHANGED wireVars

\* ... and connects to the validator's socket,
OpenServer ==
  /\ ppc = "open"
  /\ unix' = [unix EXCEPT ![client] = {"proxy", "validator"}]
  /\ disconnected' = FALSE /\ ppc' = "select"
  /\ UNCHANGED <<client, backlog, ready, vsock, asked>>
  /\ UNCHANGED enclaveVars /\ UNCHANGED wireVars

\* which fails when there is no validator: the client is dropped, and the
\* listener a second later.
OpenFails ==
  /\ ppc = "open"
  /\ vsock' = [vsock EXCEPT ![client] = @ \ {"proxy"}]
  /\ client' = None /\ ppc' = "sleep"
  /\ UNCHANGED <<backlog, ready, disconnected, unix, asked>>
  /\ UNCHANGED enclaveVars /\ UNCHANGED wireVars

\* Dropping the listener resets the connections that wait at it.
WithoutWaiting(v) ==
  [c \in Conns |-> IF Contains(backlog, c) THEN v[c] \ {"proxy"} ELSE v[c]]

Wake ==
  /\ ppc = "sleep"
  /\ vsock' = WithoutWaiting(vsock) /\ backlog' = <<>>
  /\ ppc' = "listen"
  /\ UNCHANGED <<client, ready, disconnected, unix, asked>>
  /\ UNCHANGED enclaveVars /\ UNCHANGED wireVars

\* select: a socket is readable when it has data or its other end is gone.
Select ==
  /\ ppc = "select"
  /\ ready' = {s \in {"client", "server"} :
       \/ s = "client" /\ (encOut[client] # <<>> \/ "enclave" \notin vsock[client])
       \/ s = "server" /\ (valOut[client] # <<>> \/ "validator" \notin unix[client])}
  /\ ready' # {}
  /\ ppc' = "upstream"
  /\ UNCHANGED <<client, backlog, disconnected, vsock, unix, asked>>
  /\ UNCHANGED enclaveVars /\ UNCHANGED wireVars

\* Variant: the end of the client's data is not a disconnection.
UpstreamGoesOn ==
  /\ ppc = "upstream"
  /\ IF encOut[client] # <<>> /\ "validator" \in unix[client]
       THEN valIn' = [valIn EXCEPT ![client] = @ \o encOut[client]]
       ELSE UNCHANGED valIn
  /\ encOut' = [encOut EXCEPT ![client] = <<>>]
  /\ ppc' = "downstream"
  /\ UNCHANGED <<client, backlog, ready, disconnected, vsock, unix, encIn, valOut, asked>>
  /\ UNCHANGED enclaveVars

\* transfer(client, server), if the client was readable: all there is, in one
\* buffer.  A read of nothing and a failed write are both a disconnection.
Upstream ==
  /\ ppc = "upstream"
  /\ IF "client" \in ready
       THEN /\ disconnected' = (encOut[client] = <<>> \/ "validator" \notin unix[client])
            /\ valIn' = IF disconnected' THEN valIn
                        ELSE [valIn EXCEPT ![client] = @ \o encOut[client]]
            /\ encOut' = [encOut EXCEPT ![client] = <<>>]
       ELSE UNCHANGED <<disconnected, valIn, encOut>>
  /\ ppc' = "downstream"
  /\ UNCHANGED <<client, backlog, ready, vsock, unix, encIn, valOut, asked>>
  /\ UNCHANGED enclaveVars

\* transfer(server, client), if the server was readable, which sets the flag
\* anew.  A write to a client that is gone fails, or is lost if that is not
\* known yet.
Downstream ==
  /\ ppc = "downstream"
  /\ IF "server" \in ready
       THEN /\ IF valOut[client] = <<>> THEN disconnected' = TRUE
               ELSE disconnected' \in {FALSE, "enclave" \notin vsock[client]}
            /\ encIn' = IF "enclave" \notin vsock[client] THEN encIn
                        ELSE [encIn EXCEPT ![client] = @ \o valOut[client]]
            /\ valOut' = [valOut EXCEPT ![client] = <<>>]
       ELSE UNCHANGED <<disconnected, encIn, valOut>>
  /\ ppc' = "test"
  /\ UNCHANGED <<client, backlog, ready, vsock, unix, encOut, valIn, asked>>
  /\ UNCHANGED enclaveVars

\* `while !disconnected`
GoOn ==
  /\ ppc = "test" /\ ~disconnected
  /\ ppc' = "select"
  /\ UNCHANGED <<client, backlog, ready, disconnected, vsock, unix, asked>>
  /\ UNCHANGED enclaveVars /\ UNCHANGED wireVars

\* sock_accept returns and client, server and listener are dropped; what the
\* client has not read yet may be lost with it.
Disconnect ==
  /\ ppc = "test" /\ disconnected
  /\ vsock' = [WithoutWaiting(vsock) EXCEPT ![client] = @ \ {"proxy"}]
  /\ unix' = [unix EXCEPT ![client] = @ \ {"proxy"}]
  /\ encOut' = [encOut EXCEPT ![client] = <<>>]
  /\ valOut' = [valOut EXCEPT ![client] = <<>>]
  /\ encIn' \in {encIn, [encIn EXCEPT ![client] = <<>>]}
  /\ client' = None /\ backlog' = <<>> /\ ready' = {} /\ ppc' = "listen"
  /\ UNCHANGED <<disconnected, valIn, asked>> /\ UNCHANGED enclaveVars

Proxy ==
  Listen \/ Accept \/ Wake \/ Select \/ Upstream \/ Downstream \/ GoOn \/ Disconnect

-----------------------------------------------------------------------------
\* The validator, which has one request under way on a connection, and none
\* before the handshake.

Ask(c, k) ==
  /\ unix[c] = {"proxy", "validator"} /\ asked[c] = None
  /\ ~(epc = "handshake" /\ next = c)
  /\ asked' = [asked EXCEPT ![c] = k]
  /\ valOut' = [valOut EXCEPT ![c] = Append(@, k)]
  /\ UNCHANGED <<vsock, unix, encOut, encIn, valIn>>
  /\ UNCHANGED enclaveVars /\ UNCHANGED proxyVars

Receive(c) ==
  /\ valIn[c] # <<>>
  /\ asked' = [asked EXCEPT ![c] = None]
  /\ valIn' = [valIn EXCEPT ![c] = Tail(@)]
  /\ UNCHANGED <<vsock, unix, encOut, encIn, valOut>>
  /\ UNCHANGED enclaveVars /\ UNCHANGED proxyVars

Close(c) ==
  /\ unix' = [unix EXCEPT ![c] = @ \ {"validator"}]
  /\ asked' = [asked EXCEPT ![c] = None]
  /\ valIn' = [valIn EXCEPT ![c] = <<>>]
  /\ UNCHANGED <<vsock, encOut, encIn, valOut>>
  /\ UNCHANGED enclaveVars /\ UNCHANGED proxyVars

\* It finds the other end closed.
Notice(c) ==
  /\ unix[c] = {"validator"} /\ valIn[c] = <<>>
  /\ Close(c)

\* It stops, or its patience with a request ends.
GiveUp(c) ==
  /\ unix[c] = {"proxy", "validator"}
  /\ Close(c)

Validator == \E c \in Conns : Receive(c) \/ Notice(c)

-----------------------------------------------------------------------------
Next ==
  \/ \E c \in Conns : Connect(c)
  \/ Handshake \/ HandshakeFails \/ ResetConnection
  \/ ReadMsg \/ ReadEnds \/ Respond \/ RequestError \/ Retry
  \/ Listen \/ Accept \/ OpenServer \/ OpenFails \/ Wake
  \/ Select \/ Upstream \/ Downstream \/ GoOn \/ Disconnect
  \/ \E c \in Conns, k \in Kinds : Ask(c, k)
  \/ \E c \in Conns : Receive(c) \/ Notice(c) \/ GiveUp(c)

\* The threads are scheduled and the validator reads; it can be reached, and is
\* the expected one, again and again.  Only behind an encrypted connection is
\* its patience with an unanswered request needed.
Fairness ==
  /\ WF_vars(Enclave) /\ WF_vars(Proxy)
  /\ WF_vars(epc = "handshake" /\ "proxy" \notin vsock[next] /\ HandshakeFails)
  /\ SF_vars(OpenServer) /\ SF_vars(Handshake)
  /\ \A c \in Conns : WF_vars(Receive(c) \/ Notice(c))
  /\ \A c \in Conns : WF_vars(secure /\ asked[c] # None /\ GiveUp(c))

Spec == Init /\ [][Next]_vars /\ Fairness

-----------------------------------------------------------------------------
\* What is on the way between the validator and the enclave on a connection.
InFlight(c) ==
  valOut[c] \o encIn[c] \o (IF conn = c /\ request # None THEN <<request>> ELSE <<>>)
  \o encOut[c] \o valIn[c]

\* One read is one message (rpc.rs read_msg), and an answer goes to who asked:
\* on a connection a validator holds there is at most one message under way,
\* the request it waits for or the answer to it, whatever was relayed,
\* dropped or begun anew before.
OneInFlight ==
  \A c \in Conns : "validator" \in unix[c] /\ InFlight(c) # <<>> =>
    /\ Len(InFlight(c)) = 1
    /\ asked[c] # None /\ InFlight(c)[1] \in {asked[c], AnswerOf[asked[c]]}

\* Whatever `disconnected` is overwritten with, a validator is not left waiting
\* on a dead relay: its request is answered or its connection is closed.
\* Without encryption this needs no timeout of the validator.
RequestSettled ==
  \A c \in Conns : asked[c] # None ~> asked[c] = None

\* The connection the session reads is the one relayed to the validator.
Attached ==
  epc = "read" /\ client = conn /\ ppc \in Relaying /\ "validator" \in unix[conn]

\* A session that failed is attached to the validator again, although its new
\* connection waits at a listener that is dropped with the old one, unless the
\* validator hangs up again and again.
Reattaches ==
  \/ epc = "failed" ~> Attached
  \/ []<><<\E c \in Conns : GiveUp(c)>>_vars
=============================================================================
