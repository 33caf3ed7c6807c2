--------------------------- MODULE NitroHostProofs ---------------------------
(* The host of a Nitro enclave: that the proxy and the enclave never mix up a  *)
(* validator's messages (ValidatorLink), and what a launcher that joined its    *)
(* threads leaves behind (LaunchAll).                                           *)
EXTENDS ValidatorLink, LaunchAll, SequenceTheorems, TLAPS

(* The link, for any number of connections and every set of requests.          *)

Answers == {AnswerOf[k] : k \in Kinds}
Waits(c) == Contains(backlog, c)

\* TypeOK in three parts, and that the answers on the way are functions too.
ControlTypes ==
  /\ secure \in BOOLEAN
  /\ epc \in {"connect", "handshake", "swap", "read", "respond", "failed"}
  /\ conn \in Conns \cup {None} /\ next \in Conns \cup {None}
  /\ request \in Kinds \cup {None}
  /\ ppc \in {"listen", "accept", "open", "sleep"} \cup Relaying
  /\ client \in Conns \cup {None}
  /\ ready \subseteq {"client", "server"} /\ disconnected \in BOOLEAN
  /\ vsock \in [Conns -> SUBSET {"enclave", "proxy"}]
  /\ unix \in [Conns -> SUBSET {"proxy", "validator"}]
  /\ asked \in [Conns -> Kinds \cup {None}]
QueueTypes ==
  /\ encIn \in [Conns -> Seq(Kinds)] /\ valOut \in [Conns -> Seq(Kinds)]
  /\ encOut \in [Conns -> Seq(Answers)] /\ valIn \in [Conns -> Seq(Answers)]
BacklogTypes == backlog \in Seq(Conns) /\ IsInjective(backlog)

\* The enclave holds its end of the connection it uses and of the one that is to
\* replace it, and has a request in its hands only while it answers.
EnclaveSide ==
  /\ request # None <=> epc = "respond"
  /\ next # None <=> epc \in {"handshake", "swap"}
  /\ epc \in {"read", "respond", "failed"} => conn # None
  /\ conn # None => conn # next
  /\ \A c \in Conns : "enclave" \in vsock[c] <=> (c = conn \/ c = next)

\* The proxy holds its ends of the connection it relays and, on the vsock, of
\* those that wait.
ProxySide ==
  /\ client # None <=> ppc \in {"open"} \cup Relaying
  /\ \A c \in Conns : "proxy" \in vsock[c] <=> (c = client \/ Waits(c))
  /\ \A c \in Conns : "proxy" \in unix[c] <=> (c = client /\ ppc \in Relaying)
  /\ client # None => ~Waits(client)

\* Nothing is on the way to an end that is closed.
Drained ==
  \A c \in Conns :
    /\ "enclave" \notin vsock[c] => encIn[c] = <<>>
    /\ "proxy" \notin vsock[c] => encOut[c] = <<>>
    /\ "proxy" \notin unix[c] => valOut[c] = <<>>
    /\ "validator" \notin unix[c] => valIn[c] = <<>> /\ asked[c] = None

\* A connection the validator has not been reached for yet is unused.
NotRelayed(c) == Waits(c) \/ (c = client /\ ppc = "open")
Unused ==
  \A c \in Conns : NotRelayed(c) =>
    unix[c] = {} /\ encIn[c] = <<>> /\ encOut[c] = <<>> /\ (conn = c => request = None)

\* The request of a validator, or its answer, is at one of five places, or lost.
Handled(c) == IF conn = c THEN request ELSE None
Holds(c, out, in, handled, answer, back) ==
  /\ valOut[c] = out /\ encIn[c] = in /\ Handled(c) = handled
  /\ encOut[c] = answer /\ valIn[c] = back
OneMessage(c) ==
  \/ Holds(c, <<>>, <<>>, None, <<>>, <<>>)
  \/ /\ asked[c] # None
     /\ \/ Holds(c, <<asked[c]>>, <<>>, None, <<>>, <<>>)
        \/ Holds(c, <<>>, <<asked[c]>>, None, <<>>, <<>>)
        \/ Holds(c, <<>>, <<>>, asked[c], <<>>, <<>>)
        \/ Holds(c, <<>>, <<>>, None, <<AnswerOf[asked[c]]>>, <<>>)
        \/ Holds(c, <<>>, <<>>, None, <<>>, <<AnswerOf[asked[c]]>>)
Carried == \A c \in Conns : "validator" \in unix[c] => OneMessage(c)

VInv ==
  /\ ControlTypes /\ QueueTypes /\ BacklogTypes
  /\ EnclaveSide /\ ProxySide /\ Drained /\ Unused /\ Carried

-----------------------------------------------------------------------------
\* A connection that comes to the listener waits behind the others.
LEMMA Queued ==
  ASSUME backlog \in Seq(Conns), IsInjective(backlog), NEW c \in Conns, ~Waits(c),
         backlog' = Append(backlog, c)
  PROVE  /\ backlog' \in Seq(Conns) /\ IsInjective(backlog')
         /\ \A d \in Conns : Waits(d)' <=> (Waits(d) \/ d = c)
<1>1. /\ backlog' \in Seq(Conns) /\ Len(backlog') = Len(backlog) + 1 /\ Len(backlog) \in Nat
      /\ \A i \in 1 .. Len(backlog) : backlog'[i] = backlog[i]
      /\ backlog'[Len(backlog) + 1] = c
  BY AppendProperties, LenProperties
<1>2. DOMAIN backlog' = 1 .. Len(backlog) + 1 /\ DOMAIN backlog = 1 .. Len(backlog)
  BY <1>1, LenProperties
<1>3. \A i \in 1 .. Len(backlog) : backlog[i] # c
  BY DEF Waits, Contains
<1>4. IsInjective(backlog')
  BY <1>3 DEF IsInjective
<1>5. \A d \in Conns : Waits(d)' <=> (Waits(d) \/ d = c)
  BY <1>1 DEF Waits, Contains
<1> QED BY <1>1, <1>4, <1>5

\* The one that has waited longest is taken from the others.
LEMMA Dequeued ==
  ASSUME backlog \in Seq(Conns), IsInjective(backlog), backlog # <<>>, backlog' = Tail(backlog)
  PROVE  /\ Head(backlog) \in Conns /\ Waits(Head(backlog))
         /\ backlog' \in Seq(Conns) /\ IsInjective(backlog')
         /\ \A d \in Conns : Waits(d)' <=> (Waits(d) /\ d # Head(backlog))
<1>1. /\ backlog' \in Seq(Conns) /\ Len(backlog') = Len(backlog) - 1
      /\ \A i \in 1 .. Len(backlog') : backlog'[i] = backlog[i + 1]
  BY HeadTailProperties
<1>2. /\ Len(backlog) \in Nat /\ Len(backlog) > 0
      /\ Head(backlog) \in Conns /\ Head(backlog) = backlog[1]
  BY EmptySeq, LenProperties, HeadTailProperties
<1>3. DOMAIN backlog' = 1 .. Len(backlog) - 1 /\ DOMAIN backlog = 1 .. Len(backlog)
  BY <1>1, LenProperties
<1>4. IsInjective(backlog')
  BY DEF IsInjective
<1>5. ASSUME NEW d \in Conns, Waits(d)' PROVE Waits(d) /\ d # Head(backlog)
  <2>1. PICK i \in 1 .. Len(backlog) - 1 : backlog'[i] = d
    BY <1>5 DEF Waits, Contains
  <2>2. /\ i + 1 \in 1 .. Len(backlog) /\ 1 \in 1 .. Len(backlog)
        /\ i + 1 # 1 /\ backlog[i + 1] = d
    BY <1>1, <1>2, <2>1
  <2> QED BY <2>2 DEF Waits, Contains, IsInjective
<1>6. ASSUME NEW d \in Conns, Waits(d), d # Head(backlog) PROVE Waits(d)'
  <2>1. PICK i \in 1 .. Len(backlog) : backlog[i] = d
    BY <1>6 DEF Waits, Contains
  <2>2. i # 1
    BY <1>2, <1>6, <2>1
  <2>3. i - 1 \in 1 .. Len(backlog') /\ (i - 1) + 1 = i
    BY <1>1, <1>2, <2>2
  <2>4. backlog'[i - 1] = d
    BY <1>1, <2>1, <2>3
  <2> QED BY <2>3, <2>4 DEF Waits, Contains
<1>7. Waits(Head(backlog))
  BY <1>2 DEF Waits, Contains
<1> QED BY <1>4, <1>5, <1>6, <1>7

\* None waits at a listener that was dropped.
LEMMA EmptyQueue ==
  ASSUME backlog' = <<>>
  PROVE  backlog' \in Seq(Conns) /\ IsInjective(backlog') /\ \A d : ~Waits(d)'
BY DEF IsInjective, Waits, Contains

\* Nothing on a connection moved.
LEMMA StillOne ==
  ASSUME NEW c \in Conns, OneMessage(c),
         valOut'[c] = valOut[c], encIn'[c] = encIn[c], encOut'[c] = encOut[c],
         valIn'[c] = valIn[c], asked'[c] = asked[c], Handled(c)' = Handled(c)
  PROVE  OneMessage(c)'
BY DEF OneMessage, Holds

-----------------------------------------------------------------------------
\* Steps that move neither messages nor ends.
LEMMA QuietKeeps ==
  ASSUME VInv, UNCHANGED <<conn, request, client, backlog, vsock, unix, asked>>,
         UNCHANGED wireVars
  PROVE  QueueTypes' /\ BacklogTypes' /\ Drained' /\ Carried'
BY DEF VInv, wireVars, QueueTypes, BacklogTypes, Drained, Carried, OneMessage, Holds, Handled

\* They keep the invariant.
LEMMA QuietSteps ==
  ASSUME VInv, Handshake \/ ReadEnds \/ Retry \/ Listen \/ Select \/ GoOn
  PROVE  VInv'
<1> USE DEF VInv, wireVars, proxyVars, enclaveVars
<1>1. QueueTypes' /\ BacklogTypes' /\ Drained' /\ Carried'
  BY QuietKeeps DEF Handshake, ReadEnds, Retry, Listen, Select, GoOn
<1>2. ControlTypes'
  <2>1. CASE Select
    BY <2>1 DEF ControlTypes, Relaying, Select
  <2>2. CASE Handshake \/ ReadEnds \/ Retry
    BY <2>2 DEF ControlTypes, Handshake, ReadEnds, Retry
  <2>3. CASE Listen \/ GoOn
    BY <2>3 DEF ControlTypes, Relaying, Listen, GoOn
  <2> QED BY <2>1, <2>2, <2>3
<1>4. EnclaveSide'
  BY DEF EnclaveSide, Handshake, ReadEnds, Retry, Listen, Select, GoOn
<1>3. ProxySide' /\ Unused'
  BY DEF ProxySide, Unused, NotRelayed, Waits, Relaying, Handshake, ReadEnds, Retry, Listen,
       Select, GoOn
<1> QED BY <1>1, <1>2, <1>3, <1>4

\* get_connection.
LEMMA ConnectKeeps ==
  ASSUME VInv, NEW c \in Conns, Connect(c)
  PROVE  VInv'
<1> USE DEF VInv, Connect, wireVars, proxyVars, enclaveVars
<1>c. BacklogTypes' /\ \A d \in Conns : Waits(d)' <=> (Waits(d) \/ d = c)
  <2>1. ~Waits(c)
    BY DEF ProxySide
  <2> QED BY <2>1, Queued DEF BacklogTypes
<1>1. ControlTypes'
  BY DEF ControlTypes
<1>2. QueueTypes'
  BY EmptySeq DEF QueueTypes, ControlTypes
<1>3. BacklogTypes'
  BY <1>c, ConnAssumption DEF BacklogTypes
<1>4. EnclaveSide'
  BY ConnAssumption DEF EnclaveSide, ControlTypes
<1>5. ProxySide'
  BY <1>c DEF ProxySide, ControlTypes
<1>6. Drained'
  BY DEF Drained
<1>7. Unused'
  BY <1>c DEF EnclaveSide, Drained, Unused, NotRelayed
<1>8. Carried'
  <2> SUFFICES ASSUME NEW d \in Conns, "validator" \in unix'[d] PROVE OneMessage(d)'
    BY DEF Carried
  <2> QED BY StillOne DEF Carried, Handled
<1> QED BY <1>1, <1>2, <1>3, <1>4, <1>5, <1>6, <1>7, <1>8

\* A handshake fails.
LEMMA HandshakeFailsKeeps ==
  ASSUME VInv, HandshakeFails
  PROVE  VInv'
<1> USE DEF VInv, HandshakeFails, wireVars, proxyVars, enclaveVars
<1>1. ControlTypes'
  BY DEF ControlTypes
<1>2. QueueTypes'
  BY EmptySeq DEF QueueTypes, ControlTypes
<1>3. BacklogTypes'
  BY ConnAssumption DEF BacklogTypes
<1>4. EnclaveSide'
  BY ConnAssumption DEF EnclaveSide, ControlTypes
<1>5. ProxySide'
  BY DEF ProxySide, Waits
<1>6. Drained'
  BY DEF Drained, QueueTypes
<1>7. Unused'
  BY DEF Unused, NotRelayed, Waits
<1>8. Carried'
  <2> SUFFICES ASSUME NEW d \in Conns, "validator" \in unix'[d] PROVE OneMessage(d)'
    BY DEF Carried
  <2> QED BY DEF Carried, Handled, Holds, OneMessage
<1> QED BY <1>1, <1>2, <1>3, <1>4, <1>5, <1>6, <1>7, <1>8

\* The new connection replaces the old one.
LEMMA ResetConnectionKeeps ==
  ASSUME VInv, ResetConnection
  PROVE  VInv'
<1> USE DEF VInv, ResetConnection, wireVars, proxyVars, enclaveVars
<1>1. ControlTypes'
  BY DEF ControlTypes
<1>2. QueueTypes'
  BY EmptySeq DEF QueueTypes, ControlTypes
<1>3. BacklogTypes'
  BY ConnAssumption DEF BacklogTypes
<1>4. EnclaveSide'
  BY ConnAssumption DEF EnclaveSide, ControlTypes
<1>5. ProxySide'
  BY DEF ProxySide, Waits
<1>6. Drained'
  BY DEF Drained
<1>7. Unused'
  BY DEF EnclaveSide, Unused, NotRelayed, Waits
<1>8. Carried'
  <2> SUFFICES ASSUME NEW d \in Conns, "validator" \in unix'[d] PROVE OneMessage(d)'
    BY DEF Carried
  <2> QED BY DEF Carried, Handled, EnclaveSide, Holds, OneMessage
<1> QED BY <1>1, <1>2, <1>3, <1>4, <1>5, <1>6, <1>7, <1>8

\* A request is read.
LEMMA ReadMsgKeeps ==
  ASSUME VInv, ReadMsg
  PROVE  VInv'
<1> USE DEF VInv, ReadMsg, wireVars, proxyVars, enclaveVars
<1>1. ControlTypes'
  <2>1. conn \in Conns /\ Head(encIn[conn]) \in Kinds
    BY DEF EnclaveSide, ControlTypes, QueueTypes
  <2> QED BY <2>1 DEF ControlTypes
<1>2. QueueTypes'
  BY EmptySeq DEF QueueTypes, ControlTypes
<1>3. BacklogTypes'
  BY ConnAssumption DEF BacklogTypes
<1>4. EnclaveSide'
  <2>1. conn \in Conns /\ Head(encIn[conn]) \in Kinds
    BY DEF EnclaveSide, ControlTypes, QueueTypes
  <2> QED BY <2>1, KindAssumption DEF EnclaveSide
<1>5. ProxySide'
  BY DEF ProxySide, Waits
<1>6. Drained'
  BY DEF Drained
<1>7. Unused'
  BY DEF Unused, NotRelayed, Waits
<1>8. Carried'
  <2> SUFFICES ASSUME NEW d \in Conns, "validator" \in unix'[d] PROVE OneMessage(d)'
    BY DEF Carried
  <2>1. OneMessage(d)
    BY DEF Carried
  <2>2. CASE d # conn
    BY <2>1, <2>2, StillOne DEF Handled
  <2>3. CASE d = conn
    <3>1. asked[d] # None /\ Holds(d, <<>>, <<asked[d]>>, None, <<>>, <<>>)
      BY <2>1, <2>3 DEF OneMessage, Holds
    <3>2. Holds(d, <<>>, <<>>, asked[d], <<>>, <<>>)'
      BY <2>3, <3>1 DEF Holds, Handled, ControlTypes, QueueTypes
    <3> QED BY <3>1, <3>2 DEF OneMessage
  <2> QED BY <2>2, <2>3
<1> QED BY <1>1, <1>2, <1>3, <1>4, <1>5, <1>6, <1>7, <1>8

\* Its answer is written, or lost.
LEMMA RespondKeeps ==
  ASSUME VInv, Respond
  PROVE  VInv'
<1> USE DEF VInv, Respond, wireVars, proxyVars, enclaveVars
<1>1. ControlTypes'
  BY DEF ControlTypes
<1>2. QueueTypes'
  <2>1. conn \in Conns /\ request \in Kinds
    BY DEF EnclaveSide, ControlTypes
  <2>2. Append(encOut[conn], AnswerOf[request]) \in Seq(Answers)
    <3>1. AnswerOf[request] \in Answers
      BY <2>1 DEF Answers
    <3>2. encOut[conn] \in Seq(Answers)
      BY <2>1 DEF QueueTypes
    <3> QED BY <3>1, <3>2, AppendProperties
  <2> QED BY <2>1, <2>2 DEF QueueTypes
<1>3. BacklogTypes'
  BY ConnAssumption DEF BacklogTypes
<1>4. EnclaveSide'
  BY ConnAssumption DEF EnclaveSide, ControlTypes
<1>5. ProxySide'
  BY DEF ProxySide, Waits
<1>6. Drained'
  BY DEF Drained, QueueTypes
<1>7. Unused'
  BY DEF EnclaveSide, Unused, NotRelayed, QueueTypes, Waits
<1>8. Carried'
  <2> SUFFICES ASSUME NEW d \in Conns, "validator" \in unix'[d] PROVE OneMessage(d)'
    BY DEF Carried
  <2>1. OneMessage(d)
    BY DEF Carried
  <2>2. CASE d # conn
    <3>1. encOut'[d] = encOut[d]
      BY <2>2 DEF QueueTypes
    <3> QED BY <2>1, <2>2, <3>1, StillOne DEF Handled
  <2>3. CASE d = conn
    <3>1. asked[d] # None /\ Holds(d, <<>>, <<>>, asked[d], <<>>, <<>>)
      BY <2>1, <2>3 DEF OneMessage, Holds, Handled, EnclaveSide
    <3>2. \/ Holds(d, <<>>, <<>>, None, <<AnswerOf[asked[d]]>>, <<>>)'
          \/ Holds(d, <<>>, <<>>, None, <<>>, <<>>)'
      <4>1. request = asked[d] /\ Append(<<>>, AnswerOf[request]) = <<AnswerOf[asked[d]]>>
        BY <2>3, <3>1 DEF Holds, Handled
      <4> QED BY <2>3, <3>1, <4>1 DEF Holds, Handled, QueueTypes
    <3> QED BY <3>1, <3>2 DEF OneMessage
  <2> QED BY <2>2, <2>3
<1> QED BY <1>1, <1>2, <1>3, <1>4, <1>5, <1>6, <1>7, <1>8

\* A request that is not answered.
LEMMA RequestErrorKeeps ==
  ASSUME VInv, RequestError
  PROVE  VInv'
<1> USE DEF VInv, RequestError, wireVars, proxyVars, enclaveVars
<1>1. ControlTypes'
  BY DEF ControlTypes
<1>2. QueueTypes'
  BY EmptySeq DEF QueueTypes, ControlTypes
<1>3. BacklogTypes'
  BY ConnAssumption DEF BacklogTypes
<1>4. EnclaveSide'
  BY ConnAssumption DEF EnclaveSide, ControlTypes
<1>5. ProxySide'
  BY DEF ProxySide, Waits
<1>6. Drained'
  BY DEF Drained
<1>7. Unused'
  BY DEF Unused, NotRelayed, Waits
<1>8. Carried'
  <2> SUFFICES ASSUME NEW d \in Conns, "validator" \in unix'[d] PROVE OneMessage(d)'
    BY DEF Carried
  <2> QED BY DEF Carried, Handled, Holds, OneMessage
<1> QED BY <1>1, <1>2, <1>3, <1>4, <1>5, <1>6, <1>7, <1>8

\* The proxy takes a connection from its listener.
LEMMA AcceptKeeps ==
  ASSUME VInv, Accept
  PROVE  VInv'
<1> USE DEF VInv, Accept, wireVars, proxyVars, enclaveVars
<1>c. /\ BacklogTypes' /\ client' \in Conns /\ Waits(client')
      /\ \A d \in Conns : Waits(d)' <=> (Waits(d) /\ d # client')
  BY Dequeued DEF BacklogTypes
<1>1. ControlTypes'
  BY <1>c DEF ControlTypes
<1>2. QueueTypes'
  BY EmptySeq DEF QueueTypes, ControlTypes
<1>3. BacklogTypes'
  BY <1>c, ConnAssumption DEF BacklogTypes
<1>4. EnclaveSide'
  BY DEF EnclaveSide
<1>5. ProxySide'
  BY <1>c, ConnAssumption DEF ProxySide, Relaying
<1>6. Drained'
  BY DEF Drained
<1>7. Unused'
  BY <1>c DEF Unused, NotRelayed
<1>8. Carried'
  <2> SUFFICES ASSUME NEW d \in Conns, "validator" \in unix'[d] PROVE OneMessage(d)'
    BY DEF Carried
  <2> QED BY StillOne DEF Carried, Handled
<1> QED BY <1>1, <1>2, <1>3, <1>4, <1>5, <1>6, <1>7, <1>8

\* The validator is reached.
LEMMA OpenServerKeeps ==
  ASSUME VInv, OpenServer
  PROVE  VInv'
<1> USE DEF VInv, OpenServer, wireVars, proxyVars, enclaveVars
<1>1. ControlTypes'
  BY DEF ControlTypes, Relaying
<1>2. QueueTypes'
  BY EmptySeq DEF QueueTypes, ControlTypes
<1>3. BacklogTypes'
  BY ConnAssumption DEF BacklogTypes
<1>4. EnclaveSide'
  BY ConnAssumption DEF EnclaveSide, ControlTypes
<1>5. ProxySide'
  BY DEF ProxySide, ControlTypes, Relaying, Waits
<1>6. Drained'
  BY DEF Drained
<1>7. Unused'
  BY DEF ProxySide, Unused, NotRelayed, Waits
<1>8. Carried'
  <2> SUFFICES ASSUME NEW d \in Conns, "validator" \in unix'[d] PROVE OneMessage(d)'
    BY DEF Carried
  <2> QED BY DEF Carried, Handled, Drained, Unused, NotRelayed, Holds, OneMessage
<1> QED BY <1>1, <1>2, <1>3, <1>4, <1>5, <1>6, <1>7, <1>8

\* The validator is not reached.
LEMMA OpenFailsKeeps ==
  ASSUME VInv, OpenFails
  PROVE  VInv'
<1> USE DEF VInv, OpenFails, wireVars, proxyVars, enclaveVars
<1>1. ControlTypes'
  BY DEF ControlTypes
<1>2. QueueTypes'
  BY EmptySeq DEF QueueTypes, ControlTypes
<1>3. BacklogTypes'
  BY ConnAssumption DEF BacklogTypes
<1>4. EnclaveSide'
  BY ConnAssumption DEF EnclaveSide, ControlTypes
<1>5. ProxySide'
  BY ConnAssumption DEF ProxySide, ControlTypes, Relaying, Waits
<1>6. Drained'
  BY DEF Drained, Unused, NotRelayed
<1>7. Unused'
  BY DEF Unused, NotRelayed, Waits
<1>8. Carried'
  <2> SUFFICES ASSUME NEW d \in Conns, "validator" \in unix'[d] PROVE OneMessage(d)'
    BY DEF Carried
  <2> QED BY StillOne DEF Carried, Handled
<1> QED BY <1>1, <1>2, <1>3, <1>4, <1>5, <1>6, <1>7, <1>8

\* The listener is dropped.
LEMMA WakeKeeps ==
  ASSUME VInv, Wake
  PROVE  VInv'
<1> USE DEF VInv, Wake, wireVars, proxyVars, enclaveVars
<1>c. BacklogTypes' /\ \A d \in Conns : ~Waits(d)'
  BY EmptyQueue DEF BacklogTypes
<1>e. /\ client = None
      /\ \A d \in Conns :
           vsock'[d] = IF Waits(d) THEN vsock[d] \ {"proxy"} ELSE vsock[d]
  BY DEF WithoutWaiting, Waits, ProxySide, Relaying
<1>f. \A d \in Conns : /\ "enclave" \in vsock'[d] <=> "enclave" \in vsock[d]
                       /\ "proxy" \in vsock'[d] <=> ("proxy" \in vsock[d] /\ ~Waits(d))
  BY <1>e
<1>1. ControlTypes'
  BY DEF ControlTypes, WithoutWaiting
<1>2. QueueTypes'
  BY EmptySeq DEF QueueTypes, ControlTypes
<1>3. BacklogTypes'
  BY <1>c
<1>4. EnclaveSide'
  <2>1. UNCHANGED enclaveVars
    OBVIOUS
  <2> HIDE DEF Wake
  <2> QED BY <1>f, <2>1 DEF EnclaveSide
<1>5. ProxySide'
  BY <1>c, <1>e, ConnAssumption DEF EnclaveSide, ProxySide, Relaying
<1>6. Drained'
  BY <1>e DEF Drained, Unused, NotRelayed
<1>7. Unused'
  BY <1>c DEF Unused, NotRelayed
<1>8. Carried'
  <2> SUFFICES ASSUME NEW d \in Conns, "validator" \in unix'[d] PROVE OneMessage(d)'
    BY DEF Carried
  <2> QED BY StillOne DEF Carried, Handled
<1> QED BY <1>1, <1>2, <1>3, <1>4, <1>5, <1>6, <1>7, <1>8

\* Answers are relayed.
LEMMA UpstreamKeeps ==
  ASSUME VInv, Upstream
  PROVE  VInv'
<1> USE DEF VInv, Upstream, wireVars, proxyVars, enclaveVars
<1>a. client \in Conns
  BY DEF ControlTypes, ProxySide, Relaying
<1>b. disconnected' \in BOOLEAN
  <2>1. CASE "client" \in ready
    BY <2>1, Zenon
  <2>2. CASE "client" \notin ready
    BY <2>2 DEF ControlTypes
  <2> QED BY <2>1, <2>2
<1>c. /\ encOut' \in [Conns -> Seq(Answers)] /\ valIn' \in [Conns -> Seq(Answers)]
      /\ \A d \in Conns : d # client => encOut'[d] = encOut[d] /\ valIn'[d] = valIn[d]
      /\ \/ encOut'[client] = encOut[client] /\ valIn'[client] = valIn[client]
         \/ encOut'[client] = <<>> /\ valIn'[client] = valIn[client] \o encOut[client]
            /\ "validator" \in unix[client]
         \/ /\ encOut'[client] = <<>> /\ valIn'[client] = valIn[client]
            /\ "validator" \notin unix[client]
  <2>1. valIn[client] \o encOut[client] \in Seq(Answers) /\ <<>> \in Seq(Answers)
    BY <1>a DEF QueueTypes
  <2>2. CASE "client" \notin ready
    BY <2>2 DEF QueueTypes
  <2>3. CASE "client" \in ready /\ ~disconnected'
    BY <2>1 DEF QueueTypes
  <2>4. CASE "client" \in ready /\ disconnected'
    BY <2>1 DEF QueueTypes
  <2> QED BY <2>2, <2>3, <2>4
<1>1. ControlTypes'
  BY <1>b DEF ControlTypes, Relaying
<1>2. QueueTypes'
  BY <1>c DEF QueueTypes
<1>3. BacklogTypes'
  BY DEF BacklogTypes
<1>4. EnclaveSide'
  BY DEF EnclaveSide
<1>5. ProxySide'
  BY DEF ProxySide, Relaying, Waits
<1>6. Drained'
  BY <1>c DEF Drained
<1>7. Unused'
  BY <1>c DEF Unused, NotRelayed, Waits
<1>8. Carried'
  <2> SUFFICES ASSUME NEW d \in Conns, "validator" \in unix[d] PROVE OneMessage(d)'
    BY DEF Carried
  <2>0. OneMessage(d) /\ Handled(d)' = Handled(d)
    BY DEF Carried, Handled
  <2>1. CASE encOut'[d] = encOut[d] /\ valIn'[d] = valIn[d]
    BY <2>0, <2>1, StillOne
  <2>2. CASE encOut'[d] = <<>> /\ valIn'[d] = valIn[d] \o encOut[d]
    <3>1. CASE encOut[d] = <<>>
      <4>1. valIn'[d] = valIn[d]
        BY <2>2, <3>1
      <4> QED BY <2>0, <2>2, <3>1, StillOne
    <3>2. CASE encOut[d] # <<>>
      <4>1. asked[d] # None /\ Holds(d, <<>>, <<>>, None, <<AnswerOf[asked[d]]>>, <<>>)
        BY <2>0, <3>2 DEF OneMessage, Holds
      <4>2. valIn'[d] = <<AnswerOf[asked[d]]>>
        BY <2>2, <4>1 DEF Holds
      <4> QED BY <2>0, <2>2, <4>1 DEF OneMessage, Holds
    <3> QED BY <3>1, <3>2
  <2> QED BY <1>c, <2>1, <2>2
<1> QED BY <1>1, <1>2, <1>3, <1>4, <1>5, <1>6, <1>7, <1>8

\* Requests are relayed.
LEMMA DownstreamKeeps ==
  ASSUME VInv, Downstream
  PROVE  VInv'
<1> USE DEF VInv, Downstream, wireVars, proxyVars, enclaveVars
<1>a. client \in Conns
  BY DEF ControlTypes, ProxySide, Relaying
<1>b. disconnected' \in BOOLEAN
  <2>1. CASE "server" \in ready
    BY <2>1, Zenon
  <2>2. CASE "server" \notin ready
    BY <2>2 DEF ControlTypes
  <2> QED BY <2>1, <2>2
<1>c. /\ valOut' \in [Conns -> Seq(Kinds)] /\ encIn' \in [Conns -> Seq(Kinds)]
      /\ \A d \in Conns : d # client => encIn'[d] = encIn[d] /\ valOut'[d] = valOut[d]
      /\ \/ encIn'[client] = encIn[client] /\ valOut'[client] = valOut[client]
         \/ encIn'[client] = encIn[client] \o valOut[client] /\ valOut'[client] = <<>>
            /\ "enclave" \in vsock[client]
         \/ /\ encIn'[client] = encIn[client] /\ valOut'[client] = <<>>
            /\ "enclave" \notin vsock[client]
  <2>1. encIn[client] \o valOut[client] \in Seq(Kinds) /\ <<>> \in Seq(Kinds)
    BY <1>a DEF QueueTypes
  <2>2. CASE "server" \notin ready
    BY <2>2 DEF QueueTypes
  <2>3. CASE "server" \in ready /\ "enclave" \in vsock[client]
    BY <1>a, <2>1 DEF QueueTypes
  <2>4. CASE "server" \in ready /\ "enclave" \notin vsock[client]
    BY <2>1, <2>4 DEF QueueTypes
  <2> QED BY <2>2, <2>3, <2>4
<1>1. ControlTypes'
  BY <1>b DEF ControlTypes, Relaying
<1>2. QueueTypes'
  BY <1>c DEF QueueTypes
<1>3. BacklogTypes'
  BY DEF BacklogTypes
<1>4. EnclaveSide'
  BY DEF EnclaveSide
<1>5. ProxySide'
  BY DEF ProxySide, Relaying, Waits
<1>6. Drained'
  BY <1>c DEF Drained
<1>7. Unused'
  <2>1. ASSUME NEW d \in Conns, NotRelayed(d)' PROVE d # client /\ NotRelayed(d)
    BY <2>1 DEF NotRelayed, Waits, ProxySide, Relaying
  <2> QED BY <1>c, <2>1 DEF Unused
<1>8. Carried'
  <2> SUFFICES ASSUME NEW d \in Conns, "validator" \in unix[d] PROVE OneMessage(d)'
    BY DEF Carried
  <2>0. OneMessage(d) /\ Handled(d)' = Handled(d)
    BY DEF Carried, Handled
  <2>1. CASE encIn'[d] = encIn[d] /\ valOut'[d] = valOut[d]
    BY <2>0, <2>1, StillOne
  <2>2. CASE valOut'[d] = <<>> /\ encIn'[d] = encIn[d] \o valOut[d]
    <3>1. CASE valOut[d] = <<>>
      <4>1. encIn'[d] = encIn[d]
        BY <2>2, <3>1
      <4> QED BY <2>0, <2>2, <3>1, StillOne
    <3>2. CASE valOut[d] # <<>>
      <4>1. asked[d] # None /\ Holds(d, <<asked[d]>>, <<>>, None, <<>>, <<>>)
        BY <2>0, <3>2 DEF OneMessage, Holds
      <4>2. encIn'[d] = <<asked[d]>>
        BY <2>2, <4>1 DEF Holds
      <4> QED BY <2>0, <2>2, <4>1 DEF OneMessage, Holds
    <3> QED BY <3>1, <3>2
  <2>3. CASE valOut'[d] = <<>> /\ encIn'[d] = encIn[d]
    BY <2>0, <2>3 DEF OneMessage, Holds
  <2> QED BY <1>c, <2>1, <2>2, <2>3
<1> QED BY <1>1, <1>2, <1>3, <1>4, <1>5, <1>6, <1>7, <1>8

\* The relay ends.
LEMMA DisconnectKeeps ==
  ASSUME VInv, Disconnect
  PROVE  VInv'
<1> USE DEF VInv, Disconnect, wireVars, proxyVars, enclaveVars
<1>c. BacklogTypes' /\ \A d \in Conns : ~Waits(d)'
  BY EmptyQueue DEF BacklogTypes
<1>e. /\ client \in Conns
      /\ \A d \in Conns :
           vsock'[d] = IF Waits(d) \/ d = client THEN vsock[d] \ {"proxy"} ELSE vsock[d]
  BY DEF WithoutWaiting, Waits, ProxySide, ControlTypes
<1>f. \A d \in Conns :
        /\ "enclave" \in vsock'[d] <=> "enclave" \in vsock[d]
        /\ "proxy" \in vsock'[d] <=> ("proxy" \in vsock[d] /\ ~Waits(d) /\ d # client)
  <2> HIDE DEF Disconnect
  <2> QED BY <1>e
<1>g. /\ \A d \in Conns : /\ "validator" \in unix'[d] <=> "validator" \in unix[d]
                          /\ "proxy" \in unix'[d] <=> ("proxy" \in unix[d] /\ d # client)
                          /\ encOut'[d] = IF d = client THEN <<>> ELSE encOut[d]
                          /\ valOut'[d] = IF d = client THEN <<>> ELSE valOut[d]
                          /\ encIn'[d] \in {encIn[d], <<>>}
      /\ client' = None /\ ppc' = "listen" /\ UNCHANGED <<valIn, asked>> /\ UNCHANGED enclaveVars
  BY <1>e DEF QueueTypes, ControlTypes
<1>1. ControlTypes'
  BY DEF ControlTypes, WithoutWaiting
<1>2. QueueTypes'
  <2>1. <<>> \in Seq(Kinds) /\ <<>> \in Seq(Answers)
    BY EmptySeq
  <2>2. encIn' = encIn \/ encIn' = [encIn EXCEPT ![client] = <<>>]
    OBVIOUS
  <2> QED BY <2>1 DEF QueueTypes
<1>3. BacklogTypes'
  BY <1>c
<1>4. EnclaveSide'
  <2> HIDE DEF Disconnect
  <2> QED BY <1>f, <1>g DEF EnclaveSide
<1>5. ProxySide'
  <2> HIDE DEF Disconnect
  <2> QED BY <1>c, <1>f, <1>g, ConnAssumption DEF ProxySide, Relaying
<1>6. Drained'
  <2> HIDE DEF Disconnect
  <2> QED BY <1>f, <1>g DEF Drained, Unused, NotRelayed
<1>7. Unused'
  BY <1>c DEF Unused, NotRelayed
<1>8. Carried'
  <2> SUFFICES ASSUME NEW d \in Conns, "validator" \in unix'[d] PROVE OneMessage(d)'
    BY DEF Carried
  <2> QED BY DEF Carried, Handled, Holds, OneMessage, QueueTypes
<1> QED BY <1>1, <1>2, <1>3, <1>4, <1>5, <1>6, <1>7, <1>8

\* The validator makes a request.
LEMMA AskKeeps ==
  ASSUME VInv, NEW c \in Conns, NEW k \in Kinds, Ask(c, k)
  PROVE  VInv'
<1> USE DEF VInv, Ask, wireVars, proxyVars, enclaveVars
<1>1. ControlTypes'
  BY DEF ControlTypes
<1>2. QueueTypes'
  BY EmptySeq DEF QueueTypes, ControlTypes
<1>3. BacklogTypes'
  BY ConnAssumption DEF BacklogTypes
<1>4. EnclaveSide'
  BY ConnAssumption DEF EnclaveSide, ControlTypes
<1>5. ProxySide'
  BY DEF ProxySide, Waits
<1>6. Drained'
  BY DEF Drained
<1>7. Unused'
  BY DEF Unused, NotRelayed, Waits
<1>8. Carried'
  <2> SUFFICES ASSUME NEW d \in Conns, "validator" \in unix[d] PROVE OneMessage(d)'
    BY DEF Carried
  <2>0. OneMessage(d) /\ Handled(d)' = Handled(d)
    BY DEF Carried, Handled
  <2>1. CASE d # c
    BY <2>0, <2>1, StillOne
  <2>2. CASE d = c
    <3>1. Holds(c, <<>>, <<>>, None, <<>>, <<>>)
      BY <2>0, <2>2 DEF OneMessage
    <3>2. asked'[c] = k /\ valOut'[c] = Append(<<>>, k) /\ k # None
      BY <3>1, KindAssumption DEF Holds, ControlTypes, QueueTypes
    <3>3. valOut'[c] = <<asked'[c]>>
      BY <3>2
    <3> QED BY <2>0, <3>2 DEF OneMessage, Holds
  <2> QED BY <2>1, <2>2
<1> QED BY <1>1, <1>2, <1>3, <1>4, <1>5, <1>6, <1>7, <1>8

\* The validator takes an answer.
LEMMA ReceiveKeeps ==
  ASSUME VInv, NEW c \in Conns, Receive(c)
  PROVE  VInv'
<1> USE DEF VInv, Receive, wireVars, proxyVars, enclaveVars
<1>1. ControlTypes'
  BY DEF ControlTypes
<1>2. QueueTypes'
  BY EmptySeq DEF QueueTypes, ControlTypes
<1>3. BacklogTypes'
  BY ConnAssumption DEF BacklogTypes
<1>4. EnclaveSide'
  BY ConnAssumption DEF EnclaveSide, ControlTypes
<1>5. ProxySide'
  BY DEF ProxySide, Waits
<1>6. Drained'
  BY DEF Drained
<1>7. Unused'
  BY DEF Unused, NotRelayed, Waits
<1>8. Carried'
  <2> SUFFICES ASSUME NEW d \in Conns, "validator" \in unix[d] PROVE OneMessage(d)'
    BY DEF Carried
  <2>0. OneMessage(d) /\ Handled(d)' = Handled(d)
    BY DEF Carried, Handled
  <2>1. CASE d # c
    BY <2>0, <2>1, StillOne
  <2>2. CASE d = c
    <3>1. Holds(c, <<>>, <<>>, None, <<>>, <<AnswerOf[asked[c]]>>)
      BY <2>0, <2>2 DEF OneMessage, Holds
    <3>2. valIn'[c] = <<>>
      BY <3>1 DEF Holds, QueueTypes
    <3> QED BY <2>0, <3>2 DEF OneMessage, Holds
  <2> QED BY <2>1, <2>2
<1> QED BY <1>1, <1>2, <1>3, <1>4, <1>5, <1>6, <1>7, <1>8

\* The validator closes its end.
LEMMA CloseKeeps ==
  ASSUME VInv, NEW c \in Conns, Close(c)
  PROVE  VInv'
<1> USE DEF VInv, Close, wireVars, proxyVars, enclaveVars
<1>1. ControlTypes'
  BY DEF ControlTypes
<1>2. QueueTypes'
  BY EmptySeq DEF QueueTypes, ControlTypes
<1>3. BacklogTypes'
  BY ConnAssumption DEF BacklogTypes
<1>4. EnclaveSide'
  BY ConnAssumption DEF EnclaveSide, ControlTypes
<1>5. ProxySide'
  BY DEF ProxySide, Waits
<1>6. Drained'
  BY DEF Drained, ControlTypes, QueueTypes
<1>7. Unused'
  BY DEF Unused, NotRelayed, Waits
<1>8. Carried'
  <2> SUFFICES ASSUME NEW d \in Conns, "validator" \in unix'[d] PROVE OneMessage(d)'
    BY DEF Carried
  <2> QED BY StillOne DEF Carried, Handled, ControlTypes
<1> QED BY <1>1, <1>2, <1>3, <1>4, <1>5, <1>6, <1>7, <1>8

-----------------------------------------------------------------------------
\* No connection has been opened.
LEMMA LinkInit == Init => VInv
<1> SUFFICES ASSUME Init PROVE VInv
  OBVIOUS
<1> USE DEF Init, VInv
<1>1. ControlTypes
  BY DEF ControlTypes
<1>2. QueueTypes
  BY EmptySeq DEF QueueTypes
<1>4. BacklogTypes
  BY EmptySeq DEF BacklogTypes, IsInjective
<1>5. EnclaveSide
  BY ConnAssumption DEF EnclaveSide
<1>6. ProxySide
  BY ConnAssumption DEF ProxySide, Waits, Contains, Relaying
<1>7. Drained
  BY DEF Drained
<1>3. Unused /\ Carried
  BY DEF Unused, Carried
<1> QED BY <1>1, <1>2, <1>3, <1>4, <1>5, <1>6, <1>7

\* Every step keeps the invariant.
LEMMA LinkNext == VInv /\ [Next]_vars => VInv'
<1> SUFFICES ASSUME VInv, [Next]_vars PROVE VInv'
  OBVIOUS
<1>1. CASE UNCHANGED vars
  BY <1>1 DEF vars, wireVars, proxyVars, enclaveVars, VInv, ControlTypes, QueueTypes,
       BacklogTypes, EnclaveSide, ProxySide, Drained, Unused, NotRelayed, Waits, Carried,
       OneMessage, Holds, Handled
<1>2. CASE Next
  <2>1. ASSUME NEW c \in Conns, Notice(c) \/ GiveUp(c) PROVE VInv'
    BY <2>1, CloseKeeps DEF Notice, GiveUp
  <2> QED
    BY <1>2, <2>1, ConnectKeeps, QuietSteps, HandshakeFailsKeeps, ResetConnectionKeeps,
         ReadMsgKeeps, RespondKeeps, RequestErrorKeeps, AcceptKeeps, OpenServerKeeps,
         OpenFailsKeeps, WakeKeeps, UpstreamKeeps, DownstreamKeeps, DisconnectKeeps, AskKeeps,
         ReceiveKeeps DEF Next
<1> QED BY <1>1, <1>2

\* Where the message is makes no difference to the row of all that is on the way.
LEMMA RowOfOne ==
  ASSUME NEW x
  PROVE  /\ (((<<x>> \o <<>>) \o <<>>) \o <<>>) \o <<>> = <<x>>
         /\ (((<<>> \o <<x>>) \o <<>>) \o <<>>) \o <<>> = <<x>>
         /\ (((<<>> \o <<>>) \o <<x>>) \o <<>>) \o <<>> = <<x>>
         /\ (((<<>> \o <<>>) \o <<>>) \o <<x>>) \o <<>> = <<x>>
         /\ (((<<>> \o <<>>) \o <<>>) \o <<>>) \o <<x>> = <<x>>
         /\ (((<<>> \o <<>>) \o <<>>) \o <<>>) \o <<>> = <<>>
<1>1. <<x>> \in Seq({x}) /\ <<>> \in Seq({x})
  OBVIOUS
<1>2. <<x>> \o <<>> = <<x>> /\ <<>> \o <<x>> = <<x>> /\ <<>> \o <<>> = <<>>
  BY <1>1, ConcatEmptySeq
<1> QED BY <1>2

\* The invariant says what OneInFlight says.
LEMMA LinkInvOneInFlight == VInv => OneInFlight
<1> SUFFICES ASSUME VInv, NEW c \in Conns, "validator" \in unix[c], InFlight(c) # <<>>
             PROVE  /\ Len(InFlight(c)) = 1
                    /\ asked[c] # None /\ InFlight(c)[1] \in {asked[c], AnswerOf[asked[c]]}
  BY DEF OneInFlight
<1> DEFINE row == IF conn = c /\ request # None THEN <<request>> ELSE <<>>
<1>1. InFlight(c) = (((valOut[c] \o encIn[c]) \o row) \o encOut[c]) \o valIn[c]
  BY DEF InFlight
<1>2. (Handled(c) = None => row = <<>>) /\ (Handled(c) # None => row = <<Handled(c)>>)
  BY DEF Handled
<1> HIDE DEF row
<1>3. OneMessage(c)
  BY DEF VInv, Carried
<1>4. ~Holds(c, <<>>, <<>>, None, <<>>, <<>>)
  BY <1>1, <1>2 DEF Holds
<1>5. asked[c] # None
  BY <1>3, <1>4 DEF OneMessage
<1>6. InFlight(c) = <<asked[c]>> \/ InFlight(c) = <<AnswerOf[asked[c]]>>
  <2>1. CASE Holds(c, <<asked[c]>>, <<>>, None, <<>>, <<>>)
    BY <1>1, <1>2, <2>1 DEF Holds
  <2>2. CASE Holds(c, <<>>, <<asked[c]>>, None, <<>>, <<>>)
    BY <1>1, <1>2, <2>2 DEF Holds
  <2>3. CASE Holds(c, <<>>, <<>>, asked[c], <<>>, <<>>)
    BY <1>1, <1>2, <2>3 DEF Holds
  <2>4. CASE Holds(c, <<>>, <<>>, None, <<AnswerOf[asked[c]]>>, <<>>)
    BY <1>1, <1>2, <2>4 DEF Holds
  <2>5. CASE Holds(c, <<>>, <<>>, None, <<>>, <<AnswerOf[asked[c]]>>)
    BY <1>1, <1>2, <2>5 DEF Holds
  <2> QED BY <1>3, <1>4, <2>1, <2>2, <2>3, <2>4, <2>5 DEF OneMessage
<1> QED BY <1>5, <1>6

\* Connections, requests and answers are what they should be in every step of the
\* enclave, the proxy and the validator (TypeOK).
THEOREM LinkTypeCorrect == Spec => []TypeOK
<1>1. VInv => TypeOK
  BY DEF VInv, ControlTypes, QueueTypes, BacklogTypes, TypeOK, Answers
<1> QED BY <1>1, LinkInit, LinkNext, PTL DEF Spec

\* However often the relay breaks and connections are begun anew, and for any number
\* of them, a validator has one message under way on its connection, its request
\* or the answer to it (OneInFlight).
THEOREM LinkOneInFlight == Spec => []OneInFlight
BY LinkInit, LinkNext, LinkInvOneInFlight, PTL DEF Spec

-----------------------------------------------------------------------------
(* The launcher, for every timeout.                                            *)

Where == {"none", "starting", "blocked", "failed", "done"}

\* The enclave belongs to the thread that started it until nitro-cli was asked
\* to terminate it, or that thread failed and its first stop signal, to itself,
\* will end the launcher; the vsock-proxy child belongs to its thread until it
\* was killed; and a process that returned takes no further step.
Owned ==
  /\ thread \in [Threads -> Where]
  /\ sending \in [0 .. 3 -> 0 .. 4]
  /\ thread[1] = "failed" => sending[1] = 1
  /\ enclave => \/ thread[1] \in {"blocked", "failed"}
                \/ thread[1] = "done" /\ refused
  /\ proxy => thread[2] = "blocked"
  /\ main = "returned" => exited

LInv == Owned /\ JoinedMeansStopped

-----------------------------------------------------------------------------
\* Neither enclave nor proxy is up yet.
LEMMA OwnedInit == LaunchInit => LInv
  BY DEF LaunchInit, LInv, Owned, JoinedMeansStopped, Where, Threads

\* A step of one of the threads, or of whoever sends stop signals.
LEMMA ThreadSteps ==
  ASSUME LInv,
         \/ EnclaveUp \/ StopEnclave \/ ProxyFound \/ ProxyUp \/ StopProxy
         \/ HelperServes \/ HelperReturns
         \/ \E i \in Threads : Error(i)
         \/ \E i \in 0 .. 3 : SendStop(i)
  PROVE  LInv'
<1> USE DEF LInv, Owned, JoinedMeansStopped, Where, Threads, childVars
<1>1. CASE EnclaveUp BY <1>1 DEF EnclaveUp
<1>2. CASE StopEnclave BY <1>2 DEF StopEnclave
<1>3. CASE ProxyFound BY <1>3 DEF ProxyFound
<1>4. CASE ProxyUp BY <1>4 DEF ProxyUp
<1>5. CASE StopProxy BY <1>5 DEF StopProxy
<1>6. CASE HelperServes BY <1>6 DEF HelperServes
<1>7. CASE HelperReturns BY <1>7 DEF HelperReturns
<1>8. ASSUME NEW i \in Threads, Error(i) PROVE LInv'
  BY <1>8 DEF Error
<1>9. ASSUME NEW i \in 0 .. 3, SendStop(i) PROVE LInv'
  BY <1>9 DEF SendStop, Listening
<1> QED BY <1>1, <1>2, <1>3, <1>4, <1>5, <1>6, <1>7, <1>8, <1>9

\* A step of Launcher::run or of the Ctrl-C handler.
LEMMA MainSteps ==
  ASSUME LInv,
         \/ EnclaveFound \/ NotFound \/ TimeoutSent \/ SetHandler \/ RunError
         \/ CtrlC \/ Return
  PROVE  LInv'
<1> USE DEF LInv, Owned, JoinedMeansStopped, Where, Threads, childVars
<1>1. CASE EnclaveFound BY <1>1 DEF EnclaveFound
<1>2. CASE NotFound BY <1>2 DEF NotFound, MainThread
<1>3. CASE TimeoutSent BY <1>3 DEF TimeoutSent
<1>4. CASE SetHandler BY <1>4 DEF SetHandler
<1>5. CASE RunError BY <1>5 DEF RunError
<1>6. CASE CtrlC BY <1>6 DEF CtrlC
<1>7. CASE Return
  <2>1. Owned'
    BY <1>7 DEF Return
  <2>2. ~proxy /\ (~enclave \/ refused)
    \* The threads that were joined are not blocked, and the enclave's did not fail.
    <3>1. thread[1] \notin {"blocked", "failed"} /\ thread[2] # "blocked"
      BY <1>7 DEF Return
    <3> QED BY <3>1
  <2> QED BY <1>7, <2>1, <2>2 DEF Return
<1> QED BY <1>1, <1>2, <1>3, <1>4, <1>5, <1>6, <1>7

\* Every step keeps the invariant.
LEMMA OwnedNext == LInv /\ [LaunchNext]_launchVars => LInv'
<1> SUFFICES ASSUME LInv, [LaunchNext]_launchVars PROVE LInv'
  OBVIOUS
<1>1. CASE UNCHANGED launchVars
  BY <1>1 DEF launchVars, LInv, Owned, JoinedMeansStopped
<1>2. CASE LaunchNext
  BY <1>2, ThreadSteps, MainSteps DEF LaunchNext
<1> QED BY <1>1, <1>2

-----------------------------------------------------------------------------
\* However threads fail, signals cross and the wait for the enclave ends, a
\* launcher that joined its threads has killed the vsock-proxy and asked
\* nitro-cli to terminate the enclave (JoinedMeansStopped).
THEOREM JoinedLauncherStopped == LaunchSpec => []JoinedMeansStopped
<1>1. LInv => JoinedMeansStopped
  BY DEF LInv
<1> QED BY <1>1, OwnedInit, OwnedNext, PTL DEF LaunchSpec
=============================================================================
