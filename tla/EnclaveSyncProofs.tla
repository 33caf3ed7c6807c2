-------------------------- MODULE EnclaveSyncProofs --------------------------
(* What the proofs about the two enclave providers share: how the session, the *)
(* stream and the file keep each other in order, whoever runs them.            *)
EXTENDS EnclaveSync, ConsensusStateProofs, SequenceTheorems

\* A running enclave is ahead of its file and of everything in flight, and
\* without losses it is the newest of them.
Ahead ==
  /\ Follows(file, state)
  /\ \A i \in DOMAIN stream : Follows(stream[i], state)
  /\ lost \/ state = Newest

\* What is in flight ends in the enclave's state, losses or not.
Attached == stream = <<>> \/ Last(stream) = state

\* What holds of the file, the stream and the signatures at any time.
InOrder ==
  /\ SyncTypeOK
  /\ InFlightInOrder
  /\ NewestCoversSigned
  /\ NoDoubleSignUnlessLost

\* The request between check and persist passed the checks; the key is used for
\* the state that was sent.
Pending ==
  /\ pc = "persist" => Accepted(state, cs)
  /\ pc = "sign" => state = cs

-----------------------------------------------------------------------------
\* A request is turned into a consensus state of the model.
LEMMA EnclaveRequestStateType ==
  ASSUME NEW r \in SignRequests
  PROVE  RequestState(r) \in ConsensusStates
  BY RequestAssumption DEF RequestState, ConsensusStates, StepOf, Step

\* A stream is empty when nothing is in it.
LEMMA EmptyStream ==
  /\ <<>> \in Seq(ConsensusStates) /\ Len(<<>>) = 0
  /\ \A q \in Seq(ConsensusStates) : q = <<>> <=> Len(q) = 0
  <1>1. <<>> \in Seq(ConsensusStates) /\ Len(<<>>) = 0
    BY EmptySeq
  <1>2. ASSUME NEW q \in Seq(ConsensusStates) PROVE q = <<>> <=> Len(q) = 0
    <2>1. q # <<>> => Len(q) # 0
      BY EmptySeq
    <2> QED BY <1>1, <2>1
  <1> QED BY <1>1, <1>2

\* The newest state is the one just sent.
LEMMA NewestAfterSend ==
  ASSUME stream \in Seq(ConsensusStates), cs \in ConsensusStates,
         stream' = Append(stream, cs)
  PROVE  Newest' = cs
  <1>1. Len(stream') = Len(stream) + 1 /\ stream'[Len(stream) + 1] = cs
    BY AppendProperties
  <1>2. stream' # <<>>
    BY AppendProperties
  <1> QED BY <1>1, <1>2 DEF Newest, Last

\* Moving the oldest state from the stream into the file keeps the newest.
LEMMA NewestAfterStore ==
  ASSUME stream \in Seq(ConsensusStates), stream # <<>>,
         file' = Head(stream), stream' = Tail(stream)
  PROVE  Newest' = Newest
  <1>1. /\ Head(stream) = stream[1]
        /\ Len(stream) \in Nat \ {0}
        /\ stream' \in Seq(ConsensusStates)
        /\ Len(stream') = Len(stream) - 1
        /\ \A i \in 1 .. Len(stream') : stream'[i] = stream[i + 1]
    BY HeadTailProperties, EmptySeq
  <1>2. CASE Len(stream) = 1
    <2>1. Len(stream') = 0
      BY <1>1, <1>2
    <2>2. stream' = <<>>
      BY <1>1, <2>1
    <2> QED BY <1>1, <1>2, <2>2 DEF Newest, Last
  <1>3. CASE Len(stream) > 1
    <2>1. Len(stream') \in 1 .. Len(stream') /\ Len(stream') + 1 = Len(stream)
      BY <1>1, <1>3
    <2>2. stream' # <<>>
      <3>1. Len(stream') # 0
        BY <1>1, <1>3
      <3> QED BY <1>1, <3>1, EmptyStream
    <2>3. stream'[Len(stream')] = stream[Len(stream)]
      BY <1>1, <2>1
    <2> QED BY <2>2, <2>3 DEF Newest, Last
  <1>4. Len(stream) = 1 \/ Len(stream) > 1
    BY <1>1
  <1> QED BY <1>2, <1>3, <1>4

\* What is left of the stream after its head was read was behind it before.
LEMMA TailOf ==
  ASSUME stream \in Seq(ConsensusStates), stream # <<>>, stream' = Tail(stream)
  PROVE  /\ stream' \in Seq(ConsensusStates)
         /\ Len(stream') = Len(stream) - 1
         /\ 1 \in DOMAIN stream /\ Head(stream) = stream[1]
         /\ \A i \in DOMAIN stream' : i \in Nat \ {0} /\ i + 1 \in DOMAIN stream
                                      /\ stream'[i] = stream[i + 1]
  <1>1. /\ stream' \in Seq(ConsensusStates)
        /\ Len(stream') = Len(stream) - 1
        /\ \A i \in 1 .. Len(stream') : stream'[i] = stream[i + 1]
        /\ Len(stream) \in Nat \ {0}
    BY HeadTailProperties, EmptySeq
  <1>2. DOMAIN stream = 1 .. Len(stream) /\ DOMAIN stream' = 1 .. Len(stream')
    BY <1>1
  <1>3. Head(stream) = stream[1]
    OBVIOUS
  <1> QED BY <1>1, <1>2, <1>3

-----------------------------------------------------------------------------
\* A step that neither sends, stores, loses nor signs a state.
LEMMA OrderQuiet ==
  ASSUME InOrder,
         UNCHANGED <<signed, file, stream, lost>>,
         state' \in ConsensusStates, cs' \in ConsensusStates, resp' \in Responses
  PROVE  InOrder' /\ (Ahead /\ UNCHANGED state => Ahead')
  <1>1. Newest' = Newest
    BY DEF Newest
  <1> QED BY <1>1 DEF InOrder, SyncTypeOK, InFlightInOrder, NewestCoversSigned,
                      NoDoubleSignUnlessLost, Ahead

\* The key is used: the signature joins the others, and what was sent last
\* follows it.
LEMMA OrderSign ==
  ASSUME InOrder, Ahead, state = cs, Sign, UNCHANGED syncVars
  PROVE  InOrder' /\ Ahead'
  <1>1. /\ Newest' = Newest
        /\ UNCHANGED <<file, stream, lost, state, cs>>
        /\ resp' = "signature"
        /\ signed' = signed \cup {cs}
    BY DEF Newest, syncVars, Sign
  <1>2. cs \in ConsensusStates /\ signed \subseteq ConsensusStates
    BY DEF InOrder, SyncTypeOK
  <1>3. SyncTypeOK' /\ InFlightInOrder' /\ Ahead'
    BY <1>1, <1>2 DEF InOrder, SyncTypeOK, Responses, Ahead, InFlightInOrder
  <1>4. CASE lost
    BY <1>1, <1>3, <1>4 DEF InOrder, NewestCoversSigned, NoDoubleSignUnlessLost
  <1>5. CASE ~lost
    <2>1. Newest = cs
      BY <1>5 DEF Ahead
    <2>2. \A s \in signed : Follows(s, cs)
      BY <1>5, <2>1 DEF InOrder, NewestCoversSigned
    <2>3. Follows(cs, cs)
      BY <1>2, FollowsItself
    <2>4. NewestCoversSigned'
      BY <1>1, <1>2, <2>1, <2>2, <2>3 DEF NewestCoversSigned
    <2>5. \A s \in signed : ~Conflict(s, cs) /\ ~Conflict(cs, s) /\ ~Flip(s, cs)
      BY <2>2 DEF Follows, Conflict, SameHRS, SameRound
    <2>6. \A s \in signed : ~Flip(cs, s)
      <3> SUFFICES ASSUME NEW s \in signed PROVE ~Flip(cs, s)
        OBVIOUS
      <3>1. s \in ConsensusStates /\ NotAfter(s, cs)
        BY <1>2, <2>2 DEF Follows
      <3> QED BY <1>2, <3>1, FieldTypes DEF NotAfter, Flip, SameRound
    <2>7. \A s, n \in signed : ~Conflict(s, n) /\ ~Flip(s, n)
      BY <1>5 DEF InOrder, NoDoubleSignUnlessLost
    <2>8. NoDoubleSignUnlessLost'
      BY <1>1, <2>3, <2>5, <2>6, <2>7 DEF NoDoubleSignUnlessLost, Follows
    <2> QED BY <1>3, <2>4, <2>8 DEF InOrder
  <1> QED BY <1>4, <1>5

\* The steps of handle_request.
LEMMA OrderHandleRequest ==
  ASSUME InOrder, Ahead, Pending, HandleRequest, UNCHANGED syncVars
  PROVE  /\ InOrder' /\ Ahead' /\ Pending'
         /\ pc \in {"read", "sign", "respond"}
         /\ pc' \in {"read", "persist", "respond", "failed"}
  <1>1. cs \in ConsensusStates /\ resp \in Responses /\ state \in ConsensusStates
    BY DEF InOrder, SyncTypeOK
  <1>2. CASE ReadError \/ SignableError \/ RespondError
    BY <1>1, <1>2, OrderQuiet, InitialStateType
    DEF ReadError, SignableError, RespondError, Fail, syncVars, Responses, Pending
  <1>3. CASE \E r \in SignRequests : WrongChain(r) \/ TooHigh(r) \/ Regressed(r) \/ Refuse(r)
    BY <1>1, <1>3, OrderQuiet, InitialStateType
    DEF WrongChain, TooHigh, Regressed, Refuse, Answer, Fail, syncVars, Responses, Pending
  <1>4. CASE \E r \in SignRequests : Admit(r)
    BY <1>1, <1>4, OrderQuiet, EnclaveRequestStateType DEF Admit, syncVars, Pending
  <1>5. CASE ReplyPing \/ (\E c \in Chains : ShowPublicKey(c))
    BY <1>1, <1>5, OrderQuiet DEF ReplyPing, ShowPublicKey, Answer, syncVars, Responses, Pending
  <1>6. CASE Sign
    BY <1>6, OrderSign DEF Sign, Pending
  <1>7. CASE Respond
    BY <1>1, <1>7, OrderQuiet, InitialStateType DEF Respond, syncVars, Responses, Pending
  <1> QED BY <1>2, <1>3, <1>4, <1>5, <1>6, <1>7 DEF HandleRequest

\* A state is sent: it follows what is in flight, the file and every signature.
LEMMA OrderSend ==
  ASSUME InOrder, Ahead, file \in ConsensusStates, Accepted(state, cs), SendState
  PROVE  InOrder' /\ Ahead'
  <1>1. /\ stream \in Seq(ConsensusStates) /\ cs \in ConsensusStates
        /\ state \in ConsensusStates /\ signed \subseteq ConsensusStates
        /\ Follows(file, state) /\ \A i \in DOMAIN stream : Follows(stream[i], state)
    BY DEF InOrder, SyncTypeOK, Ahead
  <1>2. /\ stream' = Append(stream, cs) /\ state' = cs
        /\ UNCHANGED <<cs, resp, signed, file, lost>>
        /\ Len(stream) < MaxInFlight
    BY DEF SendState, Persisted
  <1>3. /\ stream' \in Seq(ConsensusStates)
        /\ Len(stream) \in Nat /\ Len(stream') = Len(stream) + 1
        /\ DOMAIN stream = 1 .. Len(stream) /\ DOMAIN stream' = 1 .. Len(stream')
        /\ \A i \in 1 .. Len(stream) : stream'[i] = stream[i]
        /\ stream'[Len(stream) + 1] = cs
    BY <1>1, <1>2, AppendProperties, LenProperties
  <1>4. \A i \in DOMAIN stream : i \in DOMAIN stream' /\ stream'[i] = stream[i]
    BY <1>3
  <1>5. \A i \in DOMAIN stream' : i \in DOMAIN stream \/ (i = Len(stream') /\ stream'[i] = cs)
    BY <1>3
  <1>6. \A i \in DOMAIN stream : i \in Nat /\ i < Len(stream') /\ stream[i] \in ConsensusStates
    BY <1>1, <1>3
  <1>7. Follows(file, cs) /\ Follows(cs, cs) /\ \A i \in DOMAIN stream : Follows(stream[i], cs)
    BY <1>1, <1>6, FollowsAccepted, FollowsItself
  <1>8. Newest' = cs
    BY <1>1, <1>2, NewestAfterSend
  <1>9. SyncTypeOK'
    <2>1. Len(stream') <= MaxInFlight
      BY <1>2, <1>3, InFlightAssumption
    <2> QED BY <1>1, <1>2, <1>3, <2>1 DEF InOrder, SyncTypeOK
  <1>10. Ahead'
    BY <1>2, <1>4, <1>5, <1>7, <1>8 DEF Ahead
  <1>11. InFlightInOrder'
    <2>1. \A i \in DOMAIN stream' : Follows(file, stream'[i])
      BY <1>4, <1>5, <1>7 DEF InOrder, InFlightInOrder
    <2>2. ASSUME NEW i \in DOMAIN stream', NEW j \in DOMAIN stream', i < j
          PROVE  Follows(stream'[i], stream'[j])
      <3>1. i \in DOMAIN stream
        BY <1>3, <2>2
      <3>2. CASE j \in DOMAIN stream
        BY <1>4, <2>2, <3>1, <3>2 DEF InOrder, InFlightInOrder
      <3>3. CASE j \notin DOMAIN stream
        BY <1>4, <1>5, <1>7, <3>1, <3>3
      <3> QED BY <3>2, <3>3
    <2> QED BY <1>2, <2>1, <2>2 DEF InFlightInOrder
  <1>12. NewestCoversSigned' /\ NoDoubleSignUnlessLost'
    <2>1. ~lost => \A s \in signed : Follows(s, state)
      BY DEF InOrder, NewestCoversSigned, Ahead
    <2>2. ~lost => \A s \in signed : Follows(s, cs)
      BY <1>1, <2>1, FollowsAccepted
    <2> QED BY <1>1, <1>2, <1>8, <2>2 DEF InOrder, NewestCoversSigned, NoDoubleSignUnlessLost
  <1> QED BY <1>9, <1>10, <1>11, <1>12 DEF InOrder

\* The oldest state leaves the stream, for the file or not.  If it was stored
\* nothing is lost by it; if not, only the claims that survive a loss remain.
LEMMA OrderStore ==
  ASSUME InOrder, file \in ConsensusStates, StoreNext \/ StoreFails, UNCHANGED sessionVars
  PROVE  InOrder' /\ file' \in ConsensusStates /\ (Ahead => Ahead')
  <1>1. /\ stream \in Seq(ConsensusStates) /\ Len(stream) <= MaxInFlight
        /\ stream # <<>> /\ stream' = Tail(stream)
        /\ \/ file' = Head(stream) /\ lost' = lost
           \/ file' = file /\ lost' = TRUE
        /\ UNCHANGED <<state, cs, resp, signed>>
    BY DEF InOrder, SyncTypeOK, StoreNext, StoreFails, sessionVars
  <1>2. /\ stream' \in Seq(ConsensusStates)
        /\ Len(stream') = Len(stream) - 1
        /\ 1 \in DOMAIN stream /\ Head(stream) = stream[1]
        /\ \A i \in DOMAIN stream' : i \in Nat \ {0} /\ i + 1 \in DOMAIN stream
                                     /\ stream'[i] = stream[i + 1]
    BY <1>1, TailOf
  <1>3. Head(stream) \in ConsensusStates /\ file' \in ConsensusStates
    BY <1>1, HeadTailProperties
  <1>4. SyncTypeOK'
    <2>1. Len(stream) \in Nat /\ Len(stream') <= MaxInFlight
      BY <1>1, <1>2, InFlightAssumption, LenProperties
    <2>2. lost' \in BOOLEAN
      BY <1>1 DEF InOrder, SyncTypeOK
    <2> QED BY <1>1, <1>2, <1>3, <2>1, <2>2 DEF InOrder, SyncTypeOK
  <1>5. \A i, j \in DOMAIN stream : i < j => Follows(stream[i], stream[j])
    BY DEF InOrder, InFlightInOrder
  <1>6. \A i \in DOMAIN stream' : Follows(file', stream'[i])
    <2> SUFFICES ASSUME NEW i \in DOMAIN stream' PROVE Follows(file', stream'[i])
      OBVIOUS
    <2>1. i + 1 \in DOMAIN stream /\ stream'[i] = stream[i + 1] /\ 1 < i + 1
      BY <1>2
    <2>2. Follows(stream[1], stream[i + 1]) /\ Follows(file, stream[i + 1])
      BY <1>2, <1>5, <2>1 DEF InOrder, InFlightInOrder
    <2> QED BY <1>1, <1>2, <2>1, <2>2
  <1>7. \A i, j \in DOMAIN stream' : i < j => Follows(stream'[i], stream'[j])
    <2> SUFFICES ASSUME NEW i \in DOMAIN stream', NEW j \in DOMAIN stream', i < j
                 PROVE  Follows(stream'[i], stream'[j])
      OBVIOUS
    <2>1. i + 1 \in DOMAIN stream /\ j + 1 \in DOMAIN stream /\ i + 1 < j + 1
      BY <1>2
    <2> QED BY <1>2, <1>5, <2>1
  <1>8. InFlightInOrder'
    BY <1>6, <1>7 DEF InFlightInOrder
  <1>9. ASSUME Ahead
        PROVE  Follows(file', state) /\ \A i \in DOMAIN stream' : Follows(stream'[i], state)
    BY <1>1, <1>2, <1>9 DEF Ahead
  <1>10. CASE file' = Head(stream) /\ lost' = lost
    <2>1. Newest' = Newest
      BY <1>1, <1>10, NewestAfterStore
    <2> QED BY <1>1, <1>3, <1>4, <1>8, <1>9, <1>10, <2>1
        DEF InOrder, Ahead, NewestCoversSigned, NoDoubleSignUnlessLost
  <1>11. CASE file' = file /\ lost' = TRUE
    BY <1>1, <1>3, <1>4, <1>8, <1>9, <1>11
    DEF InOrder, Ahead, NewestCoversSigned, NoDoubleSignUnlessLost
  <1> QED BY <1>1, <1>10, <1>11

\* The stream is dropped: without losses it was empty and the file is newest.
LEMMA OrderDrop ==
  ASSUME InOrder, DropStream, UNCHANGED <<signed, file>>,
         state' \in ConsensusStates, cs' \in ConsensusStates, resp' \in Responses
  PROVE  InOrder' /\ (Ahead /\ UNCHANGED state => Ahead')
  <1>1. stream' = <<>> /\ lost' = (lost \/ stream # <<>>)
    BY DEF DropStream
  <1>2. Len(stream') <= MaxInFlight /\ stream' \in Seq(ConsensusStates) /\ DOMAIN stream' = {}
    BY <1>1, EmptyStream, InFlightAssumption
  <1>3. lost' \in BOOLEAN
    BY <1>1
  <1>4. SyncTypeOK' /\ InFlightInOrder'
    BY <1>2, <1>3 DEF InOrder, SyncTypeOK, InFlightInOrder
  <1>5. CASE lost'
    BY <1>2, <1>4, <1>5 DEF InOrder, Ahead, NewestCoversSigned, NoDoubleSignUnlessLost
  <1>6. CASE ~lost'
    <2>1. ~lost /\ stream = <<>>
      BY <1>1, <1>6
    <2>2. Newest' = Newest
      BY <1>1, <2>1 DEF Newest
    <2> QED BY <1>2, <1>4, <2>1, <2>2
        DEF InOrder, Ahead, NewestCoversSigned, NoDoubleSignUnlessLost
  <1> QED BY <1>5, <1>6

\* A StateSyncer starts, with nothing in flight: what it loads is the file, or
\* the initial state if nothing was ever signed.
LEMMA OrderLoad ==
  ASSUME InOrder, stream = <<>>, file = NoFile => signed = {}, file' = LoadedState,
         UNCHANGED <<signed, stream, lost>>,
         state' \in ConsensusStates, cs' \in ConsensusStates, resp' \in Responses
  PROVE  /\ InOrder' /\ file' \in ConsensusStates
         /\ file \in ConsensusStates => file' = file
         /\ state' = file' => Ahead'
  <1>1. LoadedState \in ConsensusStates
    BY InitialStateType DEF LoadedState, InOrder, SyncTypeOK
  <1>2. file \in ConsensusStates => LoadedState = file
    BY EnclaveFileAssumption DEF LoadedState
  <1>3. file \notin ConsensusStates => signed = {}
    BY DEF InOrder, SyncTypeOK
  <1>4. Newest = file /\ Newest' = file' /\ DOMAIN stream' = {}
    BY EmptyStream DEF Newest
  <1>5. SyncTypeOK' /\ InFlightInOrder'
    BY <1>1, <1>4 DEF InOrder, SyncTypeOK, InFlightInOrder
  <1>6. NewestCoversSigned' /\ NoDoubleSignUnlessLost'
    BY <1>1, <1>2, <1>3, <1>4 DEF InOrder, NewestCoversSigned, NoDoubleSignUnlessLost
  <1>7. state' = file' => Ahead'
    BY <1>1, <1>4, FollowsItself DEF Ahead
  <1> QED BY <1>1, <1>2, <1>5, <1>6, <1>7 DEF InOrder
-----------------------------------------------------------------------------
\* What is in flight ends in the enclave's state as long as the state stays and
\* the stream stays, loses its oldest state or is dropped.
LEMMA AttachedKept ==
  ASSUME Attached, stream \in Seq(ConsensusStates), UNCHANGED state,
         \/ stream' = stream
         \/ stream' = <<>>
         \/ stream # <<>> /\ stream' = Tail(stream)
  PROVE  Attached'
  <1>1. CASE stream' = stream \/ stream' = <<>>
    BY <1>1 DEF Attached, Last
  <1>2. CASE stream # <<>> /\ stream' = Tail(stream) /\ stream' # <<>>
    <2>1. /\ stream' \in Seq(ConsensusStates)
          /\ Len(stream') = Len(stream) - 1
          /\ \A i \in DOMAIN stream' : stream'[i] = stream[i + 1]
      BY <1>2, TailOf
    <2>2. Len(stream') \in Nat \ {0} /\ Len(stream') \in DOMAIN stream'
      <3>1. Len(stream') # 0 /\ Len(stream') \in Nat
        BY <1>2, <2>1, EmptyStream, LenProperties
      <3>2. DOMAIN stream' = 1 .. Len(stream')
        BY <2>1, LenProperties
      <3> QED BY <3>1, <3>2
    <2>3. stream'[Len(stream')] = stream[Len(stream)]
      <3>1. Len(stream) \in Nat /\ Len(stream') + 1 = Len(stream)
        BY <2>1, <2>2, LenProperties
      <3> QED BY <2>1, <2>2, <3>1
    <2> QED BY <1>2, <2>3 DEF Attached, Last
  <1>3. CASE stream' = <<>>
    BY <1>3 DEF Attached
  <1> QED BY <1>1, <1>2, <1>3

\* It does so anew with every state that is sent.
LEMMA AttachedSent ==
  ASSUME InOrder, SendState
  PROVE  Attached'
  <1>1. /\ stream \in Seq(ConsensusStates) /\ cs \in ConsensusStates
        /\ stream' = Append(stream, cs) /\ state' = cs
    BY DEF InOrder, SyncTypeOK, SendState, Persisted
  <1>2. Len(stream') = Len(stream) + 1 /\ stream'[Len(stream) + 1] = cs
    BY <1>1, AppendProperties
  <1> QED BY <1>1, <1>2 DEF Attached, Last

\* The steps of handle_request neither send nor touch the state in memory.
LEMMA AttachedHandleRequest ==
  ASSUME Attached, InOrder, HandleRequest, UNCHANGED syncVars
  PROVE  Attached'
  <1>1. UNCHANGED <<state, stream>>
    BY DEF HandleRequest, ReadError, WrongChain, TooHigh, Regressed, Refuse, Admit, ReplyPing,
           ShowPublicKey, Sign, SignableError, Respond, RespondError, Fail, Answer, syncVars
  <1> QED BY <1>1 DEF Attached, Last
=============================================================================
