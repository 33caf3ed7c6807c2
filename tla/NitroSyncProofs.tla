--------------------------- MODULE NitroSyncProofs ---------------------------
(* The Nitro signer does not double sign unless an update was lost, whichever   *)
(* of enclave and helper dies and restarts when, for every set of heights,      *)
(* rounds, blocks and requests and every length of the stream and the queue of   *)
(* configurations.                                                               *)
EXTENDS NitroSync, EnclaveSyncProofs

Running == pc \in {"connect", "read", "persist", "sign", "respond", "failed"}

\* How the two lifetimes fit together.  Only a helper that serves has something
\* to read; one that is about to serve has the file's state at hand, and so has
\* an enclave that is about to load it, even when the helper that it connected
\* to is gone by then.
Lifetimes ==
  /\ ~Reading => stream = <<>>
  /\ helper # "off" \/ Running \/ pc = "loading" => file \in ConsensusStates
  /\ file = NoFile => signed = {}
  /\ helper \in {"bound", "listening"} => hostState = file
  /\ pc = "loading" => stream = <<>> /\ hostState = file

NInv ==
  /\ TypeOK
  /\ Lifetimes
  /\ Pending
  /\ Running => Ahead
  /\ InOrder

-----------------------------------------------------------------------------
\* The invariant holds before anything is started.
LEMMA NitroInit == Init => NInv
  <1> SUFFICES ASSUME Init PROVE NInv
    OBVIOUS
  <1>1. SyncTypeOK
    <2>1. Len(stream) <= MaxInFlight /\ stream \in Seq(ConsensusStates)
      <3>1. stream = <<>>
        BY DEF Init, SyncInit
      <3> QED BY <3>1, InFlightAssumption, EmptyStream
    <2> QED BY <2>1, InitialStateType
        DEF Init, SessionInit, SyncInit, SyncTypeOK, Responses
  <1>2. TypeOK
    <2>1. 0 \in 0 .. MaxConfigs
      BY ConfigsAssumption
    <2> QED BY <1>1, <2>1, InitialStateType DEF Init, SessionInit, TypeOK
  <1>3. InFlightInOrder
    BY EnclaveFileAssumption DEF Init, SyncInit, InFlightInOrder
  <1> QED BY <1>1, <1>2, <1>3
      DEF Init, SessionInit, SyncInit, NInv, Lifetimes, Running, Pending,
          InOrder, NewestCoversSigned, NoDoubleSignUnlessLost

\* What the steps below take from the invariant.
LEMMA NitroFacts ==
  ASSUME NInv
  PROVE  /\ InOrder /\ Lifetimes /\ Pending /\ (Running => Ahead) /\ TypeOK
         /\ state \in ConsensusStates /\ cs \in ConsensusStates /\ resp \in Responses
         /\ hostState \in ConsensusStates /\ lost \in BOOLEAN
  BY DEF NInv, TypeOK, InOrder, SyncTypeOK

\* A step that leaves the session's memory, the stream and the file alone, and
\* moves enclave or helper between stations where nothing is being loaded.
LEMMA NitroQuiet ==
  ASSUME NInv, UNCHANGED <<state, cs, resp, signed, file, stream, lost>>,
         Pending', TypeOK', Running' => Running,
         Lifetimes'
  PROVE  NInv'
  <1>1. InOrder' /\ (Ahead => Ahead')
    BY NitroFacts, OrderQuiet
  <1> QED BY <1>1, NitroFacts DEF NInv

-----------------------------------------------------------------------------
\* The steps of the enclave outside its session.
LEMMA EnclaveSteps ==
  ASSUME NInv, Boot \/ TakeConfig \/ Accept \/ EntryError \/ LinkBreaks
  PROVE  NInv'
  <1>1. UNCHANGED <<state, cs, resp, signed, file, stream, lost>>
    BY DEF Boot, TakeConfig, Accept, EntryError, LinkBreaks, syncVars, sessionVars
  <1>2. SyncTypeOK'
    BY <1>1 DEF NInv, TypeOK, SyncTypeOK
  <1>3. CASE Boot \/ TakeConfig \/ EntryError \/ LinkBreaks
    <2>1. UNCHANGED <<helper, hostState, stop>> /\ (pc' = pc \/ pc' \in {"boot", "load"})
      BY <1>3 DEF Boot, TakeConfig, EntryError, LinkBreaks, hostVars, sessionVars
    <2>2. configs' \in 0 .. MaxConfigs
      BY <1>3, ConfigsAssumption, NitroFacts
      DEF Boot, TakeConfig, EntryError, LinkBreaks, hostVars, TypeOK
    <2>3. linked' \in BOOLEAN
      BY <1>3, NitroFacts DEF Boot, TakeConfig, EntryError, LinkBreaks, hostVars, TypeOK
    <2>4. TypeOK'
      BY <1>2, <2>1, <2>2, <2>3, NitroFacts DEF TypeOK
    <2>5. Lifetimes' /\ Pending' /\ (Running' => Running)
      BY <1>1, <2>1, NitroFacts DEF Lifetimes, Reading, Running, Pending
    <2> QED BY <1>1, <2>4, <2>5, NitroQuiet
  <1>4. CASE Accept
    <2>1. TypeOK'
      BY <1>2, <1>4, NitroFacts DEF Accept, TypeOK
    <2>2. Lifetimes' /\ Pending' /\ (Running' => Running)
      BY <1>1, <1>4, NitroFacts DEF Accept, Lifetimes, Reading, Running, Pending
    <2> QED BY <1>1, <2>1, <2>2, NitroQuiet
  <1> QED BY <1>3, <1>4

\* load_state: the enclave begins with the state of the file.
LEMMA LoadStep ==
  ASSUME NInv, LoadState
  PROVE  NInv'
  <1>1. /\ UNCHANGED <<cs, resp, signed, file, stream, lost, configs, helper, hostState, linked, stop>>
        /\ pc = "loading" /\ pc' = "connect" /\ state' = hostState
        /\ stream = <<>> /\ hostState = file /\ file \in ConsensusStates
    BY NitroFacts DEF LoadState, syncVars, hostVars, Lifetimes
  <1>2. InOrder' /\ Ahead'
    <2>1. file' = LoadedState
      BY <1>1, EnclaveFileAssumption DEF LoadedState
    <2> QED BY <1>1, <2>1, NitroFacts, OrderLoad DEF Lifetimes
  <1>3. TypeOK'
    BY <1>1, <1>2, NitroFacts DEF TypeOK, InOrder
  <1> QED BY <1>1, <1>2, <1>3, NitroFacts DEF NInv, Lifetimes, Reading, Running, Pending

\* The enclave ends; the stream stays for the helper to read.
LEMMA EnclaveStopStep ==
  ASSUME NInv, EnclaveStop
  PROVE  NInv'
  <1>1. /\ UNCHANGED <<signed, file, stream, lost, helper, hostState, stop>>
        /\ pc' = "off" /\ linked' = FALSE /\ configs' = 0
        /\ state' = InitialState /\ cs' = InitialState /\ resp' = "none"
    BY DEF EnclaveStop, Off, syncVars
  <1>2. InOrder'
    BY <1>1, NitroFacts, OrderQuiet, InitialStateType DEF Responses
  <1>3. TypeOK'
    <2>1. 0 \in 0 .. MaxConfigs
      BY ConfigsAssumption
    <2> QED BY <1>1, <1>2, <2>1, NitroFacts DEF TypeOK, InOrder
  <1> QED BY <1>1, <1>2, <1>3, NitroFacts DEF NInv, Lifetimes, Reading, Running, Pending

\* The session: requests, its connections, and what it sends.
LEMMA SessionSteps ==
  ASSUME NInv, SessionStep \/ Send \/ SendUnread \/ SendError
  PROVE  NInv'
  <1>1. UNCHANGED hostVars /\ file' = file
    BY DEF SessionStep, GetConnection, ResetConnection, Send, SendState, SendUnread, SendError,
           syncVars
  <1>2. UNCHANGED <<configs, helper, hostState, linked, stop>>
    BY <1>1 DEF hostVars
  <1>3. Running
    BY DEF Running, SessionStep, GetConnection, ResetConnection, Send, SendState, SendUnread,
           SendError, HandleRequest, ReadError, WrongChain, TooHigh, Regressed, Refuse, Admit,
           ReplyPing, ShowPublicKey, Sign, SignableError, Respond, RespondError
  <1>4. file \in ConsensusStates /\ Ahead
    BY <1>3, NitroFacts DEF Lifetimes
  <1>5. InOrder' /\ Ahead' /\ Pending' /\ Running' /\ (Reading \/ stream' = stream)
    <2>1. CASE HandleRequest /\ UNCHANGED syncVars
      <3>1. /\ InOrder' /\ Ahead' /\ Pending'
            /\ pc' \in {"read", "persist", "respond", "failed"}
        BY <1>4, <2>1, NitroFacts, OrderHandleRequest
      <3> QED BY <2>1, <3>1 DEF Running, syncVars
    <2>2. CASE GetConnection \/ ResetConnection
      <3>1. InOrder' /\ Ahead'
        BY <1>4, <2>2, NitroFacts, OrderQuiet DEF GetConnection, ResetConnection, syncVars
      <3> QED BY <2>2, <3>1 DEF GetConnection, ResetConnection, syncVars, Running, Pending
    <2>3. CASE Send
      <3>1. InOrder' /\ Ahead'
        BY <1>4, <2>3, NitroFacts, OrderSend DEF Send, SendState, Pending
      <3> QED BY <2>3, <3>1 DEF Send, SendState, Persisted, Running, Pending
    <2>4. CASE SendUnread
      <3>1. /\ UNCHANGED <<cs, resp, signed, file, stream>> /\ lost' = TRUE
            /\ state' = cs /\ pc = "persist" /\ pc' = "sign"
        BY <2>4 DEF SendUnread, Persisted
      <3>2. Accepted(state, cs) /\ cs \in ConsensusStates /\ state \in ConsensusStates
        BY <3>1, NitroFacts DEF Pending
      <3>3. \A i \in DOMAIN stream : stream[i] \in ConsensusStates
        BY NitroFacts DEF InOrder, SyncTypeOK
      <3>4. Ahead'
        BY <1>4, <3>1, <3>2, <3>3, FollowsAccepted DEF Ahead
      <3>5. InOrder'
        BY <3>1, <3>2, NitroFacts
        DEF InOrder, SyncTypeOK, InFlightInOrder, NewestCoversSigned, NoDoubleSignUnlessLost
      <3> QED BY <3>1, <3>4, <3>5 DEF Running, Pending
    <2>5. CASE SendError
      <3>1. InOrder' /\ Ahead'
        BY <1>4, <2>5, NitroFacts, OrderQuiet, InitialStateType
        DEF SendError, PersistFailed, Fail, syncVars, Responses
      <3> QED BY <2>5, <3>1 DEF SendError, PersistFailed, Fail, syncVars, Running, Pending
    <2> QED BY <2>1, <2>2, <2>3, <2>4, <2>5 DEF SessionStep
  <1>6. TypeOK'
    BY <1>2, <1>5, NitroFacts DEF TypeOK, InOrder, Running
  <1>7. Lifetimes'
    BY <1>1, <1>2, <1>4, <1>5, NitroFacts, EnclaveFileAssumption
    DEF Lifetimes, Reading, Running
  <1> QED BY <1>5, <1>6, <1>7 DEF NInv

-----------------------------------------------------------------------------
\* A helper starts: it finds the file of the enclave that may still run.
LEMMA HelperStartStep ==
  ASSUME NInv, HelperStart
  PROVE  NInv'
  <1>1. /\ UNCHANGED <<pc, state, cs, resp, signed, stream, lost, configs, linked>>
        /\ helper = "off" /\ helper' = "bound" /\ stop' = FALSE
        /\ hostState' = LoadedState /\ file' = LoadedState /\ stream = <<>>
    BY NitroFacts DEF HelperStart, sessionVars, Lifetimes, Reading
  <1>2. InOrder' /\ file' \in ConsensusStates /\ (file \in ConsensusStates => file' = file)
    BY <1>1, NitroFacts, OrderLoad DEF Lifetimes
  <1>3. Running' => Ahead'
    <2>1. Running' => Running /\ file' = file
      BY <1>1, <1>2, NitroFacts DEF Running, Lifetimes
    <2> QED BY <1>1, <2>1, NitroFacts, OrderQuiet
  <1>4. TypeOK'
    BY <1>1, <1>2, NitroFacts DEF TypeOK, InOrder
  <1>5. Lifetimes' /\ Pending'
    BY <1>1, <1>2, NitroFacts, EnclaveFileAssumption DEF Lifetimes, Reading, Running, Pending
  <1> QED BY <1>2, <1>3, <1>4, <1>5 DEF NInv

\* The steps of the helper that leave the state alone.
LEMMA HelperQuietSteps ==
  ASSUME NInv, PushConfig \/ StartError \/ StopSignal \/ (Poll /\ ~stop)
  PROVE  NInv'
  <1>1. UNCHANGED <<pc, state, cs, resp, signed, file, stream, lost, hostState, linked>>
    BY DEF PushConfig, StartError, StopSignal, Poll, sessionVars, syncVars
  <1>2. SyncTypeOK'
    BY <1>1 DEF NInv, TypeOK, SyncTypeOK
  <1>3. configs' \in 0 .. MaxConfigs
    BY ConfigsAssumption, NitroFacts DEF PushConfig, StartError, StopSignal, Poll, TypeOK
  <1>4. stop' \in BOOLEAN
    BY NitroFacts DEF PushConfig, StartError, StopSignal, Poll, TypeOK
  <1>5. TypeOK' /\ Lifetimes' /\ Pending' /\ (Running' => Running)
    <2>1. CASE PushConfig
      BY <1>1, <1>2, <1>3, <1>4, <2>1, NitroFacts
      DEF PushConfig, TypeOK, Lifetimes, Reading, Running, Pending
    <2>2. CASE StartError
      BY <1>1, <1>2, <1>3, <1>4, <2>2, NitroFacts
      DEF StartError, TypeOK, Lifetimes, Reading, Running, Pending
    <2>3. CASE StopSignal
      BY <1>1, <1>2, <1>3, <1>4, <2>3, NitroFacts
      DEF StopSignal, TypeOK, Lifetimes, Reading, Running, Pending
    <2>4. CASE Poll /\ ~stop
      BY <1>1, <1>2, <1>3, <1>4, <2>4, NitroFacts
      DEF Poll, TypeOK, Lifetimes, Reading, Running, Pending
    <2> QED BY <2>1, <2>2, <2>3, <2>4
  <1> QED BY <1>1, <1>5, NitroQuiet

\* The helper keeps a state it was sent, and writes it to the file or fails to.
LEMMA StoreStep ==
  ASSUME NInv, Store
  PROVE  NInv'
  <1>1. /\ UNCHANGED <<pc, state, cs, resp, signed, configs, linked, stop>>
        /\ helper = "serving" /\ helper' = "polling"
        /\ stream # <<>> /\ hostState' = Head(stream)
        /\ file \in ConsensusStates
    BY NitroFacts DEF Store, StoreNext, StoreFails, sessionVars, Lifetimes
  <1>2. InOrder' /\ file' \in ConsensusStates /\ (Ahead => Ahead')
    BY <1>1, NitroFacts, OrderStore DEF Store
  <1>3. hostState' \in ConsensusStates
    BY <1>1, HeadTailProperties, NitroFacts DEF InOrder, SyncTypeOK
  <1>4. TypeOK'
    BY <1>1, <1>2, <1>3, NitroFacts DEF TypeOK, InOrder
  <1>5. Lifetimes' /\ Pending'
    BY <1>1, <1>2, NitroFacts, EnclaveFileAssumption DEF Lifetimes, Reading, Running, Pending
  <1> QED BY <1>1, <1>2, <1>4, <1>5, NitroFacts DEF NInv, Running

\* The helper's end of the stream is closed, with what it has not read.
LEMMA DropSteps ==
  ASSUME NInv, (Poll /\ stop) \/ HelperExit
  PROVE  NInv'
  <1>1. /\ UNCHANGED <<pc, state, cs, resp, signed, file, configs, hostState, linked, stop>>
        /\ DropStream /\ helper # "off" /\ helper' \in {"off", "finished"}
    BY DEF Poll, HelperExit, sessionVars
  <1>2. InOrder' /\ (Ahead => Ahead') /\ stream' = <<>>
    BY <1>1, NitroFacts, OrderDrop DEF DropStream
  <1>3. TypeOK'
    BY <1>1, <1>2, NitroFacts DEF TypeOK, InOrder
  <1>4. Lifetimes' /\ Pending'
    BY <1>1, <1>2, NitroFacts DEF Lifetimes, Reading, Running, Pending
  <1> QED BY <1>1, <1>2, <1>3, <1>4, NitroFacts DEF NInv, Running

\* Every step of the Nitro signer preserves the invariant.
LEMMA NitroNext == NInv /\ [Next]_vars => NInv'
  <1> SUFFICES ASSUME NInv, [Next]_vars PROVE NInv'
    OBVIOUS
  <1>1. CASE Boot \/ TakeConfig \/ Accept \/ EntryError \/ LinkBreaks
    BY <1>1, EnclaveSteps
  <1>2. CASE LoadState
    BY <1>2, LoadStep
  <1>3. CASE EnclaveStop
    BY <1>3, EnclaveStopStep
  <1>4. CASE SessionStep \/ Send \/ SendUnread \/ SendError
    BY <1>4, SessionSteps
  <1>5. CASE HelperStart
    BY <1>5, HelperStartStep
  <1>6. CASE PushConfig \/ StartError \/ StopSignal
    BY <1>6, HelperQuietSteps
  <1>7. CASE Store
    BY <1>7, StoreStep
  <1>8. CASE Poll
    BY <1>8, HelperQuietSteps, DropSteps
  <1>9. CASE HelperExit
    BY <1>9, DropSteps
  <1>10. CASE UNCHANGED vars
    <2>1. UNCHANGED <<pc, state, cs, resp, signed, file, stream, lost, helper, hostState>>
      BY <1>10 DEF vars
    <2>2. TypeOK' /\ Lifetimes' /\ Pending' /\ (Running' => Running)
      BY <1>10, NitroFacts DEF vars, TypeOK, SyncTypeOK, Lifetimes, Reading, Running, Pending
    <2> QED BY <2>1, <2>2, NitroQuiet
  <1> QED BY <1>1, <1>2, <1>3, <1>4, <1>5, <1>6, <1>7, <1>8, <1>9, <1>10 DEF Next

\* The invariant holds in every reachable state.
LEMMA SpecNInv == Spec => []NInv
  BY NitroInit, NitroNext, PTL DEF Spec

-----------------------------------------------------------------------------
\* The values of the variables stay in their types (TypeOK).
THEOREM NitroTypeCorrect == Spec => []TypeOK
  <1>1. NInv => TypeOK
    BY DEF NInv
  <1> QED BY <1>1, SpecNInv, PTL

\* As long as no update was lost on its way to the file, no two signatures of the
\* enclave's key disagree, whichever of the two programs died in between.
THEOREM NitroDoubleSignsOnlyAfterLoss == Spec => []NoDoubleSignUnlessLost
  <1>1. NInv => NoDoubleSignUnlessLost
    BY DEF NInv, InOrder
  <1> QED BY <1>1, SpecNInv, PTL

\* The stream of a running enclave ends in its own state: the helper that reads
\* it serves no other enclave, and a stream nobody reads is empty.
LEMMA NitroAttached ==
  ASSUME NInv, Running => Attached, [Next]_vars
  PROVE  (Running => Attached)'
  <1> SUFFICES ASSUME Running' PROVE Attached'
    OBVIOUS
  <1>0. stream \in Seq(ConsensusStates) /\ InOrder
    BY NitroFacts DEF InOrder, SyncTypeOK
  <1>1. CASE LoadState
    BY <1>1, NitroFacts DEF LoadState, Lifetimes, syncVars, Attached
  <1>2. CASE Send
    BY <1>0, <1>2, AttachedSent DEF Send
  <1>3. CASE SendUnread
    BY <1>3, NitroFacts DEF SendUnread, Lifetimes, Attached
  <1>4. CASE HandleRequest /\ UNCHANGED syncVars
    <2>1. Running
      BY <1>4 DEF Running, HandleRequest, ReadError, WrongChain, TooHigh, Regressed, Refuse, Admit,
                  ReplyPing, ShowPublicKey, Sign, SignableError, Respond, RespondError
    <2> QED BY <1>0, <1>4, <2>1, AttachedHandleRequest
  <1>5. CASE GetConnection \/ ResetConnection \/ SendError
    <2>1. Running /\ UNCHANGED <<state, stream>>
      BY <1>5 DEF GetConnection, ResetConnection, SendError, PersistFailed, Fail, syncVars, Running
    <2> QED BY <1>0, <2>1, AttachedKept
  <1>6. CASE Boot \/ TakeConfig \/ Accept \/ EntryError \/ EnclaveStop
    BY <1>6 DEF Boot, TakeConfig, Accept, EntryError, EnclaveStop, Off, Running
  <1>7. CASE LinkBreaks \/ HelperStart \/ PushConfig \/ StartError \/ StopSignal \/ UNCHANGED vars
    <2>1. UNCHANGED <<pc, state, stream>>
      BY <1>7 DEF LinkBreaks, HelperStart, PushConfig, StartError, StopSignal, vars, sessionVars,
                  syncVars
    <2> QED BY <1>0, <2>1, AttachedKept DEF Running
  <1>8. CASE Store \/ Poll \/ HelperExit
    <2>1. /\ UNCHANGED <<pc, state>>
          /\ \/ stream' = stream
             \/ stream' = <<>>
             \/ stream # <<>> /\ stream' = Tail(stream)
      BY <1>8 DEF Store, StoreNext, StoreFails, Poll, HelperExit, DropStream, sessionVars
    <2> QED BY <1>0, <2>1, AttachedKept DEF Running
  <1> QED BY <1>1, <1>2, <1>3, <1>4, <1>5, <1>6, <1>7, <1>8 DEF Next, SessionStep

\* No late configuration, second connection, restarted helper or failed write
\* gives a running enclave another state than the newest on its way to the file.
THEOREM NitroEnclaveHoldsNewest == Spec => []EnclaveHoldsNewest
  <1>1. Init => (Running => Attached)
    BY DEF Init, SessionInit, Running
  <1>2. NInv /\ (Running => Attached) /\ [Next]_vars => (Running => Attached)'
    BY NitroAttached
  <1>3. NInv /\ (Running => Attached) => EnclaveHoldsNewest
    BY DEF NInv, TypeOK, Running, Ahead, Attached, Newest, EnclaveHoldsNewest
  <1> QED BY <1>1, <1>2, <1>3, SpecNInv, PTL DEF Spec

\* Updates are in flight in the order of the checks, losses or not.
THEOREM NitroUpdatesInOrder == Spec => []InFlightInOrder
  <1>1. NInv => InFlightInOrder
    BY DEF NInv, InOrder
  <1> QED BY <1>1, SpecNInv, PTL

\* The helper's file never goes back, losses and restarts included.
THEOREM NitroFileAdvances == Spec => FileOnlyAdvances
  <1>1. ASSUME NInv, [Next]_vars, file \in ConsensusStates, file' # file
        PROVE  file' \in ConsensusStates /\ NotAfter(file, file')
    <2>1. Store
      BY <1>1, EnclaveFileAssumption
      DEF Next, vars, syncVars, Boot, TakeConfig, Accept, LoadState, EntryError, EnclaveStop,
          SessionStep, GetConnection, ResetConnection, Send, SendState, SendUnread, SendError,
          LinkBreaks, HelperStart, LoadedState, PushConfig, StartError, Poll, StopSignal, HelperExit
    <2>2. /\ stream \in Seq(ConsensusStates) /\ stream # <<>>
          /\ file' = Head(stream) /\ stream' = Tail(stream)
      BY <1>1, <2>1 DEF Store, StoreNext, StoreFails, NInv, InOrder, SyncTypeOK
    <2>3. 1 \in DOMAIN stream /\ Head(stream) = stream[1]
      BY <2>2, TailOf
    <2>4. Follows(file, file')
      BY <1>1, <2>2, <2>3 DEF NInv, InOrder, InFlightInOrder
    <2>5. file' \in ConsensusStates
      BY <2>2, HeadTailProperties
    <2> QED BY <2>4, <2>5 DEF Follows
  <1>2. NInv /\ [Next]_vars =>
          [(file \in ConsensusStates) =>
             file' \in ConsensusStates /\ NotAfter(file, file')]_file
    BY <1>1
  <1> QED BY <1>2, SpecNInv, PTL DEF Spec, FileOnlyAdvances

\* Enclave and helper implement the abstract specification: a step uses the key
\* for a state that follows all signed ones, or loses track for good.
THEOREM NitroImplementsGuard == Spec => GuardSpec
  <1>1. Init => Guard!Init
    BY DEF Init, SessionInit, SyncInit, Guard!Init
  <1>2. NInv /\ [Next]_vars => [Guard!Next]_Guard!guardVars
    <2> SUFFICES ASSUME NInv, [Next]_vars PROVE Guard!Next \/ UNCHANGED <<signed, lost>>
      BY DEF Guard!guardVars
    <2>1. CASE Sign /\ UNCHANGED syncVars
      <3>1. cs \in ConsensusStates /\ signed' = signed \cup {cs} /\ lost' = lost
        BY <2>1, NitroFacts DEF Sign, syncVars
      <3>2. lost \/ \A s \in signed : Follows(s, cs)
        BY <2>1 DEF Sign, NInv, Running, Pending, Ahead, InOrder, NewestCoversSigned
      <3>3. Guard!Sign(cs)
        BY <3>1, <3>2 DEF Guard!Sign, Guard!Follows, Guard!NotAfter, Guard!Conflict, Guard!Flip,
            Guard!SameHRS, Guard!SameRound, Follows, NotAfter, Conflict, Flip, SameHRS, SameRound
      <3> QED BY <3>1, <3>3 DEF Guard!Next, Guard!ConsensusStates, Guard!Step, ConsensusStates, Step
    <2>2. CASE HandleRequest /\ ~Sign /\ UNCHANGED syncVars
      BY <2>2 DEF syncVars, HandleRequest, ReadError, WrongChain, TooHigh, Regressed, Refuse, Admit,
                  ReplyPing, ShowPublicKey, SignableError, Respond, RespondError, Fail, Answer
    <2>3. CASE Store \/ SendUnread
      BY <2>3 DEF Store, StoreNext, StoreFails, SendUnread, Persisted, sessionVars,
                  Guard!Next, Guard!Lose
    <2>4. CASE Poll \/ HelperExit
      <3>1. signed' = signed /\ (lost' = TRUE \/ lost' = lost)
        BY <2>4, NitroFacts DEF Poll, HelperExit, DropStream, sessionVars
      <3> QED BY <3>1 DEF Guard!Next, Guard!Lose
    <2>5. CASE Boot \/ TakeConfig \/ Accept \/ LoadState \/ EntryError \/ EnclaveStop \/ Send
               \/ SendError \/ LinkBreaks \/ HelperStart \/ PushConfig \/ StartError \/ StopSignal
               \/ GetConnection \/ ResetConnection
      BY <2>5 DEF Boot, TakeConfig, Accept, LoadState, EntryError, EnclaveStop, Off, Send, SendState,
                  Persisted, SendError, PersistFailed, Fail, LinkBreaks, HelperStart, PushConfig,
                  StartError, StopSignal, GetConnection, ResetConnection, syncVars, sessionVars
    <2>6. CASE UNCHANGED vars
      BY <2>6 DEF vars
    <2> QED BY <2>1, <2>2, <2>3, <2>4, <2>5, <2>6 DEF Next, SessionStep
  <1> QED BY <1>1, <1>2, SpecNInv, PTL DEF Spec, GuardSpec, Guard!Spec
=============================================================================
