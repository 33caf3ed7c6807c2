---------------------------- MODULE SgxSyncProofs ----------------------------
(* The SGX signer does not double sign unless an update was lost, and keeps its *)
(* updates in order even then, for every set of heights, rounds, blocks and     *)
(* requests and every capacity of the stream.                                    *)
EXTENDS SgxSync, EnclaveSyncProofs

\* Where the parts of the process are while it runs and after it has ended.
Layout ==
  /\ pc = "off" => stream = <<>>
  /\ pc # "off" => file \in ConsensusStates
  /\ file = NoFile => signed = {}

EnclaveAhead == pc # "off" => Ahead

SInv ==
  /\ TypeOK
  /\ Layout
  /\ Pending
  /\ EnclaveAhead
  /\ InOrder

-----------------------------------------------------------------------------
\* The invariant holds before the first start: no file, nothing in flight.
LEMMA SgxInit == Init => SInv
  <1> SUFFICES ASSUME Init PROVE SInv
    OBVIOUS
  <1>1. TypeOK
    <2>1. Len(stream) <= MaxInFlight /\ stream \in Seq(ConsensusStates)
      <3>1. stream = <<>>
        BY DEF Init, SyncInit
      <3> QED BY <3>1, InFlightAssumption, EmptyStream
    <2> QED BY <2>1, InitialStateType
        DEF Init, SessionInit, SyncInit, TypeOK, SyncTypeOK, Responses
  <1>2. InFlightInOrder
    BY EnclaveFileAssumption DEF Init, SyncInit, InFlightInOrder
  <1> QED BY <1>1, <1>2
      DEF Init, SessionInit, SyncInit, TypeOK, SInv, Layout, Pending, EnclaveAhead,
          InOrder, NewestCoversSigned, NoDoubleSignUnlessLost

\* Every step of the SGX signer preserves the invariant.
LEMMA SgxNext == SInv /\ [Next]_vars => SInv'
  <1> SUFFICES ASSUME SInv, [Next]_vars PROVE SInv'
    OBVIOUS
  <1>0. /\ InOrder /\ Layout /\ Pending /\ (pc # "off" => Ahead) /\ TypeOK
        /\ state \in ConsensusStates /\ cs \in ConsensusStates /\ resp \in Responses
    BY DEF SInv, EnclaveAhead, InOrder, SyncTypeOK
  <1>1. CASE Start
    <2>1. InOrder' /\ file' \in ConsensusStates /\ Ahead'
      BY <1>0, <1>1, OrderLoad, InitialStateType
      DEF Start, Layout, LoadedState, InOrder, SyncTypeOK
    <2> QED BY <1>0, <1>1, <2>1, EnclaveFileAssumption
        DEF Start, SInv, TypeOK, InOrder, Layout, Pending, EnclaveAhead
  <1>2. CASE (GetConnection \/ ResetConnection) /\ UNCHANGED torn
    <2>1. InOrder' /\ Ahead'
      BY <1>0, <1>2, OrderQuiet DEF GetConnection, ResetConnection, syncVars
    <2> QED BY <1>0, <1>2, <2>1
        DEF GetConnection, ResetConnection, syncVars, SInv, TypeOK, InOrder, Layout, Pending,
            EnclaveAhead
  <1>3. CASE HandleRequest /\ UNCHANGED syncVars /\ UNCHANGED torn
    <2>1. pc # "off"
      BY <1>3 DEF HandleRequest, ReadError, WrongChain, TooHigh, Regressed, Refuse, Admit,
                  ReplyPing, ShowPublicKey, Sign, SignableError, Respond, RespondError
    <2>2. /\ InOrder' /\ Ahead' /\ Pending'
          /\ pc' \in {"read", "persist", "respond", "failed"}
      BY <1>0, <1>3, <2>1, OrderHandleRequest
    <2> QED BY <1>0, <1>3, <2>1, <2>2, EnclaveFileAssumption
        DEF syncVars, SInv, TypeOK, InOrder, Layout, EnclaveAhead
  <1>4. CASE Send
    <2>1. InOrder' /\ Ahead' /\ pc # "off" /\ pc' = "sign" /\ state' = cs'
      BY <1>0, <1>4, OrderSend DEF Send, SendState, Persisted, Layout, Pending
    <2> QED BY <1>0, <1>4, <2>1, EnclaveFileAssumption
        DEF Send, SendState, SInv, TypeOK, InOrder, Layout, Pending, EnclaveAhead
  <1>5. CASE Store \/ StoreError
    <2>1. pc # "off" /\ pc' = pc /\ UNCHANGED <<state, cs, torn>>
      BY <1>5 DEF Store, StoreError, sessionVars
    <2>2. InOrder' /\ file' \in ConsensusStates /\ Ahead'
      BY <1>0, <1>5, <2>1, OrderStore DEF Store, StoreError, Layout
    <2> QED BY <1>0, <2>1, <2>2, EnclaveFileAssumption
        DEF SInv, TypeOK, InOrder, Layout, Pending, EnclaveAhead
  <1>6. CASE Exit
    <2>1. InOrder'
      BY <1>6, <1>0, OrderDrop, InitialStateType DEF Exit, Off, Responses
    <2> QED BY <1>0, <1>6, <2>1
        DEF Exit, Off, DropStream, SInv, TypeOK, InOrder, Layout, Pending, EnclaveAhead
  <1>7. CASE SendError
    <2>1. InOrder' /\ Ahead'
      BY <1>0, <1>7, OrderQuiet, InitialStateType
      DEF SendError, PersistFailed, Fail, syncVars, Responses
    <2>2. torn' \in BOOLEAN
      BY <1>0, <1>7 DEF SendError, TypeOK
    <2> QED BY <1>0, <1>7, <2>1, <2>2
        DEF SendError, PersistFailed, Fail, syncVars, SInv, TypeOK, InOrder, Layout, Pending,
            EnclaveAhead
  <1>8. CASE UNCHANGED vars
    <2>1. InOrder' /\ (Ahead => Ahead')
      BY <1>0, <1>8, OrderQuiet DEF vars
    <2> QED BY <1>0, <1>8, <2>1
        DEF vars, SInv, TypeOK, InOrder, Layout, Pending, EnclaveAhead
  <1>9. CASE SendSwallowed
    <2>1. /\ UNCHANGED <<cs, resp, signed, file, stream, torn>> /\ lost' = TRUE
          /\ state' = cs /\ pc = "persist" /\ pc' = "sign"
      BY <1>9 DEF SendSwallowed, Persisted
    <2>2. Accepted(state, cs) /\ Ahead
      BY <1>0, <2>1 DEF Pending
    <2>3. \A i \in DOMAIN stream : stream[i] \in ConsensusStates
      BY <1>0 DEF InOrder, SyncTypeOK
    <2>4. file \in ConsensusStates
      BY <1>0, <2>1 DEF Layout
    <2>5. Ahead'
      BY <1>0, <2>1, <2>2, <2>3, <2>4, FollowsAccepted DEF Ahead
    <2>6. InOrder'
      BY <1>0, <2>1
      DEF InOrder, SyncTypeOK, InFlightInOrder, NewestCoversSigned, NoDoubleSignUnlessLost
    <2> QED BY <1>0, <2>1, <2>4, <2>5, <2>6, EnclaveFileAssumption
        DEF SInv, TypeOK, InOrder, Layout, Pending, EnclaveAhead
  <1> QED BY <1>1, <1>2, <1>3, <1>4, <1>5, <1>6, <1>7, <1>8, <1>9 DEF Next, SessionStep

\* The invariant holds in every reachable state.
LEMMA SpecSInv == Spec => []SInv
  BY SgxInit, SgxNext, PTL DEF Spec

-----------------------------------------------------------------------------
\* The values of the variables stay in their types (TypeOK).
THEOREM SgxTypeCorrect == Spec => []TypeOK
  <1>1. SInv => TypeOK
    BY DEF SInv, InOrder
  <1> QED BY <1>1, SpecSInv, PTL

\* As long as no update was lost with a process or by a failed write, no two
\* signatures of the enclave's key disagree, across connections and restarts.
THEOREM SgxDoubleSignsOnlyAfterLoss == Spec => []NoDoubleSignUnlessLost
  <1>1. SInv => NoDoubleSignUnlessLost
    BY DEF SInv, InOrder
  <1> QED BY <1>1, SpecSInv, PTL

\* The newest update, stored or in flight, follows every signature.
THEOREM SgxUpdatesAheadOfKey == Spec => []NewestCoversSigned
  <1>1. SInv => NewestCoversSigned
    BY DEF SInv, InOrder
  <1> QED BY <1>1, SpecSInv, PTL

\* The stream of an enclave with no partial frame in it ends in its own state.
LEMMA SgxAttached ==
  ASSUME SInv, pc # "off" /\ ~torn => Attached, [Next]_vars
  PROVE  (pc # "off" /\ ~torn => Attached)'
  <1> SUFFICES ASSUME pc' # "off", ~torn' PROVE Attached'
    OBVIOUS
  <1>0. stream \in Seq(ConsensusStates) /\ InOrder /\ (pc = "off" => stream = <<>>)
    BY DEF SInv, Layout, InOrder, SyncTypeOK
  <1>1. CASE Start
    BY <1>0, <1>1 DEF Start, Attached
  <1>2. CASE Send
    BY <1>0, <1>2, AttachedSent DEF Send
  <1>3. CASE HandleRequest /\ UNCHANGED syncVars /\ UNCHANGED torn
    <2>1. pc # "off"
      BY <1>3 DEF HandleRequest, ReadError, WrongChain, TooHigh, Regressed, Refuse, Admit,
                  ReplyPing, ShowPublicKey, Sign, SignableError, Respond, RespondError
    <2> QED BY <1>0, <1>3, <2>1, AttachedHandleRequest
  <1>4. CASE (GetConnection \/ ResetConnection) /\ UNCHANGED torn
    <2>1. pc # "off" /\ UNCHANGED <<state, stream>>
      BY <1>4 DEF GetConnection, ResetConnection, syncVars
    <2> QED BY <1>0, <1>4, <2>1, AttachedKept
  <1>5. CASE SendError
    <2>1. pc # "off" /\ UNCHANGED <<state, stream>>
      BY <1>5 DEF SendError, PersistFailed, Fail, syncVars
    <2>2. torn' = torn \/ torn' = TRUE
      BY <1>5 DEF SendError
    <2>3. ~torn
      BY <2>2, Zenon
    <2> QED BY <1>0, <2>1, <2>3, AttachedKept
  <1>6. CASE Store \/ StoreError
    <2>1. /\ pc # "off" /\ UNCHANGED <<state, torn>>
          /\ stream # <<>> /\ stream' = Tail(stream)
      BY <1>6 DEF Store, StoreError, StoreNext, StoreFails, sessionVars
    <2> QED BY <1>0, <2>1, AttachedKept
  <1>7. CASE SendSwallowed \/ Exit
    BY <1>7 DEF SendSwallowed, Exit, Off
  <1>8. CASE UNCHANGED vars
    BY <1>0, <1>8, AttachedKept DEF vars
  <1> QED BY <1>1, <1>2, <1>3, <1>4, <1>5, <1>6, <1>7, <1>8 DEF Next, SessionStep

\* A running enclave signs from the newest state on its way to the file, failed
\* sends and failed writes included, unless a partial frame swallows its updates.
THEOREM SgxEnclaveHoldsNewest == Spec => []EnclaveHoldsNewest
  <1>1. Init => (pc # "off" /\ ~torn => Attached)
    BY DEF Init, SessionInit
  <1>2. SInv /\ (pc # "off" /\ ~torn => Attached) /\ [Next]_vars
          => (pc # "off" /\ ~torn => Attached)'
    BY SgxAttached
  <1>3. SInv /\ (pc # "off" /\ ~torn => Attached) => EnclaveHoldsNewest
    BY DEF SInv, TypeOK, EnclaveAhead, Ahead, Attached, Newest, EnclaveHoldsNewest
  <1> QED BY <1>1, <1>2, <1>3, SpecSInv, PTL DEF Spec

\* Updates are in flight in the order of the checks, losses or not.
THEOREM SgxUpdatesInOrder == Spec => []InFlightInOrder
  <1>1. SInv => InFlightInOrder
    BY DEF SInv, InOrder
  <1> QED BY <1>1, SpecSInv, PTL

\* The file of the runner never goes back, losses and restarts included.
THEOREM SgxFileAdvances == Spec => FileOnlyAdvances
  <1>1. ASSUME SInv, [Next]_vars, file \in ConsensusStates, file' # file
        PROVE  file' \in ConsensusStates /\ NotAfter(file, file')
    <2>1. Store
      BY <1>1, EnclaveFileAssumption
      DEF Next, vars, syncVars, Start, LoadedState, SessionStep, GetConnection, ResetConnection,
          Send, SendState, SendError, SendSwallowed, StoreError, StoreFails, Exit
    <2>2. /\ stream \in Seq(ConsensusStates) /\ stream # <<>>
          /\ file' = Head(stream) /\ stream' = Tail(stream)
      BY <1>1, <2>1 DEF Store, StoreNext, SInv, InOrder, SyncTypeOK
    <2>3. 1 \in DOMAIN stream /\ Head(stream) = stream[1]
      BY <2>2, TailOf
    <2>4. Follows(file, file')
      BY <1>1, <2>2, <2>3 DEF SInv, InOrder, InFlightInOrder
    <2>5. file' \in ConsensusStates
      BY <2>2, HeadTailProperties
    <2> QED BY <2>4, <2>5 DEF Follows
  <1>2. SInv /\ [Next]_vars =>
          [(file \in ConsensusStates) =>
             file' \in ConsensusStates /\ NotAfter(file, file')]_file
    BY <1>1
  <1> QED BY <1>2, SpecSInv, PTL DEF Spec, FileOnlyAdvances

\* Enclave and runner implement the abstract specification: a step uses the key
\* for a state that follows all signed ones, or loses track for good.
THEOREM SgxImplementsGuard == Spec => GuardSpec
  <1>1. Init => Guard!Init
    BY DEF Init, SessionInit, SyncInit, Guard!Init
  <1>2. SInv /\ [Next]_vars => [Guard!Next]_Guard!guardVars
    <2> SUFFICES ASSUME SInv, [Next]_vars PROVE Guard!Next \/ UNCHANGED <<signed, lost>>
      BY DEF Guard!guardVars
    <2>1. CASE Sign /\ UNCHANGED syncVars
      <3>1. cs \in ConsensusStates /\ signed' = signed \cup {cs} /\ lost' = lost
        BY <2>1 DEF Sign, syncVars, SInv, InOrder, SyncTypeOK
      <3>2. lost \/ \A s \in signed : Follows(s, cs)
        BY <2>1 DEF Sign, SInv, Pending, EnclaveAhead, Ahead, InOrder, NewestCoversSigned
      <3>3. Guard!Sign(cs)
        BY <3>1, <3>2 DEF Guard!Sign, Guard!Follows, Guard!NotAfter, Guard!Conflict, Guard!Flip,
            Guard!SameHRS, Guard!SameRound, Follows, NotAfter, Conflict, Flip, SameHRS, SameRound
      <3> QED BY <3>1, <3>3 DEF Guard!Next, Guard!ConsensusStates, Guard!Step, ConsensusStates, Step
    <2>2. CASE HandleRequest /\ ~Sign /\ UNCHANGED syncVars
      BY <2>2 DEF syncVars, HandleRequest, ReadError, WrongChain, TooHigh, Regressed, Refuse, Admit,
                  ReplyPing, ShowPublicKey, SignableError, Respond, RespondError, Fail, Answer
    <2>3. CASE StoreError \/ SendSwallowed
      BY <2>3 DEF StoreError, StoreFails, SendSwallowed, Persisted, sessionVars, Guard!Next, Guard!Lose
    <2>4. CASE Exit
      <3>1. signed' = signed /\ (lost' = TRUE \/ lost' = lost)
        BY <2>4 DEF Exit, Off, DropStream, SInv, InOrder, SyncTypeOK
      <3> QED BY <3>1 DEF Guard!Next, Guard!Lose
    <2>5. CASE Start \/ GetConnection \/ ResetConnection \/ Send \/ SendError \/ Store
      BY <2>5 DEF Start, GetConnection, ResetConnection, Send, SendState, Persisted, SendError,
                  PersistFailed, Fail, Store, StoreNext, syncVars, sessionVars
    <2>6. CASE UNCHANGED vars
      BY <2>6 DEF vars
    <2> QED BY <2>1, <2>2, <2>3, <2>4, <2>5, <2>6 DEF Next, SessionStep
  <1> QED BY <1>1, <1>2, SpecSInv, PTL DEF Spec, GuardSpec, Guard!Spec
=============================================================================
