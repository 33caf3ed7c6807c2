--------------------------- MODULE SoftSignProofs ---------------------------
(* SoftSign never double signs, for every set of heights, rounds, blocks and   *)
(* requests.  The invariants of the runs are not inductive by themselves:      *)
(* what carries the argument is that the memory of a running signer equals     *)
(* its file, that the request between check and rename was accepted against    *)
(* that memory, and that the file follows every signature made.                *)
EXTENDS SoftSign, ConsensusStateProofs

\* A running process works from the state its file holds.
MemoryIsFile == pc # "off" => file \in ConsensusStates /\ state = file

\* The request that is being persisted passed check_consensus_state.
PendingAccepted == pc \in {"persist", "rename"} => Accepted(state, cs)

\* The key is used for the state that was persisted last.
SignsState == pc = "sign" => state = cs

IInv ==
  /\ TypeOK
  /\ MemoryIsFile
  /\ PendingAccepted
  /\ SignsState
  /\ FileCoversSigned
  /\ NoDoubleSign
  /\ NoFlip

-----------------------------------------------------------------------------
\* A request is turned into a consensus state of the model.
LEMMA RequestStateType ==
  ASSUME NEW r \in SignRequests
  PROVE  RequestState(r) \in ConsensusStates
  BY RequestAssumption DEF RequestState, ConsensusStates, StepOf, Step

-----------------------------------------------------------------------------
\* Init and the steps of one action each.

\* The invariant holds before the first start.
LEMMA InitIInv == Init => IInv
  BY InitialStateType
  DEF Init, SessionInit, IInv, TypeOK, Locations, Responses, MemoryIsFile,
      PendingAccepted, SignsState, FileCoversSigned, NoDoubleSign, NoFlip

\* A step that ends the process or the request loop, or answers, leaves what was
\* signed and the file alone.
LEMMA QuietStep ==
  ASSUME IInv,
         UNCHANGED <<signed, file>>,
         pc' \in {"off", "failed", "read", "respond"},
         pc' # "off" => pc # "off" /\ UNCHANGED state,
         state' \in ConsensusStates, cs' \in ConsensusStates, resp' \in Responses
  PROVE  IInv'
  BY DEF IInv, TypeOK, Locations, MemoryIsFile, PendingAccepted, SignsState,
         FileCoversSigned, NoDoubleSign, NoFlip

\* check_consensus_state accepts a request: it becomes the pending one.
LEMMA AdmitIInv ==
  ASSUME IInv, NEW r \in SignRequests, Admit(r), UNCHANGED file
  PROVE  IInv'
  BY RequestStateType
  DEF Admit, IInv, TypeOK, Locations, MemoryIsFile, PendingAccepted, SignsState,
      FileCoversSigned, NoDoubleSign, NoFlip

\* The key is used for the state in the file, which follows all signatures.
LEMMA SignIInv ==
  ASSUME IInv, Sign, UNCHANGED file
  PROVE  IInv'
  <1>1. cs = file /\ file \in ConsensusStates
    BY DEF IInv, Sign, MemoryIsFile, SignsState
  <1>2. \A s \in signed : Follows(s, cs)
    BY <1>1 DEF IInv, FileCoversSigned
  <1>3. Follows(cs, cs)
    BY <1>1, FollowsItself
  <1>4. \A s \in signed : Follows(s, cs) => ~Conflict(s, cs) /\ ~Conflict(cs, s) /\ ~Flip(s, cs)
    BY DEF Follows, Conflict, SameHRS, SameRound
  <1>5. \A s \in signed : ~Flip(cs, s)
    <2> SUFFICES ASSUME NEW s \in signed PROVE ~Flip(cs, s)
      OBVIOUS
    <2>1. s \in ConsensusStates
      BY DEF IInv, TypeOK
    <2>2. NotAfter(s, cs)
      BY <1>2 DEF Follows
    <2> QED BY <1>1, <2>1, <2>2, FieldTypes DEF NotAfter, Flip, SameRound
  <1>6. NoDoubleSign' /\ NoFlip'
    BY <1>2, <1>3, <1>4, <1>5 DEF Sign, IInv, NoDoubleSign, NoFlip, Follows
  <1>7. FileCoversSigned'
    BY <1>1, <1>2, <1>3 DEF Sign, FileCoversSigned
  <1>8. TypeOK'
    BY DEF Sign, IInv, TypeOK, Locations, Responses
  <1> QED BY <1>6, <1>7, <1>8 DEF Sign, IInv, MemoryIsFile, PendingAccepted, SignsState

\* The rename replaces the file by the pending state, which follows what the
\* file followed.
LEMMA RenameIInv ==
  ASSUME IInv, Rename
  PROVE  IInv'
  <1>1. /\ cs \in ConsensusStates
        /\ file \in ConsensusStates
        /\ Accepted(file, cs)
        /\ signed \subseteq ConsensusStates
    BY DEF IInv, TypeOK, Rename, MemoryIsFile, PendingAccepted
  <1>2. \A s \in signed : Follows(s, cs)
    BY <1>1, FollowsAccepted DEF IInv, FileCoversSigned
  <1> QED BY <1>1, <1>2
      DEF Rename, Persisted, IInv, TypeOK, Locations, MemoryIsFile, PendingAccepted,
          SignsState, FileCoversSigned, NoDoubleSign, NoFlip

\* The steps of handle_request that belong to every provider.
LEMMA HandleRequestIInv ==
  ASSUME IInv, HandleRequest, UNCHANGED file
  PROVE  IInv'
  <1>1. CASE ReadError \/ SignableError \/ RespondError
    BY <1>1, QuietStep, InitialStateType
    DEF ReadError, SignableError, RespondError, Fail, IInv, TypeOK, Responses
  <1>2. CASE \E r \in SignRequests : WrongChain(r) \/ TooHigh(r) \/ Regressed(r) \/ Refuse(r)
    BY <1>2, QuietStep, InitialStateType
    DEF WrongChain, TooHigh, Regressed, Refuse, Answer, Fail, IInv, TypeOK, Responses
  <1>3. CASE \E r \in SignRequests : Admit(r)
    BY <1>3, AdmitIInv
  <1>4. CASE ReplyPing \/ (\E c \in Chains : ShowPublicKey(c))
    BY <1>4, QuietStep DEF ReplyPing, ShowPublicKey, Answer, IInv, TypeOK, Responses
  <1>5. CASE Sign
    BY <1>5, SignIInv
  <1>6. CASE Respond
    BY <1>6, QuietStep, InitialStateType DEF Respond, IInv, TypeOK, Responses
  <1> QED BY <1>1, <1>2, <1>3, <1>4, <1>5, <1>6 DEF HandleRequest

\* Every step of the software signer preserves the invariant.
LEMMA NextIInv == IInv /\ [Next]_vars => IInv'
  <1> SUFFICES ASSUME IInv, [Next]_vars PROVE IInv'
    OBVIOUS
  <1>1. CASE Start
    BY <1>1 DEF Start, IInv, TypeOK, Locations, MemoryIsFile, PendingAccepted,
                SignsState, FileCoversSigned, NoDoubleSign, NoFlip
  <1>2. CASE StartFresh
    <2>1. signed = {}
      BY <1>2, FileAssumption DEF StartFresh, IInv, FileCoversSigned
    <2> QED BY <1>2, <2>1, InitialStateType
        DEF StartFresh, IInv, TypeOK, Locations, MemoryIsFile, PendingAccepted,
            SignsState, FileCoversSigned, NoDoubleSign, NoFlip
  <1>3. CASE Connect
    BY <1>3, QuietStep DEF Connect, IInv, TypeOK
  <1>4. CASE ConnectPanic \/ Panic \/ Kill
    BY <1>4, QuietStep, InitialStateType
    DEF ConnectPanic, Panic, Kill, Off, Responses
  <1>5. CASE HandleRequest /\ UNCHANGED file
    BY <1>5, HandleRequestIInv
  <1>6. CASE WriteTemp
    BY <1>6 DEF WriteTemp, IInv, TypeOK, Locations, MemoryIsFile, PendingAccepted,
                SignsState, FileCoversSigned, NoDoubleSign, NoFlip
  <1>7. CASE Rename
    BY <1>7, RenameIInv
  <1>8. CASE PersistError
    BY <1>8, QuietStep, InitialStateType
    DEF PersistError, PersistFailed, Fail, IInv, TypeOK, Responses
  <1>9. CASE UNCHANGED vars
    BY <1>9 DEF vars, IInv, TypeOK, MemoryIsFile, PendingAccepted,
                SignsState, FileCoversSigned, NoDoubleSign, NoFlip
  <1> QED BY <1>1, <1>2, <1>3, <1>4, <1>5, <1>6, <1>7, <1>8, <1>9 DEF Next

\* The invariant holds in every reachable state.
LEMMA SpecIInv == Spec => []IInv
  BY InitIInv, NextIInv, PTL DEF Spec

-----------------------------------------------------------------------------
\* The values of the variables stay in their types (TypeOK).
THEOREM TypeCorrect == Spec => []TypeOK
  <1>1. IInv => TypeOK
    BY DEF IInv
  <1> QED BY <1>1, SpecIInv, PTL

\* Whatever the validator asks for and whenever the process dies, no two
\* signatures disagree at one height, round and step.
THEOREM NeverDoubleSigns == Spec => []NoDoubleSign
  <1>1. IInv => NoDoubleSign
    BY DEF IInv
  <1> QED BY <1>1, SpecIInv, PTL

\* No signature for a block is followed, one step later in its round, by one
\* for another block.
THEOREM NeverFlips == Spec => []NoFlip
  <1>1. IInv => NoFlip
    BY DEF IInv
  <1> QED BY <1>1, SpecIInv, PTL

\* The file a restarted process loads is never behind a signature.
THEOREM FileAheadOfKey == Spec => []FileCoversSigned
  <1>1. IInv => FileCoversSigned
    BY DEF IInv
  <1> QED BY <1>1, SpecIInv, PTL

\* What was signed last is signed again when the validator repeats its request,
\* by the process that signed it or by a later one.
THEOREM RetriesAreAccepted == Spec => []RetryAccepted
  <1>1. IInv => RetryAccepted
    <2> SUFFICES ASSUME IInv, pc = "read", file \in ConsensusStates,
                        NEW s \in signed, SameHRS(s, file)
                 PROVE  Accepted(state, s)
      BY DEF RetryAccepted
    <2>1. state = file /\ s \in ConsensusStates /\ Follows(s, file)
      BY DEF IInv, TypeOK, MemoryIsFile, FileCoversSigned
    <2>2. s.block_id = file.block_id
      BY <2>1 DEF Follows, Conflict
    <2> QED BY <2>1, <2>2, FieldTypes
        DEF Accepted, Regression, CheckHeight, CheckRound, CheckStep, CheckBlockId, SameHRS, SameRound
  <1> QED BY <1>1, SpecIInv, PTL

\* The file never goes back, whatever happens to the processes that use it.
THEOREM FileAdvances == Spec => FileOnlyAdvances
  <1>1. ASSUME IInv, [Next]_vars, file \in ConsensusStates, file' # file
        PROVE  file' \in ConsensusStates /\ NotAfter(file, file')
    <2>1. Rename
      BY <1>1, FileAssumption
      DEF Next, vars, Start, StartFresh, Connect, ConnectPanic, WriteTemp, PersistError,
          Panic, Kill
    <2>2. file' = cs /\ cs \in ConsensusStates /\ Accepted(file, cs)
      BY <1>1, <2>1 DEF Rename, IInv, TypeOK, MemoryIsFile, PendingAccepted
    <2> QED BY <1>1, <2>2, AcceptedFollows DEF Follows
  <1>2. IInv /\ [Next]_vars =>
          [(file \in ConsensusStates) =>
             file' \in ConsensusStates /\ NotAfter(file, file')]_file
    BY <1>1
  <1> QED BY <1>2, SpecIInv, PTL DEF Spec, FileOnlyAdvances

\* The software signer implements the abstract specification: every step that
\* uses the key adds a signature that follows all earlier ones.
THEOREM ImplementsGuard == Spec => GuardSpec
  <1>1. Init => Guard!Init
    BY DEF Init, SessionInit, Guard!Init
  <1>2. IInv /\ [Next]_vars => [Guard!Next]_<<signed, FALSE>>
    <2> SUFFICES ASSUME IInv, [Next]_vars, signed' # signed PROVE Guard!Next
      OBVIOUS
    <2>1. CASE HandleRequest
      <3>1. Sign
        BY <2>1 DEF HandleRequest, ReadError, WrongChain, TooHigh, Regressed, Refuse, Admit,
                    ReplyPing, ShowPublicKey, SignableError, Respond, RespondError, Fail, Answer
      <3>2. cs \in ConsensusStates /\ signed' = signed \cup {cs}
        BY <3>1 DEF Sign, IInv, TypeOK
      <3>3. \A s \in signed : Follows(s, cs)
        BY <3>1 DEF Sign, IInv, SignsState, MemoryIsFile, FileCoversSigned
      <3>4. Guard!Sign(cs)
        BY <3>2, <3>3 DEF Guard!Sign, Guard!Follows, Guard!NotAfter, Guard!Conflict, Guard!Flip,
            Guard!SameHRS, Guard!SameRound, Follows, NotAfter, Conflict, Flip, SameHRS, SameRound
      <3> QED BY <3>2, <3>4 DEF Guard!Next, Guard!ConsensusStates, Guard!Step, ConsensusStates, Step
    <2>2. CASE ~HandleRequest
      BY <2>2 DEF Next, vars, Start, StartFresh, Connect, ConnectPanic, WriteTemp, Rename,
                  Persisted, PersistError, PersistFailed, Fail, Panic, Kill, Off
    <2> QED BY <2>1, <2>2
  <1> QED BY <1>1, <1>2, SpecIInv, PTL DEF Spec, GuardSpec, Guard!Spec, Guard!guardVars
=============================================================================
