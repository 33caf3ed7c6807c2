------------------------ MODULE ConsensusStateProofs ------------------------
(* What check_consensus_state guarantees, for every set of heights, rounds     *)
(* and blocks: the facts the proofs about the signers rest on.                 *)
EXTENDS ConsensusState, TLAPS

\* The state written when there is none is a consensus state.
LEMMA InitialStateType == InitialState \in ConsensusStates
  BY HeightAssumption, RoundAssumption DEF InitialState, ConsensusStates, Step

\* The fields the checks compare are natural numbers.
LEMMA FieldTypes ==
  ASSUME NEW s \in ConsensusStates
  PROVE  s.height \in Nat /\ s.round \in Nat /\ s.step \in 0 .. 2
  BY HeightAssumption, RoundAssumption DEF ConsensusStates, Step

\* check_consensus_state accepts only what follows the current state.
LEMMA AcceptedFollows ==
  ASSUME NEW s \in ConsensusStates, NEW n \in ConsensusStates, Accepted(s, n)
  PROVE  Follows(s, n)
  <1>1. /\ s.height \in Nat /\ s.round \in Nat /\ s.step \in 0 .. 2
        /\ n.height \in Nat /\ n.round \in Nat /\ n.step \in 0 .. 2
    BY FieldTypes
  <1>2. NotAfter(s, n)
    BY <1>1 DEF Accepted, Regression, CheckHeight, CheckRound, CheckStep, NotAfter, SameRound
  <1>3. ~Conflict(s, n) /\ ~Flip(s, n)
    BY <1>1 DEF Accepted, CheckBlockId, Conflict, Flip, SameHRS, SameRound
  <1> QED BY <1>2, <1>3 DEF Follows

\* A state that follows a signature is only ever replaced by one that follows
\* it too: the block of an intermediate state carries over.
LEMMA FollowsAccepted ==
  ASSUME NEW s \in ConsensusStates, NEW f \in ConsensusStates,
         NEW n \in ConsensusStates, Follows(s, f), Accepted(f, n)
  PROVE  Follows(s, n)
  <1>1. /\ s.height \in Nat /\ s.round \in Nat /\ s.step \in 0 .. 2
        /\ f.height \in Nat /\ f.round \in Nat /\ f.step \in 0 .. 2
        /\ n.height \in Nat /\ n.round \in Nat /\ n.step \in 0 .. 2
    BY FieldTypes
  <1>2. NotAfter(s, f) /\ NotAfter(f, n)
    BY AcceptedFollows DEF Follows
  <1>3. NotAfter(s, n)
    BY <1>1, <1>2 DEF NotAfter, SameRound
  <1>4. ASSUME SameRound(s, n)
        PROVE  SameRound(s, f) /\ SameRound(f, n) /\ s.step <= f.step /\ f.step <= n.step
    BY <1>1, <1>2, <1>4 DEF NotAfter, SameRound
  <1>5. ~Conflict(s, n)
    BY <1>1, <1>4 DEF Follows, Accepted, CheckBlockId, Conflict, SameHRS
  <1>6. ~Flip(s, n)
    BY <1>1, <1>4 DEF Follows, Accepted, CheckBlockId, Conflict, Flip, SameHRS
  <1> QED BY <1>3, <1>5, <1>6 DEF Follows

\* Signing the same state again follows the rules.
LEMMA FollowsItself ==
  ASSUME NEW s \in ConsensusStates
  PROVE  Follows(s, s)
  BY FieldTypes DEF Follows, NotAfter, Conflict, Flip, SameHRS, SameRound
=============================================================================
