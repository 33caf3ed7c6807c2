--------------------------- MODULE ConsensusState ---------------------------
(* The consensus state a signer tracks to prevent double signing           *)
(* (consensus::State of tendermint, used by src/chain/state.rs) and the     *)
(* checks of `impl State` that decide whether a new one may be signed.      *)
(* Heights and rounds are bounded by the constants only, so the operators   *)
(* can be checked on small sets and proved for every set.                   *)
EXTENDS Integers

CONSTANTS
  Height,   \* block heights
  Round,    \* consensus rounds
  Block,    \* block ids
  Nil       \* the absent block id (`<nil>`)

ASSUME HeightAssumption == Height \subseteq Nat /\ 0 \in Height
ASSUME RoundAssumption == Round \subseteq Nat /\ 0 \in Round
ASSUME NilAssumption == Nil \notin Block

\* Proposal, prevote, precommit, in the order a round takes them.
Step == 0 .. 2

ConsensusStates ==
  [height : Height, round : Round, step : Step, block_id : Block \cup {Nil}]

\* What write_initial_state stores when there is no state yet.
InitialState == [height |-> 0, round |-> 0, step |-> 0, block_id |-> Nil]

StepOf == [proposal |-> 0, prevote |-> 1, precommit |-> 2]

\* Variants with a plausible slip, to show that the properties notice:
\* steps numbered from one; a repeated vote taken for a regression; rounds
\* or steps ignored; only half of the block id rule.
RequestStateFromOne(r) ==
  [height |-> r.height, round |-> r.round,
   step |-> StepOf[r.type] + 1, block_id |-> r.block_id]
CheckStepStrict(s, n) ==
  ~(n.height = s.height /\ n.round = s.round /\ n.step <= s.step)
CheckRoundDropped(s, n) == TRUE
CheckStepDropped(s, n) == TRUE
CheckBlockIdSomeOnly(s, n) ==
  ~ /\ n.height = s.height /\ n.round = s.round
    /\ n.block_id # s.block_id /\ n.block_id # Nil /\ s.block_id # Nil
CheckBlockIdSameStepOnly(s, n) ==
  ~ /\ n.height = s.height /\ n.round = s.round
    /\ n.block_id # s.block_id /\ n.step = s.step

\* State::from(SignProposalRequest) and State::from(SignVoteRequest).
RequestState(r) ==
  [height |-> r.height, round |-> r.round,
   step |-> StepOf[r.type], block_id |-> r.block_id]

SameRound(s, n) == n.height = s.height /\ n.round = s.round
SameHRS(s, n) == SameRound(s, n) /\ n.step = s.step

CheckHeight(s, n) == ~(n.height < s.height)
CheckRound(s, n) == ~(n.height = s.height /\ n.round < s.round)
CheckStep(s, n) == ~(SameRound(s, n) /\ n.step < s.step)
CheckBlockId(s, n) ==
  ~ /\ SameRound(s, n)
    /\ n.block_id # s.block_id
    /\ \/ n.block_id # Nil /\ s.block_id # Nil
       \/ n.step = s.step

\* check_consensus_state runs the four checks in this order and returns the
\* first error: block ids are only compared once the position is not a
\* regression.  The three results the callers tell apart:
Regression(s, n) == ~(CheckHeight(s, n) /\ CheckRound(s, n) /\ CheckStep(s, n))
DoubleSignError(s, n) == ~Regression(s, n) /\ ~CheckBlockId(s, n)
Accepted(s, n) == ~Regression(s, n) /\ CheckBlockId(s, n)

-----------------------------------------------------------------------------
\* Vocabulary of the properties.

\* s is at the same height/round/step as n or at an earlier one.
NotAfter(s, n) ==
  \/ s.height < n.height
  \/ s.height = n.height /\ s.round < n.round
  \/ SameRound(s, n) /\ s.step <= n.step

\* Two signatures a validator can be punished for: one position, two values.
Conflict(s, n) == SameHRS(s, n) /\ s.block_id # n.block_id

\* A vote for one block and, one step later in the same round, for another.
Flip(s, n) ==
  /\ SameRound(s, n)
  /\ n.step = s.step + 1
  /\ s.block_id # n.block_id
  /\ Nil \notin {s.block_id, n.block_id}

\* n may be signed when s has been: later or equal, and no contradiction.
Follows(s, n) == NotAfter(s, n) /\ ~Conflict(s, n) /\ ~Flip(s, n)
=============================================================================
