----------------------------- MODULE MCRequests -----------------------------
(* The validator's requests in the small instances of the signers.            *)
EXTENDS ConsensusState

CONSTANTS a, b, mine, other

MCBlock == {a, b}
MCChains == {mine, other}
MCMaxHeight == {1}

Request(type, h, r, blk) ==
  [type |-> type, chain_id |-> mine, height |-> h, round |-> r, block_id |-> blk]

\* The requests a signer refuses whatever its state: above max_height, for
\* another chain.
MCRefused ==
  {Request("prevote", 2, 0, a), [Request("prevote", 1, 0, a) EXCEPT !.chain_id = other]}

\* Every proposal and vote of the rounds at height 1, and a proposal at height
\* 0, where the initial state stands.
MCSignRequests ==
  {Request(t, 1, r, blk) : t \in DOMAIN StepOf, r \in Round, blk \in Block \cup {Nil}}
    \cup {Request("proposal", 0, 0, blk) : blk \in Block \cup {Nil}}
    \cup MCRefused

\* The votes at height 1 only, with and without nil.
MCVoteRequests ==
  {Request(t, 1, r, blk) : t \in {"prevote", "precommit"}, r \in Round, blk \in Block \cup {Nil}}
    \cup MCRefused
MCBlockRequests == {r \in MCVoteRequests : r.block_id # Nil}
=============================================================================
