--------------------------- MODULE DoubleSignGuard ---------------------------
(* What a signer promises its validator, whatever provider it runs in and   *)
(* whatever crashes it survives: it only ever adds signatures that follow    *)
(* every signature it has made before, unless it has lost track of them.     *)
EXTENDS ConsensusState

VARIABLES
  signed,   \* every consensus state a signature was made for
  blind     \* the record of some of them is lost

guardVars == <<signed, blind>>

Init == signed = {} /\ blind = FALSE

\* A signature for n is made.  Making the same one again is allowed.
Sign(n) ==
  /\ blind \/ \A s \in signed : Follows(s, n)
  /\ signed' = signed \cup {n}
  /\ UNCHANGED blind

Lose == blind' = TRUE /\ UNCHANGED signed

Next == Lose \/ \E n \in ConsensusStates : Sign(n)

Spec == Init /\ [][Next]_guardVars

\* No two signatures for one height, round and step differ in their block id.
NoDoubleSign == \A s, n \in signed : ~Conflict(s, n)
=============================================================================
