------------------------------- MODULE Session -------------------------------
(* Session::handle_request (src/session.rs): the loop every provider runs    *)
(* over its connection to the validator.  The step that persists the new      *)
(* state (PersistStateSync::persist_state) belongs to the provider: a module  *)
(* that extends this one supplies the steps between pc = "persist" and        *)
(* Persisted or PersistFailed.                                                *)
EXTENDS ConsensusState

CONSTANTS
  ChainId,       \* config.chain_id
  Chains,        \* the chain ids a validator may name
  MaxHeight,     \* config.max_height as a set: {} for None, {h} for Some(h)
  SignRequests   \* the proposals and votes a validator may ask to be signed

ASSUME ChainAssumption == ChainId \in Chains
ASSUME RequestAssumption ==
  SignRequests \subseteq
    [type : DOMAIN StepOf, chain_id : Chains,
     height : Height, round : Round, block_id : Block \cup {Nil}]

VARIABLES
  pc,      \* where the signer process is
  state,   \* Session.state: the last consensus state accepted, in memory
  cs,      \* req_cs of the request being handled
  resp,    \* the response being prepared
  signed   \* history: every consensus state the key has signed

sessionVars == <<pc, state, cs, resp, signed>>

Responses == {"none", "signature", "invalid_chain_id", "double_sign", "ping", "pubkey"}

SessionInit ==
  /\ pc = "off"
  /\ state = InitialState
  /\ cs = InitialState
  /\ resp = "none"
  /\ signed = {}

\* The process is gone and with it everything it held in memory.
Off ==
  /\ pc' = "off"
  /\ state' = InitialState
  /\ cs' = InitialState
  /\ resp' = "none"
  /\ UNCHANGED signed

\* handle_request returns Err(_): nothing is answered and the loop is left.
Fail ==
  /\ pc' = "failed"
  /\ resp' = "none"
  /\ cs' = InitialState
  /\ UNCHANGED <<state, signed>>

Answer(r) ==
  /\ pc' = "respond"
  /\ resp' = r
  /\ UNCHANGED <<state, cs, signed>>

ExceedsMaxHeight(r) == \E m \in MaxHeight : r.height > m

-----------------------------------------------------------------------------
\* Request::read and the match on the request.

ReadError == pc = "read" /\ Fail

WrongChain(r) ==
  /\ pc = "read"
  /\ r.chain_id # ChainId
  /\ Answer("invalid_chain_id")

TooHigh(r) ==
  /\ pc = "read"
  /\ r.chain_id = ChainId
  /\ ExceedsMaxHeight(r)
  /\ Fail

Regressed(r) ==
  /\ pc = "read"
  /\ r.chain_id = ChainId /\ ~ExceedsMaxHeight(r)
  /\ Regression(state, RequestState(r))
  /\ Fail

Refuse(r) ==
  /\ pc = "read"
  /\ r.chain_id = ChainId /\ ~ExceedsMaxHeight(r)
  /\ DoubleSignError(state, RequestState(r))
  /\ Answer("double_sign")

Admit(r) ==
  /\ pc = "read"
  /\ r.chain_id = ChainId /\ ~ExceedsMaxHeight(r)
  /\ Accepted(state, RequestState(r))
  /\ cs' = RequestState(r)
  /\ pc' = "persist"
  /\ UNCHANGED <<state, resp, signed>>

ReplyPing == pc = "read" /\ Answer("ping")

ShowPublicKey(chain_id) ==
  /\ pc = "read"
  /\ Answer(IF chain_id = ChainId THEN "pubkey" ELSE "invalid_chain_id")

\* A variant that forgets the assignment to self.consensus_state.
PersistedOnly ==
  /\ pc' = "sign"
  /\ UNCHANGED <<state, cs, resp, signed>>

\* The end of check_update_consensus_state: persist_state returned Ok or Err.
Persisted ==
  /\ state' = cs
  /\ pc' = "sign"
  /\ UNCHANGED <<cs, resp, signed>>

PersistFailed == Fail

\* to_signable_vec and the key's signature, once the state is updated.
Sign ==
  /\ pc = "sign"
  /\ signed' = signed \cup {cs}
  /\ pc' = "respond"
  /\ resp' = "signature"
  /\ UNCHANGED <<state, cs>>

SignableError == pc = "sign" /\ Fail

\* Response::encode and write_all.
Respond ==
  /\ pc = "respond"
  /\ pc' = "read"
  /\ resp' = "none"
  /\ cs' = InitialState
  /\ UNCHANGED <<state, signed>>

RespondError == pc = "respond" /\ Fail

HandleRequest ==
  \/ ReadError
  \/ \E r \in SignRequests :
       WrongChain(r) \/ TooHigh(r) \/ Regressed(r) \/ Refuse(r) \/ Admit(r)
  \/ ReplyPing
  \/ \E c \in Chains : ShowPublicKey(c)
  \/ Sign \/ SignableError
  \/ Respond \/ RespondError
=============================================================================
