------------------------------ MODULE KeyWrap ------------------------------
(* The key wrapping of the cloud backup (keywrap.rs): aes256_unwrap_key_with_pad *)
(* step by step, on a key an HSM wrapped the way of RFC 3394 (the wrapping the    *)
(* tests of that file carry), or on any other payload.  The block cipher is a     *)
(* parameter: a permutation of pairs of words for every key-encryption key.       *)
EXTENDS Integers, Sequences

CONSTANTS
  N,              \* words in a key: 4, of 64 bits
  Word,           \* the values of a word
  Keks, BadKek,   \* key-encryption keys of 32 bytes; one of another length
  IV,             \* IV_5649
  Encrypt(_, _), Decrypt(_, _),   \* the cipher, on a kek and a block of two words
  Mix(_, _)       \* exclusive or of a word and a step number

Rounds == 6
Last == Rounds * N
Block == Word \X Word
Key == [1 .. N -> Word]

ASSUME NAssumption == N \in Nat \ {0}
ASSUME IVAssumption == IV \in Word
ASSUME KekAssumption == BadKek \notin Keks
ASSUME CipherAssumption == \A k \in Keks : \A b \in Block :
  /\ Encrypt(k, b) \in Block /\ Decrypt(k, b) \in Block
  /\ Decrypt(k, Encrypt(k, b)) = b /\ Encrypt(k, Decrypt(k, b)) = b
ASSUME MixAssumption == \A w \in Word : \A t \in 1 .. Last :
  Mix(w, t) \in Word /\ Mix(Mix(w, t), t) = w

VARIABLES
  pc,
  a, r,      \* the integrity word and the words of the key
  t,         \* steps done: n * j + i of the next one to undo
  hsmKey, hsmKek, trace,   \* what the HSM wraps, and a and r after each of its steps
  payload,   \* the wrapped key: a and r of the HSM at its end, or any other
  genuine,   \* which of the two
  kek,       \* the key the enclave unwraps with
  result     \* Ok with the key in r, or an error

wrapVars == <<pc, a, r, t, hsmKey, hsmKek, trace, payload, genuine, kek, result>>

Errors == {"IncorrectLength", "AuthFailed"}

\* The word that step n * j + i works on: i.
At(s) == ((s - 1) % N) + 1

WrapTypeOK ==
  /\ pc \in {"wrap", "wrapped", "unwrap", "done"}
  /\ a \in Word /\ r \in Key /\ t \in 0 .. Last
  /\ hsmKey \in Key /\ hsmKek \in Keks /\ genuine \in BOOLEAN
  /\ trace \in [0 .. Last -> Word \X Key] /\ payload \in Word \X Key
  /\ kek \in Keks \cup {BadKek}
  /\ result \in {"none", "Ok"} \cup Errors

\* An HSM is given a key to wrap (aes256_wrap_key_with_pad)...
HsmInit ==
  /\ pc = "wrap" /\ a = IV /\ r \in Key /\ t = 0
  /\ payload = <<IV, r>> /\ genuine = TRUE

\* ... or aes256_unwrap_key_with_pad is called with a payload of the right length
\* that no HSM is known to have made.
OtherInit ==
  /\ pc = "unwrap" /\ payload \in Word \X Key /\ genuine = FALSE
  /\ a = payload[1] /\ r = payload[2] /\ t = Last

WrapInit ==
  /\ HsmInit \/ OtherInit
  /\ hsmKey = r /\ hsmKek \in Keks
  /\ trace = [s \in 0 .. Last |-> <<a, r>>]
  /\ kek = hsmKek /\ result = "none"

\* aes256_wrap_key_and_iv: the turn s of its loop on p, an a and an r...
Turn(k, p, s) ==
  LET b == Encrypt(k, <<p[1], p[2][At(s)]>>)
  IN  <<Mix(b[1], s), [p[2] EXCEPT ![At(s)] = b[2]]>>

WrapStep ==
  /\ pc = "wrap" /\ t < Last
  /\ t' = t + 1
  /\ a' = Turn(hsmKek, <<a, r>>, t')[1] /\ r' = Turn(hsmKek, <<a, r>>, t')[2]
  /\ trace' = [trace EXCEPT ![t'] = <<a', r'>>]
  /\ UNCHANGED <<pc, hsmKey, hsmKek, payload, genuine, kek, result>>

\* ... and its end: the payload is a and r.
Wrapped ==
  /\ pc = "wrap" /\ t = Last
  /\ payload' = <<a, r>> /\ pc' = "wrapped"
  /\ UNCHANGED <<a, r, t, hsmKey, hsmKek, trace, genuine, kek, result>>

\* aes256_unwrap_key_with_pad is called with the payload of the HSM and a key
\* that RSA decryption gave, the right one or another,
UnwrapGenuine ==
  /\ pc = "wrapped"
  /\ kek' \in Keks /\ pc' = "unwrap"
  /\ UNCHANGED <<a, r, t, hsmKey, hsmKek, trace, payload, genuine, result>>

\* or with a key or a payload of another length.
UnwrapBadLength ==
  /\ pc = "wrapped"
  /\ kek' \in Keks \cup {BadKek}
  /\ result' = "IncorrectLength" /\ pc' = "done"
  /\ UNCHANGED <<a, r, t, hsmKey, hsmKek, trace, payload, genuine>>

\* Variant: the words are taken upwards in every round.
UndoUpwards(k, p, s) ==
  LET i == N + 1 - At(s)
      b == Decrypt(k, <<Mix(p[1], s), p[2][i]>>)
  IN  <<b[1], [p[2] EXCEPT ![i] = b[2]]>>

\* aes256_unwrap_key_and_iv: the turn s = n * j + i of its loops.
Undo(k, p, s) ==
  LET b == Decrypt(k, <<Mix(p[1], s), p[2][At(s)]>>)
  IN  <<b[1], [p[2] EXCEPT ![At(s)] = b[2]]>>

\* Variant: the loop does not end with its first turn.
UnwrapTooFar ==
  /\ pc = "unwrap" /\ t >= 0
  /\ a' = Undo(kek, <<a, r>>, t)[1] /\ r' = Undo(kek, <<a, r>>, t)[2]
  /\ t' = t - 1
  /\ UNCHANGED <<pc, hsmKey, hsmKek, trace, payload, genuine, kek, result>>

\* `(0..6).rev()` and `(1..n + 1).rev()`: s goes downwards.
UnwrapStep ==
  /\ pc = "unwrap" /\ t > 0
  /\ a' = Undo(kek, <<a, r>>, t)[1] /\ r' = Undo(kek, <<a, r>>, t)[2]
  /\ t' = t - 1
  /\ UNCHANGED <<pc, hsmKey, hsmKek, trace, payload, genuine, kek, result>>

\* Variant: the initial value is not compared.
FinishUnchecked ==
  /\ pc = "unwrap" /\ t = 0
  /\ result' = "Ok" /\ pc' = "done"
  /\ UNCHANGED <<a, r, t, hsmKey, hsmKek, trace, payload, genuine, kek>>

\* The initial value that came out tells a wrapped key from anything else.
Finish ==
  /\ pc = "unwrap" /\ t = 0
  /\ result' = IF a = IV THEN "Ok" ELSE "AuthFailed"
  /\ pc' = "done"
  /\ UNCHANGED <<a, r, t, hsmKey, hsmKek, trace, payload, genuine, kek>>

WrapNext ==
  \/ WrapStep \/ Wrapped
  \/ UnwrapGenuine \/ UnwrapBadLength
  \/ UnwrapStep \/ Finish

WrapSpec == WrapInit /\ [][WrapNext]_wrapVars

-----------------------------------------------------------------------------
\* What the HSM would make of a key, as a function of the number of steps.
Wrapping(k, key) ==
  LET w[s \in 0 .. Last] == IF s = 0 THEN <<IV, key>> ELSE Turn(k, w[s - 1], s)
  IN  w

\* What the HSM wrapped comes out, with the same kek: the loops of
\* aes256_unwrap_key_and_iv undo those of the wrapping, in the opposite order
\* and with the same step numbers.
RoundTrip ==
  pc = "done" /\ genuine /\ kek = hsmKek /\ result # "IncorrectLength" =>
    result = "Ok" /\ r = hsmKey

\* Only that comes out: a key is returned for no payload but the one an HSM
\* makes of this key with this kek.
OpensOnlyWrapped ==
  result = "Ok" => payload = Wrapping(kek, r)[Last]
=============================================================================
