----------------------------- MODULE MCKeyWrap -----------------------------
(* Words of 4 bits, wide enough for every step number of a key of two words, *)
(* and a toy cipher: an affine permutation of the block's 8 bits, then a swap *)
(* of its words.                                                              *)
EXTENDS KeyWrap, Bitwise

MCWord == 0 .. 15

Factor == [k1 |-> 77, k2 |-> 149]
Inverse == [k1 |-> CHOOSE f \in 0 .. 255 : (77 * f) % 256 = 1,
            k2 |-> CHOOSE f \in 0 .. 255 : (149 * f) % 256 = 1]
Offset == 59

MCEncrypt(k, b) ==
  LET c == ((16 * b[1] + b[2]) * Factor[k] + Offset) % 256 IN <<c % 16, c \div 16>>

MCDecrypt(k, b) ==
  LET p == ((b[1] + 16 * b[2] + 256 - Offset) * Inverse[k]) % 256 IN <<p \div 16, p % 16>>

MCMix(w, s) == w ^^ s
=============================================================================
