------------------------------ MODULE MCFraming ------------------------------
EXTENDS Framing

\* With two values to a byte a length has two bits: payloads of no, one, two and
\* three bytes, and one of four, which is a byte too long.
MCPayloads == {<<>>, <<1>>, <<0, 1>>, <<1, 0, 1>>, <<1, 1, 0, 0>>}
=============================================================================
