--------------------------- MODULE MCLogForward ---------------------------
(* Bytes of base 3, so that a length of two is written with a newline byte, as *)
(* one of 10 is with base 256, and values that hold a newline themselves.      *)
EXTENDS LogForward

MCLevels == {<<1>>}
MCValues == {<<0>>, <<2, 1>>}
MCCallsites == {[name |-> <<0>>, target |-> <<1>>, file |-> None, line |-> <<0, 2>>],
                [name |-> <<>>, target |-> <<2>>, file |-> <<1, 1, 2, 0>>, line |-> None]}
=============================================================================
