-------------------------------- MODULE MCFlash --------------------------------
(***************************************************************************)
(* Flash for TLC: two sectors of two pages of two words of two bytes, with *)
(* memory on both sides.                                                   *)
(***************************************************************************)
EXTENDS Flash

SmallImages == {[a \in Memory |-> 1], [a \in Memory |-> IF a % 3 = 0 THEN 0 ELSE 1],
                [a \in Memory |-> IF a % 5 < 2 THEN 0 ELSE 1]}
SmallSources == {[k \in 1..9 |-> 0], [k \in 1..9 |-> k % 2]}
================================================================================
