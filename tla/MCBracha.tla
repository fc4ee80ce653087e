------------------------------- MODULE MCBracha -------------------------------
(* Clusters for TLC.  The whole run of several processes is large, so some   *)
(* configurations start late in it, with only the last values left.          *)
EXTENDS Bracha

\* process 0 has all its values to send, 1 its last one, the others none
Staggered == [p \in 0 .. P - 1 |-> IF p < Msgs THEN p ELSE Msgs]
\* only the last value of process 0 is left
LastOfZero == [p \in 0 .. P - 1 |-> IF p = 0 THEN Msgs - 1 ELSE Msgs]
===============================================================================
