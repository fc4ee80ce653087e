----------------------------- MODULE MCScheduler -----------------------------
(* Small networks for TLC.  Delays follow the shape of latency_configs/:    *)
(* row i is the latency to VM i, and links may be asymmetric.               *)
EXTENDS Scheduler

Matrix(rows) == [i \in 0 .. Len(rows) - 1 |-> [j \in 0 .. Len(rows) - 1 |-> rows[i + 1][j + 1]]]

\* delays_2x2 scaled down: 0 200 / 300 0
Delay2 == Matrix(<< <<0, 1>>, <<2, 0>> >>)
\* delays_3x3 scaled down: 0 50 150 / 50 0 100 / 150 100 0
Delay3 == Matrix(<< <<0, 1, 3>>, <<1, 0, 2>>, <<3, 2, 0>> >>)
==============================================================================
