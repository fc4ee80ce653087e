------------------------------ MODULE TimeSlice ------------------------------
(***************************************************************************)
(* What the simulator's scheduling relies on: it orders a paused VM to run *)
(* for some time, the VM runs for at least that long and at most Late      *)
(* longer, stops by itself, and the simulator then learns the exact        *)
(* virtual time at which it stopped.  A VM that has been faulty may stop   *)
(* earlier, or not start at all, but never runs for longer.                *)
(***************************************************************************)
EXTENDS Integers

CONSTANT Late

VARIABLES
  phase,   \* "paused", "ordered", "running", "stopped"
  time,    \* the VM's virtual clock
  known,   \* the simulator's idea of it
  length,  \* length of the slice, 0 when there is none
  faulty   \* the VM has been stopped by a fault

sliceVars == <<phase, time, known, length, faulty>>

Init == /\ phase = "paused" /\ time \in Nat /\ known = time /\ length = 0
        /\ faulty = FALSE

Order == /\ phase = "paused"
         /\ length' \in Nat
         /\ phase' = "ordered"
         /\ UNCHANGED <<time, known, faulty>>

Resume == /\ phase = "ordered"
          /\ phase' = "running"
          /\ UNCHANGED <<time, known, length, faulty>>

Tick == /\ phase = "running"
        /\ time < known + length + Late
        /\ time' = time + 1
        /\ UNCHANGED <<phase, known, length, faulty>>

Stop == /\ phase = "running"
        /\ time >= known + length \/ faulty
        /\ phase' = "stopped"
        /\ UNCHANGED <<time, known, length, faulty>>

Fault == /\ phase \in {"ordered", "running"}
         /\ phase' = "stopped"
         /\ faulty' = TRUE
         /\ UNCHANGED <<time, known, length>>

Learn == /\ phase = "stopped"
         /\ known' = time
         /\ length' = 0
         /\ phase' = "paused"
         /\ UNCHANGED <<time, faulty>>

Next == Order \/ Resume \/ Tick \/ Stop \/ Fault \/ Learn

Spec == Init /\ [][Next]_sliceVars
=============================================================================
