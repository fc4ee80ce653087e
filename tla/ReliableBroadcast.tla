-------------------------- MODULE ReliableBroadcast --------------------------
(***************************************************************************)
(* What the broadcast program promises when no process fails: processes    *)
(* broadcast values, each one the next only after it has delivered its     *)
(* last, and deliver nothing but values that were broadcast.               *)
(***************************************************************************)
EXTENDS Integers

CONSTANTS Process, Value, Sender(_), Rank(_)

VARIABLES
  sent,       \* the values broadcast so far
  delivered   \* delivered[p]: those that p has delivered

rbVars == <<sent, delivered>>

Init ==
  /\ sent \in SUBSET Value
  /\ delivered \in [Process -> SUBSET sent]

Deliver(p, v) ==
  /\ v \in sent
  /\ delivered' = [delivered EXCEPT ![p] = @ \cup {v}]

(* A sender's next value, when all its earlier ones are or become          *)
(* delivered to itself: the delivery may be part of the same step.         *)
MayBroadcast(v) ==
  /\ v \notin sent
  /\ \A u \in Value : Sender(u) = Sender(v) /\ Rank(u) < Rank(v) => u \in delivered'[Sender(v)]

Next ==
  /\ \/ UNCHANGED delivered
     \/ \E p \in Process : \E v \in delivered'[p] : Deliver(p, v)
  /\ \/ UNCHANGED sent
     \/ \E v \in Value : MayBroadcast(v) /\ sent' = sent \cup {v}

Spec == Init /\ [][Next]_rbVars
=============================================================================
