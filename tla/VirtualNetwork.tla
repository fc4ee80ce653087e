--------------------------- MODULE VirtualNetwork ---------------------------
(***************************************************************************)
(* What the network simulator promises to the distributed system that runs *)
(* in its VMs: a virtual network in virtual time.  Every VM has a clock,   *)
(* every ordered pair of VMs a link with a latency.  A link duplicates     *)
(* nothing and keeps the order, hands a frame over no sooner than its      *)
(* latency after it was sent, and no VM runs so far ahead of another that  *)
(* it could miss a frame the other has still to send.                      *)
(*                                                                         *)
(* Early, Late and Grain are the tolerances of the real thing: how much    *)
(* sooner a frame may arrive, by how much a clock may pass its limit, and  *)
(* how soon a frame must be due to be lost.  If Grain is zero, nothing is  *)
(* ever lost on its way to a VM that has not broken; the VMs in Weak may.  *)
(***************************************************************************)
EXTENDS Integers

CONSTANTS VM, Latency, Early, Late, Grain, Weak

VARIABLES
  clock,   \* clock[v]: the virtual time of v
  sent,    \* number of frames sent so far, which numbers them
  wire,    \* wire[i][j]: the frames on their way to i from j
  broken,  \* the VMs that have failed to run or to receive at some time
  lost     \* the frames that were lost, each with its receiver

netVars == <<clock, sent, wire, broken, lost>>

Init ==
  /\ clock \in [VM -> 0 .. Late]
  /\ sent = 0
  /\ wire = [i \in VM |-> [j \in VM |-> {}]]
  /\ broken = {}
  /\ lost = {}

(* Nothing that a peer sends from now on arrives at v before this time.    *)
Safe(v, time) == \A w \in VM \ {v} : time <= clock[w] + Latency[v][w]

(* v's time passes, up to the arrival of the first frame that a peer could *)
(* send from now on.                                                       *)
Advance(v) ==
  /\ clock' = [clock EXCEPT ![v] = @ + 1]
  /\ Safe(v, clock'[v] - Late)
  /\ UNCHANGED <<sent, wire, broken, lost>>

(* v sends one frame to every VM of a set.                                 *)
Send(v, receivers) ==
  /\ sent' = sent + 1
  /\ wire' = [i \in VM |->
       IF i \in receivers
       THEN [wire[i] EXCEPT ![v] = @ \cup {[id |-> sent', sentAt |-> clock[v]]}]
       ELSE wire[i]]
  /\ UNCHANGED <<clock, broken, lost>>

(* Something goes wrong with v.                                            *)
Breaks(v) == v \in Weak /\ broken' = broken \cup {v}
Break(v) == Breaks(v) /\ UNCHANGED <<clock, sent, wire, lost>>

(* A frame that is due at this time may be lost on its way to v: when v is *)
(* broken, or when it would arrive soon.  Never one that v has to wait for.*)
MayLose(v, due) ==
  /\ Safe(v, due)
  /\ v \in broken' \/ (Grain > 0 /\ clock[v] + Grain >= due)

(* Of the links to v only the frames in left are left.  Those that are     *)
(* taken off a link were sent before those that stay on it; v receives     *)
(* them, each after its latency, except for those that are lost.           *)
Take(v, left, losses) ==
  /\ wire' = [wire EXCEPT ![v] = left]
  /\ lost' = lost \cup {[id |-> f.id, to |-> v] : f \in losses}
  /\ \A j \in VM : \A f \in wire[v][j] \ left[j] :
       /\ \A g \in left[j] : f.id < g.id
       /\ LET due == f.sentAt + Latency[v][j] IN
            IF f \in losses THEN MayLose(v, due) ELSE clock[v] + Early >= due

Parts(links) == {left \in [VM -> SUBSET UNION {links[j] : j \in VM}] :
                   \A j \in VM : left[j] \subseteq links[j]}

Taken(links, left) == UNION {links[j] \ left[j] : j \in VM}

HandOver(v) ==
  /\ UNCHANGED <<clock, sent>>
  /\ UNCHANGED broken \/ Breaks(v)
  /\ LET links == wire[v] IN
       \E left \in Parts(links) : \E losses \in SUBSET Taken(links, left) :
         Take(v, left, losses)

Next ==
  \E v \in VM :
    \/ Advance(v) \/ Break(v) \/ HandOver(v)
    \/ \E receivers \in SUBSET (VM \ {v}) : Send(v, receivers)

Spec == Init /\ [][Next]_netVars
=============================================================================
