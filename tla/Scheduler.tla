------------------------------ MODULE Scheduler ------------------------------
(***************************************************************************)
(* The main loop of network_simulator/src/main.cpp.                        *)
(*                                                                         *)
(* The simulator owns N paused virtual machines and runs them one at a     *)
(* time.  Each round picks the VM whose virtual clock is the smallest,     *)
(* lets it run for as long as no other VM could still send it a frame due  *)
(* inside that slice, collects the frames it emits in inter-VM queues      *)
(* stamped with a delivery time, and writes to it the frames that became   *)
(* due.                                                                    *)
(*                                                                         *)
(* Time is counted in ticks, Ms of them to a millisecond: the code keeps   *)
(* nanoseconds but orders a slice in whole milliseconds, and Ms > 1 keeps  *)
(* that rounding visible.  Tick 0 is the end of the 10 s boot slice.       *)
(*                                                                         *)
(* Two clocks advance during a slice: the host's monotonic clock, of which *)
(* only the time since the slice was ordered matters (elapsed), and the    *)
(* virtual clock of the running guest (guest).  The simulator only sees    *)
(* the first and estimates the second from it.                             *)
(*                                                                         *)
(* QEMU may stop a guest for reasons of its own (an I/O error, an internal *)
(* error), and a write to a TAP may fail: the machine is modelled with     *)
(* these, as SliceProtocol has them for one VM.                            *)
(***************************************************************************)
EXTENDS Integers, Sequences

CONSTANTS
  N,          \* VM_NUMBER
  Delay,      \* Delay[i][j]: one way latency to VM i from VM j, in ms
  Ms,         \* ticks in a millisecond
  StartLag,   \* bound: ticks from ordering a slice to the guest running
  Overrun,    \* bound: ticks a guest runs past the end of its slice
  Linger,     \* bound: ticks the loop goes on after the guest has stopped
  Patience,   \* bound: ticks of a slice that QEMU refuses, which never ends
  Broadcast,  \* the MAC address ff:ff:ff:ff:ff:ff
  OtherMac,   \* any MAC that is neither that nor one of config_file
  Horizon,    \* bound: no VM that reached this virtual time is scheduled
  MaxFrames,  \* bound: frames emitted by all the guests together
  Fragile,    \* bound: VMs whose guests QEMU may stop for its own reasons
  Unwritable  \* bound: VMs a write to whose TAP may fail

VM == 0 .. N - 1

ASSUME SchedulerAssumption ==
  /\ N \in Nat \ {0}
  /\ Delay \in [VM -> [VM -> Nat]]
  /\ Ms \in Nat \ {0}
  /\ StartLag \in Nat /\ Overrun \in Nat /\ Linger \in Nat /\ Patience \in Nat
  /\ Broadcast \notin VM /\ OtherMac \notin VM /\ Broadcast # OtherMac
  /\ Horizon \in Nat /\ MaxFrames \in Nat
  /\ Fragile \subseteq VM /\ Unwritable \subseteq VM

VARIABLES
  pc,         \* where the thread is in the body of while(true)
  clocks,     \* virtual_clocks_ns
  queues,     \* inter_vm_queues[i][j]: the frames to VM i from VM j
  current,    \* current_vm_index
  duration,   \* duration_to_run_ns
  toDeliver,  \* deque_to_deliver
  gotStop,    \* has_got_stop_event
  elapsed,    \* host time since start_exec_time
  vm,         \* state of VM current; all the others are paused
  guest,      \* the virtual clock each VM really has
  tap,        \* frames emitted by each VM and not yet read from its TAP
  emitted,    \* number of frames emitted so far; also the last id given
  faulty,     \* VMs whose guests QEMU has stopped for its own reasons
  needsReset, \* those of them that it does not resume any more
  failed,     \* auxiliary: VMs a write to whose TAP has failed
  lost        \* auxiliary: the frames that a VM should have got and did not

vmVars == <<faulty, needsReset>>
lossVars == <<failed, lost>>
faultVars == <<faulty, needsReset, failed, lost>>
vars == <<pc, clocks, queues, current, duration, toDeliver, gotStop,
          elapsed, vm, guest, tap, emitted, faulty, needsReset, failed, lost>>

-----------------------------------------------------------------------------
(* Frames.  The destination is all the simulator looks at in a frame: a    *)
(* VM's MAC, the broadcast MAC, or any other one (multicast, the host).    *)

Dest == VM \cup {Broadcast, OtherMac}

Raw   == [id : Nat, dst : Dest, sentAt : Nat]             \* on the TAP
Frame == [id : Nat, from : VM, sentAt : Nat, ts : Nat]    \* FrameToDeliver
Loss  == [id : Nat, to : VM]

Lat(i, j) == Delay[i][j] * Ms                 \* inter_vm_delays_ms, in ticks
SliceEnd == clocks[current] + duration       \* end_of_time_slice_ns
RunForRoundedUp == ((duration + Ms - 1) \div Ms) * Ms     \* mutant
RunFor   == (duration \div Ms) * Ms          \* what run-time-slice is asked
EstimateSwapped == clocks[current] - elapsed                     \* mutant
EstimateWithoutClock == elapsed                         \* mutant
Estimate == clocks[current] + elapsed        \* virtual time, seen from the host
Idle     == elapsed - (guest[current] - clocks[current])
Lead     == StartLag + Linger               \* how far the estimate leads
InSlice  == pc \in {"select", "tap", "deliver"}

(* The VMs whose clocks limit the slice of v, and the limit each one sets. *)
LimitingAll(v) == VM                                             \* mutant
LimitingButFirst(v) == IF N = 1 THEN VM ELSE VM \ {v, 0}         \* mutant
Limiting(v) == IF N = 1 THEN VM ELSE VM \ {v}
SlackTransposed(v, w) == clocks[w] + Lat(w, v) - clocks[v]       \* mutant
Slack(v, w) == clocks[w] + Lat(v, w) - clocks[v]

(* std::min_element: the first VM with the smallest clock.                 *)
IsNext(v) == \A u \in VM : clocks[v] < clocks[u] \/ (clocks[v] = clocks[u] /\ v <= u)

(* The queues to the current VM whose front frame is due in the slice.     *)
DuePastEnd(j) == /\ queues[current][j] # <<>>                    \* mutant
                 /\ Head(queues[current][j]).ts <= SliceEnd + 1
DueAtStart(j) == /\ queues[current][j] # <<>>                    \* mutant
                 /\ Head(queues[current][j]).ts <= clocks[current]
Due(j) == /\ queues[current][j] # <<>>
          /\ Head(queues[current][j]).ts <= SliceEnd

(* The VMs a frame from the current VM is queued for.                      *)
Receivers(f) == IF f.dst = Broadcast THEN VM \ {current} ELSE VM \cap {f.dst}

(* What std::upper_bound(deque_to_deliver, t) may return, as the number of *)
(* frames before it.  The binary search stops between a frame that is due  *)
(* and one that is not; when the deque is not sorted there can be several  *)
(* such places and which one it finds is left open.                        *)
IsLowerBound(k, t) == /\ k > 0 => toDeliver[k].ts < t            \* mutant
                      /\ k < Len(toDeliver) => t <= toDeliver[k + 1].ts
IsAnything(k, t) == k = Len(toDeliver)                           \* mutant
IsUpperBound(k, t) == /\ k > 0 => toDeliver[k].ts <= t
                      /\ k < Len(toDeliver) => t < toDeliver[k + 1].ts

-----------------------------------------------------------------------------
(* After the boot slice every VM has run 10 s, give or take the overrun.   *)
Init ==
  /\ pc = "choose"
  /\ clocks \in [VM -> 0 .. Overrun]
  /\ queues = [i \in VM |-> [j \in VM |-> <<>>]]
  /\ current = 0
  /\ duration = 0
  /\ toDeliver = <<>>
  /\ gotStop = FALSE
  /\ elapsed = 0
  /\ vm = "paused"
  /\ guest = clocks
  /\ tap = [v \in VM |-> <<>>]
  /\ emitted = 0
  /\ faulty = {} /\ needsReset = {} /\ failed = {} /\ lost = {}

(* Choose the VM to schedule and the length of its slice.                  *)
ChooseVM(v) ==
  /\ pc = "choose"
  /\ IsNext(v)
  /\ clocks[v] < Horizon
  /\ current' = v
  /\ \E w \in Limiting(v) :
       /\ \A u \in Limiting(v) : Slack(v, w) <= Slack(v, u)
       /\ duration' = Slack(v, w)
  /\ toDeliver' = <<>>
  /\ pc' = "merge"
  /\ UNCHANGED <<clocks, queues, gotStop, elapsed, vm, guest, tap, emitted, faultVars>>

\* mutant: push_front
MergeFrameInFront(j) ==
  /\ pc = "merge"
  /\ Due(j)
  /\ toDeliver' = <<Head(queues[current][j])>> \o toDeliver
  /\ queues' = [queues EXCEPT ![current][j] = Tail(@)]
  /\ UNCHANGED <<pc, clocks, current, duration, gotStop,
                 elapsed, vm, guest, tap, emitted, faultVars>>

(* One turn of the merge loop: the earliest due front frame is moved.      *)
MergeFrame(j) ==
  /\ pc = "merge"
  /\ Due(j)
  /\ \A k \in VM : Due(k) =>
       \/ Head(queues[current][j]).ts < Head(queues[current][k]).ts
       \/ Head(queues[current][j]).ts = Head(queues[current][k]).ts /\ j <= k
  /\ toDeliver' = Append(toDeliver, Head(queues[current][j]))
  /\ queues' = [queues EXCEPT ![current][j] = Tail(@)]
  /\ UNCHANGED <<pc, clocks, current, duration, gotStop,
                 elapsed, vm, guest, tap, emitted, faultVars>>

(* Nothing more is due: take start_exec_time and order the time slice.     *)
StartSlice ==
  /\ pc = "merge"
  /\ \A j \in VM : ~Due(j)
  /\ elapsed' = 0
  /\ vm' = "ordered"
  /\ gotStop' = FALSE
  /\ pc' = "select"
  /\ UNCHANGED <<clocks, queues, current, duration, toDeliver,
                 guest, tap, emitted, faultVars>>

(* select(), then one line of the QMP socket.  Before the STOP event come  *)
(* the lines it is queued behind, so a stopped VM may not be noticed yet.  *)
Select ==
  /\ pc = "select"
  /\ gotStop' \in {FALSE, vm = "stopped"}
  /\ pc' = IF tap[current] # <<>> THEN "tap" ELSE "deliver"
  /\ UNCHANGED <<clocks, queues, current, duration, toDeliver,
                 elapsed, vm, guest, tap, emitted, faultVars>>

(* Read one frame from the TAP, stamp it and queue it for its receivers.   *)
ReadTap ==
  /\ pc = "tap"
  /\ tap[current] # <<>>
  /\ LET f == Head(tap[current])
         Stamped(i) == [id |-> f.id, from |-> current, sentAt |-> f.sentAt,
                        ts |-> Estimate + Lat(i, current)]
     IN queues' = [i \in VM |->
          IF i \in Receivers(f)
          THEN [queues[i] EXCEPT ![current] = Append(@, Stamped(i))]
          ELSE queues[i]]
  /\ tap' = [tap EXCEPT ![current] = Tail(@)]
  /\ pc' = "deliver"
  /\ UNCHANGED <<clocks, current, duration, toDeliver, gotStop,
                 elapsed, vm, guest, emitted, faultVars>>

(* The frames at some places of the deque do not reach the current VM.     *)
Lose(places) ==
  lost' = lost \cup {[id |-> toDeliver[n].id, to |-> current] : n \in places}

(* The first k frames are written to the TAP of the current VM.  A write   *)
(* that fails is reported and its frame dropped like the others; a guest   *)
(* that does not run any more gets none of them.                           *)
WriteFirst(k) ==
  /\ toDeliver' = SubSeq(toDeliver, k + 1, Len(toDeliver))
  /\ \E errors \in SUBSET (1 .. k) :
       /\ errors # {} => current \in Unwritable
       /\ failed' = IF errors = {} THEN failed ELSE failed \cup {current}
       /\ Lose(IF current \in needsReset THEN 1 .. k ELSE errors)

(* Write the due frames; leave the loop when the STOP event has been seen. *)
Deliver ==
  /\ pc = "deliver"
  /\ \E k \in 0 .. Len(toDeliver) : IsUpperBound(k, Estimate) /\ WriteFirst(k)
  /\ pc' = IF gotStop THEN "query" ELSE "select"
  /\ UNCHANGED <<clocks, queues, current, duration, gotStop,
                 elapsed, vm, guest, tap, emitted, vmVars>>

(* Ask the stopped VM for its virtual clock.  deque_to_deliver goes out of *)
(* scope with whatever is left in it.                                      *)
QueryClock ==
  /\ pc = "query"
  /\ clocks' = [clocks EXCEPT ![current] = guest[current]]
  /\ vm' = "paused"
  /\ toDeliver' = <<>>
  /\ Lose(1 .. Len(toDeliver))
  /\ pc' = "choose"
  /\ UNCHANGED <<queues, current, duration, gotStop,
                 elapsed, guest, tap, emitted, vmVars, failed>>

-----------------------------------------------------------------------------
(* QEMU, the host and the guest.                                           *)

(* QEMU handles run-time-slice and resumes the guest...                    *)
Resume ==
  /\ vm = "ordered"
  /\ current \notin needsReset
  /\ vm' = "running"
  /\ UNCHANGED <<pc, clocks, queues, current, duration, toDeliver, gotStop,
                 elapsed, guest, tap, emitted, faultVars>>

(* ...unless it would have to be reset: no STOP event will ever come.      *)
Refuse ==
  /\ vm = "ordered"
  /\ current \in needsReset
  /\ vm' = "refused"
  /\ UNCHANGED <<pc, clocks, queues, current, duration, toDeliver, gotStop,
                 elapsed, guest, tap, emitted, faultVars>>

\* mutant: a timer that expires before the slice it was set for is over
StopEarly ==
  /\ vm = "running"
  /\ guest[current] + 1 >= clocks[current] + RunFor \/ current \in faulty
  /\ vm' = "stopped"
  /\ UNCHANGED <<pc, clocks, queues, current, duration, toDeliver, gotStop,
                 elapsed, guest, tap, emitted, faultVars>>

(* The slice timer expires and the guest is stopped, perhaps a bit late.   *)
(* When QEMU has stopped this guest before, the timer of that slice is     *)
(* still armed: it ends this one, or a later one, at any time.             *)
Stop ==
  /\ vm = "running"
  /\ guest[current] >= clocks[current] + RunFor \/ current \in faulty
  /\ vm' = "stopped"
  /\ UNCHANGED <<pc, clocks, queues, current, duration, toDeliver, gotStop,
                 elapsed, guest, tap, emitted, faultVars>>

(* QEMU stops the guest for its own reasons; perhaps it will not resume it.*)
Fault ==
  /\ vm = "running"
  /\ current \in Fragile
  /\ vm' = "stopped"
  /\ faulty' = faulty \cup {current}
  /\ needsReset' \in {needsReset, needsReset \cup {current}}
  /\ UNCHANGED <<pc, clocks, queues, current, duration, toDeliver, gotStop,
                 elapsed, guest, tap, emitted, lossVars>>

(* The host's clock advances and, while the guest runs, so does its own.   *)
Tick ==
  /\ InSlice
  /\ \/ /\ vm = "ordered" /\ Idle < StartLag
        /\ UNCHANGED guest
     \/ /\ vm = "running" /\ guest[current] < clocks[current] + RunFor + Overrun
        /\ guest' = [guest EXCEPT ![current] = @ + 1]
     \/ /\ vm = "stopped" /\ Idle < Lead
        /\ UNCHANGED guest
     \/ /\ vm = "refused" /\ elapsed < Patience
        /\ UNCHANGED guest
  /\ elapsed' = elapsed + 1
  /\ UNCHANGED <<pc, clocks, queues, current, duration, toDeliver, gotStop,
                 vm, tap, emitted, faultVars>>

(* The running guest emits a frame; it has no reason to address itself.    *)
Emit(d) ==
  /\ vm = "running"
  /\ emitted < MaxFrames
  /\ d # current
  /\ emitted' = emitted + 1
  /\ tap' = [tap EXCEPT ![current] = Append(@,
               [id |-> emitted + 1, dst |-> d, sentAt |-> guest[current]])]
  /\ UNCHANGED <<pc, clocks, queues, current, duration, toDeliver, gotStop,
                 elapsed, vm, guest, faultVars>>

-----------------------------------------------------------------------------
Simulator ==
  \/ \E v \in VM : ChooseVM(v)
  \/ \E j \in VM : MergeFrame(j)
  \/ StartSlice \/ Select \/ ReadTap \/ Deliver \/ QueryClock

Machine == Resume \/ Refuse \/ Stop \/ Fault \/ Tick \/ (\E d \in Dest : Emit(d))

(* The end of the modelled time, so that any other stop is a deadlock.     *)
HorizonReached == pc = "choose" /\ (\A v \in VM : clocks[v] >= Horizon) /\ UNCHANGED vars

Next == Simulator \/ Machine \/ HorizonReached

(* The simulator's thread keeps running, host time passes, QEMU resumes    *)
(* and stops the guest; a STOP event that can be read again and again is   *)
(* read in the end.  Nothing obliges a guest to send or to fail.           *)
Fairness ==
  /\ WF_vars(Simulator)
  /\ SF_vars(Select /\ gotStop')
  /\ WF_vars(Resume)
  /\ WF_vars(Stop)
  /\ WF_vars(Tick)

Spec == Init /\ [][Next]_vars
FairSpec == Spec /\ Fairness

-----------------------------------------------------------------------------
TypeOK ==
  /\ pc \in {"choose", "merge", "select", "tap", "deliver", "query"}
  /\ clocks \in [VM -> Nat]
  /\ queues \in [VM -> [VM -> Seq(Frame)]]
  /\ current \in VM
  /\ duration \in Nat
  /\ toDeliver \in Seq(Frame)
  /\ gotStop \in BOOLEAN
  /\ elapsed \in Nat
  /\ vm \in {"paused", "ordered", "refused", "running", "stopped"}
  /\ guest \in [VM -> Nat]
  /\ tap \in [VM -> Seq(Raw)]
  /\ emitted \in Nat
  /\ faulty \in SUBSET Fragile /\ needsReset \in SUBSET faulty
  /\ failed \in SUBSET Unwritable /\ lost \in SUBSET Loss

(* How the clocks the simulator keeps, the true clocks of the guests and   *)
(* the host's estimate are related at every step of a round: the books are     *)
(* exact except for the running VM, and for that one they are bounded by   *)
(* the slice it was given, which only ends early after a fault.            *)
(* This is the inductive invariant from which the theorems of              *)
(* SchedulerProofs follow.                                                 *)
SliceTiming ==
  /\ vm = "paused" <=> pc \in {"choose", "merge"}
  /\ pc = "query" \/ (InSlice /\ gotStop) => vm = "stopped"
  /\ \A v \in VM : v # current \/ vm \in {"paused", "ordered", "refused"} =>
       guest[v] = clocks[v]
  /\ clocks[current] <= guest[current]
  /\ guest[current] <= clocks[current] + RunFor + Overrun
  /\ vm = "stopped" => guest[current] >= clocks[current] + RunFor \/ current \in faulty
  /\ vm = "refused" => current \in needsReset
  /\ InSlice => guest[current] <= Estimate
  /\ pc # "choose" => \A w \in Limiting(current) : duration <= Slack(current, w)
  /\ \A i, j \in VM : i # j => clocks[i] <= clocks[j] + Lat(i, j) + Overrun

(* No VM outruns its peers: its virtual clock never passes the moment at   *)
(* which a frame another VM could still send now would have to reach it,   *)
(* but for the overrun of a slice.  This is what the choice of the VM and  *)
(* of duration_to_run_ns is for.                                           *)
Lookahead ==
  \A i, j \in VM : i # j =>
    guest[i] <= guest[j] + Lat(i, j) + Overrun

(* No frame is queued for a time its receiver has already lived through,   *)
(* but for the overrun: main.cpp stamps a frame when it reads it, and the  *)
(* receiver is still early enough to be handed it on time.                 *)
QueuedInFuture ==
  [][\A i, j \in VM : Len(queues'[i][j]) > Len(queues[i][j]) =>
       queues'[i][j][Len(queues'[i][j])].ts + Overrun >= guest[i]]_vars

(* A frame is never handed to its receiver before the configured one way   *)
(* latency has passed in virtual time, up to twice the time by which the   *)
(* host's estimate may lead the guests (once at each end of the link).     *)
(* Only the TAP of a guest that will never run again gets frames sooner.   *)
LatencyKept ==
  [][pc = "deliver" /\ current \notin needsReset =>
       \A k \in 1 .. Len(toDeliver) - Len(toDeliver') :
         guest[current] + 2 * Lead >=
           toDeliver[k].sentAt + Lat(current, toDeliver[k].from)]_vars

(* Frames of one link keep the order they were sent in, and none appears   *)
(* twice, whatever the merging of the queues and the search in the deque   *)
(* do: at any time the frames from j to i in the deque, then those in the  *)
(* queue, then those in j's TAP are one sequence with increasing ids, all  *)
(* of them given already, of which Deliver only ever takes the front.      *)
Increasing(s) == \A a, b \in 1 .. Len(s) : a < b => s[a].id < s[b].id
Before(s, t) == \A a \in 1 .. Len(s) : \A b \in 1 .. Len(t) : s[a].id < t[b].id
DequeInOrder ==
  /\ \A a, b \in 1 .. Len(toDeliver) :
       a < b /\ toDeliver[a].from = toDeliver[b].from => toDeliver[a].id < toDeliver[b].id
  /\ \A a \in 1 .. Len(toDeliver) :
       LET j == toDeliver[a].from IN
       /\ toDeliver[a].id <= emitted
       /\ \A b \in 1 .. Len(queues[current][j]) : toDeliver[a].id < queues[current][j][b].id
       /\ \A b \in 1 .. Len(tap[j]) : toDeliver[a].id < tap[j][b].id
QueuesInOrder ==
  \A i, j \in VM : /\ Increasing(queues[i][j])
                   /\ Before(queues[i][j], tap[j])
                   /\ \A n \in 1 .. Len(queues[i][j]) :
                        queues[i][j][n].from = j /\ queues[i][j][n].id <= emitted
TapsInOrder ==
  \A j \in VM : Increasing(tap[j]) /\ (\A n \in 1 .. Len(tap[j]) : tap[j][n].id <= emitted)
LinkOrder == DequeInOrder /\ QueuesInOrder /\ TapsInOrder

(* Frames are lost only through a failure: every frame that did not reach  *)
(* its receiver was for a guest that QEMU has stopped by itself, or that   *)
(* could not be written to.                                                *)
NoFrameLost == \A f \in lost : f.to \in faulty \cup failed

(* What the end of a slice can lose at all: the deque only ever holds      *)
(* frames due in the slice, and if some are left when the loop is left     *)
(* then the first of them is due after the guest has stopped.  Unless a    *)
(* fault has stopped it that is less than a millisecond before the end:    *)
(* the fraction that run-time-slice could not express.                     *)
LossWindow ==
  /\ pc # "choose" => \A k \in 1 .. Len(toDeliver) : toDeliver[k].ts <= SliceEnd
  /\ pc = "query" /\ toDeliver # <<>> =>
       /\ guest[current] < toDeliver[1].ts
       /\ current \in faulty \/ SliceEnd < guest[current] + Ms

(* How stamps relate to the clocks and to one another, the inductive       *)
(* invariant behind LatencyKept and NoOverdueFrame (LatencyProofs).  The   *)
(* host's estimate leads the running guest by at most Lead.  So a stamp is *)
(* at least the latency after the frame was sent, and never further than   *)
(* the latency and Lead ahead of its sender's clock: when it was read, or  *)
(* at any later time.  (By how much it exceeds sentAt depends on how long  *)
(* the frame waited in the TAP, which nothing bounds.)  Two frames of a    *)
(* link, or two of the merged deque, are out of order by at most Lead.     *)
(* That is how unsorted the range is on which std::upper_bound runs.  In a *)
(* slice that is refused the estimate goes on and no guest ever runs.      *)
NearlySorted(s) == \A m, n \in 1 .. Len(s) : m < n => s[m].ts <= s[n].ts + Lead
TapStamps ==
  \A v \in VM : \A n \in 1 .. Len(tap[v]) :
    tap[v][n].sentAt <= guest[v] /\ tap[v][n].dst # v
QueueStamps ==
  \A i, j \in VM :
    /\ vm # "refused" => NearlySorted(queues[i][j])
    /\ \A n \in 1 .. Len(queues[i][j]) :
         /\ i # j /\ queues[i][j][n].from = j
         /\ queues[i][j][n].sentAt + Lat(i, j) <= queues[i][j][n].ts
         /\ vm # "refused" => queues[i][j][n].ts <= guest[j] + Lat(i, j) + Lead
DequeStamps ==
  /\ NearlySorted(toDeliver)
  /\ \A n \in 1 .. Len(toDeliver) :
       /\ toDeliver[n].sentAt + Lat(current, toDeliver[n].from) <= toDeliver[n].ts
       /\ pc = "merge" => \A j \in VM : \A m \in 1 .. Len(queues[current][j]) :
            toDeliver[n].ts <= queues[current][j][m].ts + Lead
LeftInQueues ==
  InSlice => \A j \in VM : \A n \in 1 .. Len(queues[current][j]) :
    SliceEnd <= queues[current][j][n].ts + Lead
StampBounds ==
  /\ InSlice /\ vm # "refused" => Idle <= Lead
  /\ TapStamps /\ QueueStamps /\ DequeStamps /\ LeftInQueues

(* No frame waits in a queue while its receiver's clock moves on past its  *)
(* delivery time, but for the overrun and for the time the host's estimate *)
(* may lead (a late frame can hide behind one that is stamped too late).   *)
NoOverdueFrame ==
  \A i, j \in VM : \A n \in 1 .. Len(queues[i][j]) :
    guest[i] <= queues[i][j][n].ts + Overrun + Lead

(* Every VM keeps being scheduled: all of them get to the horizon, unless  *)
(* QEMU has stopped a guest by itself, whose slices may then be cut short. *)
AllReachHorizon == <>(faulty # {} \/ \A v \in VM : clocks[v] >= Horizon)

(* The simulator is a virtual network (module VirtualNetwork): the clocks  *)
(* are those of the guests, and what is on the wire from j to i is all of  *)
(* the link's frames in the deque, the queue and j's TAP.  It loses frames *)
(* if a slice can end between two milliseconds, and then only those that   *)
(* are due within the next; and frames to a VM that has failed, of which   *)
(* only those that were due before it could meet anything its peers were   *)
(* still to send.                                                          *)
Frames(s) == {s[n] : n \in 1 .. Len(s)}
Numbered(f) == [id |-> f.id, sentAt |-> f.sentAt]
Wire(i, j) ==
  {Numbered(f) : f \in {g \in Frames(toDeliver) : i = current /\ g.from = j}
                        \cup Frames(queues[i][j])
                        \cup {g \in Frames(tap[j]) : i # j /\ g.dst \in {i, Broadcast}}}

Network == INSTANCE VirtualNetwork WITH
  clock   <- guest,
  sent    <- emitted,
  wire    <- [i \in VM |-> [j \in VM |-> Wire(i, j)]],
  Latency <- [i \in VM |-> [j \in VM |-> Lat(i, j)]],
  Early   <- 2 * Lead,
  Late    <- Overrun,
  Grain   <- Ms - 1,
  Weak    <- Fragile \cup Unwritable,
  broken  <- faulty \cup failed

ImplementsNetwork == Network!Spec
=============================================================================
