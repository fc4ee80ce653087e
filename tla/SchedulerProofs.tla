--------------------------- MODULE SchedulerProofs ---------------------------
(***************************************************************************)
(* Theorems about the main loop for any number of VMs, any delays and any  *)
(* lags.  Those about time rest on one inductive invariant, TypeOK /\      *)
(* SliceTiming.  LinkOrder, that the frames of a link keep their order, is *)
(* inductive relative to TypeOK alone: the timing of the slices plays no   *)
(* part in it, nor does the deque being sorted.                            *)
(***************************************************************************)
EXTENDS Scheduler, SequenceTheorems, TLAPS

-----------------------------------------------------------------------------
(* Arithmetic: delays in ticks are naturals, and a slice is never ordered  *)
(* for longer than it was meant to be.                                     *)

LEMMA LatNat == ASSUME NEW i \in VM, NEW j \in VM PROVE Lat(i, j) \in Nat
  BY SchedulerAssumption DEF Lat

LEMMA WholeMs == ASSUME NEW d \in Nat
                 PROVE /\ (d \div Ms) * Ms \in Nat
                       /\ (d \div Ms) * Ms <= d
  BY SchedulerAssumption, Z3

LEMMA RestOfMs == ASSUME NEW d \in Nat PROVE d < (d \div Ms) * Ms + Ms
  BY SchedulerAssumption, Z3

(* Every slice chosen has a length that is a natural number.               *)
LEMMA SlackNat ==
  ASSUME TypeOK, NEW v \in VM, NEW w \in VM, IsNext(v)
  PROVE  Slack(v, w) \in Nat
  <1>1. clocks \in [VM -> Nat] BY DEF TypeOK
  <1>2. clocks[v] <= clocks[w] BY <1>1 DEF IsNext, VM
  <1> QED BY <1>1, <1>2, LatNat DEF Slack

-----------------------------------------------------------------------------
(* What every step keeps, action by action; the two parts of the invariant *)
(* are proved separately, typing first.                                    *)

LEMMA InitType == Init => TypeOK
  <1> SUFFICES ASSUME Init PROVE TypeOK OBVIOUS
  <1>1. 0 \in VM /\ 0 .. Overrun \subseteq Nat
    BY SchedulerAssumption DEF VM
  <1>2. clocks \in [VM -> Nat] BY <1>1 DEF Init
  <1>3. queues \in [VM -> [VM -> Seq(Frame)]] /\ toDeliver \in Seq(Frame)
    BY DEF Init
  <1>4. tap \in [VM -> Seq(Raw)] BY DEF Init
  <1> QED BY <1>1, <1>2, <1>3, <1>4 DEF Init, TypeOK

LEMMA LoseTyped ==
  ASSUME TypeOK, NEW places \in SUBSET (1 .. Len(toDeliver)), Lose(places)
  PROVE  lost' \in SUBSET Loss
  <1>1. \A n \in places : [id |-> toDeliver[n].id, to |-> current] \in Loss
    <2> SUFFICES ASSUME NEW n \in places
                 PROVE  [id |-> toDeliver[n].id, to |-> current] \in Loss
      OBVIOUS
    <2>1. toDeliver[n] \in Frame /\ current \in VM BY DEF TypeOK
    <2> QED BY <2>1 DEF Loss, Frame
  <1>2. lost \in SUBSET Loss BY DEF TypeOK
  <1> QED BY <1>1, <1>2 DEF Lose

LEMMA NextType == TypeOK /\ [Next]_vars => TypeOK'
  <1> SUFFICES ASSUME TypeOK, [Next]_vars PROVE TypeOK' OBVIOUS
  <1> USE DEF TypeOK, faultVars, vmVars, lossVars
  <1>1. ASSUME NEW v \in VM, ChooseVM(v) PROVE TypeOK'
    <2>1. duration' \in Nat
      <3>1. PICK w \in Limiting(v) : duration' = Slack(v, w) BY <1>1 DEF ChooseVM
      <3>2. w \in VM BY DEF Limiting
      <3> QED BY <3>1, <3>2, <1>1, SlackNat DEF ChooseVM
    <2> QED BY <1>1, <2>1 DEF ChooseVM
  <1>2. ASSUME NEW j \in VM, MergeFrame(j) PROVE TypeOK'
    <2>1. /\ queues[current][j] \in Seq(Frame)
          /\ queues[current][j] # <<>>
      BY <1>2 DEF MergeFrame, Due
    <2>2. /\ Head(queues[current][j]) \in Frame
          /\ Tail(queues[current][j]) \in Seq(Frame)
      BY <2>1, HeadTailProperties
    <2>3. toDeliver' \in Seq(Frame) BY <1>2, <2>2, AppendProperties DEF MergeFrame
    <2>4. queues' \in [VM -> [VM -> Seq(Frame)]] BY <1>2, <2>2 DEF MergeFrame
    <2> QED BY <1>2, <2>3, <2>4 DEF MergeFrame
  <1>3. CASE StartSlice BY <1>3 DEF StartSlice
  <1>4. CASE Select BY <1>4 DEF Select
  <1>5. CASE ReadTap
    <2> DEFINE f == Head(tap[current])
               Stamped(i) == [id |-> f.id, from |-> current, sentAt |-> f.sentAt,
                              ts |-> Estimate + Lat(i, current)]
    <2>1. /\ f \in Raw
          /\ Tail(tap[current]) \in Seq(Raw)
      BY <1>5, HeadTailProperties DEF ReadTap
    <2>2. ASSUME NEW i \in VM PROVE Stamped(i) \in Frame
      <3>1. Estimate \in Nat BY DEF Estimate
      <3>2. Estimate + Lat(i, current) \in Nat BY <3>1, LatNat
      <3> QED BY <2>1, <3>2 DEF Frame, Raw
    <2>3. ASSUME NEW i \in VM
          PROVE [queues[i] EXCEPT ![current] = Append(@, Stamped(i))] \in [VM -> Seq(Frame)]
      BY <2>2, AppendProperties
    <2>4. queues' \in [VM -> [VM -> Seq(Frame)]] BY <1>5, <2>3 DEF ReadTap
    <2>5. tap' \in [VM -> Seq(Raw)] BY <1>5, <2>1 DEF ReadTap
    <2> QED BY <1>5, <2>4, <2>5 DEF ReadTap
  <1>6. CASE Deliver
    <2>0. PICK k \in 0 .. Len(toDeliver) : WriteFirst(k) BY <1>6 DEF Deliver
    <2>1. PICK errors \in SUBSET (1 .. k) :
            /\ toDeliver' = SubSeq(toDeliver, k + 1, Len(toDeliver))
            /\ errors # {} => current \in Unwritable
            /\ failed' = IF errors = {} THEN failed ELSE failed \cup {current}
            /\ Lose(IF current \in needsReset THEN 1 .. k ELSE errors)
      BY <2>0 DEF WriteFirst
    <2>2. toDeliver' \in Seq(Frame) BY <2>1
    <2>3. failed' \in SUBSET Unwritable BY <2>1
    <2>4. lost' \in SUBSET Loss
      <3> DEFINE places == IF current \in needsReset THEN 1 .. k ELSE errors
      <3>1. Len(toDeliver) \in Nat OBVIOUS
      <3>2. places \in SUBSET (1 .. Len(toDeliver)) BY <3>1
      <3>3. Lose(places) BY <2>1
      <3> HIDE DEF places
      <3> QED BY <3>2, <3>3, LoseTyped
    <2> QED BY <1>6, <2>2, <2>3, <2>4 DEF Deliver
  <1>7. CASE QueryClock
    <2>1. lost' \in SUBSET Loss BY <1>7, LoseTyped DEF QueryClock
    <2> QED BY <1>7, <2>1 DEF QueryClock
  <1>8. CASE Resume \/ Refuse BY <1>8 DEF Resume, Refuse
  <1>9. CASE Stop \/ Fault
    <2>1. CASE Stop BY <2>1 DEF Stop
    <2>2. CASE Fault
      <3>1. faulty' \in SUBSET Fragile /\ needsReset' \in SUBSET faulty'
        BY <2>2 DEF Fault
      <3> QED BY <2>2, <3>1 DEF Fault
    <2> QED BY <1>9, <2>1, <2>2
  <1>10. CASE Tick
    <2>1. guest[current] + 1 \in Nat OBVIOUS
    <2>2. CASE UNCHANGED guest BY <1>10, <2>2 DEF Tick
    <2>3. CASE guest' = [guest EXCEPT ![current] = @ + 1] BY <1>10, <2>1, <2>3 DEF Tick
    <2> QED BY <1>10, <2>2, <2>3 DEF Tick
  <1>11. ASSUME NEW d \in Dest, Emit(d) PROVE TypeOK'
    <2>1. [id |-> emitted + 1, dst |-> d, sentAt |-> guest[current]] \in Raw
      BY DEF Raw
    <2>2. tap' \in [VM -> Seq(Raw)] BY <1>11, <2>1, AppendProperties DEF Emit
    <2> QED BY <1>11, <2>2 DEF Emit
  <1>12. CASE HorizonReached BY <1>12 DEF HorizonReached, vars
  <1>13. CASE UNCHANGED vars BY <1>13 DEF vars
  <1> QED
    BY <1>1, <1>2, <1>3, <1>4, <1>5, <1>6, <1>7, <1>8, <1>9, <1>10, <1>11, <1>12, <1>13
    DEF Next, Simulator, Machine

(* Every variable keeps its type, clocks and slice lengths in particular   *)
(* stay natural numbers: no unsigned subtraction of the code wraps.        *)
THEOREM TypeCorrect == Spec => []TypeOK
  BY InitType, NextType, PTL DEF Spec

-----------------------------------------------------------------------------
(* The timing of a slice.  SliceTiming is inductive relative to TypeOK.    *)

LEMMA RunForBound == TypeOK => RunFor \in Nat /\ RunFor <= duration
  BY WholeMs DEF RunFor, TypeOK

LEMMA ElementsAreFrames ==
  ASSUME NEW s \in Seq(Frame), NEW k \in 1 .. Len(s)
  PROVE  s[k].id \in Nat /\ s[k].from \in VM /\ s[k].sentAt \in Nat /\ s[k].ts \in Nat
  <1>1. s[k] \in Frame OBVIOUS
  <1> QED BY <1>1 DEF Frame

LEMMA EstimateNat ==
  TypeOK => Estimate \in Nat /\ SliceEnd \in Nat /\ \A v \in VM : guest[v] \in Nat
  <1> SUFFICES ASSUME TypeOK
               PROVE  Estimate \in Nat /\ SliceEnd \in Nat /\ \A v \in VM : guest[v] \in Nat
    OBVIOUS
  <1>1. /\ clocks \in [VM -> Nat] /\ guest \in [VM -> Nat]
        /\ current \in VM /\ elapsed \in Nat /\ duration \in Nat
    BY DEF TypeOK
  <1> QED BY <1>1 DEF Estimate, SliceEnd

LEMMA InitTiming == Init => SliceTiming
  <1> SUFFICES ASSUME Init PROVE SliceTiming OBVIOUS
  <1>1. TypeOK BY InitType
  <1>2. RunFor \in Nat BY <1>1, RunForBound
  <1>3. ASSUME NEW i \in VM, NEW j \in VM
        PROVE  clocks[i] <= clocks[j] + Lat(i, j) + Overrun
    <2>1. clocks[i] \in 0 .. Overrun /\ clocks[j] \in 0 .. Overrun BY DEF Init
    <2> QED BY <2>1, LatNat, SchedulerAssumption
  <1>4. /\ clocks[current] <= guest[current]
        /\ guest[current] <= clocks[current] + RunFor + Overrun
    BY <1>1, <1>2, SchedulerAssumption DEF Init, TypeOK
  <1> QED BY <1>3, <1>4 DEF Init, SliceTiming, InSlice

(* A round of the scheduler, step by step: only Tick moves a guest's clock *)
(* and the host's, only QueryClock the simulator's, only ChooseVM a slice. *)
LEMMA NextTiming == TypeOK /\ SliceTiming /\ [Next]_vars => SliceTiming'
  <1> SUFFICES ASSUME TypeOK, SliceTiming, [Next]_vars PROVE SliceTiming' OBVIOUS
  <1> USE DEF faultVars, vmVars
  <1>t. TypeOK' BY NextType
  <1>a. /\ clocks \in [VM -> Nat] /\ clocks' \in [VM -> Nat]
        /\ guest \in [VM -> Nat] /\ guest' \in [VM -> Nat]
        /\ current \in VM /\ current' \in VM
        /\ duration \in Nat /\ duration' \in Nat
        /\ elapsed \in Nat /\ elapsed' \in Nat
    BY <1>t DEF TypeOK
  <1>r. /\ RunFor \in Nat /\ RunFor <= duration
        /\ RunFor' \in Nat /\ RunFor' <= duration'
    BY <1>t, RunForBound, WholeMs, <1>a DEF RunFor
  <1>o. Overrun \in Nat BY SchedulerAssumption
  <1>1. ASSUME NEW v \in VM, ChooseVM(v) PROVE SliceTiming'
    <2>1. /\ vm' = "paused" /\ pc' = "merge" /\ current' = v
          /\ guest' = guest /\ clocks' = clocks /\ \A u \in VM : guest[u] = clocks[u]
      BY <1>1 DEF ChooseVM, SliceTiming
    <2>2. \A w \in Limiting(v) : duration' <= clocks[w] + Lat(v, w) - clocks[v]
      BY <1>1 DEF ChooseVM, Slack
    <2>3. guest[v] <= clocks[v] + RunFor' + Overrun BY <2>1, <1>a, <1>r, <1>o
    <2> QED BY <2>1, <2>2, <2>3, <1>a DEF SliceTiming, InSlice, Slack, Lat, Limiting
  <1>2. ASSUME NEW j \in VM, MergeFrame(j) PROVE SliceTiming'
    BY <1>2 DEF MergeFrame, SliceTiming, InSlice, RunFor, Slack, Estimate
  <1>3. CASE StartSlice
    BY <1>3, <1>a DEF StartSlice, SliceTiming, InSlice, RunFor, Slack, Estimate
  <1>4. CASE Select
    BY <1>4 DEF Select, SliceTiming, InSlice, RunFor, Slack, Estimate
  <1>5. CASE ReadTap
    BY <1>5 DEF ReadTap, SliceTiming, InSlice, RunFor, Slack, Estimate
  <1>6. CASE Deliver
    BY <1>6 DEF Deliver, SliceTiming, InSlice, RunFor, Slack, Estimate
  <1>7. CASE QueryClock
    <2>1. /\ vm' = "paused" /\ pc' = "choose" /\ guest' = guest
          /\ current' = current /\ duration' = duration
          /\ clocks' = [clocks EXCEPT ![current] = guest[current]]
      BY <1>7 DEF QueryClock
    <2>2. \A v \in VM : guest[v] = clocks'[v]
      BY <2>1, <1>a DEF SliceTiming
    <2>3. guest[current] <= clocks'[current] + RunFor' + Overrun
      BY <2>2, <1>a, <1>r, <1>o
    <2>4. ASSUME NEW i \in VM, NEW j \in VM, i # j
          PROVE  clocks'[i] <= clocks'[j] + Lat(i, j) + Overrun
      <3>1. Lat(i, j) \in Nat BY LatNat
      <3>2. clocks[i] <= clocks[j] + Lat(i, j) + Overrun BY <2>4 DEF SliceTiming
      <3>3. CASE i = current
        <4>1. duration <= Slack(current, j)
          BY <2>4, <3>3, <1>7 DEF SliceTiming, QueryClock, Limiting, VM
        <4>2. guest[i] <= clocks[i] + duration + Overrun
          BY <3>3, <1>a, <1>r, <1>o DEF SliceTiming
        <4>3. clocks'[i] = guest[i] /\ clocks'[j] = clocks[j]
          BY <2>1, <2>4, <3>3, <1>a
        <4> QED BY <4>1, <4>2, <4>3, <3>1, <3>3, <1>a, <1>o DEF Slack
      <3>4. CASE j = current
        <4>1. clocks[j] <= guest[j] BY <3>4 DEF SliceTiming
        <4>2. clocks'[j] = guest[j] /\ clocks'[i] = clocks[i]
          BY <2>1, <2>4, <3>4, <1>a
        <4> QED BY <4>1, <4>2, <3>1, <3>2, <1>a, <1>o
      <3>5. CASE i # current /\ j # current
        BY <2>1, <3>2, <3>5, <1>a
      <3> QED BY <3>3, <3>4, <3>5
    <2>5. clocks'[current] <= guest[current] BY <2>2, <1>a
    <2> QED BY <2>1, <2>2, <2>3, <2>4, <2>5 DEF SliceTiming, InSlice, RunFor, Lat
  <1>8. CASE Resume \/ Refuse
    BY <1>8 DEF Resume, Refuse, SliceTiming, InSlice, RunFor, Slack, Estimate
  <1>9. CASE Stop \/ Fault
    <2>1. CASE Stop
      BY <2>1 DEF Stop, SliceTiming, InSlice, RunFor, Slack, Estimate
    <2>2. CASE Fault
      BY <2>2 DEF Fault, SliceTiming, InSlice, RunFor, Slack, Estimate
    <2> QED BY <1>9, <2>1, <2>2
  <1>10. CASE Tick
    <2>1. /\ InSlice /\ elapsed' = elapsed + 1
          /\ UNCHANGED <<pc, clocks, current, duration, gotStop, vm, faulty, needsReset>>
      BY <1>10 DEF Tick
    <2>2. CASE UNCHANGED guest
      BY <2>1, <2>2, <1>a DEF SliceTiming, InSlice, RunFor, Slack, Lat, Estimate, Limiting
    <2>3. CASE /\ vm = "running" /\ guest[current] < clocks[current] + RunFor + Overrun
               /\ guest' = [guest EXCEPT ![current] = @ + 1]
      <3>1. \A u \in VM : u # current => guest'[u] = clocks'[u]
        BY <2>1, <2>3, <1>a DEF SliceTiming
      <3>2. guest'[current] = guest[current] + 1 BY <2>3, <1>a
      <3>3. guest[current] <= clocks[current] + elapsed BY <2>1 DEF SliceTiming, Estimate
      <3>4. RunFor' = RunFor BY <2>1 DEF RunFor
      <3>5. /\ clocks'[current] <= guest'[current]
            /\ guest'[current] <= clocks'[current] + RunFor' + Overrun
            /\ guest'[current] <= Estimate'
        BY <2>1, <2>3, <3>2, <3>3, <3>4, <1>a, <1>r, <1>o DEF SliceTiming, Estimate
      <3> QED BY <2>1, <2>3, <3>1, <3>5 DEF SliceTiming, InSlice, Slack, Lat, Limiting
    <2> QED BY <1>10, <2>2, <2>3 DEF Tick
  <1>11. ASSUME NEW d \in Dest, Emit(d) PROVE SliceTiming'
    BY <1>11 DEF Emit, SliceTiming, InSlice, RunFor, Slack, Estimate
  <1>12. CASE UNCHANGED vars
    BY <1>12 DEF vars, SliceTiming, InSlice, RunFor, Slack, Estimate
  <1> QED
    BY <1>1, <1>2, <1>3, <1>4, <1>5, <1>6, <1>7, <1>8, <1>9, <1>10, <1>11, <1>12
    DEF Next, Simulator, Machine, HorizonReached

(* What the simulator knows of the clocks is right at every step of a      *)
(* round (SliceTiming).                                                    *)
THEOREM TimingCorrect == Spec => []SliceTiming
  <1>1. Init => TypeOK /\ SliceTiming BY InitType, InitTiming
  <1>2. TypeOK /\ SliceTiming /\ [Next]_vars => (TypeOK /\ SliceTiming)'
    BY NextType, NextTiming
  <1> QED BY <1>1, <1>2, PTL DEF Spec

(* No VM outruns its peers (Lookahead): the running VM is bounded by the   *)
(* slice it was given, every other one by the round that scheduled it.     *)
LEMMA TimingGivesLookahead == TypeOK /\ SliceTiming => Lookahead
  <1> SUFFICES ASSUME TypeOK, SliceTiming, NEW i \in VM, NEW j \in VM, i # j
               PROVE  guest[i] <= guest[j] + Lat(i, j) + Overrun
    BY DEF Lookahead
  <1>a. /\ clocks \in [VM -> Nat] /\ guest \in [VM -> Nat]
        /\ current \in VM /\ duration \in Nat
    BY DEF TypeOK
  <1>r. RunFor \in Nat /\ RunFor <= duration BY RunForBound
  <1>o. Overrun \in Nat /\ Lat(i, j) \in Nat BY SchedulerAssumption, LatNat
  <1>1. clocks[i] <= clocks[j] + Lat(i, j) + Overrun BY DEF SliceTiming
  <1>2. clocks[j] <= guest[j]
    BY <1>a DEF SliceTiming
  <1>3. CASE i # current BY <1>1, <1>2, <1>3, <1>a, <1>o DEF SliceTiming
  <1>4. CASE i = current /\ pc = "choose"
    BY <1>1, <1>2, <1>4, <1>a, <1>o DEF SliceTiming
  <1>5. CASE i = current /\ pc # "choose"
    <2>1. duration <= Slack(current, j) BY <1>5 DEF SliceTiming, Limiting, VM
    <2>2. guest[i] <= clocks[i] + RunFor + Overrun BY <1>5 DEF SliceTiming
    <2> QED BY <2>1, <2>2, <1>2, <1>5, <1>a, <1>r, <1>o DEF Slack
  <1> QED BY <1>3, <1>4, <1>5

(* No VM runs past the time at which a frame that another VM may still     *)
(* send would reach it: what duration_to_run_ns is computed for.           *)
THEOREM NoVMOutrunsItsPeers == Spec => []Lookahead
  BY TypeCorrect, TimingCorrect, TimingGivesLookahead, PTL

(* A frame is queued for a time that its receiver has not passed by more   *)
(* than the overrun (QueuedInFuture).                                      *)
LEMMA StepQueuesInFuture ==
  ASSUME TypeOK, SliceTiming, [Next]_vars,
         NEW i \in VM, NEW j \in VM, Len(queues'[i][j]) > Len(queues[i][j])
  PROVE  queues'[i][j][Len(queues'[i][j])].ts + Overrun >= guest[i]
  <1>q. queues \in [VM -> [VM -> Seq(Frame)]] /\ current \in VM BY DEF TypeOK
  <1>1. CASE ReadTap
    <2> DEFINE f == Head(tap[current])
               Stamped(n) == [id |-> f.id, from |-> current, sentAt |-> f.sentAt,
                              ts |-> Estimate + Lat(n, current)]
    <2>1. queues' = [n \in VM |-> IF n \in Receivers(f)
                      THEN [queues[n] EXCEPT ![current] = Append(@, Stamped(n))]
                      ELSE queues[n]]
      BY <1>1 DEF ReadTap
    <2>2. i \in Receivers(f) /\ j = current BY <2>1, <1>q
    <2>3. queues'[i][j] = Append(queues[i][j], Stamped(i)) BY <2>1, <2>2, <1>q
    <2>4. queues'[i][j][Len(queues'[i][j])] = Stamped(i)
      <3>1. queues[i][j] \in Seq(Frame) BY <1>q
      <3> HIDE DEF Stamped
      <3> QED BY <2>3, <3>1
    <2>5. Estimate + Lat(i, current) + Overrun >= guest[i]
      <3>1. /\ Estimate \in Nat
            /\ guest[i] \in Nat /\ guest[current] \in Nat
        BY EstimateNat, <1>q
      <3>4. guest[current] <= Estimate
        BY <1>1 DEF ReadTap, SliceTiming, InSlice
      <3>2. Overrun \in Nat /\ Lat(i, current) \in Nat
        BY SchedulerAssumption, LatNat, <1>q
      <3>3. i # current => guest[i] <= guest[current] + Lat(i, current) + Overrun
        BY TimingGivesLookahead, <1>q DEF Lookahead
      <3> QED BY <3>1, <3>2, <3>3, <3>4
    <2> QED BY <2>4, <2>5
  <1>2. CASE ~ReadTap
    <2>1. queues' = queues \/ \E m \in VM : MergeFrame(m)
      BY <1>2 DEF Next, Simulator, Machine, ChooseVM, StartSlice, Select, Deliver,
                  QueryClock, Resume, Refuse, Stop, Fault, Tick, Emit, HorizonReached, vars
    <2>2. ASSUME NEW m \in VM, MergeFrame(m) PROVE FALSE
      <3>1. queues[current][m] \in Seq(Frame) /\ queues[current][m] # <<>>
        BY <2>2, <1>q DEF MergeFrame, Due
      <3>2. queues' = [queues EXCEPT ![current][m] = Tail(@)]
        BY <2>2 DEF MergeFrame
      <3>3. CASE i = current /\ j = m
        <4>1. queues'[i][j] = Tail(queues[i][j]) BY <3>2, <3>3, <1>q
        <4>2. /\ Len(queues[i][j]) \in Nat
              /\ Len(Tail(queues[i][j])) = Len(queues[i][j]) - 1
          BY <3>1, <3>3, HeadTailProperties, LenProperties
        <4> QED BY <4>1, <4>2
      <3>4. CASE i # current \/ j # m BY <3>2, <3>4, <1>q
      <3> QED BY <3>3, <3>4
    <2> QED BY <2>1, <2>2, <1>q
  <1> QED BY <1>1, <1>2

(* The stamp main.cpp gives a frame when it reads it from a TAP is never   *)
(* in the past of the VM the frame is queued for, but for the overrun.     *)
THEOREM FramesAreQueuedInFuture == Spec => QueuedInFuture
  <1>1. TypeOK /\ SliceTiming /\ [Next]_vars =>
          [\A i, j \in VM : Len(queues'[i][j]) > Len(queues[i][j]) =>
             queues'[i][j][Len(queues'[i][j])].ts + Overrun >= guest[i]]_vars
    BY StepQueuesInFuture
  <1> QED BY <1>1, TypeCorrect, TimingCorrect, PTL DEF Spec, QueuedInFuture

-----------------------------------------------------------------------------
(* What can be lost.  The frames collected for a slice are due in it; once *)
(* the STOP event is seen the estimate has passed the guest's clock, so    *)
(* the search of upper_bound cannot leave a frame that is due before.  If  *)
(* no fault has stopped the guest, its clock has passed the ordered run    *)
(* time, which is less than a millisecond short of the slice.              *)
LEMMA NextLoss ==
  TypeOK /\ SliceTiming /\ LossWindow /\ [Next]_vars => LossWindow'
  <1> SUFFICES ASSUME TypeOK, SliceTiming, LossWindow, [Next]_vars PROVE LossWindow'
    OBVIOUS
  <1>t. TypeOK' BY NextType
  <1>a. toDeliver \in Seq(Frame) /\ current \in VM BY DEF TypeOK
  <1>b. Estimate \in Nat /\ SliceEnd \in Nat BY EstimateNat
  <1>1. CASE \/ \E v \in VM : ChooseVM(v)
             \/ QueryClock
    BY <1>1 DEF ChooseVM, QueryClock, LossWindow
  <1>2. ASSUME NEW j \in VM, MergeFrame(j) PROVE LossWindow'
    <2> DEFINE h == Head(queues[current][j])
    <2>1. /\ pc = "merge" /\ pc' = "merge" /\ SliceEnd' = SliceEnd
          /\ toDeliver' = Append(toDeliver, h) /\ h.ts <= SliceEnd
      BY <1>2 DEF MergeFrame, Due, SliceEnd
    <2>2. ASSUME NEW k \in 1 .. Len(toDeliver') PROVE toDeliver'[k].ts <= SliceEnd
      <3>1. CASE k = Len(toDeliver) + 1 BY <2>1, <1>a, <3>1
      <3>2. CASE k # Len(toDeliver) + 1
        <4>1. k \in 1 .. Len(toDeliver) /\ toDeliver'[k] = toDeliver[k]
          BY <2>1, <1>a, <3>2
        <4> QED BY <4>1, <2>1 DEF LossWindow
      <3> QED BY <3>1, <3>2
    <2> QED BY <2>1, <2>2 DEF LossWindow
  <1>3. CASE Deliver
    <2>1. PICK k \in 0 .. Len(toDeliver) :
            /\ IsUpperBound(k, Estimate)
            /\ toDeliver' = SubSeq(toDeliver, k + 1, Len(toDeliver))
      BY <1>3 DEF Deliver, WriteFirst
    <2>2. /\ pc = "deliver" /\ SliceEnd' = SliceEnd
          /\ clocks' = clocks /\ current' = current /\ RunFor' = RunFor
      BY <1>3 DEF Deliver, SliceEnd, RunFor
    <2>3. \A n \in 1 .. Len(toDeliver') : toDeliver'[n] = toDeliver[k + n]
                                         /\ k + n \in 1 .. Len(toDeliver)
      BY <2>1, <1>a
    <2>4. \A n \in 1 .. Len(toDeliver') : toDeliver'[n].ts <= SliceEnd'
      BY <2>2, <2>3 DEF LossWindow
    <2>5. ASSUME pc' = "query", toDeliver' # <<>>
          PROVE  /\ guest[current] < toDeliver'[1].ts
                 /\ current \in faulty \/ SliceEnd < guest[current] + Ms
      <3>1. vm = "stopped"
        BY <2>2, <2>5, <1>3 DEF Deliver, SliceTiming, InSlice
      <3>2. guest[current] <= Estimate /\ guest[current] \in Nat
        BY <2>2, <1>a, EstimateNat DEF SliceTiming, InSlice
      <3>3. k < Len(toDeliver) /\ toDeliver'[1] = toDeliver[k + 1]
        BY <2>1, <2>3, <2>5, <1>a
      <3>4. /\ Estimate < toDeliver[k + 1].ts
            /\ toDeliver[k + 1].ts \in Nat
        <4>1. Estimate < toDeliver[k + 1].ts BY <2>1, <3>3 DEF IsUpperBound
        <4>2. k + 1 \in 1 .. Len(toDeliver) BY <2>1, <3>3, <1>a
        <4> QED BY <4>1, <4>2, <1>a, ElementsAreFrames
      <3>5. current \in faulty \/ guest[current] >= clocks[current] + RunFor
        BY <3>1 DEF SliceTiming
      <3>6. /\ clocks[current] \in Nat /\ RunFor \in Nat /\ duration \in Nat
            /\ Ms \in Nat /\ duration < RunFor + Ms
        BY <1>a, RunForBound, RestOfMs, SchedulerAssumption DEF TypeOK, RunFor
      <3>7. guest[current] < toDeliver'[1].ts BY <3>2, <3>3, <3>4, <1>b
      <3>8. current \in faulty \/ SliceEnd < guest[current] + Ms
        BY ONLY <3>2, <3>5, <3>6 DEF SliceEnd
      <3> QED BY <3>7, <3>8
    <2> QED BY <2>2, <2>4, <2>5, <1>3 DEF Deliver, vmVars, LossWindow
  <1>4. CASE StartSlice \/ Select \/ ReadTap \/ HorizonReached \/ UNCHANGED vars
    BY <1>4 DEF StartSlice, Select, ReadTap, HorizonReached, vars, faultVars,
                LossWindow, SliceEnd
  <1>5. CASE Machine
    <2>1. /\ pc' = pc /\ toDeliver' = toDeliver /\ clocks' = clocks
          /\ current' = current /\ duration' = duration /\ faulty \subseteq faulty'
      BY <1>5 DEF Machine, Resume, Refuse, Stop, Fault, Tick, Emit, faultVars
    <2>2. pc = "query" => guest' = guest
      BY <1>5 DEF Machine, Resume, Refuse, Stop, Fault, Tick, Emit, InSlice
    <2> QED BY <2>1, <2>2 DEF LossWindow, SliceEnd
  <1> QED BY <1>1, <1>2, <1>3, <1>4, <1>5 DEF Next, Simulator

(* What goes out of scope with deque_to_deliver is due after the guest has *)
(* stopped, and the slice it was due in ends within the fraction of a      *)
(* millisecond that run-time-slice cannot express, but for a guest that    *)
(* QEMU has stopped by itself: LossWindow.                                 *)
THEOREM LossIsConfined == Spec => []LossWindow
  <1>1. Init => LossWindow BY DEF Init, LossWindow
  <1> QED BY <1>1, NextLoss, TypeCorrect, TimingCorrect, PTL DEF Spec

LEMMA NextNoFrameLost ==
  ASSUME Ms = 1, TypeOK, SliceTiming, LossWindow, NoFrameLost, [Next]_vars
  PROVE  NoFrameLost'
  <1>1. ASSUME NEW places, Lose(places), faulty \subseteq faulty', failed \subseteq failed',
               places # {} => current \in faulty' \cup failed'
        PROVE  NoFrameLost'
    <2> SUFFICES ASSUME NEW f \in lost' PROVE f.to \in faulty' \cup failed'
      BY DEF NoFrameLost
    <2>1. CASE f \in lost BY <1>1, <2>1 DEF NoFrameLost
    <2>2. CASE f \notin lost
      <3>1. PICK n \in places : f = [id |-> toDeliver[n].id, to |-> current]
        BY <1>1, <2>2 DEF Lose
      <3> QED BY <1>1, <3>1
    <2> QED BY <2>1, <2>2
  <1>2. CASE Deliver
    <2>0. PICK k \in 0 .. Len(toDeliver) : WriteFirst(k) BY <1>2 DEF Deliver
    <2>1. PICK errors \in SUBSET (1 .. k) :
            /\ failed' = IF errors = {} THEN failed ELSE failed \cup {current}
            /\ Lose(IF current \in needsReset THEN 1 .. k ELSE errors)
      BY <2>0 DEF WriteFirst
    <2>2. faulty' = faulty /\ needsReset \subseteq faulty
      BY <1>2 DEF Deliver, vmVars, TypeOK
    <2> QED BY <1>1, <2>1, <2>2
  <1>3. CASE QueryClock
    <2>1. faulty' = faulty /\ failed' = failed /\ Lose(1 .. Len(toDeliver))
      BY <1>3 DEF QueryClock, vmVars
    <2>2. ASSUME 1 .. Len(toDeliver) # {} PROVE current \in faulty
      <3>1. 1 \in 1 .. Len(toDeliver) /\ toDeliver # <<>> /\ toDeliver \in Seq(Frame)
        BY <2>2 DEF TypeOK
      <3>2. toDeliver[1].ts \in Nat BY <3>1, ElementsAreFrames
      <3>3. SliceEnd \in Nat /\ guest[current] \in Nat BY EstimateNat DEF TypeOK
      <3>4. /\ toDeliver[1].ts <= SliceEnd
            /\ guest[current] < toDeliver[1].ts
            /\ current \in faulty \/ SliceEnd < guest[current] + Ms
        BY <3>1, <1>3 DEF QueryClock, LossWindow
      <3> QED BY <3>2, <3>3, <3>4
    <2> QED BY <1>1, <2>1, <2>2
  <1>4. CASE UNCHANGED lossVars /\ faulty \subseteq faulty'
    BY <1>4 DEF lossVars, NoFrameLost
  <1>5. CASE ~Deliver /\ ~QueryClock
    <2>1. UNCHANGED lossVars /\ faulty \subseteq faulty'
      BY <1>5 DEF Next, Simulator, Machine, ChooseVM, MergeFrame, StartSlice, Select,
                  ReadTap, Resume, Refuse, Stop, Fault, Tick, Emit, HorizonReached,
                  vars, faultVars, lossVars
    <2> QED BY <1>4, <2>1
  <1> QED BY <1>2, <1>3, <1>5

(* When every delay and every clock is a whole number of milliseconds, a   *)
(* frame is lost only on its way to a VM whose guest QEMU has stopped by   *)
(* itself or whose TAP could not be written: the truncation of the slice   *)
(* to milliseconds is the only other cause of a loss.                      *)
THEOREM NothingLostInWholeMs == Ms = 1 => (Spec => []NoFrameLost)
  <1>1. Init => NoFrameLost BY DEF Init, NoFrameLost
  <1> SUFFICES ASSUME Ms = 1 PROVE Spec => []NoFrameLost OBVIOUS
  <1>2. TypeOK /\ SliceTiming /\ LossWindow /\ NoFrameLost /\ [Next]_vars => NoFrameLost'
    BY NextNoFrameLost
  <1> QED BY <1>1, <1>2, TypeCorrect, TimingCorrect, LossIsConfined, PTL DEF Spec

-----------------------------------------------------------------------------
(* Sequences, whatever their elements.                                     *)

LEMMA TailElements ==
  ASSUME NEW S, NEW s \in Seq(S), s # <<>>
  PROVE  /\ Tail(s) \in Seq(S) /\ Len(Tail(s)) = Len(s) - 1
         /\ Head(s) = s[1] /\ 1 \in 1 .. Len(s)
         /\ \A n \in 1 .. Len(Tail(s)) : n + 1 \in 1 .. Len(s) /\ Tail(s)[n] = s[n + 1]
  BY HeadTailProperties

LEMMA AppendElements ==
  ASSUME NEW S, NEW s \in Seq(S), NEW e \in S, NEW n \in 1 .. Len(Append(s, e))
  PROVE  \/ n \in 1 .. Len(s) /\ Append(s, e)[n] = s[n]
         \/ n = Len(s) + 1 /\ Append(s, e)[n] = e
  BY AppendProperties

LEMMA IncreasingTail ==
  ASSUME NEW S, NEW s \in Seq(S), s # <<>>, Increasing(s)
  PROVE  /\ Increasing(Tail(s))
         /\ \A n \in 1 .. Len(Tail(s)) : Head(s).id < Tail(s)[n].id
  <1>1. ASSUME NEW a \in 1 .. Len(Tail(s)), NEW b \in 1 .. Len(Tail(s)), a < b
        PROVE  Tail(s)[a].id < Tail(s)[b].id
    <2>1. /\ a + 1 \in 1 .. Len(s) /\ Tail(s)[a] = s[a + 1]
          /\ b + 1 \in 1 .. Len(s) /\ Tail(s)[b] = s[b + 1]
          /\ a + 1 < b + 1
      BY <1>1, TailElements
    <2> QED BY <2>1 DEF Increasing
  <1>2. ASSUME NEW n \in 1 .. Len(Tail(s)) PROVE Head(s).id < Tail(s)[n].id
    <2>1. /\ Head(s) = s[1] /\ 1 \in 1 .. Len(s) /\ 1 < n + 1
          /\ n + 1 \in 1 .. Len(s) /\ Tail(s)[n] = s[n + 1]
      BY TailElements
    <2> QED BY <2>1 DEF Increasing
  <1> QED BY <1>1, <1>2 DEF Increasing

LEMMA IncreasingAppend ==
  ASSUME NEW S, NEW s \in Seq(S), NEW e \in S, Increasing(s),
         \A n \in 1 .. Len(s) : s[n].id < e.id
  PROVE  Increasing(Append(s, e))
  <1> SUFFICES ASSUME NEW a \in 1 .. Len(Append(s, e)), NEW b \in 1 .. Len(Append(s, e)), a < b
               PROVE  Append(s, e)[a].id < Append(s, e)[b].id
    BY DEF Increasing
  <1>1. a \in 1 .. Len(s) /\ Append(s, e)[a] = s[a]
    BY AppendProperties
  <1>2. CASE b \in 1 .. Len(s) BY <1>1, <1>2, AppendProperties DEF Increasing
  <1>3. CASE b = Len(s) + 1 BY <1>1, <1>3, AppendProperties
  <1> QED BY <1>2, <1>3, AppendElements

-----------------------------------------------------------------------------
(* The steps that disturb the order of a link, one lemma for each.         *)

LEMMA TapElements ==
  ASSUME NEW s \in Seq(Raw), NEW k \in 1 .. Len(s)
  PROVE  s[k].id \in Nat
  <1>1. s[k] \in Raw OBVIOUS
  <1> QED BY <1>1 DEF Raw

(* Merging moves the front of a queue to the end of the deque.             *)
LEMMA MergeKeepsOrder ==
  ASSUME TypeOK, LinkOrder, NEW j \in VM, MergeFrame(j)
  PROVE  LinkOrder'
  <1> DEFINE q == queues[current][j]
             h == Head(q)
  <1>1. /\ current \in VM /\ toDeliver \in Seq(Frame) /\ emitted \in Nat
        /\ queues \in [VM -> [VM -> Seq(Frame)]] /\ tap \in [VM -> Seq(Raw)]
    BY DEF TypeOK
  <1>2. q \in Seq(Frame) /\ q # <<>> BY <1>1 DEF MergeFrame, Due
  <1>3. /\ toDeliver' = Append(toDeliver, h)
        /\ queues' = [queues EXCEPT ![current][j] = Tail(q)]
        /\ current' = current /\ tap' = tap /\ emitted' = emitted
    BY DEF MergeFrame
  <1>4. /\ h = q[1] /\ 1 \in 1 .. Len(q) /\ h \in Frame
        /\ \A n \in 1 .. Len(q) : q[n].from = j /\ q[n].id <= emitted
        /\ Increasing(q) /\ Before(q, tap[j])
    BY <1>1, <1>2, TailElements DEF LinkOrder, QueuesInOrder
  <1>5. /\ Tail(q) \in Seq(Frame)
        /\ Increasing(Tail(q))
        /\ \A n \in 1 .. Len(Tail(q)) : h.id < Tail(q)[n].id
        /\ \A n \in 1 .. Len(Tail(q)) : n + 1 \in 1 .. Len(q) /\ Tail(q)[n] = q[n + 1]
    BY <1>2, <1>4, TailElements, IncreasingTail
  <1>6. \A i, k \in VM : queues'[i][k] = IF i = current /\ k = j THEN Tail(q) ELSE queues[i][k]
    BY <1>1, <1>3
  <1>d. \A a \in 1 .. Len(toDeliver') :
          (a \in 1 .. Len(toDeliver) /\ toDeliver'[a] = toDeliver[a]) \/ toDeliver'[a] = h
    BY <1>1, <1>3, <1>4, AppendElements
  <1>7. QueuesInOrder'
    <2> SUFFICES ASSUME NEW i \in VM, NEW k \in VM
                 PROVE  /\ Increasing(queues'[i][k])
                        /\ Before(queues'[i][k], tap[k])
                        /\ \A n \in 1 .. Len(queues'[i][k]) :
                             queues'[i][k][n].from = k /\ queues'[i][k][n].id <= emitted
      BY <1>3 DEF QueuesInOrder
    <2>1. CASE i = current /\ k = j
      <3>1. Before(Tail(q), tap[j]) BY <1>4, <1>5 DEF Before
      <3>2. \A n \in 1 .. Len(Tail(q)) : Tail(q)[n].from = j /\ Tail(q)[n].id <= emitted
        BY <1>4, <1>5
      <3> QED BY <2>1, <3>1, <3>2, <1>5, <1>6
    <2>2. CASE ~(i = current /\ k = j)
      BY <2>2, <1>6 DEF LinkOrder, QueuesInOrder
    <2> QED BY <2>1, <2>2
  <1>8. DequeInOrder'
    <2>1. ASSUME NEW a \in 1 .. Len(toDeliver), toDeliver[a].from = j
          PROVE  toDeliver[a].id < h.id
      BY <2>1, <1>4 DEF LinkOrder, DequeInOrder
    <2>2. ASSUME NEW a \in 1 .. Len(toDeliver'), NEW b \in 1 .. Len(toDeliver'),
                 a < b, toDeliver'[a].from = toDeliver'[b].from
          PROVE  toDeliver'[a].id < toDeliver'[b].id
      <3>1. a \in 1 .. Len(toDeliver) /\ toDeliver'[a] = toDeliver[a]
        BY <2>2, <1>1, <1>3, <1>4, AppendProperties
      <3>2. CASE b \in 1 .. Len(toDeliver) /\ toDeliver'[b] = toDeliver[b]
        BY <2>2, <3>1, <3>2 DEF LinkOrder, DequeInOrder
      <3>3. CASE toDeliver'[b] = h BY <2>1, <2>2, <3>1, <3>3, <1>4
      <3> QED BY <3>2, <3>3, <1>d
    <2>3. ASSUME NEW a \in 1 .. Len(toDeliver')
          PROVE  /\ toDeliver'[a].id <= emitted
                 /\ \A b \in 1 .. Len(queues'[current][toDeliver'[a].from]) :
                      toDeliver'[a].id < queues'[current][toDeliver'[a].from][b].id
                 /\ \A b \in 1 .. Len(tap[toDeliver'[a].from]) :
                      toDeliver'[a].id < tap[toDeliver'[a].from][b].id
      <3>1. CASE a \in 1 .. Len(toDeliver) /\ toDeliver'[a] = toDeliver[a]
        <4> DEFINE k == toDeliver[a].from
        <4>1. k \in VM BY <1>1, <3>1, ElementsAreFrames
        <4>2. /\ toDeliver[a].id <= emitted
              /\ \A b \in 1 .. Len(queues[current][k]) : toDeliver[a].id < queues[current][k][b].id
              /\ \A b \in 1 .. Len(tap[k]) : toDeliver[a].id < tap[k][b].id
          BY <3>1 DEF LinkOrder, DequeInOrder
        <4>3. \A b \in 1 .. Len(queues'[current][k]) : toDeliver[a].id < queues'[current][k][b].id
          <5>1. CASE k = j
            <6>1. queues'[current][k] = Tail(q) BY <5>1, <1>1, <1>6
            <6>2. \A b \in 1 .. Len(q) : toDeliver[a].id < q[b].id BY <5>1, <4>2
            <6> QED BY <6>1, <6>2, <1>5
          <5>2. CASE k # j
            <6>1. queues'[current][k] = queues[current][k] BY <5>2, <4>1, <1>1, <1>6
            <6> QED BY <6>1, <4>2
          <5> QED BY <5>1, <5>2
        <4> QED BY <3>1, <4>2, <4>3
      <3>2. CASE toDeliver'[a] = h
        <4>1. /\ h.from = j /\ h.id <= emitted
              /\ \A b \in 1 .. Len(tap[j]) : h.id < tap[j][b].id
          BY <1>4 DEF Before
        <4>2. queues'[current][j] = Tail(q) BY <1>1, <1>6
        <4> HIDE DEF h, q
        <4> QED BY <3>2, <4>1, <4>2, <1>5
      <3> QED BY <3>1, <3>2, <1>d
    <2> QED BY <2>2, <2>3, <1>3 DEF DequeInOrder
  <1>9. TapsInOrder' BY <1>3 DEF LinkOrder, TapsInOrder
  <1> QED BY <1>7, <1>8, <1>9 DEF LinkOrder

(* Reading a TAP moves its front to the ends of the queues from its VM.    *)
LEMMA ReadTapKeepsOrder ==
  ASSUME TypeOK, LinkOrder, ReadTap
  PROVE  LinkOrder'
  <1> DEFINE t == tap[current]
             f == Head(t)
             Stamped(i) == [id |-> f.id, from |-> current, sentAt |-> f.sentAt,
                            ts |-> Estimate + Lat(i, current)]
  <1>1. /\ current \in VM /\ toDeliver \in Seq(Frame) /\ emitted \in Nat
        /\ queues \in [VM -> [VM -> Seq(Frame)]] /\ tap \in [VM -> Seq(Raw)]
        /\ queues' \in [VM -> [VM -> Seq(Frame)]]
    BY NextType DEF TypeOK, Next, Simulator
  <1>2. t \in Seq(Raw) /\ t # <<>> BY <1>1 DEF ReadTap
  <1>3. /\ tap' = [tap EXCEPT ![current] = Tail(t)]
        /\ queues' = [i \in VM |->
             IF i \in Receivers(f)
             THEN [queues[i] EXCEPT ![current] = Append(@, Stamped(i))]
             ELSE queues[i]]
        /\ toDeliver' = toDeliver /\ current' = current /\ emitted' = emitted
    BY DEF ReadTap
  <1>4. /\ f = t[1] /\ 1 \in 1 .. Len(t) /\ f \in Raw /\ f.id \in Nat
        /\ f.id <= emitted /\ Increasing(t)
        /\ \A n \in 1 .. Len(t) : t[n].id <= emitted
    BY <1>1, <1>2, TailElements, TapElements DEF LinkOrder, TapsInOrder
  <1>5. /\ Tail(t) \in Seq(Raw)
        /\ Increasing(Tail(t))
        /\ \A n \in 1 .. Len(Tail(t)) : f.id < Tail(t)[n].id
        /\ \A n \in 1 .. Len(Tail(t)) : n + 1 \in 1 .. Len(t) /\ Tail(t)[n] = t[n + 1]
    BY <1>2, <1>4, TailElements, IncreasingTail
  <1>6. \A k \in VM : tap'[k] = IF k = current THEN Tail(t) ELSE tap[k]
    BY <1>1, <1>3
  <1>7. \A i, k \in VM : queues'[i][k] =
          IF k = current /\ i \in Receivers(f) THEN Append(queues[i][k], Stamped(i)) ELSE queues[i][k]
    BY <1>1, <1>3
  <1>8. \A i \in VM : /\ Stamped(i).id = f.id /\ Stamped(i).from = current
                      /\ Stamped(i) \in Frame
    <2>1. \A i \in VM : Estimate + Lat(i, current) \in Nat
      <3>1. Estimate \in Nat BY EstimateNat
      <3>2. \A i \in VM : Lat(i, current) \in Nat BY <1>1, LatNat
      <3> QED BY <3>1, <3>2
    <2> QED BY <2>1, <1>1, <1>4 DEF Frame, Raw
  <1>9. TapsInOrder'
    <2> SUFFICES ASSUME NEW k \in VM
                 PROVE  Increasing(tap'[k]) /\ \A n \in 1 .. Len(tap'[k]) : tap'[k][n].id <= emitted
      BY <1>3 DEF TapsInOrder
    <2>1. CASE k = current BY <2>1, <1>4, <1>5, <1>6
    <2>2. CASE k # current BY <2>2, <1>6 DEF LinkOrder, TapsInOrder
    <2> QED BY <2>1, <2>2
  <1>10. QueuesInOrder'
    <2> SUFFICES ASSUME NEW i \in VM, NEW k \in VM
                 PROVE  /\ Increasing(queues'[i][k])
                        /\ Before(queues'[i][k], tap'[k])
                        /\ \A n \in 1 .. Len(queues'[i][k]) :
                             queues'[i][k][n].from = k /\ queues'[i][k][n].id <= emitted
      BY <1>3 DEF QueuesInOrder
    <2> DEFINE q == queues[i][k]
    <2>1. /\ Increasing(q) /\ Before(q, tap[k]) /\ q \in Seq(Frame)
          /\ \A n \in 1 .. Len(q) : q[n].from = k /\ q[n].id <= emitted
      BY <1>1 DEF LinkOrder, QueuesInOrder
    <2>2. CASE k # current BY <2>1, <2>2, <1>6, <1>7
    <2>3. CASE k = current
      <3>1. \A n \in 1 .. Len(q) : q[n].id < f.id BY <2>1, <2>3, <1>4 DEF Before
      <3>2. \A n \in 1 .. Len(q) : \A b \in 1 .. Len(Tail(t)) : q[n].id < Tail(t)[b].id
        BY <2>1, <2>3, <1>5 DEF Before
      <3>3. CASE i \notin Receivers(f)
        <4>1. queues'[i][k] = q /\ tap'[k] = Tail(t) BY <2>3, <3>3, <1>6, <1>7
        <4> QED BY <4>1, <2>1, <3>2 DEF Before
      <3>4. CASE i \in Receivers(f)
        <4>1. queues'[i][k] = Append(q, Stamped(i)) /\ tap'[k] = Tail(t)
          BY <2>3, <3>4, <1>6, <1>7
        <4>2. Increasing(Append(q, Stamped(i)))
          <5>1. \A n \in 1 .. Len(q) : q[n].id < Stamped(i).id BY <3>1, <1>8
          <5> HIDE DEF Stamped
          <5> QED BY <5>1, <2>1, <1>8, IncreasingAppend
        <4>3. ASSUME NEW n \in 1 .. Len(Append(q, Stamped(i)))
              PROVE  \/ n \in 1 .. Len(q) /\ Append(q, Stamped(i))[n] = q[n]
                     \/ Append(q, Stamped(i))[n] = Stamped(i)
          <5> HIDE DEF Stamped
          <5> QED BY <2>1, <1>8, AppendElements
        <4>4. Before(Append(q, Stamped(i)), Tail(t))
          BY <4>3, <3>2, <1>5, <1>8 DEF Before
        <4>5. ASSUME NEW n \in 1 .. Len(Append(q, Stamped(i)))
              PROVE  /\ Append(q, Stamped(i))[n].from = k
                     /\ Append(q, Stamped(i))[n].id <= emitted
          BY <4>3, <2>1, <2>3, <1>4, <1>8
        <4> QED BY <4>1, <4>2, <4>4, <4>5
      <3> QED BY <3>3, <3>4
    <2> QED BY <2>2, <2>3
  <1>11. DequeInOrder'
    <2> SUFFICES ASSUME NEW a \in 1 .. Len(toDeliver)
                 PROVE  LET k == toDeliver[a].from IN
                        /\ \A b \in 1 .. Len(queues'[current][k]) :
                             toDeliver[a].id < queues'[current][k][b].id
                        /\ \A b \in 1 .. Len(tap'[k]) : toDeliver[a].id < tap'[k][b].id
      BY <1>3 DEF LinkOrder, DequeInOrder
    <2> DEFINE k == toDeliver[a].from
               q == queues[current][k]
    <2>1. k \in VM BY <1>1, ElementsAreFrames
    <2>2. /\ \A b \in 1 .. Len(q) : toDeliver[a].id < q[b].id
          /\ \A b \in 1 .. Len(tap[k]) : toDeliver[a].id < tap[k][b].id
      BY DEF LinkOrder, DequeInOrder
    <2>3. \A b \in 1 .. Len(tap'[k]) : toDeliver[a].id < tap'[k][b].id
      <3>1. CASE k = current
        <4>1. tap'[k] = Tail(t) BY <2>1, <3>1, <1>6
        <4>2. \A b \in 1 .. Len(t) : toDeliver[a].id < t[b].id BY <2>2, <3>1
        <4> QED BY <4>1, <4>2, <1>5
      <3>2. CASE k # current
        <4>1. tap'[k] = tap[k] BY <2>1, <3>2, <1>6
        <4> QED BY <4>1, <2>2
      <3> QED BY <3>1, <3>2
    <2>4. \A b \in 1 .. Len(queues'[current][k]) : toDeliver[a].id < queues'[current][k][b].id
      <3>1. CASE k = current /\ current \in Receivers(f)
        <4> DEFINE s == Stamped(current)
        <4>1. queues'[current][k] = Append(q, s) BY <2>1, <3>1, <1>1, <1>7
        <4>2. s.id = f.id /\ s \in Frame /\ q \in Seq(Frame) BY <1>1, <1>8, <2>1
        <4>3. toDeliver[a].id < f.id BY <2>2, <3>1, <1>4
        <4> HIDE DEF s
        <4> QED BY <4>1, <4>2, <4>3, <2>2, AppendElements
      <3>2. CASE ~(k = current /\ current \in Receivers(f))
        <4>1. queues'[current][k] = q BY <2>1, <3>2, <1>1, <1>7
        <4> QED BY <4>1, <2>2
      <3> QED BY <3>1, <3>2
    <2> QED BY <2>3, <2>4
  <1> QED BY <1>9, <1>10, <1>11 DEF LinkOrder

(* Delivering takes the front of the deque.                                *)
LEMMA DeliverKeepsOrder ==
  ASSUME TypeOK, LinkOrder, Deliver
  PROVE  LinkOrder'
  <1>1. toDeliver \in Seq(Frame) BY DEF TypeOK
  <1>2. PICK k \in 0 .. Len(toDeliver) : toDeliver' = SubSeq(toDeliver, k + 1, Len(toDeliver))
    BY DEF Deliver, WriteFirst
  <1>3. \A n \in 1 .. Len(toDeliver') : k + n \in 1 .. Len(toDeliver) /\ toDeliver'[n] = toDeliver[k + n]
    BY <1>1, <1>2
  <1>4. queues' = queues /\ tap' = tap /\ emitted' = emitted /\ current' = current
    BY DEF Deliver
  <1>5. DequeInOrder'
    <2>1. ASSUME NEW a \in 1 .. Len(toDeliver'), NEW b \in 1 .. Len(toDeliver'),
                 a < b, toDeliver'[a].from = toDeliver'[b].from
          PROVE  toDeliver'[a].id < toDeliver'[b].id
      <3>1. k + a < k + b BY <2>1
      <3> QED BY <2>1, <3>1, <1>3 DEF LinkOrder, DequeInOrder
    <2>2. ASSUME NEW a \in 1 .. Len(toDeliver')
          PROVE  /\ toDeliver'[a].id <= emitted
                 /\ \A b \in 1 .. Len(queues[current][toDeliver'[a].from]) :
                      toDeliver'[a].id < queues[current][toDeliver'[a].from][b].id
                 /\ \A b \in 1 .. Len(tap[toDeliver'[a].from]) :
                      toDeliver'[a].id < tap[toDeliver'[a].from][b].id
      BY <1>3 DEF LinkOrder, DequeInOrder
    <2> QED BY <2>1, <2>2, <1>4 DEF DequeInOrder
  <1> QED BY <1>4, <1>5 DEF LinkOrder, QueuesInOrder, TapsInOrder

(* A new frame has a number greater than all those given before.           *)
LEMMA EmitKeepsOrder ==
  ASSUME TypeOK, LinkOrder, NEW d \in Dest, Emit(d)
  PROVE  LinkOrder'
  <1> DEFINE t == tap[current]
             e == [id |-> emitted + 1, dst |-> d, sentAt |-> guest[current]]
  <1>1. /\ current \in VM /\ toDeliver \in Seq(Frame) /\ emitted \in Nat
        /\ queues \in [VM -> [VM -> Seq(Frame)]] /\ tap \in [VM -> Seq(Raw)]
        /\ guest \in [VM -> Nat]
    BY DEF TypeOK
  <1>2. t \in Seq(Raw) /\ e \in Raw /\ e.id = emitted + 1
    <2>1. emitted + 1 \in Nat /\ guest[current] \in Nat BY <1>1
    <2>2. e \in Raw BY <2>1 DEF Raw
    <2> QED BY <2>2, <1>1
  <1>3. /\ tap' = [tap EXCEPT ![current] = Append(t, e)] /\ emitted' = emitted + 1
        /\ queues' = queues /\ toDeliver' = toDeliver /\ current' = current
    BY DEF Emit
  <1>4. \A k \in VM : tap'[k] = IF k = current THEN Append(t, e) ELSE tap[k]
    BY <1>1, <1>3
  <1> HIDE DEF e
  <1>5. \A n \in 1 .. Len(Append(t, e)) :
          (n \in 1 .. Len(t) /\ Append(t, e)[n] = t[n]) \/ Append(t, e)[n] = e
    BY <1>2, AppendElements
  <1>6. TapsInOrder'
    <2> SUFFICES ASSUME NEW k \in VM
                 PROVE  Increasing(tap'[k]) /\ \A n \in 1 .. Len(tap'[k]) : tap'[k][n].id <= emitted + 1
      BY <1>3 DEF TapsInOrder
    <2>1. /\ Increasing(tap[k]) /\ tap[k] \in Seq(Raw)
          /\ \A n \in 1 .. Len(tap[k]) : tap[k][n].id \in Nat /\ tap[k][n].id <= emitted
      BY <1>1, TapElements DEF LinkOrder, TapsInOrder
    <2>2. CASE k = current
      <3>1. \A n \in 1 .. Len(t) : t[n].id < e.id BY <1>1, <1>2, <2>1, <2>2
      <3>2. Increasing(Append(t, e)) BY <1>2, <2>1, <2>2, <3>1, IncreasingAppend
      <3>3. ASSUME NEW n \in 1 .. Len(Append(t, e)) PROVE Append(t, e)[n].id <= emitted + 1
        <4>1. CASE n \in 1 .. Len(t) /\ Append(t, e)[n] = t[n]
          <5>1. t[n].id \in Nat /\ t[n].id <= emitted BY <2>1, <2>2, <4>1
          <5> QED BY <4>1, <5>1, <1>1
        <4>2. CASE Append(t, e)[n] = e BY <4>2, <1>1, <1>2
        <4> QED BY <4>1, <4>2, <1>5
      <3>4. tap'[k] = Append(t, e) BY <2>2, <1>4
      <3> QED BY <3>2, <3>3, <3>4
    <2>3. CASE k # current
      <3>1. tap'[k] = tap[k] BY <2>3, <1>4
      <3> QED BY <2>1, <3>1, <1>1
    <2> QED BY <2>2, <2>3
  <1>7. QueuesInOrder'
    <2> SUFFICES ASSUME NEW i \in VM, NEW k \in VM
                 PROVE  /\ Increasing(queues[i][k])
                        /\ Before(queues[i][k], tap'[k])
                        /\ \A n \in 1 .. Len(queues[i][k]) :
                             queues[i][k][n].from = k /\ queues[i][k][n].id <= emitted + 1
      BY <1>3 DEF QueuesInOrder
    <2> DEFINE q == queues[i][k]
    <2>1. /\ Increasing(q) /\ Before(q, tap[k]) /\ q \in Seq(Frame)
          /\ \A n \in 1 .. Len(q) : q[n].from = k /\ q[n].id <= emitted
      BY <1>1 DEF LinkOrder, QueuesInOrder
    <2>2. ASSUME NEW n \in 1 .. Len(q)
          PROVE  q[n].from = k /\ q[n].id < emitted + 1 /\ q[n].id <= emitted + 1
      <3>1. q[n].from = k /\ q[n].id <= emitted BY <2>1
      <3>2. q[n].id \in Nat BY <2>1, ElementsAreFrames
      <3>3. \A x, m \in Nat : x <= m => x < m + 1 /\ x <= m + 1 OBVIOUS
      <3> HIDE DEF q
      <3> QED BY <3>1, <3>2, <3>3, <1>1
    <2>3. Before(q, tap'[k])
      <3>1. CASE k = current
        <4>1. tap'[k] = Append(t, e) BY <3>1, <1>4
        <4>2. ASSUME NEW a \in 1 .. Len(q), NEW b \in 1 .. Len(Append(t, e))
              PROVE  q[a].id < Append(t, e)[b].id
          <5>1. CASE b \in 1 .. Len(t) /\ Append(t, e)[b] = t[b]
            BY <5>1, <2>1, <3>1 DEF Before
          <5>2. CASE Append(t, e)[b] = e BY <5>2, <2>2, <1>2
          <5> QED BY <5>1, <5>2, <1>5
        <4> QED BY <4>1, <4>2 DEF Before
      <3>2. CASE k # current
        <4>1. tap'[k] = tap[k] BY <3>2, <1>4
        <4> QED BY <4>1, <2>1
      <3> QED BY <3>1, <3>2
    <2> QED BY <2>1, <2>2, <2>3
  <1>8. DequeInOrder'
    <2> SUFFICES ASSUME NEW a \in 1 .. Len(toDeliver)
                 PROVE  /\ toDeliver[a].id <= emitted + 1
                        /\ \A b \in 1 .. Len(tap'[toDeliver[a].from]) :
                             toDeliver[a].id < tap'[toDeliver[a].from][b].id
      BY <1>3 DEF LinkOrder, DequeInOrder
    <2> DEFINE k == toDeliver[a].from
    <2>1. k \in VM /\ toDeliver[a].id \in Nat BY <1>1, ElementsAreFrames
    <2>2. /\ toDeliver[a].id <= emitted
          /\ \A b \in 1 .. Len(tap[k]) : toDeliver[a].id < tap[k][b].id
      BY DEF LinkOrder, DequeInOrder
    <2>3. toDeliver[a].id < emitted + 1 BY <2>1, <2>2, <1>1
    <2>4. \A b \in 1 .. Len(tap'[k]) : toDeliver[a].id < tap'[k][b].id
      <3>1. CASE k = current
        <4>1. tap'[k] = Append(t, e) BY <2>1, <3>1, <1>4
        <4> QED BY <4>1, <3>1, <2>2, <2>3, <1>2, <1>5
      <3>2. CASE k # current
        <4>1. tap'[k] = tap[k] BY <2>1, <3>2, <1>4
        <4> QED BY <4>1, <2>2
      <3> QED BY <3>1, <3>2
    <2> QED BY <2>1, <2>2, <2>4, <1>1
  <1> QED BY <1>6, <1>7, <1>8 DEF LinkOrder

-----------------------------------------------------------------------------
LEMMA NextOrder == TypeOK /\ LinkOrder /\ [Next]_vars => LinkOrder'
  <1> SUFFICES ASSUME TypeOK, LinkOrder, [Next]_vars PROVE LinkOrder' OBVIOUS
  <1>1. ASSUME NEW v \in VM, ChooseVM(v) PROVE LinkOrder'
    BY <1>1 DEF ChooseVM, LinkOrder, DequeInOrder, QueuesInOrder, TapsInOrder
  <1>2. CASE QueryClock
    BY <1>2 DEF QueryClock, LinkOrder, DequeInOrder, QueuesInOrder, TapsInOrder
  <1>3. CASE \/ StartSlice \/ Select \/ Resume \/ Refuse \/ Stop \/ Fault \/ Tick
             \/ HorizonReached \/ UNCHANGED vars
    <2>1. UNCHANGED <<toDeliver, queues, current, tap, emitted>>
      BY <1>3 DEF StartSlice, Select, Resume, Refuse, Stop, Fault, Tick, HorizonReached, vars
    <2> QED BY <2>1 DEF LinkOrder, DequeInOrder, QueuesInOrder, TapsInOrder
  <1> QED
    BY <1>1, <1>2, <1>3, MergeKeepsOrder, ReadTapKeepsOrder, DeliverKeepsOrder, EmitKeepsOrder
    DEF Next, Simulator, Machine

(* The frames of a link never overtake one another and are never doubled   *)
(* on their way through TAP, queue and deque, although upper_bound may be  *)
(* run on a deque that is not sorted by delivery time.                     *)
THEOREM LinksKeepOrder == Spec => []LinkOrder
  <1>1. Init => LinkOrder
    BY DEF Init, LinkOrder, DequeInOrder, QueuesInOrder, TapsInOrder, Increasing, Before
  <1> QED BY <1>1, NextOrder, TypeCorrect, PTL DEF Spec

=============================================================================
