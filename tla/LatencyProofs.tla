---------------------------- MODULE LatencyProofs ----------------------------
(***************************************************************************)
(* Stamps and delivery times, for any number of VMs, any delays and lags:  *)
(* how far the estimate can lead, how far the frames of a link or of the   *)
(* merged deque can be out of order, and what follows for the latency of a *)
(* frame and for the frames that wait in a queue.                          *)
(***************************************************************************)
EXTENDS SchedulerProofs

-----------------------------------------------------------------------------
(* Numbers the obligations below compare.                                  *)

LEMMA LeadNat == Lead \in Nat /\ StartLag \in Nat /\ Linger \in Nat /\ Overrun \in Nat
                 /\ StartLag <= Lead
  BY SchedulerAssumption DEF Lead

LEMMA QueuedFrames ==
  ASSUME TypeOK, NEW i \in VM, NEW j \in VM, NEW n \in 1 .. Len(queues[i][j])
  PROVE  /\ queues[i][j][n].ts \in Nat
         /\ queues[i][j][n].sentAt \in Nat
         /\ queues[i][j][n].from \in VM
  <1>1. queues[i][j] \in Seq(Frame) BY DEF TypeOK
  <1> QED BY <1>1, ElementsAreFrames

LEMMA DequeFrames ==
  ASSUME TypeOK, NEW n \in 1 .. Len(toDeliver)
  PROVE  /\ toDeliver[n].ts \in Nat
         /\ toDeliver[n].sentAt \in Nat
         /\ toDeliver[n].from \in VM
  BY ElementsAreFrames DEF TypeOK

(* A nearly sorted sequence stays so without its front, and with an        *)
(* element behind that comes late enough after all the others.             *)
LEMMA TailNearlySorted ==
  ASSUME NEW s \in Seq(Frame), NEW k \in 0 .. Len(s), NearlySorted(s)
  PROVE  NearlySorted(SubSeq(s, k + 1, Len(s)))
  <1> DEFINE t == SubSeq(s, k + 1, Len(s))
  <1>1. \A n \in 1 .. Len(t) : t[n] = s[k + n] /\ k + n \in 1 .. Len(s)
    OBVIOUS
  <1>2. Len(t) \in Nat OBVIOUS
  <1> HIDE DEF t
  <1>3. ASSUME NEW m \in 1 .. Len(t), NEW n \in 1 .. Len(t), m < n
        PROVE  t[m].ts <= t[n].ts + Lead
    <2>1. k + m < k + n BY <1>2, <1>3
    <2> QED BY <2>1, <1>1 DEF NearlySorted
  <1> QED BY <1>3 DEF NearlySorted, t

LEMMA AppendNearlySorted ==
  ASSUME NEW s \in Seq(Frame), NEW f \in Frame, NearlySorted(s),
         \A n \in 1 .. Len(s) : s[n].ts <= f.ts + Lead
  PROVE  NearlySorted(Append(s, f))
  <1> DEFINE t == Append(s, f)
  <1>1. /\ Len(t) = Len(s) + 1 /\ Len(s) \in Nat /\ t[Len(s) + 1] = f
        /\ \A n \in 1 .. Len(s) : t[n] = s[n]
    OBVIOUS
  <1> HIDE DEF t
  <1>2. ASSUME NEW m \in 1 .. Len(t), NEW n \in 1 .. Len(t), m < n
        PROVE  t[m].ts <= t[n].ts + Lead
    <2>1. m \in 1 .. Len(s) /\ t[m] = s[m] BY <1>1, <1>2
    <2>2. CASE n = Len(s) + 1 BY <2>1, <2>2, <1>1
    <2>3. CASE n \in 1 .. Len(s) BY <2>1, <2>3, <1>1, <1>2 DEF NearlySorted
    <2> QED BY <2>2, <2>3, <1>1
  <1> QED BY <1>2 DEF NearlySorted, t

(* The front of a nearly sorted sequence is early enough.                  *)
LEMMA HeadOfNearlySorted ==
  ASSUME NEW s \in Seq(Frame), NearlySorted(s), NEW n \in 1 .. Len(s)
  PROVE  Head(s).ts <= s[n].ts + Lead
  <1>1. Head(s) = s[1] /\ 1 \in 1 .. Len(s) OBVIOUS
  <1>2. s[n].ts \in Nat /\ s[1].ts \in Nat BY <1>1, ElementsAreFrames
  <1>3. CASE n = 1 BY <1>1, <1>2, <1>3, LeadNat
  <1>4. CASE n # 1 BY <1>1, <1>4 DEF NearlySorted
  <1> QED BY <1>3, <1>4

-----------------------------------------------------------------------------
(* The lead of the estimate, and what every step keeps of clocks and taps. *)

LEMMA GuestGrows ==
  ASSUME TypeOK, [Next]_vars, NEW v \in VM
  PROVE  guest[v] <= guest'[v]
  <1>1. guest' = guest \/ guest' = [guest EXCEPT ![current] = @ + 1]
    BY DEF Next, Simulator, Machine, ChooseVM, MergeFrame, StartSlice, Select, ReadTap,
           Deliver, QueryClock, Resume, Refuse, Stop, Fault, Tick, Emit, HorizonReached, vars
  <1>2. guest \in [VM -> Nat] BY DEF TypeOK
  <1> QED BY <1>1, <1>2

LEMMA EstimateLeads ==
  ASSUME TypeOK, SliceTiming, StampBounds, InSlice
  PROVE  /\ guest[current] <= Estimate
         /\ vm # "refused" => Estimate <= guest[current] + Lead
  <1>1. /\ clocks[current] \in Nat /\ guest[current] \in Nat /\ elapsed \in Nat
    BY DEF TypeOK
  <1>2. vm # "refused" => elapsed - (guest[current] - clocks[current]) <= Lead
    BY DEF StampBounds, Idle
  <1>3. guest[current] <= Estimate BY DEF SliceTiming
  <1> QED BY <1>1, <1>2, <1>3, LeadNat DEF Estimate

LEMMA IdleStep ==
  ASSUME TypeOK, SliceTiming, StampBounds, [Next]_vars
  PROVE  InSlice' /\ vm' # "refused" => Idle' <= Lead
  <1> SUFFICES ASSUME InSlice', vm' # "refused" PROVE Idle' <= Lead OBVIOUS
  <1>a. /\ clocks \in [VM -> Nat] /\ guest \in [VM -> Nat]
        /\ current \in VM /\ elapsed \in Nat
    BY DEF TypeOK
  <1>1. CASE StartSlice
    <2>1. guest[current] = clocks[current] BY <1>1, <1>a DEF StartSlice, SliceTiming
    <2> QED BY <1>1, <2>1, <1>a, LeadNat DEF StartSlice, Idle
  <1>2. CASE Tick
    <2>1. /\ elapsed' = elapsed + 1 /\ current' = current /\ clocks' = clocks
          /\ InSlice /\ vm # "refused"
      BY <1>2 DEF Tick
    <2>2. Idle <= Lead BY <2>1 DEF StampBounds
    <2>3. CASE guest' = guest /\ Idle < Lead
      BY <2>1, <2>3, <1>a, LeadNat DEF Idle
    <2>4. CASE guest' = guest /\ Idle < StartLag
      BY <2>1, <2>4, <1>a, LeadNat DEF Idle
    <2>5. CASE guest' = [guest EXCEPT ![current] = @ + 1]
      BY <2>1, <2>2, <2>5, <1>a, LeadNat DEF Idle
    <2> QED BY <1>2, <2>1, <2>3, <2>4, <2>5 DEF Tick
  <1>3. CASE \/ Select \/ ReadTap \/ Deliver \/ Resume \/ Stop \/ Fault
             \/ (\E d \in Dest : Emit(d)) \/ HorizonReached \/ UNCHANGED vars
    <2>1. InSlice /\ Idle' = Idle /\ vm # "refused"
      BY <1>3 DEF Select, ReadTap, Deliver, Resume, Stop, Fault, Emit, HorizonReached, vars,
                  InSlice, Idle
    <2> QED BY <2>1 DEF StampBounds
  <1>4. CASE Refuse BY <1>4 DEF Refuse
  <1> QED BY <1>1, <1>2, <1>3, <1>4
          DEF Next, Simulator, Machine, ChooseVM, MergeFrame, QueryClock, InSlice

LEMMA TapStep ==
  ASSUME TypeOK, StampBounds, [Next]_vars
  PROVE  TapStamps'
  <1> SUFFICES ASSUME NEW v \in VM, NEW n \in 1 .. Len(tap'[v])
               PROVE  tap'[v][n].sentAt <= guest'[v] /\ tap'[v][n].dst # v
    BY DEF TapStamps
  <1>a. /\ tap \in [VM -> Seq(Raw)] /\ guest \in [VM -> Nat] /\ current \in VM
    BY DEF TypeOK
  <1>g. guest[v] <= guest'[v] /\ guest'[v] \in Nat /\ guest[v] \in Nat
    BY GuestGrows, NextType DEF TypeOK
  <1>s. ASSUME NEW m \in 1 .. Len(tap[v])
        PROVE  /\ tap[v][m].sentAt <= guest'[v]
               /\ tap[v][m].dst # v
    <2>1. tap[v][m] \in Raw BY <1>a
    <2>2. tap[v][m].sentAt \in Nat BY <2>1 DEF Raw
    <2> QED BY <2>2, <1>g DEF StampBounds, TapStamps
  <1>1. CASE tap' = tap BY <1>1, <1>s
  <1>2. CASE ReadTap
    <2>1. /\ tap' = [tap EXCEPT ![current] = Tail(@)]
          /\ tap[current] # <<>>
      BY <1>2 DEF ReadTap
    <2>2. CASE v = current
      <3>1. tap'[v][n] = tap[v][n + 1] /\ n + 1 \in 1 .. Len(tap[v])
        BY <2>1, <2>2, <1>a
      <3> QED BY <3>1, <1>s
    <2>3. CASE v # current BY <2>1, <2>3, <1>a, <1>s
    <2> QED BY <2>2, <2>3
  <1>3. ASSUME NEW d \in Dest, Emit(d)
        PROVE  tap'[v][n].sentAt <= guest'[v] /\ tap'[v][n].dst # v
    <2> DEFINE r == [id |-> emitted + 1, dst |-> d, sentAt |-> guest[current]]
    <2>1. tap' = [tap EXCEPT ![current] = Append(@, r)] /\ d # current
      BY <1>3 DEF Emit
    <2>2. r.sentAt = guest[current] /\ r.dst = d OBVIOUS
    <2> HIDE DEF r
    <2>3. CASE v = current /\ n = Len(tap[v]) + 1
      <3>1. tap'[v][n] = r BY <2>1, <2>3, <1>a
      <3> QED BY <3>1, <2>1, <2>2, <2>3, <1>g
    <2>4. CASE ~(v = current /\ n = Len(tap[v]) + 1)
      <3>1. tap'[v][n] = tap[v][n] /\ n \in 1 .. Len(tap[v]) BY <2>1, <2>4, <1>a
      <3> QED BY <3>1, <1>s
    <2> QED BY <2>3, <2>4
  <1> QED
    BY <1>1, <1>2, <1>3
    DEF Next, Simulator, Machine, ChooseVM, MergeFrame, StartSlice, Select, Deliver,
        QueryClock, Resume, Refuse, Stop, Fault, Tick, HorizonReached, vars

-----------------------------------------------------------------------------
(* The queues.  Only ReadTap adds to one, and only MergeFrame takes from   *)
(* one.                                                                    *)

LEMMA ReadTapQueues ==
  ASSUME TypeOK, SliceTiming, StampBounds, ReadTap
  PROVE  \E f \in Raw : \E e \in Nat :
           /\ e = Estimate
           /\ f.sentAt <= guest[current] /\ current \notin Receivers(f)
           /\ \A i, j \in VM :
                queues'[i][j] =
                  IF i \in Receivers(f) /\ j = current
                  THEN Append(queues[i][j], [id |-> f.id, from |-> current,
                          sentAt |-> f.sentAt, ts |-> e + Lat(i, current)])
                  ELSE queues[i][j]
  <1> DEFINE f == Head(tap[current])
             Stamped(i) == [id |-> f.id, from |-> current, sentAt |-> f.sentAt,
                            ts |-> Estimate + Lat(i, current)]
  <1>a. /\ queues \in [VM -> [VM -> Seq(Frame)]] /\ tap \in [VM -> Seq(Raw)]
        /\ current \in VM /\ Estimate \in Nat
    BY EstimateNat DEF TypeOK
  <1>1. /\ queues' = [i \in VM |-> IF i \in Receivers(f)
                        THEN [queues[i] EXCEPT ![current] = Append(@, Stamped(i))]
                        ELSE queues[i]]
        /\ tap[current] # <<>>
    BY DEF ReadTap
  <1>2. f \in Raw /\ f = tap[current][1] /\ 1 \in 1 .. Len(tap[current])
    BY <1>1, <1>a
  <1>3. f.sentAt <= guest[current] /\ f.dst # current
    BY <1>2, <1>a DEF StampBounds, TapStamps
  <1>4. current \notin Receivers(f) BY <1>3 DEF Receivers
  <1>5. ASSUME NEW i \in VM, NEW j \in VM
        PROVE  queues'[i][j] = IF i \in Receivers(f) /\ j = current
                               THEN Append(queues[i][j], Stamped(i))
                               ELSE queues[i][j]
    <2> HIDE DEF f, Stamped
    <2> QED BY <1>1, <1>a
  <1> QED BY <1>2, <1>3, <1>4, <1>5, <1>a

LEMMA OtherQueues ==
  ASSUME [Next]_vars, ~ReadTap, \A m \in VM : ~MergeFrame(m)
  PROVE  queues' = queues
  BY DEF Next, Simulator, Machine, ChooseVM, StartSlice, Select, Deliver,
         QueryClock, Resume, Refuse, Stop, Fault, Tick, Emit, HorizonReached, vars

LEMMA QueueStep ==
  ASSUME TypeOK, SliceTiming, StampBounds, [Next]_vars
  PROVE  QueueStamps'
  <1> DEFINE Good(i, j, f) ==
        /\ i # j /\ f.from = j
        /\ f.sentAt + Lat(i, j) <= f.ts
        /\ vm' # "refused" => f.ts <= guest'[j] + Lat(i, j) + Lead
  <1>a. /\ queues \in [VM -> [VM -> Seq(Frame)]] /\ current \in VM
        /\ guest \in [VM -> Nat]
    BY DEF TypeOK
  <1>l. Lead' = Lead /\ \A i, j \in VM : Lat(i, j)' = Lat(i, j) BY DEF Lead, Lat
  <1>g. ASSUME NEW v \in VM PROVE guest[v] <= guest'[v] /\ guest'[v] \in Nat /\ guest[v] \in Nat
    BY GuestGrows, NextType DEF TypeOK
  <1>v. vm' # "refused" => vm # "refused"
    BY DEF Next, Simulator, Machine, ChooseVM, MergeFrame, StartSlice, Select, ReadTap,
           Deliver, QueryClock, Resume, Refuse, Stop, Fault, Tick, Emit, HorizonReached,
           vars, SliceTiming
  <1>old. ASSUME NEW i \in VM, NEW j \in VM, NEW n \in 1 .. Len(queues[i][j])
          PROVE  Good(i, j, queues[i][j][n])
    <2>1. queues[i][j][n].ts \in Nat /\ Lat(i, j) \in Nat /\ Lead \in Nat
      BY QueuedFrames, LatNat, LeadNat
    <2>2. /\ i # j /\ queues[i][j][n].from = j
          /\ queues[i][j][n].sentAt + Lat(i, j) <= queues[i][j][n].ts
          /\ vm # "refused" => queues[i][j][n].ts <= guest[j] + Lat(i, j) + Lead
      BY DEF StampBounds, QueueStamps
    <2>3. guest[j] <= guest'[j] /\ guest[j] \in Nat /\ guest'[j] \in Nat BY <1>g
    <2>4. ASSUME vm' # "refused" PROVE queues[i][j][n].ts <= guest'[j] + Lat(i, j) + Lead
      <3>1. \A t, g, h, l, d \in Nat : t <= g + l + d /\ g <= h => t <= h + l + d
        OBVIOUS
      <3> QED BY <3>1, <2>1, <2>2, <2>3, <2>4, <1>v
    <2> QED BY <2>2, <2>4
  <1> SUFFICES ASSUME NEW i \in VM, NEW j \in VM
               PROVE  /\ vm' # "refused" => NearlySorted(queues'[i][j])
                      /\ \A n \in 1 .. Len(queues'[i][j]) : Good(i, j, queues'[i][j][n])
    BY DEF QueueStamps, NearlySorted, Lead, Lat
  <1>q. /\ queues[i][j] \in Seq(Frame)
        /\ vm' # "refused" => NearlySorted(queues[i][j])
        /\ \A n \in 1 .. Len(queues[i][j]) : Good(i, j, queues[i][j][n])
    BY <1>a, <1>v, <1>old DEF StampBounds, QueueStamps
  <1>1. CASE ReadTap
    <2>1. PICK f \in Raw, e \in Nat :
            /\ e = Estimate
            /\ f.sentAt <= guest[current] /\ current \notin Receivers(f)
            /\ \A k, m \in VM :
                 queues'[k][m] =
                   IF k \in Receivers(f) /\ m = current
                   THEN Append(queues[k][m], [id |-> f.id, from |-> current,
                           sentAt |-> f.sentAt, ts |-> e + Lat(k, current)])
                   ELSE queues[k][m]
      BY <1>1, ReadTapQueues
    <2> DEFINE g == [id |-> f.id, from |-> current, sentAt |-> f.sentAt,
                     ts |-> e + Lat(i, current)]
    <2>2. CASE i \in Receivers(f) /\ j = current
      <3>1. Lat(i, j) \in Nat /\ f.sentAt \in Nat /\ f.id \in Nat
        BY LatNat DEF Raw
      <3>2. g \in Frame BY <3>1, <2>2 DEF Frame
      <3>3. guest[current] <= e /\ (vm # "refused" => e <= guest[current] + Lead)
        BY <1>1, <2>1, EstimateLeads DEF ReadTap, InSlice
      <3>4. Good(i, j, g)
        <4>1. g.from = j /\ g.sentAt = f.sentAt /\ g.ts = e + Lat(i, j)
          BY <2>2
        <4>2. i # j BY <2>1, <2>2
        <4>3. guest[j] <= guest'[j] /\ guest[j] \in Nat /\ guest'[j] \in Nat BY <1>g
        <4> HIDE DEF g
        <4> QED BY <4>1, <4>2, <4>3, <3>1, <3>3, <2>1, <2>2, <1>v, LeadNat
      <3>5. ASSUME vm' # "refused"
            PROVE  \A n \in 1 .. Len(queues[i][j]) : queues[i][j][n].ts <= g.ts + Lead
        <4> SUFFICES ASSUME NEW n \in 1 .. Len(queues[i][j])
                     PROVE  queues[i][j][n].ts <= g.ts + Lead
          OBVIOUS
        <4>1. queues[i][j][n].ts \in Nat BY QueuedFrames
        <4>2. queues[i][j][n].ts <= guest[j] + Lat(i, j) + Lead
          BY <3>5, <1>v DEF StampBounds, QueueStamps
        <4>3. g.ts = e + Lat(i, j) BY <2>2
        <4>4. guest[j] \in Nat /\ guest[j] <= e /\ e \in Nat BY <3>3, <2>2, <1>g
        <4>5. queues[i][j][n].ts <= e + Lat(i, j) + Lead
          <5> DEFINE t == queues[i][j][n].ts
                     l == Lat(i, j)
                     c == guest[j]
          <5>1. /\ t \in Nat /\ l \in Nat /\ c \in Nat /\ e \in Nat /\ Lead \in Nat
                /\ t <= c + l + Lead /\ c <= e
            BY <4>1, <4>2, <4>4, <3>1, LeadNat
          <5> HIDE DEF t, l, c
          <5>2. t <= e + l + Lead BY <5>1
          <5> QED BY <5>2 DEF t, l
        <4> HIDE DEF g
        <4> QED BY <4>3, <4>5
      <3>6. queues'[i][j] = Append(queues[i][j], g) BY <2>1, <2>2
      <3> HIDE DEF g
      <3>7. vm' # "refused" => NearlySorted(queues'[i][j])
        BY <3>2, <3>5, <3>6, <1>q, AppendNearlySorted
      <3>8. ASSUME NEW n \in 1 .. Len(queues'[i][j]) PROVE Good(i, j, queues'[i][j][n])
        <4> HIDE DEF Good
        <4>1. CASE n = Len(queues[i][j]) + 1 BY <4>1, <3>6, <3>4, <1>q
        <4>2. CASE n # Len(queues[i][j]) + 1
          <5>1. n \in 1 .. Len(queues[i][j]) /\ queues'[i][j][n] = queues[i][j][n]
            BY <4>2, <3>6, <1>q
          <5> QED BY <5>1, <1>q
        <4> QED BY <4>1, <4>2
      <3> QED BY <3>7, <3>8
    <2>3. CASE ~(i \in Receivers(f) /\ j = current)
      <3>1. queues'[i][j] = queues[i][j] BY <2>1, <2>3
      <3> HIDE DEF Good
      <3> QED BY <3>1, <1>q
    <2> QED BY <2>2, <2>3
  <1>2. ASSUME NEW m \in VM, MergeFrame(m)
        PROVE  /\ vm' # "refused" => NearlySorted(queues'[i][j])
               /\ \A n \in 1 .. Len(queues'[i][j]) : Good(i, j, queues'[i][j][n])
    <2>1. /\ queues' = [queues EXCEPT ![current][m] = Tail(@)]
          /\ queues[current][m] # <<>>
      BY <1>2 DEF MergeFrame, Due
    <2> HIDE DEF Good
    <2>2. CASE i = current /\ j = m
      <3>1. /\ queues'[i][j] = Tail(queues[i][j]) /\ queues[i][j] # <<>>
        BY <2>1, <2>2, <1>a
      <3>2. /\ queues'[i][j] = SubSeq(queues[i][j], 2, Len(queues[i][j]))
            /\ 1 \in 0 .. Len(queues[i][j])
        BY <3>1, <1>q
      <3>3. vm' # "refused" => NearlySorted(queues'[i][j])
        BY <3>2, <1>q, TailNearlySorted, 1 + 1 = 2
      <3>4. ASSUME NEW n \in 1 .. Len(queues'[i][j]) PROVE Good(i, j, queues'[i][j][n])
        <4>1. queues'[i][j][n] = queues[i][j][n + 1] /\ n + 1 \in 1 .. Len(queues[i][j])
          BY <3>1, <1>q
        <4> QED BY <4>1, <1>q
      <3> QED BY <3>3, <3>4
    <2>3. CASE ~(i = current /\ j = m)
      <3>1. queues'[i][j] = queues[i][j] BY <2>1, <2>3, <1>a
      <3> QED BY <3>1, <1>q
    <2> QED BY <2>2, <2>3
  <1>3. CASE ~ReadTap /\ \A m \in VM : ~MergeFrame(m)
    <2>1. queues' = queues BY <1>3, OtherQueues
    <2> HIDE DEF Good
    <2> QED BY <2>1, <1>q
  <1> QED BY <1>1, <1>2, <1>3

-----------------------------------------------------------------------------
(* The merged deque.  A frame that is moved comes before the fronts of all *)
(* the other queues, so by at most Lead after anything behind them.        *)

LEMMA MergedFrameIsEarly ==
  ASSUME TypeOK, SliceTiming, StampBounds, NEW j \in VM, MergeFrame(j),
         NEW k \in VM, NEW m \in 1 .. Len(queues[current][k])
  PROVE  Head(queues[current][j]).ts <= queues[current][k][m].ts + Lead
  <1> DEFINE q(v) == queues[current][v]
  <1>a. /\ \A v \in VM : q(v) \in Seq(Frame) /\ NearlySorted(q(v))
        /\ current \in VM /\ SliceEnd \in Nat
    <2>1. current \in VM /\ SliceEnd \in Nat BY EstimateNat DEF TypeOK
    <2>2. \A v \in VM : q(v) \in Seq(Frame) BY <2>1 DEF TypeOK
    <2>3. vm # "refused" BY DEF MergeFrame, SliceTiming
    <2>4. \A v \in VM : NearlySorted(q(v)) BY <2>1, <2>3 DEF StampBounds, QueueStamps
    <2> QED BY <2>1, <2>2, <2>4
  <1>1. q(j) # <<>> /\ Head(q(j)).ts <= SliceEnd BY DEF MergeFrame, Due
  <1>2. q(k) # <<>> BY <1>a
  <1>3. Head(q(j)).ts <= Head(q(k)).ts
    <2>1. CASE Due(k) 
      <3>1. \/ Head(q(j)).ts < Head(q(k)).ts
            \/ Head(q(j)).ts = Head(q(k)).ts
        BY <2>1 DEF MergeFrame
      <3>2. Head(q(j)) = q(j)[1] /\ 1 \in 1 .. Len(q(j))
            /\ Head(q(k)) = q(k)[1] /\ 1 \in 1 .. Len(q(k))
        BY <1>1, <1>2, <1>a
      <3>3. Head(q(j)).ts \in Nat /\ Head(q(k)).ts \in Nat
        BY <3>2, <1>a, ElementsAreFrames
      <3> QED BY <3>1, <3>3
    <2>2. CASE ~Due(k)
      <3>1. ~(Head(q(k)).ts <= SliceEnd) BY <2>2, <1>2 DEF Due
      <3>2. Head(q(j)) = q(j)[1] /\ 1 \in 1 .. Len(q(j))
            /\ Head(q(k)) = q(k)[1] /\ 1 \in 1 .. Len(q(k))
        BY <1>1, <1>2, <1>a
      <3>3. Head(q(j)).ts \in Nat /\ Head(q(k)).ts \in Nat
        BY <3>2, <1>a, ElementsAreFrames
      <3> QED BY <3>1, <3>3, <1>1, <1>a
    <2> QED BY <2>1, <2>2
  <1>4. Head(q(k)).ts <= q(k)[m].ts + Lead BY <1>a, HeadOfNearlySorted
  <1>5. /\ Head(q(j)).ts \in Nat /\ Head(q(k)).ts \in Nat /\ q(k)[m].ts \in Nat
    <2>1. Head(q(j)) = q(j)[1] /\ 1 \in 1 .. Len(q(j))
          /\ Head(q(k)) = q(k)[1] /\ 1 \in 1 .. Len(q(k))
      BY <1>1, <1>2, <1>a
    <2> QED BY <2>1, <1>a, ElementsAreFrames
  <1> HIDE DEF q
  <1>6. Head(q(j)).ts <= q(k)[m].ts + Lead BY <1>3, <1>4, <1>5, LeadNat
  <1> QED BY <1>6 DEF q

(* What is left of the queues after a merge was in them before.            *)
LEMMA MergeLeaves ==
  ASSUME TypeOK, NEW j \in VM, MergeFrame(j),
         NEW i \in VM, NEW k \in VM, NEW n \in 1 .. Len(queues'[i][k])
  PROVE  \E m \in 1 .. Len(queues[i][k]) : queues'[i][k][n] = queues[i][k][m]
  <1>a. queues \in [VM -> [VM -> Seq(Frame)]] /\ current \in VM BY DEF TypeOK
  <1>1. /\ queues' = [queues EXCEPT ![current][j] = Tail(@)]
        /\ queues[current][j] # <<>>
    BY DEF MergeFrame, Due
  <1>2. CASE i = current /\ k = j
    <2>1. queues'[i][k] = Tail(queues[i][k]) BY <1>1, <1>2, <1>a
    <2>2. queues'[i][k][n] = queues[i][k][n + 1] /\ n + 1 \in 1 .. Len(queues[i][k])
      BY <2>1, <1>2, <1>1, <1>a
    <2> QED BY <2>2
  <1>3. CASE ~(i = current /\ k = j)
    <2>1. queues'[i][k] = queues[i][k] BY <1>1, <1>3, <1>a
    <2> QED BY <2>1
  <1> QED BY <1>2, <1>3

LEMMA DequeStep ==
  ASSUME TypeOK, SliceTiming, StampBounds, [Next]_vars
  PROVE  DequeStamps'
  <1> DEFINE InTime(f) == f.sentAt + Lat(current, f.from) <= f.ts
  <1>a. /\ queues \in [VM -> [VM -> Seq(Frame)]] /\ current \in VM
        /\ toDeliver \in Seq(Frame)
    BY DEF TypeOK
  <1>d. /\ NearlySorted(toDeliver)
        /\ \A n \in 1 .. Len(toDeliver) : InTime(toDeliver[n])
    BY DEF StampBounds, DequeStamps
  <1>1. CASE toDeliver' = <<>>
    BY <1>1 DEF DequeStamps, NearlySorted
  <1>2. ASSUME NEW j \in VM, MergeFrame(j) PROVE DequeStamps'
    <2> DEFINE f == Head(queues[current][j])
    <2>1. /\ toDeliver' = Append(toDeliver, f) /\ current' = current
          /\ pc = "merge" /\ queues[current][j] # <<>>
      BY <1>2 DEF MergeFrame, Due
    <2>2. /\ f = queues[current][j][1] /\ 1 \in 1 .. Len(queues[current][j])
          /\ f \in Frame
      BY <2>1, <1>a
    <2>3. InTime(f)
      <3>1. /\ queues[current][j][1].from = j
            /\ queues[current][j][1].sentAt + Lat(current, j) <= queues[current][j][1].ts
        BY <2>2, <1>a DEF StampBounds, QueueStamps
      <3> QED BY <3>1, <2>2
    <2>4. \A k \in VM : \A m \in 1 .. Len(queues[current][k]) :
            f.ts <= queues[current][k][m].ts + Lead
      BY <1>2, MergedFrameIsEarly
    <2>5. \A n \in 1 .. Len(toDeliver) : \A k \in VM : \A m \in 1 .. Len(queues[current][k]) :
            toDeliver[n].ts <= queues[current][k][m].ts + Lead
      BY <2>1 DEF StampBounds, DequeStamps
    <2>6. \A n \in 1 .. Len(toDeliver) : toDeliver[n].ts <= f.ts + Lead
      BY <2>2, <2>5
    <2> HIDE DEF f
    <2>7. NearlySorted(toDeliver')
      BY <2>1, <2>2, <2>6, <1>a, <1>d, AppendNearlySorted
    <2>8. ASSUME NEW n \in 1 .. Len(toDeliver')
          PROVE  \/ toDeliver'[n] = f
                 \/ \E m \in 1 .. Len(toDeliver) : toDeliver'[n] = toDeliver[m]
      BY <2>1, <2>2, <1>a
    <2>9. ASSUME NEW n \in 1 .. Len(toDeliver') PROVE InTime(toDeliver'[n])
      <3> HIDE DEF InTime
      <3> QED BY <2>8, <2>3, <1>d
    <2>10. ASSUME NEW n \in 1 .. Len(toDeliver'), NEW k \in VM,
                  NEW m \in 1 .. Len(queues'[current][k])
           PROVE  toDeliver'[n].ts <= queues'[current][k][m].ts + Lead
      <3>1. PICK p \in 1 .. Len(queues[current][k]) :
              queues'[current][k][m] = queues[current][k][p]
        BY <1>2, <1>a, MergeLeaves
      <3> QED BY <3>1, <2>8, <2>4, <2>5
    <2>11. DequeStamps'
      BY <2>1, <2>7, <2>9, <2>10 DEF DequeStamps, NearlySorted, Lat, Lead
    <2> QED BY <2>11
  <1>3. CASE Deliver
    <2>1. PICK k \in 0 .. Len(toDeliver) : toDeliver' = SubSeq(toDeliver, k + 1, Len(toDeliver))
      BY <1>3 DEF Deliver, WriteFirst
    <2>2. NearlySorted(toDeliver') BY <2>1, <1>a, <1>d, TailNearlySorted
    <2>3. \A n \in 1 .. Len(toDeliver') :
            toDeliver'[n] = toDeliver[k + n] /\ k + n \in 1 .. Len(toDeliver)
      BY <2>1, <1>a
    <2>4. ASSUME NEW n \in 1 .. Len(toDeliver') PROVE InTime(toDeliver'[n])
      <3> HIDE DEF InTime
      <3> QED BY <2>3, <1>d
    <2>5. pc' # "merge" /\ current' = current BY <1>3 DEF Deliver
    <2> QED BY <2>2, <2>4, <2>5 DEF DequeStamps, NearlySorted, Lat, Lead
  <1>4. CASE toDeliver' = toDeliver /\ current' = current /\ pc' # "merge"
    BY <1>4, <1>d DEF DequeStamps, NearlySorted, Lat, Lead
  <1>5. CASE UNCHANGED <<toDeliver, current, pc, queues>>
    BY <1>5 DEF StampBounds, DequeStamps, NearlySorted, Lat, Lead
  <1> QED
    BY <1>1, <1>2, <1>3, <1>4, <1>5
    DEF Next, Simulator, Machine, ChooseVM, StartSlice, Select, ReadTap, QueryClock,
        Resume, Refuse, Stop, Fault, Tick, Emit, HorizonReached, vars

-----------------------------------------------------------------------------
(* What is not merged is not due in the slice, but for the lead.           *)
LEMMA LeftStep ==
  ASSUME TypeOK, SliceTiming, StampBounds, [Next]_vars
  PROVE  LeftInQueues'
  <1>a. /\ queues \in [VM -> [VM -> Seq(Frame)]] /\ current \in VM
        /\ SliceEnd \in Nat
    BY EstimateNat DEF TypeOK
  <1>1. CASE StartSlice
    <2>1. /\ UNCHANGED <<queues, current, clocks, duration>>
          /\ (\A j \in VM : ~Due(j)) /\ vm # "refused"
      BY <1>1 DEF StartSlice, SliceTiming
    <2>2. ASSUME NEW j \in VM, NEW n \in 1 .. Len(queues[current][j])
          PROVE  SliceEnd <= queues[current][j][n].ts + Lead
      <3> DEFINE q == queues[current][j]
      <3>1. q \in Seq(Frame) BY <1>a
      <3>2. NearlySorted(q) BY <1>a, <2>1 DEF StampBounds, QueueStamps
      <3>3. Head(q).ts <= q[n].ts + Lead BY <3>1, <3>2, HeadOfNearlySorted
      <3>4. q # <<>> /\ Head(q) = q[1] /\ 1 \in 1 .. Len(q) BY <3>1
      <3>5. Head(q).ts \in Nat /\ q[n].ts \in Nat BY <3>1, <3>4, ElementsAreFrames
      <3>6. ~(Head(q).ts <= SliceEnd) BY <2>1, <3>4 DEF Due
      <3> HIDE DEF q
      <3>7. SliceEnd <= q[n].ts + Lead BY <3>3, <3>5, <3>6, <1>a, LeadNat
      <3> QED BY <3>7 DEF q
    <2> QED BY <2>1, <2>2 DEF LeftInQueues, SliceEnd, Lead
  <1>2. CASE ReadTap
    <2>1. /\ UNCHANGED <<current, clocks, duration>> /\ InSlice
      BY <1>2 DEF ReadTap, InSlice
    <2>2. \A j \in VM : queues'[current][j] = queues[current][j]
      BY <1>2, <1>a, ReadTapQueues
    <2> QED BY <2>1, <2>2 DEF StampBounds, LeftInQueues, SliceEnd, Lead
  <1>3. CASE UNCHANGED <<queues, current, clocks, duration>> /\ InSlice
    BY <1>3 DEF StampBounds, LeftInQueues, SliceEnd, Lead
  <1>4. CASE ~InSlice' BY <1>4 DEF LeftInQueues
  <1>5. CASE UNCHANGED <<queues, current, clocks, duration, pc>>
    BY <1>5 DEF StampBounds, LeftInQueues, SliceEnd, Lead, InSlice
  <1> QED
    BY <1>1, <1>2, <1>3, <1>4, <1>5
    DEF Next, Simulator, Machine, ChooseVM, MergeFrame, Select, Deliver, QueryClock,
        Resume, Refuse, Stop, Fault, Tick, Emit, HorizonReached, vars, InSlice

LEMMA InitStamps == Init => StampBounds
  <1> SUFFICES ASSUME Init PROVE StampBounds OBVIOUS
  <1>1. ~InSlice BY DEF Init, InSlice
  <1>2. TapStamps /\ QueueStamps /\ DequeStamps
    BY DEF Init, TapStamps, QueueStamps, DequeStamps, NearlySorted
  <1> QED BY <1>1, <1>2 DEF StampBounds, LeftInQueues

LEMMA NextStamps ==
  ASSUME TypeOK, SliceTiming, StampBounds, [Next]_vars
  PROVE  StampBounds'
  BY IdleStep, TapStep, QueueStep, DequeStep, LeftStep DEF StampBounds

(* A stamp is at least the latency after the frame was sent and at most    *)
(* the latency and Lead ahead of its sender's clock; no two frames of a    *)
(* link or of the deque are out of order by more than Lead (StampBounds).  *)
(* How long a frame waited in the TAP before it was stamped is not bounded.*)
THEOREM StampsBounded == Spec => []StampBounds
  <1>1. TypeOK /\ SliceTiming /\ StampBounds /\ [Next]_vars => StampBounds'
    BY NextStamps
  <1> QED BY InitStamps, TypeCorrect, TimingCorrect, <1>1, PTL DEF Spec

-----------------------------------------------------------------------------
(* What follows for a single frame.                                        *)

LEMMA StepKeepsLatency ==
  ASSUME TypeOK, SliceTiming, StampBounds, [Next]_vars, pc = "deliver",
         current \notin needsReset,
         NEW k \in 1 .. Len(toDeliver) - Len(toDeliver')
  PROVE  guest[current] + 2 * Lead >=
           toDeliver[k].sentAt + Lat(current, toDeliver[k].from)
  <1>a. /\ toDeliver \in Seq(Frame) /\ current \in VM
        /\ guest[current] \in Nat /\ Estimate \in Nat
    BY EstimateNat DEF TypeOK
  <1>1. CASE Deliver
    <2>1. PICK b \in 0 .. Len(toDeliver) :
            /\ b > 0 => toDeliver[b].ts <= Estimate
            /\ toDeliver' = SubSeq(toDeliver, b + 1, Len(toDeliver))
      BY <1>1 DEF Deliver, WriteFirst, IsUpperBound
    <2>2. Len(toDeliver) - Len(toDeliver') = b BY <2>1, <1>a
    <2>3. b > 0 /\ b \in 1 .. Len(toDeliver) /\ k \in 1 .. Len(toDeliver) /\ k <= b
      BY <2>1, <2>2, <1>a
    <2>4. /\ toDeliver[k].ts \in Nat /\ toDeliver[b].ts \in Nat
          /\ toDeliver[k].sentAt \in Nat /\ toDeliver[k].from \in VM
      BY <2>3, DequeFrames
    <2>5. toDeliver[k].ts <= toDeliver[b].ts + Lead
      <3>1. CASE k = b BY <3>1, <2>4, LeadNat
      <3>2. CASE k < b BY <3>2, <2>3 DEF StampBounds, DequeStamps, NearlySorted
      <3> QED BY <3>1, <3>2, <2>3
    <2>6. toDeliver[k].sentAt + Lat(current, toDeliver[k].from) <= toDeliver[k].ts
      BY <2>3 DEF StampBounds, DequeStamps
    <2>7. Estimate <= guest[current] + Lead
      BY EstimateLeads DEF InSlice, SliceTiming
    <2>8. Lat(current, toDeliver[k].from) \in Nat BY <2>4, <1>a, LatNat
    <2> DEFINE s == toDeliver[k].sentAt
               l == Lat(current, toDeliver[k].from)
               t == toDeliver[k].ts
               u == toDeliver[b].ts
               g == guest[current]
    <2>9. /\ s \in Nat /\ l \in Nat /\ t \in Nat /\ u \in Nat /\ g \in Nat
          /\ Estimate \in Nat /\ Lead \in Nat
          /\ s + l <= t /\ t <= u + Lead /\ u <= Estimate /\ Estimate <= g + Lead
      BY <2>1, <2>3, <2>4, <2>5, <2>6, <2>7, <2>8, <1>a, LeadNat
    <2> HIDE DEF s, l, t, u, g
    <2>10. g + 2 * Lead >= s + l BY <2>9
    <2> QED BY <2>10 DEF s, l, g
  <1>2. CASE toDeliver' = toDeliver
    <2>1. Len(toDeliver) - Len(toDeliver') = 0 BY <1>2, <1>a
    <2> QED BY <2>1
  <1> QED
    BY <1>1, <1>2
    DEF Next, Simulator, Machine, ChooseVM, MergeFrame, StartSlice, Select, ReadTap,
        QueryClock, Resume, Refuse, Stop, Fault, Tick, Emit, HorizonReached, vars

(* No frame is written to its receiver before the configured latency has   *)
(* passed, up to twice the lead of the host's estimate, unless its guest   *)
(* will never run again (LatencyKept).                                     *)
THEOREM LatencyIsKept == Spec => LatencyKept
  <1>1. TypeOK /\ SliceTiming /\ StampBounds /\ [Next]_vars =>
          [pc = "deliver" /\ current \notin needsReset => \A k \in 1 .. Len(toDeliver) - Len(toDeliver') :
             guest[current] + 2 * Lead >=
               toDeliver[k].sentAt + Lat(current, toDeliver[k].from)]_vars
    BY StepKeepsLatency
  <1> QED BY TypeCorrect, TimingCorrect, StampsBounded, <1>1, PTL DEF Spec, LatencyKept

(* NoOverdueFrame is inductive given StampBounds: the running guest cannot *)
(* pass the end of its slice by more than the overrun, and what was left   *)
(* in its queues is not due before that end, but for the lead.             *)
LEMMA InitOverdue == Init => NoOverdueFrame
  BY DEF Init, NoOverdueFrame

LEMMA NextOverdue ==
  ASSUME TypeOK, SliceTiming, StampBounds, NoOverdueFrame, [Next]_vars
  PROVE  NoOverdueFrame'
  <1> SUFFICES ASSUME NEW i \in VM, NEW j \in VM, NEW n \in 1 .. Len(queues'[i][j])
               PROVE  guest'[i] <= queues'[i][j][n].ts + Overrun + Lead
    BY DEF NoOverdueFrame, Lead
  <1>a. /\ queues \in [VM -> [VM -> Seq(Frame)]] /\ current \in VM
        /\ guest \in [VM -> Nat] /\ clocks \in [VM -> Nat]
    BY DEF TypeOK
  <1>old. ASSUME NEW m \in 1 .. Len(queues[i][j])
          PROVE  guest[i] <= queues[i][j][m].ts + Overrun + Lead
    BY DEF NoOverdueFrame
  <1>1. ASSUME NEW m \in VM, MergeFrame(m)
        PROVE  guest'[i] <= queues'[i][j][n].ts + Overrun + Lead
    <2>1. PICK p \in 1 .. Len(queues[i][j]) : queues'[i][j][n] = queues[i][j][p]
      BY <1>1, MergeLeaves
    <2>2. guest' = guest BY <1>1 DEF MergeFrame
    <2> QED BY <2>1, <2>2, <1>old
  <1>2. CASE ReadTap
    <2>1. guest' = guest BY <1>2 DEF ReadTap
    <2>2. CASE n \in 1 .. Len(queues[i][j]) /\ queues'[i][j][n] = queues[i][j][n]
      BY <2>1, <2>2, <1>old
    <2>3. CASE ~(n \in 1 .. Len(queues[i][j]) /\ queues'[i][j][n] = queues[i][j][n])
      <3>1. PICK f \in Raw, e \in Nat :
              \A k, m \in VM :
                 queues'[k][m] =
                   IF k \in Receivers(f) /\ m = current
                   THEN Append(queues[k][m], [id |-> f.id, from |-> current,
                           sentAt |-> f.sentAt, ts |-> e + Lat(k, current)])
                   ELSE queues[k][m]
        BY <1>2, ReadTapQueues
      <3> DEFINE g == [id |-> f.id, from |-> current, sentAt |-> f.sentAt,
                       ts |-> e + Lat(i, current)]
      <3>2. queues'[i][j] = Append(queues[i][j], g) BY <3>1, <2>3
      <3> HIDE DEF g
      <3>3. n = Len(queues[i][j]) + 1 /\ Len(queues'[i][j]) = n
        <4>1. queues[i][j] \in Seq(Frame) BY <1>a
        <4>2. Len(queues'[i][j]) = Len(queues[i][j]) + 1 BY <3>2, <4>1
        <4>3. n \in 1 .. Len(queues[i][j]) => queues'[i][j][n] = queues[i][j][n]
          BY <3>2, <4>1
        <4>4. n \notin 1 .. Len(queues[i][j]) BY <4>3, <2>3
        <4> QED BY <4>1, <4>2, <4>4
      <3>4. Len(queues'[i][j]) > Len(queues[i][j]) BY <3>3, <1>a
      <3>5. queues'[i][j][n].ts + Overrun >= guest[i]
        BY <3>3, <3>4, StepQueuesInFuture
      <3>6. queues'[i][j][n].ts \in Nat
        <4>1. queues'[i][j] \in Seq(Frame) BY NextType DEF TypeOK
        <4> QED BY <4>1, ElementsAreFrames
      <3> DEFINE t == queues'[i][j][n].ts
                 c == guest[i]
      <3>7. t \in Nat /\ c \in Nat /\ t + Overrun >= c BY <3>5, <3>6, <1>a
      <3> HIDE DEF t, c
      <3>8. c <= t + Overrun + Lead BY <3>7, LeadNat
      <3> QED BY <3>8, <2>1 DEF t, c
    <2> QED BY <2>2, <2>3
  <1>3. CASE Tick
    <2>1. queues' = queues /\ InSlice BY <1>3 DEF Tick
    <2>2. CASE guest'[i] = guest[i] BY <2>1, <2>2, <1>old
    <2>3. CASE guest'[i] # guest[i]
      <3>1. /\ i = current /\ guest'[i] = guest[i] + 1
            /\ guest[i] < clocks[current] + RunFor + Overrun
        <4>1. /\ guest[current] < clocks[current] + RunFor + Overrun
              /\ guest' = [guest EXCEPT ![current] = @ + 1]
          BY <1>3, <2>3 DEF Tick
        <4> QED BY <4>1, <2>3, <1>a
      <3>2. SliceEnd <= queues[i][j][n].ts + Lead
        BY <2>1, <3>1 DEF StampBounds, LeftInQueues
      <3>3. /\ RunFor \in Nat /\ duration \in Nat /\ RunFor <= duration
            /\ SliceEnd = clocks[current] + duration
        BY RunForBound DEF TypeOK, SliceEnd
      <3>4. queues[i][j][n].ts \in Nat BY <2>1, QueuedFrames
      <3> DEFINE t == queues[i][j][n].ts
                 c == clocks[current]
                 g == guest[i]
      <3>5. /\ t \in Nat /\ c \in Nat /\ g \in Nat
            /\ g < c + RunFor + Overrun /\ c + duration <= t + Lead
        BY <3>1, <3>2, <3>3, <3>4, <1>a
      <3> HIDE DEF t, c, g
      <3>6. g + 1 <= t + Overrun + Lead BY <3>3, <3>5, LeadNat
      <3> QED BY <3>6, <3>1, <2>1 DEF t, g
    <2> QED BY <2>2, <2>3
  <1>4. CASE UNCHANGED <<queues, guest>> BY <1>4, <1>old
  <1> QED
    BY <1>1, <1>2, <1>3, <1>4
    DEF Next, Simulator, Machine, ChooseVM, StartSlice, Select, Deliver, QueryClock,
        Resume, Refuse, Stop, Fault, Emit, HorizonReached, vars

(* No frame waits in a queue while its receiver's clock moves past its     *)
(* delivery time, but for the overrun and the lead (NoOverdueFrame).       *)
THEOREM NothingOverdue == Spec => []NoOverdueFrame
  <1>1. TypeOK /\ SliceTiming /\ StampBounds /\ NoOverdueFrame /\ [Next]_vars
          => NoOverdueFrame'
    BY NextOverdue
  <1> QED BY InitOverdue, TypeCorrect, TimingCorrect, StampsBounded, <1>1, PTL DEF Spec
=============================================================================
