---------------------------- MODULE NetworkProofs ----------------------------
(***************************************************************************)
(* That the simulator is a virtual network (VirtualNetwork), for any       *)
(* number of VMs, any latencies and lags, and any fraction of a            *)
(* millisecond that run-time-slice cannot express.                         *)
(***************************************************************************)
EXTENDS LatencyProofs

-----------------------------------------------------------------------------
(* The frames of a sequence.                                               *)

LEMMA FramesTail ==
  ASSUME NEW S, NEW s \in Seq(S), s # <<>>
  PROVE  Frames(s) = {Head(s)} \cup Frames(Tail(s))
  <1> USE TailElements
  <1>1. ASSUME NEW n \in 1 .. Len(s) PROVE s[n] \in {Head(s)} \cup Frames(Tail(s))
    <2>1. CASE n = 1 BY <2>1
    <2>2. CASE n # 1
      <3>1. n - 1 \in 1 .. Len(Tail(s)) BY <2>2
      <3>2. Tail(s)[n - 1] = s[n] BY <3>1
      <3>3. s[n] \in Frames(Tail(s)) BY <3>1, <3>2 DEF Frames
      <3> QED BY <3>3
    <2> QED BY <2>1, <2>2
  <1>2. ASSUME NEW n \in 1 .. Len(Tail(s)) PROVE Tail(s)[n] \in Frames(s)
    BY DEF Frames
  <1>3. Head(s) \in Frames(s) BY DEF Frames
  <1> QED BY <1>1, <1>2, <1>3 DEF Frames

LEMMA FramesAppend ==
  ASSUME NEW S, NEW s \in Seq(S), NEW e \in S
  PROVE  Frames(Append(s, e)) = Frames(s) \cup {e}
  <1>1. ASSUME NEW n \in 1 .. Len(Append(s, e)) PROVE Append(s, e)[n] \in Frames(s) \cup {e}
    BY AppendElements DEF Frames
  <1>2. ASSUME NEW n \in 1 .. Len(s) PROVE s[n] \in Frames(Append(s, e))
    <2>1. n \in 1 .. Len(Append(s, e)) /\ Append(s, e)[n] = s[n]
      BY AppendProperties
    <2> QED BY <2>1 DEF Frames
  <1>3. e \in Frames(Append(s, e))
    <2>1. /\ Len(s) + 1 \in 1 .. Len(Append(s, e))
          /\ Append(s, e)[Len(s) + 1] = e
      BY AppendProperties
    <2> QED BY <2>1 DEF Frames
  <1> QED BY <1>1, <1>2, <1>3 DEF Frames

-----------------------------------------------------------------------------
(* The three places in which a frame of a link can be.                     *)

InDeque(i, j) == {g \in Frames(toDeliver) : i = current /\ g.from = j}
OnTap(i, j)   == {g \in Frames(tap[j]) : i # j /\ g.dst \in {i, Broadcast}}
Numbers(S)    == {Numbered(f) : f \in S}

LEMMA WireParts ==
  ASSUME NEW i \in VM, NEW j \in VM
  PROVE  Wire(i, j) = Numbers(InDeque(i, j)) \cup Numbers(Frames(queues[i][j]))
                        \cup Numbers(OnTap(i, j))
  BY DEF Wire, Numbers, InDeque, OnTap

LEMMA WirePartsNext ==
  ASSUME NEW i \in VM, NEW j \in VM
  PROVE  Wire(i, j)' = Numbers(InDeque(i, j)') \cup Numbers(Frames(queues'[i][j]))
                        \cup Numbers(OnTap(i, j)')
  BY DEF Wire, Numbers, InDeque, OnTap, Frames, Numbered

(* A link is the same if its parts make the same.                          *)
LEMMA WireSame ==
  ASSUME NEW i \in VM, NEW j \in VM,
         Numbers(InDeque(i, j)') \cup Numbers(Frames(queues'[i][j])) \cup Numbers(OnTap(i, j)')
           = Numbers(InDeque(i, j)) \cup Numbers(Frames(queues[i][j])) \cup Numbers(OnTap(i, j))
  PROVE  Wire(i, j)' = Wire(i, j)
  <1>1. Wire(i, j) = Numbers(InDeque(i, j)) \cup Numbers(Frames(queues[i][j]))
                       \cup Numbers(OnTap(i, j))
    BY WireParts
  <1>2. Wire(i, j)' = Numbers(InDeque(i, j)') \cup Numbers(Frames(queues'[i][j]))
                        \cup Numbers(OnTap(i, j)')
    BY WirePartsNext
  <1> QED BY <1>1, <1>2

LEMMA NumbersUnion ==
  ASSUME NEW S, NEW f
  PROVE  Numbers(S \cup {f}) = Numbers(S) \cup {Numbered(f)}
  BY DEF Numbers

LEMMA SameWire ==
  ASSUME UNCHANGED <<toDeliver, current, queues, tap>>, NEW i \in VM, NEW j \in VM
  PROVE  Wire(i, j)' = Wire(i, j)
  BY DEF Wire, Frames, Numbered

(* What leaves the clocks, the count and the wires where they are, and     *)
(* neither breaks a VM nor loses a frame.                                  *)
LEMMA NetStutter ==
  ASSUME UNCHANGED <<guest, emitted, faulty, failed, lost>>, \A i, j \in VM : Wire(i, j)' = Wire(i, j)
  PROVE  UNCHANGED Network!netVars
  BY DEF Network!netVars

(* Between two rounds nothing is left in the deque.                        *)
ChooseEmpty == pc = "choose" => toDeliver = <<>>

LEMMA NextEmpty == ChooseEmpty /\ [Next]_vars => ChooseEmpty'
  BY DEF ChooseEmpty, Next, Simulator, Machine, ChooseVM, MergeFrame, StartSlice, Select,
         ReadTap, Deliver, QueryClock, Resume, Refuse, Stop, Fault, Tick, Emit,
         HorizonReached, vars

NInv == TypeOK /\ SliceTiming /\ StampBounds /\ LinkOrder /\ LossWindow /\ ChooseEmpty

-----------------------------------------------------------------------------
(* The steps inside a link, of which its ends see nothing.                 *)

LEMMA ChooseKeepsWire ==
  ASSUME NInv, NEW v \in VM, ChooseVM(v), NEW i \in VM, NEW j \in VM
  PROVE  Wire(i, j)' = Wire(i, j)
  <1>1. toDeliver = <<>> /\ toDeliver' = <<>> /\ UNCHANGED <<queues, tap>>
    BY DEF NInv, ChooseEmpty, ChooseVM
  <1>2. Frames(toDeliver) = {} /\ Frames(toDeliver') = {} BY <1>1 DEF Frames
  <1> QED BY <1>1, <1>2 DEF Wire, Frames, Numbered

LEMMA MergeKeepsWire ==
  ASSUME NInv, NEW m \in VM, MergeFrame(m), NEW i \in VM, NEW j \in VM
  PROVE  Wire(i, j)' = Wire(i, j)
  <1> DEFINE q == queues[current][m]
             h == Head(q)
  <1>1. /\ current \in VM /\ toDeliver \in Seq(Frame)
        /\ queues \in [VM -> [VM -> Seq(Frame)]]
    BY DEF NInv, TypeOK
  <1>2. q \in Seq(Frame) /\ q # <<>> BY <1>1 DEF MergeFrame, Due
  <1>3. h = q[1] /\ 1 \in 1 .. Len(q) /\ h \in Frame /\ h.from = m
    <2>1. h = q[1] /\ 1 \in 1 .. Len(q) BY <1>2, TailElements
    <2>2. q[1].from = m BY <2>1, <1>1 DEF NInv, LinkOrder, QueuesInOrder
    <2>3. q[1] \in Frame BY <2>1, <1>2
    <2> HIDE DEF q, h
    <2> QED BY <2>1, <2>2, <2>3
  <1>4. /\ toDeliver' = Append(toDeliver, h)
        /\ queues' = [queues EXCEPT ![current][m] = Tail(q)]
        /\ current' = current /\ tap' = tap
    BY DEF MergeFrame
  <1>6. Frames(q) = {h} \cup Frames(Tail(q)) BY <1>2, FramesTail
  <1> HIDE DEF h, q
  <1>5. Frames(toDeliver') = Frames(toDeliver) \cup {h}
    <2>1. toDeliver \in Seq(Frame) BY <1>1
    <2>2. h \in Frame BY <1>3
    <2>3. Frames(Append(toDeliver, h)) = Frames(toDeliver) \cup {h}
      BY ONLY <2>1, <2>2, FramesAppend
    <2> QED BY <2>3, <1>4
  <1>7. OnTap(i, j)' = OnTap(i, j) BY <1>4 DEF OnTap, Frames
  <1>d. InDeque(i, j)' = {g \in Frames(toDeliver) \cup {h} : i = current /\ g.from = j}
    BY <1>4, <1>5 DEF InDeque, Frames
  <1>8. CASE i = current /\ j = m
    <2>1. InDeque(i, j)' = InDeque(i, j) \cup {h}
      BY <1>3, <1>8, <1>d DEF InDeque
    <2>2. queues'[i][j] = Tail(q) BY <1>1, <1>4, <1>8
    <2>3. queues[i][j] = q BY <1>8 DEF q
    <2>4. Numbers(Frames(q)) = Numbers(Frames(Tail(q))) \cup {Numbered(h)}
      BY <1>6, NumbersUnion
    <2>5. Numbers(InDeque(i, j)') = Numbers(InDeque(i, j)) \cup {Numbered(h)}
      BY <2>1, NumbersUnion
    <2> QED BY <2>2, <2>3, <2>4, <2>5, <1>7, WireSame
  <1>9. CASE ~(i = current /\ j = m)
    <2>1. InDeque(i, j)' = InDeque(i, j) BY <1>3, <1>9, <1>d DEF InDeque
    <2>2. queues'[i][j] = queues[i][j] BY <1>1, <1>4, <1>9
    <2> QED BY <2>1, <2>2, <1>7, WireSame
  <1> QED BY <1>8, <1>9

LEMMA ReadTapKeepsWire ==
  ASSUME NInv, ReadTap, NEW i \in VM, NEW j \in VM
  PROVE  Wire(i, j)' = Wire(i, j)
  <1> DEFINE t == tap[current]
             f == Head(t)
             Stamped(k) == [id |-> f.id, from |-> current, sentAt |-> f.sentAt,
                            ts |-> Estimate + Lat(k, current)]
  <1>1. /\ current \in VM /\ queues \in [VM -> [VM -> Seq(Frame)]]
        /\ tap \in [VM -> Seq(Raw)] /\ Estimate \in Nat
    BY EstimateNat DEF NInv, TypeOK
  <1>2. t \in Seq(Raw) /\ t # <<>> BY <1>1 DEF ReadTap
  <1>3. f = t[1] /\ 1 \in 1 .. Len(t) /\ f \in Raw /\ f.dst # current
    BY <1>1, <1>2, TailElements DEF NInv, StampBounds, TapStamps
  <1>4. /\ tap' = [tap EXCEPT ![current] = Tail(t)]
        /\ queues' = [k \in VM |->
             IF k \in Receivers(f)
             THEN [queues[k] EXCEPT ![current] = Append(@, Stamped(k))]
             ELSE queues[k]]
        /\ toDeliver' = toDeliver /\ current' = current
    BY DEF ReadTap
  <1>5. Frames(t) = {f} \cup Frames(Tail(t)) BY <1>2, FramesTail
  <1>6. InDeque(i, j)' = InDeque(i, j) BY <1>4 DEF InDeque, Frames
  <1>7. CASE j # current
    <2>1. tap'[j] = tap[j] BY <1>1, <1>4, <1>7
    <2>2. queues'[i][j] = queues[i][j] BY <1>1, <1>4, <1>7
    <2>3. OnTap(i, j)' = OnTap(i, j) BY <2>1 DEF OnTap, Frames
    <2> QED BY <2>2, <2>3, <1>6, WireSame
  <1>8. CASE j = current
    <2>1. tap'[j] = Tail(t) BY <1>1, <1>4, <1>8
    <2>2. i \in Receivers(f) <=> i # j /\ f.dst \in {i, Broadcast}
      BY <1>3, <1>8, SchedulerAssumption DEF Receivers
    <2>t. OnTap(i, j)' = {g \in Frames(Tail(t)) : i # j /\ g.dst \in {i, Broadcast}}
      BY <2>1 DEF OnTap, Frames
    <2>3. CASE i \in Receivers(f)
      <3>1. OnTap(i, j) = OnTap(i, j)' \cup {f}
        <4> HIDE DEF f
        <4> QED BY <2>2, <2>3, <2>t, <1>5, <1>8 DEF OnTap
      <3>2. Stamped(i) \in Frame /\ Numbered(Stamped(i)) = Numbered(f)
        <4>0. Estimate \in Nat /\ Lat(i, current) \in Nat BY <1>1, LatNat
        <4>1. Estimate + Lat(i, current) \in Nat BY <4>0
        <4>2. f.id \in Nat /\ f.sentAt \in Nat BY <1>3 DEF Raw
        <4> QED BY <4>1, <4>2, <1>1 DEF Frame, Numbered
      <3>3. queues'[i][j] = Append(queues[i][j], Stamped(i))
        BY <1>1, <1>4, <1>8, <2>3
      <3> HIDE DEF Stamped, f
      <3>4. Frames(queues'[i][j]) = Frames(queues[i][j]) \cup {Stamped(i)}
        BY <3>2, <3>3, <1>1, FramesAppend
      <3>5. Numbers(Frames(queues'[i][j])) = Numbers(Frames(queues[i][j])) \cup {Numbered(f)}
        BY <3>2, <3>4, NumbersUnion
      <3>6. Numbers(OnTap(i, j)) = Numbers(OnTap(i, j)') \cup {Numbered(f)}
        BY <3>1, NumbersUnion
      <3> QED BY <3>5, <3>6, <1>6, WireSame
    <2>4. CASE i \notin Receivers(f)
      <3>1. OnTap(i, j) = OnTap(i, j)'
        <4> HIDE DEF f
        <4> QED BY <2>2, <2>4, <2>t, <1>5, <1>8 DEF OnTap
      <3>2. queues'[i][j] = queues[i][j] BY <1>1, <1>4, <1>8, <2>4
      <3> QED BY <3>1, <3>2, <1>6, WireSame
    <2> QED BY <2>3, <2>4
  <1> QED BY <1>7, <1>8

-----------------------------------------------------------------------------
(* The steps that take frames off the links of the running VM.             *)

LEMMA FrontTaken ==
  ASSUME NInv, NEW k \in 0 .. Len(toDeliver),
         toDeliver' = SubSeq(toDeliver, k + 1, Len(toDeliver)),
         UNCHANGED <<queues, current, tap>>,
         NEW j \in VM
  PROVE  /\ Wire(current, j)' \subseteq Wire(current, j)
         /\ \A f \in Wire(current, j) \ Wire(current, j)' :
              \E n \in 1 .. k : toDeliver[n].from = j /\ f = Numbered(toDeliver[n])
  <1>1. toDeliver \in Seq(Frame) /\ current \in VM BY DEF NInv, TypeOK
  <1>2. \A n \in 1 .. Len(toDeliver') :
          k + n \in 1 .. Len(toDeliver) /\ toDeliver'[n] = toDeliver[k + n]
    BY <1>1
  <1>3. \A n \in 1 .. Len(toDeliver) : n > k =>
          n - k \in 1 .. Len(toDeliver') /\ toDeliver'[n - k] = toDeliver[n]
    BY <1>1
  <1>4. Frames(toDeliver') \subseteq Frames(toDeliver) BY <1>2 DEF Frames
  <1>5. \A g \in Frames(toDeliver) \ Frames(toDeliver') :
          \E n \in 1 .. k : g = toDeliver[n]
    <2> SUFFICES ASSUME NEW n \in 1 .. Len(toDeliver), toDeliver[n] \notin Frames(toDeliver')
                 PROVE  n \in 1 .. k
      BY DEF Frames
    <2>1. CASE n > k
      <3>1. n - k \in 1 .. Len(toDeliver') /\ toDeliver'[n - k] = toDeliver[n]
        BY <1>3, <2>1
      <3>2. toDeliver[n] \in Frames(toDeliver') BY <3>1 DEF Frames
      <3> QED BY <3>2
    <2> QED BY <2>1, <1>1
  <1>6. InDeque(current, j)' = {g \in Frames(toDeliver') : g.from = j}
    BY DEF InDeque, Frames
  <1>7. InDeque(current, j) = {g \in Frames(toDeliver) : g.from = j}
    BY DEF InDeque
  <1>8. OnTap(current, j)' = OnTap(current, j) BY DEF OnTap, Frames
  <1> DEFINE Rest == Numbers(Frames(queues[current][j])) \cup Numbers(OnTap(current, j))
  <1>9. Wire(current, j) = Numbers(InDeque(current, j)) \cup Rest
    BY <1>1, WireParts
  <1>10. Wire(current, j)' = Numbers(InDeque(current, j)') \cup Rest
    BY <1>1, <1>8, WirePartsNext
  <1> HIDE DEF Rest
  <1>11. Numbers(InDeque(current, j)') \subseteq Numbers(InDeque(current, j))
    BY <1>4, <1>6, <1>7 DEF Numbers
  <1>12. Wire(current, j)' \subseteq Wire(current, j) BY <1>9, <1>10, <1>11
  <1>13. ASSUME NEW f \in Wire(current, j) \ Wire(current, j)'
         PROVE  \E n \in 1 .. k : toDeliver[n].from = j /\ f = Numbered(toDeliver[n])
    <2>1. f \in Numbers(InDeque(current, j)) /\ f \notin Numbers(InDeque(current, j)')
      BY <1>9, <1>10
    <2>2. PICK g \in Frames(toDeliver) : g.from = j /\ f = Numbered(g)
      BY <2>1, <1>7 DEF Numbers
    <2>3. g \notin Frames(toDeliver') BY <2>1, <2>2, <1>6 DEF Numbers
    <2> QED BY <2>2, <2>3, <1>5
  <1> QED BY <1>12, <1>13

(* A frame at the front of the deque was sent before any other of its link *)
(* that is still on its way.                                               *)
LEMMA FrontIsOldest ==
  ASSUME NInv, NEW k \in 0 .. Len(toDeliver),
         toDeliver' = SubSeq(toDeliver, k + 1, Len(toDeliver)),
         UNCHANGED <<queues, current, tap>>,
         NEW j \in VM, NEW n \in 1 .. k, toDeliver[n].from = j,
         NEW g \in Wire(current, j)'
  PROVE  Numbered(toDeliver[n]).id < g.id
  <1>1. toDeliver \in Seq(Frame) /\ current \in VM BY DEF NInv, TypeOK
  <1>2. \A m \in 1 .. Len(toDeliver') :
          k + m \in 1 .. Len(toDeliver) /\ toDeliver'[m] = toDeliver[k + m]
    BY <1>1
  <1>3. n \in 1 .. Len(toDeliver) BY <1>1
  <1>4. \/ \E m \in 1 .. Len(toDeliver') : toDeliver'[m].from = j /\ g = Numbered(toDeliver'[m])
        \/ \E m \in 1 .. Len(queues[current][j]) : g = Numbered(queues[current][j][m])
        \/ \E m \in 1 .. Len(tap[j]) : g = Numbered(tap[j][m])
    <2>1. InDeque(current, j)' = {f \in Frames(toDeliver') : f.from = j}
      BY DEF InDeque, Frames
    <2>2. OnTap(current, j)' = OnTap(current, j) BY DEF OnTap, Frames
    <2>3. g \in Numbers(InDeque(current, j)') \cup Numbers(Frames(queues[current][j]))
                 \cup Numbers(OnTap(current, j))
      BY <2>2, <1>1, WirePartsNext
    <2>4. CASE g \in Numbers(InDeque(current, j)')
      BY <2>1, <2>4 DEF Numbers, Frames
    <2>5. CASE g \in Numbers(Frames(queues[current][j]))
      BY <2>5 DEF Numbers, Frames
    <2>6. CASE g \in Numbers(OnTap(current, j))
      BY <2>6 DEF Numbers, OnTap, Frames
    <2> QED BY <2>3, <2>4, <2>5, <2>6
  <1>5. /\ \A b \in 1 .. Len(toDeliver) :
             n < b /\ toDeliver[b].from = j => toDeliver[n].id < toDeliver[b].id
        /\ \A b \in 1 .. Len(queues[current][j]) : toDeliver[n].id < queues[current][j][b].id
        /\ \A b \in 1 .. Len(tap[j]) : toDeliver[n].id < tap[j][b].id
    BY <1>3 DEF NInv, LinkOrder, DequeInOrder
  <1>6. CASE \E m \in 1 .. Len(toDeliver') :
               toDeliver'[m].from = j /\ g = Numbered(toDeliver'[m])
    <2>1. PICK m \in 1 .. Len(toDeliver') :
            toDeliver'[m].from = j /\ g = Numbered(toDeliver'[m])
      BY <1>6
    <2>2. k + m \in 1 .. Len(toDeliver) /\ toDeliver'[m] = toDeliver[k + m] /\ n < k + m
      BY <1>1, <1>2
    <2> QED BY <2>1, <2>2, <1>5 DEF Numbered
  <1> QED BY <1>4, <1>5, <1>6 DEF Numbered

(* A frame that is taken off the front of the deque leaves its link.       *)
LEMMA FrontIsOnWire ==
  ASSUME NInv, NEW k \in 0 .. Len(toDeliver),
         toDeliver' = SubSeq(toDeliver, k + 1, Len(toDeliver)),
         UNCHANGED <<queues, current, tap>>,
         NEW n \in 1 .. k
  PROVE  \E j \in VM : Numbered(toDeliver[n]) \in Wire(current, j) \ Wire(current, j)'
  <1>1. toDeliver \in Seq(Frame) /\ current \in VM BY DEF NInv, TypeOK
  <1>2. n \in 1 .. Len(toDeliver) BY <1>1
  <1>3. PICK j \in VM : toDeliver[n].from = j BY <1>1, <1>2, ElementsAreFrames
  <1>4. toDeliver[n].id \in Nat BY <1>1, <1>2, ElementsAreFrames
  <1>5. Numbered(toDeliver[n]) \in Wire(current, j)
    <2>1. toDeliver[n] \in InDeque(current, j) BY <1>2, <1>3 DEF InDeque, Frames
    <2>2. Numbered(toDeliver[n]) \in Numbers(InDeque(current, j)) BY <2>1 DEF Numbers
    <2> QED BY <2>2, <1>1, WireParts
  <1>6. \A g \in Wire(current, j)' : Numbered(toDeliver[n]).id < g.id
    BY <1>3, FrontIsOldest
  <1>7. Numbered(toDeliver[n]).id = toDeliver[n].id BY DEF Numbered
  <1>8. ~(toDeliver[n].id < toDeliver[n].id) BY <1>4
  <1>9. Numbered(toDeliver[n]) \notin Wire(current, j)' BY <1>6, <1>7, <1>8
  <1> QED BY <1>5, <1>9

(* When a frame of the deque is due, and why it is none that the current   *)
(* VM would have to wait for: the slice ends before a peer can interfere.  *)
DueTime(n) == toDeliver[n].sentAt + Lat(current, toDeliver[n].from)

LEMMA DueInSlice ==
  ASSUME NInv, pc # "choose", NEW n \in 1 .. Len(toDeliver)
  PROVE  DueTime(n) \in Nat /\ DueTime(n) <= SliceEnd /\ Network!Safe(current, DueTime(n))
  <1>1. /\ toDeliver \in Seq(Frame) /\ current \in VM /\ duration \in Nat
        /\ clocks \in [VM -> Nat] /\ guest \in [VM -> Nat] /\ SliceEnd \in Nat
    BY EstimateNat DEF NInv, TypeOK
  <1>2. /\ toDeliver[n].ts \in Nat /\ toDeliver[n].sentAt \in Nat
        /\ Lat(current, toDeliver[n].from) \in Nat
    BY <1>1, ElementsAreFrames, LatNat
  <1>3. DueTime(n) \in Nat BY <1>2 DEF DueTime
  <1>4. DueTime(n) <= toDeliver[n].ts
    BY DEF NInv, StampBounds, DequeStamps, DueTime
  <1>5. toDeliver[n].ts <= SliceEnd BY DEF NInv, LossWindow
  <1>6. DueTime(n) <= SliceEnd BY <1>1, <1>2, <1>3, <1>4, <1>5
  <1>7. ASSUME NEW w \in VM \ {current}
        PROVE  DueTime(n) <= guest[w] + Lat(current, w)
    <2>1. duration <= Slack(current, w) BY <1>1, <1>7 DEF NInv, SliceTiming, Limiting, VM
    <2>2. guest[w] = clocks[w] BY <1>7 DEF NInv, SliceTiming
    <2>3. /\ clocks[w] \in Nat /\ clocks[current] \in Nat /\ Lat(current, w) \in Nat
      BY <1>1, LatNat
    <2>4. duration <= clocks[w] + Lat(current, w) - clocks[current] BY <2>1 DEF Slack
    <2> QED BY <2>2, <2>3, <2>4, <1>1, <1>3, <1>6 DEF SliceEnd
  <1>8. Network!Safe(current, DueTime(n)) BY <1>1, <1>7 DEF Network!Safe
  <1> QED BY <1>3, <1>6, <1>8

(* Taking the front of the deque off the links to the current VM, while    *)
(* the frames at some of its places are lost.                              *)
LEMMA TakeMaps ==
  ASSUME NInv, NEW k \in 0 .. Len(toDeliver),
         toDeliver' = SubSeq(toDeliver, k + 1, Len(toDeliver)),
         UNCHANGED <<queues, current, tap, guest, emitted>>,
         NEW places \in SUBSET (1 .. k), Lose(places),
         places # {} => \A n \in 1 .. k : Network!MayLose(current, DueTime(n)),
         \A n \in (1 .. k) \ places : guest[current] + 2 * Lead >= DueTime(n),
         \/ UNCHANGED <<faulty, failed>>
         \/ /\ current \in Fragile \cup Unwritable
            /\ (faulty \cup failed)' = (faulty \cup failed) \cup {current}
  PROVE  Network!HandOver(current)
  <1> DEFINE left == [j \in VM |-> Wire(current, j)']
             wire == [i \in VM |-> [j \in VM |-> Wire(i, j)]]
             links == wire[current]
             losses == {Numbered(toDeliver[n]) : n \in places}
  <1>1. current \in VM /\ toDeliver \in Seq(Frame) BY DEF NInv, TypeOK
  <1>l. \A j \in VM : links[j] = Wire(current, j) /\ left[j] = Wire(current, j)'
    BY <1>1
  <1>2. \A j \in VM : Wire(current, j)' \subseteq Wire(current, j)
    BY FrontTaken
  <1>3. \A j \in VM : \A f \in Wire(current, j) \ Wire(current, j)' :
          \E n \in 1 .. k : toDeliver[n].from = j /\ f = Numbered(toDeliver[n])
    BY FrontTaken
  <1>4. \A j \in VM : \A f \in Wire(current, j) \ Wire(current, j)' :
          \A g \in Wire(current, j)' : f.id < g.id
    BY <1>3, FrontIsOldest
  <1>5. ASSUME NEW j \in VM, NEW f \in Wire(current, j) \ Wire(current, j)'
        PROVE  IF f \in losses THEN Network!MayLose(current, f.sentAt + Lat(current, j))
                               ELSE guest[current] + 2 * Lead >= f.sentAt + Lat(current, j)
    <2>1. PICK n \in 1 .. k : toDeliver[n].from = j /\ f = Numbered(toDeliver[n])
      BY <1>3, <1>5
    <2>2. f.sentAt + Lat(current, j) = DueTime(n) BY <2>1 DEF Numbered, DueTime
    <2>3. CASE f \notin losses
      <3>1. n \notin places BY <2>1, <2>3
      <3> QED BY <2>2, <2>3, <3>1
    <2>4. CASE f \in losses
      <3>1. places # {} BY <2>4
      <3> QED BY <2>2, <2>4, <3>1
    <2> QED BY <2>3, <2>4
  <1>6. ASSUME NEW i \in VM, NEW j \in VM, i # current
        PROVE  Wire(i, j)' = Wire(i, j)
    <2>1. InDeque(i, j)' = InDeque(i, j) BY <1>6 DEF InDeque
    <2>2. OnTap(i, j)' = OnTap(i, j) BY DEF OnTap, Frames
    <2> QED BY <2>1, <2>2, WireSame
  <1>7. left \in Network!Parts(links)
    <2>1. \A j \in VM : left[j] \subseteq links[j]
      <3> HIDE DEF links, left
      <3> QED BY ONLY <1>l, <1>2
    <2>2. \A j \in VM : left[j] \subseteq UNION {links[v] : v \in VM}
      <3> HIDE DEF links, left
      <3> QED BY ONLY <2>1
    <2>3. left = [j \in VM |-> left[j]] OBVIOUS
    <2> HIDE DEF links, left
    <2>4. left \in [VM -> SUBSET UNION {links[v] : v \in VM}]
      BY ONLY <2>2, <2>3
    <2> QED BY ONLY <2>1, <2>4 DEF Network!Parts
  <1>8. losses \in SUBSET Network!Taken(links, left)
    <2>1. ASSUME NEW n \in places
          PROVE  Numbered(toDeliver[n]) \in UNION {links[j] \ left[j] : j \in VM}
      <3>1. n \in 1 .. k BY <2>1
      <3>2. PICK j \in VM :
              Numbered(toDeliver[n]) \in Wire(current, j) \ Wire(current, j)'
        BY <3>1, FrontIsOnWire
      <3>3. Wire(current, j) \ Wire(current, j)' = links[j] \ left[j] BY <1>l
      <3> HIDE DEF links, left
      <3> QED BY <3>2, <3>3
    <2> HIDE DEF links, left
    <2> QED BY <2>1 DEF Network!Taken
  <1>9. lost' = lost \cup {[id |-> f.id, to |-> current] : f \in losses}
    <2>1. \A n \in places : Numbered(toDeliver[n]).id = toDeliver[n].id BY DEF Numbered
    <2> QED BY <2>1 DEF Lose
  <1>10. wire' = [wire EXCEPT ![current] = left]
    BY <1>1, <1>6
  <1> HIDE DEF losses
  <1>11. Network!Take(current, left, losses)
    <2>1. \A j \in VM : \A f \in wire[current][j] \ left[j] :
             /\ \A g \in left[j] : f.id < g.id
             /\ IF f \in losses THEN Network!MayLose(current, f.sentAt + Lat(current, j))
                                ELSE guest[current] + 2 * Lead >= f.sentAt + Lat(current, j)
      BY <1>l, <1>4, <1>5
    <2> HIDE DEF left
    <2> QED BY <2>1, <1>1, <1>9, <1>10 DEF Network!Take
  <1>12. UNCHANGED (faulty \cup failed) \/ Network!Breaks(current)
    BY DEF Network!Breaks
  <1> QED BY <1>7, <1>8, <1>11, <1>12 DEF Network!HandOver

LEMMA DeliverMaps ==
  ASSUME NInv, Deliver
  PROVE  Network!Next
  <1>1. PICK k \in 0 .. Len(toDeliver) : WriteFirst(k) BY DEF Deliver
  <1>2. PICK errors \in SUBSET (1 .. k) :
          /\ toDeliver' = SubSeq(toDeliver, k + 1, Len(toDeliver))
          /\ errors # {} => current \in Unwritable
          /\ failed' = IF errors = {} THEN failed ELSE failed \cup {current}
          /\ Lose(IF current \in needsReset THEN 1 .. k ELSE errors)
    BY <1>1 DEF WriteFirst
  <1> DEFINE places == IF current \in needsReset THEN 1 .. k ELSE errors
  <1>3. /\ UNCHANGED <<queues, current, tap, guest, emitted, faulty, needsReset>>
        /\ pc = "deliver"
    BY DEF Deliver, vmVars
  <1>4. toDeliver \in Seq(Frame) /\ current \in VM /\ needsReset \subseteq faulty
    BY DEF NInv, TypeOK
  <1>5. places \in SUBSET (1 .. k) /\ Lose(places) BY <1>2
  <1>6. ASSUME NEW n \in (1 .. k) \ places
        PROVE  guest[current] + 2 * Lead >= DueTime(n)
    <2>1. current \notin needsReset BY <1>6
    <2>2. Len(toDeliver) - Len(toDeliver') = k BY <1>2, <1>4
    <2>3. [Next]_vars BY DEF Next, Simulator
    <2> QED BY <2>1, <2>2, <2>3, <1>3, StepKeepsLatency DEF NInv, DueTime
  <1>7. places # {} => current \in faulty' \cup failed'
    BY <1>2, <1>3, <1>4
  <1> HIDE DEF places
  <1>8. ASSUME places # {}, NEW n \in 1 .. k
        PROVE  Network!MayLose(current, DueTime(n))
    <2>1. n \in 1 .. Len(toDeliver) BY <1>4
    <2>2. Network!Safe(current, DueTime(n)) BY <2>1, <1>3, DueInSlice
    <2> QED BY <2>2, <1>7, <1>8 DEF Network!MayLose
  <1>9. \/ UNCHANGED <<faulty, failed>>
        \/ /\ current \in Fragile \cup Unwritable
           /\ (faulty \cup failed)' = (faulty \cup failed) \cup {current}
    BY <1>2, <1>3
  <1>10. Network!HandOver(current)
    BY <1>2, <1>3, <1>5, <1>6, <1>8, <1>9, TakeMaps
  <1> QED BY <1>4, <1>10 DEF Network!Next

(* What is still in the deque when it is destroyed is due within the       *)
(* fraction of a millisecond that run-time-slice could not express, if no  *)
(* fault has cut the slice short.                                          *)
LEMMA LostSoon ==
  ASSUME NInv, pc = "query", NEW n \in 1 .. Len(toDeliver)
  PROVE  \/ current \in faulty
         \/ Ms - 1 > 0 /\ guest[current] + (Ms - 1) >= DueTime(n)
  <1>1. /\ toDeliver \in Seq(Frame) /\ guest[current] \in Nat /\ SliceEnd \in Nat
        /\ Ms \in Nat
    BY EstimateNat, SchedulerAssumption DEF NInv, TypeOK
  <1>2. 1 \in 1 .. Len(toDeliver) /\ toDeliver # <<>> BY <1>1
  <1>3. /\ guest[current] < toDeliver[1].ts
        /\ current \in faulty \/ SliceEnd < guest[current] + Ms
    BY <1>2 DEF NInv, LossWindow
  <1>4. toDeliver[1].ts \in Nat /\ toDeliver[1].ts <= SliceEnd
    BY <1>1, <1>2, ElementsAreFrames DEF NInv, LossWindow
  <1>5. DueTime(n) \in Nat /\ DueTime(n) <= SliceEnd BY DueInSlice
  <1> HIDE DEF DueTime
  <1> QED BY <1>1, <1>3, <1>4, <1>5

LEMMA QueryMaps ==
  ASSUME NInv, QueryClock
  PROVE  Network!Next
  <1> DEFINE k == Len(toDeliver)
  <1>1. /\ UNCHANGED <<queues, current, tap, guest, emitted, faulty, failed>>
        /\ pc = "query" /\ toDeliver' = <<>> /\ Lose(1 .. k)
    BY DEF QueryClock, vmVars
  <1>2. toDeliver \in Seq(Frame) /\ current \in VM BY DEF NInv, TypeOK
  <1>3. k \in 0 .. Len(toDeliver) /\ toDeliver' = SubSeq(toDeliver, k + 1, Len(toDeliver))
    BY <1>1, <1>2
  <1>4. ASSUME NEW n \in 1 .. k PROVE Network!MayLose(current, DueTime(n))
    <2>1. Network!Safe(current, DueTime(n)) BY <1>1, DueInSlice
    <2>2. \/ current \in faulty' \cup failed'
          \/ Ms - 1 > 0 /\ guest[current] + (Ms - 1) >= DueTime(n)
      BY <1>1, LostSoon
    <2> QED BY <2>1, <2>2 DEF Network!MayLose
  <1>5. Network!HandOver(current)
    <2> DEFINE places == 1 .. k
    <2>1. places \in SUBSET (1 .. k) /\ Lose(places) /\ (1 .. k) \ places = {}
      BY <1>1
    <2>2. \A n \in 1 .. k : Network!MayLose(current, DueTime(n)) BY <1>4
    <2> HIDE DEF places, k
    <2> QED BY <2>1, <2>2, <1>1, <1>3, TakeMaps
  <1> QED BY <1>2, <1>5 DEF Network!Next

-----------------------------------------------------------------------------
(* The steps of the running VM itself.                                     *)

LEMMA EmitMaps ==
  ASSUME NInv, NEW d \in Dest, Emit(d)
  PROVE  Network!Next
  <1> DEFINE r == [id |-> emitted + 1, dst |-> d, sentAt |-> guest[current]]
             receivers == IF d = Broadcast THEN VM \ {current} ELSE VM \cap {d}
             wire == [i \in VM |-> [j \in VM |-> Wire(i, j)]]
  <1>1. /\ current \in VM /\ tap \in [VM -> Seq(Raw)] /\ emitted \in Nat
        /\ guest[current] \in Nat
    BY DEF NInv, TypeOK
  <1>2. /\ tap' = [tap EXCEPT ![current] = Append(@, r)] /\ d # current
        /\ emitted' = emitted + 1
        /\ UNCHANGED <<toDeliver, queues, current, guest, faulty, failed, lost>>
    BY DEF Emit, faultVars
  <1>3. r \in Raw /\ r.dst = d /\ Numbered(r) = [id |-> emitted', sentAt |-> guest[current]]
    BY <1>1, <1>2 DEF Raw, Numbered
  <1>4. receivers \in SUBSET (VM \ {current}) BY <1>2
  <1>5. \A i \in VM : i \in receivers <=> i # current /\ d \in {i, Broadcast}
    BY <1>2, SchedulerAssumption
  <1> HIDE DEF r, receivers
  <1>6. ASSUME NEW i \in VM, NEW j \in VM, ~(j = current /\ i \in receivers)
        PROVE  Wire(i, j)' = Wire(i, j)
    <2>1. CASE j # current
      <3>1. tap'[j] = tap[j] BY <1>1, <1>2, <2>1
      <3>2. OnTap(i, j)' = OnTap(i, j) BY <3>1 DEF OnTap, Frames
      <3>3. InDeque(i, j)' = InDeque(i, j) BY <1>2 DEF InDeque, Frames
      <3> QED BY <3>2, <3>3, <1>2, WireSame
    <2>2. CASE j = current
      <3>1. tap'[j] = Append(tap[j], r) BY <1>1, <1>2, <2>2
      <3>2. Frames(tap'[j]) = Frames(tap[j]) \cup {r}
        BY <3>1, <1>1, <1>3, FramesAppend
      <3>3. OnTap(i, j)' = {g \in Frames(tap'[j]) : i # j /\ g.dst \in {i, Broadcast}}
        BY DEF OnTap, Frames
      <3>4. OnTap(i, j)' = OnTap(i, j)
        BY <3>2, <3>3, <1>3, <1>5, <1>6, <2>2 DEF OnTap
      <3>5. InDeque(i, j)' = InDeque(i, j) BY <1>2 DEF InDeque, Frames
      <3> QED BY <3>4, <3>5, <1>2, WireSame
    <2> QED BY <2>1, <2>2
  <1>7. ASSUME NEW i \in VM, i \in receivers, NEW j \in VM, j = current
        PROVE  Wire(i, j)' = Wire(i, j) \cup {Numbered(r)}
    <2>1. tap'[j] = Append(tap[j], r) BY <1>1, <1>2, <1>7
    <2>2. Frames(tap'[j]) = Frames(tap[j]) \cup {r}
      BY <2>1, <1>1, <1>3, FramesAppend
    <2>3. OnTap(i, j)' =
            {g \in Frames(tap'[j]) : i # j /\ g.dst \in {i, Broadcast}}
      BY <1>2 DEF OnTap, Frames
    <2>4. OnTap(i, j)' = OnTap(i, j) \cup {r}
      BY <2>2, <2>3, <1>3, <1>5, <1>7 DEF OnTap
    <2>5. InDeque(i, j)' = InDeque(i, j) BY <1>2 DEF InDeque, Frames
    <2>6. Wire(i, j) = Numbers(InDeque(i, j))
            \cup Numbers(Frames(queues[i][j])) \cup Numbers(OnTap(i, j))
      BY <1>1, <1>7, WireParts
    <2>7. Wire(i, j)' = Numbers(InDeque(i, j)')
            \cup Numbers(Frames(queues'[i][j])) \cup Numbers(OnTap(i, j)')
      BY <1>1, <1>2, <1>7, WirePartsNext
    <2>8. Numbers(OnTap(i, j)') = Numbers(OnTap(i, j)) \cup {Numbered(r)}
      BY <2>4, NumbersUnion
    <2> QED BY <2>5, <2>6, <2>7, <2>8, <1>2
  <1>8. wire' = [i \in VM |->
          IF i \in receivers
          THEN [wire[i] EXCEPT ![current] =
                  @ \cup {[id |-> emitted', sentAt |-> guest[current]]}]
          ELSE wire[i]]
    <2> DEFINE next == [i \in VM |->
          IF i \in receivers
          THEN [wire[i] EXCEPT ![current] =
                  @ \cup {[id |-> emitted', sentAt |-> guest[current]]}]
          ELSE wire[i]]
    <2>1. ASSUME NEW i \in VM PROVE wire'[i] = next[i]
      <3>1. wire'[i] = [j \in VM |-> Wire(i, j)'] /\ wire[i] = [j \in VM |-> Wire(i, j)]
        OBVIOUS
      <3>2. CASE i \in receivers
        <4>1. next[i] = [wire[i] EXCEPT ![current] = @ \cup {Numbered(r)}]
          BY <3>2, <1>3
        <4>2. ASSUME NEW j \in VM
              PROVE  Wire(i, j)' = IF j = current THEN Wire(i, j) \cup {Numbered(r)} ELSE Wire(i, j)
          BY <3>2, <1>6, <1>7
        <4> HIDE DEF wire, next
        <4> QED BY <3>1, <4>1, <4>2
      <3>3. CASE i \notin receivers
        <4>1. next[i] = wire[i] BY <3>3
        <4>2. \A j \in VM : Wire(i, j)' = Wire(i, j) BY <3>3, <1>6
        <4> HIDE DEF next
        <4> QED BY <3>1, <4>1, <4>2
      <3> QED BY <3>2, <3>3
    <2>2. wire' = [i \in VM |-> wire'[i]] OBVIOUS
    <2>3. next = [i \in VM |-> next[i]] OBVIOUS
    <2> HIDE DEF wire, next
    <2>4. wire' = next BY <2>1, <2>2, <2>3
    <2> QED BY <2>4 DEF next
  <1>9. Network!Send(current, receivers) BY <1>2, <1>8 DEF Network!Send
  <1> QED BY <1>1, <1>4, <1>9 DEF Network!Next

LEMMA TickMaps ==
  ASSUME NInv, Lookahead', Tick
  PROVE  [Network!Next]_(Network!netVars)
  <1>1. UNCHANGED <<toDeliver, queues, current, tap, emitted, faulty, failed, lost>>
    BY DEF Tick, faultVars
  <1>2. \A i, j \in VM : Wire(i, j)' = Wire(i, j) BY <1>1, SameWire
  <1>3. current \in VM /\ guest \in [VM -> Nat] BY DEF NInv, TypeOK
  <1>4. CASE guest' = guest BY <1>1, <1>2, <1>4, NetStutter
  <1>5. CASE guest' = [guest EXCEPT ![current] = @ + 1]
    <2>1. ASSUME NEW w \in VM \ {current}
          PROVE  guest'[current] - Overrun <= guest[w] + Lat(current, w)
      <3>1. guest'[w] = guest[w] BY <1>3, <1>5
      <3>2. guest'[current] <= guest'[w] + Lat(current, w) + Overrun
        BY <1>3 DEF Lookahead, Lat
      <3>3. /\ guest[w] \in Nat /\ guest'[current] \in Nat /\ Lat(current, w) \in Nat
            /\ Overrun \in Nat
        BY <1>3, <1>5, LatNat, LeadNat
      <3> QED BY <3>1, <3>2, <3>3
    <2>2. Network!Safe(current, guest'[current] - Overrun)
      BY <2>1, <1>3 DEF Network!Safe
    <2>3. Network!Advance(current)
      BY <1>1, <1>2, <1>5, <2>2 DEF Network!Advance
    <2> QED BY <1>3, <2>3 DEF Network!Next
  <1> QED BY <1>4, <1>5 DEF Tick

(* A guest that QEMU stops is one that breaks.                             *)
LEMMA FaultMaps ==
  ASSUME NInv, Fault
  PROVE  Network!Next
  <1>1. /\ UNCHANGED <<toDeliver, queues, current, tap, emitted, guest, failed, lost>>
        /\ faulty' = faulty \cup {current} /\ current \in Fragile
    BY DEF Fault, lossVars
  <1>2. \A i, j \in VM : Wire(i, j)' = Wire(i, j) BY <1>1, SameWire
  <1>3. current \in VM BY DEF NInv, TypeOK
  <1>4. Network!Break(current) BY <1>1, <1>2 DEF Network!Break, Network!Breaks
  <1> QED BY <1>3, <1>4 DEF Network!Next

-----------------------------------------------------------------------------
LEMMA NextMaps ==
  ASSUME NInv, Lookahead', [Next]_vars
  PROVE  [Network!Next]_(Network!netVars)
  <1>1. CASE \E v \in VM : ChooseVM(v)
    <2>1. UNCHANGED <<guest, emitted, faulty, failed, lost>> BY <1>1 DEF ChooseVM, faultVars
    <2>2. \A i, j \in VM : Wire(i, j)' = Wire(i, j) BY <1>1, ChooseKeepsWire
    <2> QED BY <2>1, <2>2, NetStutter
  <1>2. CASE \E m \in VM : MergeFrame(m)
    <2>1. UNCHANGED <<guest, emitted, faulty, failed, lost>> BY <1>2 DEF MergeFrame, faultVars
    <2>2. \A i, j \in VM : Wire(i, j)' = Wire(i, j) BY <1>2, MergeKeepsWire
    <2> QED BY <2>1, <2>2, NetStutter
  <1>3. CASE ReadTap
    <2>1. UNCHANGED <<guest, emitted, faulty, failed, lost>> BY <1>3 DEF ReadTap, faultVars
    <2>2. \A i, j \in VM : Wire(i, j)' = Wire(i, j) BY <1>3, ReadTapKeepsWire
    <2> QED BY <2>1, <2>2, NetStutter
  <1>4. CASE \/ StartSlice \/ Select \/ Resume \/ Refuse \/ Stop
             \/ HorizonReached \/ UNCHANGED vars
    <2>1. UNCHANGED <<guest, emitted, faulty, failed, lost, toDeliver, current, queues, tap>>
      BY <1>4 DEF StartSlice, Select, Resume, Refuse, Stop, HorizonReached, vars, faultVars
    <2>2. \A i, j \in VM : Wire(i, j)' = Wire(i, j) BY <2>1, SameWire
    <2> QED BY <2>1, <2>2, NetStutter
  <1> QED
    BY <1>1, <1>2, <1>3, <1>4, DeliverMaps, QueryMaps, EmitMaps, TickMaps,
       FaultMaps
    DEF Next, Simulator, Machine

LEMMA InitMaps == Init => Network!Init
  <1> SUFFICES ASSUME Init PROVE Network!Init OBVIOUS
  <1>1. ASSUME NEW i \in VM, NEW j \in VM PROVE Wire(i, j) = {}
    BY DEF Init, Wire, Frames
  <1> QED BY <1>1 DEF Init, Network!Init

(* The simulator implements the virtual network (ImplementsNetwork): links *)
(* that keep the order and the latency and only lose what is due within    *)
(* the millisecond a slice is rounded by, or what is due to a VM that has  *)
(* failed before its peers could interfere; and clocks none of which       *)
(* passes the moment a peer's next frame would have to reach it.           *)
THEOREM SimulatorIsANetwork == Spec => ImplementsNetwork
  <1>1. NInv /\ Lookahead' /\ [Next]_vars => [Network!Next]_(Network!netVars)
    BY NextMaps
  <1>2. Init => ChooseEmpty BY DEF Init, ChooseEmpty
  <1>3. Spec => []ChooseEmpty BY <1>2, NextEmpty, PTL DEF Spec
  <1> QED
    BY <1>1, <1>3, InitMaps, TypeCorrect, TimingCorrect, StampsBounded, LinksKeepOrder,
       LossIsConfined, NoVMOutrunsItsPeers, PTL
    DEF Spec, NInv, ImplementsNetwork, Network!Spec
=============================================================================
