----------------------------- MODULE LinksProofs -----------------------------
(***************************************************************************)
(* The links of the broadcast for any number of processes, messages of any *)
(* sizes, sockets of any capacity and reads of any length.                 *)
(*                                                                         *)
(* The mesh: MeshProgress is inductive, and a process that broadcasts has  *)
(* a stream to every other one, whose other end is in the same run.        *)
(*                                                                         *)
(* The stream of one link: StreamInOrder is inductive.  It says where each *)
(* byte on its way stands, and from that follow what a read parses         *)
(* (OffsetIs, ParsedIs), what it leaves in the buffer, and that the link   *)
(* implements module Link, which the protocol is written on.               *)
(***************************************************************************)
EXTENDS Links, FiniteSetTheorems, SequenceTheorems, TLAPS

-----------------------------------------------------------------------------
(* Only the steps of the mesh change its state.                            *)
LEMMA MeshSteps == ASSUME [Next]_vars PROVE [MeshNext]_meshVars
  BY DEF Next, vars, Connecting, Sending, Receiving, Quiet

LEMMA OthersCounted ==
  ASSUME NEW p \in Process
  PROVE  /\ IsFiniteSet(Process \ {p})
         /\ Cardinality(Process \ {p}) = P - 1
  <1>1. IsFiniteSet(Process) /\ Cardinality(Process) = P
    BY MeshAssumption, FS_Interval DEF Process
  <1> QED BY <1>1, FS_RemoveElement

LEMMA AllCounted ==
  ASSUME NEW p \in Process, NEW S \in SUBSET (Process \ {p})
  PROVE  /\ Cardinality(S) \in Nat /\ Cardinality(S) <= P - 1
         /\ Cardinality(S) = P - 1 => S = Process \ {p}
  <1>1. IsFiniteSet(Process \ {p}) /\ Cardinality(Process \ {p}) = P - 1
    BY OthersCounted
  <1>2. IsFiniteSet(S) /\ Cardinality(S) <= Cardinality(Process \ {p})
        /\ (Cardinality(S) = Cardinality(Process \ {p}) => S = Process \ {p})
    BY <1>1, FS_Subset
  <1>3. Cardinality(S) \in Nat BY <1>2, FS_CardinalityType
  <1> QED BY <1>1, <1>2, <1>3

-----------------------------------------------------------------------------
LEMMA InitMesh == MeshInit => MeshTypeOK /\ MeshProgress
  BY MeshAssumption DEF MeshInit, FirstPeer, MeshTypeOK, MeshProgress, Process

LEMMA NextMeshType == MeshTypeOK /\ [MeshNext]_meshVars => MeshTypeOK'
  <1> SUFFICES ASSUME MeshTypeOK, [MeshNext]_meshVars PROVE MeshTypeOK' OBVIOUS
  <1> USE DEF MeshTypeOK
  <1>1. CASE SetupsEnded BY <1>1 DEF SetupsEnded
  <1>2. ASSUME NEW p \in Process, Setup(p) PROVE MeshTypeOK' BY <1>2 DEF Setup
  <1>3. ASSUME NEW p \in Process, Launch(p) PROVE MeshTypeOK' BY <1>3 DEF Launch
  <1>4. ASSUME NEW p \in Process, Connect(p) PROVE MeshTypeOK'
    <2>1. next[p] \in Process /\ next[p] + 1 \in 1 .. P
      BY <1>4, MeshAssumption DEF Connect, Process
    <2>2. next' \in [Process -> 1 .. P] BY <1>4, <2>1 DEF Connect
    <2>3. streams' \in [Process -> SUBSET Process] BY <1>4, <2>1 DEF Connect
    <2>4. backlog' \in [Process -> SUBSET Process] BY <1>4, <2>1 DEF Connect
    <2> QED BY <1>4, <2>2, <2>3, <2>4 DEF Connect
  <1>5. ASSUME NEW p \in Process, Refused(p) PROVE MeshTypeOK' BY <1>5 DEF Refused
  <1>6. ASSUME NEW p \in Process, Wake(p) PROVE MeshTypeOK' BY <1>6 DEF Wake
  <1>7. ASSUME NEW p \in Process, Connected(p) PROVE MeshTypeOK' BY <1>7 DEF Connected
  <1>8. ASSUME NEW p \in Process, NEW q \in Process, Accept(p, q) PROVE MeshTypeOK'
    BY <1>8 DEF Accept
  <1>9. CASE UNCHANGED meshVars BY <1>9 DEF meshVars
  <1> QED
    BY <1>1, <1>2, <1>3, <1>4, <1>5, <1>6, <1>7, <1>8, <1>9
    DEF MeshNext, ScriptStep, ProcessStep

(* MeshProgress, action by action.  Only Connect and Accept touch streams: *)
(* the first adds both ends of a connection, one of them to a backlog, the *)
(* second moves that end from the backlog to the streams.                  *)
LEMMA NextMeshProgress ==
  MeshTypeOK /\ MeshProgress /\ [MeshNext]_meshVars => MeshProgress'
  <1> SUFFICES ASSUME MeshTypeOK, MeshProgress, [MeshNext]_meshVars PROVE MeshProgress'
    OBVIOUS
  <1>t. MeshTypeOK' BY NextMeshType
  <1>p. P \in Nat \ {0} /\ Process = 0 .. P - 1 BY MeshAssumption DEF Process
  <1>1. CASE SetupsEnded BY <1>1 DEF SetupsEnded, MeshProgress
  <1>2. ASSUME NEW p \in Process, Setup(p) PROVE MeshProgress'
    BY <1>2 DEF Setup, MeshProgress, MeshTypeOK
  <1>3. ASSUME NEW p \in Process, Launch(p) PROVE MeshProgress'
    <2>1. p \notin old /\ pc' = [pc EXCEPT ![p] = "connect"]
      BY <1>3 DEF Launch, MeshProgress
    <2> QED BY <1>3, <2>1 DEF Launch, MeshProgress, MeshTypeOK
  <1>4. ASSUME NEW p \in Process, Connect(p) PROVE MeshProgress'
    <2> DEFINE q == next[p]
    <2>1. /\ pc[p] = "connect" /\ q < P /\ (Bound(q) \/ q \in old)
          /\ streams' = [streams EXCEPT ![p] = @ \cup {q}]
          /\ backlog' = IF Bound(q) THEN [backlog EXCEPT ![q] = @ \cup {p}] ELSE backlog
          /\ next' = [next EXCEPT ![p] = @ + 1]
          /\ UNCHANGED <<phase, setUp, old, pc>>
      BY <1>4 DEF Connect
    <2>2. phase = "launch" /\ old = {} BY <2>1 DEF MeshProgress, MeshTypeOK
    <2>3. /\ p < q /\ q \in Process /\ pc[q] # "down"
          /\ backlog' = [backlog EXCEPT ![q] = @ \cup {p}]
      BY <1>p, <2>1, <2>2 DEF MeshProgress, MeshTypeOK, Bound
    <2>4. next' \in [Process -> 1 .. P] /\ next'[p] = q + 1 /\ q + 1 > q /\ q + 1 \in Int
      BY <2>1, <2>3, <1>t, <1>p DEF MeshTypeOK
    <2> HIDE DEF q
    <2>5. \A r \in Process : /\ r # p => streams'[r] = streams[r] /\ next'[r] = next[r]
                             /\ r # q => backlog'[r] = backlog[r]
      BY <2>1, <2>3 DEF MeshTypeOK
    <2>6. streams'[p] = streams[p] \cup {q} /\ backlog'[q] = backlog[q] \cup {p}
      BY <2>1, <2>3 DEF MeshTypeOK
    <2>7. ASSUME NEW r \in Process, NEW s \in Process, s > r
          PROVE  s \in streams'[r] <=> s < next'[r]
      <3>1. CASE r # p BY <3>1, <2>5, <2>7 DEF MeshProgress
      <3>2. CASE r = p
        <4>1. s \in streams[p] <=> s < q BY <3>2, <2>7 DEF MeshProgress, q
        <4> QED BY <4>1, <3>2, <2>4, <2>6, <2>3, <1>p
      <3> QED BY <3>1, <3>2
    <2>8. ASSUME NEW r \in Process, NEW s \in Process, s < r
          PROVE  s \in streams'[r] \cup backlog'[r] <=> r \in streams'[s]
      <3>1. s \in streams[r] \cup backlog[r] <=> r \in streams[s]
        BY <2>8 DEF MeshProgress
      <3>2. CASE r = q /\ s = p BY <3>2, <2>6
      <3>3. CASE ~(r = q /\ s = p)
        <4>1. r \in streams'[s] <=> r \in streams[s] BY <3>3, <2>5, <2>6
        <4>2. s \in streams'[r] <=> s \in streams[r]
          BY <2>5, <2>6, <2>8, <2>3, <1>p
        <4>3. s \in backlog'[r] <=> s \in backlog[r] BY <3>3, <2>5, <2>6
        <4> QED BY <3>1, <4>1, <4>2, <4>3
      <3> QED BY <3>2, <3>3
    <2>9. ASSUME NEW r \in Process
          PROVE  /\ backlog'[r] \subseteq 0 .. r - 1
                 /\ r \notin streams'[r]
                 /\ next'[r] > r
                 /\ pc[r] = "down" => next'[r] = r + 1 /\ backlog'[r] = {}
                 /\ pc[r] \in {"accept", "loop"} => next'[r] = P
                 /\ pc[r] = "loop" => Cardinality(streams'[r]) = P - 1
      <3>1. /\ backlog[r] \subseteq 0 .. r - 1
            /\ r \notin streams[r]
            /\ next[r] > r
            /\ pc[r] = "down" => next[r] = r + 1 /\ backlog[r] = {}
            /\ pc[r] \in {"accept", "loop"} => next[r] = P
            /\ pc[r] = "loop" => Cardinality(streams[r]) = P - 1
        BY DEF MeshProgress
      <3>2. backlog'[r] \subseteq 0 .. r - 1
        <4>1. p \in 0 .. q - 1 BY <2>3, <1>p
        <4> QED BY <4>1, <3>1, <2>5, <2>6
      <3>3. pc[r] = "down" => r # p /\ r # q BY <2>1, <2>3
      <3>4. r # p => next'[r] = next[r] /\ streams'[r] = streams[r] BY <2>5
      <3>5. r = p => /\ r \notin streams'[r] /\ next'[r] > r
                     /\ pc[r] = "connect"
        BY <3>1, <2>1, <2>3, <2>4, <2>6, <1>p
      <3> QED BY <3>1, <3>2, <3>3, <3>4, <3>5, <2>5
    <2> QED BY <2>1, <2>7, <2>8, <2>9 DEF MeshProgress
  <1>5. ASSUME NEW p \in Process, Refused(p) PROVE MeshProgress'
    BY <1>5 DEF Refused, MeshProgress, MeshTypeOK
  <1>6. ASSUME NEW p \in Process, Wake(p) PROVE MeshProgress'
    BY <1>6 DEF Wake, MeshProgress, MeshTypeOK
  <1>7. ASSUME NEW p \in Process, Connected(p) PROVE MeshProgress'
    <2>1. /\ pc[p] = "connect" /\ next[p] = P
          /\ pc' = [pc EXCEPT ![p] =
               IF Cardinality(streams[p]) < P - 1 THEN "accept" ELSE "loop"]
          /\ UNCHANGED <<phase, setUp, old, next, backlog, streams>>
      BY <1>7 DEF Connected
    <2>2. streams[p] \in SUBSET (Process \ {p}) BY DEF MeshProgress, MeshTypeOK
    <2>3. Cardinality(streams[p]) \in Nat /\ Cardinality(streams[p]) <= P - 1
      BY <2>2, AllCounted
    <2>4. pc'[p] = "loop" => Cardinality(streams[p]) = P - 1
      BY <2>1, <2>3, <1>p DEF MeshTypeOK
    <2>5. pc'[p] \in {"accept", "loop"} /\ \A r \in Process : r # p => pc'[r] = pc[r]
      BY <2>1 DEF MeshTypeOK
    <2> QED BY <2>1, <2>4, <2>5 DEF MeshProgress
  <1>8. ASSUME NEW p \in Process, NEW q \in Process, Accept(p, q) PROVE MeshProgress'
    <2>1. /\ pc[p] = "accept" /\ q \in backlog[p]
          /\ backlog' = [backlog EXCEPT ![p] = @ \ {q}]
          /\ streams' = [streams EXCEPT ![p] = @ \cup {q}]
          /\ pc' = [pc EXCEPT ![p] =
               IF Cardinality(streams[p] \cup {q}) = P - 1 THEN "loop" ELSE "accept"]
          /\ UNCHANGED <<phase, setUp, old, next>>
      BY <1>8 DEF Accept
    <2>2. q < p BY <2>1, <1>p DEF MeshProgress
    <2>3. /\ streams'[p] = streams[p] \cup {q} /\ backlog'[p] = backlog[p] \ {q}
          /\ \A r \in Process : r # p =>
               streams'[r] = streams[r] /\ backlog'[r] = backlog[r] /\ pc'[r] = pc[r]
      BY <2>1 DEF MeshTypeOK
    <2>4. /\ pc'[p] \in {"accept", "loop"}
          /\ pc'[p] = "loop" => Cardinality(streams'[p]) = P - 1
      BY <2>1, <2>3 DEF MeshTypeOK
    <2>5. ASSUME NEW r \in Process, NEW s \in Process
          PROVE  /\ s > r => (s \in streams'[r] <=> s < next[r])
                 /\ s < r => (s \in streams'[r] \cup backlog'[r] <=> r \in streams'[s])
      <3>1. /\ s > r => (s \in streams[r] <=> s < next[r])
            /\ s < r => (s \in streams[r] \cup backlog[r] <=> r \in streams[s])
        BY DEF MeshProgress
      <3>2. s > r => (s \in streams'[r] <=> s \in streams[r])
        BY <2>2, <2>3, <1>p
      <3>3. s < r => (r \in streams'[s] <=> r \in streams[s])
        BY <2>2, <2>3, <1>p
      <3>4. s \in streams'[r] \cup backlog'[r] <=> s \in streams[r] \cup backlog[r]
        BY <2>1, <2>3
      <3> QED BY <3>1, <3>2, <3>3, <3>4
    <2>6. ASSUME NEW r \in Process
          PROVE  /\ backlog'[r] \subseteq 0 .. r - 1 /\ r \notin streams'[r]
                 /\ pc'[r] # "panicked"
                 /\ pc'[r] # "down" => phase = "launch"
                 /\ pc'[r] = "down" => next[r] = r + 1 /\ backlog'[r] = {}
                 /\ next[r] > r
                 /\ pc'[r] \in {"accept", "loop"} => next[r] = P
                 /\ pc'[r] = "loop" => Cardinality(streams'[r]) = P - 1
      <3>1. CASE r = p BY <3>1, <2>1, <2>2, <2>3, <2>4, <1>p DEF MeshProgress
      <3>2. CASE r # p BY <3>2, <2>3 DEF MeshProgress
      <3> QED BY <3>1, <3>2
    <2> QED BY <2>1, <2>5, <2>6 DEF MeshProgress
  <1>9. CASE UNCHANGED meshVars BY <1>9 DEF meshVars, MeshProgress
  <1> QED
    BY <1>1, <1>2, <1>3, <1>4, <1>5, <1>6, <1>7, <1>8, <1>9
    DEF MeshNext, ScriptStep, ProcessStep

(* How far a process has got tells which streams there are (MeshProgress). *)
THEOREM ProgressCorrect == Spec => [](MeshTypeOK /\ MeshProgress)
  <1>1. Init => MeshTypeOK /\ MeshProgress BY InitMesh DEF Init
  <1>2. MeshTypeOK /\ MeshProgress /\ [Next]_vars => (MeshTypeOK /\ MeshProgress)'
    BY MeshSteps, NextMeshType, NextMeshProgress
  <1> QED BY <1>1, <1>2, PTL DEF Spec

(* Nobody is connected to itself or to a process of an earlier run         *)
(* (NoStrayStream): the script waits for the setups.                       *)
THEOREM NoStreamStrays == Spec => []NoStrayStream
  <1>1. MeshTypeOK /\ MeshProgress => NoStrayStream
    <2> SUFFICES ASSUME MeshTypeOK, MeshProgress,
                        NEW p \in Process, NEW q \in Process, q \in streams[p]
                 PROVE  p # q /\ (p \in streams[q] \/ p \in backlog[q])
      BY DEF NoStrayStream
    <2>1. p # q BY DEF MeshProgress
    <2>2. CASE q < p BY <2>2 DEF MeshProgress
    <2>3. CASE p < q BY <2>3 DEF MeshProgress
    <2> QED BY <2>1, <2>2, <2>3, MeshAssumption DEF Process
  <1> QED BY <1>1, ProgressCorrect, PTL

(* A process that broadcasts has a stream to every other process           *)
(* (MeshComplete).                                                         *)
THEOREM MeshIsComplete == Spec => []MeshComplete
  <1>1. MeshTypeOK /\ MeshProgress => MeshComplete
    <2> SUFFICES ASSUME MeshTypeOK, MeshProgress, NEW p \in Process, pc[p] = "loop"
                 PROVE  streams[p] = Process \ {p}
      BY DEF MeshComplete
    <2>1. streams[p] \in SUBSET (Process \ {p}) BY DEF MeshProgress, MeshTypeOK
    <2>2. Cardinality(streams[p]) = P - 1 BY DEF MeshProgress
    <2> QED BY <2>1, <2>2, AllCounted
  <1> QED BY <1>1, ProgressCorrect, PTL

-----------------------------------------------------------------------------
(* The stream of one link.  Its invariant, FramingTypeOK /\ StreamInOrder, *)
(* speaks of any two bytes on their way, not of neighbours alone: so no    *)
(* step needs an induction along the stream.                               *)

Message == 1 .. Len(Size)
Byte    == [msg : Message, pos : Nat \ {0}]
Coming  == recvBuffer \o wire
FInv    == FramingTypeOK /\ StreamInOrder

LEMMA FramingSteps ==
  ASSUME [Next]_vars
  PROVE  Write \/ WriteFails \/ ReadStream \/ UNCHANGED framingVars
  BY DEF Next, Connecting, Sending, Receiving, Quiet, vars

LEMMA Sizes == ASSUME NEW m \in Message PROVE Size[m] \in Nat \ {0}
  BY FramingAssumption DEF Message

LEMMA Joined ==
  ASSUME NEW S, NEW s \in Seq(S), NEW t \in Seq(S)
  PROVE  /\ s \o t \in Seq(S) /\ Len(s \o t) = Len(s) + Len(t)
         /\ \A k \in 1 .. Len(s) : (s \o t)[k] = s[k]
         /\ \A k \in 1 .. Len(t) : (s \o t)[Len(s) + k] = t[k]
  BY ConcatProperties

LEMMA Cut ==
  ASSUME NEW S, NEW s \in Seq(S), NEW a \in 0 .. Len(s), NEW b \in a .. Len(s)
  PROVE  /\ SubSeq(s, a + 1, b) \in Seq(S) /\ Len(SubSeq(s, a + 1, b)) = b - a
         /\ \A k \in 1 .. b - a : SubSeq(s, a + 1, b)[k] = s[a + k]
  BY SubSeqProperties

LEMMA ByteFields ==
  ASSUME NEW s \in Seq(Byte), NEW k \in 1 .. Len(s)
  PROVE  /\ s[k].msg \in Message /\ s[k].pos \in Nat \ {0}
         /\ Size[s[k].msg] \in Nat \ {0}
         /\ \A m \in Message : s[k] = End(m) <=> s[k].msg = m /\ IsLast(s[k])
  <1>1. s[k] \in Byte OBVIOUS
  <1>2. s[k].msg \in Message /\ s[k].pos \in Nat \ {0} BY <1>1 DEF Byte
  <1>3. s[k] = [msg |-> s[k].msg, pos |-> s[k].pos] BY <1>1 DEF Byte
  <1>4. ASSUME NEW m \in Message
        PROVE  s[k] = End(m) <=> s[k].msg = m /\ IsLast(s[k])
    BY <1>3 DEF End, IsLast
  <1> QED BY <1>2, <1>4, Sizes

LEMMA FramingTypes ==
  ASSUME FInv
  PROVE  /\ wire \in Seq(Byte) /\ recvBuffer \in Seq(Byte) /\ Coming \in Seq(Byte)
         /\ Len(Coming) = Len(recvBuffer) + Len(wire)
         /\ \A k \in 1 .. Len(recvBuffer) : Coming[k] = recvBuffer[k]
         /\ \A k \in 1 .. Len(wire) : Coming[Len(recvBuffer) + k] = wire[k]
         /\ written \in 0 .. Len(Size) /\ cutAt \in 0 .. written /\ Len(received) \in 0 .. written
         /\ Len(Size) \in Nat
  <1>1. wire \in Seq(Byte) /\ recvBuffer \in Seq(Byte)
    BY DEF FInv, FramingTypeOK, Byte, Message
  <1>2. /\ written \in 0 .. Len(Size) /\ cutAt \in 0 .. written
        /\ received \in Seq(1 .. Len(Size)) /\ Len(received) <= written
    BY DEF FInv, FramingTypeOK, StreamInOrder
  <1>3. Len(Size) \in Nat BY FramingAssumption
  <1>4. Len(received) \in 0 .. written BY <1>2, <1>3
  <1>5. /\ Coming \in Seq(Byte) /\ Len(Coming) = Len(recvBuffer) + Len(wire)
        /\ \A k \in 1 .. Len(recvBuffer) : Coming[k] = recvBuffer[k]
        /\ \A k \in 1 .. Len(wire) : Coming[Len(recvBuffer) + k] = wire[k]
    BY <1>1, Joined DEF Coming
  <1> QED BY <1>1, <1>2, <1>3, <1>4, <1>5

LEMMA StreamParts ==
  StreamInOrder <=>
    /\ Len(received) <= written
    /\ received = [m \in 1 .. Len(received) |-> m]
    /\ InOrder(Coming) /\ WholeUntilCut(Coming) /\ CutForEver(Coming)
    /\ cutAt = 0 => \A k \in 1 .. Len(recvBuffer) : ~IsLast(recvBuffer[k])
  BY DEF StreamInOrder, Coming

-----------------------------------------------------------------------------
(* What a read finds.  It parses a beginning of what is coming.            *)
Begins(s) ==
  /\ s \in Seq(Byte) /\ Len(s) <= Len(Coming)
  /\ \A k \in 1 .. Len(s) : s[k] = Coming[k]

(* Any two bytes of such a beginning.                                      *)
LEMMA InOrderFacts ==
  ASSUME FInv, NEW s, Begins(s)
  PROVE  /\ Len(s) \in Nat
         /\ \A k \in 1 .. Len(s) :
              /\ s[k].msg \in Len(received) + 1 .. written
              /\ s[k].pos \in 1 .. Size[s[k].msg]
              /\ s[k].pos <= k
              /\ s[k].msg \in Message /\ Size[s[k].msg] \in Nat
              /\ \A p \in 1 .. s[k].pos - 1 : s[k - p].msg = s[k].msg
         /\ \A k, l \in 1 .. Len(s) : k < l =>
              /\ s[k].msg <= s[l].msg
              /\ s[k].msg = s[l].msg => s[l].pos = s[k].pos + (l - k)
  <1>1. s \in Seq(Byte) /\ Len(s) \in Nat /\ Len(s) <= Len(Coming) BY DEF Begins
  <1>2. Coming \in Seq(Byte) /\ InOrder(Coming) /\ Len(Coming) \in Nat
    BY FramingTypes, StreamParts DEF FInv
  <1>3. ASSUME NEW k \in 1 .. Len(s)
        PROVE  k \in 1 .. Len(Coming) /\ s[k] = Coming[k]
    BY <1>1, <1>2 DEF Begins
  <1>4. ASSUME NEW k \in 1 .. Len(s)
        PROVE  /\ s[k].msg \in Len(received) + 1 .. written
               /\ s[k].pos \in 1 .. Size[s[k].msg]
               /\ s[k].pos <= k
               /\ s[k].msg \in Message /\ Size[s[k].msg] \in Nat
    BY <1>1, <1>2, <1>3, ByteFields DEF InOrder
  <1>5. ASSUME NEW k \in 1 .. Len(s), NEW p \in 1 .. s[k].pos - 1
        PROVE  s[k - p].msg = s[k].msg
    <2>1. k - p \in 1 .. Len(s) BY <1>1, <1>4
    <2>2. s[k].pos = Coming[k].pos BY <1>3
    <2> QED BY <2>1, <2>2, <1>2, <1>3 DEF InOrder
  <1>6. ASSUME NEW k \in 1 .. Len(s), NEW l \in 1 .. Len(s), k < l
        PROVE  /\ s[k].msg <= s[l].msg
               /\ s[k].msg = s[l].msg => s[l].pos = s[k].pos + (l - k)
    BY <1>6, <1>2, <1>3 DEF InOrder
  <1> QED BY <1>1, <1>4, <1>5, <1>6

(* Behind the last byte of a message no byte of the same follows.          *)
LEMMA NothingBehindLast ==
  ASSUME FInv, NEW s, Begins(s), NEW k \in 1 .. Len(s), NEW l \in 1 .. Len(s),
         k < l, IsLast(s[k])
  PROVE  s[k].msg < s[l].msg
  <1>1. /\ s[k].msg <= s[l].msg /\ s[k].msg \in Int /\ s[l].msg \in Int
        /\ s[k].msg = s[l].msg => s[l].pos = s[k].pos + (l - k)
    BY InOrderFacts DEF Message
  <1>2. s[l].pos \in 1 .. Size[s[l].msg] /\ s[k].pos = Size[s[k].msg] /\ Size[s[k].msg] \in Nat
    BY InOrderFacts DEF IsLast
  <1>3. s[k].msg # s[l].msg
    <2> SUFFICES ASSUME s[k].msg = s[l].msg PROVE FALSE OBVIOUS
    <2>1. s[l].pos = Size[s[l].msg] + (l - k) BY <1>1, <1>2
    <2>2. Size[s[l].msg] \in Nat BY <1>2
    <2> QED BY <2>1, <2>2, <1>2
  <1> QED BY <1>1, <1>3

(* The last byte of a message before the one that was cut, if a byte of a  *)
(* later message is there.                                                 *)
LEMMA WholeBefore ==
  ASSUME FInv, NEW s, Begins(s), NEW k \in 1 .. Len(s), NEW m \in Len(received) + 1 .. written,
         m < s[k].msg, cutAt = 0 \/ m < cutAt
  PROVE  \E e \in 1 .. k - 1 : s[e].msg = m /\ IsLast(s[e])
  <1>1. /\ Coming \in Seq(Byte) /\ InOrder(Coming) /\ WholeUntilCut(Coming) /\ m \in Message
        /\ Len(Coming) \in Nat
    BY FramingTypes, StreamParts DEF FInv, Message
  <1>2. PICK e \in 1 .. Len(Coming) : Coming[e] = End(m) BY <1>1 DEF WholeUntilCut
  <1>3. Coming[e].msg = m /\ IsLast(Coming[e]) BY <1>1, <1>2, ByteFields
  <1>4. k \in 1 .. Len(Coming) /\ s[k] = Coming[k] BY <1>1 DEF Begins
  <1>5. m \in Int /\ Coming[k].msg \in Int BY <1>1, <1>4, ByteFields DEF Message
  <1>6. e < k
    <2>1. e # k BY <1>3, <1>4, <1>5
    <2>2. CASE k < e
      <3>1. Coming[k].msg <= Coming[e].msg BY <2>2, <1>1, <1>4 DEF InOrder
      <3> QED BY <3>1, <1>3, <1>4, <1>5
    <2> QED BY <2>1, <2>2
  <1>7. e \in 1 .. k - 1 /\ e \in 1 .. Len(s) BY <1>6 DEF Begins
  <1> QED BY <1>3, <1>7 DEF Begins

LEMMA InPlaceUntilCut ==
  ASSUME FInv, NEW s, Begins(s), NEW k \in 1 .. Len(s), cutAt = 0 \/ s[k].msg <= cutAt
  PROVE  InPlace(s, k)
  <1>1. /\ s[k].msg \in Len(received) + 1 .. written /\ s[k].pos \in 1 .. Size[s[k].msg]
        /\ s[k].pos <= k /\ s[k].msg \in Message
        /\ \A p \in 1 .. s[k].pos - 1 : s[k - p].msg = s[k].msg
    BY InOrderFacts
  <1>2. CASE k = 1 BY <1>1, <1>2 DEF InPlace
  <1>3. CASE k # 1
    <2>1. k - 1 \in 1 .. Len(s) /\ k - 1 < k BY <1>3 DEF Begins
    <2>2. /\ s[k - 1].msg <= s[k].msg
          /\ s[k - 1].msg = s[k].msg => s[k].pos = s[k - 1].pos + (k - (k - 1))
          /\ s[k - 1].msg \in Len(received) + 1 .. written /\ s[k - 1].pos \in Nat
      BY <2>1, InOrderFacts
    <2>3. CASE IsLast(s[k - 1])
      <3>1. s[k - 1].msg < s[k].msg BY <2>1, <2>3, NothingBehindLast
      <3>2. s[k].pos = 1 
        <4> SUFFICES ASSUME s[k].pos # 1 PROVE FALSE OBVIOUS
        <4>1. 1 \in 1 .. s[k].pos - 1 BY <1>1
        <4>2. s[k - 1].msg = s[k].msg BY <4>1, <1>1
        <4> QED BY <4>2, <3>1, <1>1, <2>2
      <3> QED BY <3>2, <2>3 DEF InPlace
    <2>4. CASE ~IsLast(s[k - 1])
      <3>1. s[k - 1].msg = s[k].msg
        <4> SUFFICES ASSUME s[k - 1].msg < s[k].msg PROVE FALSE
          BY <2>2, <1>1
        <4>1. PICK e \in 1 .. k - 1 : s[e].msg = s[k - 1].msg /\ IsLast(s[e])
          <5>1. s[k - 1].msg \in Int /\ s[k].msg \in Int /\ cutAt \in Int
            <6>1. written \in Nat /\ cutAt \in Nat /\ Len(received) \in Nat
              BY FramingTypes
            <6>2. s[k].msg \in Int BY <1>1, <6>1
            <6> QED BY <2>2, <6>1, <6>2
          <5>2. cutAt = 0 \/ s[k - 1].msg < cutAt BY <5>1
          <5> QED BY <5>2, <2>2, WholeBefore
        <4>2. e # k - 1 /\ e \in 1 .. Len(s) /\ e < k - 1 BY <4>1, <2>1, <2>4
        <4>3. s[e].msg < s[k - 1].msg BY <4>1, <4>2, <2>1, NothingBehindLast
        <4> QED BY <4>1, <4>3, <2>2
      <3>2. s[k].pos = s[k - 1].pos + 1
        <4>1. k - (k - 1) = 1 BY <2>1
        <4> QED BY <4>1, <3>1, <2>2
      <3> QED BY <3>1, <3>2, <1>3, <2>4 DEF InPlace
    <2> QED BY <2>3, <2>4
  <1> QED BY <1>2, <1>3

(* Where the bytes of the message that was cut end, the stream breaks off. *)
LEMMA CutStart ==
  ASSUME FInv, NEW s, Begins(s), NEW k \in 1 .. Len(s), cutAt # 0, s[k].msg > cutAt
  PROVE  \E c \in 1 .. k - 1 : s[c].msg = cutAt /\ s[c + 1].msg > cutAt
  <1>1. Coming \in Seq(Byte) /\ CutForEver(Coming) BY FramingTypes, StreamParts DEF FInv
  <1>2. k \in 1 .. Len(Coming) /\ s[k] = Coming[k] BY <1>1 DEF Begins
  <1>3. PICK c \in 1 .. k - 1 : Coming[c].msg = cutAt /\ Coming[c + 1].msg > cutAt
    BY <1>1, <1>2 DEF CutForEver
  <1>4. c \in 1 .. Len(s) /\ c + 1 \in 1 .. Len(s) BY DEF Begins
  <1> QED BY <1>3, <1>4 DEF Begins

LEMMA CutNeverEnds ==
  ASSUME FInv, NEW s, Begins(s), NEW k \in 1 .. Len(s), cutAt # 0, s[k].msg = cutAt
  PROVE  ~IsLast(s[k])
  <1>1. Coming \in Seq(Byte) /\ CutForEver(Coming) /\ cutAt \in Message
    BY FramingTypes, StreamParts DEF FInv, Message
  <1>2. k \in 1 .. Len(Coming) /\ s[k] = Coming[k] BY <1>1 DEF Begins
  <1> QED BY <1>1, <1>2, ByteFields DEF CutForEver

LEMMA OutOfPlace ==
  ASSUME FInv, NEW s, Begins(s), NEW k \in 1 .. Len(s), cutAt # 0, s[k].msg > cutAt
  PROVE  \E j \in 1 .. k : ~InPlace(s, j)
  <1>1. PICK c \in 1 .. k - 1 : s[c].msg = cutAt /\ s[c + 1].msg > cutAt BY CutStart
  <1>2. c \in 1 .. Len(s) /\ c + 1 \in 1 .. k BY DEF Begins
  <1>3. ~IsLast(s[c]) BY <1>1, <1>2, CutNeverEnds
  <1>4. s[c + 1].msg # s[c].msg BY <1>1, FramingTypes
  <1>5. (c + 1) - 1 = c /\ c + 1 # 1 BY <1>2
  <1> QED BY <1>2, <1>3, <1>4, <1>5 DEF InPlace

-----------------------------------------------------------------------------
(* How far a beginning of the stream is parsed: to the end of its last     *)
(* whole message.                                                          *)
Offset(s, n) ==
  /\ n \in 0 .. Len(s)
  /\ n > 0 => IsLast(s[n]) /\ (cutAt = 0 \/ s[n].msg < cutAt)
  /\ \A k \in n + 1 .. Len(s) : IsLast(s[k]) => cutAt # 0 /\ s[k].msg > cutAt

LEMMA OffsetExists ==
  ASSUME FInv, NEW s, Begins(s)
  PROVE  \E n \in 0 .. Len(s) : Offset(s, n)
  <1>0. Len(s) \in Nat /\ cutAt \in Nat /\ written \in Nat /\ Len(received) \in Nat
    BY FramingTypes DEF Begins
  <1>1. CASE Len(s) = 0 BY <1>1 DEF Offset
  <1>2. CASE Len(s) > 0
    (* c is the last byte up to which the stream is unbroken.              *)
    <2>1. PICK c \in 1 .. Len(s) :
            /\ cutAt = 0 \/ s[c].msg <= cutAt
            /\ \A k \in c + 1 .. Len(s) : cutAt # 0 /\ s[k].msg > cutAt
      <3> DEFINE e == Len(s)
      <3>1. e \in 1 .. Len(s) BY <1>0, <1>2
      <3>2. s[e].msg \in Nat BY <3>1, <1>0, InOrderFacts
      <3>3. CASE cutAt = 0 \/ s[e].msg <= cutAt BY <3>1, <3>3
      <3>4. CASE ~(cutAt = 0 \/ s[e].msg <= cutAt)
        <4>1. cutAt # 0 /\ s[e].msg > cutAt BY <3>2, <3>4, <1>0
        <4>2. PICK c \in 1 .. e - 1 : s[c].msg = cutAt /\ s[c + 1].msg > cutAt
          BY <3>1, <4>1, CutStart
        <4>3. c \in 1 .. Len(s) /\ c + 1 \in 1 .. Len(s) BY <1>0
        <4>4. ASSUME NEW k \in c + 1 .. Len(s) PROVE s[k].msg > cutAt
          <5>1. k \in 1 .. Len(s) /\ (k = c + 1 \/ c + 1 < k) BY <4>3
          <5>2. s[c + 1].msg <= s[k].msg /\ s[c + 1].msg \in Nat /\ s[k].msg \in Nat
            BY <4>3, <5>1, <1>0, InOrderFacts
          <5> QED BY <5>2, <4>2, <1>0
        <4> QED BY <4>1, <4>2, <4>3, <4>4, <1>0
      <3> QED BY <3>3, <3>4
    <2>2. /\ s[c].msg \in Len(received) + 1 .. written /\ s[c].pos \in 1 .. Size[s[c].msg]
          /\ s[c].pos <= c /\ Size[s[c].msg] \in Nat /\ s[c].msg \in Nat
          /\ \A p \in 1 .. s[c].pos - 1 : s[c - p].msg = s[c].msg
      BY <1>0, InOrderFacts
    <2>3. CASE IsLast(s[c])
      <3>1. cutAt = 0 \/ s[c].msg < cutAt BY <2>1, <2>2, <2>3, <1>0, CutNeverEnds
      <3> QED BY <2>1, <2>3, <3>1, <1>0 DEF Offset
    <2>4. CASE ~IsLast(s[c])
      <3> DEFINE n == c - s[c].pos
      <3>1. n \in 0 .. Len(s) /\ n < c BY <2>2, <1>0
      <3>2. ASSUME NEW k \in n + 1 .. Len(s), IsLast(s[k]) PROVE cutAt # 0 /\ s[k].msg > cutAt
        <4>1. CASE k \in c + 1 .. Len(s) BY <4>1, <2>1
        <4>2. CASE k = c BY <4>2, <3>2, <2>4
        <4>3. CASE k < c
          <5>1. c - k \in 1 .. s[c].pos - 1 /\ c - (c - k) = k /\ k \in 1 .. Len(s)
            BY <4>3, <2>2, <3>1, <1>0
          <5>2. s[k].msg = s[c].msg BY <5>1, <2>2
          <5>3. s[k].msg < s[c].msg BY <5>1, <4>3, <3>2, NothingBehindLast
          <5> QED BY <5>2, <5>3, <2>2
        <4> QED BY <4>1, <4>2, <4>3, <3>1, <1>0
      <3>3. ASSUME n > 0 PROVE IsLast(s[n]) /\ (cutAt = 0 \/ s[n].msg < cutAt)
        <4>1. n \in 1 .. Len(s) /\ n < c BY <3>1, <3>3, <1>0
        <4>2. /\ s[n].msg <= s[c].msg /\ s[n].msg \in Len(received) + 1 .. written
              /\ s[n].msg = s[c].msg => s[c].pos = s[n].pos + (c - n)
              /\ s[n].pos \in Nat \ {0}
          BY <4>1, InOrderFacts
        <4>3. s[n].msg < s[c].msg
          <5> SUFFICES ASSUME s[n].msg = s[c].msg PROVE FALSE BY <4>2, <2>2
          <5>1. s[c].pos = s[n].pos + (c - n) BY <4>2
          <5>2. s[c].pos \in Int /\ s[n].pos \in Nat \ {0} /\ c \in Int BY <4>2, <2>2
          <5>3. c - n = s[c].pos BY <5>2
          <5> HIDE DEF n
          <5> QED BY <5>1, <5>2, <5>3
        <4>4. cutAt = 0 \/ s[n].msg < cutAt
          <5>1. s[n].msg \in Int /\ s[c].msg \in Int /\ cutAt \in Int BY <4>2, <2>2, <1>0
          <5> HIDE DEF n
          <5> QED BY <5>1, <4>3, <2>1
        <4>5. PICK e \in 1 .. c - 1 : s[e].msg = s[n].msg /\ IsLast(s[e])
          BY <4>2, <4>3, <4>4, WholeBefore
        <4>6. e \in 1 .. Len(s) BY <1>0
        <4>7. e <= n
          <5> SUFFICES ASSUME e > n PROVE FALSE BY <4>1, <4>6
          <5>1. c - e \in 1 .. s[c].pos - 1 /\ c - (c - e) = e BY <4>6, <2>2
          <5>2. s[e].msg = s[c].msg BY <5>1, <2>2
          <5> QED BY <5>2, <4>3, <4>5, <4>2, <2>2
        <4>8. e = n
          <5> SUFFICES ASSUME e < n PROVE FALSE BY <4>1, <4>6, <4>7
          <5>1. s[e].msg < s[n].msg BY <4>1, <4>5, <4>6, NothingBehindLast
          <5> QED BY <5>1, <4>5, <4>2
        <4> QED BY <4>4, <4>5, <4>8
      <3> QED BY <3>1, <3>2, <3>3 DEF Offset
    <2> QED BY <2>3, <2>4
  <1> QED BY <1>0, <1>1, <1>2

LEMMA OffsetIs ==
  ASSUME FInv, NEW s, Begins(s)
  PROVE  Offset(s, ByteOffset(s))
  <1>0. Len(s) \in Nat /\ cutAt \in Nat BY FramingTypes DEF Begins
  <1>1. PICK n \in 0 .. Len(s) : Offset(s, n) BY OffsetExists
  <1> DEFINE Good(x) ==
        /\ x > 0 => IsLast(s[x]) /\ (\A k \in 1 .. x : InPlace(s, k))
        /\ \A k \in x + 1 .. Len(s) : IsLast(s[k]) => \E j \in 1 .. k : ~InPlace(s, j)
  <1>2. ASSUME n > 0, NEW k \in 1 .. n PROVE InPlace(s, k)
    <2>1. n \in 1 .. Len(s) /\ k \in 1 .. Len(s) /\ (k = n \/ k < n) BY <1>0, <1>2
    <2>2. s[k].msg <= s[n].msg /\ s[k].msg \in Nat /\ s[n].msg \in Nat
      BY <2>1, FramingTypes, InOrderFacts
    <2>3. cutAt = 0 \/ s[k].msg <= cutAt BY <1>0, <1>1, <1>2, <2>2 DEF Offset
    <2> QED BY <2>1, <2>3, InPlaceUntilCut
  <1>3. ASSUME NEW k \in n + 1 .. Len(s), IsLast(s[k])
        PROVE  \E j \in 1 .. k : ~InPlace(s, j)
    <2>1. k \in 1 .. Len(s) BY <1>0
    <2>2. cutAt # 0 /\ s[k].msg > cutAt BY <1>1, <1>3 DEF Offset
    <2> QED BY <2>1, <2>2, OutOfPlace
  <1>4. Good(n)
    BY <1>1, <1>2, <1>3 DEF Offset
  <1>5. ASSUME NEW x \in 0 .. Len(s), Good(x) PROVE x = n
    <2>1. CASE x < n
      <3>1. n \in x + 1 .. Len(s) /\ n > 0 BY <2>1, <1>0
      <3>2. IsLast(s[n]) BY <3>1, <1>1 DEF Offset
      <3>3. PICK j \in 1 .. n : ~InPlace(s, j) BY <1>5, <3>1, <3>2
      <3> QED BY <3>1, <3>3, <1>2
    <2>2. CASE x > n
      <3>1. x \in n + 1 .. Len(s) /\ x > 0 BY <2>2, <1>0
      <3>2. IsLast(s[x]) BY <1>5, <3>1
      <3>3. PICK j \in 1 .. x : ~InPlace(s, j) BY <1>3, <3>1, <3>2
      <3> QED BY <3>1, <3>3, <1>5
    <2> QED BY <2>1, <2>2, <1>0
  <1> HIDE DEF Good
  <1>6. ByteOffset(s) = CHOOSE x \in 0 .. Len(s) : Good(x)
    BY DEF ByteOffset, Good
  <1>7. ByteOffset(s) = n BY <1>4, <1>5, <1>6
  <1> QED BY <1>1, <1>7

-----------------------------------------------------------------------------
(* The messages that are parsed: all those from the first not received to  *)
(* the one the offset is behind.                                           *)

LEMMA Numbering ==
  ASSUME NEW n \in Nat, NEW S, NEW f \in [1 .. n -> S],
         \A i, j \in 1 .. n : f[i] = f[j] => i = j,
         \A x \in S : \E i \in 1 .. n : f[i] = x
  PROVE  Cardinality(S) = n
  <1>1. f \in Bijection(1 .. n, S)
    BY DEF Bijection, Injection, Surjection, IsInjective
  <1> QED BY <1>1, FS_CountingElements DEF ExistsBijection

(* The ends of messages up to the end of message m are as many as there    *)
(* are messages up to it.                                                  *)
LEMMA EndsCounted ==
  ASSUME FInv, NEW s, Begins(s), NEW e \in Ends(s)
  PROVE  Cardinality({x \in Ends(s) : x <= e}) = s[e].msg - Len(received)
  <1> DEFINE r == Len(received)
             T == {x \in Ends(s) : x <= e}
             n == s[e].msg - r
  <1>0. Len(s) \in Nat /\ cutAt \in Nat /\ written \in Nat /\ r \in Nat
        /\ ByteOffset(s) \in 0 .. Len(s) /\ Offset(s, ByteOffset(s))
    BY FramingTypes, OffsetIs DEF Begins, Offset
  <1>1. \A x \in Ends(s) : x \in 1 .. Len(s) /\ x <= ByteOffset(s) /\ IsLast(s[x])
    BY <1>0 DEF Ends
  <1>2. \A x \in Ends(s) : s[x].msg \in r + 1 .. written
    BY <1>1, InOrderFacts
  <1>3. n \in Nat BY <1>0, <1>2
  <1>4. \A x, y \in Ends(s) : x < y => s[x].msg < s[y].msg
    BY <1>1, NothingBehindLast
  <1>5. ASSUME NEW i \in 1 .. n PROVE \E x \in T : s[x].msg = r + i
    <2>1. CASE i = n BY <2>1, <1>0, <1>2, <1>1
    <2>2. CASE i # n
      <3>1. r + i \in r + 1 .. written /\ r + i < s[e].msg BY <2>2, <1>0, <1>2
      <3>2. cutAt = 0 \/ r + i < cutAt
        <4>1. ByteOffset(s) > 0 /\ ByteOffset(s) \in 1 .. Len(s) BY <1>0, <1>1
        <4>2. cutAt = 0 \/ s[ByteOffset(s)].msg < cutAt BY <4>1, <1>0 DEF Offset
        <4>3. e \in 1 .. Len(s) /\ (e = ByteOffset(s) \/ e < ByteOffset(s)) BY <1>0, <1>1
        <4>4. s[e].msg <= s[ByteOffset(s)].msg /\ s[ByteOffset(s)].msg \in Nat /\ s[e].msg \in Nat
          BY <4>1, <4>3, <1>0, <1>2, InOrderFacts
        <4> QED BY <4>2, <4>4, <3>1, <1>0
      <3>3. PICK x \in 1 .. e - 1 : s[x].msg = r + i /\ IsLast(s[x])
        BY <3>1, <3>2, <1>1, WholeBefore
      <3>4. x \in T BY <3>3, <1>0, <1>1 DEF Ends
      <3> QED BY <3>3, <3>4
    <2> QED BY <2>1, <2>2
  <1> DEFINE f == [i \in 1 .. n |-> CHOOSE x \in T : s[x].msg = r + i]
  <1>6. \A i \in 1 .. n : f[i] \in T /\ s[f[i]].msg = r + i
    BY <1>5
  <1>7. f \in [1 .. n -> T] BY <1>6
  <1>8. \A i, j \in 1 .. n : f[i] = f[j] => i = j
    <2> HIDE DEF f, n
    <2> QED BY <1>0, <1>6
  <1>9. ASSUME NEW x \in T PROVE \E i \in 1 .. n : f[i] = x
    <2> DEFINE i == s[x].msg - r
    <2>1. x \in Ends(s) /\ x <= e /\ e \in Ends(s) OBVIOUS
    <2>2. s[x].msg <= s[e].msg
      <3>1. x \in Int /\ e \in Int BY <1>1, <2>1
      <3> QED BY <3>1, <2>1, <1>0, <1>2, <1>4
    <2>3. i \in 1 .. n /\ r + i = s[x].msg
      <3>1. s[x].msg \in r + 1 .. written /\ s[e].msg \in r + 1 .. written BY <2>1, <1>2
      <3>2. \A u, v, w \in Int : w + 1 <= u /\ u <= v => u - w \in 1 .. v - w /\ w + (u - w) = u
        OBVIOUS
      <3>3. s[x].msg \in Int /\ s[e].msg \in Int /\ r \in Int /\ r + 1 <= s[x].msg
        BY <3>1, <1>0
      <3> HIDE DEF r
      <3> QED BY <3>2, <3>3, <2>2 DEF i, n
    <2>4. f[i] \in Ends(s) /\ s[f[i]].msg = s[x].msg BY <2>3, <1>6
    <2>5. f[i] = x
      <3>1. f[i] \in Int /\ x \in Int BY <1>1, <2>1, <2>4
      <3> HIDE DEF f, i
      <3> QED BY <3>1, <2>1, <2>4, <1>0, <1>2, <1>4
    <2> QED BY <2>3, <2>5
  <1> HIDE DEF f, n, T
  <1>10. Cardinality(T) = n BY <1>3, <1>7, <1>8, <1>9, Numbering
  <1> QED BY <1>10 DEF T, n

LastParsed(s) == IF ByteOffset(s) = 0 THEN Len(received) ELSE s[ByteOffset(s)].msg

LEMMA ParsedIs ==
  ASSUME FInv, NEW s, Begins(s)
  PROVE  /\ LastParsed(s) \in Len(received) .. written
         /\ cutAt # 0 => LastParsed(s) < cutAt
         /\ Parsed(s) = [i \in 1 .. LastParsed(s) - Len(received) |-> Len(received) + i]
  <1> DEFINE r == Len(received)
             n == ByteOffset(s)
             l == LastParsed(s)
  <1>0. /\ Len(s) \in Nat /\ cutAt \in Nat /\ written \in Nat /\ r \in Nat /\ r <= written
        /\ n \in 0 .. Len(s) /\ Offset(s, n)
    BY FramingTypes, OffsetIs DEF Begins, Offset
  <1>1. CutForEver(Coming) BY StreamParts DEF FInv
  <1>2. CASE n = 0
    <2>1. l = r /\ Ends(s) = {} BY <1>2 DEF Ends, LastParsed
    <2>2. Parsed(s) = [i \in 1 .. 0 |-> r + i] BY <2>1, FS_EmptySet DEF Parsed
    <2> QED BY <2>1, <2>2, <1>0, <1>1 DEF CutForEver
  <1>3. CASE n # 0
    <2>1. n \in 1 .. Len(s) /\ IsLast(s[n]) /\ (cutAt = 0 \/ s[n].msg < cutAt)
      BY <1>0, <1>3 DEF Offset
    <2>2. n \in Ends(s) /\ \A x \in Ends(s) : x <= n /\ x \in 1 .. Len(s)
      BY <1>0, <2>1 DEF Ends
    <2>3. {x \in Ends(s) : x <= n} = Ends(s) BY <2>2
    <2>4. l = s[n].msg /\ l \in r + 1 .. written
      BY <1>3, <2>1, InOrderFacts DEF LastParsed
    <2>5. Cardinality(Ends(s)) = l - r BY <2>2, <2>3, <2>4, EndsCounted
    <2> DEFINE At(i) == CHOOSE k \in Ends(s) : Cardinality({e \in Ends(s) : e <= k}) = i
    <2>6. ASSUME NEW i \in 1 .. l - r PROVE s[At(i)].msg = r + i
      <3>1. \E k \in Ends(s) : s[k].msg = r + i
        <4>1. CASE i = l - r BY <4>1, <2>2, <2>4, <1>0
        <4>2. CASE i # l - r
          <5>1. r + i \in r + 1 .. written /\ r + i < s[n].msg BY <4>2, <1>0, <2>4
          <5>2. cutAt = 0 \/ r + i < cutAt BY <5>1, <2>1, <2>4, <1>0
          <5>3. PICK k \in 1 .. n - 1 : s[k].msg = r + i /\ IsLast(s[k])
            BY <5>1, <5>2, <2>1, WholeBefore
          <5> QED BY <5>3, <1>0 DEF Ends
        <4> QED BY <4>1, <4>2
      <3>2. PICK k \in Ends(s) : s[k].msg = r + i BY <3>1
      <3>3. Cardinality({e \in Ends(s) : e <= k}) = i BY <3>2, <1>0, EndsCounted
      <3>4. /\ At(i) \in Ends(s)
            /\ Cardinality({e \in Ends(s) : e <= At(i)}) = i
        BY <3>3
      <3>5. s[At(i)].msg - r = i BY <3>4, EndsCounted
      <3>6. s[At(i)].msg \in Nat
        <4>1. At(i) \in 1 .. Len(s) BY <3>4, <2>2
        <4> HIDE DEF At
        <4> QED BY <4>1, InOrderFacts, <1>0
      <3> HIDE DEF At
      <3> QED BY <3>5, <3>6, <1>0
    <2>7. Parsed(s) = [i \in 1 .. l - r |-> s[At(i)].msg] BY <2>5 DEF Parsed
    <2>8. Parsed(s) = [i \in 1 .. l - r |-> r + i]
      <3> HIDE DEF At, l, r
      <3> QED BY <2>6, <2>7
    <2>9. cutAt # 0 => l < cutAt BY <2>1, <2>4
    <2> QED BY <2>4, <2>8, <2>9, <1>0
  <1> QED BY <1>2, <1>3

LEMMA ReceivedMore ==
  ASSUME FInv, NEW s, Begins(s)
  PROVE  received \o Parsed(s) = [m \in 1 .. LastParsed(s) |-> m]
  <1> DEFINE r == Len(received)
             l == LastParsed(s)
  <1>1. /\ l \in r .. written /\ r \in Nat /\ written \in Nat
        /\ Parsed(s) = [i \in 1 .. l - r |-> r + i]
        /\ received = [m \in 1 .. r |-> m]
    BY ParsedIs, FramingTypes, StreamParts DEF FInv
  <1>2. received \in Seq(Int) /\ Parsed(s) \in Seq(Int) /\ Len(Parsed(s)) = l - r
    BY <1>1
  <1> HIDE DEF r, l
  <1>3. /\ received \o Parsed(s) \in Seq(Int)
        /\ Len(received \o Parsed(s)) = l
        /\ \A k \in 1 .. r : (received \o Parsed(s))[k] = received[k]
        /\ \A k \in 1 .. l - r : (received \o Parsed(s))[r + k] = Parsed(s)[k]
    BY <1>1, <1>2, Joined DEF r
  <1>4. ASSUME NEW m \in 1 .. l PROVE (received \o Parsed(s))[m] = m
    <2>1. CASE m <= r BY <2>1, <1>1, <1>3
    <2>2. CASE m > r
      <3>1. m - r \in 1 .. l - r /\ r + (m - r) = m BY <2>2, <1>1
      <3> QED BY <3>1, <1>1, <1>3
    <2> QED BY <2>1, <2>2, <1>1
  <1> DEFINE q == received \o Parsed(s)
  <1>5. q \in Seq(Int) /\ Len(q) = l /\ \A m \in 1 .. l : q[m] = m BY <1>3, <1>4
  <1> HIDE DEF q
  <1>6. q = [m \in 1 .. l |-> m] BY <1>5
  <1> QED BY <1>6 DEF l, q

-----------------------------------------------------------------------------
(* The steps of the link.                                                  *)

LEMMA ReadKeeps ==
  ASSUME FInv, ReadStream
  PROVE  /\ FInv'
         /\ Len(received) <= Len(received') /\ Len(received') <= written
         /\ cutAt # 0 => Len(received') < cutAt
         /\ received' = [m \in 1 .. Len(received') |-> m]
  <1>0. /\ wire \in Seq(Byte) /\ recvBuffer \in Seq(Byte) /\ Coming \in Seq(Byte)
        /\ Len(Coming) = Len(recvBuffer) + Len(wire)
        /\ written \in 0 .. Len(Size) /\ cutAt \in 0 .. written /\ Len(received) \in 0 .. written
        /\ Len(Size) \in Nat
    BY FramingTypes
  <1>1. PICK n \in 1 .. Len(wire) :
          LET s == recvBuffer \o SubSeq(wire, 1, n) IN
          /\ received' = received \o Parsed(s)
          /\ recvBuffer' = SubSeq(s, ByteOffset(s) + 1, Len(s))
          /\ wire' = SubSeq(wire, n + 1, Len(wire))
    BY DEF ReadStream
  <1> DEFINE s == recvBuffer \o SubSeq(wire, 1, n)
             b == ByteOffset(s)
             l == LastParsed(s)
             rest == SubSeq(wire, n + 1, Len(wire))
             kept == SubSeq(s, b + 1, Len(s))
  <1>2. /\ SubSeq(wire, 1, n) \in Seq(Byte) /\ Len(SubSeq(wire, 1, n)) = n
        /\ \A k \in 1 .. n : SubSeq(wire, 1, n)[k] = wire[k]
    BY <1>0
  <1>3. /\ s \in Seq(Byte) /\ Len(s) = Len(recvBuffer) + n
        /\ \A k \in 1 .. Len(recvBuffer) : s[k] = recvBuffer[k]
        /\ \A k \in 1 .. n : s[Len(recvBuffer) + k] = wire[k]
    BY <1>0, <1>2, Joined
  <1>4. Begins(s)
    <2>1. ASSUME NEW k \in 1 .. Len(s) PROVE s[k] = Coming[k]
      <3>1. CASE k <= Len(recvBuffer) BY <3>1, <1>0, <1>3, FramingTypes
      <3>2. CASE k > Len(recvBuffer)
        <4> DEFINE j == k - Len(recvBuffer)
        <4>1. j \in 1 .. n /\ j \in 1 .. Len(wire) /\ Len(recvBuffer) + j = k
          BY <3>2, <1>0, <1>3
        <4> QED BY <4>1, <1>3, FramingTypes
      <3> QED BY <3>1, <3>2, <1>0
    <2> QED BY <2>1, <1>0, <1>3 DEF Begins
  <1>5. /\ b \in 0 .. Len(s) /\ Offset(s, b)
        /\ l \in Len(received) .. written /\ (cutAt # 0 => l < cutAt)
        /\ received' = [m \in 1 .. l |-> m]
    BY <1>1, <1>4, OffsetIs, ParsedIs, ReceivedMore DEF Offset
  <1>6. Len(received') = l BY <1>0, <1>5
  <1>7. UNCHANGED <<capacity, written, cutAt, panicked>> BY DEF ReadStream
  <1> HIDE DEF s, l
  <1>8. /\ kept \in Seq(Byte) /\ Len(kept) = Len(s) - b
        /\ \A k \in 1 .. Len(s) - b : kept[k] = s[b + k]
    <2> HIDE DEF b
    <2>1. s \in Seq(Byte) /\ b \in 0 .. Len(s) /\ Len(s) \in b .. Len(s) BY <1>3, <1>5, <1>0
    <2> QED BY <2>1, Cut
  <1>9. /\ rest \in Seq(Byte) /\ Len(rest) = Len(wire) - n
        /\ \A k \in 1 .. Len(wire) - n : rest[k] = wire[n + k]
    BY <1>0
  <1>10. recvBuffer' = kept /\ wire' = rest BY <1>1 DEF s
  <1> HIDE DEF b, kept, rest
  <1>11. /\ Coming' \in Seq(Byte) /\ Len(Coming') = Len(Coming) - b /\ b <= Len(Coming)
         /\ \A k \in 1 .. Len(Coming') : Coming'[k] = Coming[b + k]
    <2>1. Coming' = kept \o rest BY <1>10 DEF Coming
    <2>2. /\ kept \o rest \in Seq(Byte) /\ Len(kept \o rest) = Len(kept) + Len(rest)
          /\ \A k \in 1 .. Len(kept) : (kept \o rest)[k] = kept[k]
          /\ \A k \in 1 .. Len(rest) : (kept \o rest)[Len(kept) + k] = rest[k]
      <3>1. kept \in Seq(Byte) /\ rest \in Seq(Byte) BY <1>8, <1>9
      <3> QED BY <3>1, Joined
    <2>n. /\ Len(wire) \in Nat /\ Len(recvBuffer) \in Nat /\ n \in 1 .. Len(wire)
          /\ Len(s) = Len(recvBuffer) + n /\ b \in 0 .. Len(s)
          /\ Len(kept) = Len(s) - b /\ Len(rest) = Len(wire) - n
          /\ Len(Coming) = Len(recvBuffer) + Len(wire)
      BY <1>0, <1>3, <1>5, <1>8, <1>9
    <2>3. Len(Coming') = Len(Coming) - b /\ b <= Len(Coming)
      BY <2>1, <2>2, <2>n
    <2>4. ASSUME NEW k \in 1 .. Len(Coming') PROVE Coming'[k] = Coming[b + k]
      <3>1. CASE k <= Len(kept)
        <4>1. k \in 1 .. Len(kept) /\ b + k \in 1 .. Len(s) BY <3>1, <2>n
        <4> QED BY <4>1, <2>1, <2>2, <1>4, <1>8 DEF Begins
      <3>2. CASE k > Len(kept)
        <4> DEFINE j == k - Len(kept)
        <4>1. /\ j \in 1 .. Len(rest) /\ Len(kept) + j = k
              /\ n + j \in 1 .. Len(wire) /\ Len(recvBuffer) + (n + j) = b + k
          BY <3>2, <2>3, <2>n
        <4>2. Coming'[k] = wire[n + j] BY <4>1, <2>1, <2>2, <1>9
        <4>3. Coming[Len(recvBuffer) + (n + j)] = wire[n + j] BY <4>1, FramingTypes
        <4> QED BY <4>1, <4>2, <4>3
      <3> QED BY <3>1, <3>2, <2>3, <2>n
    <2> QED BY <2>1, <2>2, <2>3, <2>4
  <1>12. Begins(Coming) BY <1>0 DEF Begins
  <1>13. ASSUME NEW k \in 1 .. Len(Coming')
         PROVE  b + k \in 1 .. Len(Coming) /\ Coming'[k] = Coming[b + k]
    <2>1. Len(Coming) \in Nat /\ b \in Nat BY <1>0, <1>5
    <2> QED BY <2>1, <1>11
  (* What is parsed is not later than l, what is not parsed is.             *)
  <1>14. ASSUME NEW j \in 1 .. Len(Coming)
         PROVE  /\ j <= b => Coming[j].msg <= l
                /\ j > b => Coming[j].msg > l
                /\ Coming[j].msg \in Int
    <2>1. Coming[j].msg \in Len(received) + 1 .. written BY <1>12, InOrderFacts
    <2>2. CASE b = 0
      <3>1. l = Len(received) BY <2>2 DEF l, LastParsed, b
      <3> QED BY <2>1, <2>2, <3>1, <1>0
    <2>3. CASE b # 0
      <3>1. b \in 1 .. Len(s) /\ b \in 1 .. Len(Coming) BY <2>3, <1>4, <1>5, <1>0 DEF Begins
      <3>2. l = s[b].msg /\ IsLast(s[b]) BY <2>3, <1>5 DEF l, LastParsed, Offset, b
      <3>3. l = Coming[b].msg /\ IsLast(Coming[b]) BY <3>1, <3>2, <1>4 DEF Begins
      <3>4. j > b => Coming[b].msg < Coming[j].msg BY <3>1, <3>3, <1>12, NothingBehindLast
      <3>5. j < b => Coming[j].msg <= Coming[b].msg BY <3>1, <1>12, InOrderFacts
      <3>6. l \in Int BY <1>0, <1>5
      <3> QED BY <3>1, <3>3, <3>4, <3>5, <3>6, <2>1, <1>0
    <2> QED BY <2>2, <2>3
  <1>15. l \in Nat /\ b \in Nat /\ Len(Coming) \in Nat /\ l <= written /\ l <= Len(Size)
    BY <1>0, <1>5
  <1>16. InOrder(Coming)'
    <2>1. ASSUME NEW k \in 1 .. Len(Coming')
          PROVE  /\ Coming'[k].msg \in l + 1 .. written
                 /\ Coming'[k].pos <= Size[Coming'[k].msg]
                 /\ Coming'[k].pos <= k
                 /\ \A p \in 1 .. Coming'[k].pos - 1 : Coming'[k - p].msg = Coming'[k].msg
      <3>1. /\ Coming[b + k].msg \in Len(received) + 1 .. written
            /\ Coming[b + k].pos \in 1 .. Size[Coming[b + k].msg]
            /\ Coming[b + k].pos <= b + k
            /\ Size[Coming[b + k].msg] \in Nat
            /\ \A p \in 1 .. Coming[b + k].pos - 1 : Coming[(b + k) - p].msg = Coming[b + k].msg
        BY <1>12, <1>13, InOrderFacts
      <3>0. /\ Len(Coming') \in Nat /\ k \in 1 .. Len(Coming') /\ k \in Nat \ {0}
            /\ b \in Nat /\ Coming[b + k].pos \in Nat
        <4>1. Len(Coming') \in Nat BY <1>11
        <4>2. Size[Coming[b + k].msg] \in Nat /\ Coming[b + k].pos \in Nat BY <3>1
        <4> QED BY <4>1, <4>2, <1>15
      <3>2. b + k > b /\ Coming[b + k].msg > l BY <1>13, <1>14, <1>15
      <3>3. Coming[b + k].pos <= k
        <4>1. CASE b = 0 BY <4>1, <3>1
        <4>2. CASE b # 0
          <5> SUFFICES ASSUME Coming[b + k].pos > k PROVE FALSE BY <3>1
          <5>1. k \in 1 .. Coming[b + k].pos - 1 /\ (b + k) - k = b
            <6>1. k \in Nat \ {0} /\ b \in Nat /\ Coming[b + k].pos \in Nat
              BY <3>0
            <6> QED BY ONLY <6>1, Coming[b + k].pos > k
          <5>2. Coming[b].msg = Coming[b + k].msg BY <5>1, <3>1
          <5>3. b \in 1 .. Len(Coming) BY <4>2, <1>15, <1>11
          <5> QED BY <5>2, <5>3, <3>2, <1>14, <1>15
        <4> QED BY <4>1, <4>2
      <3>4. ASSUME NEW p \in 1 .. Coming[b + k].pos - 1
            PROVE  Coming'[k - p].msg = Coming[b + k].msg
        <4>1. k - p \in 1 .. Len(Coming') /\ b + (k - p) = (b + k) - p
          <5>1. /\ b \in Nat /\ Len(Coming') \in Nat /\ k \in 1 .. Len(Coming')
                /\ Coming[b + k].pos \in Nat /\ Coming[b + k].pos <= k
            BY <3>0, <3>3, <1>15
          <5> QED BY ONLY <5>1, <3>4
        <4>2. Coming'[k - p] = Coming[b + (k - p)] BY <4>1, <1>13
        <4>3. Coming[b + (k - p)].msg = Coming[(b + k) - p].msg BY <4>1
        <4> QED BY <4>2, <4>3, <3>1
      <3>5. Coming'[k] = Coming[b + k] BY <1>13
      <3>6. Coming[b + k].msg \in l + 1 .. written
        <4>1. Coming[b + k].msg \in Int /\ Coming[b + k].msg <= written /\ written \in Int
          BY <3>1, <1>0
        <4> QED BY <4>1, <3>2, <1>15
      <3> QED BY <3>1, <3>3, <3>4, <3>5, <3>6
    <2>2. ASSUME NEW k \in 1 .. Len(Coming'), NEW j \in 1 .. Len(Coming'), k < j
          PROVE  /\ Coming'[k].msg <= Coming'[j].msg
                 /\ Coming'[k].msg = Coming'[j].msg => Coming'[j].pos = Coming'[k].pos + (j - k)
      <3>1. b + k < b + j /\ (b + j) - (b + k) = j - k BY <2>2, <1>15
      <3>2. /\ Coming[b + k].msg <= Coming[b + j].msg
            /\ Coming[b + k].msg = Coming[b + j].msg =>
                 Coming[b + j].pos = Coming[b + k].pos + ((b + j) - (b + k))
        BY <3>1, <1>12, <1>13, InOrderFacts
      <3> QED BY <3>1, <3>2, <1>13
    <2> QED BY <2>1, <2>2, <1>6, <1>7 DEF InOrder
  <1>17. WholeUntilCut(Coming)'
    <2>1. ASSUME NEW m \in l + 1 .. written, cutAt = 0 \/ m < cutAt
          PROVE  \E k \in 1 .. Len(Coming') : Coming'[k] = End(m)
      <3>1. WholeUntilCut(Coming) /\ m \in Len(received) + 1 .. written
        BY <1>0, <1>5, StreamParts DEF FInv
      <3>2. PICK j \in 1 .. Len(Coming) : Coming[j] = End(m)
        BY <3>1, <2>1 DEF WholeUntilCut
      <3>3. Coming[j].msg = m BY <3>2 DEF End
      <3>4. j > b BY <3>3, <1>14, <1>15
      <3>5. j - b \in 1 .. Len(Coming') /\ b + (j - b) = j BY <3>4, <1>11, <1>15
      <3> QED BY <3>2, <3>5, <1>13
    <2> QED BY <2>1, <1>6, <1>7 DEF WholeUntilCut, End
  <1>18. CutForEver(Coming)'
    <2> SUFFICES ASSUME cutAt # 0
                 PROVE  /\ l < cutAt
                        /\ ~panicked => Coming' # <<>> /\ Coming'[Len(Coming')].msg = written
                        /\ \A k \in 1 .. Len(Coming') :
                             /\ Coming'[k] # End(cutAt)
                             /\ Coming'[k].msg > cutAt =>
                                  \E c \in 1 .. k - 1 : Coming'[c].msg = cutAt
                                                        /\ Coming'[c + 1].msg > cutAt
      BY <1>6, <1>7 DEF CutForEver, End
    <2>1. l < cutAt /\ cutAt <= written /\ cutAt \in Int BY <1>5, <1>0
    <2>2. CutForEver(Coming) BY StreamParts DEF FInv
    <2>3. ASSUME ~panicked PROVE Coming' # <<>> /\ Coming'[Len(Coming')].msg = written
      <3>1. Coming # <<>> /\ Coming[Len(Coming)].msg = written BY <2>2, <2>3 DEF CutForEver
      <3>2. Len(Coming) \in 1 .. Len(Coming) BY <3>1, <1>0, EmptySeq
      <3>3. Len(Coming) > b BY <3>1, <3>2, <2>1, <1>14, <1>15
      <3>4. Len(Coming') \in 1 .. Len(Coming') /\ b + Len(Coming') = Len(Coming)
        BY <3>3, <1>11, <1>15
      <3>5. Coming' # <<>> BY <3>4
      <3> QED BY <3>1, <3>4, <3>5, <1>13
    <2>4. ASSUME NEW k \in 1 .. Len(Coming')
          PROVE  /\ Coming'[k] # End(cutAt)
                 /\ Coming'[k].msg > cutAt =>
                      \E c \in 1 .. k - 1 : Coming'[c].msg = cutAt
                                            /\ Coming'[c + 1].msg > cutAt
      <3>1. Coming'[k] # End(cutAt) BY <1>13, <2>2 DEF CutForEver
      <3>2. ASSUME Coming'[k].msg > cutAt
            PROVE  \E c \in 1 .. k - 1 : Coming'[c].msg = cutAt /\ Coming'[c + 1].msg > cutAt
        <4>1. PICK c \in 1 .. (b + k) - 1 : Coming[c].msg = cutAt /\ Coming[c + 1].msg > cutAt
          BY <3>2, <1>13, <2>2 DEF CutForEver
        <4>2. c \in 1 .. Len(Coming) BY <1>13, <1>15
        <4>3. c > b BY <4>1, <4>2, <2>1, <1>14, <1>15
        <4> DEFINE d == c - b
        <4>4. /\ d \in 1 .. k - 1 /\ d \in 1 .. Len(Coming') /\ d + 1 \in 1 .. Len(Coming')
              /\ b + d = c /\ b + (d + 1) = c + 1
          BY <4>3, <1>11, <1>15
        <4> HIDE DEF d
        <4>5. Coming'[d] = Coming[c] /\ Coming'[d + 1] = Coming[c + 1] BY <4>4, <1>13
        <4> QED BY <4>1, <4>4, <4>5
      <3> QED BY <3>1, <3>2
    <2> QED BY <2>1, <2>3, <2>4
  <1>19. cutAt = 0 => \A k \in 1 .. Len(kept) : ~IsLast(kept[k])
    <2> SUFFICES ASSUME cutAt = 0, NEW k \in 1 .. Len(kept) PROVE ~IsLast(kept[k])
      OBVIOUS
    <2>1. Len(s) \in Nat BY <1>3, <1>0
    <2>2. b + k \in b + 1 .. Len(s) /\ k \in 1 .. Len(s) - b BY <2>1, <1>8, <1>15
    <2>3. kept[k] = s[b + k] BY <2>2, <1>8
    <2> QED BY <2>2, <2>3, <1>5 DEF Offset
  <1>20. StreamInOrder'
    <2>1. /\ Len(received') <= written' /\ received' = [m \in 1 .. Len(received') |-> m]
          /\ cutAt' = 0 => \A k \in 1 .. Len(recvBuffer') : ~IsLast(recvBuffer[k])'
      <3>1. cutAt' = 0 => \A k \in 1 .. Len(recvBuffer') : ~IsLast(recvBuffer[k])'
        BY <1>7, <1>10, <1>19 DEF IsLast
      <3> QED BY <3>1, <1>5, <1>6, <1>7, <1>15
    <2> QED BY <2>1, <1>16, <1>17, <1>18 DEF StreamInOrder, Coming
  <1>21. FramingTypeOK'
    <2>1. /\ capacity \in Capacities /\ Len(wire) <= capacity /\ panicked \in BOOLEAN
          /\ capacity \in Nat
      BY FramingAssumption DEF FInv, FramingTypeOK
    <2>2. wire' \in Seq(Byte) /\ recvBuffer' \in Seq(Byte) BY <1>8, <1>9, <1>10
    <2>3. Len(wire') <= capacity BY <2>1, <1>0, <1>9, <1>10
    <2>4. received' \in Seq(1 .. Len(Size))
      <3>1. [m \in 1 .. l |-> m] \in [1 .. l -> 1 .. Len(Size)] BY <1>15, <1>0
      <3> QED BY <3>1, <1>5, <1>15
    <2>5. written' \in 0 .. Len(Size) /\ cutAt' \in 0 .. written' BY <1>0, <1>7
    <2> QED BY <2>1, <2>2, <2>3, <2>4, <2>5, <1>7 DEF FramingTypeOK, Byte, Message
  <1> QED BY <1>5, <1>6, <1>20, <1>21, <1>0, <1>15 DEF FInv

(* A message, or its beginning, is put behind what is coming.              *)
LEMMA WriteKeeps ==
  ASSUME FInv, Write
  PROVE  FInv' /\ (cutAt # 0 => cutAt' = cutAt) /\ cutAt' \in {cutAt, written'}
  <1>0. /\ wire \in Seq(Byte) /\ recvBuffer \in Seq(Byte) /\ Coming \in Seq(Byte)
        /\ Len(Coming) = Len(recvBuffer) + Len(wire)
        /\ written \in 0 .. Len(Size) /\ cutAt \in 0 .. written /\ Len(received) \in 0 .. written
        /\ Len(Size) \in Nat
    BY FramingTypes
  <1>1. capacity \in Nat /\ Len(wire) <= capacity /\ capacity \in Capacities
    BY FramingAssumption DEF FInv, FramingTypeOK
  <1> DEFINE m == written + 1
             n == IF Size[m] <= Free THEN Size[m] ELSE Free
             new == Bytes(m, n)
             B == Len(Coming)
  <1>2. /\ ~panicked /\ written < Len(Size) /\ Free > 0
        /\ wire' = wire \o new /\ written' = m
        /\ cutAt' = IF cutAt = 0 /\ n < Size[m] THEN m ELSE cutAt
        /\ UNCHANGED <<capacity, panicked, recvBuffer, received>>
    BY DEF Write
  <1>3. m \in Message /\ Size[m] \in Nat \ {0} BY <1>0, <1>2, Sizes DEF Message
  <1>4. n \in 1 .. Size[m] /\ n <= capacity - Len(wire)
    BY <1>1, <1>2, <1>3, <1>0 DEF Free
  <1> HIDE DEF n
  <1>5. /\ new \in Seq(Byte) /\ Len(new) = n
        /\ \A k \in 1 .. n : new[k].msg = m /\ new[k].pos = k
    <2> HIDE DEF m
    <2>1. \A k \in 1 .. n : [msg |-> m, pos |-> k] \in Byte BY <1>3, <1>4 DEF Byte
    <2>2. new = [k \in 1 .. n |-> [msg |-> m, pos |-> k]] BY DEF Bytes
    <2> HIDE DEF new
    <2> QED BY <2>1, <2>2, <1>3, <1>4
  <1> HIDE DEF new
  <1>6. /\ wire' \in Seq(Byte) /\ Len(wire') = Len(wire) + n
        /\ \A k \in 1 .. Len(wire) : wire'[k] = wire[k]
        /\ \A k \in 1 .. n : wire'[Len(wire) + k] = new[k]
    <2>1. wire \in Seq(Byte) /\ new \in Seq(Byte) BY <1>0, <1>5
    <2>2. /\ wire \o new \in Seq(Byte) /\ Len(wire \o new) = Len(wire) + Len(new)
          /\ \A k \in 1 .. Len(wire) : (wire \o new)[k] = wire[k]
          /\ \A k \in 1 .. Len(new) : (wire \o new)[Len(wire) + k] = new[k]
      BY <2>1, Joined
    <2> QED BY <2>2, <1>2, <1>5
  <1>7. /\ Coming' \in Seq(Byte) /\ Len(Coming') = B + n /\ B \in Nat
        /\ \A k \in 1 .. B : Coming'[k] = Coming[k]
        /\ \A k \in 1 .. n : Coming'[B + k].msg = m /\ Coming'[B + k].pos = k
    <2>1. Coming' = Coming \o new
      <3>1. Coming' = recvBuffer \o (wire \o new) BY <1>2 DEF Coming
      <3>2. recvBuffer \o (wire \o new) = (recvBuffer \o wire) \o new
        <4>1. recvBuffer \in Seq(Byte) /\ wire \in Seq(Byte) /\ new \in Seq(Byte)
          BY <1>0, <1>5
        <4> QED BY <4>1, ConcatAssociative
      <3> QED BY <3>1, <3>2 DEF Coming
    <2> HIDE DEF m
    <2>2. /\ Coming \o new \in Seq(Byte) /\ Len(Coming \o new) = Len(Coming) + Len(new)
          /\ \A k \in 1 .. Len(Coming) : (Coming \o new)[k] = Coming[k]
          /\ \A k \in 1 .. Len(new) : (Coming \o new)[Len(Coming) + k] = new[k]
      <3>1. Coming \in Seq(Byte) /\ new \in Seq(Byte) BY <1>0, <1>5
      <3> QED BY <3>1, Joined
    <2>3. B \in Nat BY <1>0
    <2> QED BY <2>1, <2>2, <2>3, <1>5
  <1>8. Begins(Coming) BY <1>0 DEF Begins
  <1> HIDE DEF B
  (* A byte that was coming, and one that is new.                           *)
  <1>9. ASSUME NEW k \in 1 .. B
        PROVE  /\ Coming'[k] = Coming[k] /\ k \in 1 .. Len(Coming)
               /\ Coming[k].msg \in Len(received) + 1 .. written
               /\ Coming[k].pos \in 1 .. Size[Coming[k].msg]
               /\ Coming[k].pos <= k /\ Size[Coming[k].msg] \in Nat
               /\ \A p \in 1 .. Coming[k].pos - 1 : Coming[k - p].msg = Coming[k].msg
    BY <1>7, <1>8, InOrderFacts DEF B
  <1>10. ASSUME NEW k \in 1 .. Len(Coming')
         PROVE  \/ k \in 1 .. B
                \/ k > B /\ k - B \in 1 .. n /\ Coming'[k].msg = m /\ Coming'[k].pos = k - B
    <2>1. CASE k <= B BY <2>1, <1>7
    <2>2. CASE k > B
      <3>1. k - B \in 1 .. n /\ B + (k - B) = k BY <2>2, <1>7, <1>4
      <3> QED BY <2>2, <3>1, <1>7
    <2> QED BY <2>1, <2>2, <1>7
  <1>11. InOrder(Coming)'
    <2>1. ASSUME NEW k \in 1 .. Len(Coming')
          PROVE  /\ Coming'[k].msg \in Len(received) + 1 .. m
                 /\ Coming'[k].pos <= Size[Coming'[k].msg]
                 /\ Coming'[k].pos <= k
                 /\ \A p \in 1 .. Coming'[k].pos - 1 : Coming'[k - p].msg = Coming'[k].msg
      <3>1. CASE k \in 1 .. B
        <4>1. Coming[k].msg \in Len(received) + 1 .. m BY <3>1, <1>9, <1>0
        <4>2. ASSUME NEW p \in 1 .. Coming[k].pos - 1
              PROVE  Coming'[k - p].msg = Coming[k].msg
          <5>1. k - p \in 1 .. B BY <3>1, <1>9, <1>7
          <5> QED BY <5>1, <3>1, <1>9
        <4> QED BY <3>1, <4>1, <4>2, <1>9
      <3>2. CASE k > B /\ k - B \in 1 .. n /\ Coming'[k].msg = m /\ Coming'[k].pos = k - B
        <4>1. m \in Len(received) + 1 .. m BY <1>0
        <4>2. k - B <= Size[m] /\ k - B <= k BY <3>2, <1>4, <1>3, <1>7
        <4>3. ASSUME NEW p \in 1 .. (k - B) - 1 PROVE Coming'[k - p].msg = m
          <5>1. (k - B) - p \in 1 .. n /\ B + ((k - B) - p) = k - p
            BY <3>2, <1>4, <1>7
          <5> QED BY <5>1, <1>7
        <4> QED BY <3>2, <4>1, <4>2, <4>3
      <3> QED BY <3>1, <3>2, <1>10
    <2>2. ASSUME NEW k \in 1 .. Len(Coming'), NEW j \in 1 .. Len(Coming'), k < j
          PROVE  /\ Coming'[k].msg <= Coming'[j].msg
                 /\ Coming'[k].msg = Coming'[j].msg => Coming'[j].pos = Coming'[k].pos + (j - k)
      <3>1. CASE j \in 1 .. B
        <4>1. k \in 1 .. B BY <2>2, <3>1, <1>7
        <4>2. /\ Coming[k].msg <= Coming[j].msg
              /\ Coming[k].msg = Coming[j].msg => Coming[j].pos = Coming[k].pos + (j - k)
          BY <2>2, <3>1, <4>1, <1>8, <1>9, InOrderFacts
        <4> QED BY <3>1, <4>1, <4>2, <1>9
      <3>2. CASE j \notin 1 .. B
        <4>1. j > B /\ Coming'[j].msg = m /\ Coming'[j].pos = j - B BY <3>2, <1>10
        <4>2. CASE k \in 1 .. B
          <5>1. Coming'[k].msg \in Len(received) + 1 .. written BY <4>2, <1>9
          <5> QED BY <5>1, <4>1, <1>0
        <4>3. CASE k \notin 1 .. B
          <5>1. Coming'[k].msg = m /\ Coming'[k].pos = k - B BY <4>3, <1>10
          <5>2. j - B = (k - B) + (j - k) BY <1>7
          <5> QED BY <5>1, <5>2, <4>1, <1>0
        <4> QED BY <4>2, <4>3
      <3> QED BY <3>1, <3>2
    <2> QED BY <2>1, <2>2, <1>2 DEF InOrder
  <1>12. WholeUntilCut(Coming)'
    <2>1. ASSUME NEW x \in Len(received) + 1 .. m, cutAt' = 0 \/ x < cutAt'
          PROVE  \E k \in 1 .. Len(Coming') : Coming'[k] = End(x)
      <3>1. CASE x # m
        <4>1. x \in Len(received) + 1 .. written /\ (cutAt = 0 \/ x < cutAt)
          BY <2>1, <3>1, <1>2, <1>0
        <4>2. WholeUntilCut(Coming) BY StreamParts DEF FInv
        <4>3. PICK k \in 1 .. Len(Coming) : Coming[k] = End(x) BY <4>1, <4>2 DEF WholeUntilCut
        <4>4. k \in 1 .. B /\ k \in 1 .. Len(Coming') BY <1>7, <1>4 DEF B
        <4> QED BY <4>3, <4>4, <1>9
      <3>2. CASE x = m
        <4>1. cutAt = 0 /\ n = Size[m] BY <2>1, <3>2, <1>2, <1>0, <1>3, <1>4
        <4>2. B + n \in 1 .. Len(Coming') /\ n \in 1 .. n BY <1>7, <1>4
        <4>3. Coming'[B + n].msg = m /\ Coming'[B + n].pos = Size[m] BY <4>1, <4>2, <1>7
        <4>4. Coming'[B + n] = End(m)
          <5>1. Coming'[B + n] \in Byte BY <4>2, <1>7
          <5>2. Coming'[B + n] = [msg |-> Coming'[B + n].msg, pos |-> Coming'[B + n].pos]
            BY <5>1 DEF Byte
          <5> QED BY <5>2, <4>3 DEF End
        <4> QED BY <4>2, <4>4, <3>2
      <3> QED BY <3>1, <3>2
    <2> QED BY <2>1, <1>2 DEF WholeUntilCut, End
  <1>13. CutForEver(Coming)'
    <2> SUFFICES ASSUME cutAt' # 0
                 PROVE  /\ Len(received) < cutAt'
                        /\ Coming' # <<>> /\ Coming'[Len(Coming')].msg = m
                        /\ \A k \in 1 .. Len(Coming') :
                             /\ Coming'[k] # End(cutAt')
                             /\ Coming'[k].msg > cutAt' =>
                                  \E c \in 1 .. k - 1 : Coming'[c].msg = cutAt'
                                                        /\ Coming'[c + 1].msg > cutAt'
      BY <1>2 DEF CutForEver, End
    <2>1. Coming' # <<>> /\ Coming'[Len(Coming')].msg = m
      <3>1. Len(Coming') \in 1 .. Len(Coming') /\ Len(Coming') \notin 1 .. B BY <1>7, <1>4
      <3> QED BY <3>1, <1>10
    <2>2. CutForEver(Coming) BY StreamParts DEF FInv
    <2>3. ASSUME NEW k \in 1 .. Len(Coming')
          PROVE  Coming'[k] \in Byte /\ (Coming'[k] = End(cutAt') => Coming'[k].msg = cutAt'
                                            /\ Coming'[k].pos = Size[cutAt'])
      BY <1>7 DEF End
    <2>4. CASE cutAt = 0
      <3>1. cutAt' = m /\ n < Size[m] BY <2>4, <1>2
      <3>2. ASSUME NEW k \in 1 .. Len(Coming')
            PROVE  Coming'[k] # End(m) /\ Coming'[k].msg <= m
        <4>1. CASE k \in 1 .. B
          <5>1. Coming'[k].msg < m BY <4>1, <1>9, <1>0
          <5>2. Coming'[k].msg # m BY <5>1, <1>0, <4>1, <1>9
          <5> QED BY <5>1, <5>2, <2>3, <3>1, <1>0, <4>1, <1>9
        <4>2. CASE k \notin 1 .. B
          <5>1. Coming'[k].msg = m /\ Coming'[k].pos = k - B /\ k - B \in 1 .. n
            BY <4>2, <1>10
          <5>2. k - B # Size[m] BY <5>1, <3>1, <1>3, <1>4
          <5> QED BY <5>1, <5>2, <2>3, <3>1, <1>0
        <4> QED BY <4>1, <4>2
      <3>3. Len(received) < m /\ m \in Nat BY <1>0
      <3>4. \A k \in 1 .. Len(Coming') : Coming'[k].msg \in Nat
        <4>1. \A k \in 1 .. Len(Coming') : Coming'[k] \in Byte BY <1>7
        <4> QED BY <4>1 DEF Byte, Message
      <3> HIDE DEF m
      <3> QED BY <2>1, <3>1, <3>2, <3>3, <3>4
    <2>5. CASE cutAt # 0
      <3>1. cutAt' = cutAt /\ Len(received) < cutAt /\ cutAt < m
        BY <2>2, <2>5, <1>2, <1>0 DEF CutForEver
      <3>2. /\ B \in 1 .. B /\ B = Len(Coming) /\ Coming[B].msg = written
        <4>1. Coming # <<>> /\ Coming[Len(Coming)].msg = written
          BY <2>2, <2>5, <1>2 DEF CutForEver
        <4> QED BY <4>1, <1>0, EmptySeq DEF B
      <3>3. ASSUME NEW k \in 1 .. Len(Coming')
            PROVE  Coming'[k] # End(cutAt)
        <4>1. CASE k \in 1 .. B BY <4>1, <1>9, <2>2, <2>5 DEF CutForEver
        <4>2. CASE k \notin 1 .. B BY <4>2, <1>10, <2>3, <3>1, <1>0
        <4> QED BY <4>1, <4>2
      <3>4. ASSUME NEW k \in 1 .. Len(Coming'), Coming'[k].msg > cutAt
            PROVE  \E c \in 1 .. k - 1 : Coming'[c].msg = cutAt /\ Coming'[c + 1].msg > cutAt
        (* j is a byte of the same kind that was coming, or the first new one. *)
        <4>1. ASSUME NEW j \in 1 .. B, j <= k, Coming[j].msg > cutAt
              PROVE  \E c \in 1 .. k - 1 : Coming'[c].msg = cutAt /\ Coming'[c + 1].msg > cutAt
          <5>1. PICK c \in 1 .. j - 1 : Coming[c].msg = cutAt /\ Coming[c + 1].msg > cutAt
            BY <4>1, <2>2, <2>5, <1>9 DEF CutForEver
          <5>2. c \in 1 .. k - 1 /\ c \in 1 .. B /\ c + 1 \in 1 .. B BY <4>1, <1>7
          <5> QED BY <5>1, <5>2, <1>9
        <4>2. CASE k \in 1 .. B BY <4>1, <4>2, <3>4, <1>9, <1>7
        <4>3. CASE k \notin 1 .. B
          <5>1. k > B /\ k \in Int BY <4>3, <1>10
          <5>2. CASE written > cutAt BY <5>1, <5>2, <4>1, <3>2, <1>7
          <5>3. CASE written = cutAt
            <6>1. B \in 1 .. k - 1 /\ B + 1 \in 1 .. Len(Coming') /\ B + 1 \notin 1 .. B
              BY <5>1, <3>2, <1>7, <1>4
            <6>2. Coming'[B].msg = cutAt BY <3>2, <5>3, <1>9
            <6>3. Coming'[B + 1].msg = m BY <6>1, <1>10
            <6> QED BY <6>1, <6>2, <6>3, <3>1
          <5> QED BY <5>2, <5>3, <1>0
        <4> QED BY <4>2, <4>3
      <3> QED BY <2>1, <3>1, <3>3, <3>4
    <2> QED BY <2>4, <2>5
  <1>14. cutAt' \in {cutAt, m} /\ (cutAt # 0 => cutAt' = cutAt) /\ (cutAt' = 0 => cutAt = 0)
    BY <1>2, <1>0
  <1>15. StreamInOrder'
    <2>1. StreamInOrder BY DEF FInv
    <2>2. /\ Len(received') <= written' /\ received' = [i \in 1 .. Len(received') |-> i]
          /\ cutAt' = 0 => \A k \in 1 .. Len(recvBuffer') : ~IsLast(recvBuffer[k])'
      BY <2>1, <1>2, <1>14, <1>0 DEF StreamInOrder, IsLast
    <2> QED BY <2>2, <1>11, <1>12, <1>13 DEF StreamInOrder, Coming
  <1>16. FramingTypeOK'
    <2>1. Len(wire') <= capacity BY <1>0, <1>1, <1>4, <1>6
    <2>2. written' \in 0 .. Len(Size) /\ cutAt' \in 0 .. written' BY <1>0, <1>2, <1>14
    <2>3. panicked \in BOOLEAN /\ received \in Seq(1 .. Len(Size))
      BY DEF FInv, FramingTypeOK
    <2> QED BY <2>1, <2>2, <2>3, <1>0, <1>1, <1>2, <1>6 DEF FramingTypeOK, Byte, Message
  <1> QED BY <1>2, <1>14, <1>15, <1>16 DEF FInv

(* An end of what is on the wire is lost.                                  *)
LEMMA WriteFailsKeeps ==
  ASSUME FInv, WriteFails
  PROVE  /\ FInv' /\ panicked' = TRUE
         /\ cutAt # 0 => cutAt' \in 1 .. cutAt
         /\ cutAt' # 0 => Len(received) < cutAt'
  <1>0. /\ wire \in Seq(Byte) /\ recvBuffer \in Seq(Byte) /\ Coming \in Seq(Byte)
        /\ Len(Coming) = Len(recvBuffer) + Len(wire)
        /\ written \in 0 .. Len(Size) /\ cutAt \in 0 .. written /\ Len(received) \in 0 .. written
        /\ Len(Size) \in Nat
    BY FramingTypes
  <1>1. /\ panicked' = TRUE /\ UNCHANGED <<capacity, written, recvBuffer, received>>
        /\ \E x \in 0 .. Len(wire) :
             /\ wire' = SubSeq(wire, 1, x)
             /\ cutAt' = IF x < Len(wire) /\ (cutAt = 0 \/ wire[x + 1].msg < cutAt)
                         THEN wire[x + 1].msg ELSE cutAt
    BY DEF WriteFails
  <1>2. PICK n \in 0 .. Len(wire) :
          /\ wire' = SubSeq(wire, 1, n)
          /\ cutAt' = IF n < Len(wire) /\ (cutAt = 0 \/ wire[n + 1].msg < cutAt)
                      THEN wire[n + 1].msg ELSE cutAt
    BY <1>1
  <1>3. Begins(Coming) /\ CutForEver(Coming) /\ WholeUntilCut(Coming) /\ StreamInOrder
    BY <1>0, StreamParts DEF Begins, FInv
  <1> DEFINE C == Len(Coming')
             w == Coming[C + 1].msg
  <1>4. wire' \in Seq(Byte) /\ Len(wire') = n /\ \A k \in 1 .. n : wire'[k] = wire[k]
    BY <1>0, <1>2
  <1>5. /\ Coming' \in Seq(Byte) /\ C = Len(recvBuffer) + n
        /\ \A k \in 1 .. Len(recvBuffer) : Coming'[k] = recvBuffer[k]
        /\ \A k \in 1 .. n : Coming'[Len(recvBuffer) + k] = wire'[k]
    <2>1. Coming' = recvBuffer \o wire' BY <1>1 DEF Coming
    <2>2. recvBuffer \in Seq(Byte) /\ wire' \in Seq(Byte) BY <1>0, <1>4
    <2>3. /\ recvBuffer \o wire' \in Seq(Byte)
          /\ Len(recvBuffer \o wire') = Len(recvBuffer) + Len(wire')
          /\ \A k \in 1 .. Len(recvBuffer) : (recvBuffer \o wire')[k] = recvBuffer[k]
          /\ \A k \in 1 .. Len(wire') : (recvBuffer \o wire')[Len(recvBuffer) + k] = wire'[k]
      BY <2>2, Joined
    <2> QED BY <2>1, <2>3, <1>4
  <1>n. /\ Len(Coming) = Len(recvBuffer) + Len(wire) /\ C = Len(recvBuffer) + n
        /\ Len(recvBuffer) \in Nat /\ Len(wire) \in Nat /\ n \in 0 .. Len(wire)
    BY <1>0, <1>5
  <1>6. C \in 0 .. Len(Coming) /\ Len(Coming) \in Nat BY <1>n
  <1>7. ASSUME NEW k \in 1 .. C PROVE k \in 1 .. Len(Coming) /\ Coming'[k] = Coming[k]
    <2>1. k \in 1 .. Len(Coming) BY <1>6
    <2>2. CASE k <= Len(recvBuffer) BY <2>1, <2>2, <1>5, <1>0, FramingTypes
    <2>3. CASE k > Len(recvBuffer)
      <3> DEFINE j == k - Len(recvBuffer)
      <3>1. j \in 1 .. n /\ j \in 1 .. Len(wire) /\ Len(recvBuffer) + j = k
        BY <2>3, <1>5, <1>0
      <3> HIDE DEF j
      <3>2. Coming'[k] = wire[j] BY <3>1, <1>4, <1>5
      <3>3. Coming[Len(recvBuffer) + j] = wire[j] BY <3>1, FramingTypes
      <3> QED BY <3>1, <3>2, <3>3, <2>1
    <2> QED BY <2>1, <2>2, <2>3, <1>0
  <1>8. CASE C = Len(Coming)
    <2>1. n = Len(wire) /\ cutAt' = cutAt
      <3>1. n = Len(wire) BY <1>8, <1>n
      <3> QED BY <3>1, <1>2, <1>0
    <2>2. wire' = wire BY <1>0, <1>4, <2>1
    <2>3. StreamInOrder'
      <3>1. CutForEver(Coming)'
        BY <1>1, <1>3, <2>1, <2>2 DEF CutForEver, Coming, End
      <3>2. Coming' = Coming BY <1>1, <2>2 DEF Coming
      <3>3. InOrder(Coming)'
        <4>1. InOrder(Coming) BY <1>3, StreamParts
        <4> QED BY <4>1, <3>2, <1>1 DEF InOrder
      <3>4. WholeUntilCut(Coming)' BY <1>1, <1>3, <2>1, <3>2 DEF WholeUntilCut, End
      <3>5. /\ Len(received') <= written'
            /\ received' = [m \in 1 .. Len(received') |-> m]
            /\ cutAt' = 0 => \A k \in 1 .. Len(recvBuffer') : ~IsLast(recvBuffer'[k])
        BY <1>1, <1>3, <2>1 DEF StreamInOrder, IsLast
      <3> QED BY <3>1, <3>3, <3>4, <3>5 DEF StreamInOrder, Coming, IsLast
    <2>4. FramingTypeOK' BY <1>1, <2>1, <2>2 DEF FInv, FramingTypeOK
    <2> QED BY <2>1, <2>3, <2>4, <1>0, <1>1, <1>3 DEF FInv, CutForEver
  <1>9. CASE C # Len(Coming)
    <2>1. C + 1 \in 1 .. Len(Coming) BY <1>9, <1>6
    <2>2. n < Len(wire) /\ wire[n + 1].msg = w
      <3>1. n + 1 \in 1 .. Len(wire) /\ Len(recvBuffer) + (n + 1) = C + 1
        BY <1>9, <1>n
      <3>2. Coming[Len(recvBuffer) + (n + 1)] = wire[n + 1] BY <3>1, FramingTypes
      <3> QED BY <3>1, <3>2
    <2> HIDE DEF C
    <2>3. w \in Len(received) + 1 .. written BY <2>1, <1>3, InOrderFacts
    <2>4. /\ cutAt' = IF cutAt = 0 \/ w < cutAt THEN w ELSE cutAt
          /\ cutAt # 0 => Len(received) < cutAt
      BY <1>2, <1>3, <2>2 DEF CutForEver
    <2>5. /\ cutAt' \in Len(received) + 1 .. written /\ cutAt' <= w
          /\ cutAt # 0 => cutAt' <= cutAt
      <3> HIDE DEF w
      <3> QED BY <2>3, <2>4, <1>0
    <2>6. ASSUME NEW k \in 1 .. C
          PROVE  /\ Coming'[k].msg \in Int /\ Coming'[k].msg <= w
                 /\ Coming'[k] # End(w)
      <3>1. k \in 1 .. Len(Coming) /\ k < C + 1 /\ Coming'[k] = Coming[k] BY <1>6, <1>7
      <3>2. Coming[k].msg \in Len(received) + 1 .. written /\ Coming[k].msg <= w
        BY <3>1, <2>1, <1>3, InOrderFacts
      <3>3. ASSUME Coming[k] = End(w) PROVE FALSE
        <4>1. Coming[k].msg = w /\ IsLast(Coming[k]) BY <3>3 DEF End, IsLast
        <4>2. Coming[k].msg < w BY <4>1, <3>1, <2>1, <1>3, NothingBehindLast
        <4> QED BY <4>1, <4>2, <2>3, <1>0
      <3> QED BY <3>1, <3>2, <3>3, <1>0
    <2>7. InOrder(Coming)'
      <3>1. ASSUME NEW k \in 1 .. C
            PROVE  /\ Coming'[k].msg \in Len(received) + 1 .. written
                   /\ Coming'[k].pos <= Size[Coming'[k].msg]
                   /\ Coming'[k].pos <= k
                   /\ \A p \in 1 .. Coming'[k].pos - 1 : Coming'[k - p].msg = Coming'[k].msg
        <4>1. /\ Coming[k].msg \in Len(received) + 1 .. written
              /\ Coming[k].pos \in 1 .. Size[Coming[k].msg]
              /\ Coming[k].pos <= k /\ Size[Coming[k].msg] \in Nat
              /\ \A p \in 1 .. Coming[k].pos - 1 : Coming[k - p].msg = Coming[k].msg
          BY <1>3, <1>7, InOrderFacts
        <4>2. ASSUME NEW p \in 1 .. Coming[k].pos - 1
              PROVE  Coming'[k - p].msg = Coming[k].msg
          <5>1. k - p \in 1 .. C BY <4>1, <1>6
          <5> QED BY <5>1, <4>1, <1>7
        <4> QED BY <4>1, <4>2, <1>7
      <3>2. ASSUME NEW k \in 1 .. C, NEW j \in 1 .. C, k < j
            PROVE  /\ Coming'[k].msg <= Coming'[j].msg
                   /\ Coming'[k].msg = Coming'[j].msg =>
                        Coming'[j].pos = Coming'[k].pos + (j - k)
        <4>1. k \in 1 .. Len(Coming) /\ j \in 1 .. Len(Coming) BY <1>7
        <4>2. /\ Coming[k].msg <= Coming[j].msg
              /\ Coming[k].msg = Coming[j].msg => Coming[j].pos = Coming[k].pos + (j - k)
          BY <4>1, <3>2, <1>3, InOrderFacts
        <4> QED BY <4>2, <1>7
      <3> QED BY <3>1, <3>2, <1>1 DEF InOrder, C
    <2>8. WholeUntilCut(Coming)'
      <3>1. ASSUME NEW x \in Len(received) + 1 .. written, cutAt' = 0 \/ x < cutAt'
            PROVE  \E k \in 1 .. C : Coming'[k] = End(x)
        <4>1. x < w /\ (cutAt = 0 \/ x < cutAt)
          <5> HIDE DEF w
          <5> QED BY <3>1, <2>3, <2>5, <1>0
        <4>2. PICK k \in 1 .. Len(Coming) : Coming[k] = End(x)
          BY <4>1, <1>3 DEF WholeUntilCut
        <4>3. Coming[k].msg = x BY <4>2 DEF End
        <4>4. k < C + 1
          <5>1. CASE k = C + 1 BY <5>1, <4>1, <4>3, <1>0
          <5>2. CASE k > C + 1
            <6>1. w <= Coming[k].msg BY <5>2, <2>1, <1>3, InOrderFacts
            <6> QED BY <6>1, <4>1, <4>3, <2>3, <1>0
          <5> QED BY <5>1, <5>2, <1>6
        <4>5. k \in 1 .. C BY <4>4, <1>6
        <4> QED BY <4>2, <4>5, <1>7
      <3> QED BY <3>1, <1>1 DEF WholeUntilCut, End, C
    <2>9. CutForEver(Coming)'
      <3>1. ASSUME NEW k \in 1 .. C
            PROVE  /\ Coming'[k] # End(cutAt')
                   /\ Coming'[k].msg > cutAt' =>
                        \E c \in 1 .. k - 1 : Coming'[c].msg = cutAt' /\ Coming'[c + 1].msg > cutAt'
        <4>1. CASE cutAt' = w
          <5> HIDE DEF w
          <5> QED BY <4>1, <2>3, <2>6, <1>0
        <4>2. CASE cutAt' # w
          <5>1. cutAt' = cutAt /\ cutAt # 0 BY <4>2, <2>4
          <5>2. /\ Coming[k] # End(cutAt)
                /\ Coming[k].msg > cutAt =>
                     \E c \in 1 .. k - 1 : Coming[c].msg = cutAt /\ Coming[c + 1].msg > cutAt
            BY <5>1, <1>3, <1>7 DEF CutForEver
          <5>3. ASSUME NEW c \in 1 .. k - 1
                PROVE  Coming'[c] = Coming[c] /\ Coming'[c + 1] = Coming[c + 1]
            <6>1. c \in 1 .. C /\ c + 1 \in 1 .. C BY <1>6
            <6> QED BY <6>1, <1>7
          <5> QED BY <5>1, <5>2, <5>3, <1>7
        <4> QED BY <4>1, <4>2
      <3>2. Len(received) < cutAt' BY <2>5, <1>0
      <3> QED BY <3>1, <3>2, <1>1 DEF CutForEver, End, C
    <2>10. StreamInOrder'
      <3>1. /\ Len(received') <= written' /\ received' = [i \in 1 .. Len(received') |-> i]
            /\ cutAt' = 0 => \A k \in 1 .. Len(recvBuffer') : ~IsLast(recvBuffer[k])'
        BY <1>1, <1>3, <2>5, <1>0 DEF StreamInOrder, IsLast
      <3> QED BY <3>1, <2>7, <2>8, <2>9 DEF StreamInOrder, Coming
    <2>11. FramingTypeOK'
      <3>1. /\ capacity \in Capacities /\ Len(wire) <= capacity /\ capacity \in Nat
            /\ received \in Seq(1 .. Len(Size))
        BY FramingAssumption DEF FInv, FramingTypeOK
      <3>2. Len(wire') <= capacity BY <3>1, <1>0, <1>4
      <3>3. cutAt' \in 0 .. written BY <2>5, <1>0
      <3> QED BY <3>1, <3>2, <3>3, <1>0, <1>1, <1>4 DEF FramingTypeOK, Byte, Message
    <2>12. (cutAt # 0 => cutAt' \in 1 .. cutAt) /\ Len(received) < cutAt'
      BY <2>5, <1>0
    <2> QED BY <2>10, <2>11, <2>12, <1>1 DEF FInv
  <1> QED BY <1>8, <1>9

-----------------------------------------------------------------------------
LEMMA InitStream == FramingInit => FInv
  <1> SUFFICES ASSUME FramingInit PROVE FInv OBVIOUS
  <1>1. FramingTypeOK
    <2>1. Len(Size) \in Nat /\ capacity \in Nat BY FramingAssumption DEF FramingInit
    <2>2. 0 \in 0 .. Len(Size) /\ Len(<<>>) <= capacity BY <2>1
    <2>3. <<>> \in Seq(Byte) /\ <<>> \in Seq(1 .. Len(Size)) OBVIOUS
    <2>4. wire \in Seq(Byte) /\ recvBuffer \in Seq(Byte) /\ received \in Seq(1 .. Len(Size))
      BY <2>3 DEF FramingInit
    <2>5. written \in 0 .. Len(Size) /\ cutAt \in 0 .. written /\ panicked \in BOOLEAN
      <3>1. written = 0 /\ cutAt = 0 /\ panicked = FALSE BY DEF FramingInit
      <3>2. 0 \in 0 .. 0 /\ FALSE \in BOOLEAN OBVIOUS
      <3>3. written \in 0 .. Len(Size) BY <2>2, <3>1
      <3>4. cutAt \in 0 .. written BY <3>1, <3>2
      <3>5. panicked \in BOOLEAN BY <3>1, <3>2
      <3> QED BY <3>3, <3>4, <3>5
    <2>6. capacity \in Capacities /\ Len(wire) <= capacity BY <2>2 DEF FramingInit
    <2> QED BY <2>4, <2>5, <2>6 DEF FramingTypeOK, Byte, Message
  <1>2. Coming = <<>> /\ Len(Coming) = 0 BY DEF FramingInit, Coming
  <1>3. StreamInOrder
    <2>1. InOrder(Coming) BY <1>2 DEF InOrder
    <2>2. WholeUntilCut(Coming) /\ CutForEver(Coming)
      BY <1>2 DEF FramingInit, WholeUntilCut, CutForEver
    <2>3. received = [m \in 1 .. Len(received) |-> m] BY DEF FramingInit
    <2> QED BY <2>1, <2>2, <2>3, StreamParts DEF FramingInit
  <1> QED BY <1>1, <1>3 DEF FInv

LEMMA NextStream == FInv /\ [Next]_vars => FInv'
  <1> SUFFICES ASSUME FInv, [Next]_vars PROVE FInv' OBVIOUS
  <1>1. CASE Write BY <1>1, WriteKeeps
  <1>2. CASE WriteFails BY <1>2, WriteFailsKeeps
  <1>3. CASE ReadStream BY <1>3, ReadKeeps
  <1>4. CASE UNCHANGED framingVars
    <2>1. UNCHANGED <<capacity, written, cutAt, panicked, wire, recvBuffer, received>>
      BY <1>4 DEF framingVars
    <2>2. FramingTypeOK' BY <2>1 DEF FInv, FramingTypeOK
    <2>3. Coming' = Coming BY <2>1 DEF Coming
    <2>4. InOrder(Coming)' /\ WholeUntilCut(Coming)'
      BY <2>1, <2>3, StreamParts DEF FInv, InOrder, WholeUntilCut, End
    <2>5. CutForEver(Coming)' BY <2>1, <2>3, StreamParts DEF FInv, CutForEver, End
    <2>6. /\ Len(received') <= written' /\ received' = [i \in 1 .. Len(received') |-> i]
          /\ cutAt' = 0 => \A k \in 1 .. Len(recvBuffer') : ~IsLast(recvBuffer[k])'
      BY <2>1 DEF FInv, StreamInOrder, IsLast
    <2> QED BY <2>2, <2>4, <2>5, <2>6 DEF FInv, StreamInOrder, Coming
  <1> QED BY <1>1, <1>2, <1>3, <1>4, FramingSteps

(* What a process gets out of a stream is what was written, in order and   *)
(* each message once, up to the first that lost a byte; what is on its way *)
(* is the rest of it (StreamInOrder).  For all sizes of messages, all      *)
(* capacities of the sockets and all sizes of the reads.                   *)
THEOREM StreamIsOrdered == Spec => [](FramingTypeOK /\ StreamInOrder)
  <1>1. Init => FInv BY InitStream DEF Init
  <1>2. FInv => FramingTypeOK /\ StreamInOrder BY DEF FInv
  <1> QED BY <1>1, <1>2, NextStream, PTL DEF Spec

(* The state of the processes, of the link and of its ends has its type    *)
(* (TypeOK).                                                               *)
THEOREM LinksTypeCorrect == Spec => []TypeOK
  <1> DEFINE Ends2 == src \in Process /\ dst \in Process
  <1>1. Init => Ends2 BY DEF Init
  <1>2. Ends2 /\ [Next]_vars => Ends2'
    BY DEF Next, Connecting, Sending, Receiving, Quiet, vars
  <1>3. FramingTypeOK /\ MeshTypeOK /\ Ends2 => TypeOK BY DEF TypeOK
  <1> HIDE DEF Ends2
  <1> QED BY <1>1, <1>2, <1>3, ProgressCorrect, StreamIsOrdered, PTL DEF Spec

(* Between two reads the buffer holds the beginning of one message, never  *)
(* a whole one, as long as nothing is lost (OnlyARemainder).               *)
THEOREM BufferHoldsARemainder == Spec => []OnlyARemainder
  <1>1. FInv => OnlyARemainder
    <2> SUFFICES ASSUME FInv, cutAt = 0, recvBuffer # <<>>
                 PROVE  LET m == recvBuffer[1].msg IN
                          Len(recvBuffer) < Size[m] /\ recvBuffer = Bytes(m, Len(recvBuffer))
      BY DEF OnlyARemainder
    <2> DEFINE s == recvBuffer
               m == recvBuffer[1].msg
               e == Len(recvBuffer)
    <2>1. /\ s \in Seq(Byte) /\ Begins(s) /\ e \in Nat /\ e # 0
          /\ \A k \in 1 .. e : ~IsLast(s[k])
      BY FramingTypes, StreamParts, EmptySeq DEF Begins, FInv
    <2>2. 1 \in 1 .. e BY <2>1
    (* No byte is the last of its message: so all are of the same.          *)
    <2>3. ASSUME NEW k \in 1 .. e PROVE s[k].msg = m /\ s[k].pos = k
      <3>1. /\ s[k].msg \in Len(received) + 1 .. written /\ m \in Len(received) + 1 .. written
            /\ s[k].pos \in Nat /\ s[1].pos = 1 /\ written \in Nat /\ Len(received) \in Nat
        <4>1. s[1].pos \in 1 .. Size[s[1].msg] /\ s[1].pos <= 1 BY <2>1, <2>2, InOrderFacts
        <4> QED BY <4>1, <2>1, <2>2, InOrderFacts, FramingTypes
      <3>2. CASE k = 1 BY <3>1, <3>2
      <3>3. CASE k # 1
        <4>1. 1 < k /\ m <= s[k].msg /\ (m = s[k].msg => s[k].pos = s[1].pos + (k - 1))
          BY <3>3, <2>1, <2>2, InOrderFacts
        <4>2. m = s[k].msg
          <5> SUFFICES ASSUME m < s[k].msg PROVE FALSE BY <4>1, <3>1
          <5>1. \E x \in 1 .. k - 1 : s[x].msg = m /\ IsLast(s[x])
            BY <2>1, <3>1, WholeBefore
          <5> QED BY <5>1, <2>1
        <4> QED BY <4>1, <4>2, <3>1
      <3> QED BY <3>2, <3>3
    <2>4. e < Size[m]
      <3>1. e \in 1 .. e /\ s[e].msg = m /\ s[e].pos = e BY <2>1, <2>3
      <3>2. s[e].pos \in 1 .. Size[s[e].msg] /\ Size[s[e].msg] \in Nat
        BY <2>1, <3>1, InOrderFacts
      <3>3. e # Size[m] BY <2>1, <3>1 DEF IsLast
      <3> QED BY <3>1, <3>2, <3>3
    <2>5. s = Bytes(m, e)
      <3>1. \A k \in 1 .. e : s[k] = [msg |-> m, pos |-> k]
        <4> SUFFICES ASSUME NEW k \in 1 .. e PROVE s[k] = [msg |-> m, pos |-> k] OBVIOUS
        <4>1. s[k] \in Byte BY <2>1
        <4>2. s[k] = [msg |-> s[k].msg, pos |-> s[k].pos] BY <4>1 DEF Byte
        <4> HIDE DEF s, m
        <4> QED BY <4>2, <2>3
      <3>2. s \in Seq(Byte) /\ Len(s) = e BY <2>1
      <3> DEFINE u == [k \in 1 .. e |-> [msg |-> m, pos |-> k]]
      <3>3. u = Bytes(m, e) BY DEF Bytes
      <3> HIDE DEF m, s, e
      <3>4. s = u BY <3>1, <3>2
      <3> QED BY <3>3, <3>4
    <2> QED BY <2>4, <2>5
  <1>2. FramingTypeOK /\ StreamInOrder => FInv BY DEF FInv
  <1> QED BY <1>1, <1>2, StreamIsOrdered, PTL

-----------------------------------------------------------------------------
(* The link implements what the protocol expects of it (Link).             *)

(* A beginning of the messages, of any two lengths.                        *)
LEMMA Beginnings ==
  ASSUME NEW a \in Nat, NEW b \in 0 .. a
  PROVE  SubSeq([m \in 1 .. a |-> m], 1, b) = [m \in 1 .. b |-> m]
  <1> DEFINE q == [m \in 1 .. a |-> m]
  <1>1. q \in Seq(Int) /\ Len(q) = a /\ \A k \in 1 .. a : q[k] = k OBVIOUS
  <1> HIDE DEF q
  <1>2. /\ SubSeq(q, 1, b) \in Seq(Int) /\ Len(SubSeq(q, 1, b)) = b
        /\ \A k \in 1 .. b : SubSeq(q, 1, b)[k] = q[k]
    BY <1>1
  <1> DEFINE t == SubSeq(q, 1, b)
  <1>3. t \in Seq(Int) /\ Len(t) = b /\ \A k \in 1 .. b : t[k] = k BY <1>1, <1>2
  <1> HIDE DEF t
  <1>4. t = [m \in 1 .. b |-> m] BY <1>3
  <1> QED BY <1>4 DEF t, q

WholeLength == IF cutAt = 0 THEN written ELSE cutAt - 1

LEMMA SentWholeIs ==
  ASSUME FInv
  PROVE  /\ WholeLength \in Len(received) .. written /\ Len(received) \in Nat /\ written \in Nat
         /\ SentWhole = [m \in 1 .. WholeLength |-> m] /\ Len(SentWhole) = WholeLength
         /\ written <= Len(Size)
  <1>1. /\ written \in 0 .. Len(Size) /\ cutAt \in 0 .. written /\ Len(received) \in 0 .. written
        /\ Len(Size) \in Nat /\ CutForEver(Coming)
    BY FramingTypes, StreamParts DEF FInv
  <1>2. WholeLength \in Len(received) .. written BY <1>1 DEF WholeLength, CutForEver
  <1>3. SentWhole = [m \in 1 .. WholeLength |-> m] BY DEF SentWhole, WholeLength
  <1>4. Len(SentWhole) = WholeLength
    <2> HIDE DEF WholeLength
    <2>1. WholeLength \in Nat BY <1>1, <1>2
    <2> QED BY <2>1, <1>3
  <1> QED BY <1>1, <1>2, <1>3, <1>4

(* A cut in an earlier message, at or behind the first not received.       *)
LEMMA CutEarlier ==
  ASSUME NEW w \in Nat, NEW r \in Nat, NEW c \in Nat, NEW d \in Nat,
         r <= (IF c = 0 THEN w ELSE c - 1),
         d \in 0 .. w, c # 0 => d \in 1 .. c, d # 0 => r < d
  PROVE  (IF d = 0 THEN w ELSE d - 1) \in r .. (IF c = 0 THEN w ELSE c - 1)
  OBVIOUS

(* Every step of the processes is one of the link, or none.                *)
LEMMA LinkStep == FInv /\ [Next]_vars => [TheLink!Next]_(TheLink!vars)
  <1> SUFFICES ASSUME FInv, [Next]_vars PROVE [TheLink!Next]_(TheLink!vars) OBVIOUS
  <1> DEFINE r == Len(received)
             broken == cutAt # 0 \/ panicked
             v == WholeLength
             vp == WholeLength'
  <1>1. /\ v \in r .. written /\ r \in Nat /\ written \in Nat /\ written <= Len(Size)
        /\ SentWhole = [m \in 1 .. v |-> m] /\ Len(SentWhole) = v
        /\ cutAt \in 0 .. written
    BY SentWholeIs, FramingTypes
  <1>2. FInv' BY NextStream
  <1>3. received = [m \in 1 .. r |-> m] BY StreamParts DEF FInv
  <1>4. SentWhole' = [m \in 1 .. vp |-> m] BY DEF SentWhole, WholeLength
  <1>5. ASSUME vp \in r .. v, broken', UNCHANGED received PROVE TheLink!Break
    <2>1. SentWhole' = SubSeq(SentWhole, 1, vp)
      <3>1. v \in Nat /\ vp \in 0 .. v BY <1>1, <1>5
      <3> HIDE DEF v, vp
      <3> QED BY <3>1, <1>1, <1>4, Beginnings
    <2> QED BY <2>1, <1>1, <1>5 DEF TheLink!Break
  <1>6. CASE Write
    <2>1. /\ ~panicked /\ written' = written + 1 /\ written < Len(Size)
          /\ UNCHANGED <<panicked, received>>
      BY <1>6 DEF Write
    <2>2. (cutAt # 0 => cutAt' = cutAt) /\ cutAt' \in {cutAt, written + 1}
      BY <1>6, <2>1, WriteKeeps
    <2>3. CASE cutAt # 0
      <3>1. cutAt' = cutAt BY <2>2, <2>3
      <3>2. SentWhole' = SentWhole BY <2>3, <3>1 DEF SentWhole
      <3> QED BY <2>1, <3>1, <3>2 DEF TheLink!vars
    <2>4. CASE cutAt = 0 /\ cutAt' = 0
      <3>1. v = written /\ vp = written + 1 BY <2>1, <2>4 DEF WholeLength
      <3>2. SentWhole' = Append(SentWhole, written + 1)
        <4> DEFINE q == [m \in 1 .. written |-> m]
                   t == [m \in 1 .. written + 1 |-> m]
        <4>1. q \in Seq(Int) /\ Len(q) = written /\ \A k \in 1 .. written : q[k] = k BY <1>1
        <4>2. t \in Seq(Int) /\ Len(t) = written + 1 /\ \A k \in 1 .. written + 1 : t[k] = k
          BY <1>1
        <4> HIDE DEF q, t
        <4>3. /\ Append(q, written + 1) \in Seq(Int) /\ Len(Append(q, written + 1)) = written + 1
              /\ \A k \in 1 .. written + 1 : Append(q, written + 1)[k] = k
          BY <1>1, <4>1
        <4> DEFINE a == Append(q, written + 1)
        <4> HIDE DEF a
        <4>4. a \in Seq(Int) /\ Len(a) = Len(t) /\ \A k \in 1 .. Len(a) : a[k] = t[k]
          BY <4>2, <4>3 DEF a
        <4>5. a = t BY <4>2, <4>4, SeqEqual
        <4> QED BY <4>5, <3>1, <1>1, <1>4 DEF a, q, t
      <3>3. written + 1 \in 1 .. Len(Size) BY <2>1, <1>1
      <3>4. TheLink!Send BY <2>1, <2>4, <3>2, <3>3 DEF TheLink!Send
      <3> QED BY <3>4 DEF TheLink!Next
    <2>5. CASE cutAt = 0 /\ cutAt' # 0
      <3>1. cutAt' = written + 1 BY <2>2, <2>5
      <3>2. v = written /\ vp = (written + 1) - 1 BY <2>5, <3>1 DEF WholeLength
      <3>3. vp \in r .. v BY <3>2, <1>1
      <3> QED BY <3>3, <1>5, <2>1, <2>5 DEF TheLink!Next
    <2> QED BY <2>3, <2>4, <2>5
  <1>7. CASE WriteFails
    <2>1. panicked' = TRUE /\ UNCHANGED <<received, written>> BY <1>7 DEF WriteFails
    <2>2. (cutAt # 0 => cutAt' \in 1 .. cutAt) /\ (cutAt' # 0 => r < cutAt')
      BY <1>7, WriteFailsKeeps
    <2>3. cutAt' \in 0 .. written
      BY <1>2, <2>1 DEF FInv, FramingTypeOK
    <2>4. vp \in r .. v
      <3>1. /\ v = IF cutAt = 0 THEN written ELSE cutAt - 1
            /\ vp = IF cutAt' = 0 THEN written ELSE cutAt' - 1
        BY <2>1 DEF WholeLength
      <3>2. r \in Nat /\ written \in Nat /\ cutAt \in Nat /\ cutAt' \in Nat /\ r <= v
        BY <1>1, <2>3
      <3> HIDE DEF v, vp, r
      <3>3. /\ (IF cutAt = 0 THEN written ELSE cutAt - 1) \in Nat
            /\ r <= (IF cutAt = 0 THEN written ELSE cutAt - 1)
        BY <3>1, <3>2, <1>1
      <3> QED BY <3>1, <3>2, <3>3, <2>2, <2>3, CutEarlier
    <2> QED BY <2>1, <2>4, <1>5 DEF TheLink!Next
  <1>8. CASE ReadStream
    <2>1. UNCHANGED <<written, cutAt, panicked>> BY <1>8 DEF ReadStream
    <2>2. SentWhole' = SentWhole BY <2>1 DEF SentWhole
    <2> DEFINE n == Len(received')
    <2>3. /\ r <= n /\ n <= written /\ (cutAt # 0 => n < cutAt)
          /\ received' = [m \in 1 .. n |-> m]
      BY <1>8, ReadKeeps
    <2>4. n \in Nat BY <1>2, FramingTypes DEF FInv, FramingTypeOK
    <2>5. n \in 0 .. v /\ v \in Nat
      <3>1. v = IF cutAt = 0 THEN written ELSE cutAt - 1 BY DEF WholeLength
      <3> HIDE DEF v, n
      <3> QED BY <3>1, <2>3, <2>4, <1>1
    <2>6. received' = SubSeq(SentWhole, 1, n)
      <3> HIDE DEF v, n
      <3> QED BY <2>3, <2>5, <1>1, Beginnings
    <2>7. CASE n = r
      <3>1. received' = received
        <4> HIDE DEF n, r
        <4> QED BY <2>3, <2>7, <1>3
      <3> QED BY <3>1, <2>1, <2>2 DEF TheLink!vars
    <2>8. CASE n # r
      <3>1. n \in r + 1 .. Len(SentWhole)
        <4> HIDE DEF n, r, v
        <4> QED BY <2>3, <2>5, <2>8, <1>1, <2>4
      <3>2. TheLink!Receive
        <4> HIDE DEF n
        <4> QED BY <3>1, <2>1, <2>2, <2>6 DEF TheLink!Receive
      <3> QED BY <3>2 DEF TheLink!Next
    <2> QED BY <2>7, <2>8
  <1>9. CASE UNCHANGED framingVars
    <2>1. UNCHANGED <<written, cutAt, panicked, received>> BY <1>9 DEF framingVars
    <2>2. SentWhole' = SentWhole BY <2>1 DEF SentWhole
    <2> QED BY <2>1, <2>2 DEF TheLink!vars
  <1> QED BY <1>6, <1>7, <1>8, <1>9, FramingSteps

(* The link keeps the promise of module Link, whatever is lost in it: the  *)
(* messages before the first lost byte are received, in order and each     *)
(* once, and none after it (ImplementsLink).                               *)
THEOREM LinkAsPromised == Spec => ImplementsLink
  <1>1. Init => TheLink!Init
    <2> SUFFICES ASSUME Init PROVE TheLink!Init OBVIOUS
    <2>1. written = 0 /\ cutAt = 0 /\ panicked = FALSE /\ received = <<>>
      BY DEF Init, FramingInit
    <2>2. SentWhole = <<>> BY <2>1 DEF SentWhole
    <2> QED BY <2>1, <2>2 DEF TheLink!Init
  <1>2. Init => FInv BY InitStream DEF Init
  <1> QED BY <1>1, <1>2, NextStream, LinkStep, PTL DEF Spec, ImplementsLink, TheLink!Spec
=============================================================================
