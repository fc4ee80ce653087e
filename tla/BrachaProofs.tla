---------------------------- MODULE BrachaProofs ----------------------------
(***************************************************************************)
(* That the nodes of Bracha implement ReliableBroadcast, for any number of *)
(* processes and values and wherever the run starts: also when processes   *)
(* end or panic, nothing is delivered that was not broadcast and no        *)
(* process broadcasts ahead of its own deliveries.  That its counters of   *)
(* messages count processes.  And that of two or three processes none ever   *)
(* fails.                                                                  *)
(***************************************************************************)
EXTENDS Bracha, FiniteSetTheorems, SequenceTheorems, TLAPS

-----------------------------------------------------------------------------
(* Values.                                                                 *)

LEMMA Divided ==
  ASSUME NEW n \in Nat \ {0}, NEW k \in Nat, NEW p \in 0 .. n - 1
  PROVE  (k * n + p) % n = p /\ (k * n + p) \div n = k
  <1>1. (k * n + p) % n = p BY SMTT(30)
  <1>2. (k * n + p) \div n = k BY SMTT(30)
  <1> QED BY <1>1, <1>2

LEMMA Values ==
  /\ \A p \in Process, k \in 1 .. Msgs :
       ValueOf(p, k) \in Value /\ Sender(ValueOf(p, k)) = p /\ Rank(ValueOf(p, k)) = k
  /\ \A v \in Value :
       Sender(v) \in Process /\ Rank(v) \in 1 .. Msgs /\ v = ValueOf(Sender(v), Rank(v))
  <1>1. ASSUME NEW p \in Process, NEW k \in 1 .. Msgs
        PROVE  ValueOf(p, k) \in Value /\ Sender(ValueOf(p, k)) = p /\ Rank(ValueOf(p, k)) = k
    <2>1. P \in Nat \ {0} /\ k \in Nat /\ p \in 0 .. P - 1
      BY BrachaAssumption DEF Process
    <2>2. (k * P + p) % P = p /\ (k * P + p) \div P = k BY <2>1, Divided
    <2> QED BY <2>2 DEF ValueOf, Value, Sender, Rank
  <1>2. ASSUME NEW v \in Value
        PROVE  Sender(v) \in Process /\ Rank(v) \in 1 .. Msgs /\ v = ValueOf(Sender(v), Rank(v))
    <2>1. PICK p \in Process, k \in 1 .. Msgs : v = ValueOf(p, k) BY DEF Value
    <2> QED BY <1>1, <2>1
  <1> QED BY <1>1, <1>2

(* The numbers of processes.                                               *)
LEMMA Processes ==
  /\ P \in Nat \ {0} /\ Msgs \in Nat \ {0} /\ IsFiniteSet(Process)
  /\ Cardinality(Process) = P /\ Cardinality(Ahead) \in Nat /\ IsFiniteSet(Ahead)
  <1>1. P \in Nat \ {0} /\ Msgs \in Nat \ {0} BY BrachaAssumption
  <1>2. IsFiniteSet(Process) /\ Cardinality(Process) = P
    BY <1>1, FS_Interval DEF Process
  <1>3. Ahead \in SUBSET Process BY DEF Ahead
  <1> QED BY <1>1, <1>2, <1>3, FS_Subset, FS_CardinalityType

-----------------------------------------------------------------------------
(* Types and traffic: what is on the streams has been broadcast.           *)

Numbers ==
  /\ started \in [Process -> BOOLEAN]
  /\ next \in [Process -> 1 .. Msgs + 1]
  /\ state \in [Process -> [Value -> {"none", "SentEcho", "SentReady"}]]
  /\ echoes \in [Process -> [Value -> Nat]]
  /\ readies \in [Process -> [Value -> Nat]]
  /\ delivered \in [Process -> SUBSET Value]

Streams(A) ==
  /\ life \in [Process -> {"running", "exited", "panicked"}]
  /\ stream \in [Process -> [Process -> Seq(A)]]
  /\ reset \in [Process -> SUBSET Process]

SentMessage == {m \in Message : m.v \in Sent}

(* Nothing is delivered that was not sent, and what a process has sent but *)
(* its current value it has delivered.                                     *)
InTurn ==
  /\ \A p \in Process : delivered[p] \subseteq Sent
  /\ \A p \in Process : ~started[p] => next[p] = 1
  /\ \A p \in Process, k \in 1 .. Msgs : k < next[p] - 1 => ValueOf(p, k) \in delivered[p]

BInv == Numbers /\ Streams(SentMessage) /\ InTurn

LEMMA TypeFromInv == BInv => TypeOK
  <1> SUFFICES ASSUME BInv PROVE TypeOK
    OBVIOUS
  <1>1. stream \in [Process -> [Process -> Seq(Message)]]
    <2>1. SentMessage \subseteq Message BY DEF SentMessage
    <2>2. Seq(SentMessage) \subseteq Seq(Message) BY <2>1, SeqMonotonic
    <2> QED BY <2>2 DEF BInv, Streams
  <1> QED BY <1>1 DEF BInv, Numbers, Streams, TypeOK

(* The values that everybody has delivered at the start, and those that    *)
(* the processes which are ahead have.                                     *)
LEMMA InitSent ==
  ASSUME Init
  PROVE  /\ \A v \in Value : IsSettled(v) => v \in Sent
         /\ Behind # {} => Sent = Value /\ (\E v \in Value : ~IsSettled(v))
         /\ \A p \in Live : ValueOf(p, Settled[p] + 1) \in Sent
  <1> USE BrachaAssumption, Values
  <1>1. \A p \in Process : next[p] =
          (IF Settled[p] = 0 THEN 1 ELSE IF Settled[p] < Msgs THEN Settled[p] + 2 ELSE Msgs + 1)
    BY DEF Init
  <1>2. \A p \in Process : Settled[p] \in 0 .. Msgs OBVIOUS
  <1>3. ASSUME NEW v \in Value, IsSettled(v) PROVE v \in Sent
    BY <1>1, <1>2, <1>3 DEF IsSettled, Sent
  <1>4. ASSUME NEW p \in Live PROVE ValueOf(p, Settled[p] + 1) \in Sent
    <2>1. p \in Process /\ Settled[p] + 1 \in 1 .. Msgs /\ next[p] = Settled[p] + 2
      BY <1>1, <1>2 DEF Live
    <2> QED BY <2>1 DEF Sent
  <1>5. ASSUME Behind # {} PROVE Sent = Value /\ (\E v \in Value : ~IsSettled(v))
    <2>1. PICK p \in Live : /\ Settled[p] = Msgs - 1
                            /\ \A q \in Peers(p) : Settled[q] = Msgs
      BY <1>5, BehindAssumption
    <2>2. p \in Process /\ Settled[p] \in 1 .. Msgs - 1 BY DEF Live
    <2>3. \A q \in Process : next[q] = Msgs + 1
      BY <1>1, <2>1, <2>2 DEF Peers
    <2>4. Sent = Value BY <2>3 DEF Sent
    <2>5. ValueOf(p, Msgs) \in Value /\ ~IsSettled(ValueOf(p, Msgs))
      BY <2>1, <2>2 DEF IsSettled
    <2> QED BY <2>4, <2>5
  <1> QED BY <1>3, <1>4, <1>5

LEMMA InitTraffic ==
  ASSUME Init
  PROVE  stream \in [Process -> [Process -> Seq(SentMessage)]]
  <1>1. ASSUME NEW p \in Process, NEW q \in Process
        PROVE  Unseen(p, q) \in Seq(SentMessage)
    <2> DEFINE live == IF p \in Live THEN <<Msg("Initial", ValueOf(p, Settled[p] + 1))>> ELSE <<>>
               w == CHOOSE v \in Value : ~IsSettled(v)
               votes == IF Behind = {} THEN <<>> ELSE <<Msg("Echo", w), Msg("Ready", w)>>
    <2>1. \A type \in {"Initial", "Echo", "Ready"}, v \in Sent : Msg(type, v) \in SentMessage
      BY DEF Msg, SentMessage, Message, Sent
    <2>2. live \in Seq(SentMessage)
      <3>1. p \in Live => Msg("Initial", ValueOf(p, Settled[p] + 1)) \in SentMessage
        BY <2>1, InitSent
      <3> QED BY <3>1
    <2>3. votes \in Seq(SentMessage)
      <3>1. Behind # {} => w \in Sent BY InitSent
      <3>2. Behind # {} => Msg("Echo", w) \in SentMessage /\ Msg("Ready", w) \in SentMessage
        BY <2>1, <3>1
      <3> QED BY <3>2
    <2>4. live \o votes \in Seq(SentMessage) BY <2>2, <2>3, ConcatProperties
    <2>5. <<>> \in Seq(SentMessage) OBVIOUS
    <2>6. Unseen(p, q) = IF q = p \/ (Behind # {} /\ (p \in Behind \/ q \in Ahead))
                         THEN <<>> ELSE live \o votes
      BY DEF Unseen
    <2> HIDE DEF live, votes
    <2> QED BY <2>4, <2>5, <2>6
  <1> QED BY <1>1 DEF Init

LEMMA InitInv == Init => BInv
  <1> SUFFICES ASSUME Init PROVE BInv
    OBVIOUS
  <1> USE BrachaAssumption
  <1>1. Streams(SentMessage) BY InitTraffic DEF Init, Streams
  <1>2. Numbers
    <2>1. \A p \in Process, v \in Value : Known(p, v) \in Nat
      BY Processes DEF Known
    <2>2. echoes \in [Process -> [Value -> Nat]] /\ readies = echoes BY <2>1 DEF Init
    <2>3. next \in [Process -> 1 .. Msgs + 1] BY DEF Init
    <2>4. state \in [Process -> [Value -> {"none", "SentEcho", "SentReady"}]] BY DEF Init
    <2> QED BY <2>2, <2>3, <2>4 DEF Init, Numbers
  <1>3. InTurn
    <2>1. ASSUME NEW p \in Process PROVE delivered[p] \subseteq Sent
      BY InitSent DEF Init, HasDone
    <2>2. ASSUME NEW p \in Process, ~started[p] PROVE next[p] = 1
      <3>1. started[p] <=> Settled[p] > 0 BY DEF Init
      <3>2. Settled[p] \in 0 .. Msgs OBVIOUS
      <3>3. Settled[p] = 0 BY <2>2, <3>1, <3>2
      <3> QED BY <3>3 DEF Init
    <2>3. ASSUME NEW p \in Process, NEW k \in 1 .. Msgs, k < next[p] - 1
          PROVE  ValueOf(p, k) \in delivered[p]
      <3>1. Settled[p] \in 0 .. Msgs /\ k <= Settled[p] BY <2>3 DEF Init
      <3>2. ValueOf(p, k) \in Value /\ IsSettled(ValueOf(p, k))
        BY <3>1, Values DEF IsSettled
      <3> QED BY <3>2 DEF Init, HasDone
    <2> QED BY <2>1, <2>2, <2>3 DEF InTurn
  <1> QED BY <1>1, <1>2, <1>3 DEF BInv

-----------------------------------------------------------------------------
(* What the steps do to the streams: they carry on as many messages of A.  *)

LEMMA WrittenType ==
  ASSUME NEW A, NEW p \in Process, NEW out \in Seq(A), NEW to \in SUBSET Process,
         NEW s \in [Process -> [Process -> Seq(A)]]
  PROVE  /\ Written(p, out, to, s) \in [Process -> [Process -> Seq(A)]]
         /\ Closed(p, s) \in [Process -> [Process -> Seq(A)]]
  <1>1. ASSUME NEW q \in Process PROVE s[p][q] \o out \in Seq(A)
    BY ConcatProperties
  <1>2. [q \in Process |-> IF q \in to /\ life[q] = "running" THEN s[p][q] \o out ELSE s[p][q]]
          \in [Process -> Seq(A)]
    BY <1>1
  <1>3. Written(p, out, to, s) \in [Process -> [Process -> Seq(A)]]
    BY <1>2 DEF Written
  <1>4. ASSUME NEW q \in Process PROVE [s[q] EXCEPT ![p] = <<>>] \in [Process -> Seq(A)]
    OBVIOUS
  <1> QED BY <1>3, <1>4 DEF Closed

LEMMA BroadcastEffect ==
  ASSUME NEW A, NEW p \in Process, NEW out \in Seq(A),
         NEW s \in [Process -> [Process -> Seq(A)]],
         life \in [Process -> {"running", "exited", "panicked"}],
         reset \in [Process -> SUBSET Process], Broadcast(p, out, s)
  PROVE  /\ life' \in [Process -> {"running", "exited", "panicked"}]
         /\ stream' \in [Process -> [Process -> Seq(A)]]
         /\ reset' \in [Process -> SUBSET Process]
  <1>p. Peers(p) \subseteq Process BY DEF Peers
  <1>r. Resets(p, s) \in [Process -> SUBSET Process] BY DEF Resets
  <1>1. CASE /\ stream' = Written(p, out, Peers(p), s)
             /\ reset' = IF out = <<>> THEN reset
                         ELSE [reset EXCEPT ![p] = @ \cup {q \in Peers(p) : life[q] # "running"}]
             /\ UNCHANGED life
    BY <1>1, <1>p, WrittenType
  <1>2. CASE \E n \in 1 .. Len(out) : \E to \in SUBSET (Peers(p) \ reset[p]) :
               /\ stream' = Closed(p, Written(p, <<out[n]>>, to,
                              Written(p, SubSeq(out, 1, n - 1), Peers(p), s)))
               /\ reset' = Resets(p, s)
               /\ life' = [life EXCEPT ![p] = "panicked"]
    <2>1. PICK n \in 1 .. Len(out), to \in SUBSET (Peers(p) \ reset[p]) :
            /\ stream' = Closed(p, Written(p, <<out[n]>>, to,
                           Written(p, SubSeq(out, 1, n - 1), Peers(p), s)))
            /\ reset' = Resets(p, s)
            /\ life' = [life EXCEPT ![p] = "panicked"]
      BY <1>2
    <2>2. <<out[n]>> \in Seq(A) /\ SubSeq(out, 1, n - 1) \in Seq(A)
      <3>1. Len(out) \in Nat /\ \A i \in 1 .. Len(out) : out[i] \in A
        BY LenProperties, ElementOfSeq
      <3> QED BY <3>1, SubSeqProperties
    <2>3. to \in SUBSET Process BY <1>p
    <2>4. Written(p, SubSeq(out, 1, n - 1), Peers(p), s) \in [Process -> [Process -> Seq(A)]]
      BY <2>2, <1>p, WrittenType
    <2>5. Written(p, <<out[n]>>, to, Written(p, SubSeq(out, 1, n - 1), Peers(p), s))
            \in [Process -> [Process -> Seq(A)]]
      BY <2>2, <2>3, <2>4, WrittenType
    <2>6. <<>> \in Seq(A) OBVIOUS
    <2>7. stream' \in [Process -> [Process -> Seq(A)]]
      BY <2>1, <2>5, <2>6, <2>3, WrittenType
    <2> QED BY <2>1, <2>7, <1>r
  <1> QED BY <1>1, <1>2 DEF Broadcast

(* What a process has broadcast only grows.                                *)
LEMMA Grows ==
  ASSUME Sent \subseteq Sent', NEW s \in [Process -> [Process -> Seq(SentMessage)]]
  PROVE  s \in [Process -> [Process -> Seq(SentMessage')]]
  <1>1. SentMessage \subseteq SentMessage' BY DEF SentMessage
  <1>2. Seq(SentMessage) \subseteq Seq(SentMessage') BY <1>1, SeqMonotonic
  <1> QED BY <1>2

LEMMA ReadType ==
  ASSUME BInv, NEW p \in Process, NEW q \in Process, stream[q][p] # <<>>
  PROVE  /\ Unread(p, q) \in [Process -> [Process -> Seq(SentMessage)]]
         /\ Head(stream[q][p]) \in SentMessage
         /\ Head(stream[q][p]).v \in Sent /\ Head(stream[q][p]).v \in Value
  <1>1. stream[q][p] \in Seq(SentMessage) BY DEF BInv, Streams
  <1>2. Tail(stream[q][p]) \in Seq(SentMessage) /\ Head(stream[q][p]) \in SentMessage
    BY <1>1, HeadTailProperties
  <1>3. Unread(p, q) \in [Process -> [Process -> Seq(SentMessage)]]
    BY <1>2 DEF BInv, Streams, Unread
  <1> QED BY <1>2, <1>3 DEF SentMessage, Sent

(* The messages of a handler.                                              *)
LEMMA SendType ==
  ASSUME NEW A, NEW cond, NEW type, NEW v, cond => Msg(type, v) \in A
  PROVE  Send(cond, type, v) \in Seq(A)
  BY DEF Send

LEMMA SentStays == UNCHANGED next => UNCHANGED Sent
  BY DEF Sent

(* A process that sends its next value.                                    *)
LEMMA SentAdvances ==
  ASSUME BInv, NEW p \in Process, next[p] <= Msgs, next' = [next EXCEPT ![p] = @ + 1]
  PROVE  /\ Sent' = Sent \cup {ValueOf(p, next[p])}
         /\ ValueOf(p, next[p]) \in Value /\ Sender(ValueOf(p, next[p])) = p
         /\ ValueOf(p, next[p]) \notin Sent
  <1>1. /\ next \in [Process -> 1 .. Msgs + 1] /\ Msgs \in Nat \ {0}
        /\ next[p] \in 1 .. Msgs
    BY Processes DEF BInv, Numbers
  <1> DEFINE w == ValueOf(p, next[p])
  <1>2. w \in Value /\ Sender(w) = p /\ Rank(w) = next[p] BY <1>1, Values
  <1>3. \A q \in Process : next'[q] = IF q = p THEN next[p] + 1 ELSE next[q]
    BY <1>1
  <1>4. Sent' = Sent \cup {w}
    <2>1. ASSUME NEW v \in Value PROVE v \in Sent' <=> v \in Sent \/ v = w
      <3>1. Sender(v) \in Process /\ Rank(v) \in 1 .. Msgs /\ v = ValueOf(Sender(v), Rank(v))
        BY Values
      <3>2. v \in Sent' <=> Rank(v) < next'[Sender(v)] BY DEF Sent
      <3>3. v \in Sent <=> Rank(v) < next[Sender(v)] BY DEF Sent
      <3>4. CASE Sender(v) = p
        <4>1. v = w <=> Rank(v) = next[p] BY <3>1, <3>4, <1>2
        <4> QED BY <3>1, <3>2, <3>3, <3>4, <4>1, <1>1, <1>3
      <3>5. CASE Sender(v) # p BY <3>1, <3>2, <3>3, <3>5, <1>2, <1>3
      <3> QED BY <3>4, <3>5
    <2>2. Sent \subseteq Value /\ Sent' \subseteq Value BY DEF Sent
    <2> QED BY <2>1, <2>2, <1>2
  <1>5. w \notin Sent BY <1>1, <1>2 DEF Sent
  <1> QED BY <1>2, <1>4, <1>5

LEMMA Advance ==
  ASSUME BInv, NEW p \in Process, next[p] <= Msgs, next' = [next EXCEPT ![p] = @ + 1],
         started' \in [Process -> BOOLEAN], started'[p],
         \A q \in Process : ~started'[q] => ~started[q],
         \A q \in Process : delivered[q] \subseteq delivered'[q] /\ delivered'[q] \subseteq Sent,
         next[p] # 1 => ValueOf(p, next[p] - 1) \in delivered'[p]
  PROVE  /\ next' \in [Process -> 1 .. Msgs + 1]
         /\ Sent' = Sent \cup {ValueOf(p, next[p])}
         /\ ValueOf(p, next[p]) \in Value
         /\ InTurn'
         /\ RB!MayBroadcast(ValueOf(p, next[p]))
  <1>1. /\ next \in [Process -> 1 .. Msgs + 1] /\ Msgs \in Nat \ {0}
        /\ next[p] \in 1 .. Msgs
    BY Processes DEF BInv, Numbers
  <1> DEFINE w == ValueOf(p, next[p])
  <1>2. w \in Value /\ Sender(w) = p /\ Rank(w) = next[p] BY <1>1, Values
  <1>3. next' \in [Process -> 1 .. Msgs + 1]
        /\ \A q \in Process : next'[q] = IF q = p THEN next[p] + 1 ELSE next[q]
    BY <1>1
  <1>4. Sent' = Sent \cup {w} /\ w \notin Sent BY SentAdvances
  <1>5. \A k \in 1 .. Msgs : k < next[p] => ValueOf(p, k) \in delivered'[p]
    <2> SUFFICES ASSUME NEW k \in 1 .. Msgs, k < next[p]
                 PROVE  ValueOf(p, k) \in delivered'[p]
      OBVIOUS
    <2>1. CASE k = next[p] - 1 BY <2>1, <1>1
    <2>2. CASE k < next[p] - 1 BY <2>2 DEF BInv, InTurn
    <2> QED BY <2>1, <2>2, <1>1
  <1>6. InTurn'
    <2>1. \A q \in Process : delivered'[q] \subseteq Sent' BY <1>4
    <2>2. \A q \in Process : ~started'[q] => next'[q] = 1
      BY <1>3 DEF BInv, InTurn
    <2>3. ASSUME NEW q \in Process, NEW k \in 1 .. Msgs, k < next'[q] - 1
          PROVE  ValueOf(q, k) \in delivered'[q]
      <3>1. CASE q = p BY <2>3, <3>1, <1>1, <1>3, <1>5
      <3>2. CASE q # p BY <2>3, <3>2, <1>3 DEF BInv, InTurn
      <3> QED BY <3>1, <3>2
    <2> QED BY <2>1, <2>2, <2>3 DEF InTurn
  <1>7. RB!MayBroadcast(w)
    <2>1. w \notin Sent BY <1>4
    <2>2. ASSUME NEW u \in Value, Sender(u) = Sender(w), Rank(u) < Rank(w)
          PROVE  u \in delivered'[Sender(w)]
      <3>1. u = ValueOf(p, Rank(u)) /\ Rank(u) \in 1 .. Msgs BY <2>2, <1>2, Values
      <3> QED BY <3>1, <2>2, <1>2, <1>5
    <2> QED BY <2>1, <2>2 DEF RB!MayBroadcast
  <1> QED BY <1>2, <1>3, <1>4, <1>6, <1>7

-----------------------------------------------------------------------------
(* The steps of a process.                                                 *)

LEMMA StartStep ==
  ASSUME BInv, NEW p \in Process, Start(p)
  PROVE  BInv' /\ [RB!Next]_(RB!rbVars)
  <1> USE DEF BInv
  <1> DEFINE w == ValueOf(p, next[p])
  <1>1. /\ next[p] = 1 /\ Msgs \in Nat \ {0}
        /\ started' = [started EXCEPT ![p] = TRUE]
        /\ next' = [next EXCEPT ![p] = @ + 1]
        /\ Broadcast(p, <<Msg("Initial", w)>>, stream)
        /\ UNCHANGED <<state, echoes, readies, delivered>>
    BY Processes DEF Start, InTurn
  <1>2. /\ next' \in [Process -> 1 .. Msgs + 1]
        /\ Sent' = Sent \cup {w} /\ w \in Value
        /\ InTurn' /\ RB!MayBroadcast(w)
    <2>1. started' \in [Process -> BOOLEAN] /\ started'[p]
          /\ \A q \in Process : ~started'[q] => ~started[q]
      BY <1>1 DEF Numbers
    <2>2. \A q \in Process : delivered[q] \subseteq delivered'[q] /\ delivered'[q] \subseteq Sent
      BY <1>1 DEF InTurn
    <2>3. next[p] <= Msgs /\ (next[p] # 1 => ValueOf(p, next[p] - 1) \in delivered'[p])
      BY <1>1
    <2> HIDE DEF w
    <2> QED BY <1>1, <2>1, <2>2, <2>3, Advance DEF w
  <1>3. Msg("Initial", w) \in SentMessage' BY <1>2 DEF Msg, SentMessage, Message
  <1>4. stream \in [Process -> [Process -> Seq(SentMessage')]] BY <1>2, Grows DEF Streams
  <1>5. Streams(SentMessage)'
    <2>1. <<Msg("Initial", w)>> \in Seq(SentMessage') BY <1>3
    <2> HIDE DEF w
    <2> QED BY <1>1, <1>4, <2>1, BroadcastEffect DEF Streams
  <1>6. Numbers' BY <1>1, <1>2 DEF Numbers
  <1>7. RB!Next BY <1>1, <1>2 DEF RB!Next
  <1> QED BY <1>2, <1>5, <1>6, <1>7

(* A step in which a process may vote for a value it has been sent.        *)
LEMMA VoteStep ==
  ASSUME BInv, NEW p \in Process, NEW q \in Peers(p), NEW cond1, NEW cond2,
         stream[q][p] # <<>>,
         Broadcast(p, Send(cond1, "Echo", Head(stream[q][p]).v)
                        \o Send(cond2, "Ready", Head(stream[q][p]).v), Unread(p, q)),
         UNCHANGED <<started, next, delivered>>
  PROVE  /\ Streams(SentMessage)' /\ InTurn'
         /\ UNCHANGED RB!rbVars
  <1> USE DEF BInv, Streams
  <1> DEFINE v == Head(stream[q][p]).v
  <1>1. q \in Process BY DEF Peers
  <1>2. Sent' = Sent /\ SentMessage' = SentMessage BY SentStays DEF SentMessage
  <1>3. /\ Unread(p, q) \in [Process -> [Process -> Seq(SentMessage)]]
        /\ v \in Sent /\ v \in Value
    BY <1>1, ReadType
  <1>4. Msg("Echo", v) \in SentMessage /\ Msg("Ready", v) \in SentMessage
    BY <1>3 DEF Msg, SentMessage, Message
  <1> HIDE DEF v
  <1>5. Send(cond1, "Echo", v) \in Seq(SentMessage) /\ Send(cond2, "Ready", v) \in Seq(SentMessage)
    BY <1>4, SendType
  <1>6. Send(cond1, "Echo", v) \o Send(cond2, "Ready", v) \in Seq(SentMessage)
    BY <1>5, ConcatProperties
  <1>7. Streams(SentMessage)'
    BY <1>2, <1>3, <1>6, BroadcastEffect DEF v
  <1>8. InTurn' BY <1>2 DEF InTurn
  <1> QED BY <1>2, <1>7, <1>8 DEF RB!rbVars

LEMMA InitialStep ==
  ASSUME BInv, NEW p \in Process, NEW q \in Peers(p), ReceiveInitial(p, q)
  PROVE  BInv' /\ [RB!Next]_(RB!rbVars)
  <1> USE DEF BInv
  <1> DEFINE v == Head(stream[q][p]).v
             echo == state[p][v] = "none"
  <1>1. /\ stream[q][p] # <<>>
        /\ state' = IF echo THEN [state EXCEPT ![p][v] = "SentEcho"] ELSE state
        /\ echoes' = [echoes EXCEPT ![p][v] = @ + One(echo)]
        /\ Broadcast(p, Send(echo, "Echo", v), Unread(p, q))
        /\ UNCHANGED <<started, next, readies, delivered>>
    BY DEF ReceiveInitial, Receive
  <1>2. q \in Process BY DEF Peers
  <1>3. v \in Value BY <1>1, <1>2, ReadType
  <1>4. Send(echo, "Echo", v) \o Send(FALSE, "Ready", v) = Send(echo, "Echo", v)
    <2>1. Send(echo, "Echo", v) \in Seq({Msg("Echo", v)}) BY SendType
    <2>2. Send(FALSE, "Ready", v) = <<>> BY DEF Send
    <2> QED BY <2>1, <2>2, ConcatEmptySeq
  <1>5. Numbers'
    <2> HIDE DEF v
    <2>1. echoes' \in [Process -> [Value -> Nat]]
      <3>1. One(echo) \in Nat BY DEF One
      <3> HIDE DEF echo
      <3> QED BY <1>1, <1>3, <3>1 DEF Numbers
    <2>2. state' \in [Process -> [Value -> {"none", "SentEcho", "SentReady"}]]
      BY <1>1, <1>3 DEF Numbers
    <2> QED BY <1>1, <2>1, <2>2 DEF Numbers
  <1>6. Streams(SentMessage)' /\ InTurn' /\ UNCHANGED RB!rbVars
    <2> HIDE DEF echo
    <2>1. Broadcast(p, Send(echo, "Echo", v) \o Send(FALSE, "Ready", v), Unread(p, q))
      BY <1>1, <1>4
    <2> QED BY <1>1, <2>1, VoteStep
  <1> QED BY <1>5, <1>6

LEMMA EchoStep ==
  ASSUME BInv, NEW p \in Process, NEW q \in Peers(p), ReceiveEcho(p, q)
  PROVE  BInv' /\ [RB!Next]_(RB!rbVars)
  <1> USE DEF BInv
  <1> DEFINE v == Head(stream[q][p]).v
             enough == echoes[p][v] + 1 >= EchoQuorum
             echo == enough /\ state[p][v] = "none"
             ready == enough /\ state[p][v] # "SentReady"
  <1>1. /\ stream[q][p] # <<>>
        /\ state' = IF ready THEN [state EXCEPT ![p][v] = "SentReady"] ELSE state
        /\ echoes' = [echoes EXCEPT ![p][v] = @ + 1 + One(echo)]
        /\ readies' = [readies EXCEPT ![p][v] = @ + One(ready)]
        /\ Broadcast(p, Send(echo, "Echo", v) \o Send(ready, "Ready", v), Unread(p, q))
        /\ UNCHANGED <<started, next, delivered>>
    BY DEF ReceiveEcho, Receive
  <1>2. q \in Process BY DEF Peers
  <1>3. v \in Value BY <1>1, <1>2, ReadType
  <1>4. One(echo) \in Nat /\ One(ready) \in Nat BY DEF One
  <1>5. Numbers'
    <2> HIDE DEF v, enough, echo, ready
    <2>1. echoes' \in [Process -> [Value -> Nat]] BY <1>1, <1>3, <1>4 DEF Numbers
    <2>2. readies' \in [Process -> [Value -> Nat]] BY <1>1, <1>3, <1>4 DEF Numbers
    <2>3. state' \in [Process -> [Value -> {"none", "SentEcho", "SentReady"}]]
      BY <1>1, <1>3 DEF Numbers
    <2> QED BY <1>1, <2>1, <2>2, <2>3 DEF Numbers
  <1>6. Streams(SentMessage)' /\ InTurn' /\ UNCHANGED RB!rbVars
    <2> HIDE DEF echo, ready
    <2> QED BY <1>1, VoteStep
  <1> QED BY <1>5, <1>6

LEMMA ReadyStep ==
  ASSUME BInv, NEW p \in Process, NEW q \in Peers(p), ReceiveReady(p, q)
  PROVE  BInv' /\ [RB!Next]_(RB!rbVars)
  <1> USE DEF BInv
  <1> DEFINE v == Head(stream[q][p]).v
             enough == readies[p][v] + 1 >= ReadyQuorum
             echo == enough /\ state[p][v] = "none"
             ready == enough /\ state[p][v] # "SentReady"
             count == readies[p][v] + 1 + One(ready)
             deliver == count >= DeliverQuorum
             another == deliver /\ IsCurrent(p, v) /\ HasMore(p)
             w == ValueOf(p, next[p])
  <1>1. /\ stream[q][p] # <<>> /\ started[p]
        /\ state' = IF ready THEN [state EXCEPT ![p][v] = "SentReady"] ELSE state
        /\ echoes' = [echoes EXCEPT ![p][v] = @ + One(echo)]
        /\ readies' = [readies EXCEPT ![p][v] = count]
        /\ delivered' = [delivered EXCEPT ![p] = IF deliver THEN @ \cup {v} ELSE @]
        /\ next' = [next EXCEPT ![p] = @ + One(another)]
        /\ Broadcast(p, Send(echo, "Echo", v) \o Send(ready, "Ready", v)
                           \o Send(another, "Initial", w), Unread(p, q))
        /\ UNCHANGED started
    BY DEF ReceiveReady, Receive, InMainLoop
  <1>2. q \in Process BY DEF Peers
  <1>3. /\ v \in Value /\ v \in Sent
        /\ Unread(p, q) \in [Process -> [Process -> Seq(SentMessage)]]
    BY <1>1, <1>2, ReadType
  <1>4. One(echo) \in Nat /\ One(ready) \in Nat BY DEF One
  <1>5. /\ delivered' \in [Process -> SUBSET Value]
        /\ \A r \in Process : delivered[r] \subseteq delivered'[r] /\ delivered'[r] \subseteq Sent
        /\ deliver => v \in delivered'[p]
    <2> HIDE DEF v, deliver
    <2> QED BY <1>1, <1>3 DEF Numbers, InTurn
  <1>6. UNCHANGED delivered \/ (RB!Deliver(p, v) /\ v \in delivered'[p])
    <2> HIDE DEF v, deliver
    <2>1. CASE deliver
      <3>1. delivered' = [delivered EXCEPT ![p] = @ \cup {v}] BY <1>1, <2>1
      <3> QED BY <3>1, <2>1, <1>3, <1>5 DEF RB!Deliver
    <2>2. CASE ~deliver
      <3>1. delivered' = [delivered EXCEPT ![p] = delivered[p]] BY <1>1, <2>2
      <3>2. delivered' = delivered BY <3>1 DEF Numbers
      <3> QED BY <3>2
    <2> QED BY <2>1, <2>2
  <1>7. /\ next' \in [Process -> 1 .. Msgs + 1] /\ InTurn'
        /\ Sent \subseteq Sent'
        /\ another => w \in Sent' /\ w \in Value
        /\ \/ UNCHANGED Sent
           \/ RB!MayBroadcast(w) /\ Sent' = Sent \cup {w} /\ w \in Value
    <2>1. CASE another
      <3>1. next' = [next EXCEPT ![p] = @ + 1] BY <1>1, <2>1 DEF One
      <3>2. next[p] <= Msgs BY <2>1 DEF HasMore
      <3>3. ValueOf(p, next[p] - 1) \in delivered'[p] BY <1>5, <2>1 DEF IsCurrent
      <3>4. started' \in [Process -> BOOLEAN] /\ started'[p]
            /\ \A r \in Process : ~started'[r] => ~started[r]
        BY <1>1 DEF Numbers
      <3> HIDE DEF another, v, deliver
      <3> QED BY <1>5, <3>1, <3>2, <3>3, <3>4, Advance
    <2>2. CASE ~another
      <3>1. next' = next
        <4>1. next' = [next EXCEPT ![p] = @ + 0]
          <5> HIDE DEF another
          <5> QED BY <1>1, <2>2 DEF One
        <4>2. next[p] + 0 = next[p] BY DEF Numbers
        <4> QED BY <4>1, <4>2 DEF Numbers
      <3>2. Sent' = Sent BY <3>1, SentStays
      <3>3. InTurn'
        <4> HIDE DEF another, v, deliver
        <4> QED BY <1>1, <1>5, <3>1, <3>2 DEF InTurn
      <3> QED BY <2>2, <3>1, <3>2, <3>3 DEF Numbers
    <2> QED BY <2>1, <2>2
  <1>8. Numbers'
    <2>1. count \in Nat
      <3> HIDE DEF v, ready
      <3> QED BY <1>3, <1>4 DEF Numbers
    <2> HIDE DEF v, enough, echo, ready, count, deliver, another
    <2>2. echoes' \in [Process -> [Value -> Nat]] BY <1>1, <1>3, <1>4 DEF Numbers
    <2>3. readies' \in [Process -> [Value -> Nat]] BY <1>1, <1>3, <2>1 DEF Numbers
    <2>4. state' \in [Process -> [Value -> {"none", "SentEcho", "SentReady"}]]
      BY <1>1, <1>3 DEF Numbers
    <2> QED BY <1>1, <1>5, <1>7, <2>2, <2>3, <2>4 DEF Numbers
  <1>9. Streams(SentMessage)'
    <2>1. Unread(p, q) \in [Process -> [Process -> Seq(SentMessage')]]
      BY <1>3, <1>7, Grows
    <2>2. Msg("Echo", v) \in SentMessage' /\ Msg("Ready", v) \in SentMessage'
      <3> HIDE DEF v
      <3> QED BY <1>3, <1>7 DEF Msg, SentMessage, Message
    <2>3. another => Msg("Initial", w) \in SentMessage'
      <3> HIDE DEF another, w
      <3> QED BY <1>7 DEF Msg, SentMessage, Message
    <2> HIDE DEF v, echo, ready, another, w
    <2>4. /\ Send(echo, "Echo", v) \in Seq(SentMessage')
          /\ Send(ready, "Ready", v) \in Seq(SentMessage')
          /\ Send(another, "Initial", w) \in Seq(SentMessage')
      BY <2>2, <2>3, SendType
    <2>5. Send(echo, "Echo", v) \o Send(ready, "Ready", v) \o Send(another, "Initial", w)
            \in Seq(SentMessage')
      BY <2>4, ConcatProperties
    <2> QED BY <1>1, <2>1, <2>5, BroadcastEffect DEF Streams
  <1>10. RB!Next
    <2> HIDE DEF v, w
    <2>1. UNCHANGED delivered \/ \E r \in Process : \E u \in delivered'[r] : RB!Deliver(r, u)
      BY <1>6
    <2> QED BY <1>7, <2>1 DEF RB!Next
  <1> QED BY <1>7, <1>8, <1>9, <1>10

(* A process that ends, one way or the other.                              *)
LEMMA EndStep ==
  ASSUME BInv, NEW p \in Process, NEW how \in {"exited", "panicked"},
         life' = [life EXCEPT ![p] = how], stream' = Closed(p, stream),
         reset' = Resets(p, stream),
         UNCHANGED <<started, next, state, echoes, readies, delivered>>
  PROVE  BInv' /\ [RB!Next]_(RB!rbVars)
  <1> USE DEF BInv, Streams
  <1>1. Sent' = Sent /\ SentMessage' = SentMessage BY SentStays DEF SentMessage
  <1>2. <<>> \in Seq(SentMessage) /\ {} \in SUBSET Process OBVIOUS
  <1>3. stream' \in [Process -> [Process -> Seq(SentMessage)]]
    BY <1>2, WrittenType
  <1>4. reset' \in [Process -> SUBSET Process] BY DEF Resets
  <1>5. Streams(SentMessage)' BY <1>1, <1>3, <1>4
  <1>6. Numbers' /\ InTurn' BY <1>1 DEF Numbers, InTurn
  <1>7. UNCHANGED RB!rbVars BY <1>1 DEF RB!rbVars
  <1> QED BY <1>5, <1>6, <1>7

LEMMA BroadcastStep ==
  ASSUME BInv, [Next]_vars
  PROVE  BInv' /\ [RB!Next]_(RB!rbVars)
  <1>1. CASE UNCHANGED vars
    <2>1. Sent' = Sent /\ SentMessage' = SentMessage
      BY <1>1, SentStays DEF SentMessage, vars
    <2> QED BY <1>1, <2>1 DEF vars, BInv, Numbers, Streams, InTurn, RB!rbVars
  <1>2. ASSUME NEW p \in Process, Step(p)
        PROVE  BInv' /\ [RB!Next]_(RB!rbVars)
    <2>1. CASE Start(p) BY <2>1, StartStep
    <2>2. CASE Exit(p) BY <2>2, EndStep DEF Exit
    <2>3. ASSUME NEW q \in Peers(p), Read(p, q)
          PROVE  BInv' /\ [RB!Next]_(RB!rbVars)
      <3>1. CASE ReadReset(p, q) BY <3>1, EndStep DEF ReadReset
      <3> QED BY <2>3, <3>1, InitialStep, EchoStep, ReadyStep DEF Read
    <2> QED BY <1>2, <2>1, <2>2, <2>3 DEF Step
  <1> QED BY <1>1, <1>2 DEF Next, Quiet

LEMMA InvCorrect == Spec => []BInv
  <1>1. BInv /\ [Next]_vars => BInv' BY BroadcastStep
  <1> QED BY <1>1, InitInv, PTL DEF Spec

(* The types of any cluster (TypeOK).                                      *)
THEOREM BrachaTypeCorrect == Spec => []TypeOK
  BY InvCorrect, TypeFromInv, PTL

(* The nodes of main.rs implement reliable broadcast: whatever fails,      *)
(* nothing is delivered that was not broadcast, and a process broadcasts   *)
(* its values in turn, each after it has delivered the one before          *)
(* (ImplementsBroadcast).                                                  *)
THEOREM BroadcastIsReliable == Spec => ImplementsBroadcast
  <1>1. Init => RB!Init
    BY InitInv DEF BInv, Numbers, InTurn, RB!Init, Sent
  <1>2. BInv /\ [Next]_vars => [RB!Next]_(RB!rbVars)
    BY BroadcastStep
  <1> QED BY <1>1, <1>2, InvCorrect, PTL DEF Spec, RB!Spec, ImplementsBroadcast

-----------------------------------------------------------------------------
(* That the counters of a node count processes.  main.rs counts messages,  *)
(* whoever sent them, and adds the process's own vote in three places.     *)
(* The argument: a process votes once for a value, so that no stream holds *)
(* a message twice; and what a process has counted, together with the      *)
(* peers whose vote it has not read, is those that have voted.             *)

(* Sequences without repetitions.                                          *)

Elements(s) == {s[n] : n \in 1 .. Len(s)}
Distinct(s) == \A i, j \in 1 .. Len(s) : s[i] = s[j] => i = j

LEMMA Joined ==
  ASSUME NEW S, NEW s \in Seq(S), NEW t \in Seq(S)
  PROVE  /\ Elements(s \o t) = Elements(s) \cup Elements(t)
         /\ Distinct(s) /\ Distinct(t) /\ Elements(s) \cap Elements(t) = {} => Distinct(s \o t)
  <1>1. /\ Len(s) \in Nat /\ Len(t) \in Nat /\ Len(s \o t) = Len(s) + Len(t)
        /\ \A i \in 1 .. Len(s) + Len(t) :
             (s \o t)[i] = IF i <= Len(s) THEN s[i] ELSE t[i - Len(s)]
    BY ConcatProperties, LenProperties
  <1>2. Elements(s \o t) = Elements(s) \cup Elements(t)
    <2>1. ASSUME NEW i \in 1 .. Len(s) PROVE i \in 1 .. Len(s \o t) /\ (s \o t)[i] = s[i]
      BY <1>1
    <2>2. ASSUME NEW i \in 1 .. Len(t)
          PROVE  Len(s) + i \in 1 .. Len(s \o t) /\ (s \o t)[Len(s) + i] = t[i]
      <3>1. Len(s) + i \in 1 .. Len(s) + Len(t) /\ ~(Len(s) + i <= Len(s)) BY <1>1
      <3>2. (s \o t)[Len(s) + i] = t[(Len(s) + i) - Len(s)] BY <1>1, <3>1
      <3>3. (Len(s) + i) - Len(s) = i BY <1>1
      <3> QED BY <1>1, <3>1, <3>2, <3>3
    <2>3. ASSUME NEW i \in 1 .. Len(s \o t)
          PROVE  (s \o t)[i] \in Elements(s) \cup Elements(t)
      <3>1. CASE i <= Len(s) BY <1>1, <3>1 DEF Elements
      <3>2. CASE ~(i <= Len(s))
        <4>1. i - Len(s) \in 1 .. Len(t) /\ (s \o t)[i] = t[i - Len(s)] BY <1>1, <3>2
        <4> QED BY <4>1 DEF Elements
      <3> QED BY <3>1, <3>2
    <2>4. Elements(s) \subseteq Elements(s \o t) BY <2>1 DEF Elements
    <2>5. Elements(t) \subseteq Elements(s \o t)
      <3>1. ASSUME NEW i \in 1 .. Len(t) PROVE t[i] \in Elements(s \o t)
        BY <2>2 DEF Elements
      <3> QED BY <3>1 DEF Elements
    <2>6. Elements(s \o t) \subseteq Elements(s) \cup Elements(t)
      <3>1. ASSUME NEW m \in Elements(s \o t) PROVE m \in Elements(s) \cup Elements(t)
        <4>1. PICK i \in 1 .. Len(s \o t) : m = (s \o t)[i] BY DEF Elements
        <4> QED BY <4>1, <2>3
      <3> QED BY <3>1
    <2> QED BY <2>4, <2>5, <2>6
  <1>3. ASSUME Distinct(s), Distinct(t), Elements(s) \cap Elements(t) = {},
               NEW i \in 1 .. Len(s \o t), NEW j \in 1 .. Len(s \o t),
               (s \o t)[i] = (s \o t)[j]
        PROVE  i = j
    <2>1. CASE i <= Len(s) /\ j <= Len(s) BY <1>1, <1>3, <2>1 DEF Distinct
    <2>2. CASE ~(i <= Len(s)) /\ ~(j <= Len(s))
      <3>1. i - Len(s) \in 1 .. Len(t) /\ j - Len(s) \in 1 .. Len(t) BY <1>1, <2>2
      <3>2. t[i - Len(s)] = t[j - Len(s)] BY <1>1, <1>3, <2>2
      <3>3. i - Len(s) = j - Len(s) BY <1>3, <3>1, <3>2 DEF Distinct
      <3> QED BY <1>1, <3>3
    <2>3. CASE i <= Len(s) /\ ~(j <= Len(s))
      <3>1. s[i] \in Elements(s) BY <1>1, <2>3 DEF Elements
      <3>2. j - Len(s) \in 1 .. Len(t) /\ s[i] = t[j - Len(s)] BY <1>1, <1>3, <2>3
      <3>3. s[i] \in Elements(t) BY <3>2 DEF Elements
      <3> QED BY <1>3, <3>1, <3>3
    <2>4. CASE ~(i <= Len(s)) /\ j <= Len(s)
      <3>1. s[j] \in Elements(s) BY <1>1, <2>4 DEF Elements
      <3>2. i - Len(s) \in 1 .. Len(t) /\ s[j] = t[i - Len(s)] BY <1>1, <1>3, <2>4
      <3>3. s[j] \in Elements(t) BY <3>2 DEF Elements
      <3> QED BY <1>3, <3>1, <3>3
    <2> QED BY <2>1, <2>2, <2>3, <2>4
  <1>4. Distinct(s) /\ Distinct(t) /\ Elements(s) \cap Elements(t) = {} => Distinct(s \o t)
    BY <1>3 DEF Distinct
  <1> QED BY <1>2, <1>4

LEMMA Shortened ==
  ASSUME NEW S, NEW s \in Seq(S), s # <<>>, Distinct(s)
  PROVE  /\ Distinct(Tail(s)) /\ Elements(Tail(s)) = Elements(s) \ {Head(s)}
         /\ Head(s) \in Elements(s)
  <1>1. /\ Len(s) \in Nat \ {0} /\ Len(Tail(s)) = Len(s) - 1 /\ Head(s) = s[1]
        /\ \A i \in 1 .. Len(s) - 1 : Tail(s)[i] = s[i + 1]
    BY HeadTailProperties, LenProperties, EmptySeq
  <1>2. Distinct(Tail(s))
    <2> SUFFICES ASSUME NEW i \in 1 .. Len(s) - 1, NEW j \in 1 .. Len(s) - 1,
                        Tail(s)[i] = Tail(s)[j]
                 PROVE  i = j
      BY <1>1 DEF Distinct
    <2>1. i + 1 \in 1 .. Len(s) /\ j + 1 \in 1 .. Len(s) /\ s[i + 1] = s[j + 1] BY <1>1
    <2>2. i + 1 = j + 1 BY <2>1 DEF Distinct
    <2> QED BY <2>2
  <1>3. ASSUME NEW i \in 1 .. Len(s), s[i] # s[1] PROVE s[i] \in Elements(Tail(s))
    <2>1. i - 1 \in 1 .. Len(s) - 1 BY <1>1, <1>3
    <2>2. Tail(s)[i - 1] = s[(i - 1) + 1] BY <1>1, <2>1
    <2>3. (i - 1) + 1 = i BY <1>1
    <2>4. Tail(s)[i - 1] = s[i] BY <2>2, <2>3
    <2> QED BY <1>1, <2>1, <2>4 DEF Elements
  <1>4. ASSUME NEW i \in 1 .. Len(s) - 1
        PROVE  Tail(s)[i] \in Elements(s) /\ Tail(s)[i] # s[1]
    <2>1. i + 1 \in 1 .. Len(s) /\ 1 \in 1 .. Len(s) /\ i + 1 # 1 /\ Tail(s)[i] = s[i + 1]
      BY <1>1
    <2> QED BY <2>1 DEF Elements, Distinct
  <1>5. s[1] \in Elements(s) BY <1>1 DEF Elements
  <1>6. Elements(Tail(s)) = Elements(s) \ {s[1]}
    BY <1>1, <1>3, <1>4 DEF Elements
  <1> QED BY <1>1, <1>2, <1>5, <1>6

(* The number of times that a sequence without repetitions has an element. *)
LEMMA Counted ==
  ASSUME NEW S, NEW s \in Seq(S), Distinct(s), NEW m
  PROVE  Cardinality({n \in 1 .. Len(s) : s[n] = m}) = IF m \in Elements(s) THEN 1 ELSE 0
  <1>1. CASE m \in Elements(s)
    <2>1. PICK i \in 1 .. Len(s) : s[i] = m BY <1>1 DEF Elements
    <2>2. {n \in 1 .. Len(s) : s[n] = m} = {i} BY <2>1 DEF Distinct
    <2> QED BY <1>1, <2>2, FS_Singleton
  <1>2. CASE m \notin Elements(s)
    <2>1. {n \in 1 .. Len(s) : s[n] = m} = {} BY <1>2 DEF Elements
    <2> QED BY <1>2, <2>1, FS_EmptySet
  <1> QED BY <1>1, <1>2

-----------------------------------------------------------------------------
(* Votes.                                                                  *)

Type == {"Initial", "Echo", "Ready"}

Voted(q, type, v) ==
  CASE type = "Initial" -> Sender(v) = q /\ v \in Sent
    [] type = "Echo"    -> state[q][v] # "none"
    [] type = "Ready"   -> state[q][v] = "SentReady"

Tally(p, type, v) == IF type = "Echo" THEN echoes[p][v] ELSE readies[p][v]

Voters(type, v) == {q \in Process : Voted(q, type, v)}
Pending(p, type, v) == {q \in Peers(p) : Msg(type, v) \in Elements(stream[q][p])}

NobodyPanicked == \A p \in Process : life[p] # "panicked"

(* Nothing is sent twice, and only by those that have voted.               *)
SentOnce(p) ==
  \A q \in Peers(p) :
    /\ Distinct(stream[q][p])
    /\ \A type \in Type, v \in Value :
         Msg(type, v) \in Elements(stream[q][p]) => Voted(q, type, v)

AllCounted(p) ==
  \A type \in {"Echo", "Ready"}, v \in Value :
    Cardinality(Voters(type, v)) = Tally(p, type, v) + Cardinality(Pending(p, type, v))

Ballot ==
  NobodyPanicked => \A p \in Process : life[p] = "running" => SentOnce(p) /\ AllCounted(p)

LEMMA FiniteVotes ==
  ASSUME NEW p \in Process, NEW type, NEW v
  PROVE  /\ IsFiniteSet(Voters(type, v)) /\ Cardinality(Voters(type, v)) \in Nat
         /\ IsFiniteSet(Pending(p, type, v)) /\ Cardinality(Pending(p, type, v)) \in Nat
  <1>1. Voters(type, v) \in SUBSET Process /\ Pending(p, type, v) \in SUBSET Process
    BY DEF Voters, Pending, Peers
  <1> QED BY <1>1, Processes, FS_Subset, FS_CardinalityType

LEMMA Messages ==
  ASSUME NEW t1, NEW t2, NEW v1, NEW v2, Msg(t1, v1) = Msg(t2, v2)
  PROVE  t1 = t2 /\ v1 = v2
  BY DEF Msg

LEMMA CountsFromBallot == BInv /\ Ballot => CountsAreVoters
  <1> SUFFICES ASSUME BInv, Ballot, NobodyPanicked, NEW p \in Process, life[p] = "running",
                      NEW v \in Value
               PROVE  /\ Cardinality({q \in Process : state[q][v] # "none"}) = echoes[p][v] +
                           Cardinality({q \in Peers(p) : InFlight(q, p, Msg("Echo", v)) = 1})
                      /\ Cardinality({q \in Process : state[q][v] = "SentReady"}) = readies[p][v] +
                           Cardinality({q \in Peers(p) : InFlight(q, p, Msg("Ready", v)) = 1})
                      /\ \A q \in Peers(p), type \in {"Initial", "Echo", "Ready"} :
                           InFlight(q, p, Msg(type, v)) <= 1
    BY DEF CountsAreVoters, NobodyPanicked
  <1>1. SentOnce(p) /\ AllCounted(p) BY DEF Ballot
  <1>2. ASSUME NEW q \in Peers(p), NEW m
        PROVE  InFlight(q, p, m) = IF m \in Elements(stream[q][p]) THEN 1 ELSE 0
    <2>1. stream[q][p] \in Seq(SentMessage) BY DEF BInv, Streams, Peers
    <2>2. Distinct(stream[q][p]) BY <1>1 DEF SentOnce
    <2> QED BY <2>1, <2>2, Counted DEF InFlight
  <1>3. ASSUME NEW type \in {"Echo", "Ready"}
        PROVE  {q \in Peers(p) : InFlight(q, p, Msg(type, v)) = 1} = Pending(p, type, v)
    BY <1>2 DEF Pending
  <1>4. {q \in Process : state[q][v] # "none"} = Voters("Echo", v)
        /\ {q \in Process : state[q][v] = "SentReady"} = Voters("Ready", v)
    BY DEF Voters, Voted
  <1>5. Tally(p, "Echo", v) = echoes[p][v] /\ Tally(p, "Ready", v) = readies[p][v]
    BY DEF Tally
  <1>6. /\ Cardinality(Voters("Echo", v)) = echoes[p][v] + Cardinality(Pending(p, "Echo", v))
        /\ Cardinality(Voters("Ready", v)) = readies[p][v] + Cardinality(Pending(p, "Ready", v))
    BY <1>1, <1>5 DEF AllCounted
  <1>7. \A q \in Peers(p), type \in {"Initial", "Echo", "Ready"} :
          InFlight(q, p, Msg(type, v)) <= 1
    BY <1>2
  <1>8. /\ {q \in Peers(p) : InFlight(q, p, Msg("Echo", v)) = 1} = Pending(p, "Echo", v)
        /\ {q \in Peers(p) : InFlight(q, p, Msg("Ready", v)) = 1} = Pending(p, "Ready", v)
    BY <1>3
  <1> QED BY <1>4, <1>6, <1>7, <1>8

-----------------------------------------------------------------------------
(* Where the run starts: the values that are settled, and the one that is  *)
(* left when there are processes behind.                                   *)

LEMMA OneLeft ==
  ASSUME Behind # {}, NEW v \in Value, NEW w \in Value, ~IsSettled(v), ~IsSettled(w)
  PROVE  v = w
  <1> USE BrachaAssumption
  <1>1. PICK p \in Live : /\ Settled[p] = Msgs - 1
                          /\ \A q \in Peers(p) : Settled[q] = Msgs
    BY BehindAssumption
  <1>2. ASSUME NEW u \in Value, ~IsSettled(u) PROVE u = ValueOf(p, Msgs)
    <2>1. Sender(u) \in Process /\ Rank(u) \in 1 .. Msgs /\ u = ValueOf(Sender(u), Rank(u))
      BY Values
    <2>2. Sender(u) = p BY <1>1, <1>2, <2>1 DEF IsSettled, Peers
    <2>3. Rank(u) = Msgs BY <1>1, <1>2, <2>1, <2>2 DEF IsSettled
    <2> QED BY <2>1, <2>2, <2>3
  <1> QED BY <1>2

LEMMA InitStreams ==
  ASSUME Init, NEW p \in Process, NEW q \in Peers(p)
  PROVE  /\ Distinct(stream[q][p])
         /\ \A type \in Type, v \in Value :
              Msg(type, v) \in Elements(stream[q][p]) <=>
                \/ /\ type = "Initial" /\ q \in Live /\ v = ValueOf(q, Settled[q] + 1)
                   /\ Behind = {} \/ (q \in Ahead /\ p \in Behind)
                \/ /\ type \in {"Echo", "Ready"} /\ ~IsSettled(v)
                   /\ Behind # {} /\ q \in Ahead /\ p \in Behind
  <1> DEFINE w == CHOOSE u \in Value : ~IsSettled(u)
             live == IF q \in Live THEN <<Msg("Initial", ValueOf(q, Settled[q] + 1))>> ELSE <<>>
             votes == IF Behind = {} THEN <<>> ELSE <<Msg("Echo", w), Msg("Ready", w)>>
  <1>1. q \in Process /\ q # p BY DEF Peers
  <1>2. stream[q][p] = IF q = p \/ (Behind # {} /\ (q \in Behind \/ p \in Ahead))
                       THEN <<>> ELSE live \o votes
    BY <1>1 DEF Init, Unseen
  <1>3. Behind # {} => w \in Value /\ ~IsSettled(w)
    BY InitSent
  <1>4. Behind # {} => \A v \in Value : ~IsSettled(v) <=> v = w
    BY <1>3, OneLeft
  <1>5. /\ Distinct(live)
        /\ \A m : m \in Elements(live) <=>
             q \in Live /\ m = Msg("Initial", ValueOf(q, Settled[q] + 1))
    BY DEF Distinct, Elements
  <1>6. /\ Distinct(votes)
        /\ \A m : m \in Elements(votes) <=>
             Behind # {} /\ (m = Msg("Echo", w) \/ m = Msg("Ready", w))
    <2> HIDE DEF w
    <2>1. Msg("Echo", w) # Msg("Ready", w) BY Messages
    <2>2. CASE Behind = {} BY <2>2 DEF Distinct, Elements
    <2>3. CASE Behind # {}
      <3>1. votes = <<Msg("Echo", w), Msg("Ready", w)>> BY <2>3
      <3>2. Len(votes) = 2 /\ votes[1] = Msg("Echo", w) /\ votes[2] = Msg("Ready", w)
        BY <3>1
      <3> HIDE DEF votes
      <3>3. Distinct(votes) BY <3>2, <2>1 DEF Distinct
      <3>4. Elements(votes) = {Msg("Echo", w), Msg("Ready", w)} BY <3>2 DEF Elements
      <3> QED BY <2>3, <3>3, <3>4
    <2> QED BY <2>2, <2>3
  <1>7. Elements(live) \cap Elements(votes) = {}
    <2> HIDE DEF w, live, votes
    <2> QED BY <1>5, <1>6, Messages
  <1>8. \E A : live \in Seq(A) /\ votes \in Seq(A)
    <2> DEFINE A == {Msg("Initial", ValueOf(q, Settled[q] + 1)), Msg("Echo", w), Msg("Ready", w)}
    <2>1. /\ Msg("Initial", ValueOf(q, Settled[q] + 1)) \in A
          /\ Msg("Echo", w) \in A /\ Msg("Ready", w) \in A
      OBVIOUS
    <2> HIDE DEF A, w
    <2>2. live \in Seq(A) BY <2>1
    <2>3. votes \in Seq(A) BY <2>1
    <2> HIDE DEF live, votes
    <2> QED BY <2>2, <2>3
  <1>9. /\ Distinct(live \o votes)
        /\ Elements(live \o votes) = Elements(live) \cup Elements(votes)
    <2> HIDE DEF live, votes
    <2> QED BY <1>5, <1>6, <1>7, <1>8, Joined
  <1>10. Distinct(<<>>) /\ Elements(<<>>) = {} BY DEF Distinct, Elements
  <1>11. Distinct(stream[q][p])
    <2> HIDE DEF live, votes
    <2> QED BY <1>2, <1>9, <1>10
  <1>12. ASSUME NEW type \in Type, NEW v \in Value
         PROVE  Msg(type, v) \in Elements(live \o votes) <=>
                  \/ type = "Initial" /\ q \in Live /\ v = ValueOf(q, Settled[q] + 1)
                  \/ type \in {"Echo", "Ready"} /\ Behind # {} /\ ~IsSettled(v)
    <2> HIDE DEF w, live, votes
    <2>1. Msg(type, v) \in Elements(live) <=>
            type = "Initial" /\ q \in Live /\ v = ValueOf(q, Settled[q] + 1)
      BY <1>5, Messages
    <2>2. Msg(type, v) \in Elements(votes) <=>
            type \in {"Echo", "Ready"} /\ Behind # {} /\ v = w
      BY <1>6, Messages
    <2> QED BY <2>1, <2>2, <1>4, <1>9
  <1>13. ASSUME Behind # {}, NEW r \in Process
         PROVE  r \in Ahead <=> r \notin Behind
    BY DEF Ahead
  <1> HIDE DEF live, votes
  <1>14. Behind # {} /\ (q \in Behind \/ p \in Ahead) => Elements(stream[q][p]) = {}
    BY <1>2, <1>10
  <1>15. ~(Behind # {} /\ (q \in Behind \/ p \in Ahead)) => stream[q][p] = live \o votes
    BY <1>1, <1>2
  <1>16. ASSUME NEW type \in Type, NEW v \in Value
         PROVE  Msg(type, v) \in Elements(stream[q][p]) <=>
                \/ /\ type = "Initial" /\ q \in Live /\ v = ValueOf(q, Settled[q] + 1)
                   /\ Behind = {} \/ (q \in Ahead /\ p \in Behind)
                \/ /\ type \in {"Echo", "Ready"} /\ ~IsSettled(v)
                   /\ Behind # {} /\ q \in Ahead /\ p \in Behind
    <2>1. CASE Behind = {} BY <2>1, <1>12, <1>15
    <2>2. CASE Behind # {} /\ (q \in Behind \/ p \in Ahead)
      BY <2>2, <1>1, <1>13, <1>14
    <2>3. CASE Behind # {} /\ q \notin Behind /\ p \notin Ahead
      BY <2>3, <1>1, <1>12, <1>13, <1>15
    <2> QED BY <2>1, <2>2, <2>3
  <1> QED BY <1>11, <1>16

LEMMA InitBallot == Init => Ballot
  <1> SUFFICES ASSUME Init, NEW p \in Process PROVE SentOnce(p) /\ AllCounted(p)
    BY DEF Ballot
  <1>1. BInv BY InitInv
  <1>2. \A q \in Process, v \in Value :
          /\ state[q][v] = IF HasDone(q, v) THEN "SentReady" ELSE "none"
          /\ echoes[q][v] = Known(q, v) /\ readies[q][v] = Known(q, v)
    BY DEF Init
  <1>3. SentOnce(p)
    <2> SUFFICES ASSUME NEW q \in Peers(p), NEW type \in Type, NEW v \in Value,
                        Msg(type, v) \in Elements(stream[q][p])
                 PROVE  Voted(q, type, v)
      BY InitStreams DEF SentOnce
    <2>1. q \in Process BY DEF Peers
    <2>2. CASE type = "Initial"
      <3>1. q \in Live /\ v = ValueOf(q, Settled[q] + 1) BY <2>2, InitStreams
      <3>2. Settled[q] + 1 \in 1 .. Msgs BY <3>1, BrachaAssumption DEF Live
      <3>3. Sender(v) = q /\ v \in Sent BY <2>1, <3>1, <3>2, Values, InitSent
      <3> QED BY <2>2, <3>3 DEF Voted
    <2>3. CASE type \in {"Echo", "Ready"}
      <3>1. Behind # {} /\ q \in Ahead BY <2>3, InitStreams
      <3>2. state[q][v] = "SentReady" BY <1>2, <2>1, <3>1 DEF HasDone
      <3> QED BY <2>3, <3>2 DEF Voted
    <2> QED BY <2>2, <2>3 DEF Type
  <1>4. ASSUME NEW type \in {"Echo", "Ready"}, NEW v \in Value
        PROVE  Cardinality(Voters(type, v)) = Tally(p, type, v) + Cardinality(Pending(p, type, v))
    <2>1. Voters(type, v) = {q \in Process : HasDone(q, v)}
      BY <1>2 DEF Voters, Voted
    <2>2. Tally(p, type, v) = Known(p, v) BY <1>2 DEF Tally
    <2>3. Pending(p, type, v) =
            {q \in Peers(p) : ~IsSettled(v) /\ Behind # {} /\ q \in Ahead /\ p \in Behind}
      BY InitStreams DEF Pending, Type
    <2>4. CASE IsSettled(v)
      <3>1. Voters(type, v) = Process BY <2>1, <2>4 DEF HasDone
      <3>2. Pending(p, type, v) = {} BY <2>3, <2>4
      <3> QED BY <2>2, <2>4, <3>1, <3>2, Processes, FS_EmptySet DEF Known
    <2>5. CASE ~IsSettled(v) /\ Behind = {}
      <3>1. Voters(type, v) = {} BY <2>1, <2>5 DEF HasDone
      <3>2. Pending(p, type, v) = {} BY <2>3, <2>5
      <3> QED BY <2>2, <2>5, <3>1, <3>2, FS_EmptySet DEF Known, HasDone
    <2>6. CASE ~IsSettled(v) /\ Behind # {}
      <3>1. Voters(type, v) = Ahead BY <2>1, <2>6 DEF HasDone, Ahead
      <3>2. CASE p \in Ahead
        <4>1. Pending(p, type, v) = {} BY <2>3, <3>2 DEF Ahead
        <4> QED BY <2>2, <2>6, <3>1, <3>2, <4>1, Processes, FS_EmptySet DEF Known, HasDone
      <3>3. CASE p \notin Ahead
        <4>1. p \in Behind BY <3>3 DEF Ahead
        <4>2. Pending(p, type, v) = Ahead BY <2>3, <2>6, <3>3, <4>1 DEF Ahead, Peers
        <4> QED BY <2>2, <2>6, <3>1, <3>3, <4>2, Processes DEF Known, HasDone
      <3> QED BY <3>2, <3>3
    <2> QED BY <2>4, <2>5, <2>6
  <1> QED BY <1>3, <1>4 DEF AllCounted

-----------------------------------------------------------------------------
(* A step of a process p: it hears a message of q, or none...              *)
Hears(p, q, heard, s) ==
  /\ s \in [Process -> [Process -> Seq(Message)]]
  /\ \A a \in Peers(p) :
       /\ Distinct(s[a][p])
       /\ Elements(s[a][p]) = Elements(stream[a][p]) \ (IF a = q THEN heard ELSE {})
  /\ heard # {} => q \in Peers(p) /\ heard \subseteq Elements(stream[q][p])
  /\ \A a, b \in Process : b # p => s[a][b] = stream[a][b]

(* ...and votes with the messages of out, not having done so before.       *)
Casts(p, out) ==
  /\ out \in Seq(Message) /\ Distinct(out)
  /\ \A type \in Type, v \in Value :
       /\ Voted(p, type, v)' <=> Voted(p, type, v) \/ Msg(type, v) \in Elements(out)
       /\ Msg(type, v) \in Elements(out) => ~Voted(p, type, v)
       /\ \A a \in Peers(p) : Voted(a, type, v)' <=> Voted(a, type, v)

Counts(p, heard, out) ==
  \A type \in {"Echo", "Ready"}, v \in Value :
    /\ Tally(p, type, v)' = Tally(p, type, v) + One(Msg(type, v) \in heard)
                              + One(Msg(type, v) \in Elements(out))
    /\ \A a \in Peers(p) : Tally(a, type, v)' = Tally(a, type, v)

LEMMA Voting ==
  ASSUME BInv, Ballot, NobodyPanicked, NEW p \in Process, life[p] = "running",
         NEW q, NEW heard, NEW s, Hears(p, q, heard, s),
         NEW out, Casts(p, out), Counts(p, heard, out), Broadcast(p, out, s)
  PROVE  Ballot'
  <1> USE DEF Hears, Casts, Counts
  <1>1. CASE life' = [life EXCEPT ![p] = "panicked"]
    <2>1. life'[p] = "panicked" BY <1>1 DEF BInv, Streams
    <2> QED BY <2>1 DEF Ballot, NobodyPanicked
  <1>2. CASE stream' = Written(p, out, Peers(p), s) /\ UNCHANGED life
    <2>1. ASSUME NEW a \in Process, NEW b \in Process
          PROVE  stream'[a][b] = IF a = p /\ b # p /\ life[b] = "running"
                                 THEN s[a][b] \o out ELSE s[a][b]
      BY <1>2 DEF Written, Peers
    <2>2. ASSUME NEW type, NEW v
          PROVE  Voters(type, v)' = {a \in Process : Voted(a, type, v)'}
      BY DEF Voters
    \* the voter itself
    <2>4. SentOnce(p)' /\ AllCounted(p)'
      <3>1. SentOnce(p) /\ AllCounted(p) BY DEF Ballot
      <3>2. ASSUME NEW a \in Peers(p) PROVE stream'[a][p] = s[a][p]
        BY <2>1 DEF Peers
      <3>3. SentOnce(p)'
        <4> SUFFICES ASSUME NEW a \in Peers(p)
                     PROVE  /\ Distinct(stream'[a][p])
                            /\ \A type \in Type, v \in Value :
                                 Msg(type, v) \in Elements(stream'[a][p]) => Voted(a, type, v)'
          BY DEF SentOnce
        <4>1. Elements(s[a][p]) \subseteq Elements(stream[a][p]) OBVIOUS
        <4> QED BY <3>1, <3>2, <4>1 DEF SentOnce
      <3>4. ASSUME NEW type \in {"Echo", "Ready"}, NEW v \in Value
            PROVE  Cardinality(Voters(type, v)') = Tally(p, type, v)' + Cardinality(Pending(p, type, v)')
        <4> DEFINE m == Msg(type, v)
        <4>1. type \in Type BY DEF Type
        <4>2. Pending(p, type, v)' =
                IF m \in heard THEN Pending(p, type, v) \ {q} ELSE Pending(p, type, v)
          <5>1. \A a \in Peers(p) : m \in Elements(stream'[a][p]) <=>
                  m \in Elements(stream[a][p]) /\ ~(a = q /\ m \in heard)
            BY <3>2
          <5>2. Pending(p, type, v)' = {a \in Peers(p) : m \in Elements(stream'[a][p])}
            BY DEF Pending
          <5> HIDE DEF m
          <5> QED BY <5>1, <5>2 DEF Pending, m
        <4>3. m \in heard => q \in Pending(p, type, v) BY DEF Pending
        <4>4. Cardinality(Pending(p, type, v)') = Cardinality(Pending(p, type, v)) - One(m \in heard)
          <5>1. IsFiniteSet(Pending(p, type, v)) /\ Cardinality(Pending(p, type, v)) \in Nat
            BY FiniteVotes
          <5>2. Cardinality(Pending(p, type, v) \ {q}) = IF q \in Pending(p, type, v)
                  THEN Cardinality(Pending(p, type, v)) - 1 ELSE Cardinality(Pending(p, type, v))
            BY <5>1, FS_RemoveElement
          <5> HIDE DEF m
          <5> QED BY <4>2, <4>3, <5>1, <5>2 DEF One
        <4>5. Voters(type, v)' =
                IF m \in Elements(out) THEN Voters(type, v) \cup {p} ELSE Voters(type, v)
          <5>1. \A a \in Process : Voted(a, type, v)' <=>
                  Voted(a, type, v) \/ (a = p /\ m \in Elements(out))
            BY <4>1 DEF Peers
          <5> HIDE DEF m
          <5> QED BY <5>1, <2>2 DEF Voters
        <4>6. m \in Elements(out) => p \notin Voters(type, v) BY <4>1 DEF Voters
        <4>7. Cardinality(Voters(type, v)') = Cardinality(Voters(type, v)) + One(m \in Elements(out))
          <5>1. IsFiniteSet(Voters(type, v)) /\ Cardinality(Voters(type, v)) \in Nat
            BY FiniteVotes
          <5>2. Cardinality(Voters(type, v) \cup {p}) = IF p \in Voters(type, v)
                  THEN Cardinality(Voters(type, v)) ELSE Cardinality(Voters(type, v)) + 1
            BY <5>1, FS_AddElement
          <5> HIDE DEF m
          <5> QED BY <4>5, <4>6, <5>1, <5>2 DEF One
        <4>8. Cardinality(Voters(type, v)) = Tally(p, type, v) + Cardinality(Pending(p, type, v))
          BY <3>1 DEF AllCounted
        <4>9. /\ Tally(p, type, v)' = Tally(p, type, v) + One(m \in heard) + One(m \in Elements(out))
              /\ Tally(p, type, v) \in Nat
              /\ One(m \in heard) \in Nat /\ One(m \in Elements(out)) \in Nat
              /\ Cardinality(Pending(p, type, v)) \in Nat
          BY FiniteVotes DEF BInv, Numbers, Tally, One
        <4> HIDE DEF m
        <4> QED BY <4>4, <4>7, <4>8, <4>9
      <3> QED BY <3>3, <3>4 DEF AllCounted
    \* those that it sends its votes to
    <2>5. ASSUME NEW b \in Peers(p), life[b] = "running"
          PROVE  SentOnce(b)' /\ AllCounted(b)'
      <3>0. b \in Process /\ b # p /\ p \in Peers(b) BY DEF Peers
      <3>1. SentOnce(b) /\ AllCounted(b) BY <2>5, <3>0 DEF Ballot
      <3>2. ASSUME NEW a \in Peers(b)
            PROVE  stream'[a][b] = IF a = p THEN stream[a][b] \o out ELSE stream[a][b]
        BY <2>1, <2>5, <3>0 DEF Peers
      <3>3. stream[p][b] \in Seq(Message) BY <3>0
      <3>4. \A m \in Message : m = Msg(m.type, m.v) /\ m.type \in Type /\ m.v \in Value
        BY DEF Message, Msg, Type
      <3>5. Elements(out) \subseteq Message BY DEF Elements
      <3>6. Elements(stream[p][b]) \cap Elements(out) = {}
        BY <3>0, <3>1, <3>4, <3>5 DEF SentOnce
      <3>7. /\ Distinct(stream[p][b] \o out)
            /\ Elements(stream[p][b] \o out) = Elements(stream[p][b]) \cup Elements(out)
        BY <3>0, <3>1, <3>3, <3>6, Joined DEF SentOnce
      <3>8. SentOnce(b)'
        <4> SUFFICES ASSUME NEW a \in Peers(b)
                     PROVE  /\ Distinct(stream'[a][b])
                            /\ \A type \in Type, v \in Value :
                                 Msg(type, v) \in Elements(stream'[a][b]) => Voted(a, type, v)'
          BY DEF SentOnce
        <4>1. CASE a = p BY <4>1, <3>0, <3>1, <3>2, <3>7 DEF SentOnce
        <4>2. CASE a # p
          <5>1. a \in Peers(p) /\ stream'[a][b] = stream[a][b] BY <4>2, <3>2 DEF Peers
          <5> QED BY <5>1, <3>1 DEF SentOnce
        <4> QED BY <4>1, <4>2
      <3>9. ASSUME NEW type \in {"Echo", "Ready"}, NEW v \in Value
            PROVE  Cardinality(Voters(type, v)') = Tally(b, type, v)' + Cardinality(Pending(b, type, v)')
        <4> DEFINE m == Msg(type, v)
        <4>1. type \in Type BY DEF Type
        <4>2. Pending(b, type, v)' =
                IF m \in Elements(out) THEN Pending(b, type, v) \cup {p} ELSE Pending(b, type, v)
          <5>1. \A a \in Peers(b) : m \in Elements(stream'[a][b]) <=>
                  m \in Elements(stream[a][b]) \/ (a = p /\ m \in Elements(out))
            BY <3>2, <3>7
          <5>2. Pending(b, type, v)' = {a \in Peers(b) : m \in Elements(stream'[a][b])}
            BY DEF Pending
          <5> HIDE DEF m
          <5> QED BY <5>1, <5>2, <3>0 DEF Pending, m
        <4>3. m \in Elements(out) => p \notin Pending(b, type, v)
          BY <3>6 DEF Pending
        <4>4. Cardinality(Pending(b, type, v)') =
                Cardinality(Pending(b, type, v)) + One(m \in Elements(out))
          <5>1. IsFiniteSet(Pending(b, type, v)) /\ Cardinality(Pending(b, type, v)) \in Nat
            BY <3>0, FiniteVotes
          <5>2. Cardinality(Pending(b, type, v) \cup {p}) = IF p \in Pending(b, type, v)
                  THEN Cardinality(Pending(b, type, v)) ELSE Cardinality(Pending(b, type, v)) + 1
            BY <5>1, FS_AddElement
          <5> HIDE DEF m
          <5> QED BY <4>2, <4>3, <5>1, <5>2 DEF One
        <4>5. Voters(type, v)' =
                IF m \in Elements(out) THEN Voters(type, v) \cup {p} ELSE Voters(type, v)
          <5>1. \A a \in Process : Voted(a, type, v)' <=>
                  Voted(a, type, v) \/ (a = p /\ m \in Elements(out))
            BY <4>1 DEF Peers
          <5> HIDE DEF m
          <5> QED BY <5>1, <2>2 DEF Voters
        <4>6. m \in Elements(out) => p \notin Voters(type, v) BY <4>1 DEF Voters
        <4>7. Cardinality(Voters(type, v)') = Cardinality(Voters(type, v)) + One(m \in Elements(out))
          <5>1. IsFiniteSet(Voters(type, v)) /\ Cardinality(Voters(type, v)) \in Nat
            BY FiniteVotes
          <5>2. Cardinality(Voters(type, v) \cup {p}) = IF p \in Voters(type, v)
                  THEN Cardinality(Voters(type, v)) ELSE Cardinality(Voters(type, v)) + 1
            BY <5>1, FS_AddElement
          <5> HIDE DEF m
          <5> QED BY <4>5, <4>6, <5>1, <5>2 DEF One
        <4>8. Cardinality(Voters(type, v)) = Tally(b, type, v) + Cardinality(Pending(b, type, v))
          BY <3>1 DEF AllCounted
        <4>9. /\ Tally(b, type, v)' = Tally(b, type, v)
              /\ Tally(b, type, v) \in Nat /\ One(m \in Elements(out)) \in Nat
              /\ Cardinality(Pending(b, type, v)) \in Nat
          BY <3>0, FiniteVotes DEF BInv, Numbers, Tally, One
        <4> HIDE DEF m
        <4> QED BY <4>4, <4>7, <4>8, <4>9
      <3> QED BY <3>8, <3>9 DEF AllCounted
    <2> QED BY <1>2, <2>4, <2>5 DEF Ballot, Peers
  <1> QED BY <1>1, <1>2 DEF Broadcast

(* The messages of a handler, of which there may be three at most.         *)
Votes(echo, ready, another, v, w) ==
  Send(echo, "Echo", v) \o Send(ready, "Ready", v) \o Send(another, "Initial", w)

(* A sequence that has m or nothing.                                       *)
Maybe(m) == {<<>>, <<m>>}

LEMMA Outbox ==
  ASSUME NEW v \in Value, NEW w \in Value, NEW one \in Maybe(Msg("Echo", v)),
         NEW other \in Maybe(Msg("Ready", v)), NEW third \in Maybe(Msg("Initial", w))
  PROVE  /\ one \o other \o third \in Seq(Message) /\ Distinct(one \o other \o third)
         /\ Elements(one \o other \o third) = Elements(one) \cup Elements(other) \cup Elements(third)
         /\ third = <<>> => one \o other \o third = one \o other
         /\ other = <<>> /\ third = <<>> => one \o other \o third = one
  <1> DEFINE m1 == Msg("Echo", v)
             m2 == Msg("Ready", v)
             m3 == Msg("Initial", w)
  <1>1. m1 \in Message /\ m2 \in Message /\ m3 \in Message
    BY DEF Msg, Message
  <1>2. m1 # m2 /\ m1 # m3 /\ m2 # m3 BY Messages
  <1> HIDE DEF m1, m2, m3
  <1>3. /\ one \in Seq(Message) /\ Distinct(one) /\ Elements(one) \subseteq {m1}
        /\ other \in Seq(Message) /\ Distinct(other) /\ Elements(other) \subseteq {m2}
        /\ third \in Seq(Message) /\ Distinct(third) /\ Elements(third) \subseteq {m3}
    <2>1. one \in {<<>>, <<m1>>} /\ other \in {<<>>, <<m2>>} /\ third \in {<<>>, <<m3>>}
      BY DEF m1, m2, m3, Maybe
    <2>2. ASSUME NEW m \in Message, NEW s \in {<<>>, <<m>>}
          PROVE  s \in Seq(Message) /\ Distinct(s) /\ Elements(s) \subseteq {m}
      <3>1. CASE s = <<>>
        <4>1. s \in Seq(Message) /\ Len(s) = 0 BY <3>1
        <4> QED BY <4>1 DEF Distinct, Elements
      <3>2. CASE s = <<m>>
        <4>1. s \in Seq(Message) /\ Len(s) = 1 /\ s[1] = m BY <3>2
        <4> QED BY <4>1 DEF Distinct, Elements
      <3> QED BY <3>1, <3>2
    <2>3. /\ one \in Seq(Message) /\ Distinct(one) /\ Elements(one) \subseteq {m1}
      BY <1>1, <2>1, <2>2
    <2>4. /\ other \in Seq(Message) /\ Distinct(other) /\ Elements(other) \subseteq {m2}
      BY <1>1, <2>1, <2>2
    <2>5. /\ third \in Seq(Message) /\ Distinct(third) /\ Elements(third) \subseteq {m3}
      BY <1>1, <2>1, <2>2
    <2> QED BY <2>3, <2>4, <2>5
  <1>4. /\ one \o other \in Seq(Message) /\ Distinct(one \o other)
        /\ Elements(one \o other) = Elements(one) \cup Elements(other)
    <2>1. Elements(one) \cap Elements(other) = {} BY <1>2, <1>3
    <2> QED BY <2>1, <1>3, Joined, ConcatProperties
  <1>5. /\ (one \o other) \o third \in Seq(Message) /\ Distinct((one \o other) \o third)
        /\ Elements((one \o other) \o third) = Elements(one) \cup Elements(other) \cup Elements(third)
    <2> DEFINE both == one \o other
    <2>1. both \in Seq(Message) /\ Distinct(both) /\ Elements(both) \cap Elements(third) = {}
      BY <1>2, <1>3, <1>4
    <2>2. Elements(both) = Elements(one) \cup Elements(other) BY <1>4
    <2> HIDE DEF both
    <2>3. /\ both \o third \in Seq(Message) /\ Distinct(both \o third)
          /\ Elements(both \o third) = Elements(both) \cup Elements(third)
      BY <2>1, <1>3, Joined, ConcatProperties
    <2> QED BY <2>2, <2>3 DEF both
  <1>6. /\ third = <<>> => (one \o other) \o third = one \o other
        /\ other = <<>> /\ third = <<>> => (one \o other) \o third = one
    BY <1>3, <1>4, ConcatEmptySeq
  <1> QED BY <1>5, <1>6

(* The message that p takes from the stream of q.                          *)
LEMMA Hearing ==
  ASSUME BInv, Ballot, NobodyPanicked, NEW p \in Process, life[p] = "running",
         NEW q \in Peers(p), NEW type, Receive(p, q, type),
         NEW v, v = Head(stream[q][p]).v
  PROVE  Hears(p, q, {Msg(type, v)}, Unread(p, q)) /\ v \in Value
  <1>1. q \in Process BY DEF Peers
  <1>2. stream \in [Process -> [Process -> Seq(Message)]]
    BY TypeFromInv DEF TypeOK
  <1>3. SentOnce(p) BY DEF Ballot
  <1>4. stream[q][p] # <<>> /\ Head(stream[q][p]).type = type BY DEF Receive
  <1>5. /\ Head(stream[q][p]) \in Message /\ Tail(stream[q][p]) \in Seq(Message)
    BY <1>1, <1>2, <1>4, HeadTailProperties
  <1>6. Head(stream[q][p]) = Msg(type, v) /\ v \in Value
    BY <1>4, <1>5 DEF Message, Msg
  <1>7. /\ Distinct(Tail(stream[q][p]))
        /\ Elements(Tail(stream[q][p])) = Elements(stream[q][p]) \ {Head(stream[q][p])}
        /\ Head(stream[q][p]) \in Elements(stream[q][p])
    BY <1>1, <1>2, <1>3, <1>4, Shortened DEF SentOnce
  <1>8. ASSUME NEW a \in Process, NEW b \in Process
        PROVE  Unread(p, q)[a][b] = IF a = q /\ b = p THEN Tail(stream[q][p]) ELSE stream[a][b]
    BY <1>1, <1>2 DEF Unread
  <1>9. Unread(p, q) \in [Process -> [Process -> Seq(Message)]]
    BY <1>1, <1>2, <1>5 DEF Unread
  <1>10. ASSUME NEW a \in Peers(p)
         PROVE  /\ Distinct(Unread(p, q)[a][p])
                /\ Elements(Unread(p, q)[a][p]) = Elements(stream[a][p]) \
                     (IF a = q THEN {Msg(type, v)} ELSE {})
    <2>1. a \in Process BY DEF Peers
    <2>2. CASE a = q BY <2>1, <2>2, <1>6, <1>7, <1>8
    <2>3. CASE a # q BY <2>1, <2>3, <1>3, <1>8 DEF SentOnce
    <2> QED BY <2>2, <2>3
  <1> QED BY <1>6, <1>7, <1>8, <1>9, <1>10 DEF Hears

(* A handler: p takes a message of q about v, and may echo v, be ready for *)
(* it and send its next value.                                             *)
Recorded(p, type, echo, ready, v) ==
  /\ echo => state[p][v] = "none"
  /\ ready => state[p][v] # "SentReady"
  /\ \A u \in Value :
       /\ state'[p][u] # "none" <=> state[p][u] # "none" \/ (u = v /\ echo)
       /\ state'[p][u] = "SentReady" <=> state[p][u] = "SentReady" \/ (u = v /\ ready)
       /\ echoes'[p][u] = echoes[p][u] + One(type = "Echo" /\ u = v) + One(u = v /\ echo)
       /\ readies'[p][u] = readies[p][u] + One(type = "Ready" /\ u = v) + One(u = v /\ ready)
  /\ \A a \in Peers(p) :
       state'[a] = state[a] /\ echoes'[a] = echoes[a] /\ readies'[a] = readies[a]

Handled(p, q, type, echo, ready, another, w) ==
  LET v == Head(stream[q][p]).v IN
  /\ life[p] = "running" /\ Receive(p, q, type)
  /\ another => w \in Value /\ w \notin Sent /\ Sender(w) = p
  /\ Sent' = IF another THEN Sent \cup {w} ELSE Sent
  /\ Recorded(p, type, echo, ready, v)
  /\ Broadcast(p, Votes(echo, ready, another, v, w), Unread(p, q))
  /\ \A u \in delivered'[p] :
       \/ u \in delivered[p]
       \/ /\ type = "Ready" /\ u = v
          /\ state'[p][u] = "SentReady" /\ readies'[p][u] >= DeliverQuorum
  /\ \A a \in Peers(p) : delivered'[a] = delivered[a]

Handles(p, q) ==
  \E type \in Type, echo, ready, another \in BOOLEAN : \E w :
    Handled(p, q, type, echo, ready, another, w)

LEMMA HandlerVotes ==
  ASSUME BInv, Ballot, NobodyPanicked, NEW p \in Process, NEW q \in Peers(p),
         NEW type \in Type, NEW echo \in BOOLEAN, NEW ready \in BOOLEAN,
         NEW another \in BOOLEAN, NEW w, Handled(p, q, type, echo, ready, another, w)
  PROVE  Ballot'
  <1> DEFINE v == Head(stream[q][p]).v
  <1>0. /\ life[p] = "running" /\ Receive(p, q, type)
        /\ another => w \in Value /\ w \notin Sent /\ Sender(w) = p
        /\ Sent' = IF another THEN Sent \cup {w} ELSE Sent
        /\ Recorded(p, type, echo, ready, v)
        /\ Broadcast(p, Votes(echo, ready, another, v, w), Unread(p, q))
    BY DEF Handled
  <1> DEFINE out == Votes(echo, ready, another, v, w)
             s == Unread(p, q)
             heard == {Msg(type, v)}
  <1>1. Hears(p, q, heard, s) /\ v \in Value BY <1>0, Hearing
  <1>2. /\ out \in Seq(Message) /\ Distinct(out)
        /\ \A t, u : Msg(t, u) \in Elements(out) <=>
             \/ t = "Echo" /\ u = v /\ echo
             \/ t = "Ready" /\ u = v /\ ready
             \/ t = "Initial" /\ u = w /\ another
    <2> DEFINE one == Send(echo, "Echo", v)
               other == Send(ready, "Ready", v)
               third == Send(another, "Initial", w)
    <2>1. /\ one \in {<<>>, <<Msg("Echo", v)>>} /\ other \in {<<>>, <<Msg("Ready", v)>>}
          /\ \A m : m \in Elements(one) <=> m = Msg("Echo", v) /\ echo
          /\ \A m : m \in Elements(other) <=> m = Msg("Ready", v) /\ ready
          /\ \A m : m \in Elements(third) <=> m = Msg("Initial", w) /\ another
      BY DEF Send, Elements
    <2>2. \E x \in Value : third \in {<<>>, <<Msg("Initial", x)>>}
      <3>1. CASE another BY <1>0, <3>1 DEF Send
      <3>2. CASE ~another BY <3>2, <1>1 DEF Send
      <3> QED BY <3>1, <3>2
    <2>3. out = one \o other \o third BY DEF Votes
    <2> HIDE DEF one, other, third, out
    <2>4. /\ out \in Seq(Message) /\ Distinct(out)
          /\ Elements(out) = Elements(one) \cup Elements(other) \cup Elements(third)
      <3>1. PICK x \in Value : third \in {<<>>, <<Msg("Initial", x)>>} BY <2>2
      <3>2. /\ one \o other \o third \in Seq(Message) /\ Distinct(one \o other \o third)
            /\ Elements(one \o other \o third) = Elements(one) \cup Elements(other) \cup Elements(third)
        <4>1. v \in Value BY <1>1
        <4>2. one \in Maybe(Msg("Echo", v)) BY <2>1 DEF Maybe
        <4>3. other \in Maybe(Msg("Ready", v)) BY <2>1 DEF Maybe
        <4>4. third \in Maybe(Msg("Initial", x)) BY <3>1 DEF Maybe
        <4>6. one \o other \o third \in Seq(Message)
          BY <4>1, <4>2, <4>3, <4>4, Outbox
        <4>7. Elements(one \o other \o third) = Elements(one) \cup Elements(other) \cup Elements(third)
          BY <4>1, <4>2, <4>3, <4>4, Outbox
        <4>8. Distinct(one \o other \o third)
          BY <4>1, <4>2, <4>3, <4>4, Outbox
        <4> QED BY <4>6, <4>7, <4>8
      <3> QED BY <2>3, <3>2
    <2>5. \A t, u : Msg(t, u) \in Elements(out) <=>
            \/ t = "Echo" /\ u = v /\ echo
            \/ t = "Ready" /\ u = v /\ ready
            \/ t = "Initial" /\ u = w /\ another
      BY <2>1, <2>4, Messages
    <2> QED BY <2>4, <2>5
  <1>3. Broadcast(p, out, s) BY <1>0
  <1>4. \A t, u : Msg(t, u) \in heard <=> t = type /\ u = v BY Messages
  <1> HIDE DEF v, out, s, heard
  <1>5. ASSUME NEW t \in Type, NEW u \in Value
        PROVE  /\ Voted(p, t, u)' <=> Voted(p, t, u) \/ Msg(t, u) \in Elements(out)
               /\ Msg(t, u) \in Elements(out) => ~Voted(p, t, u)
               /\ \A a \in Peers(p) : Voted(a, t, u)' <=> Voted(a, t, u)
    <2>p. p \in Process /\ Peers(p) \subseteq Process /\ p \notin Peers(p) BY DEF Peers
    <2>1. CASE t = "Initial"
      <3>1. \A a : /\ Voted(a, t, u)' <=> Sender(u) = a /\ u \in Sent'
                   /\ Voted(a, t, u) <=> Sender(u) = a /\ u \in Sent
        BY <2>1 DEF Voted
      <3>2. u \in Sent' <=> u \in Sent \/ (another /\ u = w) BY <1>0
      <3>3. Msg(t, u) \in Elements(out) <=> u = w /\ another BY <1>2, <2>1
      <3> QED BY <1>0, <2>p, <3>1, <3>2, <3>3
    <2>2. CASE t = "Echo"
      <3>1. \A a : /\ Voted(a, t, u)' <=> state'[a][u] # "none"
                   /\ Voted(a, t, u) <=> state[a][u] # "none"
        BY <2>2 DEF Voted
      <3>2. Msg(t, u) \in Elements(out) <=> u = v /\ echo BY <1>2, <2>2
      <3> QED BY <1>0, <2>p, <3>1, <3>2 DEF Recorded
    <2>3. CASE t = "Ready"
      <3>1. \A a : /\ Voted(a, t, u)' <=> state'[a][u] = "SentReady"
                   /\ Voted(a, t, u) <=> state[a][u] = "SentReady"
        BY <2>3 DEF Voted
      <3>2. Msg(t, u) \in Elements(out) <=> u = v /\ ready BY <1>2, <2>3
      <3> QED BY <1>0, <2>p, <3>1, <3>2 DEF Recorded
    <2> QED BY <2>1, <2>2, <2>3 DEF Type
  <1>6. ASSUME NEW t \in {"Echo", "Ready"}, NEW u \in Value
        PROVE  /\ Tally(p, t, u)' = Tally(p, t, u) + One(Msg(t, u) \in heard)
                                     + One(Msg(t, u) \in Elements(out))
               /\ \A a \in Peers(p) : Tally(a, t, u)' = Tally(a, t, u)
    <2>1. CASE t = "Echo"
      <3>1. /\ Msg(t, u) \in Elements(out) <=> u = v /\ echo
            /\ Msg(t, u) \in heard <=> type = "Echo" /\ u = v
        BY <1>2, <1>4, <2>1
      <3>2. /\ One(Msg(t, u) \in Elements(out)) = One(u = v /\ echo)
            /\ One(Msg(t, u) \in heard) = One(type = "Echo" /\ u = v)
        BY <3>1 DEF One
      <3> QED BY <1>0, <2>1, <3>2 DEF Tally, Recorded
    <2>2. CASE t = "Ready"
      <3>1. /\ Msg(t, u) \in Elements(out) <=> u = v /\ ready
            /\ Msg(t, u) \in heard <=> type = "Ready" /\ u = v
        BY <1>2, <1>4, <2>2
      <3>2. /\ One(Msg(t, u) \in Elements(out)) = One(u = v /\ ready)
            /\ One(Msg(t, u) \in heard) = One(type = "Ready" /\ u = v)
        BY <3>1 DEF One
      <3> QED BY <1>0, <2>2, <3>2 DEF Tally, Recorded
    <2> QED BY <2>1, <2>2
  <1>7. Casts(p, out) BY <1>2, <1>5 DEF Casts
  <1>8. Counts(p, heard, out) BY <1>6 DEF Counts
  <1> QED BY <1>0, <1>1, <1>3, <1>7, <1>8, Voting

LEMMA InitialHandled ==
  ASSUME BInv, NEW p \in Process, NEW q \in Peers(p), ReceiveInitial(p, q)
  PROVE  Handles(p, q)
  <1> DEFINE v == Head(stream[q][p]).v
             echo == state[p][v] = "none"
             w == ValueOf(p, next[p])
  <1>1. /\ life[p] = "running" /\ Receive(p, q, "Initial")
        /\ state' = IF echo THEN [state EXCEPT ![p][v] = "SentEcho"] ELSE state
        /\ echoes' = [echoes EXCEPT ![p][v] = @ + One(echo)]
        /\ readies' = readies
        /\ Broadcast(p, Send(echo, "Echo", v), Unread(p, q))
        /\ Sent' = Sent /\ delivered' = delivered
    BY SentStays DEF ReceiveInitial, Receive, InMainLoop
  <1>2. v \in Value BY <1>1, ReadType DEF Receive, Peers
  <1>3. echo \in BOOLEAN OBVIOUS
  <1>4. Recorded(p, "Initial", echo, FALSE, v)
    <2> HIDE DEF v
    <2>1. ASSUME NEW u \in Value
          PROVE  /\ state'[p][u] # "none" <=> state[p][u] # "none" \/ (u = v /\ echo)
                 /\ state'[p][u] = "SentReady" <=> state[p][u] = "SentReady"
      BY <1>1, <1>2 DEF BInv, Numbers
    <2>2. echo => state[p][v] = "none" OBVIOUS
    <2> HIDE DEF echo
    <2>3. ASSUME NEW u \in Value
          PROVE  /\ echoes'[p][u] = echoes[p][u] + One("Initial" = "Echo" /\ u = v) + One(u = v /\ echo)
                 /\ readies'[p][u] = readies[p][u] + One("Initial" = "Ready" /\ u = v) + One(u = v /\ FALSE)
      <3>1. echoes[p][u] \in Nat /\ readies[p][u] \in Nat BY DEF BInv, Numbers
      <3>2. echoes'[p][u] = IF u = v THEN echoes[p][u] + One(echo) ELSE echoes[p][u]
        BY <1>1, <1>2 DEF BInv, Numbers
      <3> QED BY <1>1, <3>1, <3>2 DEF One
    <2>4. \A a \in Peers(p) :
            state'[a] = state[a] /\ echoes'[a] = echoes[a] /\ readies'[a] = readies[a]
      BY <1>1 DEF Peers, BInv, Numbers
    <2> QED BY <2>1, <2>2, <2>3, <2>4 DEF Recorded
  <1>5. Broadcast(p, Votes(echo, FALSE, FALSE, v, w), Unread(p, q))
    <2> HIDE DEF v, echo, w
    <2>1. /\ Send(FALSE, "Ready", v) = <<>> /\ Send(FALSE, "Initial", w) = <<>>
          /\ Send(echo, "Echo", v) \in {<<>>, <<Msg("Echo", v)>>}
      BY DEF Send
    <2>2. Votes(echo, FALSE, FALSE, v, w) = Send(echo, "Echo", v)
      BY <1>2, <2>1, Outbox DEF Votes, Maybe
    <2> QED BY <1>1, <2>2
    <1>6. Handled(p, q, "Initial", echo, FALSE, FALSE, w)
    BY <1>1, <1>4, <1>5 DEF Handled
  <1> HIDE DEF echo, w
  <1> QED BY <1>3, <1>6 DEF Handles, Type

LEMMA EchoHandled ==
  ASSUME BInv, NEW p \in Process, NEW q \in Peers(p), ReceiveEcho(p, q)
  PROVE  Handles(p, q)
  <1> DEFINE v == Head(stream[q][p]).v
             enough == echoes[p][v] + 1 >= EchoQuorum
             echo == enough /\ state[p][v] = "none"
             ready == enough /\ state[p][v] # "SentReady"
             w == ValueOf(p, next[p])
  <1>1. /\ life[p] = "running" /\ Receive(p, q, "Echo")
        /\ state' = IF ready THEN [state EXCEPT ![p][v] = "SentReady"] ELSE state
        /\ echoes' = [echoes EXCEPT ![p][v] = @ + 1 + One(echo)]
        /\ readies' = [readies EXCEPT ![p][v] = @ + One(ready)]
        /\ Broadcast(p, Send(echo, "Echo", v) \o Send(ready, "Ready", v), Unread(p, q))
        /\ Sent' = Sent /\ delivered' = delivered
    BY SentStays DEF ReceiveEcho, Receive, InMainLoop
  <1>2. v \in Value BY <1>1, ReadType DEF Receive, Peers
  <1>3. echo \in BOOLEAN /\ ready \in BOOLEAN OBVIOUS
  <1>4. Recorded(p, "Echo", echo, ready, v)
    <2> HIDE DEF v, enough
    <2>1. ASSUME NEW u \in Value
          PROVE  /\ state'[p][u] # "none" <=> state[p][u] # "none" \/ (u = v /\ echo)
                 /\ state'[p][u] = "SentReady" <=> state[p][u] = "SentReady" \/ (u = v /\ ready)
      BY <1>1, <1>2 DEF BInv, Numbers
    <2>2. (echo => state[p][v] = "none") /\ (ready => state[p][v] # "SentReady") OBVIOUS
    <2> HIDE DEF echo, ready
    <2>3. ASSUME NEW u \in Value
          PROVE  /\ echoes'[p][u] = echoes[p][u] + One("Echo" = "Echo" /\ u = v) + One(u = v /\ echo)
                 /\ readies'[p][u] = readies[p][u] + One("Echo" = "Ready" /\ u = v) + One(u = v /\ ready)
      <3>1. echoes[p][u] \in Nat /\ readies[p][u] \in Nat BY DEF BInv, Numbers
      <3>2. /\ echoes'[p][u] = IF u = v THEN echoes[p][u] + 1 + One(echo) ELSE echoes[p][u]
            /\ readies'[p][u] = IF u = v THEN readies[p][u] + One(ready) ELSE readies[p][u]
        BY <1>1, <1>2 DEF BInv, Numbers
      <3> QED BY <3>1, <3>2 DEF One
    <2>4. \A a \in Peers(p) :
            state'[a] = state[a] /\ echoes'[a] = echoes[a] /\ readies'[a] = readies[a]
      BY <1>1 DEF Peers, BInv, Numbers
    <2> QED BY <2>1, <2>2, <2>3, <2>4 DEF Recorded
  <1>5. Broadcast(p, Votes(echo, ready, FALSE, v, w), Unread(p, q))
    <2> HIDE DEF v, echo, ready, w
    <2>1. /\ Send(FALSE, "Initial", w) = <<>>
          /\ Send(echo, "Echo", v) \in {<<>>, <<Msg("Echo", v)>>}
          /\ Send(ready, "Ready", v) \in {<<>>, <<Msg("Ready", v)>>}
      BY DEF Send
    <2>2. Votes(echo, ready, FALSE, v, w) = Send(echo, "Echo", v) \o Send(ready, "Ready", v)
      BY <1>2, <2>1, Outbox DEF Votes, Maybe
    <2> QED BY <1>1, <2>2
    <1>6. Handled(p, q, "Echo", echo, ready, FALSE, w)
    BY <1>1, <1>4, <1>5 DEF Handled
  <1> HIDE DEF echo, ready, w
  <1> QED BY <1>3, <1>6 DEF Handles, Type

LEMMA ReadyHandled ==
  ASSUME BInv, NEW p \in Process, NEW q \in Peers(p), ReceiveReady(p, q)
  PROVE  Handles(p, q)
  <1> DEFINE v == Head(stream[q][p]).v
             enough == readies[p][v] + 1 >= ReadyQuorum
             echo == enough /\ state[p][v] = "none"
             ready == enough /\ state[p][v] # "SentReady"
             count == readies[p][v] + 1 + One(ready)
             another == count >= DeliverQuorum /\ IsCurrent(p, v) /\ HasMore(p)
             w == ValueOf(p, next[p])
  <1>1. /\ life[p] = "running" /\ Receive(p, q, "Ready")
        /\ state' = IF ready THEN [state EXCEPT ![p][v] = "SentReady"] ELSE state
        /\ echoes' = [echoes EXCEPT ![p][v] = @ + One(echo)]
        /\ readies' = [readies EXCEPT ![p][v] = count]
        /\ delivered' = [delivered EXCEPT ![p] =
             IF count >= DeliverQuorum THEN @ \cup {v} ELSE @]
        /\ next' = [next EXCEPT ![p] = @ + One(another)]
        /\ Broadcast(p, Votes(echo, ready, another, v, w), Unread(p, q))
    BY DEF ReceiveReady, Receive, InMainLoop, Votes
  <1>2. v \in Value BY <1>1, ReadType DEF Receive, Peers
  <1>3. /\ echo \in BOOLEAN /\ ready \in BOOLEAN
        /\ another \in BOOLEAN
    BY DEF IsCurrent, HasMore
  <1>4. Recorded(p, "Ready", echo, ready, v)
    <2> HIDE DEF v, enough, another
    <2>1. ASSUME NEW u \in Value
          PROVE  /\ state'[p][u] # "none" <=> state[p][u] # "none" \/ (u = v /\ echo)
                 /\ state'[p][u] = "SentReady" <=> state[p][u] = "SentReady" \/ (u = v /\ ready)
      BY <1>1, <1>2 DEF BInv, Numbers
    <2>2. (echo => state[p][v] = "none") /\ (ready => state[p][v] # "SentReady") OBVIOUS
    <2> HIDE DEF echo, ready
    <2>3. ASSUME NEW u \in Value
          PROVE  /\ echoes'[p][u] = echoes[p][u] + One("Ready" = "Echo" /\ u = v) + One(u = v /\ echo)
                 /\ readies'[p][u] = readies[p][u] + One("Ready" = "Ready" /\ u = v) + One(u = v /\ ready)
      <3>1. echoes[p][u] \in Nat /\ readies[p][u] \in Nat BY DEF BInv, Numbers
      <3>2. /\ echoes'[p][u] = IF u = v THEN echoes[p][u] + One(echo) ELSE echoes[p][u]
            /\ readies'[p][u] = IF u = v THEN readies[p][u] + 1 + One(ready) ELSE readies[p][u]
        BY <1>1, <1>2 DEF BInv, Numbers
      <3> QED BY <3>1, <3>2 DEF One
    <2>4. \A a \in Peers(p) :
            state'[a] = state[a] /\ echoes'[a] = echoes[a] /\ readies'[a] = readies[a]
      <3> HIDE DEF count
      <3> QED BY <1>1 DEF Peers, BInv, Numbers
    <2> QED BY <2>1, <2>2, <2>3, <2>4 DEF Recorded
  <1>5. /\ Sent' = IF another THEN Sent \cup {w} ELSE Sent
        /\ another => w \in Value /\ w \notin Sent /\ Sender(w) = p
    <2>1. CASE another
      <3>1. next[p] <= Msgs BY <2>1 DEF HasMore
      <3>2. next' = [next EXCEPT ![p] = @ + 1] BY <1>1, <2>1 DEF One
      <3> HIDE DEF another
      <3> QED BY <2>1, <3>1, <3>2, SentAdvances
    <2>2. CASE ~another
      <3> HIDE DEF another
      <3>1. next' = [next EXCEPT ![p] = @ + 0] BY <1>1, <2>2 DEF One
      <3>2. next' = next BY <3>1 DEF BInv, Numbers
      <3> QED BY <2>2, <3>2, SentStays
    <2> QED BY <2>1, <2>2
  <1>6. ASSUME NEW u \in delivered'[p]
        PROVE  \/ u \in delivered[p]
               \/ /\ "Ready" = "Ready" /\ u = v
                  /\ state'[p][u] = "SentReady" /\ readies'[p][u] >= DeliverQuorum
    <2>1. count >= DeliverQuorum => state'[p][v] = "SentReady"
      <3>1. readies[p][v] \in Nat BY <1>2 DEF BInv, Numbers
      <3>2. F \in Nat BY Processes DEF F
      <3>3. ~enough => count = readies[p][v] + 1 BY <3>1 DEF One
      <3>4. count >= DeliverQuorum => enough
        <4> DEFINE n == readies[p][v]
        <4> SUFFICES ASSUME ~enough, n + 1 >= 2 * F + 1 PROVE FALSE
          BY <3>3 DEF DeliverQuorum
        <4>1. n \in Nat BY <3>1
        <4> HIDE DEF n
        <4> QED BY <3>2, <4>1 DEF ReadyQuorum, n
      <3>5. state'[p][v] = "SentReady" <=> state[p][v] = "SentReady" \/ ready
        BY <1>2, <1>4 DEF Recorded
      <3> QED BY <3>4, <3>5
    <2> HIDE DEF v, count
    <2>2. readies'[p][v] = count BY <1>1, <1>2 DEF BInv, Numbers
    <2>3. u \in delivered[p] \/ (u = v /\ count >= DeliverQuorum)
      BY <1>1 DEF BInv, Numbers
    <2> QED BY <2>1, <2>2, <2>3
  <1>7. \A a \in Peers(p) : delivered'[a] = delivered[a]
    BY <1>1 DEF Peers, BInv, Numbers
  <1>8. Handled(p, q, "Ready", echo, ready, another, w)
    <2> HIDE DEF echo, ready, another, w
    <2> QED BY <1>1, <1>4, <1>5, <1>6, <1>7 DEF Handled
  <1> HIDE DEF echo, ready, another, w
  <1> QED BY <1>3, <1>8 DEF Handles, Type

LEMMA StartVotes ==
  ASSUME BInv, Ballot, NobodyPanicked, NEW p \in Process, Start(p)
  PROVE  Ballot'
  <1> DEFINE w == ValueOf(p, next[p])
             out == <<Msg("Initial", w)>>
  <1>1. /\ life[p] = "running" /\ next' = [next EXCEPT ![p] = @ + 1]
        /\ next[p] <= Msgs /\ Broadcast(p, out, stream)
        /\ UNCHANGED <<state, echoes, readies>>
    BY Processes DEF Start, BInv, InTurn
  <1>2. /\ Sent' = Sent \cup {w} /\ w \in Value /\ Sender(w) = p /\ w \notin Sent
    BY <1>1, SentAdvances
  <1> HIDE DEF w
  <1>3. Msg("Initial", w) \in Message BY <1>2 DEF Msg, Message
  <1>4. out \in Seq(Message) /\ Distinct(out) /\ Elements(out) = {Msg("Initial", w)}
    BY <1>3 DEF Distinct, Elements
  <1>5. \A t, u : Msg(t, u) \in Elements(out) <=> t = "Initial" /\ u = w
    BY <1>4, Messages
  <1> HIDE DEF out
  <1>6. stream \in [Process -> [Process -> Seq(Message)]]
    BY TypeFromInv DEF TypeOK
  <1>7. Casts(p, out)
    <2> SUFFICES ASSUME NEW t \in Type, NEW u \in Value
                 PROVE  /\ Voted(p, t, u)' <=> Voted(p, t, u) \/ Msg(t, u) \in Elements(out)
                        /\ Msg(t, u) \in Elements(out) => ~Voted(p, t, u)
                        /\ \A a \in Peers(p) : Voted(a, t, u)' <=> Voted(a, t, u)
      BY <1>4 DEF Casts
    <2>1. CASE t = "Initial"
      <3>1. \A a : /\ Voted(a, t, u)' <=> Sender(u) = a /\ u \in Sent'
                   /\ Voted(a, t, u) <=> Sender(u) = a /\ u \in Sent
        BY <2>1 DEF Voted
      <3>2. u \in Sent' <=> u \in Sent \/ u = w BY <1>2
      <3> QED BY <1>2, <1>5, <2>1, <3>1, <3>2 DEF Peers
    <2>2. CASE t \in {"Echo", "Ready"}
      <3>1. \A a : Voted(a, t, u)' <=> Voted(a, t, u) BY <1>1, <2>2 DEF Voted
      <3> QED BY <1>5, <2>2, <3>1
    <2> QED BY <2>1, <2>2 DEF Type
  <1>8. Counts(p, {}, out)
    <2> SUFFICES ASSUME NEW t \in {"Echo", "Ready"}, NEW u \in Value
                 PROVE  /\ Tally(p, t, u)' = Tally(p, t, u) + One(Msg(t, u) \in {})
                                              + One(Msg(t, u) \in Elements(out))
                        /\ \A a \in Peers(p) : Tally(a, t, u)' = Tally(a, t, u)
      BY DEF Counts
    <2>1. Tally(p, t, u) \in Nat BY DEF Tally, BInv, Numbers
    <2>2. One(Msg(t, u) \in {}) = 0 /\ One(Msg(t, u) \in Elements(out)) = 0
      BY <1>5 DEF One
    <2>3. \A a : Tally(a, t, u)' = Tally(a, t, u) BY <1>1 DEF Tally
    <2> QED BY <2>1, <2>2, <2>3
  <1>9. Hears(p, p, {}, stream)
    BY <1>1, <1>6 DEF Ballot, SentOnce, Hears
  <1> QED BY <1>1, <1>7, <1>8, <1>9, Voting

(* What does not touch the streams to a process, or the votes.             *)
LEMMA VotesStay ==
  ASSUME NEW b \in Process, SentOnce(b), AllCounted(b),
         \A a \in Peers(b) : stream'[a][b] = stream[a][b],
         UNCHANGED <<next, state, echoes, readies>>
  PROVE  SentOnce(b)' /\ AllCounted(b)'
  <1>1. \A a, t, u : /\ Voted(a, t, u)' <=> Voted(a, t, u)
                     /\ Tally(a, t, u)' = Tally(a, t, u)
    BY SentStays DEF Voted, Tally
  <1>2. \A t, u : Voters(t, u)' = Voters(t, u) BY <1>1 DEF Voters
  <1>3. \A t, u : Pending(b, t, u)' = Pending(b, t, u) BY DEF Pending
  <1> QED BY <1>1, <1>2, <1>3 DEF SentOnce, AllCounted

(* A process that ends: it no longer counts, and its votes stay.           *)
LEMMA EndVotes ==
  ASSUME BInv, Ballot, NobodyPanicked, NEW p \in Process, NEW how \in {"exited", "panicked"},
         life' = [life EXCEPT ![p] = how], stream' = Closed(p, stream),
         UNCHANGED <<started, next, state, echoes, readies, delivered>>
  PROVE  Ballot'
  <1> SUFFICES ASSUME NEW b \in Process, life'[b] = "running"
               PROVE  SentOnce(b)' /\ AllCounted(b)'
    BY DEF Ballot
  <1>1. b # p /\ life[b] = "running" BY DEF BInv, Streams
  <1>2. SentOnce(b) /\ AllCounted(b) BY <1>1 DEF Ballot
  <1>3. \A a \in Peers(b) : stream'[a][b] = stream[a][b]
    BY <1>1 DEF Closed, Peers, BInv, Streams
  <1> QED BY <1>2, <1>3, VotesStay

LEMMA BallotStep ==
  ASSUME BInv, Ballot, [Next]_vars
  PROVE  Ballot'
  <1>1. CASE UNCHANGED vars
    <2>1. ASSUME NEW b \in Process, SentOnce(b), AllCounted(b)
          PROVE  SentOnce(b)' /\ AllCounted(b)'
      BY <1>1, <2>1, VotesStay DEF vars
    <2>2. life' = life BY <1>1 DEF vars
    <2> QED BY <2>1, <2>2 DEF Ballot, NobodyPanicked
  <1>2. CASE ~NobodyPanicked
    <2>1. PICK r \in Process : life[r] = "panicked" BY <1>2 DEF NobodyPanicked
    <2>2. life' = life \/ \E p \in Process : life[p] = "running" /\
                            \E how \in {"exited", "panicked"} : life' = [life EXCEPT ![p] = how]
      <3>1. CASE Quiet \/ UNCHANGED vars BY <3>1 DEF Quiet, vars
      <3>2. ASSUME NEW p \in Process, Step(p)
            PROVE  life[p] = "running" /\
                   (life' = life \/ \E how \in {"exited", "panicked"} : life' = [life EXCEPT ![p] = how])
        <4>1. CASE Start(p) BY <4>1 DEF Start, Broadcast
        <4>2. CASE Exit(p) BY <4>2 DEF Exit, InMainLoop
        <4>3. ASSUME NEW q \in Peers(p), Read(p, q)
              PROVE  life[p] = "running" /\
                     (life' = life \/ \E how \in {"exited", "panicked"} : life' = [life EXCEPT ![p] = how])
          BY <4>3
          DEF Read, ReceiveInitial, ReceiveEcho, ReceiveReady, ReadReset, Broadcast, Receive, InMainLoop
        <4> QED BY <3>2, <4>1, <4>2, <4>3 DEF Step
      <3> QED BY <3>1, <3>2 DEF Next
    <2>3. life'[r] = "panicked" BY <2>1, <2>2 DEF BInv, Streams
    <2> QED BY <2>3 DEF Ballot, NobodyPanicked
  <1>3. ASSUME NobodyPanicked, NEW p \in Process, Step(p)
        PROVE  Ballot'
    <2>1. CASE Start(p) BY <2>1, <1>3, StartVotes
    <2>2. CASE Exit(p) BY <2>2, <1>3, EndVotes DEF Exit
    <2>3. ASSUME NEW q \in Peers(p), Read(p, q)
          PROVE  Ballot'
      <3>1. CASE ReadReset(p, q) BY <3>1, <1>3, EndVotes DEF ReadReset
      <3>2. CASE Handles(p, q) BY <3>2, <1>3, HandlerVotes DEF Handles
      <3> QED BY <2>3, <3>1, <3>2, InitialHandled, EchoHandled, ReadyHandled DEF Read
    <2> QED BY <1>3, <2>1, <2>2, <2>3 DEF Step
  <1> QED BY <1>1, <1>2, <1>3 DEF Next, Quiet

(* As long as no process has failed, what a process has counted for a      *)
(* value together with what is on its way to it is exactly the number of   *)
(* processes that have voted (CountsAreVoters): no message is counted      *)
(* twice and none is lost.                                                 *)
THEOREM QuorumsAreProcesses == Spec => []CountsAreVoters
  <1>1. BInv /\ Ballot /\ [Next]_vars => Ballot' BY BallotStep
  <1>2. Spec => []Ballot BY <1>1, InitBallot, InvCorrect, PTL DEF Spec
  <1> QED BY <1>2, InvCorrect, CountsFromBallot, PTL

-----------------------------------------------------------------------------
(* That no process of two or three panics.  There every vote is needed to  *)
(* deliver a value: of three by DeliverQuorum, of two because a process    *)
(* delivers only on a Ready of another and its own.  A process that has delivered everything has therefore read    *)
(* all that was ever written to it, and leaves peers behind that have cast *)
(* all their votes and have nothing left to write.                         *)

(* A process writes nothing of a value behind its Ready.                   *)
ReadyLast(s, votes) ==
  \A i \in 1 .. Len(s) :
    s[i].type # "Ready" /\ votes[s[i].v] = "SentReady" =>
      \E j \in 1 .. Len(s) : j > i /\ s[j] = Msg("Ready", s[i].v)

Agreed == \A q \in Process, v \in Value : state[q][v] = "SentReady"

Calm ==
  /\ NobodyPanicked
  /\ \A p \in Process : reset[p] = {}
  /\ \A p \in Process : \A v \in delivered[p] : readies[p][v] >= P
  /\ \A p \in Process, v \in Value :
       /\ state[p][v] # "none" => v \in Sent
       /\ state[p][v] = "SentReady" => readies[p][v] >= 1
  /\ \A a \in Process : \A b \in Peers(a) : ReadyLast(stream[a][b], state[a])
  /\ (\E p \in Process : life[p] = "exited") => Agreed

LEMMA AllNeeded ==
  ASSUME P <= 3
  PROVE  Behind = {} /\ (P = 2 \/ DeliverQuorum = P)
  <1>1. P = 2 \/ P = 3 BY BrachaAssumption
  <1>2. P = 2 \/ DeliverQuorum = P
    <2>1. 3 \div 3 = 1 BY SMTT(30)
    <2> QED BY <1>1, <2>1 DEF DeliverQuorum, F
  <1>3. CASE Behind # {}
    <2>1. Cardinality(Ahead) >= 2 /\ Cardinality(Ahead) >= DeliverQuorum
      BY <1>3, BehindAssumption
    <2>2. Ahead \in SUBSET Process BY DEF Ahead
    <2>3. Cardinality(Ahead) <= Cardinality(Process) BY <2>2, Processes, FS_Subset
    <2>4. Cardinality(Ahead) \in Nat BY <2>2, Processes, FS_Subset, FS_CardinalityType
    <2>5. Cardinality(Process) = Cardinality(Ahead) BY <1>2, <2>1, <2>3, <2>4, Processes
    <2>6. Process = Ahead BY <2>2, <2>5, Processes, FS_Subset
    <2> QED BY <2>6, <1>3, BrachaAssumption DEF Ahead
  <1> QED BY <1>2, <1>3

(* There are Msgs * P values.                                              *)
LEMMA NumberOfValues ==
  IsFiniteSet(Value) /\ Cardinality(Value) = Msgs * P
  <1>1. P \in Nat \ {0} /\ Msgs \in Nat \ {0} BY Processes
  <1> DEFINE S == (1 .. Msgs) \X Process
             f == [x \in S |-> ValueOf(x[2], x[1])]
  <1>2. IsFiniteSet(1 .. Msgs) /\ Cardinality(1 .. Msgs) = Msgs
    BY <1>1, FS_Interval
  <1>3. IsFiniteSet(S) /\ Cardinality(S) = Msgs * P
    BY <1>2, Processes, FS_Product
  <1>4. f \in Bijection(S, Value)
    <2>1. ASSUME NEW x \in S
          PROVE  /\ f[x] \in Value /\ x = <<Rank(f[x]), Sender(f[x])>>
      <3>1. x = <<x[1], x[2]>> /\ x[1] \in 1 .. Msgs /\ x[2] \in Process OBVIOUS
      <3>2. f[x] = ValueOf(x[2], x[1]) OBVIOUS
      <3> HIDE DEF f, S
      <3> QED BY <3>1, <3>2, Values
    <2>2. ASSUME NEW v \in Value PROVE \E x \in S : f[x] = v
      <3>1. Sender(v) \in Process /\ Rank(v) \in 1 .. Msgs /\ v = ValueOf(Sender(v), Rank(v))
        BY Values
      <3>2. <<Rank(v), Sender(v)>> \in S BY <3>1
      <3>3. f[<<Rank(v), Sender(v)>>] = v BY <3>1, <3>2
      <3> QED BY <3>2, <3>3
    <2>3. f \in [S -> Value] BY <2>1
    <2>4. \A x, y \in S : f[x] = f[y] => x = y
      <3> HIDE DEF f, S
      <3> QED BY <2>1
    <2> HIDE DEF f, S
    <2>5. f \in Injection(S, Value) BY <2>3, <2>4 DEF Injection, IsInjective
    <2>6. f \in Surjection(S, Value) BY <2>2, <2>3 DEF Surjection
    <2> QED BY <2>5, <2>6 DEF Bijection
  <1> HIDE DEF f, S
  <1>5. ExistsBijection(S, Value) BY <1>4 DEF ExistsBijection
  <1> QED BY <1>3, <1>5, FS_Bijection

LEMMA InitCalm == ASSUME P <= 3, Init PROVE Calm
  <1>1. Behind = {} BY AllNeeded
  <1>2. \A p \in Process, v \in Value :
          /\ state[p][v] = IF IsSettled(v) THEN "SentReady" ELSE "none"
          /\ readies[p][v] = IF IsSettled(v) THEN P ELSE 0
          /\ v \in delivered[p] <=> IsSettled(v)
    BY <1>1 DEF Init, HasDone, Known
  <1>3. ASSUME NEW a \in Process, NEW b \in Peers(a) PROVE ReadyLast(stream[a][b], state[a])
    <2> DEFINE s == stream[a][b]
    <2>1. BInv BY InitInv
    <2>2. b \in Process /\ a \in Peers(b) BY DEF Peers
    <2>3. s \in Seq(Message) BY <2>1, <2>2, TypeFromInv DEF TypeOK
    <2>4. ASSUME NEW i \in 1 .. Len(s) PROVE state[a][s[i].v] = "none"
      <3>1. s[i] \in Message BY <2>3
      <3>2. s[i] = Msg(s[i].type, s[i].v) /\ s[i].type \in Type /\ s[i].v \in Value
        BY <3>1 DEF Message, Msg, Type
      <3>3. s[i] \in Elements(s) BY DEF Elements
      <3>4. a \in Live /\ s[i].v = ValueOf(a, Settled[a] + 1)
        BY <1>1, <2>2, <3>2, <3>3, InitStreams
      <3>5. Settled[a] \in 0 .. Msgs /\ Settled[a] + 1 \in 1 .. Msgs
        BY <3>4, BrachaAssumption DEF Live
      <3>6. Sender(s[i].v) = a /\ Rank(s[i].v) = Settled[a] + 1 BY <3>4, <3>5, Values
      <3>7. ~IsSettled(s[i].v)
        <4> HIDE DEF s
        <4> QED BY <3>5, <3>6 DEF IsSettled
      <3> QED BY <1>2, <3>2, <3>7
    <2> QED BY <2>4 DEF ReadyLast
  <1>4. \A p \in Process : delivered[p] \subseteq Value BY DEF Init
  <1>5. \A p \in Process : \A v \in delivered[p] : readies[p][v] >= P
    BY <1>2, <1>4, Processes
  <1>6. \A p \in Process, v \in Value :
          /\ state[p][v] # "none" => v \in Sent
          /\ state[p][v] = "SentReady" => readies[p][v] >= 1
    BY <1>2, InitSent, Processes
  <1>7. \A p \in Process : life[p] = "running" /\ reset[p] = {} BY DEF Init
  <1> QED BY <1>3, <1>5, <1>6, <1>7 DEF Calm, NobodyPanicked

(* A process has nothing left to write when all have voted on everything.  *)
LEMMA NothingLeft ==
  ASSUME BInv, Calm, Agreed, NEW p \in Process
  PROVE  next[p] = Msgs + 1 /\ started[p]
  <1>1. Msgs \in 1 .. Msgs BY Processes
  <1>2. ValueOf(p, Msgs) \in Value /\ Sender(ValueOf(p, Msgs)) = p /\ Rank(ValueOf(p, Msgs)) = Msgs
    BY <1>1, Values
  <1>3. ValueOf(p, Msgs) \in Sent BY <1>2 DEF Calm, Agreed
  <1>4. next[p] \in 1 .. Msgs + 1 /\ Msgs < next[p] BY <1>2, <1>3 DEF Sent, BInv, Numbers
  <1>5. next[p] = Msgs + 1 BY <1>4, Processes
  <1>6. started[p] BY <1>5, Processes DEF BInv, InTurn
  <1> QED BY <1>5, <1>6

(* One message from the front, or some behind.                             *)
LEMMA ReadyLastOfTail ==
  ASSUME NEW votes, NEW s \in Seq(Message), s # <<>>, ReadyLast(s, votes)
  PROVE  ReadyLast(Tail(s), votes)
  <1>1. /\ Len(s) \in Nat \ {0} /\ Tail(s) \in Seq(Message) /\ Len(Tail(s)) = Len(s) - 1
        /\ \A i \in 1 .. Len(s) - 1 : Tail(s)[i] = s[i + 1]
    BY HeadTailProperties, LenProperties, EmptySeq
  <1>2. ASSUME NEW i \in 1 .. Len(s) - 1, Tail(s)[i].type # "Ready",
               votes[Tail(s)[i].v] = "SentReady"
        PROVE  \E j \in 1 .. Len(s) - 1 : j > i /\ Tail(s)[j] = Msg("Ready", Tail(s)[i].v)
    <2>1. i + 1 \in 1 .. Len(s) /\ Tail(s)[i] = s[i + 1] BY <1>1
    <2>2. PICK j \in 1 .. Len(s) : j > i + 1 /\ s[j] = Msg("Ready", s[i + 1].v)
      BY <1>2, <2>1 DEF ReadyLast
    <2>3. j - 1 \in 1 .. Len(s) - 1 /\ j - 1 > i /\ (j - 1) + 1 = j BY <2>2, <1>1
    <2>4. Tail(s)[j - 1] = s[j] BY <1>1, <2>3
    <2> QED BY <2>1, <2>2, <2>3, <2>4
  <1> QED BY <1>1, <1>2 DEF ReadyLast

LEMMA ReadyLastOfJoined ==
  ASSUME NEW votes, NEW after, NEW s \in Seq(Message), NEW t \in Seq(Message),
         ReadyLast(s, votes), ReadyLast(t, after),
         \A v \in Value : after[v] = "SentReady" =>
           votes[v] = "SentReady" \/ Msg("Ready", v) \in Elements(t)
  PROVE  ReadyLast(s \o t, after)
  <1>1. /\ Len(s) \in Nat /\ Len(t) \in Nat /\ Len(s \o t) = Len(s) + Len(t)
        /\ \A i \in 1 .. Len(s) + Len(t) :
             (s \o t)[i] = IF i <= Len(s) THEN s[i] ELSE t[i - Len(s)]
    BY ConcatProperties, LenProperties
  <1>2. ASSUME NEW k \in 1 .. Len(t)
        PROVE  Len(s) + k \in 1 .. Len(s) + Len(t) /\ (s \o t)[Len(s) + k] = t[k]
    <2>1. Len(s) + k \in 1 .. Len(s) + Len(t) /\ ~(Len(s) + k <= Len(s)) BY <1>1
    <2>2. (Len(s) + k) - Len(s) = k BY <1>1
    <2> QED BY <1>1, <2>1, <2>2
  <1>3. ASSUME NEW i \in 1 .. Len(s) + Len(t), (s \o t)[i].type # "Ready",
               after[(s \o t)[i].v] = "SentReady"
        PROVE  \E j \in 1 .. Len(s) + Len(t) : j > i /\ (s \o t)[j] = Msg("Ready", (s \o t)[i].v)
    <2>1. CASE i <= Len(s)
      <3>1. i \in 1 .. Len(s) /\ (s \o t)[i] = s[i] BY <1>1, <2>1
      <3>2. s[i] \in Message BY <3>1
      <3>3. s[i].v \in Value BY <3>2 DEF Message
      <3>4. CASE votes[s[i].v] = "SentReady"
        <4>1. PICK j \in 1 .. Len(s) : j > i /\ s[j] = Msg("Ready", s[i].v)
          BY <1>3, <3>1, <3>4 DEF ReadyLast
        <4>2. j \in 1 .. Len(s) + Len(t) /\ (s \o t)[j] = s[j] BY <1>1
        <4> QED BY <3>1, <4>1, <4>2
      <3>5. CASE Msg("Ready", s[i].v) \in Elements(t)
        <4>1. PICK k \in 1 .. Len(t) : t[k] = Msg("Ready", s[i].v) BY <3>5 DEF Elements
        <4>2. Len(s) + k > i BY <1>1, <2>1
        <4> QED BY <1>2, <3>1, <4>1, <4>2
      <3> QED BY <1>3, <3>1, <3>3, <3>4, <3>5
    <2>2. CASE ~(i <= Len(s))
      <3>1. i - Len(s) \in 1 .. Len(t) /\ (s \o t)[i] = t[i - Len(s)] BY <1>1, <2>2
      <3>2. PICK k \in 1 .. Len(t) : k > i - Len(s) /\ t[k] = Msg("Ready", t[i - Len(s)].v)
        BY <1>3, <3>1 DEF ReadyLast
      <3>3. Len(s) + k > i BY <1>1, <3>2
      <3> QED BY <1>2, <3>1, <3>2, <3>3
    <2> QED BY <2>1, <2>2
  <1> QED BY <1>1, <1>3 DEF ReadyLast

(* A step of p, which takes a message from the front of a stream, or none, *)
(* and writes out to its peers.                                            *)
Reads(p, q, s) ==
  /\ s \in [Process -> [Process -> Seq(Message)]]
  /\ \A a, b \in Process :
       s[a][b] = IF a = q /\ b = p /\ stream[q][p] # <<>> THEN Tail(stream[q][p]) ELSE stream[a][b]

Decides(p, out) ==
  /\ \A v \in Value :
       /\ state'[p][v] = "SentReady" =>
            state[p][v] = "SentReady" \/ Msg("Ready", v) \in Elements(out)
       /\ state[p][v] = "SentReady" => state'[p][v] = "SentReady"
       /\ state'[p][v] # "none" => v \in Sent'
       /\ readies'[p][v] >= readies[p][v]
       /\ state'[p][v] = "SentReady" => readies'[p][v] >= 1
  /\ \A v \in delivered'[p] : v \in delivered[p] \/ readies'[p][v] >= P
  /\ \A a \in Peers(p) :
       state'[a] = state[a] /\ readies'[a] = readies[a] /\ delivered'[a] = delivered[a]
  /\ Sent \subseteq Sent'

LEMMA CalmHandler ==
  ASSUME BInv, BInv', Calm, NEW p \in Process, life[p] = "running",
         NEW q, NEW s, Reads(p, q, s), NEW out \in Seq(Message),
         Broadcast(p, out, s), Decides(p, out), ReadyLast(out, state'[p]),
         Agreed => out = <<>>
  PROVE  Calm'
  <1>1. /\ stream' = Written(p, out, Peers(p), s) /\ UNCHANGED life
        /\ reset' = IF out = <<>> THEN reset
                    ELSE [reset EXCEPT ![p] = @ \cup {r \in Peers(p) : life[r] # "running"}]
    BY DEF Broadcast, Calm
  <1>2. NobodyPanicked' BY <1>1 DEF Calm, NobodyPanicked
  <1>3. \A r \in Process : reset'[r] = {}
    <2>1. CASE out = <<>> BY <1>1, <2>1 DEF Calm
    <2>2. CASE out # <<>>
      <3>1. \A r \in Process : life[r] = "running"
        BY <2>2 DEF Calm, NobodyPanicked, BInv, Streams
      <3>2. {r \in Peers(p) : life[r] # "running"} = {} BY <3>1 DEF Peers
      <3> QED BY <1>1, <2>2, <3>2 DEF Calm, BInv, Streams
    <2> QED BY <2>1, <2>2
  <1>4. ASSUME NEW r \in Process, NEW v \in delivered'[r] PROVE readies'[r][v] >= P
    <2>1. v \in Value /\ readies[r][v] \in Nat /\ readies'[r][v] \in Nat /\ P \in Nat
      BY Processes DEF BInv, Numbers
    <2>2. CASE r = p
      <3>1. v \in delivered[p] => readies[p][v] >= P BY DEF Calm
      <3>2. readies'[p][v] >= readies[p][v] BY <2>1 DEF Decides
      <3>3. v \in delivered[p] \/ readies'[p][v] >= P BY <2>2 DEF Decides
      <3> QED BY <2>1, <2>2, <3>1, <3>2, <3>3
    <2>3. CASE r # p BY <2>3 DEF Decides, Peers, Calm
    <2> QED BY <2>2, <2>3
  <1>5. ASSUME NEW r \in Process, NEW v \in Value
        PROVE  /\ state'[r][v] # "none" => v \in Sent'
               /\ state'[r][v] = "SentReady" => readies'[r][v] >= 1
    <2>1. CASE r = p BY <2>1 DEF Decides
    <2>2. CASE r # p BY <2>2 DEF Decides, Peers, Calm
    <2> QED BY <2>1, <2>2
  <1>6. ASSUME NEW a \in Process, NEW b \in Peers(a)
        PROVE  ReadyLast(stream'[a][b], state'[a])
    <2>1. b \in Process /\ a # b BY DEF Peers
    <2>2. stream'[a][b] = IF a = p /\ life[b] = "running" THEN s[a][b] \o out ELSE s[a][b]
      BY <1>1, <2>1 DEF Written, Peers, Reads
    <2>3. stream[a][b] \in Seq(Message) /\ s[a][b] \in Seq(Message)
      BY <2>1, TypeFromInv DEF Reads, TypeOK
    <2>4. ReadyLast(stream[a][b], state[a]) BY DEF Calm
    <2>5. ReadyLast(s[a][b], state[a])
      <3>1. CASE a = q /\ b = p /\ stream[q][p] # <<>>
        BY <3>1, <2>1, <2>3, <2>4, ReadyLastOfTail DEF Reads
      <3>2. CASE ~(a = q /\ b = p /\ stream[q][p] # <<>>)
        BY <3>2, <2>1, <2>4 DEF Reads
      <3> QED BY <3>1, <3>2
    <2>6. CASE a = p /\ life[b] = "running"
      BY <2>2, <2>3, <2>5, <2>6, ReadyLastOfJoined DEF Decides
    <2>7. CASE a # p
      <3>1. state'[a] = state[a] BY <2>7 DEF Decides, Peers
      <3> QED BY <2>2, <2>5, <2>7, <3>1
    <2>8. CASE a = p /\ life[b] # "running"
      <3>1. Agreed /\ out = <<>> BY <2>1, <2>8 DEF Calm, NobodyPanicked, BInv, Streams
      <3>2. \A v \in Value : state'[a][v] = "SentReady" => state[a][v] = "SentReady"
        BY <2>8, <3>1 DEF Agreed
      <3>3. \A i \in 1 .. Len(s[a][b]) : s[a][b][i].v \in Value
        <4>1. \A i \in 1 .. Len(s[a][b]) : s[a][b][i] \in Message BY <2>3
        <4> QED BY <4>1 DEF Message
      <3> QED BY <2>2, <2>5, <2>8, <3>2, <3>3 DEF ReadyLast
    <2> QED BY <2>6, <2>7, <2>8
  <1>7. (\E r \in Process : life'[r] = "exited") => Agreed'
    BY <1>1 DEF Calm, Agreed, Decides, Peers
  <1> QED BY <1>2, <1>3, <1>4, <1>5, <1>6, <1>7 DEF Calm

(* A process that exits has read all that was written to it, and everybody *)
(* has voted on everything.                                                *)
LEMMA AllReadAtExit ==
  ASSUME P <= 3, BInv, Ballot, Calm, NEW p \in Process, Exit(p)
  PROVE  Agreed /\ \A q \in Peers(p) : stream[q][p] = <<>>
  <1>1. delivered[p] = Value
    <2>1. delivered[p] \in SUBSET Value BY DEF BInv, Numbers
    <2>2. Cardinality(delivered[p]) = Msgs * P BY DEF Exit, HasAll
    <2> QED BY <2>1, <2>2, NumberOfValues, FS_Subset
  <1>2. SentOnce(p) /\ AllCounted(p) BY DEF Ballot, Calm, Exit, InMainLoop
  <1>3. ASSUME NEW v \in Value
        PROVE  Voters("Ready", v) = Process /\ Pending(p, "Ready", v) = {}
    <2> DEFINE voters == Voters("Ready", v)
               pending == Pending(p, "Ready", v)
    <2>1. /\ IsFiniteSet(voters) /\ Cardinality(voters) \in Nat
          /\ IsFiniteSet(pending) /\ Cardinality(pending) \in Nat
      BY FiniteVotes
    <2>2. voters \in SUBSET Process BY DEF Voters
    <2>3. Cardinality(voters) <= P BY <2>2, Processes, FS_Subset
    <2>4. Cardinality(voters) = readies[p][v] + Cardinality(pending)
      BY <1>2 DEF AllCounted, Tally
    <2>5. readies[p][v] >= P /\ readies[p][v] \in Nat /\ P \in Nat
      BY <1>1, Processes DEF Calm, BInv, Numbers
    <2> HIDE DEF voters, pending
    <2>6. Cardinality(voters) = P /\ Cardinality(pending) = 0
      BY <2>1, <2>3, <2>4, <2>5
    <2>7. voters = Process BY <2>2, <2>6, Processes, FS_Subset
    <2>8. pending = {} BY <2>1, <2>6, FS_EmptySet
    <2> QED BY <2>7, <2>8 DEF voters, pending
  <1>4. Agreed BY <1>3 DEF Agreed, Voters, Voted
  <1>5. ASSUME NEW q \in Peers(p), stream[q][p] # <<>> PROVE FALSE
    <2> DEFINE s == stream[q][p]
               last == s[Len(s)]
    <2>1. q \in Process /\ p \in Peers(q) BY DEF Peers
    <2>2. s \in Seq(Message) BY <2>1, TypeFromInv DEF TypeOK
    <2>3. Len(s) \in Nat \ {0} BY <1>5, <2>2, EmptySeq, LenProperties
    <2>4. last \in Message /\ last \in Elements(s) BY <2>2, <2>3 DEF Elements
    <2>5. last = Msg(last.type, last.v) /\ last.v \in Value BY <2>4 DEF Message, Msg
    <2>6. CASE last.type = "Ready"
      <3>1. q \in Pending(p, "Ready", last.v) BY <2>4, <2>5, <2>6 DEF Pending
      <3> QED BY <3>1, <1>3, <2>5
    <2>7. CASE last.type # "Ready"
      <3>1. state[q][last.v] = "SentReady" BY <1>4, <2>1, <2>5 DEF Agreed
      <3>2. ReadyLast(s, state[q]) BY <2>1 DEF Calm
      <3>3. Len(s) \in 1 .. Len(s) BY <2>3
      <3>4. \E j \in 1 .. Len(s) : j > Len(s)
        BY <2>7, <3>1, <3>2, <3>3 DEF ReadyLast
      <3> QED BY <3>4, <2>3
    <2> QED BY <2>6, <2>7
  <1> QED BY <1>4, <1>5

LEMMA CalmExit ==
  ASSUME P <= 3, BInv, BInv', Ballot, Calm, NEW p \in Process, Exit(p)
  PROVE  Calm'
  <1>1. Agreed /\ \A q \in Peers(p) : stream[q][p] = <<>> BY AllReadAtExit
  <1>2. /\ life' = [life EXCEPT ![p] = "exited"]
        /\ stream' = Closed(p, stream) /\ reset' = Resets(p, stream)
        /\ UNCHANGED <<started, next, state, echoes, readies, delivered>>
    BY DEF Exit
  <1>3. \A r \in Process : reset'[r] = {}
    BY <1>1, <1>2 DEF Resets, Peers, Calm
  <1>4. NobodyPanicked' BY <1>2 DEF NobodyPanicked, Calm, BInv, Streams
  <1>5. ASSUME NEW a \in Process, NEW b \in Peers(a)
        PROVE  ReadyLast(stream'[a][b], state'[a])
    <2>1. b \in Process BY DEF Peers
    <2>2. stream'[a][b] = IF b = p THEN <<>> ELSE stream[a][b]
      BY <1>2, <2>1 DEF Closed, BInv, Streams
    <2>3. CASE b = p BY <2>2, <2>3 DEF ReadyLast
    <2>4. CASE b # p BY <1>2, <2>2, <2>4 DEF Calm
    <2> QED BY <2>3, <2>4
  <1>6. Sent' = Sent BY <1>2, SentStays
  <1>7. Agreed' BY <1>1, <1>2 DEF Agreed
  <1> QED BY <1>2, <1>3, <1>4, <1>5, <1>6, <1>7 DEF Calm

(* The messages of a handler: it declares itself ready behind its echo.    *)
LEMMA OutboxOrder ==
  ASSUME NEW v \in Value, NEW w \in Value, NEW one \in Maybe(Msg("Echo", v)),
         NEW other \in Maybe(Msg("Ready", v)), NEW third \in Maybe(Msg("Initial", w)),
         NEW votes, one # <<>> /\ votes[v] = "SentReady" => other # <<>>,
         third # <<>> => votes[w] # "SentReady"
  PROVE  /\ ReadyLast(one \o other \o third, votes)
         /\ other # <<>> => Msg("Ready", v) \in Elements(one \o other \o third)
  <1> DEFINE m1 == Msg("Echo", v)
             m2 == Msg("Ready", v)
             m3 == Msg("Initial", w)
             out == one \o other \o third
  <1>1. one \in {<<>>, <<m1>>} /\ other \in {<<>>, <<m2>>} /\ third \in {<<>>, <<m3>>}
    BY DEF Maybe
  <1>2. /\ m1.type = "Echo" /\ m1.v = v /\ m2.type = "Ready" /\ m2.v = v
        /\ m3.type = "Initial" /\ m3.v = w
    BY DEF Msg
  <1>3. Elements(out) = Elements(one) \cup Elements(other) \cup Elements(third)
        /\ out \in Seq(Message) /\ Distinct(out)
    BY Outbox
  <1>4. /\ Elements(one) \subseteq {m1} /\ Elements(other) \subseteq {m2}
        /\ Elements(third) \subseteq {m3}
        /\ one # <<>> => m1 \in Elements(one)
        /\ other # <<>> => m2 \in Elements(other)
        /\ third # <<>> => m3 \in Elements(third)
    <2> HIDE DEF m1, m2, m3
    <2> QED BY <1>1 DEF Elements
  <1>5. one # <<>> /\ other # <<>> => Len(out) >= 2 /\ out[1] = m1 /\ out[2] = m2
    <2> SUFFICES ASSUME one # <<>>, other # <<>>
                 PROVE  Len(out) >= 2 /\ out[1] = m1 /\ out[2] = m2
      OBVIOUS
    <2>1. one = <<m1>> /\ other = <<m2>> BY <1>1
    <2> DEFINE both == one \o other
    <2>2. m1 \in Message /\ m2 \in Message /\ m3 \in Message BY DEF Msg, Message
    <2> HIDE DEF m1, m2, m3
    <2>3. /\ one \in Seq(Message) /\ Len(one) = 1 /\ one[1] = m1
          /\ other \in Seq(Message) /\ Len(other) = 1 /\ other[1] = m2
      BY <2>1, <2>2
    <2>4. third \in Seq(Message)
      <3>1. <<m3>> \in Seq(Message) /\ <<>> \in Seq(Message) BY <2>2
      <3> QED BY <1>1, <3>1
    <2>5. both \in Seq(Message) /\ Len(both) = 2 /\ both[1] = m1 /\ both[2] = m2
      <3>1. /\ both \in Seq(Message) /\ Len(both) = Len(one) + Len(other)
            /\ \A i \in 1 .. Len(one) + Len(other) :
                 both[i] = IF i <= Len(one) THEN one[i] ELSE other[i - Len(one)]
        BY <2>3, ConcatProperties
      <3> HIDE DEF both
      <3>2. Len(one) + Len(other) = 2 /\ both[1] = one[1] /\ both[2] = other[2 - 1]
        BY <2>3, <3>1
      <3> QED BY <2>3, <3>1, <3>2
    <2> HIDE DEF both
    <2>6. /\ Len(both \o third) = Len(both) + Len(third)
          /\ \A i \in 1 .. Len(both) + Len(third) :
               (both \o third)[i] = IF i <= Len(both) THEN both[i] ELSE third[i - Len(both)]
      BY <2>4, <2>5, ConcatProperties
    <2>7. Len(third) \in Nat BY <2>4, LenProperties
    <2>8. Len(both \o third) >= 2 /\ (both \o third)[1] = m1 /\ (both \o third)[2] = m2
      BY <2>5, <2>6, <2>7
    <2> QED BY <2>8 DEF both
  <1>6. other # <<>> => m2 \in Elements(out) BY <1>3, <1>4
  <1>7. ASSUME NEW i \in 1 .. Len(out), out[i].type # "Ready", votes[out[i].v] = "SentReady"
        PROVE  \E j \in 1 .. Len(out) : j > i /\ out[j] = Msg("Ready", out[i].v)
    <2> HIDE DEF out, m1, m3
    <2>0. Len(out) \in Nat BY <1>3, LenProperties
    <2>1. out[i] \in Elements(out) BY DEF Elements
    <2>2. out[i] \in Elements(one) \/ out[i] \in Elements(third)
      BY <1>2, <1>3, <1>4, <1>7, <2>1
    <2>3. CASE out[i] \in Elements(third)
      <3>1. out[i] = m3 /\ third # <<>> BY <1>4, <2>3 DEF Elements
      <3> QED BY <1>2, <1>7, <3>1
    <2>4. CASE out[i] \in Elements(one)
      <3>1. out[i] = m1 /\ one # <<>> BY <1>4, <2>4 DEF Elements
      <3>2. other # <<>> BY <1>2, <1>7, <3>1
      <3>3. Len(out) >= 2 /\ out[1] = m1 /\ out[2] = m2 BY <1>5, <3>1, <3>2
      <3>4. 1 \in 1 .. Len(out) /\ 2 \in 1 .. Len(out) BY <2>0, <3>3
      <3>5. i = 1 BY <1>3, <3>1, <3>3, <3>4 DEF Distinct
      <3> QED BY <1>2, <3>1, <3>3, <3>4, <3>5
    <2> QED BY <2>2, <2>3, <2>4
  <1> QED BY <1>6, <1>7 DEF ReadyLast

LEMMA HandlerCalm ==
  ASSUME P <= 3, BInv, BInv', Calm, NEW p \in Process, NEW q \in Peers(p),
         NEW type \in Type, NEW echo \in BOOLEAN, NEW ready \in BOOLEAN,
         NEW another \in BOOLEAN, NEW w, Handled(p, q, type, echo, ready, another, w)
  PROVE  Calm'
  <1> DEFINE v == Head(stream[q][p]).v
             s == Unread(p, q)
             one == Send(echo, "Echo", v)
             other == Send(ready, "Ready", v)
             third == Send(another, "Initial", w)
             out == one \o other \o third
  <1>1. /\ life[p] = "running" /\ stream[q][p] # <<>>
        /\ another => w \in Value /\ w \notin Sent
        /\ Sent' = IF another THEN Sent \cup {w} ELSE Sent
        /\ Recorded(p, type, echo, ready, v)
        /\ Broadcast(p, out, s)
        /\ \A a \in Peers(p) : delivered'[a] = delivered[a]
    BY DEF Handled, Receive, Votes
  <1>d. ASSUME NEW u \in delivered'[p], u \notin delivered[p]
        PROVE  /\ type = "Ready" /\ u = v
               /\ state'[p][u] = "SentReady" /\ readies'[p][u] >= DeliverQuorum
    BY <1>d DEF Handled
  <1>q. q \in Process BY DEF Peers
  <1>2. v \in Value /\ v \in Sent BY <1>1, <1>q, ReadType
  <1>3. Reads(p, q, s)
    <2>1. stream \in [Process -> [Process -> Seq(Message)]] BY TypeFromInv DEF TypeOK
    <2>2. Tail(stream[q][p]) \in Seq(Message) BY <1>1, <1>q, <2>1, HeadTailProperties
    <2> QED BY <1>1, <1>q, <2>1, <2>2 DEF Reads, Unread
  <1>4. PICK x \in Value : third \in Maybe(Msg("Initial", x)) /\ (another => x = w)
    <2>1. CASE another BY <1>1, <2>1 DEF Send, Maybe
    <2>2. CASE ~another BY <1>2, <2>2 DEF Send, Maybe
    <2> QED BY <2>1, <2>2
  <1>5. /\ one \in Maybe(Msg("Echo", v)) /\ other \in Maybe(Msg("Ready", v))
        /\ one # <<>> <=> echo
        /\ other # <<>> <=> ready
        /\ third # <<>> <=> another
    BY DEF Send, Maybe
  <1> HIDE DEF v, s, one, other, third
  <1>6. one # <<>> /\ state'[p][v] = "SentReady" => other # <<>>
    BY <1>1, <1>2, <1>5 DEF Recorded
  <1>7. third # <<>> => state'[p][x] # "SentReady"
    <2> SUFFICES ASSUME another PROVE state'[p][w] # "SentReady"
      BY <1>4, <1>5
    <2>1. w \in Value /\ w \notin Sent /\ w # v BY <1>1, <1>2
    <2>2. state[p][w] = "none" BY <2>1 DEF Calm
    <2> QED BY <1>1, <2>1, <2>2 DEF Recorded
  <1>8. out \in Seq(Message) BY <1>2, <1>4, <1>5, Outbox
  <1>9. ReadyLast(out, state'[p]) /\ (ready => Msg("Ready", v) \in Elements(out))
    <2> DEFINE votes == state'[p]
    <2>1. one # <<>> /\ votes[v] = "SentReady" => other # <<>> BY <1>6
    <2>2. third # <<>> => votes[x] # "SentReady" BY <1>7
    <2> HIDE DEF votes, out
    <2>3. /\ ReadyLast(one \o other \o third, votes)
          /\ other # <<>> => Msg("Ready", v) \in Elements(one \o other \o third)
      BY <1>2, <1>4, <1>5, <2>1, <2>2, OutboxOrder
    <2> QED BY <1>5, <2>3 DEF out, votes
  <1>10. Agreed => out = <<>>
    <2> SUFFICES ASSUME Agreed PROVE out = <<>>
      OBVIOUS
    <2>1. ~echo /\ ~ready BY <1>1, <1>2 DEF Agreed, Recorded
    <2>2. ~another
      <3>1. \A u \in Value : u \in Sent BY DEF Agreed, Calm
      <3> QED BY <1>1, <3>1
    <2>3. one = <<>> /\ other = <<>> /\ third = <<>> BY <1>5, <2>1, <2>2
    <2> QED BY <2>3
  <1> HIDE DEF out
  <1>c. ASSUME NEW u \in Value
        PROVE  /\ readies[p][u] \in Nat /\ readies'[p][u] \in Nat
               /\ readies'[p][u] >= readies[p][u]
               /\ state'[p][u] = "SentReady" => readies'[p][u] >= 1
               /\ state'[p][u] = "SentReady" /\ u = v /\ type = "Ready" => readies'[p][u] >= 2
    <2>1. readies[p][u] \in Nat BY DEF BInv, Numbers
    <2>2. readies'[p][u] = readies[p][u] + One(type = "Ready" /\ u = v) + One(u = v /\ ready)
      BY <1>1 DEF Recorded
    <2>3. state'[p][u] = "SentReady" => readies[p][u] >= 1 \/ (u = v /\ ready)
      BY <1>1 DEF Recorded, Calm
    <2> QED BY <2>1, <2>2, <2>3 DEF One
  <1>e. ASSUME NEW u \in delivered'[p], u \notin delivered[p]
        PROVE  readies'[p][u] >= P
    <2>1. /\ type = "Ready" /\ u = v
          /\ state'[p][u] = "SentReady" /\ readies'[p][u] >= DeliverQuorum
      BY <1>d, <1>e
    <2>2. readies'[p][u] >= 2 BY <1>2, <1>c, <2>1
    <2> QED BY <2>1, <2>2, AllNeeded
  <1>11. Decides(p, out)
    <2>1. ASSUME NEW u \in Value
          PROVE  /\ state'[p][u] = "SentReady" =>
                      state[p][u] = "SentReady" \/ Msg("Ready", u) \in Elements(out)
                 /\ state[p][u] = "SentReady" => state'[p][u] = "SentReady"
                 /\ state'[p][u] # "none" => u \in Sent'
                 /\ readies'[p][u] >= readies[p][u]
                 /\ state'[p][u] = "SentReady" => readies'[p][u] >= 1
      <3>1. state'[p][u] = "SentReady" <=> state[p][u] = "SentReady" \/ (u = v /\ ready)
        BY <1>1 DEF Recorded
      <3>2. state'[p][u] # "none" <=> state[p][u] # "none" \/ (u = v /\ echo)
        BY <1>1 DEF Recorded
      <3>3. state[p][u] # "none" => u \in Sent BY DEF Calm
      <3>4. Sent \subseteq Sent' BY <1>1
      <3> QED BY <1>2, <1>9, <1>c, <3>1, <3>2, <3>3, <3>4
    <2>2. \A a \in Peers(p) : state'[a] = state[a] /\ readies'[a] = readies[a]
      BY <1>1 DEF Recorded
    <2>3. Sent \subseteq Sent' BY <1>1
    <2> QED BY <1>1, <1>e, <2>1, <2>2, <2>3 DEF Decides
  <1> QED BY <1>1, <1>q, <1>3, <1>8, <1>9, <1>10, <1>11, CalmHandler

LEMMA StartCalm ==
  ASSUME P <= 3, BInv, BInv', Calm, NEW p \in Process, Start(p)
  PROVE  Calm'
  <1> DEFINE w == ValueOf(p, next[p])
             out == <<Msg("Initial", w)>>
  <1>1. /\ life[p] = "running" /\ ~started[p] /\ next' = [next EXCEPT ![p] = @ + 1]
        /\ next[p] <= Msgs /\ Broadcast(p, out, stream)
        /\ UNCHANGED <<state, echoes, readies, delivered>>
    BY Processes DEF Start, BInv, InTurn
  <1>2. Sent' = Sent \cup {w} /\ w \in Value /\ w \notin Sent
    BY <1>1, SentAdvances
  <1> HIDE DEF w
  <1>3. Msg("Initial", w) \in Message BY <1>2 DEF Msg, Message
  <1>4. out \in Seq(Message) BY <1>3
  <1>5. ReadyLast(out, state'[p])
    <2>1. state[p][w] = "none" BY <1>2 DEF Calm
    <2>2. Len(out) = 1 /\ out[1].v = w BY DEF Msg
    <2> HIDE DEF out
    <2> QED BY <1>1, <2>1, <2>2 DEF ReadyLast
  <1>6. ~Agreed BY <1>1, NothingLeft
  <1> HIDE DEF out
  <1>7. Decides(p, out)
    <2>1. \A u \in Value : readies[p][u] \in Nat BY DEF BInv, Numbers
    <2> QED BY <1>1, <1>2, <2>1 DEF Decides, Calm
  <1>8. Reads(p, P, stream)
    <2>1. stream \in [Process -> [Process -> Seq(Message)]] BY TypeFromInv DEF TypeOK
    <2>2. P \notin Process BY Processes DEF Process
    <2> QED BY <2>1, <2>2 DEF Reads
  <1> QED BY <1>1, <1>4, <1>5, <1>6, <1>7, <1>8, CalmHandler

LEMMA CalmStep ==
  ASSUME P <= 3, BInv, BInv', Ballot, Calm, [Next]_vars
  PROVE  Calm'
  <1>1. CASE UNCHANGED vars
    <2>1. Sent' = Sent BY <1>1, SentStays DEF vars
    <2> QED BY <1>1, <2>1 DEF vars, Calm, NobodyPanicked, Agreed
  <1>2. ASSUME NEW p \in Process, Step(p)
        PROVE  Calm'
    <2>1. CASE Start(p) BY <2>1, StartCalm
    <2>2. CASE Exit(p) BY <2>2, CalmExit
    <2>3. ASSUME NEW q \in Peers(p), Read(p, q)
          PROVE  Calm'
      <3>1. ~ReadReset(p, q) BY DEF ReadReset, Calm
      <3>2. Handles(p, q)
        BY <2>3, <3>1, InitialHandled, EchoHandled, ReadyHandled DEF Read
      <3> QED BY <3>2, HandlerCalm DEF Handles
    <2> QED BY <1>2, <2>1, <2>2, <2>3 DEF Step
  <1> QED BY <1>1, <1>2 DEF Next, Quiet

(* In a cluster of two or three no process fails (NoPanic), however many   *)
(* values each of them has and wherever the run starts: every broadcast    *)
(* and every read of main.rs succeeds.  With four nodes it is not so.      *)
THEOREM SmallClustersNeverPanic == P <= 3 => (Spec => []NoPanic)
  <1> SUFFICES ASSUME P <= 3 PROVE Spec => []NoPanic
    OBVIOUS
  <1>1. Init => Calm BY InitCalm
  <1>2. BInv /\ BInv' /\ Ballot /\ Calm /\ [Next]_vars => Calm' BY CalmStep
  <1>3. BInv /\ Ballot /\ [Next]_vars => Ballot' BY BallotStep
  <1>4. Calm => NoPanic BY DEF Calm, NobodyPanicked, NoPanic
  <1> QED BY <1>1, <1>2, <1>3, <1>4, InvCorrect, InitInv, InitBallot, PTL DEF Spec
=============================================================================
