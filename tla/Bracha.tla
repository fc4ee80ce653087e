------------------------------- MODULE Bracha -------------------------------
(***************************************************************************)
(* The Bracha broadcast node, bracha_broadcast/node/src/main.rs, and n of  *)
(* them connected by TCP streams.                                          *)
(*                                                                         *)
(* Process p broadcasts its values one after the other, the first when it  *)
(* enters its main loop and each further one when it delivers the one      *)
(* before.  A value is its own identity: k*n + p for the k-th of process   *)
(* p.  Every process echoes a value, declares itself ready when it has     *)
(* enough echoes (or enough others are ready), and delivers when enough    *)
(* are ready.  A process that has delivered everything exits, which closes *)
(* its streams; an I/O error on a stream is a panic.                       *)
(*                                                                         *)
(* A step handles one message, the finest grain of the loops over streams  *)
(* and over the messages of a read.                                        *)
(***************************************************************************)
EXTENDS Integers, Sequences, FiniteSets

CONSTANTS
  P,         \* process_number
  Msgs,      \* number_of_msg_per_process
  Settled,   \* Settled[p]: values of p that every process has delivered
  Behind     \* the processes that have read nothing more, all the others
             \* having read all there is

Process == 0 .. P - 1

ASSUME BrachaAssumption ==
  /\ P \in Nat /\ P >= 2
  /\ Msgs \in Nat \ {0}
  /\ Settled \in [Process -> 0 .. Msgs]
  /\ Behind \subseteq Process

(* k*n + p, and back.                                                      *)
ValueOf(p, k) == k * P + p
Value == {ValueOf(p, k) : p \in Process, k \in 1 .. Msgs}
Sender(v) == v % P
Rank(v) == v \div P

VARIABLES
  started,    \* started[p]: p has sent its first value
  next,       \* current_msg_id_to_send
  state,      \* msgs_states; "none" for a value without an entry
  echoes,     \* counter_echo_msgs
  readies,    \* counter_ready_msgs
  delivered,  \* msgs_delivered
  life,       \* "running", "exited" or "panicked"
  stream,     \* stream[p][q]: messages written by p that q has not read
  reset       \* reset[p]: peers whose RST is on its way to p or has reached it

vars == <<started, next, state, echoes, readies, delivered, life, stream, reset>>

Msg(type, v) == [type |-> type, v |-> v]

F == P \div 3                          \* max_byzantin_process_number
EchoQuorumStrict == (P + F) \div 2 + 1  \* mutant
EchoQuorum == (P + F) \div 2
ReadyQuorum == F + 1
DeliverQuorumLow == 2 * F              \* mutant
DeliverQuorum == 2 * F + 1

Peers(p) == Process \ {p}

-----------------------------------------------------------------------------
(* All connections are up, and a run may be under way.  A process with     *)
(* some values settled, but not all, broadcast the next one in the step in *)
(* which it delivered the last.  Processes may have fallen behind, when    *)
(* one value is left and the others are enough to deliver it, which is     *)
(* never one alone: it takes a Ready of another and its own.               *)
IsSettled(v) == Rank(v) <= Settled[Sender(v)]
Live == {p \in Process : Settled[p] \in 1 .. Msgs - 1}
Ahead == Process \ Behind

ASSUME BehindAssumption ==
  Behind # {} => /\ Live \subseteq Ahead
                 /\ \E p \in Live : /\ Settled[p] = Msgs - 1
                                   /\ \A q \in Peers(p) : Settled[q] = Msgs
                 /\ Cardinality(Ahead) >= DeliverQuorum /\ Cardinality(Ahead) >= 2

(* Whether p has dealt with v, and how many processes p knows to have.     *)
HasDone(p, v) == IsSettled(v) \/ (Behind # {} /\ p \in Ahead)
Known(p, v) == IF IsSettled(v) THEN P ELSE IF HasDone(p, v) THEN Cardinality(Ahead) ELSE 0

Unseen(p, q) ==
  LET live == IF p \in Live THEN <<Msg("Initial", ValueOf(p, Settled[p] + 1))>> ELSE <<>>
      \* the one value left, when there are processes behind
      votes == IF Behind = {} THEN <<>>
               ELSE LET v == CHOOSE v \in Value : ~IsSettled(v)
                    IN <<Msg("Echo", v), Msg("Ready", v)>>
  IN IF q = p \/ (Behind # {} /\ (p \in Behind \/ q \in Ahead)) THEN <<>> ELSE live \o votes

Init ==
  /\ started = [p \in Process |-> Settled[p] > 0]
  /\ next = [p \in Process |->
       IF Settled[p] = 0 THEN 1 ELSE IF Settled[p] < Msgs THEN Settled[p] + 2 ELSE Msgs + 1]
  /\ state = [p \in Process |-> [v \in Value |-> IF HasDone(p, v) THEN "SentReady" ELSE "none"]]
  /\ echoes = [p \in Process |-> [v \in Value |-> Known(p, v)]]
  /\ readies = echoes
  /\ delivered = [p \in Process |-> {v \in Value : HasDone(p, v)}]
  /\ life = [p \in Process |-> "running"]
  /\ stream = [p \in Process |-> [q \in Process |-> Unseen(p, q)]]
  /\ reset = [p \in Process |-> {}]

(* The streams and resets after p has closed its ends: what it had not     *)
(* read is answered by a reset.                                            *)
Closed(p, streams) == [q \in Process |-> [streams[q] EXCEPT ![p] = <<>>]]
Resets(p, streams) == [q \in Process |->
  IF q # p /\ streams[q][p] # <<>> /\ life[q] = "running" THEN reset[q] \cup {p} ELSE reset[q]]

(* The streams after p has written out to the peers of a set, in which     *)
(* those that are gone swallow it, and the streams read so far.            *)
Written(p, out, to, streams) ==
  [streams EXCEPT ![p] = [q \in Process |->
     IF q \in to /\ life[q] = "running" THEN @[q] \o out ELSE @[q]]]

(* broadcast(): the messages of a handler to all peers, or a panic on a    *)
(* stream that was reset when the last message has reached only some.      *)
Broadcast(p, out, streams) ==
  \/ /\ stream' = Written(p, out, Peers(p), streams)
     /\ reset' = IF out = <<>> THEN reset
                 ELSE [reset EXCEPT ![p] = @ \cup {q \in Peers(p) : life[q] # "running"}]
     /\ UNCHANGED life
  \/ /\ reset[p] # {}
     /\ \E n \in 1 .. Len(out) : \E to \in SUBSET (Peers(p) \ reset[p]) :
          stream' = Closed(p, Written(p, <<out[n]>>, to,
                      Written(p, SubSeq(out, 1, n - 1), Peers(p), streams)))
     /\ reset' = Resets(p, streams)
     /\ life' = [life EXCEPT ![p] = "panicked"]

InMainLoop(p) == life[p] = "running" /\ started[p]

(* The first value is broadcast on entering the main loop.                 *)
Start(p) ==
  /\ life[p] = "running"
  /\ ~started[p]
  /\ started' = [started EXCEPT ![p] = TRUE]
  /\ next' = [next EXCEPT ![p] = @ + 1]
  /\ Broadcast(p, <<Msg("Initial", ValueOf(p, next[p]))>>, stream)
  /\ UNCHANGED <<state, echoes, readies, delivered>>

(* p takes the next message of q, which is of the given type.              *)
Receive(p, q, type) ==
  /\ InMainLoop(p)
  /\ stream[q][p] # <<>>
  /\ Head(stream[q][p]).type = type
Unread(p, q) == [stream EXCEPT ![q][p] = Tail(@)]

(* The value whose delivery lets p go on, and whether p has another one.   *)
IsAny(p, v) == TRUE                                  \* mutant
IsCurrent(p, v) == v = ValueOf(p, next[p] - 1)
HasMoreOrOne(p) == next[p] <= Msgs + 1               \* mutant
HasMore(p) == next[p] <= Msgs

SendTwice(cond, type, v) == IF cond THEN <<Msg(type, v), Msg(type, v)>> ELSE <<>>  \* mutant
Send(cond, type, v) == IF cond THEN <<Msg(type, v)>> ELSE <<>>
One(cond) == IF cond THEN 1 ELSE 0

ReceiveInitial(p, q) ==
  /\ Receive(p, q, "Initial")
  /\ LET v == Head(stream[q][p]).v
         echo == state[p][v] = "none"
     IN /\ state' = IF echo THEN [state EXCEPT ![p][v] = "SentEcho"] ELSE state
        /\ echoes' = [echoes EXCEPT ![p][v] = @ + One(echo)]
        /\ Broadcast(p, Send(echo, "Echo", v), Unread(p, q))
  /\ UNCHANGED <<started, next, readies, delivered>>

(* With enough echoes a process is ready, and echoes if it had not.        *)
ReceiveEcho(p, q) ==
  /\ Receive(p, q, "Echo")
  /\ LET v == Head(stream[q][p]).v
         enough == echoes[p][v] + 1 >= EchoQuorum
         echo  == enough /\ state[p][v] = "none"
         ready == enough /\ state[p][v] # "SentReady"
     IN /\ state' = IF ready THEN [state EXCEPT ![p][v] = "SentReady"] ELSE state
        /\ echoes' = [echoes EXCEPT ![p][v] = @ + 1 + One(echo)]
        /\ readies' = [readies EXCEPT ![p][v] = @ + One(ready)]
        /\ Broadcast(p, Send(echo, "Echo", v) \o Send(ready, "Ready", v), Unread(p, q))
  /\ UNCHANGED <<started, next, delivered>>

(* With enough others ready a process is ready; with more it delivers, and *)
(* broadcasts its next value if this was its own last one.                 *)
ReceiveReady(p, q) ==
  /\ Receive(p, q, "Ready")
  /\ LET v == Head(stream[q][p]).v
         enough  == readies[p][v] + 1 >= ReadyQuorum
         echo    == enough /\ state[p][v] = "none"
         ready   == enough /\ state[p][v] # "SentReady"
         count   == readies[p][v] + 1 + One(ready)
         deliver == count >= DeliverQuorum
         another == deliver /\ IsCurrent(p, v) /\ HasMore(p)
     IN /\ state' = IF ready THEN [state EXCEPT ![p][v] = "SentReady"] ELSE state
        /\ echoes' = [echoes EXCEPT ![p][v] = @ + One(echo)]
        /\ readies' = [readies EXCEPT ![p][v] = count]
        /\ delivered' = [delivered EXCEPT ![p] = IF deliver THEN @ \cup {v} ELSE @]
        /\ next' = [next EXCEPT ![p] = @ + One(another)]
        /\ Broadcast(p, Send(echo, "Echo", v) \o Send(ready, "Ready", v)
                          \o Send(another, "Initial", ValueOf(p, next[p])), Unread(p, q))
  /\ UNCHANGED started

(* A read from a stream that was reset fails once its data has been read.  *)
ReadReset(p, q) ==
  /\ InMainLoop(p)
  /\ q \in reset[p] /\ stream[q][p] = <<>>
  /\ life' = [life EXCEPT ![p] = "panicked"]
  /\ stream' = Closed(p, stream)
  /\ reset' = Resets(p, stream)
  /\ UNCHANGED <<started, next, state, echoes, readies, delivered>>

HasAllAndOne(p) == Cardinality(delivered[p]) > Msgs * P     \* mutant
HasAll(p) == Cardinality(delivered[p]) = Msgs * P

(* Everything is delivered: the process leaves the loop and ends.          *)
Exit(p) ==
  /\ InMainLoop(p)
  /\ HasAll(p)
  /\ life' = [life EXCEPT ![p] = "exited"]
  /\ stream' = Closed(p, stream)
  /\ reset' = Resets(p, stream)
  /\ UNCHANGED <<started, next, state, echoes, readies, delivered>>

Read(p, q) ==
  ReceiveInitial(p, q) \/ ReceiveEcho(p, q) \/ ReceiveReady(p, q) \/ ReadReset(p, q)

(* Every process has ended or is blocked in select(); that they all end is *)
(* for the liveness properties to say.                                     *)
Blocked(p) == /\ started[p] /\ ~HasAll(p)
              /\ \A q \in Peers(p) : stream[q][p] = <<>> /\ q \notin reset[p]
Quiet == (\A p \in Process : life[p] = "running" => Blocked(p)) /\ UNCHANGED vars

Step(p) == Start(p) \/ Exit(p) \/ (\E q \in Peers(p) : Read(p, q))

Next == (\E p \in Process : Step(p)) \/ Quiet

(* A process keeps turning its loop as long as there is something for it.  *)
Fairness == \A p \in Process : WF_vars(Step(p))

Spec == Init /\ [][Next]_vars
FairSpec == Spec /\ Fairness

-----------------------------------------------------------------------------
Message == [type : {"Initial", "Echo", "Ready"}, v : Value]

TypeOK ==
  /\ started \in [Process -> BOOLEAN]
  /\ next \in [Process -> 1 .. Msgs + 1]
  /\ state \in [Process -> [Value -> {"none", "SentEcho", "SentReady"}]]
  /\ echoes \in [Process -> [Value -> Nat]]
  /\ readies \in [Process -> [Value -> Nat]]
  /\ delivered \in [Process -> SUBSET Value]
  /\ life \in [Process -> {"running", "exited", "panicked"}]
  /\ stream \in [Process -> [Process -> Seq(Message)]]
  /\ reset \in [Process -> SUBSET Process]

InFlight(q, p, m) == Cardinality({n \in 1 .. Len(stream[q][p]) : stream[q][p][n] = m})

(* A counter is a quorum.  The code counts messages and not senders, and   *)
(* adds its own vote in three places; still, as long as no process has     *)
(* failed, what p has counted for a value together with what is on its way *)
(* to p is exactly the number of processes that have voted.                *)
CountsAreVoters ==
  (\A p \in Process : life[p] # "panicked") =>
    \A p \in Process : life[p] = "running" => \A v \in Value :
      /\ Cardinality({q \in Process : state[q][v] # "none"}) = echoes[p][v] +
           Cardinality({q \in Peers(p) : InFlight(q, p, Msg("Echo", v)) = 1})
      /\ Cardinality({q \in Process : state[q][v] = "SentReady"}) = readies[p][v] +
           Cardinality({q \in Peers(p) : InFlight(q, p, Msg("Ready", v)) = 1})
      /\ \A q \in Peers(p), type \in {"Initial", "Echo", "Ready"} :
           InFlight(q, p, Msg(type, v)) <= 1

(* No process gives up on an I/O error: none is still writing to, or has   *)
(* left something unread by, a process that has exited.  Every broadcast   *)
(* and read in main.rs ends in .unwrap(), which asserts just that.         *)
NoPanic == \A p \in Process : life[p] # "panicked"

(* Every process delivers every value and ends.                            *)
AllDeliverAll == <>(\A p \in Process : life[p] = "exited" /\ delivered[p] = Value)

(* Even when some process panics none is left waiting: every one ends.     *)
AllEnd == <>(\A p \in Process : life[p] # "running")

(* The values p has broadcast, seen from its counter of messages.          *)
Sent == {v \in Value : Rank(v) < next[Sender(v)]}

RB == INSTANCE ReliableBroadcast WITH sent <- Sent

(* The nodes implement reliable broadcast: nothing is delivered that was   *)
(* not sent, and "a node waits for its current message to be delivered     *)
(* before sending the next one" (README.md:120).                           *)
ImplementsBroadcast == RB!Spec
=============================================================================
