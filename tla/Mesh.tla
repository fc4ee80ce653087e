-------------------------------- MODULE Mesh --------------------------------
(***************************************************************************)
(* How the processes of one run of the broadcast get connected: the start  *)
(* of main() in node/src/main.rs and the order in which                    *)
(* run/bracha_broadcast_sim.py starts them.                                *)
(*                                                                         *)
(* The script first runs the setup script on every node, which kills what  *)
(* is left of an earlier run, and launches the processes when all the      *)
(* setups have ended.  A process binds its listener, connects to every     *)
(* process that comes after it, trying again every half second while it is *)
(* refused, and then accepts connections until it has one stream to every  *)
(* other process.  The kernel completes a connection as soon as the        *)
(* listener is bound; it then waits in the backlog until it is accepted.   *)
(***************************************************************************)
EXTENDS Integers, FiniteSets

CONSTANT P      \* process_number

ASSUME MeshAssumption == P \in Nat \ {0}

Process == 0 .. P - 1

VARIABLES
  phase,      \* the run script: "setup" until every setup has ended
  setUp,      \* the nodes whose setup script has ended
  old,        \* the nodes where a process of an earlier run still listens
  pc,         \* where each process is in main()
  next,       \* i of the connecting loop
  backlog,    \* backlog[p]: the peers whose connection p has yet to accept
  streams     \* tcp_streams[p], by peer

meshVars == <<phase, setUp, old, pc, next, backlog, streams>>

FirstPeerItself(p) == p          \* mutant: off by one in the connecting loop
FirstPeer(p) == p + 1

MeshInit ==
  /\ phase = "setup"
  /\ setUp = {}
  /\ old \in SUBSET Process
  /\ pc = [p \in Process |-> "down"]
  /\ next = [p \in Process |-> FirstPeer(p)]
  /\ backlog = [p \in Process |-> {}]
  /\ streams = [p \in Process |-> {}]

-----------------------------------------------------------------------------
(* The run script and the scripts it runs on the nodes.                    *)

(* script_sim_setup.sh kills the process of an earlier run.  kill does not *)
(* wait for it: that it has ended when every setup has, an ssh connection  *)
(* and a shell before the new one binds, is an assumption about the node.  *)
Setup(p) ==
  /\ phase = "setup"
  /\ p \notin setUp
  /\ setUp' = setUp \cup {p}
  /\ old' = old \ {p}
  /\ UNCHANGED <<phase, pc, next, backlog, streams>>

(* readlines() has returned for every channel.                             *)
SetupsEnded ==
  /\ phase = "setup"
  /\ setUp = Process
  /\ phase' = "launch"
  /\ UNCHANGED <<setUp, old, pc, next, backlog, streams>>

\* mutant: a node is launched as soon as its own setup has ended
LaunchEarly(p) ==
  /\ p \in setUp
  /\ pc[p] = "down"
  /\ pc' = [pc EXCEPT ![p] = IF p \in old THEN "panicked" ELSE "connect"]
  /\ UNCHANGED <<phase, setUp, old, next, backlog, streams>>

(* The process starts and binds its listener; unwrap() if it cannot.       *)
Launch(p) ==
  /\ phase = "launch"
  /\ pc[p] = "down"
  /\ pc' = [pc EXCEPT ![p] = IF p \in old THEN "panicked" ELSE "connect"]
  /\ UNCHANGED <<phase, setUp, old, next, backlog, streams>>

-----------------------------------------------------------------------------
(* main().                                                                 *)

Bound(q) == pc[q] \in {"connect", "sleep", "accept", "loop"}

(* connect() to the next process succeeds: with the new process there, or  *)
(* with an old one that would still be listening.                          *)
Connect(p) ==
  /\ pc[p] = "connect" /\ next[p] < P
  /\ LET q == next[p] IN
       /\ Bound(q) \/ q \in old
       /\ streams' = [streams EXCEPT ![p] = @ \cup {q}]
       /\ backlog' = IF Bound(q) THEN [backlog EXCEPT ![q] = @ \cup {p}] ELSE backlog
  /\ next' = [next EXCEPT ![p] = @ + 1]
  /\ UNCHANGED <<phase, setUp, old, pc>>

(* It is refused; sleep half a second and try again.                       *)
Refused(p) ==
  /\ pc[p] = "connect" /\ next[p] < P
  /\ ~Bound(next[p]) /\ next[p] \notin old
  /\ pc' = [pc EXCEPT ![p] = "sleep"]
  /\ UNCHANGED <<phase, setUp, old, next, backlog, streams>>

Wake(p) ==
  /\ pc[p] = "sleep"
  /\ pc' = [pc EXCEPT ![p] = "connect"]
  /\ UNCHANGED <<phase, setUp, old, next, backlog, streams>>

\* mutant: always accept, whatever is there already
ConnectedWaiting(p) ==
  /\ pc[p] = "connect" /\ next[p] = P
  /\ pc' = [pc EXCEPT ![p] = "accept"]
  /\ UNCHANGED <<phase, setUp, old, next, backlog, streams>>

(* The connecting loop is over; the listener is needed if streams lack.    *)
Connected(p) ==
  /\ pc[p] = "connect" /\ next[p] = P
  /\ pc' = [pc EXCEPT ![p] =
       IF Cardinality(streams[p]) < P - 1 THEN "accept" ELSE "loop"]
  /\ UNCHANGED <<phase, setUp, old, next, backlog, streams>>

\* mutant: off by one in the number of streams to wait for
AcceptOneTooFew(p, q) ==
  /\ pc[p] = "accept"
  /\ q \in backlog[p]
  /\ backlog' = [backlog EXCEPT ![p] = @ \ {q}]
  /\ streams' = [streams EXCEPT ![p] = @ \cup {q}]
  /\ pc' = [pc EXCEPT ![p] =
       IF Cardinality(streams[p] \cup {q}) >= P - 2 THEN "loop" ELSE "accept"]
  /\ UNCHANGED <<phase, setUp, old, next>>

(* accept() a connection of the backlog; break when there are P - 1.       *)
Accept(p, q) ==
  /\ pc[p] = "accept"
  /\ q \in backlog[p]
  /\ backlog' = [backlog EXCEPT ![p] = @ \ {q}]
  /\ streams' = [streams EXCEPT ![p] = @ \cup {q}]
  /\ pc' = [pc EXCEPT ![p] =
       IF Cardinality(streams[p] \cup {q}) = P - 1 THEN "loop" ELSE "accept"]
  /\ UNCHANGED <<phase, setUp, old, next>>

-----------------------------------------------------------------------------
ScriptStep == SetupsEnded \/ \E p \in Process : Setup(p) \/ Launch(p)

ProcessStep(p) ==
  \/ Connect(p) \/ Refused(p) \/ Wake(p) \/ Connected(p)
  \/ \E q \in Process : Accept(p, q)

MeshNext == ScriptStep \/ \E p \in Process : ProcessStep(p)

MeshSpec == MeshInit /\ [][MeshNext]_meshVars

(* The script, the nodes and the processes keep running.                   *)
MeshFairness ==
  /\ WF_meshVars(ScriptStep)
  /\ \A p \in Process : WF_meshVars(ProcessStep(p))

-----------------------------------------------------------------------------
MeshTypeOK ==
  /\ phase \in {"setup", "launch"}
  /\ setUp \subseteq Process
  /\ old \subseteq Process
  /\ pc \in [Process -> {"down", "panicked", "connect", "sleep", "accept", "loop"}]
  /\ next \in [Process -> 1 .. P]
  /\ backlog \in [Process -> SUBSET Process]
  /\ streams \in [Process -> SUBSET Process]

(* A stream always has its other end in the process of the same run: it is *)
(* there, or waits in the backlog of a listener that will accept it.       *)
(* Nobody is connected to a process of an earlier run, nor to itself.      *)
NoStrayStream ==
  \A p, q \in Process : q \in streams[p] =>
    p # q /\ (p \in streams[q] \/ p \in backlog[q])

(* A process broadcasts its first message when it enters its loop, to the  *)
(* streams it has then: it has one to every other process.                 *)
MeshComplete == \A p \in Process : pc[p] = "loop" => streams[p] = Process \ {p}

(* How far a process has got, in terms of the streams there are: the       *)
(* inductive invariant of LinksProofs.                                     *)
MeshProgress ==
  /\ phase = "launch" => setUp = Process
  /\ setUp \cap old = {}
  /\ \A p \in Process :
       /\ pc[p] # "panicked"
       /\ pc[p] # "down" => phase = "launch"
       /\ pc[p] = "down" => next[p] = p + 1 /\ backlog[p] = {}
       /\ next[p] > p
       /\ \A q \in Process : q > p => (q \in streams[p] <=> q < next[p])
       /\ \A q \in Process : q < p =>
            (q \in streams[p] \cup backlog[p] <=> p \in streams[q])
       /\ backlog[p] \subseteq 0 .. p - 1
       /\ p \notin streams[p]
       /\ pc[p] \in {"accept", "loop"} => next[p] = P
       /\ pc[p] = "loop" => Cardinality(streams[p]) = P - 1

(* Every process gets all its streams and enters its loop, whatever order  *)
(* the processes are started in.                                           *)
AllLinked == <>(\A p \in Process : pc[p] = "loop")
=============================================================================
