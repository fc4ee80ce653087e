------------------------------ MODULE Launcher ------------------------------
(***************************************************************************)
(* network_simulator/start.py: it creates the network devices, starts the  *)
(* VMs in the background, starts a process that configures the guests over *)
(* ssh, runs the simulator in the foreground and, when that has ended,     *)
(* removes the devices and ends the VMs.  The result of a command is never *)
(* looked at.                                                              *)
(*                                                                         *)
(* Ctrl+C goes to the whole process group: the VMs, the simulator, the     *)
(* process that configures the guests and the command in the foreground    *)
(* die of it.  start.py itself ignores it during os.system() and dies of   *)
(* it anywhere else.  It can then be started again, among what is left.    *)
(***************************************************************************)
EXTENDS Integers, FiniteSets

CONSTANTS
  V,          \* VM_COUNT
  MaxPresses, \* bound: times Ctrl+C is pressed
  MaxRuns     \* bound: times start.py is started

ASSUME LauncherAssumption ==
  V \in Nat \ {0} /\ MaxPresses \in Nat /\ MaxRuns \in Nat \ {0}

VM == 0 .. V - 1

VARIABLES
  pc,        \* where start.py is
  i,         \* its loop variable, or its place in cleaning_cmds
  taps,      \* TAP devices that exist: tap0 .. for the VMs, tapV .. beside them
  bridges,   \* bridges that exist
  rules,     \* TAPs with a policy rule `iif tap.. lookup 13'
  vm,        \* the process of each VM
  simulator, \* the simulator
  tried,     \* number of VMs whose QMP server it has tried to connect to
  connected, \* those it is connected to
  setup,     \* the process that runs set_tap_interface_in_guests
  reached,   \* its loop variable: guests before it have been configured
  sshUp,     \* guests whose ssh server runs
  pending,   \* commands started in each guest and not finished
  net,       \* what each guest's interface has: "up", "addr", "route"
  ready,     \* READY! has been printed
  disturbed, \* Ctrl+C was pressed after the simulator had ended
  presses, runs

guestVars == <<sshUp, pending, net>>
vars == <<pc, i, taps, bridges, rules, vm, simulator, tried, connected, setup, reached,
          sshUp, pending, net, ready, disturbed, presses, runs>>

Init ==
  /\ pc = "taps" /\ i = 0
  /\ taps = {} /\ bridges = {} /\ rules = {}
  /\ vm = [v \in VM |-> "off"]
  /\ simulator = "none" /\ tried = 0 /\ connected = {}
  /\ setup = "none" /\ reached = 0
  /\ sshUp = {} /\ pending = [v \in VM |-> {}] /\ net = [v \in VM |-> {}]
  /\ ready = FALSE /\ disturbed = FALSE
  /\ presses = 0 /\ runs = 1

(* The next turn of a loop of n turns, or what comes after it.             *)
Turn(n, after) ==
  IF i + 1 < n THEN i' = i + 1 /\ pc' = pc ELSE i' = 0 /\ pc' = after

-----------------------------------------------------------------------------
(* Setting up.  A command that an interruption kills has no effect, and so *)
(* has one that finds what it adds already there.                          *)
TapCountAndOne == 2 * V + 1     \* mutant
TapCount == 2 * V

(* A TAP beside the VMs also gets a route of its own in table 13, which    *)
(* goes when the device goes, and the rule that sends what comes in there  *)
(* to that table: the kernel keeps it by the name, with or without device. *)
CreateTap(added, ruled) ==
  /\ pc = "taps"
  /\ taps' = IF added THEN taps \cup {i} ELSE taps
  /\ rules' = IF ruled /\ i >= V THEN rules \cup {i} ELSE rules
  /\ Turn(TapCount, "bridges")
  /\ UNCHANGED bridges

CreateBridge(added) ==
  /\ pc = "bridges"
  /\ bridges' = IF added THEN bridges \cup {i} ELSE bridges
  /\ Turn(V, "vms")
  /\ UNCHANGED <<taps, rules>>

Devices == (CreateTap(TRUE, TRUE) \/ CreateBridge(TRUE))
           /\ UNCHANGED <<vm, simulator, tried, connected, setup, reached, guestVars,
                          ready, disturbed, presses, runs>>

(* A VM is started in the background; one that still has the ports of an   *)
(* earlier run makes the new one end at once.                              *)
StartVM ==
  /\ pc = "vms"
  /\ vm' = [vm EXCEPT ![i] = IF @ = "off" THEN "starting" ELSE @]
  /\ sshUp' = IF vm[i] = "off" THEN sshUp \ {i} ELSE sshUp
  /\ pending' = IF vm[i] = "off" THEN [pending EXCEPT ![i] = {}] ELSE pending
  /\ net' = IF vm[i] = "off" THEN [net EXCEPT ![i] = {}] ELSE net
  /\ Turn(V, "sleep")
  /\ UNCHANGED <<taps, bridges, rules, simulator, tried, connected, setup, reached, ready,
                 disturbed, presses, runs>>

(* Half a second, whether or not the QMP servers listen by then.           *)
Sleep ==
  /\ pc = "sleep"
  /\ pc' = "setup"
  /\ UNCHANGED <<i, taps, bridges, rules, vm, simulator, tried, connected, setup, reached,
                 guestVars, ready, disturbed, presses, runs>>

StartSetup ==
  /\ pc = "setup"
  /\ setup' = "running"
  /\ pc' = "simulate"
  /\ UNCHANGED <<i, taps, bridges, rules, vm, simulator, tried, connected, reached,
                 guestVars, ready, disturbed, presses, runs>>

StartSimulator ==
  /\ pc = "simulate" /\ simulator = "none"
  /\ simulator' = "connecting"
  /\ UNCHANGED <<pc, i, taps, bridges, rules, vm, tried, connected, setup, reached,
                 guestVars, ready, disturbed, presses, runs>>

(* os.system() returns when the simulator has ended.                       *)
SimulatorEnded ==
  /\ pc = "simulate" /\ simulator = "ended"
  /\ pc' = "terminate"
  /\ UNCHANGED <<i, taps, bridges, rules, vm, simulator, tried, connected, setup, reached,
                 guestVars, ready, disturbed, presses, runs>>

\* mutant: p.join() without p.terminate()
NoTerminate ==
  /\ pc = "terminate"
  /\ pc' = "join"
  /\ UNCHANGED <<i, taps, bridges, rules, vm, simulator, tried, connected, setup, reached,
                 guestVars, ready, disturbed, presses, runs>>

Terminate ==
  /\ pc = "terminate"
  /\ setup' = "ended"
  /\ pc' = "join"
  /\ UNCHANGED <<i, taps, bridges, rules, vm, simulator, tried, connected, reached,
                 guestVars, ready, disturbed, presses, runs>>

Join ==
  /\ pc = "join"
  /\ setup = "ended"
  /\ pc' = "clean"
  /\ UNCHANGED <<i, taps, bridges, rules, vm, simulator, tried, connected, setup, reached,
                 guestVars, ready, disturbed, presses, runs>>

-----------------------------------------------------------------------------
(* cleaning_cmds: the TAPs, the bridges, the VMs; none of the commands     *)
(* deletes a rule.                                                         *)
Signalled(p) == IF p = "off" THEN "off" ELSE "dying"

\* mutant: the TAPs of the VMs only
CleanOwnTaps(works) ==
  /\ pc = "clean"
  /\ taps' = IF works /\ i < V THEN taps \ {i} ELSE taps
  /\ bridges' = IF works /\ i \in TapCount .. TapCount + V - 1
                THEN bridges \ {i - TapCount} ELSE bridges
  /\ vm' = IF works /\ i = TapCount + V THEN [v \in VM |-> Signalled(vm[v])] ELSE vm
  /\ Turn(TapCount + V + 1, "done")

Clean(works) ==
  /\ pc = "clean"
  /\ taps' = IF works /\ i < TapCount THEN taps \ {i} ELSE taps
  /\ bridges' = IF works /\ i \in TapCount .. TapCount + V - 1
                THEN bridges \ {i - TapCount} ELSE bridges
  /\ vm' = IF works /\ i = TapCount + V THEN [v \in VM |-> Signalled(vm[v])] ELSE vm
  /\ Turn(TapCount + V + 1, "done")

Cleaning == Clean(TRUE) /\ UNCHANGED <<rules, simulator, tried, connected, setup, reached,
                                       guestVars, ready, disturbed, presses, runs>>

-----------------------------------------------------------------------------
(* The simulator: it tries to connect to one QMP server after the other;   *)
(* a connection that failed is reported, and the first command sent to it  *)
(* is the end of the simulator (SIGPIPE).                                  *)
ConnectQMP ==
  /\ simulator = "connecting" /\ tried < V
  /\ tried' = tried + 1
  /\ \/ vm[tried] \in {"listening", "dying"} /\ connected' = connected \cup {tried}
     \/ vm[tried] # "listening" /\ UNCHANGED connected
  /\ UNCHANGED <<pc, i, taps, bridges, rules, vm, simulator, setup, reached, guestVars,
                 ready, disturbed, presses, runs>>

NegotiateQMP ==
  /\ simulator = "connecting" /\ tried = V
  /\ simulator' = IF connected = VM THEN "running" ELSE "ended"
  /\ UNCHANGED <<pc, i, taps, bridges, rules, vm, tried, connected, setup, reached,
                 guestVars, ready, disturbed, presses, runs>>

(* The process that configures the guests: it waits for one ssh server     *)
(* after the other, starts three commands there and does not wait for      *)
(* them.                                                                   *)
ConfigureGuest ==
  /\ setup = "running" /\ reached < V
  /\ reached \in sshUp /\ simulator = "running"
  /\ pending' = [pending EXCEPT ![reached] = {"link", "addr", "route"}]
  /\ reached' = reached + 1
  /\ UNCHANGED <<pc, i, taps, bridges, rules, vm, simulator, tried, connected, setup, sshUp,
                 net, ready, disturbed, presses, runs>>

(* Refused connections and timeouts are tried again; any other exception,  *)
(* of the socket or of paramiko, ends the process.                         *)
SetupFails ==
  /\ setup = "running" /\ reached < V
  /\ setup' = "ended"
  /\ UNCHANGED <<pc, i, taps, bridges, rules, vm, simulator, tried, connected, reached,
                 guestVars, ready, disturbed, presses, runs>>

Ready ==
  /\ setup = "running" /\ reached = V
  /\ ready' = TRUE
  /\ setup' = "ended"
  /\ UNCHANGED <<pc, i, taps, bridges, rules, vm, simulator, tried, connected, reached,
                 guestVars, disturbed, presses, runs>>

-----------------------------------------------------------------------------
(* QEMU and the guests, external to start.py.  A guest only runs in the    *)
(* slices of the simulator, and its three commands run side by side.       *)
Listen(v) ==
  /\ vm[v] = "starting"
  /\ vm' = [vm EXCEPT ![v] = "listening"]
  /\ UNCHANGED <<pc, i, taps, bridges, rules, simulator, tried, connected, setup, reached,
                 guestVars, ready, disturbed, presses, runs>>

Die(v) ==
  /\ vm[v] = "dying"
  /\ vm' = [vm EXCEPT ![v] = "off"]
  /\ UNCHANGED <<pc, i, taps, bridges, rules, simulator, tried, connected, setup, reached,
                 guestVars, ready, disturbed, presses, runs>>

Runs(v) == simulator = "running" /\ vm[v] = "listening"

Boot(v) ==
  /\ Runs(v) /\ v \notin sshUp
  /\ sshUp' = sshUp \cup {v}
  /\ UNCHANGED <<pc, i, taps, bridges, rules, vm, simulator, tried, connected, setup,
                 reached, pending, net, ready, disturbed, presses, runs>>

\* mutant: an address without a prefix length has no network behind it
AfterHostAddress(n, c) ==
  CASE c = "link"  -> n \cup {"up"}
    [] c = "addr"  -> n \cup {"addr"}
    [] c = "route" -> IF "up" \in n THEN n \cup {"route"} ELSE n

(* The kernel adds the route to the network of an address as soon as the   *)
(* interface has both the address and is up; a route through an interface  *)
(* that is down is refused.                                                *)
After(n, c) ==
  CASE c = "link"  -> n \cup {"up"} \cup (IF "addr" \in n THEN {"route"} ELSE {})
    [] c = "addr"  -> n \cup {"addr"} \cup (IF "up" \in n THEN {"route"} ELSE {})
    [] c = "route" -> IF "up" \in n THEN n \cup {"route"} ELSE n

GuestCommand(v, c) ==
  /\ Runs(v) /\ c \in pending[v]
  /\ pending' = [pending EXCEPT ![v] = @ \ {c}]
  /\ net' = [net EXCEPT ![v] = After(@, c)]
  /\ UNCHANGED <<pc, i, taps, bridges, rules, vm, simulator, tried, connected, setup,
                 reached, sshUp, ready, disturbed, presses, runs>>

-----------------------------------------------------------------------------
(* Ctrl+C.                                                                 *)
Ended == pc \in {"done", "aborted"}

(* What it does to the others; a VM that is still starting has it ignored, *)
(* as the shell arranges for background commands.                          *)
Group ==
  /\ \E s \in SUBSET {v \in VM : vm[v] = "starting"} :
       vm' = [v \in VM |-> IF v \in s THEN vm[v] ELSE Signalled(vm[v])]
  /\ simulator' = IF simulator = "none" THEN "none" ELSE "ended"
  /\ setup' = IF setup = "none" THEN "none" ELSE "ended"
  /\ disturbed' = (disturbed \/ pc \in {"terminate", "join", "clean"})
  /\ presses' = presses + 1
  /\ UNCHANGED <<tried, connected, reached, guestVars, ready, runs>>

(* During os.system(): the command dies, start.py goes on with the next.   *)
(* It may be the command that adds the device or the rule, or any other.   *)
InterruptCommand ==
  /\ presses < MaxPresses
  /\ \/ \E added, ruled \in BOOLEAN : CreateTap(added, ruled)
     \/ \E added \in BOOLEAN : CreateBridge(added)
     \/ pc = "clean" /\ Turn(TapCount + V + 1, "done") /\ UNCHANGED <<taps, bridges, rules>>
     \/ pc = "simulate" /\ simulator # "none" /\ UNCHANGED <<pc, i, taps, bridges, rules>>
  /\ Group

(* Anywhere else: KeyboardInterrupt.                                       *)
Interrupt ==
  /\ presses < MaxPresses
  /\ ~Ended /\ ~(pc = "simulate" /\ simulator # "none")
  /\ pc' = "aborted"
  /\ UNCHANGED <<i, taps, bridges, rules>>
  /\ Group

(* start.py is started again.                                              *)
Restart ==
  /\ Ended
  /\ runs < MaxRuns
  /\ runs' = runs + 1
  /\ pc' = "taps" /\ i' = 0
  /\ simulator' = "none" /\ tried' = 0 /\ connected' = {}
  /\ setup' = "none" /\ reached' = 0
  /\ ready' = FALSE /\ disturbed' = FALSE
  /\ UNCHANGED <<taps, bridges, rules, vm, guestVars, presses>>

-----------------------------------------------------------------------------
Script ==
  \/ Devices \/ StartVM \/ Sleep \/ StartSetup \/ StartSimulator
  \/ SimulatorEnded \/ Terminate \/ Join \/ Cleaning
TheSimulator == ConnectQMP \/ NegotiateQMP
TheSetup == ConfigureGuest \/ Ready
Qemu(v) == Listen(v) \/ Die(v)
Guest(v) == Boot(v) \/ \E c \in {"link", "addr", "route"} : GuestCommand(v, c)

Finished == Ended /\ runs = MaxRuns /\ UNCHANGED vars

(* The simulation goes on until something interrupts it.                   *)
Simulating == pc = "simulate" /\ simulator = "running" /\ UNCHANGED vars

Next ==
  \/ Script \/ TheSimulator \/ TheSetup \/ SetupFails
  \/ \E v \in VM : Qemu(v) \/ Guest(v)
  \/ InterruptCommand \/ Interrupt \/ Restart \/ Finished \/ Simulating

(* All the processes keep running; nobody has to press Ctrl+C, nor to      *)
(* start the simulation again.                                             *)
Fairness ==
  /\ WF_vars(Script) /\ WF_vars(TheSimulator) /\ WF_vars(TheSetup)
  /\ \A v \in VM : WF_vars(Qemu(v)) /\ WF_vars(Guest(v))

Spec == Init /\ [][Next]_vars /\ Fairness

-----------------------------------------------------------------------------
TypeOK ==
  /\ pc \in {"taps", "bridges", "vms", "sleep", "setup", "simulate", "terminate",
             "join", "clean", "done", "aborted"}
  /\ i \in 0 .. 3 * V /\ taps \subseteq 0 .. 2 * V - 1 /\ bridges \subseteq VM
  /\ rules \subseteq V .. 2 * V - 1
  /\ vm \in [VM -> {"off", "starting", "listening", "dying"}]
  /\ simulator \in {"none", "connecting", "running", "ended"}
  /\ tried \in 0 .. V /\ connected \subseteq VM
  /\ setup \in {"none", "running", "ended"} /\ reached \in 0 .. V
  /\ sshUp \subseteq VM
  /\ pending \in [VM -> SUBSET {"link", "addr", "route"}]
  /\ net \in [VM -> SUBSET {"up", "addr", "route"}]
  /\ ready \in BOOLEAN /\ disturbed \in BOOLEAN
  /\ presses \in 0 .. MaxPresses /\ runs \in 1 .. MaxRuns

(* start.py leaves no device and no process behind: when it has ended in   *)
(* order, no TAP or bridge is left, not even one of an earlier run that    *)
(* was interrupted, and no VM that is not ending; and however it ended,    *)
(* neither the simulator nor the other process goes on.  Only Ctrl+C       *)
(* during the cleaning itself can make it leave devices.  The policy rules *)
(* stay after every run: nothing deletes them, and this says nothing else. *)
CleanedUp ==
  /\ pc = "done" /\ ~disturbed =>
       taps = {} /\ bridges = {} /\ \A v \in VM : vm[v] \in {"off", "dying"}
  /\ Ended => setup # "running" /\ simulator \notin {"connecting", "running"}

(* Whatever ends the simulator, Ctrl+C or a VM whose QMP server it could   *)
(* not reach, start.py ends too, although the process it waits for would   *)
(* try to reach the guests for ever.                                       *)
StopsWithSimulator == simulator = "ended" ~> Ended

(* README: READY! "means that all VMs started".  As long as the simulator  *)
(* runs, every guest then gets its address and its route, in whichever     *)
(* order the commands nobody waits for are executed.                       *)
GuestsConfigured ==
  ready ~> \/ \A v \in VM : net[v] = {"up", "addr", "route"}
           \/ simulator # "running" \/ \E v \in VM : vm[v] # "listening"
=============================================================================
