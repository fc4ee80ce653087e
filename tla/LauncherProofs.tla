--------------------------- MODULE LauncherProofs ---------------------------
(* Proofs that start.py removes its devices and ends its processes, for any *)
(* number of VMs, of starts and of interruptions; its policy rules stay.    *)
EXTENDS Launcher, TLAPS

USE LauncherAssumption DEF VM, TapCount

(* Where the loops of start.py are: a loop variable starts at 0 and stays   *)
(* below the number of turns.                                               *)
LoopOK ==
  /\ pc = "taps" => i < TapCount
  /\ pc \in {"bridges", "vms"} => i < V
  /\ pc \in {"sleep", "setup", "simulate", "terminate", "join"} => i = 0

(* What the cleaning has already undone, as long as nothing disturbs it.    *)
Undone ==
  pc = "clean" /\ ~disturbed =>
    (\A t \in taps : t >= i) /\ (\A b \in bridges : TapCount + b >= i)

(* The other processes end before the cleaning, or with an interruption.    *)
OthersEnded ==
  /\ pc \in {"terminate", "join", "clean", "done"} => simulator = "ended"
  /\ pc \in {"clean", "done"} => setup = "ended"
  /\ Ended => setup # "running" /\ simulator \notin {"connecting", "running"}

IInv == TypeOK /\ LoopOK /\ Undone /\ OthersEnded /\ CleanedUp

-----------------------------------------------------------------------------
LEMMA InitInv == Init => IInv
  <1> SUFFICES ASSUME Init PROVE IInv
    OBVIOUS
  <1>1. TypeOK
    <2>1. vm \in [VM -> {"off", "starting", "listening", "dying"}] BY DEF Init
    <2>2. pending \in [VM -> SUBSET {"link", "addr", "route"}] BY DEF Init
    <2>3. net \in [VM -> SUBSET {"up", "addr", "route"}] BY DEF Init
    <2>4. i \in 0 .. 3 * V /\ tried \in 0 .. V /\ reached \in 0 .. V /\ runs \in 1 .. MaxRuns
          /\ presses \in 0 .. MaxPresses
      BY DEF Init
    <2> QED BY <2>1, <2>2, <2>3, <2>4 DEF Init, TypeOK
  <1>2. LoopOK BY DEF Init, LoopOK
  <1>3. Undone /\ OthersEnded /\ CleanedUp
    BY DEF Init, Undone, OthersEnded, CleanedUp, Ended
  <1> QED BY <1>1, <1>2, <1>3 DEF IInv

(* The actions of start.py itself.                                          *)
LEMMA ScriptInv ==
  ASSUME IInv, Script
  PROVE  IInv'
  <1> USE DEF IInv, TypeOK, LoopOK, Undone, OthersEnded, CleanedUp, Ended, guestVars, Turn
  <1>1. CASE CreateTap(TRUE, TRUE) /\ Devices
    BY <1>1 DEF CreateTap, CreateBridge, Devices
  <1>2. CASE CreateBridge(TRUE) /\ Devices
    BY <1>2 DEF CreateTap, CreateBridge, Devices
  <1>3. CASE StartVM BY <1>3 DEF StartVM
  <1>4. CASE Sleep BY <1>4 DEF Sleep
  <1>5. CASE StartSetup BY <1>5 DEF StartSetup
  <1>6. CASE StartSimulator BY <1>6 DEF StartSimulator
  <1>7. CASE SimulatorEnded BY <1>7 DEF SimulatorEnded
  <1>8. CASE Terminate BY <1>8 DEF Terminate
  <1>9. CASE Join BY <1>9 DEF Join
  <1>10. CASE Cleaning
    <2> USE <1>10 DEF Cleaning, Clean
    <2>vm. vm' \in [VM -> {"off", "starting", "listening", "dying"}]
      BY DEF Signalled
    <2>1. CASE i < TapCount + V
      <3>1. vm' = vm /\ i' = i + 1 /\ pc' = pc BY <2>1
      <3>2. TypeOK' BY <3>1, <2>1
      <3>3. Undone' BY <3>1
      <3> QED BY <3>1, <3>2, <3>3
    <2>2. CASE i = TapCount + V
      <3>1. (taps = {} /\ bridges = {}) \/ disturbed BY <2>2
      <3>2. \A v \in VM : vm'[v] \in {"off", "dying"} BY <2>2 DEF Signalled
      <3>3. i' = 0 /\ pc' = "done" BY <2>2
      <3>4. TypeOK' BY <3>3, <2>vm
      <3> QED BY <3>1, <3>2, <3>3, <3>4
    <2> QED BY <2>1, <2>2
  <1> QED
    BY <1>1, <1>2, <1>3, <1>4, <1>5, <1>6, <1>7, <1>8, <1>9, <1>10 DEF Script, Devices

(* The simulator, the process that configures the guests, QEMU, the guests. *)
LEMMA OthersInv ==
  ASSUME IInv,
         TheSimulator \/ TheSetup \/ SetupFails \/ \E v \in VM : Qemu(v) \/ Guest(v)
  PROVE  IInv'
  <1> USE DEF IInv, TypeOK, LoopOK, Undone, OthersEnded, CleanedUp, Ended, guestVars
  <1>1. CASE ConnectQMP
    <2>1. tried \in VM /\ tried' = tried + 1 BY <1>1 DEF ConnectQMP
    <2>2. tried' \in 0 .. V BY <2>1
    <2>3. connected' \in {connected, connected \cup {tried}} BY <1>1 DEF ConnectQMP
    <2>4. connected' \subseteq VM BY <2>1, <2>3
    <2> QED BY <1>1, <2>2, <2>4 DEF ConnectQMP
  <1>2. CASE NegotiateQMP BY <1>2 DEF NegotiateQMP
  <1>3. CASE ConfigureGuest BY <1>3 DEF ConfigureGuest
  <1>4. CASE SetupFails BY <1>4 DEF SetupFails
  <1>5. CASE Ready BY <1>5 DEF Ready
  <1>6. ASSUME NEW v \in VM, Listen(v) PROVE IInv' BY <1>6 DEF Listen
  <1>7. ASSUME NEW v \in VM, Die(v) PROVE IInv' BY <1>7 DEF Die
  <1>8. ASSUME NEW v \in VM, Boot(v) PROVE IInv' BY <1>8 DEF Boot, Runs
  <1>9. ASSUME NEW v \in VM, NEW c \in {"link", "addr", "route"}, GuestCommand(v, c)
        PROVE  IInv'
    <2>1. net' \in [VM -> SUBSET {"up", "addr", "route"}]
      BY <1>9 DEF GuestCommand, After
    <2> QED BY <1>9, <2>1 DEF GuestCommand, Runs
  <1> QED
    BY <1>1, <1>2, <1>3, <1>4, <1>5, <1>6, <1>7, <1>8, <1>9
    DEF TheSimulator, TheSetup, Qemu, Guest

(* Ctrl+C, and the next start.                                              *)
LEMMA InterruptInv ==
  ASSUME IInv, InterruptCommand \/ Interrupt \/ Restart
  PROVE  IInv'
  <1> USE DEF IInv, TypeOK, LoopOK, Undone, OthersEnded, CleanedUp, Ended, guestVars
  <1>1. CASE InterruptCommand \/ Interrupt
    <2>1. Group BY <1>1 DEF InterruptCommand, Interrupt
    <2>vm. vm' \in [VM -> {"off", "starting", "listening", "dying"}]
      BY <2>1 DEF Group, Signalled
    <2>2. /\ simulator' \in {"none", "ended"} /\ (simulator = "ended" => simulator' = "ended")
          /\ setup' \in {"none", "ended"} /\ (setup = "ended" => setup' = "ended")
          /\ UNCHANGED <<tried, connected, reached, guestVars, ready, runs>>
      BY <2>1 DEF Group
    <2>3. /\ presses < MaxPresses /\ presses' = presses + 1
          /\ disturbed' = (disturbed \/ pc \in {"terminate", "join", "clean"})
      BY <1>1, <2>1 DEF InterruptCommand, Interrupt, Group
    <2>4. /\ ~(pc = "done")
          /\ \/ pc' \in {"aborted", pc} /\ i' = i
             \/ pc \in {"taps", "bridges", "clean"} /\ pc' = pc /\ i' = i + 1 /\ LoopOK'
                /\ (pc = "clean" => i' \in 0 .. TapCount + V)
             \/ pc = "taps" /\ pc' = "bridges" /\ i' = 0
             \/ pc = "bridges" /\ pc' = "vms" /\ i' = 0
             \/ pc = "clean" /\ pc' = "done" /\ i' = 0
      BY <1>1 DEF InterruptCommand, Interrupt, CreateTap, CreateBridge, Turn
    <2>dev. \/ UNCHANGED <<taps, bridges, rules>>
            \/ pc = "taps" /\ taps' \in {taps, taps \cup {i}} /\ UNCHANGED bridges
               /\ rules' \in {rules, rules \cup ({i} \cap V .. 2 * V - 1)}
            \/ pc = "bridges" /\ bridges' \in {bridges, bridges \cup {i}}
               /\ UNCHANGED <<taps, rules>>
      BY <1>1 DEF InterruptCommand, Interrupt, CreateTap, CreateBridge
    <2>num. /\ taps' \subseteq 0 .. 2 * V - 1 /\ bridges' \subseteq VM
            /\ rules' \subseteq V .. 2 * V - 1
            /\ pc = "clean" => UNCHANGED <<taps, bridges>>
      <3>1. pc = "taps" => i \in 0 .. 2 * V - 1 OBVIOUS
      <3>2. pc = "bridges" => i \in VM OBVIOUS
      <3>3. taps' \subseteq 0 .. 2 * V - 1 BY <2>dev, <3>1
      <3>4. bridges' \subseteq VM BY <2>dev, <3>2
      <3>5. rules' \subseteq V .. 2 * V - 1
        <4>1. rules' \subseteq rules \cup (V .. 2 * V - 1) BY ONLY <2>dev, Zenon
        <4> QED BY <4>1
      <3>6. pc = "clean" => UNCHANGED <<taps, bridges>> BY <2>dev
      <3> QED BY <3>3, <3>4, <3>5, <3>6
    <2>loop. i' \in 0 .. 3 * V /\ (pc' = "clean" => pc = "clean" /\ pc' = pc)
      BY <2>4
    <2>5. TypeOK' BY <2>vm, <2>2, <2>3, <2>4, <2>num, <2>loop
    <2>6. LoopOK' BY <2>4
    <2>7. Undone' /\ CleanedUp' /\ OthersEnded' BY <2>2, <2>3, <2>4, <2>num, <2>loop
    <2> QED BY <2>5, <2>6, <2>7
  <1>2. CASE Restart
    <2>1. i' \in 0 .. 3 * V /\ tried' \in 0 .. V /\ reached' \in 0 .. V /\ runs' \in 1 .. MaxRuns
      BY <1>2 DEF Restart
    <2>2. TypeOK' BY <1>2, <2>1 DEF Restart
    <2> QED BY <1>2, <2>2 DEF Restart
  <1> QED BY <1>1, <1>2

LEMMA InvCorrect == Spec => []IInv
  <1>1. IInv /\ [Next]_vars => IInv'
    <2> SUFFICES ASSUME IInv, [Next]_vars PROVE IInv'
      OBVIOUS
    <2>1. CASE UNCHANGED vars
      BY <2>1 DEF IInv, TypeOK, LoopOK, Undone, OthersEnded, CleanedUp, Ended, vars
    <2> QED
      BY <2>1, ScriptInv, OthersInv, InterruptInv DEF Next, Finished, Simulating
  <1> QED BY InitInv, <1>1, PTL DEF Spec

(* The types of start.py and of what it has started (TypeOK); in           *)
(* particular its loops and cleaning_cmds end where they should, and no    *)
(* device has a number without a VM.                                       *)
THEOREM LauncherTypeCorrect == Spec => []TypeOK
  <1>1. IInv => TypeOK BY DEF IInv
  <1> QED BY <1>1, InvCorrect, PTL

(* When start.py has ended in order, its TAPs and bridges are gone and its *)
(* VMs end, for any number of VMs and however often it is interrupted and  *)
(* started again, unless the cleaning itself is interrupted; and the other *)
(* processes never outlive it (CleanedUp).  It is not true that nothing is *)
(* left: the policy rules of its TAPs stay.                                *)
THEOREM DevicesAndProcessesEnd == Spec => []CleanedUp
  <1>1. IInv => CleanedUp BY DEF IInv
  <1> QED BY <1>1, InvCorrect, PTL
=============================================================================
