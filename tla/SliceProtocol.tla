---------------------------- MODULE SliceProtocol ----------------------------
(***************************************************************************)
(* The QMP conversation of the simulator with one VM: what main.cpp sends  *)
(* and reads on one socket (negotiation, boot slice, the slices of the     *)
(* main loop, the get-virtual-clock-ns commands that only hurry QEMU), and *)
(* what the commands added to QEMU in qmp-cmds.c do.  The socket is a FIFO *)
(* of commands one way and of lines the other way.  main.cpp never matches *)
(* replies to commands: it reads lines until one looks right.              *)
(*                                                                         *)
(* QEMU's main thread runs the command handlers, the timers' callback and  *)
(* the bottom halves, one at a time; the guest runs beside it.  Each       *)
(* run-time-slice makes a timer of its own and nothing ever cancels one:   *)
(* it is the conversation that keeps slices apart.  QEMU may also stop a   *)
(* guest for a reason of its own: an I/O error, after which it can go on,  *)
(* or an internal error, after which it would have to be reset.            *)
(***************************************************************************)
EXTENDS Integers, Sequences

CONSTANTS
  Durations,    \* lengths of a slice, in ticks
  BootDuration, \* length of the first one
  Lag,          \* bound: ticks the guest runs before its timer is armed
  Overrun,      \* bound: ticks it runs after its timer has expired
  MaxDummies,   \* bound: get-virtual-clock-ns commands sent to hurry QEMU
  MaxSlices,    \* bound: slices, with that of the boot
  MaxFaults     \* bound: times QEMU stops the guest for its own reasons

ASSUME ProtocolAssumption ==
  /\ Durations \subseteq Nat /\ BootDuration \in Nat
  /\ Lag \in Nat /\ Overrun \in Nat
  /\ MaxDummies \in Nat /\ MaxSlices \in Nat \ {0} /\ MaxFaults \in Nat

VARIABLES
  pc,        \* where the simulator is, as far as this VM is concerned
  commands,  \* the socket, to QEMU
  lines,     \* the socket, to the simulator, in whole lines (see ReadLine)
  clock,     \* the VM's entry of virtual_clocks_ns
  duration,  \* what the last run-time-slice asked for
  dummies,   \* hurrying commands sent in this slice
  slices,    \* slices ordered so far
  monitor,   \* "idle", or "arming" inside qmp_run_time_slice
  running,   \* the guest runs
  vclock,    \* QEMU_CLOCK_VIRTUAL
  timers,    \* expire_time of the timers that are armed
  bh,        \* expire_time of those whose bottom half is scheduled
  faults,    \* times QEMU has stopped the guest for its own reasons
  needsReset \* runstate_needs_reset()

simVars == <<pc, clock, duration, dummies, slices>>
faultVars == <<faults, needsReset>>
qemuVars == <<monitor, running, vclock, timers, bh, faults, needsReset>>
vars == <<pc, commands, lines, clock, duration, dummies, slices,
          monitor, running, vclock, timers, bh, faults, needsReset>>

(* Commands and lines.                                                     *)
Capabilities == [execute |-> "qmp_capabilities"]
RunTimeSliceNs(d) == [execute |-> "run-time-slice", duration |-> d * 1000000]  \* mutant
RunTimeSlice(d) == [execute |-> "run-time-slice", duration |-> d]
GetClock == [execute |-> "get-virtual-clock-ns"]

Greeting == [line |-> "greeting"]
Ok == [line |-> "return"]
Error == [line |-> "error"]
Event(e) == [line |-> e]
Time(t) == [line |-> "time", time |-> t]

IsAnyEvent(l) == l.line \in {"STOP", "RESUME"}                  \* mutant
IsStop(l) == l.line = "STOP"
IsTime(l) == l.line = "time"

Send(c) == commands' = Append(commands, c)
ReadLine == lines # <<>> /\ lines' = Tail(lines)
Emit(ls) == lines' = lines \o ls

-----------------------------------------------------------------------------
(* The connection is up and QEMU, started paused, has greeted.             *)
Init ==
  /\ pc = "negotiate"
  /\ commands = <<>>
  /\ lines = <<Greeting>>
  /\ clock = 0 /\ duration = 0 /\ dummies = 0 /\ slices = 0
  /\ monitor = "idle" /\ running = FALSE /\ vclock = 0
  /\ timers = {} /\ bh = {} /\ faults = 0 /\ needsReset = FALSE

Negotiate ==
  /\ pc = "negotiate"
  /\ Send(Capabilities)
  /\ pc' = "negotiated"
  /\ UNCHANGED <<lines, clock, duration, dummies, slices, qemuVars>>

(* One line is read and taken for the reply.                               *)
ReadResponse ==
  /\ pc = "negotiated"
  /\ ReadLine
  /\ pc' = "boot"
  /\ UNCHANGED <<commands, clock, duration, dummies, slices, qemuVars>>

(* The boot slice is ordered; the loop that orders it reads one line.      *)
OrderBoot ==
  /\ pc = "boot"
  /\ Send(RunTimeSlice(BootDuration))
  /\ duration' = BootDuration
  /\ slices' = 1
  /\ pc' = "ack"
  /\ UNCHANGED <<lines, clock, dummies, qemuVars>>

ReadAck ==
  /\ pc = "ack"
  /\ ReadLine
  /\ pc' = "booting"
  /\ UNCHANGED <<commands, clock, duration, dummies, slices, qemuVars>>

(* A second loop over the VMs reads lines until the STOP event.            *)
AwaitBootStop ==
  /\ pc = "booting"
  /\ ReadLine
  /\ pc' = IF IsStop(Head(lines)) THEN "stopped" ELSE "booting"
  /\ UNCHANGED <<commands, clock, duration, dummies, slices, qemuVars>>

(* The VM has been chosen: its slice is ordered.                           *)
OrderSlice(d) ==
  /\ pc = "choose"
  /\ slices < MaxSlices
  /\ Send(RunTimeSlice(d))
  /\ duration' = d
  /\ slices' = slices + 1
  /\ dummies' = 0
  /\ pc' = "select"
  /\ UNCHANGED <<lines, clock, qemuVars>>

\* mutant: after clear_socket_buffer
HurryAfterClear ==
  /\ pc = "select"
  /\ dummies < MaxDummies
  /\ Send(GetClock)
  /\ lines' = <<>>
  /\ dummies' = dummies + 1
  /\ pc' = "poll"
  /\ UNCHANGED <<clock, duration, slices, qemuVars>>

(* A turn of the loop starts: once the time of the slice has passed on the *)
(* host, however little of it the guest has run, QEMU is hurried.          *)
Hurry ==
  /\ pc = "select"
  /\ dummies < MaxDummies
  /\ Send(GetClock)
  /\ dummies' = dummies + 1
  /\ pc' = "poll"
  /\ UNCHANGED <<lines, clock, duration, slices, qemuVars>>

DontHurry ==
  /\ pc = "select"
  /\ pc' = "poll"
  /\ UNCHANGED <<commands, lines, clock, duration, dummies, slices, qemuVars>>

(* select() reports the socket and one line is read, or it times out.      *)
Poll ==
  /\ pc = "poll"
  /\ \/ /\ ReadLine
        /\ pc' = IF IsStop(Head(lines)) THEN "stopped" ELSE "select"
     \/ /\ lines = <<>>
        /\ pc' = "select"
        /\ UNCHANGED lines
  /\ UNCHANGED <<commands, clock, duration, dummies, slices, qemuVars>>

\* mutant: asked twice
QueryTwice ==
  /\ pc = "stopped"
  /\ commands' = commands \o <<GetClock, GetClock>>
  /\ pc' = "query"
  /\ UNCHANGED <<lines, clock, duration, dummies, slices, qemuVars>>

(* The STOP event was seen: ask for the virtual clock.                     *)
Query ==
  /\ pc = "stopped"
  /\ Send(GetClock)
  /\ pc' = "query"
  /\ UNCHANGED <<lines, clock, duration, dummies, slices, qemuVars>>

(* Read lines until one carries a time.                                    *)
AwaitTime ==
  /\ pc = "query"
  /\ ReadLine
  /\ IF IsTime(Head(lines))
     THEN clock' = Head(lines).time /\ pc' = "choose"
     ELSE UNCHANGED <<clock, pc>>
  /\ UNCHANGED <<commands, duration, dummies, slices, qemuVars>>

-----------------------------------------------------------------------------
(* QEMU's main thread takes the next command.                              *)
NextCommand(c) == monitor = "idle" /\ commands # <<>> /\ Head(commands).execute = c

HandleCapabilities ==
  /\ NextCommand("qmp_capabilities")
  /\ commands' = Tail(commands)
  /\ Emit(<<Ok>>)
  /\ UNCHANGED <<simVars, qemuVars>>

(* qmp_cont: a guest that must be reset is not resumed, with an error; a   *)
(* running one is left alone.                                              *)
Cont ==
  /\ running' = (running \/ ~needsReset)
  /\ Emit(IF running \/ needsReset THEN <<>> ELSE <<Event("RESUME")>>)

\* mutant: the event is sent whether or not the guest was running
StopAlways == running' = FALSE /\ Emit(<<Event("STOP")>>)

(* qmp_stop: only a running guest is stopped with an event.                *)
Stop == running' = FALSE /\ Emit(IF running THEN <<Event("STOP")>> ELSE <<>>)

(* qmp_run_time_slice resumes the guest...                                 *)
HandleRunTimeSlice ==
  /\ NextCommand("run-time-slice")
  /\ Cont
  /\ monitor' = "arming"
  /\ UNCHANGED <<simVars, commands, vclock, timers, bh, faultVars>>

\* mutant: a duration taken for a time
ArmTimerAbsolute ==
  /\ monitor = "arming"
  /\ timers' = timers \cup {Head(commands).duration}
  /\ monitor' = "idle"
  /\ commands' = Tail(commands)
  /\ Emit(<<IF needsReset THEN Error ELSE Ok>>)
  /\ UNCHANGED <<simVars, running, vclock, bh, faultVars>>

(* ...then, resumed or not, reads the clock and arms a new timer.          *)
ArmTimer ==
  /\ monitor = "arming"
  /\ timers' = timers \cup {vclock + Head(commands).duration}
  /\ monitor' = "idle"
  /\ commands' = Tail(commands)
  /\ Emit(<<IF needsReset THEN Error ELSE Ok>>)
  /\ UNCHANGED <<simVars, running, vclock, bh, faultVars>>

(* qmp_get_virtual_clock_ns.                                               *)
HandleGetClock ==
  /\ NextCommand("get-virtual-clock-ns")
  /\ commands' = Tail(commands)
  /\ Emit(<<Time(vclock)>>)
  /\ UNCHANGED <<simVars, qemuVars>>

(* my_timer_callback schedules a bottom half for each timer that has       *)
(* expired; the virtual clock runs no timers while the guest is stopped... *)
TimerCallback ==
  /\ monitor = "idle" /\ running
  /\ \E t \in timers : t <= vclock
  /\ timers' = {t \in timers : t > vclock}
  /\ bh' = bh \cup {t \in timers : t <= vclock}
  /\ UNCHANGED <<simVars, commands, lines, monitor, running, vclock, faultVars>>

(* ...which stops the guest: stop_vm_bh.                                   *)
StopBottomHalf ==
  /\ monitor = "idle"
  /\ bh # {}
  /\ bh' = {}
  /\ Stop
  /\ UNCHANGED <<simVars, commands, monitor, vclock, timers, faultVars>>

-----------------------------------------------------------------------------
(* QEMU and the guest, external to the sources.                            *)

(* QEMU stops the guest by itself; the timers stay armed.                  *)
Fault ==
  /\ monitor = "idle" /\ running
  /\ faults < MaxFaults
  /\ faults' = faults + 1
  /\ needsReset' \in BOOLEAN
  /\ Stop
  /\ UNCHANGED <<simVars, commands, monitor, vclock, timers, bh>>

(* The guest's time passes: at most Lag until the timer is armed, and at   *)
(* most Overrun from the expiration of a timer to the guest being stopped. *)
Tick ==
  /\ running
  /\ monitor = "arming" => vclock < clock + Lag
  /\ \A t \in timers \cup bh : vclock < t + Overrun
  /\ vclock' = vclock + 1
  /\ UNCHANGED <<simVars, commands, lines, monitor, running, timers, bh, faultVars>>

-----------------------------------------------------------------------------
Simulator ==
  \/ Negotiate \/ ReadResponse \/ OrderBoot \/ ReadAck \/ AwaitBootStop
  \/ (\E d \in Durations : OrderSlice(d))
  \/ Hurry \/ DontHurry \/ Poll \/ Query \/ AwaitTime

MainThread ==
  \/ HandleCapabilities \/ HandleRunTimeSlice \/ ArmTimer \/ HandleGetClock
  \/ TimerCallback \/ StopBottomHalf

(* The end of the modelled run, so that any other stop is a deadlock.      *)
Finished == pc = "choose" /\ slices = MaxSlices /\ commands = <<>> /\ UNCHANGED vars

Next == Simulator \/ MainThread \/ Fault \/ Tick \/ Finished

(* The simulator's thread and QEMU's keep running and guest time passes.   *)
(* Nothing obliges a guest to fail.                                        *)
Fairness == WF_vars(Simulator) /\ WF_vars(MainThread) /\ WF_vars(Tick)

Spec == Init /\ [][Next]_vars
FairSpec == Spec /\ Fairness

-----------------------------------------------------------------------------
Command == {Capabilities, GetClock} \cup
           [execute : {"run-time-slice"}, duration : Durations \cup {BootDuration}]
Line == {Greeting, Ok, Error, Event("RESUME"), Event("STOP")} \cup [line : {"time"}, time : Nat]

TypeOK ==
  /\ pc \in {"negotiate", "negotiated", "boot", "ack", "booting",
             "choose", "select", "poll", "stopped", "query"}
  /\ commands \in Seq(Command) /\ lines \in Seq(Line)
  /\ clock \in Nat /\ vclock \in Nat
  /\ duration \in Durations \cup {0, BootDuration}
  /\ dummies \in 0 .. MaxDummies /\ slices \in 0 .. MaxSlices
  /\ monitor \in {"idle", "arming"} /\ running \in BOOLEAN
  /\ timers \subseteq Nat /\ bh \subseteq Nat
  /\ faults \in 0 .. MaxFaults /\ needsReset \in BOOLEAN

Ordered == \E n \in 1 .. Len(commands) : commands[n].execute = "run-time-slice"

(* One slice at a time: as long as QEMU has not stopped the guest by       *)
(* itself, a run-time-slice never finds the guest running, a timer armed   *)
(* or a stop on its way, although nothing in QEMU prevents it and a timer  *)
(* that is left over cuts the new slice short.                             *)
OneSlice ==
  (faults = 0 /\ Ordered /\ monitor = "idle") => ~running /\ timers = {} /\ bh = {}

(* Replies that main.cpp left unread stay on the socket into the next      *)
(* slice.  Whenever the VM can be chosen these are only times, all of them *)
(* the time at which it is stopped, so taking one for the answer to a      *)
(* later question cannot do harm; and there are no more of them than       *)
(* hurrying commands were sent in the last slice, so they do not add up.   *)
LeftoversHarmless ==
  pc = "choose" =>
    /\ \A n \in 1 .. Len(lines) : lines[n] = Time(vclock)
    /\ \A n \in 1 .. Len(commands) : commands[n] = GetClock
    /\ Len(lines) + Len(commands) <= dummies

(* The protocol gives the scheduler what it relies on (module TimeSlice):  *)
(* slices that are never too long, even when a fault leaves timers behind, *)
(* never too short unless there was a fault, and the exact clock at the    *)
(* end of each.                                                            *)
Phase ==
  IF running THEN "running"
  ELSE IF Ordered THEN "ordered"
  ELSE IF pc \in {"negotiate", "negotiated", "boot", "choose"} THEN "paused"
  ELSE "stopped"

Slice == INSTANCE TimeSlice WITH
  Late   <- Lag + Overrun,
  phase  <- Phase,
  time   <- vclock,
  known  <- clock,
  length <- IF Phase = "paused" THEN 0 ELSE duration,
  faulty <- faults > 0

ImplementsTimeSlice == Slice!Spec

(* Every slice that was ordered ends, that of the boot with the lines read *)
(* before it too, and the simulator gets to schedule again: no read_line   *)
(* waits for a line that nothing will send.  An I/O error does not prevent *)
(* it; after an internal error the guest cannot be resumed and the loop    *)
(* may wait for ever.                                                      *)
EverySliceEnds == pc # "choose" ~> pc = "choose" \/ needsReset
=============================================================================
