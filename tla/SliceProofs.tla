----------------------------- MODULE SliceProofs -----------------------------
(***************************************************************************)
(* That the conversation of SliceProtocol keeps slices apart and always    *)
(* learns the clock of a stopped VM, whatever replies are still around and *)
(* whatever QEMU does to the guest; and that it implements TimeSlice.      *)
(*                                                                         *)
(* The argument: at any time there is at most one of these: a              *)
(* run-time-slice on its way to QEMU, a running guest, a STOP event on its *)
(* way to the simulator.  The simulator sends the first only after it has  *)
(* read the last, and everything that is written to the socket behind a    *)
(* STOP is a time of the stopped VM.                                       *)
(***************************************************************************)
EXTENDS SliceProtocol, SequenceTheorems, TLAPS

-----------------------------------------------------------------------------
(* Sequences, commands and lines.                                          *)

LEMMA Appended ==
  ASSUME NEW S, NEW s \in Seq(S), NEW e \in S
  PROVE  /\ Append(s, e) \in Seq(S) /\ Len(Append(s, e)) = Len(s) + 1
         /\ \A n \in 1 .. Len(s) : Append(s, e)[n] = s[n]
         /\ Append(s, e)[Len(s) + 1] = e
         /\ s \o <<e>> = Append(s, e) /\ s \o <<>> = s
  BY AppendProperties, AppendIsConcat, ConcatEmptySeq

LEMMA Taken ==
  ASSUME NEW S, NEW s \in Seq(S), s # <<>>
  PROVE  /\ Tail(s) \in Seq(S) /\ Len(Tail(s)) = Len(s) - 1 /\ Len(s) \in Nat \ {0}
         /\ Head(s) = s[1] /\ Head(s) \in S
         /\ \A n \in 1 .. Len(s) - 1 : Tail(s)[n] = s[n + 1]
  BY HeadTailProperties, LenProperties, ElementOfSeq, EmptySeq

LEMMA Commands ==
  /\ Capabilities \in Command /\ GetClock \in Command
  /\ \A d \in Durations \cup {BootDuration} :
       RunTimeSlice(d) \in Command /\ RunTimeSlice(d).execute = "run-time-slice"
       /\ RunTimeSlice(d).duration = d
  /\ GetClock.execute = "get-virtual-clock-ns" /\ Capabilities.execute = "qmp_capabilities"
  /\ \A c \in Command : c.execute = "run-time-slice" => c.duration \in Nat
  /\ \A c \in Command : c.execute = "get-virtual-clock-ns" => c = GetClock
  <1>1. /\ Capabilities \in Command /\ GetClock \in Command
        /\ GetClock.execute = "get-virtual-clock-ns" /\ Capabilities.execute = "qmp_capabilities"
    BY DEF Command, Capabilities, GetClock
  <1>2. ASSUME NEW d \in Durations \cup {BootDuration}
        PROVE  RunTimeSlice(d) \in Command /\ RunTimeSlice(d).execute = "run-time-slice"
               /\ RunTimeSlice(d).duration = d
    BY DEF Command, RunTimeSlice
  <1>3. ASSUME NEW c \in [execute : {"run-time-slice"}, duration : Durations \cup {BootDuration}]
        PROVE  c.execute = "run-time-slice" /\ c.duration \in Nat
    BY ProtocolAssumption
  <1> QED BY <1>1, <1>2, <1>3 DEF Command

LEMMA LinesOfQMP ==
  /\ Greeting \in Line /\ Ok \in Line /\ Error \in Line
  /\ Event("RESUME") \in Line /\ Event("STOP") \in Line
  /\ \A t \in Nat : Time(t) \in Line /\ ~IsStop(Time(t)) /\ IsTime(Time(t)) /\ Time(t).time = t
  /\ ~IsStop(Greeting) /\ ~IsStop(Ok) /\ ~IsStop(Error) /\ ~IsStop(Event("RESUME"))
  /\ IsStop(Event("STOP"))
  /\ \A l \in Line : IsTime(l) => l.time \in Nat
  BY DEF Line, Greeting, Ok, Error, Event, Time, IsStop, IsTime

-----------------------------------------------------------------------------
(* Types.  While a timer is being armed its command is still in the queue. *)
Arming ==
  monitor = "arming" => commands # <<>> /\ Head(commands).execute = "run-time-slice"

LEMMA InitType == Init => TypeOK
  <1> SUFFICES ASSUME Init PROVE TypeOK
    OBVIOUS
  <1>1. commands \in Seq(Command) /\ lines \in Seq(Line)
    BY LinesOfQMP DEF Init
  <1>2. dummies \in 0 .. MaxDummies /\ slices \in 0 .. MaxSlices /\ faults \in 0 .. MaxFaults
    BY ProtocolAssumption DEF Init
  <1> QED BY <1>1, <1>2 DEF Init, TypeOK

LEMMA SimulatorType ==
  ASSUME TypeOK, Simulator
  PROVE  TypeOK'
  <1> USE DEF TypeOK, qemuVars
  <1>t. ReadLine => lines' \in Seq(Line) /\ Head(lines) \in Line
    BY Taken DEF ReadLine
  <1>c. \A c \in Command : Send(c) => commands' \in Seq(Command)
    BY Appended DEF Send
  <1>1. CASE Negotiate BY <1>1, <1>c, Commands DEF Negotiate
  <1>2. CASE ReadResponse BY <1>2, <1>t DEF ReadResponse
  <1>3. CASE OrderBoot
    BY <1>3, <1>c, Commands, ProtocolAssumption DEF OrderBoot
  <1>4. CASE ReadAck BY <1>4, <1>t DEF ReadAck
  <1>5. CASE AwaitBootStop BY <1>5, <1>t DEF AwaitBootStop
  <1>6. ASSUME NEW d \in Durations, OrderSlice(d) PROVE TypeOK'
    BY <1>6, <1>c, Commands, ProtocolAssumption DEF OrderSlice
  <1>7. CASE Hurry BY <1>7, <1>c, Commands, ProtocolAssumption DEF Hurry
  <1>8. CASE DontHurry BY <1>8 DEF DontHurry
  <1>9. CASE Poll BY <1>9, <1>t DEF Poll
  <1>10. CASE Query BY <1>10, <1>c, Commands DEF Query
  <1>11. CASE AwaitTime BY <1>11, <1>t, LinesOfQMP DEF AwaitTime
  <1> QED
    BY <1>1, <1>2, <1>3, <1>4, <1>5, <1>6, <1>7, <1>8, <1>9, <1>10, <1>11 DEF Simulator

LEMMA MachineType ==
  ASSUME TypeOK, Arming, MainThread \/ Fault \/ Tick
  PROVE  TypeOK'
  <1> USE DEF TypeOK, simVars, faultVars
  <1>h. commands # <<>> => Tail(commands) \in Seq(Command) /\ Head(commands) \in Command
    BY Taken
  <1>l. \A l \in Line : lines \o <<l>> \in Seq(Line) /\ lines \o <<>> \in Seq(Line)
    BY Appended
  <1>s. Stop => lines' \in Seq(Line) /\ running' \in BOOLEAN
    BY <1>l, LinesOfQMP DEF Stop, Emit
  <1>1. CASE HandleCapabilities
    BY <1>1, <1>h, <1>l, LinesOfQMP DEF HandleCapabilities, NextCommand, Emit, qemuVars
  <1>2. CASE HandleRunTimeSlice
    BY <1>2, <1>l, LinesOfQMP DEF HandleRunTimeSlice, Cont, Emit
  <1>3. CASE HandleGetClock
    BY <1>3, <1>h, <1>l, LinesOfQMP DEF HandleGetClock, NextCommand, Emit, qemuVars
  <1>4. CASE TimerCallback BY <1>4 DEF TimerCallback
  <1>5. CASE StopBottomHalf BY <1>5, <1>s DEF StopBottomHalf
  <1>6. CASE Fault BY <1>6, <1>s, ProtocolAssumption DEF Fault
  <1>7. CASE Tick BY <1>7 DEF Tick
  <1>8. CASE ArmTimer
    <2>1. vclock + Head(commands).duration \in Nat
      BY <1>8, <1>h, Commands DEF ArmTimer, Arming
    <2>2. timers' \subseteq Nat BY <1>8, <2>1 DEF ArmTimer
    <2>3. lines' \in Seq(Line) BY <1>8, <1>l, LinesOfQMP DEF ArmTimer, Emit
    <2>4. commands' \in Seq(Command) BY <1>8, <1>h DEF ArmTimer, Arming
    <2> QED BY <1>8, <2>2, <2>3, <2>4 DEF ArmTimer
  <1> QED
    BY <1>1, <1>2, <1>3, <1>4, <1>5, <1>6, <1>7, <1>8 DEF MainThread

-----------------------------------------------------------------------------
(* The inductive invariant.                                                *)

Active == pc \in {"ack", "booting", "select", "poll"}
Before == pc \in {"negotiate", "negotiated", "boot"}

OnlyClocks == \A n \in 1 .. Len(commands) : commands[n] = GetClock
NoStop == \A n \in 1 .. Len(lines) : ~IsStop(lines[n])

(* A run-time-slice that QEMU has not finished with: no slice is under way *)
(* but its own, and what was sent after it are hurrying commands.          *)
OrderPending ==
  \A n \in 1 .. Len(commands) : commands[n].execute = "run-time-slice" =>
    /\ Active /\ NoStop
    /\ commands[n].duration = duration
    /\ \A m \in n + 1 .. Len(commands) : commands[m] = GetClock
    /\ Len(commands) - n <= dummies
    /\ monitor = "idle" => ~running
    /\ monitor = "idle" => vclock = clock
    /\ clock <= vclock /\ vclock <= clock + Lag

GuestRuns ==
  running =>
    /\ Active /\ NoStop
    /\ monitor = "idle" => OnlyClocks /\ Len(commands) <= dummies

(* A STOP that the simulator has not read: behind it there are only times  *)
(* of the stopped VM.                                                      *)
StopPending ==
  \A n \in 1 .. Len(lines) : IsStop(lines[n]) =>
    /\ Active /\ ~running /\ OnlyClocks
    /\ \A m \in n + 1 .. Len(lines) : lines[m] = Time(vclock)
    /\ Len(lines) - n + Len(commands) <= dummies

(* The STOP has been read: the question of the simulator is one of those   *)
(* that are still to be answered.                                          *)
Answering ==
  pc \in {"stopped", "query", "choose"} =>
    /\ OnlyClocks
    /\ \A n \in 1 .. Len(lines) : lines[n] = Time(vclock)
    /\ Len(lines) + Len(commands) <= dummies + (IF pc = "query" THEN 1 ELSE 0)

Known == Before \/ pc = "choose" => clock = vclock

Conversation == Arming /\ OrderPending /\ GuestRuns /\ StopPending /\ Answering /\ Known

CInv == TypeOK /\ Conversation

LEMMA InitConversation == Init => Conversation
  BY LinesOfQMP DEF Init, Conversation, Arming, OrderPending, GuestRuns, StopPending,
       Answering, Known, Before, NoStop, Active

(* What the two ends do to the socket, element by element.                 *)
LEMMA SendEffect ==
  ASSUME TypeOK, NEW c \in Command, Send(c)
  PROVE  /\ Len(commands') = Len(commands) + 1 /\ Len(commands) \in Nat
         /\ commands'[Len(commands) + 1] = c
         /\ \A n \in 1 .. Len(commands) : commands'[n] = commands[n]
         /\ commands # <<>> => Head(commands') = Head(commands)
         /\ commands' # <<>>
  BY Appended DEF Send, TypeOK

LEMMA TakeEffect ==
  ASSUME TypeOK, commands # <<>>, commands' = Tail(commands)
  PROVE  /\ Len(commands') = Len(commands) - 1 /\ Len(commands) \in Nat \ {0}
         /\ Head(commands) = commands[1] /\ commands[1] \in Command
         /\ \A n \in 1 .. Len(commands) - 1 : commands'[n] = commands[n + 1]
  BY Taken DEF TypeOK

LEMMA ReadEffect ==
  ASSUME TypeOK, ReadLine
  PROVE  /\ Len(lines') = Len(lines) - 1 /\ Len(lines) \in Nat \ {0}
         /\ Head(lines) = lines[1] /\ lines[1] \in Line
         /\ \A n \in 1 .. Len(lines) - 1 : lines'[n] = lines[n + 1]
  BY Taken DEF ReadLine, TypeOK

LEMMA EmitEffect ==
  ASSUME TypeOK, NEW l \in Line, Emit(<<l>>)
  PROVE  /\ Len(lines') = Len(lines) + 1 /\ Len(lines) \in Nat
         /\ lines'[Len(lines) + 1] = l
         /\ \A n \in 1 .. Len(lines) : lines'[n] = lines[n]
  BY Appended DEF Emit, TypeOK

LEMMA EmitNothing == TypeOK /\ Emit(<<>>) => lines' = lines
  BY ConcatEmptySeq DEF Emit, TypeOK

-----------------------------------------------------------------------------
(* The simulator's steps.                                                  *)

(* A line is read that is not the STOP that is awaited, or is not looked   *)
(* at.                                                                     *)
LEMMA ReadKeeps ==
  ASSUME CInv, ReadLine, UNCHANGED <<commands, duration, dummies, qemuVars>>,
         clock' = clock, Active, Active'
  PROVE  Conversation'
  <1> USE ReadEffect DEF CInv, Conversation, qemuVars
  <1>1. Arming' BY DEF Arming
  <1>2. NoStop => NoStop' BY DEF NoStop
  <1>3. OrderPending' BY <1>2 DEF OrderPending
  <1>4. GuestRuns' BY <1>2 DEF GuestRuns, OnlyClocks
  <1>5. StopPending'
    <2> SUFFICES ASSUME NEW n \in 1 .. Len(lines'), IsStop(lines'[n])
                 PROVE  /\ ~running /\ OnlyClocks
                        /\ \A m \in n + 1 .. Len(lines') : lines'[m] = Time(vclock)
                        /\ Len(lines') - n + Len(commands) <= dummies
      BY DEF StopPending, OnlyClocks
    <2>1. n + 1 \in 1 .. Len(lines) /\ IsStop(lines[n + 1]) OBVIOUS
    <2>2. ~running /\ OnlyClocks /\ Len(lines) - (n + 1) + Len(commands) <= dummies
          /\ \A m \in n + 2 .. Len(lines) : lines[m] = Time(vclock)
      BY <2>1 DEF StopPending
    <2>3. ASSUME NEW m \in n + 1 .. Len(lines') PROVE lines'[m] = Time(vclock)
      <3>1. m \in 1 .. Len(lines) - 1 /\ m + 1 \in n + 2 .. Len(lines) BY <2>1
      <3> QED BY <3>1, <2>2
    <2>4. Len(lines') - n = Len(lines) - (n + 1) OBVIOUS
    <2> QED BY <2>2, <2>3, <2>4
  <1>6. Answering' /\ Known' BY DEF Answering, Known, Active, Before
  <1> QED BY <1>1, <1>3, <1>4, <1>5, <1>6

(* The awaited STOP is read.                                               *)
LEMMA ReadStopKeeps ==
  ASSUME CInv, ReadLine, IsStop(Head(lines)), Active, pc' = "stopped",
         UNCHANGED <<commands, clock, duration, dummies, qemuVars>>
  PROVE  Conversation'
  <1> USE ReadEffect DEF CInv, Conversation, qemuVars
  <1>1. /\ ~running /\ OnlyClocks
        /\ \A m \in 2 .. Len(lines) : lines[m] = Time(vclock)
        /\ Len(lines) - 1 + Len(commands) <= dummies
    BY DEF StopPending
  <1>2. \A n \in 1 .. Len(lines') : lines'[n] = Time(vclock)
    <2> TAKE n \in 1 .. Len(lines')
    <2>1. n + 1 \in 2 .. Len(lines) /\ lines'[n] = lines[n + 1] OBVIOUS
    <2> QED BY <1>1, <2>1
  <1>3. NoStop' BY <1>2, LinesOfQMP DEF NoStop, TypeOK
  <1>4. Arming' BY DEF Arming
  <1>5. OrderPending'
    BY <1>1, Commands DEF OrderPending, OnlyClocks
  <1>6. GuestRuns' BY <1>1 DEF GuestRuns
  <1>7. StopPending' BY <1>3 DEF StopPending, NoStop
  <1>8. Answering' BY <1>1, <1>2 DEF Answering, OnlyClocks, TypeOK
  <1>9. Known' BY DEF Known, Before
  <1> QED BY <1>4, <1>5, <1>6, <1>7, <1>8, <1>9

(* A hurrying command.                                                     *)
LEMMA HurryKeeps ==
  ASSUME CInv, Hurry
  PROVE  Conversation'
  <1> USE DEF CInv, Conversation, qemuVars
  <1>1. /\ Send(GetClock) /\ GetClock \in Command /\ dummies' = dummies + 1
        /\ UNCHANGED <<lines, clock, duration, qemuVars>>
        /\ pc = "select" /\ pc' = "poll"
    BY Commands DEF Hurry
  <1>2. /\ Len(commands') = Len(commands) + 1 /\ Len(commands) \in Nat
        /\ commands'[Len(commands) + 1] = GetClock
        /\ \A n \in 1 .. Len(commands) : commands'[n] = commands[n]
        /\ commands # <<>> => Head(commands') = Head(commands)
        /\ commands' # <<>>
    BY <1>1, SendEffect
  <1>3. dummies \in Nat BY DEF TypeOK
  <1>4. Arming' BY <1>1, <1>2 DEF Arming
  <1>5. OnlyClocks => OnlyClocks' BY <1>2 DEF OnlyClocks
  <1>6. OrderPending'
    <2> SUFFICES ASSUME NEW n \in 1 .. Len(commands'), commands'[n].execute = "run-time-slice"
                 PROVE  /\ Active' /\ NoStop'
                        /\ commands'[n].duration = duration'
                        /\ \A m \in n + 1 .. Len(commands') : commands'[m] = GetClock
                        /\ Len(commands') - n <= dummies'
                        /\ monitor' = "idle" => ~running'
                        /\ monitor' = "idle" => vclock' = clock'
                        /\ clock' <= vclock' /\ vclock' <= clock' + Lag
      BY DEF OrderPending
    <2>1. n \in 1 .. Len(commands) /\ commands'[n] = commands[n] BY <1>2, Commands
    <2>2. \A m \in n + 1 .. Len(commands') : commands'[m] = GetClock
      <3> TAKE m \in n + 1 .. Len(commands')
      <3>1. CASE m = Len(commands) + 1 BY <3>1, <1>2
      <3>2. CASE m # Len(commands) + 1
        <4>1. m \in 1 .. Len(commands) /\ m \in n + 1 .. Len(commands) BY <3>2, <1>2
        <4> QED BY <4>1, <2>1, <1>2 DEF OrderPending
      <3> QED BY <3>1, <3>2
    <2>3. Len(commands) - n <= dummies BY <2>1 DEF OrderPending
    <2>4. Len(commands') - n <= dummies' BY <2>1, <2>3, <1>1, <1>2, <1>3
    <2> QED BY <2>1, <2>2, <2>4, <1>1 DEF OrderPending, Active, NoStop
  <1>7. GuestRuns' BY <1>1, <1>2, <1>3, <1>5 DEF GuestRuns, Active, NoStop
  <1>8. StopPending'
    <2> SUFFICES ASSUME NEW n \in 1 .. Len(lines), IsStop(lines[n])
                 PROVE  Len(lines) - n + Len(commands') <= dummies'
      BY <1>1, <1>5 DEF StopPending, Active
    <2>1. Len(lines) - n + Len(commands) <= dummies BY DEF StopPending
    <2>2. Len(lines) \in Nat BY DEF TypeOK
    <2> QED BY <2>1, <2>2, <1>1, <1>2, <1>3
  <1>9. Answering' /\ Known' BY <1>1 DEF Answering, Known, Before
  <1> QED BY <1>4, <1>6, <1>7, <1>8, <1>9

(* A run-time-slice is sent to a VM for which nothing is under way.        *)
LEMMA OrderKeeps ==
  ASSUME CInv, NEW d \in Durations \cup {BootDuration}, Send(RunTimeSlice(d)),
         Before \/ pc = "choose", Active', duration' = d, dummies' \in Nat,
         UNCHANGED <<lines, clock, qemuVars>>
  PROVE  Conversation'
  <1> USE DEF CInv, Conversation, qemuVars
  <1>1. /\ RunTimeSlice(d) \in Command /\ RunTimeSlice(d).execute = "run-time-slice"
        /\ RunTimeSlice(d).duration = d
    BY Commands
  <1>2. /\ Len(commands') = Len(commands) + 1 /\ Len(commands) \in Nat
        /\ commands'[Len(commands) + 1] = RunTimeSlice(d)
        /\ \A n \in 1 .. Len(commands) : commands'[n] = commands[n]
        /\ commands # <<>> => Head(commands') = Head(commands)
        /\ commands' # <<>>
    BY <1>1, SendEffect
  <1>3. ~Active BY DEF Active, Before
  <1>4. /\ ~running /\ NoStop /\ clock = vclock
        /\ \A n \in 1 .. Len(commands) : commands[n].execute # "run-time-slice"
    BY <1>3 DEF GuestRuns, StopPending, NoStop, Known, OrderPending
  <1>5. Arming' BY <1>2 DEF Arming
  <1>6. OrderPending'
    <2> SUFFICES ASSUME NEW n \in 1 .. Len(commands'), commands'[n].execute = "run-time-slice"
                 PROVE  /\ commands'[n].duration = duration'
                        /\ \A m \in n + 1 .. Len(commands') : commands'[m] = GetClock
                        /\ Len(commands') - n <= dummies'
                        /\ clock' <= vclock' /\ vclock' <= clock' + Lag
      BY <1>4 DEF OrderPending, NoStop
    <2>1. n = Len(commands) + 1 BY <1>2, <1>4
    <2>2. clock \in Nat /\ Lag \in Nat BY ProtocolAssumption DEF TypeOK
    <2> QED BY <2>1, <2>2, <1>1, <1>2, <1>4
  <1>7. GuestRuns' /\ StopPending' BY <1>4 DEF GuestRuns, StopPending, NoStop
  <1>8. Answering' /\ Known' BY DEF Answering, Known, Before, Active
  <1> QED BY <1>5, <1>6, <1>7, <1>8

(* Before the first slice, and when the clock is asked for.                *)
LEMMA NegotiateKeeps ==
  ASSUME CInv, Negotiate
  PROVE  Conversation'
  <1> USE DEF CInv, Conversation, qemuVars, Before, Active
  <1>1. /\ Len(commands') = Len(commands) + 1 /\ Len(commands) \in Nat
        /\ commands'[Len(commands) + 1] = Capabilities
        /\ \A n \in 1 .. Len(commands) : commands'[n] = commands[n]
        /\ commands # <<>> => Head(commands') = Head(commands)
        /\ commands' # <<>>
    BY Commands, SendEffect DEF Negotiate
  <1>2. \A n \in 1 .. Len(commands') : commands'[n].execute # "run-time-slice"
    BY <1>1, Commands DEF OrderPending, Negotiate
  <1>3. OrderPending' BY <1>2 DEF OrderPending
  <1>4. Arming' BY <1>1 DEF Arming, Negotiate
  <1>5. GuestRuns' /\ StopPending' /\ Answering' /\ Known'
    BY DEF GuestRuns, StopPending, Answering, Known, Negotiate
  <1> QED BY <1>3, <1>4, <1>5

LEMMA ReadResponseKeeps ==
  ASSUME CInv, ReadResponse
  PROVE  Conversation'
  <1> USE DEF CInv, Conversation, qemuVars, Before, Active
  <1>1. /\ Len(lines') = Len(lines) - 1 /\ Len(lines) \in Nat \ {0}
        /\ \A n \in 1 .. Len(lines) - 1 : lines'[n] = lines[n + 1]
    BY ReadEffect DEF ReadResponse
  <1>2. \A n \in 1 .. Len(lines') : ~IsStop(lines'[n])
    BY <1>1 DEF StopPending, ReadResponse
  <1>3. StopPending' BY <1>2 DEF StopPending
  <1>4. OrderPending' BY DEF OrderPending, ReadResponse
  <1>5. GuestRuns' /\ Arming' /\ Answering' /\ Known'
    BY DEF GuestRuns, Arming, Answering, Known, ReadResponse
  <1> QED BY <1>3, <1>4, <1>5

LEMMA QueryKeeps ==
  ASSUME CInv, Query
  PROVE  Conversation'
  <1> USE DEF CInv, Conversation, qemuVars, Before, Active
  <1>1. /\ Len(commands') = Len(commands) + 1 /\ Len(commands) \in Nat
        /\ commands'[Len(commands) + 1] = GetClock
        /\ \A n \in 1 .. Len(commands) : commands'[n] = commands[n]
        /\ commands # <<>> => Head(commands') = Head(commands)
        /\ commands' # <<>>
    BY Commands, SendEffect DEF Query
  <1>2. /\ OnlyClocks /\ Len(lines) + Len(commands) <= dummies
        /\ \A n \in 1 .. Len(lines) : lines[n] = Time(vclock)
    BY DEF Answering, Query, TypeOK
  <1>3. OnlyClocks' BY <1>1, <1>2 DEF OnlyClocks
  <1>4. OrderPending' BY <1>3, Commands DEF OrderPending, OnlyClocks
  <1>5. Arming' BY <1>1 DEF Arming, Query
  <1>6. Len(lines) \in Nat /\ dummies \in Nat BY DEF TypeOK
  <1>7. Answering' BY <1>1, <1>2, <1>3, <1>6 DEF Answering, Query
  <1>8. GuestRuns' /\ StopPending' /\ Known'
    BY DEF GuestRuns, StopPending, Known, Query
  <1> QED BY <1>4, <1>5, <1>7, <1>8

(* The first line that is read answers, and it is the clock of the stopped *)
(* VM, whichever command it is the reply to.                               *)
LEMMA AwaitTimeKeeps ==
  ASSUME CInv, AwaitTime
  PROVE  Conversation' /\ clock' = vclock /\ pc' = "choose"
  <1> USE DEF CInv, Conversation, qemuVars, Before, Active
  <1>1. /\ Len(lines') = Len(lines) - 1 /\ Len(lines) \in Nat \ {0}
        /\ Head(lines) = lines[1]
        /\ \A n \in 1 .. Len(lines) - 1 : lines'[n] = lines[n + 1]
    BY ReadEffect DEF AwaitTime
  <1>2. /\ OnlyClocks /\ Len(lines) + Len(commands) <= dummies + 1
        /\ \A n \in 1 .. Len(lines) : lines[n] = Time(vclock)
    BY DEF Answering, AwaitTime
  <1>3. vclock \in Nat /\ dummies \in Nat /\ Len(commands) \in Nat BY DEF TypeOK
  <1>4. IsTime(Head(lines)) /\ Head(lines).time = vclock
    BY <1>1, <1>2, <1>3, LinesOfQMP
  <1>5. clock' = vclock /\ pc' = "choose" BY <1>4 DEF AwaitTime
  <1>6. \A n \in 1 .. Len(lines') : lines'[n] = Time(vclock)
    BY <1>1, <1>2
  <1>7. OrderPending' BY <1>2, Commands DEF OrderPending, OnlyClocks, AwaitTime
  <1>8. StopPending' BY <1>6, <1>3, LinesOfQMP DEF StopPending, AwaitTime
  <1>9. OnlyClocks' BY <1>2 DEF OnlyClocks, AwaitTime
  <1>10. Answering' BY <1>1, <1>2, <1>3, <1>5, <1>6, <1>9 DEF Answering, AwaitTime
  <1>11. GuestRuns' /\ Arming' BY DEF GuestRuns, Arming, AwaitTime
  <1>12. Known' BY <1>5 DEF Known, AwaitTime
  <1> QED BY <1>5, <1>7, <1>8, <1>10, <1>11, <1>12

LEMMA SimulatorConversation ==
  ASSUME CInv, Simulator
  PROVE  Conversation'
  <1>1. CASE OrderBoot
    <2>1. /\ Send(RunTimeSlice(BootDuration)) /\ pc = "boot" /\ pc' = "ack"
          /\ duration' = BootDuration /\ UNCHANGED <<lines, clock, dummies, qemuVars>>
      BY <1>1 DEF OrderBoot
    <2>2. Before /\ Active' /\ dummies' \in Nat
      BY <2>1 DEF Before, Active, CInv, TypeOK
    <2> QED BY <2>1, <2>2, OrderKeeps
  <1>2. ASSUME NEW d \in Durations, OrderSlice(d) PROVE Conversation'
    <2>1. /\ Send(RunTimeSlice(d)) /\ pc = "choose" /\ pc' = "select"
          /\ duration' = d /\ dummies' = 0 /\ UNCHANGED <<lines, clock, qemuVars>>
      BY <1>2 DEF OrderSlice
    <2>2. Active' /\ dummies' \in Nat BY <2>1 DEF Active
    <2> QED BY <2>1, <2>2, OrderKeeps
  <1>3. CASE ReadAck
    BY <1>3, ReadKeeps DEF ReadAck, Active
  <1>4. CASE AwaitBootStop
    BY <1>4, ReadKeeps, ReadStopKeeps DEF AwaitBootStop, Active
  <1>5. CASE Poll /\ ReadLine
    BY <1>5, ReadKeeps, ReadStopKeeps DEF Poll, Active
  <1>6. CASE DontHurry \/ (Poll /\ UNCHANGED lines)
    <2>1. /\ UNCHANGED <<commands, lines, clock, duration, dummies, qemuVars>>
          /\ Active /\ Active'
      BY <1>6 DEF DontHurry, Poll, ReadLine, Active
    <2> QED
      BY <2>1
      DEF CInv, Conversation, Arming, OrderPending, GuestRuns, StopPending, Answering, Known,
          OnlyClocks, NoStop, Active, Before, qemuVars
  <1> QED
    BY <1>1, <1>2, <1>3, <1>4, <1>5, <1>6, HurryKeeps, NegotiateKeeps, ReadResponseKeeps,
       QueryKeeps, AwaitTimeKeeps
    DEF Simulator, Poll

-----------------------------------------------------------------------------
(* QEMU's steps.                                                           *)

(* A command of the front is gone; one that is left was one place behind.  *)
LEMMA OrderTaken ==
  ASSUME CInv, commands # <<>>, commands' = Tail(commands), NoStop',
         monitor = "idle", UNCHANGED <<simVars, monitor, running, vclock>>
  PROVE  OrderPending' \/ ~NoStop
  <1> USE DEF CInv, Conversation, simVars
  <1> SUFFICES ASSUME NoStop, NEW n \in 1 .. Len(commands'),
                      commands'[n].execute = "run-time-slice"
               PROVE  /\ Active'
                      /\ commands'[n].duration = duration
                      /\ \A m \in n + 1 .. Len(commands') : commands'[m] = GetClock
                      /\ Len(commands') - n <= dummies
                      /\ ~running /\ vclock = clock
                      /\ clock <= vclock /\ vclock <= clock + Lag
    BY DEF OrderPending
  <1>1. /\ Len(commands') = Len(commands) - 1 /\ Len(commands) \in Nat \ {0}
        /\ \A k \in 1 .. Len(commands) - 1 : commands'[k] = commands[k + 1]
    BY TakeEffect
  <1>2. n + 1 \in 1 .. Len(commands) /\ commands[n + 1].execute = "run-time-slice"
        /\ commands'[n] = commands[n + 1]
    BY <1>1
  <1>3. /\ Active /\ commands[n + 1].duration = duration
        /\ \A m \in n + 2 .. Len(commands) : commands[m] = GetClock
        /\ Len(commands) - (n + 1) <= dummies
        /\ ~running /\ vclock = clock
        /\ clock <= vclock /\ vclock <= clock + Lag
    BY <1>2 DEF OrderPending
  <1>4. \A m \in n + 1 .. Len(commands') : commands'[m] = GetClock
    <2> TAKE m \in n + 1 .. Len(commands')
    <2>1. m + 1 \in n + 2 .. Len(commands) /\ commands'[m] = commands[m + 1] BY <1>1
    <2> QED BY <2>1, <1>3
  <1>5. Len(commands') - n = Len(commands) - (n + 1) BY <1>1
  <1> QED BY <1>2, <1>3, <1>4, <1>5 DEF Active

LEMMA CapabilitiesKeeps ==
  ASSUME CInv, HandleCapabilities
  PROVE  Conversation'
  <1> USE DEF CInv, Conversation, simVars, qemuVars
  <1>1. /\ monitor = "idle" /\ commands # <<>> /\ commands' = Tail(commands)
        /\ commands[1].execute = "qmp_capabilities" /\ 1 \in 1 .. Len(commands)
        /\ UNCHANGED <<simVars, qemuVars>> /\ Emit(<<Ok>>)
    BY TakeEffect DEF HandleCapabilities, NextCommand
  <1>2. ~OnlyClocks BY <1>1, Commands DEF OnlyClocks
  <1>3. ~running /\ NoStop /\ pc \notin {"stopped", "query", "choose"}
    BY <1>1, <1>2 DEF GuestRuns, StopPending, NoStop, Answering
  <1>4. NoStop'
    BY <1>1, <1>3, EmitEffect, LinesOfQMP DEF NoStop
  <1>5. OrderPending' BY <1>1, <1>3, <1>4, OrderTaken
  <1>6. Arming' /\ GuestRuns' /\ StopPending' /\ Answering' /\ Known'
    BY <1>1, <1>3, <1>4 DEF Arming, GuestRuns, StopPending, NoStop, Answering, Known, Before
  <1> QED BY <1>5, <1>6

LEMMA GetClockKeeps ==
  ASSUME CInv, HandleGetClock
  PROVE  Conversation'
  <1> USE DEF CInv, Conversation, simVars, qemuVars
  <1>1. /\ monitor = "idle" /\ commands # <<>> /\ commands' = Tail(commands)
        /\ UNCHANGED <<simVars, qemuVars>> /\ Emit(<<Time(vclock)>>)
    BY DEF HandleGetClock, NextCommand
  <1>2. vclock \in Nat /\ dummies \in Nat BY DEF TypeOK
  <1>3. /\ Len(lines') = Len(lines) + 1 /\ Len(lines) \in Nat
        /\ lines'[Len(lines) + 1] = Time(vclock)
        /\ \A n \in 1 .. Len(lines) : lines'[n] = lines[n]
    BY <1>1, <1>2, EmitEffect, LinesOfQMP
  <1>4. /\ Len(commands') = Len(commands) - 1 /\ Len(commands) \in Nat \ {0}
        /\ \A n \in 1 .. Len(commands) - 1 : commands'[n] = commands[n + 1]
    BY <1>1, TakeEffect
  <1>5. OnlyClocks => OnlyClocks' BY <1>4 DEF OnlyClocks
  <1>6. ~IsStop(Time(vclock)) BY <1>2, LinesOfQMP
  <1>7. NoStop => NoStop' BY <1>3, <1>6 DEF NoStop
  <1>8. NoStop \/ OnlyClocks BY DEF NoStop, StopPending
  <1>9. OrderPending'
    <2>1. CASE NoStop BY <2>1, <1>1, <1>7, OrderTaken
    <2>2. CASE OnlyClocks BY <2>2, <1>5, Commands DEF OrderPending, OnlyClocks
    <2> QED BY <2>1, <2>2, <1>8
  <1>10. GuestRuns' BY <1>1, <1>2, <1>4, <1>5, <1>7 DEF GuestRuns, Active
  <1>11. StopPending'
    <2> SUFFICES ASSUME NEW n \in 1 .. Len(lines'), IsStop(lines'[n])
                 PROVE  /\ Active' /\ ~running /\ OnlyClocks'
                        /\ \A m \in n + 1 .. Len(lines') : lines'[m] = Time(vclock)
                        /\ Len(lines') - n + Len(commands') <= dummies
      BY <1>1 DEF StopPending
    <2>1. n \in 1 .. Len(lines) /\ IsStop(lines[n]) BY <1>3, <1>6
    <2>2. /\ Active /\ ~running /\ OnlyClocks
          /\ \A m \in n + 1 .. Len(lines) : lines[m] = Time(vclock)
          /\ Len(lines) - n + Len(commands) <= dummies
      BY <2>1 DEF StopPending
    <2>3. \A m \in n + 1 .. Len(lines') : lines'[m] = Time(vclock) BY <2>1, <2>2, <1>3
    <2>4. Len(lines') - n + Len(commands') = Len(lines) - n + Len(commands)
      BY <2>1, <1>3, <1>4
    <2> QED BY <2>2, <2>3, <2>4, <1>1, <1>5 DEF Active
  <1>12. Answering'
    <2>1. Len(lines') + Len(commands') = Len(lines) + Len(commands) BY <1>3, <1>4
    <2>2. (\A n \in 1 .. Len(lines) : lines[n] = Time(vclock)) =>
            \A n \in 1 .. Len(lines') : lines'[n] = Time(vclock)
      BY <1>3
    <2> QED BY <2>1, <2>2, <1>1, <1>5 DEF Answering
  <1>13. Known' /\ Arming' BY <1>1 DEF Known, Before, Arming
  <1> QED BY <1>9, <1>10, <1>11, <1>12, <1>13

LEMMA RunKeeps ==
  ASSUME CInv, HandleRunTimeSlice
  PROVE  Conversation'
  <1> USE DEF CInv, Conversation, simVars, faultVars
  <1>1. /\ monitor = "idle" /\ commands # <<>> /\ monitor' = "arming"
        /\ commands[1].execute = "run-time-slice" /\ 1 \in 1 .. Len(commands)
        /\ Head(commands) = commands[1]
        /\ UNCHANGED <<simVars, commands, vclock>>
    BY Taken DEF HandleRunTimeSlice, NextCommand, TypeOK
  <1>2. /\ Active /\ NoStop /\ ~running
        /\ clock <= vclock /\ vclock <= clock + Lag /\ Len(commands) - 1 <= dummies
        /\ \A m \in 2 .. Len(commands) : commands[m] = GetClock
    BY <1>1 DEF OrderPending
  <1>3. NoStop'
    <2>1. Emit(<<>>) \/ Emit(<<Event("RESUME")>>)
      BY DEF HandleRunTimeSlice, Cont
    <2> QED BY <2>1, <1>2, EmitEffect, EmitNothing, LinesOfQMP DEF NoStop
  <1>4. Arming' BY <1>1 DEF Arming
  <1>5. OrderPending' BY <1>1, <1>2, <1>3 DEF OrderPending, Active
  <1>6. GuestRuns' /\ StopPending' /\ Answering' /\ Known'
    BY <1>1, <1>2, <1>3 DEF GuestRuns, StopPending, NoStop, Answering, Known, Active, Before
  <1> QED BY <1>4, <1>5, <1>6

LEMMA ArmKeeps ==
  ASSUME CInv, ArmTimer
  PROVE  Conversation'
  <1> USE DEF CInv, Conversation, simVars, faultVars
  <1>1. /\ monitor = "arming" /\ commands # <<>> /\ monitor' = "idle"
        /\ commands' = Tail(commands) /\ Head(commands).execute = "run-time-slice"
        /\ UNCHANGED <<simVars, running, vclock>>
    BY DEF ArmTimer, Arming
  <1>2. /\ Len(commands') = Len(commands) - 1 /\ Len(commands) \in Nat \ {0}
        /\ Head(commands) = commands[1]
        /\ \A n \in 1 .. Len(commands) - 1 : commands'[n] = commands[n + 1]
    BY <1>1, TakeEffect
  <1>3. /\ Active /\ NoStop
        /\ \A m \in 2 .. Len(commands) : commands[m] = GetClock
        /\ Len(commands) - 1 <= dummies
    BY <1>1, <1>2 DEF OrderPending
  <1>4. OnlyClocks' /\ Len(commands') <= dummies BY <1>2, <1>3 DEF OnlyClocks
  <1>5. NoStop'
    <2>1. Emit(<<Ok>>) \/ Emit(<<Error>>) BY DEF ArmTimer
    <2> QED BY <2>1, <1>3, EmitEffect, LinesOfQMP DEF NoStop
  <1>6. OrderPending' BY <1>4, Commands DEF OrderPending, OnlyClocks
  <1>7. GuestRuns' /\ StopPending' /\ Answering' /\ Known' /\ Arming'
    BY <1>1, <1>3, <1>4, <1>5
    DEF GuestRuns, StopPending, NoStop, Answering, Known, Arming, Active, Before
  <1> QED BY <1>6, <1>7

(* Whatever stops the guest, a timer or a fault.                           *)
LEMMA StopKeeps ==
  ASSUME CInv, StopBottomHalf \/ Fault
  PROVE  Conversation'
  <1> USE DEF CInv, Conversation, simVars, faultVars
  <1>1. /\ monitor = "idle" /\ Stop
        /\ UNCHANGED <<simVars, commands, monitor, vclock>>
    BY DEF StopBottomHalf, Fault
  <1>2. CASE running
    <2>1. Emit(<<Event("STOP")>>) /\ ~running' BY <1>1, <1>2 DEF Stop
    <2>2. /\ Len(lines') = Len(lines) + 1 /\ Len(lines) \in Nat
          /\ lines'[Len(lines) + 1] = Event("STOP")
          /\ \A n \in 1 .. Len(lines) : lines'[n] = lines[n]
      BY <2>1, EmitEffect, LinesOfQMP
    <2>3. Active /\ NoStop /\ OnlyClocks /\ Len(commands) <= dummies
      BY <1>1, <1>2 DEF GuestRuns
    <2>4. \A n \in 1 .. Len(lines') : IsStop(lines'[n]) => n = Len(lines')
      BY <2>2, <2>3 DEF NoStop
    <2>5. dummies \in Nat /\ Len(commands) \in Nat BY DEF TypeOK
    <2>6. StopPending'
      BY <1>1, <2>1, <2>2, <2>3, <2>4, <2>5 DEF StopPending, Active, OnlyClocks
    <2>7. OrderPending' BY <1>1, <2>3, Commands DEF OrderPending, OnlyClocks
    <2>8. Arming' /\ GuestRuns' /\ Answering' /\ Known'
      BY <1>1, <2>1, <2>3 DEF Arming, GuestRuns, Answering, Known, Active, Before
    <2> QED BY <2>6, <2>7, <2>8
  <1>3. CASE ~running
    <2>1. ~running' /\ lines' = lines BY <1>1, <1>3, EmitNothing DEF Stop
    <2> QED
      BY <1>1, <1>3, <2>1
      DEF Arming, OrderPending, GuestRuns, StopPending, Answering, Known, OnlyClocks,
          NoStop, Active, Before
  <1> QED BY <1>2, <1>3

LEMMA TickKeeps ==
  ASSUME CInv, Tick
  PROVE  Conversation'
  <1> USE DEF CInv, Conversation, simVars, faultVars
  <1>1. /\ running /\ vclock' = vclock + 1
        /\ UNCHANGED <<simVars, commands, lines, monitor, running>>
        /\ monitor = "arming" => vclock < clock + Lag
        /\ vclock \in Nat /\ clock \in Nat /\ Lag \in Nat /\ monitor \in {"idle", "arming"}
    BY ProtocolAssumption DEF Tick, TypeOK
  <1>2. Active /\ NoStop BY <1>1 DEF GuestRuns
  <1>3. OrderPending'
    <2> SUFFICES ASSUME NEW n \in 1 .. Len(commands), commands[n].execute = "run-time-slice"
                 PROVE  monitor = "arming" /\ clock <= vclock'
      BY <1>1, <1>2 DEF OrderPending, Active, NoStop
    <2>1. monitor = "arming" /\ clock <= vclock BY <1>1 DEF OrderPending
    <2> QED BY <2>1, <1>1
  <1>4. GuestRuns' /\ StopPending' /\ Answering' /\ Known' /\ Arming'
    BY <1>1, <1>2
    DEF GuestRuns, StopPending, NoStop, Answering, Known, Arming, Active, Before, OnlyClocks
  <1> QED BY <1>3, <1>4

LEMMA MachineConversation ==
  ASSUME CInv, MainThread \/ Fault \/ Tick
  PROVE  Conversation'
  <1>1. CASE TimerCallback
    BY <1>1
    DEF TimerCallback, CInv, Conversation, Arming, OrderPending, GuestRuns, StopPending,
        Answering, Known, OnlyClocks, NoStop, Active, Before, simVars, faultVars
  <1> QED
    BY <1>1, CapabilitiesKeeps, GetClockKeeps, RunKeeps, ArmKeeps, StopKeeps, TickKeeps
    DEF MainThread

(* The type invariant, and the conversation, of every instance.            *)
THEOREM ConversationCorrect == Spec => [](TypeOK /\ Conversation)
  <1>1. Init => CInv BY InitType, InitConversation DEF CInv
  <1>2. CInv /\ [Next]_vars => CInv'
    <2> SUFFICES ASSUME CInv, [Next]_vars PROVE CInv'
      OBVIOUS
    <2>1. CASE UNCHANGED vars
      BY <2>1
      DEF vars, CInv, TypeOK, Conversation, Arming, OrderPending, GuestRuns, StopPending,
          Answering, Known, OnlyClocks, NoStop, Active, Before
    <2>2. CASE Simulator
      BY <2>2, SimulatorType, SimulatorConversation DEF CInv
    <2>3. CASE MainThread \/ Fault \/ Tick
      BY <2>3, MachineType, MachineConversation DEF CInv, Conversation
    <2> QED BY <2>1, <2>2, <2>3 DEF Next, Finished
  <1> QED BY <1>1, <1>2, PTL DEF Spec, CInv

(* LeftoversHarmless: replies that main.cpp left unread are times of the   *)
(* stopped VM, and no more than hurrying commands of the last slice.       *)
THEOREM LeftoversAreHarmless == Spec => []LeftoversHarmless
  <1>1. TypeOK /\ Conversation => LeftoversHarmless
    BY DEF TypeOK, Conversation, Answering, OnlyClocks, LeftoversHarmless
  <1> QED BY <1>1, ConversationCorrect, PTL

-----------------------------------------------------------------------------
(* The timers.  Nothing in QEMU keeps one slice from finding the timer of  *)
(* another; without a fault the conversation does.                         *)

FaultFree ==
  faults = 0 =>
    /\ ~needsReset
    /\ monitor = "arming" => running /\ timers = {} /\ bh = {}
    /\ monitor = "idle" /\ ~running => timers = {} /\ bh = {}
    /\ monitor = "idle" /\ running =>
         \E t \in Nat :
           /\ clock + duration <= t
           /\ \/ timers = {t} /\ bh = {}
              \/ timers = {} /\ bh = {t} /\ t <= vclock

(* The slice's own timer, which may be one of several after a fault.       *)
OwnTimer ==
  monitor = "idle" /\ running => \E t \in timers \cup bh : t <= clock + duration + Lag

Timers == FaultFree /\ OwnTimer

LEMMA Durable == TypeOK => duration \in Nat /\ clock \in Nat /\ vclock \in Nat /\ faults \in Nat
                           /\ Lag \in Nat /\ Overrun \in Nat
  BY ProtocolAssumption DEF TypeOK

(* The command whose timer is being armed is the slice that was ordered.   *)
LEMMA Armed ==
  ASSUME CInv, monitor = "arming"
  PROVE  /\ Active /\ Head(commands).duration = duration
         /\ clock <= vclock /\ vclock <= clock + Lag
         /\ commands # <<>> /\ commands \in Seq(Command)
  <1>1. commands # <<>> /\ Head(commands).execute = "run-time-slice" /\ commands \in Seq(Command)
    BY DEF CInv, Conversation, Arming, TypeOK
  <1>2. Head(commands) = commands[1] /\ 1 \in 1 .. Len(commands)
    BY <1>1, Taken
  <1> QED BY <1>1, <1>2 DEF CInv, Conversation, OrderPending

LEMMA TimersStep ==
  ASSUME CInv, Timers, [Next]_vars
  PROVE  Timers'
  <1> USE Durable DEF Timers, FaultFree, OwnTimer, CInv, simVars, faultVars, qemuVars
  <1>1. CASE Simulator
    <2>1. UNCHANGED qemuVars
      BY <1>1 DEF Simulator, Negotiate, ReadResponse, OrderBoot, ReadAck, AwaitBootStop, OrderSlice,
           Hurry, DontHurry, Poll, Query, AwaitTime
    <2>2. CASE Active
      <3>1. UNCHANGED <<clock, duration>>
        BY <1>1, <2>2 DEF Simulator, Negotiate, ReadResponse, OrderBoot, ReadAck, AwaitBootStop,
             OrderSlice, Hurry, DontHurry, Poll, Query, AwaitTime, Active
      <3> QED BY <2>1, <3>1
    <2>3. CASE ~Active
      <3>1. ~running BY <2>3 DEF Conversation, GuestRuns
      <3>2. monitor # "arming" BY <2>3, Armed
      <3> QED BY <2>1, <3>1, <3>2
    <2> QED BY <2>2, <2>3
  <1>2. CASE HandleCapabilities \/ HandleGetClock
    BY <1>2 DEF HandleCapabilities, HandleGetClock
  <1>3. CASE HandleRunTimeSlice
    <2>1. /\ monitor = "idle" /\ monitor' = "arming"
          /\ running' = (running \/ ~needsReset)
          /\ UNCHANGED <<timers, bh, faults, needsReset>>
      BY <1>3 DEF HandleRunTimeSlice, Cont, NextCommand
    <2>2. ~running
      <3>1. 1 \in 1 .. Len(commands) /\ commands[1].execute = "run-time-slice"
        BY <1>3, Taken DEF HandleRunTimeSlice, NextCommand, TypeOK
      <3> QED BY <2>1, <3>1 DEF Conversation, OrderPending
    <2> QED BY <2>1, <2>2
  <1>4. CASE ArmTimer
    <2>1. /\ monitor = "arming" /\ monitor' = "idle"
          /\ timers' = timers \cup {vclock + Head(commands).duration}
          /\ UNCHANGED <<clock, duration, running, vclock, bh, faults, needsReset>>
      BY <1>4 DEF ArmTimer
    <2>2. /\ timers' = timers \cup {vclock + duration}
          /\ clock + duration <= vclock + duration
          /\ vclock + duration <= clock + duration + Lag
          /\ vclock + duration \in Nat
      BY <2>1, Armed
    <2>3. FaultFree' BY <2>1, <2>2
    <2>4. OwnTimer' BY <2>1, <2>2
    <2> QED BY <2>3, <2>4
  <1>5. CASE TimerCallback
    <2>1. /\ monitor = "idle" /\ running
          /\ timers' = {t \in timers : t > vclock}
          /\ bh' = bh \cup {t \in timers : t <= vclock}
          /\ \E t \in timers : t <= vclock
          /\ UNCHANGED <<clock, duration, running, vclock, monitor, faults, needsReset>>
      BY <1>5 DEF TimerCallback
    <2>2. \A t \in timers : t \in Nat BY DEF TypeOK
    <2>3. timers' \cup bh' = timers \cup bh BY <2>1, <2>2
    <2>4. OwnTimer' BY <2>1, <2>3
    <2>5. FaultFree'
      <3> SUFFICES ASSUME faults = 0 PROVE FaultFree'
        BY <2>1
      <3>1. PICK t \in Nat : clock + duration <= t /\ timers = {t} /\ bh = {}
        BY <2>1
      <3>2. t <= vclock BY <2>1, <3>1
      <3>3. timers' = {} /\ bh' = {t} BY <2>1, <3>1, <3>2
      <3> QED BY <2>1, <3>1, <3>2, <3>3
    <2> QED BY <2>4, <2>5
  <1>6. CASE StopBottomHalf
    BY <1>6 DEF StopBottomHalf, Stop
  <1>7. CASE Fault
    BY <1>7 DEF Fault, Stop
  <1>8. CASE Tick
    BY <1>8 DEF Tick
  <1>9. CASE UNCHANGED vars
    BY <1>9 DEF vars
  <1> QED
    BY <1>1, <1>2, <1>3, <1>4, <1>5, <1>6, <1>7, <1>8, <1>9 DEF Next, MainThread, Finished

LEMMA TimersCorrect == Spec => []Timers
  <1>1. Init => Timers BY DEF Init, Timers, FaultFree, OwnTimer
  <1>2. TypeOK /\ Conversation /\ Timers /\ [Next]_vars => Timers'
    BY TimersStep DEF CInv
  <1> QED BY <1>1, <1>2, ConversationCorrect, PTL DEF Spec

(* A run-time-slice never finds the guest running, a timer armed or a stop *)
(* on its way, unless QEMU has stopped the guest by itself (OneSlice).     *)
THEOREM OneSliceAtATime == Spec => []OneSlice
  <1>1. TypeOK /\ Conversation /\ Timers => OneSlice
    BY DEF TypeOK, Conversation, OrderPending, Timers, FaultFree, OneSlice, Ordered
  <1> QED BY <1>1, ConversationCorrect, TimersCorrect, PTL

-----------------------------------------------------------------------------
(* The refinement.  What TimeSlice calls paused, as far as pc tells.       *)
Resting == pc \in {"negotiate", "negotiated", "boot", "choose"}

LEMMA OnlyWhileActive ==
  ASSUME CInv
  PROVE  ~Active => ~running /\ ~Ordered
  BY DEF CInv, Conversation, GuestRuns, OrderPending, Ordered

(* What leaves the slice where it is.                                      *)
LEMMA Stutter ==
  ASSUME UNCHANGED <<running, vclock, clock, duration, faults, Ordered, Resting>>
  PROVE  UNCHANGED Slice!sliceVars
  BY DEF Slice!sliceVars, Phase, Resting

LEMMA SentOther ==
  ASSUME CInv, NEW c \in Command, Send(c), c.execute # "run-time-slice"
  PROVE  UNCHANGED Ordered
  <1> USE SendEffect DEF CInv
  <1>1. ASSUME NEW n \in 1 .. Len(commands), commands[n].execute = "run-time-slice"
        PROVE  n \in 1 .. Len(commands') /\ commands'[n].execute = "run-time-slice"
    BY <1>1
  <1>2. ASSUME NEW n \in 1 .. Len(commands'), commands'[n].execute = "run-time-slice"
        PROVE  n \in 1 .. Len(commands) /\ commands[n].execute = "run-time-slice"
    BY <1>2
  <1> QED BY <1>1, <1>2 DEF Ordered

LEMMA HandledOther ==
  ASSUME CInv, commands # <<>>, commands' = Tail(commands),
         Head(commands).execute # "run-time-slice"
  PROVE  UNCHANGED Ordered
  <1> USE TakeEffect DEF CInv
  <1>1. ASSUME NEW n \in 1 .. Len(commands), commands[n].execute = "run-time-slice"
        PROVE  n - 1 \in 1 .. Len(commands') /\ commands'[n - 1].execute = "run-time-slice"
    <2>1. n # 1 BY <1>1
    <2>2. n - 1 \in 1 .. Len(commands) - 1 BY <2>1
    <2>3. commands'[n - 1] = commands[(n - 1) + 1] BY <2>2
    <2> QED BY <1>1, <2>2, <2>3
  <1>2. ASSUME NEW n \in 1 .. Len(commands'), commands'[n].execute = "run-time-slice"
        PROVE  n + 1 \in 1 .. Len(commands) /\ commands[n + 1].execute = "run-time-slice"
    BY <1>2
  <1> QED BY <1>1, <1>2 DEF Ordered

(* A slice is ordered from a VM that rests.                                *)
LEMMA OrderMaps ==
  ASSUME CInv, NEW d \in Durations \cup {BootDuration}, Send(RunTimeSlice(d)),
         Resting, ~Resting', duration' = d, clock' = clock, UNCHANGED qemuVars
  PROVE  Slice!Order
  <1>1. ~running /\ ~Ordered BY OnlyWhileActive DEF Resting, Active
  <1>2. Ordered' BY SendEffect, Commands DEF CInv, Ordered
  <1>3. d \in Nat BY ProtocolAssumption
  <1>4. Phase = "paused" /\ Phase' = "ordered" /\ UNCHANGED <<vclock, faults>>
    BY <1>1, <1>2 DEF Phase, Resting, qemuVars
  <1> QED BY <1>3, <1>4 DEF Slice!Order

LEMMA SimulatorMaps ==
  ASSUME CInv, Simulator
  PROVE  [Slice!Next]_(Slice!sliceVars)
  <1> USE DEF qemuVars
  <1>o. UNCHANGED commands => UNCHANGED Ordered BY DEF Ordered
  <1>1. CASE Negotiate
    BY <1>1, SentOther, Commands, Stutter DEF Negotiate, Resting
  <1>2. CASE ReadResponse \/ ReadAck \/ AwaitBootStop \/ DontHurry \/ Poll
    BY <1>2, <1>o, Stutter
    DEF ReadResponse, ReadAck, AwaitBootStop, DontHurry, Poll, Resting
  <1>3. CASE OrderBoot
    BY <1>3, OrderMaps DEF OrderBoot, Resting, Slice!Next
  <1>4. ASSUME NEW d \in Durations, OrderSlice(d)
        PROVE  Slice!Next
    BY <1>4, OrderMaps DEF OrderSlice, Resting, Slice!Next
  <1>5. CASE Hurry \/ Query
    BY <1>5, SentOther, Commands, Stutter DEF Hurry, Query, Resting
  <1>6. CASE AwaitTime
    <2>1. CASE ~IsTime(Head(lines))
      BY <1>6, <2>1, <1>o, Stutter DEF AwaitTime, Resting
    <2>2. CASE IsTime(Head(lines))
      <3>1. /\ pc = "query" /\ pc' = "choose" /\ clock' = Head(lines).time
            /\ UNCHANGED <<commands, running, vclock, faults>>
        BY <1>6, <2>2 DEF AwaitTime
      <3>2. ~running /\ ~Ordered BY <3>1, OnlyWhileActive DEF Active
      <3>3. Phase = "stopped" /\ Phase' = "paused"
        BY <3>1, <3>2, <1>o DEF Phase
      <3>4. Head(lines) = Time(vclock)
        BY <1>6, <3>1, ReadEffect DEF AwaitTime, CInv, Conversation, Answering
      <3>5. clock' = vclock BY <3>1, <3>4, LinesOfQMP DEF CInv, TypeOK
      <3> QED BY <3>1, <3>3, <3>5 DEF Slice!Learn, Slice!Next
    <2> QED BY <2>1, <2>2
  <1> QED BY <1>1, <1>2, <1>3, <1>4, <1>5, <1>6 DEF Simulator

(* The end of a slice, whatever stops the guest.                           *)
LEMMA StopMaps ==
  ASSUME CInv, running, monitor = "idle", Stop, UNCHANGED <<simVars, commands, vclock>>
  PROVE  Phase = "running" /\ Phase' = "stopped"
  <1>1. Active /\ OnlyClocks BY DEF CInv, Conversation, GuestRuns
  <1>2. ~Ordered /\ UNCHANGED Ordered BY <1>1, Commands DEF OnlyClocks, Ordered
  <1> QED BY <1>1, <1>2 DEF Stop, Phase, Active, simVars

LEMMA MachineMaps ==
  ASSUME CInv, Timers, MainThread \/ Fault \/ Tick
  PROVE  [Slice!Next]_(Slice!sliceVars)
  <1> USE DEF simVars, qemuVars, faultVars
  <1>o. UNCHANGED commands => UNCHANGED Ordered BY DEF Ordered
  <1>1. CASE HandleCapabilities \/ HandleGetClock
    BY <1>1, HandledOther, Stutter DEF HandleCapabilities, HandleGetClock, NextCommand, Resting
  <1>2. CASE HandleRunTimeSlice
    <2>1. /\ 1 \in 1 .. Len(commands) /\ commands[1].execute = "run-time-slice"
          /\ monitor = "idle" /\ running' = (running \/ ~needsReset)
          /\ UNCHANGED <<simVars, commands, vclock, faults>>
      BY <1>2, Taken DEF HandleRunTimeSlice, Cont, NextCommand, CInv, TypeOK
    <2>2. Ordered /\ ~running
      BY <2>1 DEF Ordered, CInv, Conversation, OrderPending
    <2>3. CASE needsReset
      <3>1. running' = running BY <2>1, <2>2, <2>3 DEF CInv, TypeOK
      <3> QED BY <2>1, <3>1, <1>o, Stutter DEF Resting
    <2>4. CASE ~needsReset
      <3>1. Phase = "ordered" /\ Phase' = "running" BY <2>1, <2>2, <2>4 DEF Phase
      <3> QED BY <2>1, <3>1 DEF Slice!Resume, Slice!Next
    <2> QED BY <2>3, <2>4
  <1>3. CASE ArmTimer
    <2>1. /\ monitor = "arming" /\ commands' = Tail(commands)
          /\ UNCHANGED <<simVars, running, vclock, faults>>
      BY <1>3 DEF ArmTimer
    <2>2. Active /\ commands # <<>> /\ Head(commands).execute = "run-time-slice"
      BY <2>1, Armed DEF CInv, Conversation, Arming
    <2>3. CASE running
      BY <2>1, <2>3 DEF Phase, Slice!sliceVars
    <2>4. CASE ~running
      <3>1. faults > 0 BY <2>1, <2>4 DEF Timers, FaultFree, CInv, TypeOK
      <3>2. /\ Len(commands') = Len(commands) - 1 /\ Len(commands) \in Nat \ {0}
            /\ Head(commands) = commands[1]
            /\ \A n \in 1 .. Len(commands) - 1 : commands'[n] = commands[n + 1]
        BY <2>1, <2>2, TakeEffect DEF CInv
      <3>3. \A m \in 2 .. Len(commands) : commands[m] = GetClock
        BY <2>2, <3>2 DEF CInv, Conversation, OrderPending
      <3>4. Ordered /\ ~Ordered'
        BY <2>2, <3>2, <3>3, Commands DEF Ordered
      <3>5. Phase = "ordered" /\ Phase' = "stopped"
        BY <2>1, <2>2, <2>4, <3>4 DEF Phase, Active
      <3> QED BY <2>1, <3>1, <3>5 DEF Slice!Fault, Slice!Next
    <2> QED BY <2>3, <2>4
  <1>4. CASE TimerCallback
    BY <1>4, <1>o, Stutter DEF TimerCallback, Resting
  <1>5. CASE StopBottomHalf
    <2>1. /\ monitor = "idle" /\ bh # {} /\ Stop
          /\ UNCHANGED <<simVars, commands, vclock, faults>>
      BY <1>5 DEF StopBottomHalf
    <2>2. CASE running
      <3>1. Phase = "running" /\ Phase' = "stopped" BY <2>1, <2>2, StopMaps
      <3>2. vclock >= clock + duration \/ faults > 0
        <4>1. CASE faults = 0
          <5>1. PICK t \in Nat : clock + duration <= t /\ t <= vclock
            BY <2>1, <2>2, <4>1 DEF Timers, FaultFree
          <5> QED BY <5>1, Durable DEF CInv
        <4> QED BY <4>1, Durable DEF CInv
      <3> QED BY <2>1, <3>1, <3>2 DEF Slice!Stop, Slice!Next
    <2>3. CASE ~running
      <3>1. running' = running BY <2>1, <2>3 DEF Stop, CInv, TypeOK
      <3> QED BY <2>1, <3>1, <1>o, Stutter DEF Resting
    <2> QED BY <2>2, <2>3
  <1>6. CASE Fault
    <2>1. /\ monitor = "idle" /\ running /\ Stop /\ faults' = faults + 1
          /\ UNCHANGED <<simVars, commands, vclock>>
      BY <1>6 DEF Fault
    <2>2. Phase = "running" /\ Phase' = "stopped" BY <2>1, StopMaps
    <2>3. faults' > 0 BY <2>1, Durable DEF CInv
    <2> QED BY <2>1, <2>2, <2>3 DEF Slice!Fault, Slice!Next
  <1>7. CASE Tick
    <2>1. /\ running /\ vclock' = vclock + 1
          /\ UNCHANGED <<simVars, commands, running, faults>>
          /\ monitor = "arming" => vclock < clock + Lag
          /\ \A t \in timers \cup bh : vclock < t + Overrun
      BY <1>7 DEF Tick
    <2>2. vclock < clock + duration + (Lag + Overrun)
      <3>1. CASE monitor = "arming" BY <2>1, <3>1, Durable DEF CInv
      <3>2. CASE monitor = "idle"
        <4>1. PICK t \in timers \cup bh : t <= clock + duration + Lag
          BY <2>1, <3>2 DEF Timers, OwnTimer
        <4>2. t \in Nat BY <4>1 DEF CInv, TypeOK
        <4> QED BY <2>1, <4>1, <4>2, Durable DEF CInv
      <3> QED BY <3>1, <3>2 DEF CInv, TypeOK
    <2>3. Phase = "running" /\ Phase' = "running" BY <2>1 DEF Phase
    <2> QED BY <2>1, <2>2, <2>3 DEF Slice!Tick, Slice!Next
  <1> QED BY <1>1, <1>2, <1>3, <1>4, <1>5, <1>6, <1>7 DEF MainThread

(* The protocol implements what the scheduler relies on: slices that are   *)
(* never too long, too short only after a fault, and the exact clock at    *)
(* the end of each (ImplementsTimeSlice).                                  *)
THEOREM SlicesAsPromised == Spec => ImplementsTimeSlice
  <1>1. Init => Slice!Init
    BY DEF Init, Slice!Init, Phase, Ordered
  <1>2. TypeOK /\ Conversation /\ Timers /\ [Next]_vars => [Slice!Next]_(Slice!sliceVars)
    <2> SUFFICES ASSUME CInv, Timers, [Next]_vars PROVE [Slice!Next]_(Slice!sliceVars)
      BY DEF CInv
    <2>1. CASE UNCHANGED vars
      BY <2>1, Stutter DEF vars, Ordered, Resting
    <2>2. CASE Simulator \/ MainThread \/ Fault \/ Tick
      BY <2>2, SimulatorMaps, MachineMaps
    <2> QED BY <2>1, <2>2 DEF Next, Finished
  <1> QED
    BY <1>1, <1>2, ConversationCorrect, TimersCorrect, PTL
    DEF Spec, Slice!Spec, ImplementsTimeSlice
=============================================================================
