# A TLA+ development of the network simulator

This directory models the program of this repository in TLA+, checks the models with TLC
on small instances and proves most of the safety properties with TLAPS: for any number
of VMs and any latencies, any number of slices, any number of broadcasting processes. It
is meant to be read beside the code; `src/` below is the root of the repository.

## The system

A distributed program under test runs in QEMU VMs. The simulator
(`network_simulator/src/main.cpp`) keeps all of them paused but one, runs that one for a
*time slice* of virtual time, collects the Ethernet frames it emits from its TAP device,
and writes to it the frames of the others once their virtual delivery time has come. It
commands QEMU over QMP sockets; QEMU is modified (`qemu_modif/`) to run a VM for a given
time and to tell its virtual clock.

| component | state | operations | talks to |
|---|---|---|---|
| **Simulator main loop**, `main.cpp` | `virtual_clocks_ns`, `inter_vm_queues`, `inter_vm_delays_ms`, `deque_to_deliver`, the slice | choose a VM, merge its due frames, order a slice, read and stamp frames, deliver, read the clock | the guests by TAP devices, QEMU by QMP |
| **QMP conversation**, `main.cpp` | the sockets, what is still unread in them | negotiation, boot slice, slices, "dummy" commands, clock queries | QEMU; gives the main loop its slices and clocks |
| **QEMU time-slice commands**, `qmp-cmds.c`, `misc.json` | the running state, a timer, a bottom half | `run-time-slice`, `get-virtual-clock-ns`, timer callback, stop | the simulator (replies, `RESUME` and `STOP` events), the guest |
| **Line reader**, `helpers.h` | `qmp_socket_to_buffers` | `read_line` | the socket; called after `select()` by the main loop |
| **Bracha node**, `bracha_broadcast/node` | counters and state per value, streams to the peers with what is kept of each | connecting the mesh, the first broadcast, writing and reading messages, handlers of Initial, Echo and Ready, exit | n - 1 peers by TCP |
| **Launcher**, `start.py` | processes, devices, the guests' interfaces | create devices, start VMs, set the guests up, run the simulator, clean up; Ctrl+C | QEMU, the simulator, the guests by ssh |
| **Run scripts**, `bracha_broadcast/run` | which nodes are set up | kill what is left of an earlier run, launch on all nodes | the nodes by ssh |
| **HotStuff scripts**, `hotstuff_modif` | none to speak of | upload, start, time a benchmark | the guests by ssh |
| vendored `simdjson`, latency files, base image script | | | |

**What is hard.** The simulator is one thread, but three clocks and three parties run
beside each other during a slice: the host's clock, the guest with its virtual clock,
and QEMU's main thread. The simulator does not know the guest's clock while it runs and
uses an estimate; it learns of the end of a slice by an event that queues behind other
lines, after frames may have been left in the TAP; lines are never matched with the
commands they answer; a slice is ordered in whole milliseconds while all the books are
kept in nanoseconds. The Bracha node counts messages rather than senders, tests each
threshold only on some messages, and ends while its peers may still need it; it writes
to streams that do not block and ignores how much was taken; the processes of one run
meet what is left of the one before. QEMU may stop a guest by itself, after which a
forgotten timer cuts later slices short or no slice ever ends again, and a write to a
TAP may fail with the frame already taken. The launcher looks at no result and waits for
no readiness, and Ctrl+C reaches five kinds of processes at once. `PROJECT.json` lists
these hazards, each at its line, with the properties that would fail.

**What makes each component correct.**

- Main loop: no VM runs past the moment at which a frame could still reach it; a frame
  is delivered once, in the order of its link, not before its latency and not too late,
  and lost only by the truncation of a slice or by a failure of its receiver; all VMs
  keep making progress as long as no guest fails.
- QMP conversation: one slice at a time; the clock read after a slice is that of the
  stopped VM, whatever replies are still around; every slice ends.
- Line reader: lines come back whole and in order, and none is kept where `select()`
  cannot see it.
- Bracha node: counters are quorums, every process delivers every value, none broadcasts
  before its last value was delivered, and none fails. Under it: the mesh is complete
  when a process starts to broadcast, and a stream carries whole messages, in order,
  until it breaks.
- Launcher: when it has cleaned up no device and no process is left behind, not even of
  earlier runs; it ends when the simulator does; after "READY!" the guests get their
  addresses.

## The modules

| module | what it is |
|---|---|
| `VirtualNetwork` | abstract: virtual clocks and ordered links with latencies, which lose only what is due within a given time, and VMs that may break |
| `Scheduler` | the loop `while(true)` of `main.cpp`, the host clock and the guests, with their failures; implements `VirtualNetwork` |
| `SchedulerProofs` | theorems about the timing of `Scheduler`, the order of its links and what can be lost |
| `LatencyProofs` | the theorems about stamps: latencies are kept, no frame is forgotten |
| `NetworkProofs` | the theorem that `Scheduler` implements `VirtualNetwork` |
| `TimeSlice` | abstract: the slice of one VM, what `Scheduler` relies on |
| `SliceProtocol` | the QMP conversation with one VM and the commands of `qmp-cmds.c`; implements `TimeSlice` |
| `SliceProofs` | its theorems, the last of which is that refinement |
| `ReadLine` | `read_line` under `select()`, to the end of the stream |
| `ReadLineProofs` | the theorems that lines are whole and none is hidden, for any lines |
| `ReliableBroadcast` | abstract: broadcast by sources that wait for their own delivery |
| `Bracha` | n nodes of `main.rs` in their main loop; implements `ReliableBroadcast` |
| `BrachaProofs` | the proof of that refinement, that counting messages is counting processes, and that of two or three processes none fails |
| `Link` | abstract: a FIFO link that may break |
| `Mesh` | how the nodes get connected, from the run script to the main loop |
| `Framing` | `broadcast()` and the reading of one stream, byte by byte; implements `Link` |
| `Links` | `Mesh` and `Framing` composed: any one link of a mesh that is being connected |
| `LinksProofs` | theorems about the mesh, for any number of processes, and about the stream of a link, the last of which is that refinement |
| `Launcher` | `start.py`, the processes it starts, Ctrl+C and a second start |
| `LauncherProofs` | the theorems about the types, and that no device and no process is left behind |
| `MCScheduler`, `MCSliceProtocol`, `MCBracha`, `MCLinks` | the values of constants for TLC |

How they compose. `Scheduler` has, as actions of the machine, what `TimeSlice` promises
of one VM: a slice is ordered (`StartSlice`), the guest resumes (`Resume`), runs
(`Tick`), stops (`Stop`), and the simulator learns the exact clock (`QueryClock`). A
slice is never longer than `RunFor + Overrun`. It is at least `RunFor` long until QEMU
has stopped that guest by itself (`Fault`, as in `TimeSlice`); from then on a timer may
be left over, and `Stop` may end any slice of that VM at any time, which is more than
the one timer of each fault can do. If QEMU does not resume the guest any more
(`Refuse`), no STOP comes, and the loop turns for ever in that slice; in `TimeSlice`
this is a slice that stays ordered. `SliceProtocol` implements the promise in its
conversation with the modified QEMU, with its `Lag + Overrun` in the place of the
scheduler's `Overrun`. In turn `SliceProtocol` has whole lines on its socket, which is
what `ReadLine` shows of bytes that arrive in pieces. `Launcher` starts all of them and
has of the simulator only that it connects, runs and ends.

The Bracha nodes are an application of the simulator and share no state with it.
`Bracha` is written on `n * (n - 1)` links, each a sequence of messages: this is `Link`
as long as it is not broken. `Links` has the nodes enter their loops one after the other
(`Mesh`) while the two ends of any one of the links write to it and read from it
(`Framing`), and shows that this link is a `Link`. Links share nothing but the processes
at their ends, so one link, with its ends left open (`src`, `dst`), stands for all.

A definition that is marked `mutant` is a plausible error in the definition that follows
it; nothing in a specification uses it. It records which mistake a property catches
(`PROJECT.json`, "mutants").

### Scheduler

| action | code (`main.cpp`) |
|---|---|
| `Init` | the end of the boot slice, l. 110-189: any clocks up to the overrun apart, all queues empty |
| `ChooseVM` | l. 196-219: the first VM with the smallest clock, the slice as the minimum over its peers |
| `MergeFrame` | one turn of l. 220-246; `Due` is the test of l. 231, ties go to the lower queue |
| `StartSlice` | l. 251-267: the start time, the order in whole milliseconds (`RunFor`) |
| `Select` | l. 269-298: one line is read, which is the STOP line or one before it |
| `ReadTap` | l. 300-346: one frame is read, stamped with `Estimate` plus latency, queued for its receivers |
| `Deliver`, `WriteFirst` | l. 349-370: all frames before `std::upper_bound` are written and popped, those whose `write()` failed (l. 364) too; the loop ends or goes on |
| `QueryClock` | l. 372-386: the clock is updated and the deque goes out of scope |
| `Resume`, `Refuse` | `qmp-cmds.c` l. 59-64: `qmp_run_time_slice` resumes the guest, or `qmp_cont` refuses |
| `Stop` | `qmp-cmds.c` l. 44-50 and 68-77: the timer of this slice, or one that an earlier fault has left armed |
| `Fault`, `Tick`, `Emit` | external: QEMU stopping a guest by itself, the clocks, the guest |

Time is in ticks, `Ms` of them to a millisecond. With `Ms > 1` a clock need not be a
whole number of milliseconds and the truncation at l. 261 shows; with `Ms = 1` it does
not. The payload of a frame is its identity and the virtual time at which it was sent,
neither of which the code can see; properties use them. `failed` and `lost` are
auxiliary too: which VMs could not be written to, and which frames did not reach a VM
that should have got them, because the deque was dropped, a write failed, or the guest
never runs again (`Lose`). Nothing in the loop reads them.

`std::upper_bound` assumes a sorted range, and the deque need not be sorted: a late turn
of the loop stamps a frame later than a frame that the same VM sends at the start of its
next slice. `IsUpperBound` allows every place at which a binary search could stop.
(`pop_front` on the deque that l. 360-368 iterates over moves no other element in the
library's deque, so the loop writes exactly these frames.)

`VirtualNetwork` knows of a frame only its number, its sender's clock and the link it is
on; a frame is on its link from the guest that sends it to the TAP of the receiver,
whether it is in the sender's TAP, in a queue or in the deque (`Wire`). The network may
hand several frames over in a step and may lose some (`MayLose`). On the way to a VM
that has not broken these are only frames due within `Grain`. The loop has `Ms - 1` for
it, the most that the truncation of a slice cuts off, so with times in whole
milliseconds the network loses nothing there. On the way to a VM that is `broken` (QEMU
has stopped its guest, or it could not be written to; only VMs in `Weak` can break) it
may lose any frame that is `Safe`: due no later than what a peer could still send. That
is the deque of the slice that ends early, and no more.

Frames that a guest sends before the end of the boot slice are not modelled (the
interfaces are set up later), nor frames shorter than an address, which the code
ignores, nor a guest addressing itself.

### SliceProtocol

Two FIFOs (commands and lines), the simulator's place in the conversation, and QEMU.
`monitor` tells whether its main thread is inside `qmp_run_time_slice`, after `qmp_cont`
has resumed the guest (l. 64) and before the timer is armed (l. 76): the guest runs in
between, and the slice is that much longer. The timers' callback and the bottom half run
in the main thread, so not inside a handler.

Every command makes a timer of its own and nothing cancels one (`timers` and `bh` are
sets of expiry times). In an undisturbed conversation there is never more than one; that
is `OneSlice`. QEMU may stop the guest by itself (`Fault`): an I/O error, after which
`qmp_cont` resumes it and the timer left over cuts the next slice short, or an internal
error, after which `qmp_cont` refuses (`needsReset`), the handler goes on to arm a timer
all the same, and the simulator may wait for ever. `TimeSlice` says what is left of the
promise then: never a slice that is too long.

`Hurry` is the "dummy" command of l. 285; its guard compares the host's clock with the
slice and the guest may have run any part of it by then, so it is free. Each reply to it
stays unread if STOP comes first.

### ReadLine

A byte is its place in the stream, line n ends with byte `ends[n]`, and the network cuts
the stream in any way. What `read_line` returned is then a stretch of numbers, and that
it is the line QEMU sent is that this stretch goes from behind one end to the next
(`LinesIntact`). `Lengths` and `Longest` say how long lines can be; no line of QMP is
shorter than four bytes, which is the assumption the proofs need. `Chunk` is the
`sizeof(BUFF_SIZE)` of l. 76, four bytes. It is an accident that this is no longer than
any line of QMP, and it is what makes `NothingHidden` hold; with the size of the buffer
(the mutant `WholeBuffer`) the simulator could wait for a STOP line it already has. QEMU
may end anywhere in the stream (`Close`, after which `last` is the last byte there is);
`read()` then gives nothing for ever, and `read_line` turns without end unless it has a
line (`ReadNothing`), which is why the property is about the lines that were sent.

### Bracha

A step of a process is a handler: it takes one message of one stream, changes counters
and state and writes its own messages to all peers. A handler of the code that finds a
second condition true (Echo, then Ready, then the next Initial) does all of it in the
step. Values are `k*n + p` as in the code. Streams are reliable and without a limit; an
exit closes them: what the process had not read, or what is written to it later, is
answered by a reset, and a peer panics when it writes to such a stream (after any part
of the peers has got the message) or reads beyond its data. Constants put a run where it
is interesting: `Settled[p]` values of process p are done with everywhere, and the
processes in `Behind` have not read anything of the one value that is left.

### Mesh, Framing and Links

| action | code |
|---|---|
| `Setup`, `SetupsEnded`, `Launch` | `bracha_broadcast_sim.py` and `script_sim_setup.sh`: all setups end before the first launch; a process that cannot bind panics |
| `Connect`, `Refused`, `Wake` | `main.rs` l. 82-103: the listener, and the loop over the later processes, trying again every half second |
| `Connected`, `Accept` | l. 106-122: is the listener needed, accept until there are P - 1 streams |
| `Write`, `WriteFails` | l. 37-45, `broadcast()`: one `write()` to a stream that does not block, its count ignored; `WouldBlock` ends the process |
| `ReadStream` | l. 155-176 and 275: read up to 200 bytes, parse what is whole, keep the rest |

A byte is known by the message it belongs to and its place in it. `ByteOffset` is what
the parser does with any such bytes, a message that was cut included: it stops at the
first thing that is not a message. The sockets hold a bounded number of bytes, so a
write can be partial or refused; a process that ends may lose what it had not
transmitted. From the first lost byte on nothing is received, which is `Link` with
`broken`. Setting up is simplified in one place: the `kill` of the setup script only
sends a signal, and `Setup` has the old process gone when the script has ended, which
the ssh connections and shells in between give it the time for; nothing in the scripts
enforces it. A sender that panics stays in its loop as far as `Mesh` is concerned; it
has all its streams then, so nobody connects to it any more, and what it leaves in the
backlog of a peer can be accepted, with its address (l. 112), since the peer has not
written to it and closing it sends no reset. `StreamInOrder` says where every byte on
its way stands; the refinement is two properties, what a link may do (`ImplementsLink`)
and that it delivers in the end (`DeliversLink`).

### Launcher

`pc` and `i` are the place of `start.py` in its list of commands. `os.system()` ignores
SIGINT in `start.py` while the command in the foreground dies of it (`InterruptCommand`:
the command has no effect and the next one follows); anywhere else it is a
`KeyboardInterrupt` that ends `start.py` (`Interrupt`). Either way the whole process
group gets it (`Group`): VMs, simulator, the process that sets the guests up. A second
start finds whatever devices and VMs the first has left (`Restart`). The set-up process
waits for one ssh server after the other and does not wait for the three commands it
starts in each guest (`ConfigureGuest`, `GuestCommand`); guests only run while the
simulator does. A simulator that could not connect ends at its first command
(`NegotiateQMP`).

`CreateTap` is a turn of the loops of l. 34-52. A device that is deleted takes its
addresses and its routes (table 13) with it, so they have no variable of their own. The
policy rule of an application TAP (`ip rule add iif tapN lookup 13`, l. 50) does not go
with the device, and nothing in `cleaning_cmds` deletes it: `rules` stays after every
run. `CleanedUp` is about devices and processes only. A rule is kept by the name of its
TAP and applies again when the next run creates that TAP. (A next run with more VMs
would give the name to a TAP of a VM; `V` is the same for all the runs of the model.)

## Runs

Every property of a passing run has a mutant which it refutes.

| run | question | instance |
|---|---|---|
| `Scheduler_rounding` | Do the clocks and stamps stay within their bounds, and is the latency kept, with all tolerances at work and a guest that may fail? | 2 VMs, asymmetric delays, `Ms` 2, overrun and linger 1, 2 frames, VM 0 fragile |
| `Scheduler_faults` | What can be lost, and is it a virtual network in which VMs may break? | 2 VMs, `Ms` 2, lag, overrun and linger 1, 1 frame, both guests fragile, both TAPs unwritable at times |
| `Scheduler_inversion` | Is order kept, is anything lost without a failure or forgotten, how far are stamps off, with an unsorted deque? | 2 VMs, `Ms` 1, linger 1, 3 frames, VM 0 fragile, both TAPs unwritable at times |
| `Scheduler_three` | Is it a virtual network when two peers limit a slice, and with broadcasts? Do all VMs progress (liveness)? | 3 VMs, 3 different rows of delays, VM 0 fragile, all TAPs unwritable at times |
| `Scheduler_lost` | violation: `NoFrameLost` with `Ms` 2 and nothing that fails | 1 frame |
| `SliceProtocol_slices` | One slice at a time, harmless leftovers, every slice ends, that of the boot too, implements `TimeSlice` | the boot slice and two more, late timers, hurrying commands, a fault |
| `ReadLine` | Is the stream unbroken, are lines intact, visible and all returned? | 3 lines of 4, 5 and 7 bytes in all combinations, the end of the stream anywhere |
| `Bracha_three` | Quorums, no panic, everybody delivers everything, implements `ReliableBroadcast` | 3 processes, 2 values each, one with all to send, one with one |
| `Bracha_late` | Does everybody end when one of four has fallen behind? | 4 processes, the last value, one behind |
| `Bracha_exit` | violation: `NoPanic` | 4 processes, the last value |
| `Links` | Do all nodes get connected, to each other only, and is every link a FIFO link meanwhile, its stream in order and all of it delivered? | 4 processes, any leftovers of an earlier run, messages of 3, 2 and 3 bytes |
| `Launcher` | Is a device or a process left behind, does it always end, are the guests set up? | 2 VMs, 2 starts, Ctrl+C up to twice |

**Bounds.** `Horizon` stops the scheduling of a VM at a virtual time; it lets every VM
have several slices, enough for a frame to be sent, delivered and answered, and for a
stamp to be overtaken by one of a later slice. `MaxFrames` bounds the frames: losing or
delaying takes one, reordering two, and an unsorted deque in which a search can go wrong
three. `StartLag`, `Overrun` and `Linger` bound the host; they are 0 or 1 tick and
appear in the properties as the tolerances, so that a wrong tolerance would show.
`Fragile` and `Unwritable` say which VMs may fail, as often as they like; `Patience` is
how long the clock of the host is followed in a slice that QEMU refuses and that never
ends, 2 ticks, long enough for every frame of the deque to be written to a guest that
does not run. `Lag`, `MaxDummies` and `MaxSlices` do the same for the protocol; two
slices after the boot are enough for a leftover reply to be read in the next and to be
followed by another, and one fault leaves one timer over. With three processes every
vote is needed to deliver; with four it is not, which is what lets one fall behind;
these are the two kinds of cluster, and more values only repeat them. In `Links` four
processes give one that only connects, two that do both and one that only accepts;
messages of 3, 2 and 3 bytes with reads of 4 make a read end inside a message, at its
end and behind several; sockets of 4 bytes refuse and cut, of 8 hold everything. In
`Launcher` two VMs are enough for one to be late and the other not, and two presses over
two starts for one to interrupt the first run and one to interrupt what cleans it up.

**Fairness.** In `Scheduler` the thread takes its steps, time passes while a slice is
under way, QEMU resumes and stops the guest, and a STOP line that can be read again and
again is read (strong fairness on that step only, because the turns of the loop in
between disable it; `SliceProtocol` shows why: what it waits behind is finite). Nothing
obliges a guest to send, or QEMU to fail. `AllReachHorizon` is claimed up to the first
fault: after one, slices may end early again and again, or never. In `SliceProtocol`
each of the two threads and the guest's time are weakly fair, so that `Hurry` may happen
or not. In `Bracha` each process is weakly fair as a whole: it does not stay in
`select()` while a stream has something for it, and TCP delivers. Which stream it takes
is left open. In `Links` the script, each process and the two ends of the link are
weakly fair. In `Launcher` every process is, and each VM; nothing obliges anybody to
press Ctrl+C, the set-up process to fail, or `start.py` to be started again. In
`ReadLine` what was sent arrives and the thread runs.

**Deadlock** is checked in every run. The end of a bounded run is an explicit step
(`HorizonReached`, `Finished`, `Quiet`; `Simulating` in `Launcher`, where the simulator
runs on by itself), so that any other stop is reported.

## What the violations show

- `Scheduler_lost`: frames are selected for the exact end of a slice (l. 231), which is
  then cut to whole milliseconds (l. 261). What is due in the remainder is dropped with
  the deque. Nothing has failed in this run. `LossWindow` bounds it, and holds.
- `Bracha_exit`: with four nodes, one may panic because another has exited.

## Proofs

Every theorem holds for all values of the constants that satisfy the module's
assumption, the bounds included: natural numbers, at least one VM or process (two in
`Bracha`), messages of at least one byte, lines of at least four. `Bracha` also assumes
of a run that starts with processes `Behind` that the others could have got there
(`BehindAssumption`), which is void when none is.

| module | theorem | property |
|---|---|---|
| `SchedulerProofs` | `TypeCorrect` | `TypeOK`; with it, that no duration is negative (the code computes in `uint64_t`) |
| | `TimingCorrect` | `SliceTiming` |
| | `NoVMOutrunsItsPeers` | `Lookahead` |
| | `FramesAreQueuedInFuture` | `QueuedInFuture`, an action property |
| | `LossIsConfined` | `LossWindow` |
| | `NothingLostInWholeMs` | `NoFrameLost` if `Ms = 1`: but for the truncation, only a frame to a VM that has failed is lost |
| | `LinksKeepOrder` | `LinkOrder` |
| `LatencyProofs` | `StampsBounded` | `StampBounds` |
| | `LatencyIsKept` | `LatencyKept`, an action property |
| | `NothingOverdue` | `NoOverdueFrame` |
| `NetworkProofs` | `SimulatorIsANetwork` | `ImplementsNetwork` |
| `SliceProofs` | `ConversationCorrect` | `TypeOK` and the invariant below |
| | `LeftoversAreHarmless` | `LeftoversHarmless` |
| | `OneSliceAtATime` | `OneSlice` |
| | `SlicesAsPromised` | `ImplementsTimeSlice` |
| `ReadLineProofs` | `StreamIsUnbroken` | `Unbroken` |
| | `LinesAreIntact` | `LinesIntact` |
| | `NothingIsHidden` | `NothingHidden` |
| `BrachaProofs` | `BrachaTypeCorrect` | `TypeOK` |
| | `BroadcastIsReliable` | `ImplementsBroadcast` |
| | `QuorumsAreProcesses` | `CountsAreVoters` |
| | `SmallClustersNeverPanic` | `NoPanic` if `P <= 3` |
| `LinksProofs` | `ProgressCorrect` | `MeshProgress` |
| | `NoStreamStrays` | `NoStrayStream` |
| | `MeshIsComplete` | `MeshComplete` |
| | `StreamIsOrdered` | `StreamInOrder` |
| | `LinksTypeCorrect` | `TypeOK` |
| | `BufferHoldsARemainder` | `OnlyARemainder`, which no run lists since it follows |
| | `LinkAsPromised` | `ImplementsLink` |
| `LauncherProofs` | `LauncherTypeCorrect` | `TypeOK` |
| | `DevicesAndProcessesEnd` | `CleanedUp` |

**Timing.** `Lookahead` speaks of the true clocks and is not inductive: in the middle of
a slice it does not say how far the guest may still run. `SliceTiming` is the
strengthening. It says that the simulator's clocks are the true ones except for the
running VM; that this one is between its clock at the start of the slice and that plus
`RunFor + Overrun`; that the estimate does not lag it; that the slice is no longer than
any peer's slack; and that any two clocks the simulator keeps are within the latency and
the overrun of each other. The last part is what a round preserves: the VM that ran ends
at most `duration + Overrun` on, so at most `Overrun` past the slack of each peer;
towards the others it was the smallest clock and has only grown. `Lookahead` then
follows in each phase. `QueuedInFuture` uses it at the step that stamps a frame: the
stamp is the estimate, no less than the sender's clock, plus the latency.

**Losses.** `LossWindow` adds to `SliceTiming` that merging takes frames due by the end
of the slice, that delivering leaves a first frame due after the estimate, and that the
estimate has reached `RunFor` once the VM has stopped, unless a fault has stopped it or
left a timer over. So a frame that is dropped with the deque was due in the last
millisecond, which the order could not express, or its receiver is in `faulty`. With `Ms
= 1` the first is impossible, as `RunFor` is the whole slice. The other two ways to lose
a frame, a write that fails and a guest that will not run again, put its receiver in
`failed` or have it in `faulty`. Both sets only grow, so this is inductive:
`NoFrameLost` says of every frame lost so far that its receiver had failed by then.

**Order.** `LinkOrder` is inductive with `TypeOK` alone, because it speaks of the whole
way of a frame: a queue is ordered, and all of it precedes the TAP of its VM, and the
frames of that VM in the deque precede both; the numbers given so far bound them all,
for the step in which a guest emits. Each step moves one frame from the front of one
part to the end of the next, or drops a front. Nothing is assumed of the deque being
sorted, so the result holds wherever the binary search stops.

**Stamps.** The estimate leads the running guest by at most `Lead = StartLag + Linger`.
Hence a stamp is at least the latency after the frame was sent, and at most the latency
and `Lead` ahead of its sender's clock at the time it is stamped (and so of that clock
ever after). How far it is ahead of the moment the frame was sent has no bound: the loop
reads one frame each turn and ends with the turn that reads STOP, and what is left in the
TAP is stamped by the clock of a later slice. Of two frames of one queue the earlier is
stamped at most `Lead` later than the other. Merging takes the smaller front, so the
deque is unsorted by no more than that, and a frame that is hidden behind another is due
at most `Lead` before it. All this is `StampBounds`, inductive together with
`SliceTiming`. In a slice that QEMU refuses the estimate goes on without the guest; no
slice follows it, and what is stamped in it (what was left in the TAP) is excepted. In a
deque that is unsorted by at most `Lead` every place at which a binary search can stop
leaves before it only frames due by the estimate and `Lead`; the estimate itself leads
the receiver by `Lead`: twice `Lead` is the tolerance of `LatencyKept`. A guest that
will not run again is excepted there: what is written to it counts as lost.

**The network.** Between a guest and the TAP of a receiver a frame is in one of three
places, and `Wire` is their union, so a step that moves a frame from one to the next,
or stamps it, leaves the wire as it is and is a stutter of `VirtualNetwork`
(`MergeKeepsWire`, `ReadTapKeepsWire`). `Deliver` hands over what the search has put in
front, and `LinkOrder` says that of each link these are the frames sent first; it is the
only step that leaves several at once; those whose write failed are lost, and its
receiver breaks in the same step. `QueryClock` drops what is left in the deque: by
`LossWindow` that is due within `Ms - 1` of the receiver's clock, or the receiver is
broken. All of it is due by the end of the slice, which is not past the slack of any
peer, and the peers have not moved since: it is `Safe` to lose. The same argument covers
a frame that is written and lost. The moves of the clocks are allowed because
`Lookahead` holds in the next state.

**The line reader.** `Unbroken` says that returned lines, buffer, socket and network are
one stretch of the stream and the buffer has one end of a line at most. Then the first
end in the buffer is that of the next line, because ends are numbered along the stream,
and `read_line` cuts at it. A read adds at most four bytes to a buffer without an
end, and lines are four bytes long or more, so it never brings two ends: that keeps the
second half of `Unbroken` and makes `NothingHidden` hold. That ends lie in the order of
their numbers, and that one of several is the first, are the two inductions, done on
the least counterexample in the natural numbers.

**The conversation.** Of these three there is at most one: a run-time-slice on its way
to QEMU, a running guest (with or without a handler that is still to arm its timer), a
STOP on its way to the simulator. Which one it is, is tied to where the simulator is, to
the lines and commands in front of and behind it, and to the clock: every time behind a
STOP, and every time on the socket when the VM can be chosen, is that of the stopped
guest. `OneSlice` adds that without a fault the timer of a slice is armed or its bottom
half scheduled exactly while its guest runs. In the refinement `Phase` is a function of
that invariant, `known` is set from a line that the invariant says has the exact time,
and a slice is bounded because a guest only runs while the newest timer, or the handler
that will arm it, keeps it within `Lag + Overrun` of the order; older timers can only be
earlier.

**Broadcast.** `ImplementsBroadcast` needs two things: what is on the streams is about
values that were sent (a process votes for a value only when it has read of it), and a
process sends its next value in the step in which it delivers its last one. Both are
inductive with the types, whatever has exited or panicked, since that only takes
messages away. `CountsAreVoters` is deeper. While nobody has failed, a process has sent
an echo exactly if its state for that value is past "none", and a ready exactly if it is
"SentReady"; so it writes each of them once, a stream never holds a message twice, and
for each receiver the processes that voted are those counted already plus those whose
message is on its way. Counting messages is then counting processes. After a panic some
receivers have a message and others do not, which is why the property is stated up to
the first one.

**Small clusters.** `NoPanic` is false of a cluster in which a process can finish
without its slowest peer. With three processes the quorum for delivering is 3; with two
it is 1, but a process delivers in the handler of another's Ready, by when it has cast
its own. Either way it takes the Ready of every process. `Calm` adds to the votes that a
process writes its Ready behind everything else it writes of a value (`ReadyLast`), so
who has read every Ready has read everything, and that once anybody has exited everybody
is "SentReady" for every value (`Agreed`). From then on a handler writes nothing: no
process writes to a closed stream, and none was reset. These facts need each other, and
`Calm` is inductive only together with the invariants of `CountsAreVoters`. From four
processes on, `DeliverQuorum` is less than `P` and the argument has no counterpart.

**The mesh.** `MeshProgress` ties the streams to the place of each process: p has
connected exactly those of the later ones that its loop is past, and an earlier one is
in its backlog or its streams exactly if that one has connected it. A process in its
loop has P - 1 streams, which are P - 1 different peers other than itself, so all of
them.

**The stream.** `StreamInOrder` places every byte: buffer and socket together are in
order, each message's bytes one behind the other; the last byte of every message that
was written and not received is among them, up to the first message that lost a byte;
and behind that one there is always a byte of a later message directly after one of its
own, or it is the last there is. Hence the offset at which the parser stops
(`ByteOffset`) is the end of the last whole message before the cut, which gives what a
read parses (`ParsedIs`) and what it leaves. No message after the cut is ever parsed,
as the parser does not get past that place. `ImplementsLink` follows step by step: a
write appends to `sent` or breaks the link, a read appends a part of it to `received`.

**The launcher.** The devices that exist are at any moment among those the script could
have created; while it cleans, those it is past are gone, because nothing but an
interruption of the cleaning itself makes a command fail. Of the policy rules the types
are all that is proved: they only grow.

Only model-checked is what the prover cannot state or what is not true in general:

- liveness under fairness: `AllReachHorizon`, `EverySliceEnds`, `EveryLineReturned`,
  `AllDeliverAll`, `AllEnd`, `AllLinked`, `DeliversLink`, `StopsWithSimulator` and
  `GuestsConfigured`;
- `NoPanic` of more than three processes, where nothing is proved: `Bracha_exit` has a
  counterexample with four.

## Not modelled, and why

- The bulk of the implementation by lines is `simdjson.cpp`, a vendored parser of 56,000
  lines, from which the program takes two accesses to fields. The modules cover what is
  left of the implementation except for what follows here.
- The configuration files and the opening of TAP devices (`main.cpp` l. 53-85, 122-133):
  pure I/O, present as constants.
- In `qmp-cmds.c`: dumps and incoming migration in `qmp_cont`, and `errp`, which the
  bottom half only writes when `qmp_stop` fails; no command of the simulator leads to
  any of them. The other commands of the file are QEMU's own.
- Latencies of 0: slices of 0 ms, in which progress depends on QEMU alone. The theorems
  cover them (safety), the liveness runs do not. A simulation of a single VM is covered
  by the theorems too and has no run of its own.
- JSON: lines and messages are records. A line is recognised in the code by words it
  contains, in the model by its kind; no two kinds share the words.
- In `Bracha`: processes that lie, `counter_initial_msgs` (written, and compared with 0
  only), a broken link other than by the end of a process, and a cluster of one process,
  whose `select()` on no streams waits for ever.
- 256 VMs or more, of which two would have the same MAC.
- Creating images in `start.py`; uploads and timing in the run scripts; the HotStuff
  scripts, which start programs of a submodule that is not in the repository; latency
  files (any matrix is covered by the constant `Delay`).

## Plan

Done, in the order of importance: the main loop with its abstract network; the protocol
and the line reader it relies on, with faults; the Bracha nodes from their launch to
their exit, with the mesh and the framing under them; the launcher; the proofs above.

1. `Bracha` on links that break in the middle (`Link` with `broken`), to say what a full
   socket does to the broadcast.
2. The boot of several VMs in sequence: one `SliceProtocol` for each, under the loops of
   l. 136-189.
