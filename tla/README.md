# gbx in TLA+

gbx is a Game Boy emulator in Rust whose services (kernel, GPU, filesystem,
audio) run in the same process or behind a shared-memory transport in web
workers. This directory holds TLA+ modules of its core logic, the
configurations that model-check them with TLC, and theorems with proofs checked
by TLAPS. `PROJECT.json` lists components, runs, the source lines each
definition stands for, hazards and theorems.

Paths are relative to `src/crates/` and without their number prefixes
(`transport` is `01-transport/transport`, `kernel` is `04-services/kernel`).

## The system

```
 page / tests -> scheduler -> world reducers          app-loop
                    | commands      ^ reports
                    v               |
                services hub --- direct: services in the process
                    |
                    +--- fabric: endpoint -> lossless ring  \
                         (codecs)        -> mailbox (ticks)  >  worker -> service
                                 <- reply ring, slot pool   /
 kernel service = report queue + farm of instances + frame sink
 instance       = core (cpu, timers, serial, ppu, bus) or boot animation
```

One user action becomes an *intent* in a priority queue. `Scheduler::run_once`
takes at most a budget of intents, reduces each to a command, submits it,
requeues it if the service would block, then drains reports, reduces each and
submits what follows from it (an upload to the GPU at once, the next tick as an
intent). A tick of the display group lets the kernel service run its instance
until a frame is ready and publish a frame per lane: into a slot of the shared
pool if one is free, inline in the report otherwise.

### Inventory

| component | state | operations | talks to | module |
|---|---|---|---|---|
| slot pool, `transport/src/slot_pool.rs` | two index rings: push and pop counter, entries | `acquire`, `push_ready`, `pop_ready`, `release_free` | two threads, shared memory | `SlotPool`, abstractly `SlotExchange` |
| message ring, `msg_ring.rs` | head and tail offsets, bytes | `try_reserve`, `commit`, `peek`, `pop_advance` | two threads | `MsgRing`, abstractly `RecordQueue` |
| mailbox, `mailbox.rs` | payload, two sequence numbers, a mutex outside shared memory | `try_send`, `take_latest` | two threads | `Mailbox`, abstractly `LatestValue` |
| wait and notify, `wait.rs` | a counter per ring and the set of parked threads | wait on a value, wake one | worker, main thread | `FramePipeline` |
| frame scenarios, `transport-scenarios`, `runtime-native`, `runtime-web-harness` | pool, event ring, statistics | `produce_frame`, both consumers | pool, ring, waiting | `FramePipeline` |
| codecs, `transport-codecs` | none | encode and decode commands and reports | fabric | `Codecs` |
| fabric, `transport-fabric`, `services-fabric` | ports of an endpoint, outcome metrics | submit by class, poll, publish, drain | rings, mailboxes, codecs | `Endpoint`; in bytes `FabricApp`; the retry `MsgRing` (`Submit`) |
| wasm worker, `fabric-worker-wasm` | registered runtimes | attach, run | fabric, scenarios | `Mailbox`, `FramePipeline` |
| service interface, `service-abi` | none: commands, reports, classes | | all | its promises are properties; `Codecs` |
| service queue, `services-common` | bounded queue of reports | submit by class, drain | services | `ServiceQueue` |
| kernel service, `kernel` | instances by group, frame numbers, boot animation, sink | every kernel command | queue, pool | `KernelFarm`, `KernelService` |
| GPU, fs, audio services, `gpu`, `fs`, `audio` | queue, number of the next frame | upload; save; samples | queue | `Endpoint`; the GPU also `DirectApp`, `FabricApp` |
| scheduler, `app` | three queues, budgets | `enqueue_intent`, `enqueue_front_p0`, `run_once` | world, hub | `AppLoop` |
| world, `world` | rom, lanes, paused, speed, perf, inspector | two reducers | | `AppLoop` |
| hub, `hub` | the services | submit, drain in turn | services | `DirectApp` |
| page, `gbx-wasm` | fetched frames | `gbx_tick`, `gbx_load_rom`, `gbx_consume_frame` | scheduler, worker | `FabricApp` |
| CPU control, `kernel-core`: `core.rs`, `cpu.rs`, `instr.rs` | IME, pending EI, halted, HALT bug; IE, IF | fetch, execute, service, resets | bus, devices | `Cpu` |
| instructions, `instr.rs`, `cpu.rs`, `exec.rs` | registers, flags, stack | 500 opcodes | backend, bus | `Instructions`, `ScalarExec`, `Bytes` |
| lane-parallel core, `exec_simd.rs`, `bus_simd.rs` | vectors of the core's registers | the same instructions | | `LaneExec`, `LaneCore` |
| timers, `timers.rs` | divider, TIMA, reload state, latched writes | `step` | bus | `Timers` |
| serial port, `bus.rs` | shift register, bit count, log | write SB and SC, step, take the log | IF | `Serial` |
| PPU, `ppu_stub.rs` | mode, dot, LY, STAT line, frame flag | step, register writes | IF, frames | `Ppu` |
| memory map, `bus.rs`, `mmu.rs` | ROM and bank, boot overlay, memory, key latches, JOYP | read, write, load, DMA | CPU, kernel service | `Bus` |
| save states, `state.rs` | none | save, load | core | `Bus`, `Serial` |
| inspector, `inspector-vm`, `gbx-cli-inspector` | a view of the last snapshot | | world | none: no effect on the loop |

### What is hard here

* **Threads over shared memory.** Each ring is a pair of counters and plain
  memory; push and pop are several accesses. `SlotPool`, `MsgRing` and `Mailbox`
  make each access a step.
* **Offsets and wrap.** A message ring may not fill exactly, a record may not
  straddle the end, and an empty ring may still refuse a record for ever.
* **Lost wake-ups.** The worker reads the value to wait on after its attempt
  failed.
* **Full queues.** A report queue at its limit evicts reports, a reply ring at
  its limit drops them, a pool at its limit sends frames inline: the frame
  cadence lives on the reports that may be lost.
* **Retries.** A blocked command goes to the front of the queue, among others
  that were put there on purpose.
* **Order between page and worker.** The page fetches slots by age, not by
  report, and after the worker has run ahead.
* **Fields that do not travel.** Archived records leave fields out and decoding
  invents them; three kinds of commands share one mailbox.
* **One-cycle races of the machine.** A write to TIMA while its reload is
  pending, an interrupt between EI and the instruction after it, HALT with a
  request already there, LYC written on the line it names, SC written while a
  byte is shifting.
* **Time cut into pieces.** Devices get cycles in steps of any length and have to
  end where one long step would have ended.
* **Two cores, one semantics.** The lane-parallel core takes all control from
  lane 0 and has arithmetic of its own.

`PROJECT.json` lists each hazard at its line with the properties that cover it.

### What makes each component correct

The properties named in this file are stated in the modules, each with a comment.

* Slot pool: a slot is always in exactly one place, a push never fails, no data
  race on entries, each ring is a FIFO queue.
* Message ring: unread records stay as written, the consumer always finds the
  oldest, records arrive once and in order, a retrying producer succeeds.
* Mailbox: a register of the latest message that is never read torn.
* Frame pipeline: frames and events in order and in pairs, everything is
  returned, everything is drained.
* Codecs and endpoints: a message comes out as it went in, as far as anybody
  reads it; an outcome says what happens to the command.
* Kernel service: slots promised by reports hold what was promised, frames are
  reported in the order they were shown, boot animation and frame numbers agree.
* Scheduler: lossless commands are served once and in order per priority.
* Applications: the cadence neither dies nor multiplies, loads complete, slots
  are accounted for, every tick shows the display lane.
* Timers: TIMA counts exactly the falling edges, no overflow is forgotten.
* PPU: line, dot and mode are those of the dots run, one VBlank request per frame,
  one coincidence per line.
* Serial port: exactly the bytes whose transfers had all their cycles.
* Memory map: the bank shown is the bank asked for.
* CPU: handlers are masked, EI is exact, the HALT bug stays where it belongs,
  a sleeper wakes.
* Instructions: flags are those of the sum, decimal adjust is decimal, calls return,
  devices get the cycles the instruction reports, and every lane computes what the
  scalar core computes.

## Modules

`SlotPool`, `MsgRing` and `Mailbox` are detailed; `SlotExchange`, `RecordQueue`
and `LatestValue` say what they promise, and a run of each checks the refinement
by `INSTANCE ... WITH`. The modules above build on the promises, never on the
details: `FramePipeline`, `Endpoint`, `KernelFarm` and `FabricApp` have pools,
rings and mailboxes that are plain queues.

**Transport**

* **SlotPool.** `pop` is `PopCheck` (load both counters), `PopRead` (entry),
  `PopStore` (counter); `push` is `PushCheck`, `PushWrite`, `PushStore`. Producer
  and consumer each use both rings, in opposite directions. Counters count
  modulo `CounterSpan` (2^32 in the code).
* **MsgRing.** Memory in words of eight bytes. The producer reserves (`TryReserve`,
  writing a sentinel when it wraps), fills, writes the envelope and publishes the
  head; the consumer loads the head, skips a sentinel, reads the envelope and
  advances the tail. `Submit` is the endpoint that retries a refused record.
* **Mailbox** (`MailboxSpec`, `FairMailboxSpec`). Each store of `try_send` and each
  load of `take_latest` is a step. `OneMutex` tells whether both ends share one lock
  (`SharedPort`) or each has its own (a worker that attaches to the memory).
* **FramePipeline.** The worker of `produce_frame` with its three wait points, and
  the two consumers; `target` chooses. What is split is the waiting: load, compare
  inside the wait, park, notify.
* **Codecs.** A message is a record of its fields. `EncodedKernelCmd` and its
  siblings keep the fields an archived record has, `DecodedKernelCmd` and its
  siblings fill in the others as the code does (group 0, a size of 160 by 144, no
  samples). `Class` is the port class of each command.
* **Endpoint.** One service behind the fabric: scheduler and worker interleave port by
  port, since each port has a lock. `Submit` chooses the port and records the
  outcome; `BeginPoll`, `DrainPort`, `ExecuteCommand`, `TakeServiceReports`,
  `PublishReport` and `EndPoll` are the stages of `FabricServiceEngine::poll`;
  `DrainReports` empties the reply ring. `due`, `owed` and `drained` are history:
  what was accepted, next to what lies encoded in the ports.

**Services and application**

* **ServiceQueue** has the functions of `services-common`; **KernelFarm** the farm,
  its instances, the boot animation and the sink as functions on one record;
  **KernelService** one action per submission, drain and fetch.
* **AppLoop** is the scheduler with its reducers: `Enqueue`, `EnqueueFront`,
  `StartFrame`, `TakeIntent`, `Gather`, `TakeReport`, `EndFrame`. It is composed
  twice: **DirectApp** with services in the process, **FabricApp** with the page, the
  worker and the transport between them.

**Machine**

* **Timers.** The timer block as a record. `Access` is what a bus access of the CPU
  latches and `process_register_writes` applies, for single writes and for the two
  writes of a push; `RunChunk` is one turn of the loop of at most four cycles. Two
  fields are history: `ticked` (the last step incremented TIMA) and `owed`
  (overflows not yet served or cancelled). Nothing outside the tests calls
  `sync_div_from_high_byte` or `load_state`, so no action does.
* **Ppu.** `PpuAccess` writes a register and gives the step its cycles, `PpuIterate`
  is one turn of the loop from event to event. `dots`, `vblanks`, `asked` and `armed`
  are history: what one long step would have done.
* **Serial.** `SerialAccess` writes SB or SC, `SerialTurn` is one turn of
  `advance_serial`; resets, loads and restored states come between two accesses.
  `want` and `run` are history: the bytes that had their cycles.
* **Bus.** One address per region of the map. `WriteBank`, `WriteMemory` (with echo and
  OAM DMA), `LeaveBoot`, `WriteJoyp`, `SetInputs`, `InsertRom` (of several sizes),
  `Save`, `Restore`; `wanted` is history, the bank number in force.
* **Cpu.** One turn of the loop of `step_cycles` is `Service`, `Idle`, or `Fetch`
  followed by `Execute`, with requests of the devices possible in each, because
  cycles pass there; loads are `PowerOn` (with a boot program) and `PostBoot`.
  `past` is history: what masks interrupts, whether an EI was outstanding when it
  began, whether the last instruction was such an EI. An instruction that changes
  no control state is the one operation `"other"`.
* **Instructions** is generic in the execution backend as the code is: the
  operations of the `Exec` trait are its constants, and an instruction a function
  from machine to machine. **ScalarExec** and **LaneExec** are the two backends,
  both on **Bytes**, and **LaneCore** runs one program on both side by side. Memory is
  plain there: what addresses mean is the subject of `Bus`.

**For TLC.** Components that never read each other's state are explored in one run
but one at a time: a behaviour chooses a component and the others rest. **MCPorts**
does so with the mailbox, the frame pipeline and the endpoints, **MCDevices** with
the four devices behind the bus, and **MCCpu** with the control of `Cpu` and the
instructions of `LaneCore`; it also has the programs. `PortsSpec` and `BothSpec` state
the fairness of the component explored. Nothing is gained from interleaving them:
no action of one is enabled or changed by a state of another.

Definitions with a comment beginning "A bug" or "Slips" are not in the code; no
specification uses them. Each is a plausible mistake that makes one property
fail, which shows that the property depends on the code.

## Runs

Distinct states and the time are from two workers on a small machine.

| run | module, configuration | properties | states | time |
|---|---|---|---|---|
| SlotPool | SlotPool | `SlotsConserved`, `NoEntryRace`, `ImplementsExchange` | 842,767 | 90 s |
| MsgRing | MsgRing | `UnreadIntact`, `TailFindsOldest`, `EmptyRingAccepts`, `ImplementsQueue`, `SubmissionCommitted` | 181,602 | 40 s |
| ports | MCPorts, Ports | `ImplementsLatest`, `UnreadIsTaken`, `InOrder`, `NativeAllDrained`, `MessagesIntact`, `OutcomesExact` | 118,583 | 14 s |
| kernel_service | KernelService | `BootFollowsFrames`, `SpansPublished`, `FramesInOrder`, `OverrunBounded` | 305,231 | 31 s |
| direct_app | DirectApp | `CadenceKept`, `LosslessInOrder`, `FrontConserved`, `LoadsServed` | 397,009 | 112 s |
| fabric_app | FabricApp | `SlotsAccounted`, `PumpsBounded`, `DisplayReported`, `LoadsComplete` | 20,137 | 5 s |
| devices | MCDevices, Devices | `OverflowServed`, `EdgesCounted`, `FramesExact`, `LycOncePerLine`, `TransferExact`, `BankMapped` | 586,875 | 31 s |
| cpu | MCCpu, Cpu | `Masked`, `HaltBugShadowed`, `EiAfterOne`, `SleepersWake`, `CyclesExact`, `LanesMatchScalar`, `ArithmeticExact`, `CallsReturn` | 66,982 | 34 s |
| endpoint_groups | Endpoint | `GroupsKept` violated | | 1 s |
| fabric_lanes | FabricApp | `LanesReported` violated | | 2 s |
| cpu_vectors | Cpu | `VectorExists` violated | | 1 s |
| joypad | Bus | `JoypadActiveLow` violated | | 1 s |

What they show, beyond the names: SlotPool, MsgRing and the mailbox of ports every
interleaving of memory accesses of the two sides; ports also that an application
sees the same commands and reports through an endpoint as in process; kernel_service
what eviction, inline frames, loads and debugger steps do to the order of reports;
the two applications that the loop, its budgets and its losses keep the cadence and
the loads going; devices that no way of cutting time or of writing registers loses
or doubles an event; cpu the control of interrupts under any requests and programs,
and the arithmetic of every opcode on both cores.

Each module's type invariant (`TypeOK`, `MailboxTypeOK`, `PpuTypeOK`) either is a
theorem below or, for the kernel service, holds under `KernelPromises.cfg`, where it
stands first.

### Bounds

* SlotPool: three slots, counters that wrap after two laps. Both sides can hold
  slots while both rings wrap; the theorems below cover every size.
* MsgRing: six words and all record sizes up to five. This gives every case of the
  reservation (end, wrap, gap, refused) in every alignment. Identities repeat after
  four records, so neighbouring records, and a record and what it overwrites, differ.
* ports: sequence numbers that wrap after four sends and three payloads, so that a
  torn read differs from both messages it mixes; two slots and one event for six
  frames and a drain budget of one, so that the worker waits on every ring and each
  slot is reused; rings of two commands and two reports, a queue of three, a poll
  budget of two and `SendCap` three submissions: every port refuses, coalesces and
  drops, a poll ends by its budget in each stage, and reports are lost to a full ring.
* kernel_service: one group loaded twice, farms of one lane with a boot animation
  of two steps and of two lanes without, three slots and a queue of three reports:
  eviction, inline frames, loads in mid-animation. `EraCap` and `FrameCap` bound
  loads and frames.
* direct_app: three requests of the client against an intent budget of three, so
  that a blocked command meets younger ones; two lanes, either displayed; a kernel
  queue of six and a GPU queue of two reports, smaller than the traffic. `AskCap`
  bounds requests and `StartCap` the ticks that clients add.
* fabric_app has the real sizes of the browser application (eight lanes, eight
  slots, 128 and 512 KiB rings, 91 KiB frames) and a 48 KiB ROM, two of which fit.
* devices: a divider of 32 steps whose selected bits have the weights 16 and 8,
  counters of three values; as in the code the reload delay (four cycles) is shorter
  than the shortest period between edges. Four lines of five dots with every mode in
  them and steps shorter and longer than a line; bytes of two bits of three cycles,
  cut by steps of one, two and four; ROMs of one to three banks, bank numbers below,
  at and above each of them.
* cpu: two lines, all programs over the control instructions, devices that may
  request anything in every step; two lanes, every opcode and CB opcode with
  operands from `Samples` {0, 15, 128, 255} and both carries, the decimal adjust of
  all sums and differences of `Digits` {0, 1, 5, 8, 9}, pushes and calls of every
  condition on two stacks, one across a page. `cpu_vectors` adds the bits of IE above
  the lines.

### Fairness

* MsgRing: producer and consumer keep running (weak fairness of each side): the
  worker loop polls and the page drains on every tick.
* Mailbox: a send ends once begun, and the consumer gets the mutex again and again
  (`parking_lot` hands over a contended lock), hence strong fairness of its first
  step only.
* FramePipeline: both threads are scheduled. A parked worker has no step, so no
  fairness can wake it.
* DirectApp and FabricApp: weak fairness of `Run`, one action for the whole loop:
  the caller keeps calling `run_once`, the browser its animation callback. Nothing is
  assumed about the client's requests or about which of several steps is taken.
* Cpu: weak fairness of `Iterate`: ticks keep coming. It does not say that a device
  ever raises a request, or which instruction is next.
* SlotPool, Endpoint, KernelService, Timers, Ppu, Serial, Bus and the instructions
  state safety only.

Deadlock is checked except where behaviours end by design or by a bound: frame
scenarios that are done and endpoints at `SendCap` (ports, endpoint_groups), loads
and frames used up (kernel_service), requests and ticks used up (direct_app),
programs at their finish (cpu).

### What the code does otherwise than it says

The four violation runs:

* **endpoint_groups.** The archived records of ticks and ROM loads have no group, and
  `transport-codecs/src/lib.rs:86` decodes all of them for group 0, whereas
  `service-abi/src/lib.rs:249` loads a ROM "into the specified group". The scheduler
  uses group 0 only, so nothing shows it there.
* **fabric_lanes.** `gbx_tick` drives the worker once more after draining, so the
  next tick runs before the page has fetched the slots of the last; its frames go
  inline, and the 512 KiB reply ring holds five of the eight. The worker drops the
  rest. The display lane comes first and is always there (`DisplayReported`).
* **cpu_vectors.** `service_interrupts` does not mask IE and IF with the five lines,
  and IF reads its upper bits as set: writing 0xFF to IE makes it index `VECTORS`
  with 5.
* **joypad.** The latches are active-low already (`bus.rs:65`, `bus.rs:318`) and
  `mmu.rs:39` inverts them once more: released keys read as held.

Further configurations are kept beside the runs. TLC finds each of these
statements violated, under the circumstances given in the configuration. Where a
configuration has several statements, leave one in at a time.

| configuration, module | statement | what the code does |
|---|---|---|
| SlotPoolWrap, SlotPool | `SlotsConserved`, when the slot count does not divide 2^32 | `slot_pool.rs:165` takes positions modulo the slot count: at the wrap of the counter they jump, against `docs/transport-spec.md:277` |
| MsgRingShort, MsgRing | `ConsumerNeverPanics` | `msg_ring.rs:134` lets a grant commit less than it reserved; the head advances by the reservation, the consumer by the record |
| MailboxAttached, Mailbox | `RecordWhole` | `mailbox.rs:195` acknowledges before it copies; a worker that attached has a mutex of its own (`fabric-worker-wasm/src/lib.rs:196`), against `mailbox.rs:5` |
| EndpointKinds, Endpoint | `CoalescedSameKind` | `transport-fabric/src/endpoint.rs:27` puts display ticks and snapshot requests into one mailbox: the one displaces the other, while `docs/architecture.md:275` lets a tick replace an older tick |
| FramePromises, FramePipeline | `AllDrained` | `wait.rs:125` loads the value after the failed attempt: the notification in between is lost, against `docs/transport-spec.md:296` |
| | `ReturnsAllEvents` | `runtime-web-harness/src/lib.rs:165` stops at the number of frames with events left, against `transport-scenarios/src/checks.rs:26` |
| KernelPromises, KernelService | `OneFramePerTick` | `kernel/src/lib.rs:287`: a tick can publish a lane twice, against the comment at line 300 |
| | `LosslessAnswersKept` | `services-common/src/lib.rs:75` evicts the oldest report, also the answer to a lossless command (`service-abi/src/lib.rs:22`) |
| | `QueueBounded` | `kernel/src/lib.rs:455` reserves less room than a tick needs, against `services-common/src/lib.rs:50` |
| | `FrameIdsGrow` | `kernel/src/instance.rs:284` starts over at a load, against `service-abi/src/lib.rs:294` |
| DirectPromises, DirectApp | `GpuDrained` | `hub/src/lib.rs:68` gives the GPU what the kernel leaves of the budget, against `docs/architecture.md:444` |
| | `DisplayUploaded` | `app/src/lib.rs:111` drops a refused upload, against `docs/architecture.md:278` |
| | `OnePumpPerFrame` | `app/src/lib.rs:72` counts pumps like other intents, against `docs/architecture.md:295` |
| FabricRom, FabricApp | `RefusedForOthers` | `services-fabric/src/lib.rs:52`: a ROM that never fits is retried for ever before everything else, against `docs/architecture.md:427` |
| CpuPromises, Cpu | `DiImmediate` | `core.rs:412` completes an outstanding EI after a DI, against `instr.rs:718` |
| | `HandlerMasked` | an EI outstanding at a service enables interrupts inside the handler |
| | `HaltBugLocal` | `EI; HALT` with a request pending carries the HALT bug into the handler |
| | `CleanStart` | `reset_post_boot` keeps IE and IF (`core.rs:80`; `core.rs:76` says defaults): the new game is interrupted at once |
| DevicesPromises, MCDevices | `TransferShown` | loads and restored states replace SC and leave the transfer: SC shows one that does not run, or the reverse |
| | `InputsKept` | `kernel/src/instance.rs:265` resets the bus with its key latches while the host holds keys |
| | `RestoreExact` | `state.rs:210` takes the row selection from the JOYP register, which a reset clears while it sets the selection to 0x30 (`bus.rs:145`): a state restored at once is another one |

Where such a statement fails, the passing runs check the strongest one that holds:
`MessagesIntact` for `GroupsKept` (one group), `OverrunBounded` for `QueueBounded`,
`FramesInOrder` for `FrameIdsGrow`, `Masked` for `DiImmediate` and `HandlerMasked`,
`HaltBugShadowed` for `HaltBugLocal`, `NativeAllDrained` for `AllDrained`,
`TransferExact` for `TransferShown`.

## Proofs

Each of eight modules proves that an inductive invariant holds of its specification,
and the results follow from it, for every value of the constants that satisfies the
modules' named assumptions. Every `IInv` was checked with TLC before it was proved.

| module | theorem | states |
|---|---|---|
| SlotPoolProofs | `PoolTypeOK`, `PoolConservesSlots`, `PoolNeverRefuses`, `PoolHasNoEntryRace` | `TypeOK`, `SlotsConserved`, `PushNeverRefused`, `NoEntryRace` |
| | `PoolImplementsExchange` | `ImplementsExchange` |
| MsgRingProofs | `RingTypeOK`, `RecordsIntact`, `OldestIsNext`, `GrantsDisjoint`, `EmptyAccepts` | `TypeOK`, `UnreadIntact`, `TailFindsOldest`, `NoTornRecord`, `EmptyRingAccepts` |
| | `RingImplementsQueue` | `ImplementsQueue` |
| PortsProofs | `MailboxIsRegister` | `ImplementsLatest` |
| | `SubmitterWasTold`, `MessagesPassIntact` | `OutcomesExact`, `MessagesIntact` |
| | `PipelineTypeOK`, `FramesArriveInOrder`, `EverythingReturns` | `TypeOK`, `InOrder`, `Reconciled` |
| KernelProofs | `PromisesKept`, `FramesStayInOrder`, `BootKeepsTime`, `QueueOverrun` | `SpansPublished`, `FramesInOrder`, `BootFollowsFrames`, `OverrunBounded` |
| AppProofs | `LoopKeepsOrder`, `DirectKeepsOrder`, `BrowserKeepsOrder` | `LosslessInOrder`, `FrontConserved` |
| | `CadenceStaysBounded`, `CadenceStays` | `CadenceBounded`, `CadenceKept` |
| FabricProofs | `SlotsStayAccounted`, `DisplayIsReported`, `PumpsStayBounded` | `SlotsAccounted`, `DisplayReported`, `PumpsBounded` |
| | `RefusalsPass` | `RefusedForOthers` |
| DeviceProofs | `TypeCorrect`, `InputNeverStale`, `EdgesExact`, `NoOverflowLost` | `TypeOK`, `InputCoherent`, `EdgesCounted`, `OverflowServed` |
| | `PpuTypeCorrect`, `FramesAreExact`, `CoincidenceOnce` | `PpuTypeOK`, `FramesExact`, `LycOncePerLine` |
| | `BankIsMapped`, `TransferIsExact` | `BankMapped`, `TransferExact` |
| CpuProofs | `TypeCorrect`, `HandlersMasked`, `HaltBugNeedsShadow`, `EiExact` | `TypeOK`, `Masked`, `HaltBugShadowed`, `EiAfterOne` |
| | `LanesMatch`, `CyclesStayExact`, `ArithmeticHolds` | `LanesMatchScalar`, `CyclesExact`, `ArithmeticExact` |

**SlotPoolProofs** (any number of slots and any counter span that the slot count
divides, as the eight slots of the frame pool divide 2^32; SlotPoolWrap shows that
the condition is needed). `SlotsConserved` is not inductive: a step in the middle of
a push or pop relies on what an earlier step of the same operation saw while the
other side moved on. The invariant adds `RingShape` (the entries between the counters
are as many as their difference says), `PopSound` (who is popping has an entry that
cannot vanish, and read the oldest) and `PushSound` (who is pushing holds the slot,
has room that cannot vanish, and wrote the next entry). The arithmetic of wrapping
counters is in lemmas on `Distance`, `Window` and `Bump`; each action has a lemma with
one step per conjunct. In the refinement a pop takes effect at the store of the tail,
a push at the store of the head and an empty answer at the load of the counters:
`InRing` and `IndexAhead` say that the entry a push writes is none that the other
side sees, so `WriteIsInvisible`.

**MsgRingProofs** (any capacity and record sizes, if callers commit what they
reserved; MsgRingShort shows that the condition is needed). Positions are counted from
the tail, which makes the wrap disappear from most steps. `Layout` says that the unread
records are `Placed`, `Sorted` and `Linked` (each begins where the one before ends, or
behind a sentinel); `Contents` that their words are whole; `Granted` that a reservation
lies outside them; `Filled` what of it is written; `Reading` what the consumer has
loaded of a tail that only it moves. `EmptyRingAccepts` follows from `Layout` and the
arithmetic of halves, and the refinement maps the records of `pending` to the queue.

**PortsProofs**, the mailbox (any sequence width and messages, both ends on one mutex, `OneMutex`;
MailboxAttached shows that the condition is needed). Payload, length, envelope and
numbers change one at a time, so each conjunct says what holds of them up to a point of
the send (`SendSound`, `Stored`) or the take (`TakeSound`), `Counted` how far the two
numbers are apart, and `Excluded` that only one side is inside. Send and take then are
atomic at their last step.

**PortsProofs**, the endpoints (rings, queues, budgets and latencies of every size;
`MessagesPassIntact` if ticks and loads are for group 0, which EndpointGroups shows is
needed). `PortSound` says that the records in a port are, place by place, the encodings
of the commands due there, that a coalescing port has at most one, and that the commands
accepted are those drained and those that wait; `RepliesInv` says the same of the
reports. That decoding undoes encoding, up to what the reader does not read, are lemmas
on each service's codec, about the commands that can be sent and the reports that a
service can make of the commands it receives (`Received`, `Made`).

**PortsProofs**, the frames (any number of frames, slots and events, both consumers).
Everything is said in terms of how many frames were pushed, popped and announced.
`CountsAgree` ties them to the lengths of the queues and the counters waited on, and
shows that the worker never finds the ready ring full; `Apart` that no slot is in two
places; `InSlots` that the slots hold consecutive frames; `Told` that what arrived is
numbered without gaps; and `Paired`, natively, that an event that waits names the slot
(`SlotOf`) its frame is in.

**KernelProofs** (farms of any number of lanes, pools, boot animations and queues of
every size). Everything is said of two values: the farm with its pool, and the line of
reports that nobody handled yet. A command works on them in small steps, one lane
published after another, and each keeps `Good`: the ready slots are those the line
announces, in that order, with the frame in them that the report describes; the frames
of a lane in the line belong to the farm that is loaded now or an earlier one, and their
numbers rise; the frame number of a lane says where its boot animation is (`InTime`).
Coalescing and draining only thin or move the line, which lemmas on filtered sequences
say.

**AppProofs** (any budget, capacities and sizes, any intents). The order of the
intents is proved once, of the loop with *any* services (`LoopSpec`): a command that is
executed is served, one that is refused goes back to the front, and what the services
do and report is left open. The application with in-process services (`DirectApp`, which
the module extends) and the browser application (`Browser`, an instance of `FabricApp`
with any sizes) are then shown to be such loops, action by action, so the result is
theirs. Of the browser it is assumed that loads are numbered (`"LoadRom" \in Numbered`,
which its own assumption on the constants says too). The three queues are one line
(`Line`), and every step takes the first intent off it or inserts one at some place. The
places of an origin's intents in the line move with such a step (`Shift`) and keep their
order, so the properties are stated on `Places` and not on filtered sequences.
`CadenceBounded` of the direct application is a matter of counting: a pump that is taken
becomes at most one end of a tick, an end of a tick at most one pump, and eviction only
loses some. `Paced` also counts the loads and frame steps that wait, since they may
become a tick. That the cadence does not die depends on what a full queue evicts, and
is proved where the sizes leave room (`Roomy`): the queue of the kernel holds at least
`2 * (Lanes + IntentBudget)` reports and a frame drains at least `2 * IntentBudget`. In
the code that is 64 against 22 and 32 against 6. (The run has less room than that, 6
against 10 and 4 against 6, to have more evictions; a queue of one report, which the
test of `crates/99-tests` builds, refuses every tick and with it the pump.)
`Living` says where the last end of a tick is in the queue: twice the reports behind it
and the reports before it are at most as many as a full queue has, and two more for each
intent this frame has taken. A drain takes off at least what a frame may add (`NearDrained`), and an
end so placed is not among those that a report that joins evicts (`NearSubmitted`).

**FabricProofs** (any number of lanes and slots, any sizes with `RoomAssumption`).
`SlotsAccounted`, `DisplayReported` and `PumpsBounded` all depend on the rounds of
`gbx_tick`: who runs when, what may wait in which queue meanwhile, and how much.
That is `Course`. It needs that one poll of the worker takes all that a drive makes,
that one drain of the hub takes all that was published, and that the reply ring still
has room for a frame after what is not a frame. `RoomAssumption` says so of the sizes:
as the smallest ROM is 32 KiB the command ring of the page holds at most three loads,
eight lanes make at most 2 * 8 + 1 reports, and twenty reports are within both budgets
of the code (32 each). On top of it

* `Slots` says that a tick fills the slots before it sends frames inline, so that what
  announces a slot is published while the ring still has room, and is not lost;
* `Display` that the first frame of a tick is one of the lane on display, that it is
  published before the end of its tick, and that only frames behind it are refused;
* `Pumping` that `Pressure` (the pumps that wait, those that a tick on its way will ask
  for, and for each load that waits the pumps it may hold up) stays below a limit that
  only a load the user asks for raises, with room for what a `gbx_tick` adds: the call
  adds a pump and its tick one more, and the scheduler's runs take them off again. That
  needs a budget of three intents (the code's) and a ROM that fits the command ring;
  with a ROM that does not, TLC finds the bound broken;
* `Serving` that a load is refused only while others are in the ring before it.
  `RefusalsPass` is the property that FabricRom shows violated for larger ROMs.

**DeviceProofs**, the timers (divider, counters and clocks of every width). `EdgesCounted` is an
action property: four places of the code look for edges, each comparing a remembered
input or the registers. It needs that the remembered input is the signal of the
registers (`InputCoherent`), which in turn needs the shape of the block. `OverflowServed`
needs an argument about distance: a second overflow while one waits would be lost, and
none comes because the bits that clock TIMA weigh at least 2^3 (`ClocksAssumption`), so
that an edge comes only just behind a multiple of 16 or after a write, and the reload
is four cycles away. `Kept` has it as `Quiet` (while a reload is pending no edge can
come), beside `Owes` and `Reloaded`.

**DeviceProofs**, the PPU (frames, lines and steps of every length). A write may leave coincidence
and STAT behind the registers and the loop of the step catches up, so the invariant has
a part that always holds (`Sound`: dots, line and mode agree) and one that holds between
steps (`Coherent`, `Resting`). `Reported` says that a coincidence that is remembered was
requested; `AtEvent` is the moment at which a line or a mode ends.

**DeviceProofs**, the bus (ROMs of every size). The bank is a function of the number in force and
the size of the ROM (`BankOf`) through writes, loads, resets and restores.

**DeviceProofs**, the serial port (bytes and bits of every length). The mask of the bit
that is sent is a power of two, given by a recursive function; its lemmas are proved by
least counterexample. `SerialIInv` ties the bits left, the cycles left of the present
bit and the time since the transfer began to each other.

**CpuProofs**, control (any set of lines, programs and devices). `Masked` is not inductive: an
instruction in progress carries an EI that takes effect at its end, which `InProgress`
ties to the state; `Shadow` says that an EI that counts is outstanding until the next
instruction ends.

**CpuProofs**, the instructions (any number of lanes, any programs whose memory holds
bytes, every opcode). The lanes do not merely agree: every operation, given a
machine in all lanes (`Splat`), returns in all lanes what it returns on one machine.
`Lifts` says so together with the cycles the operation spends on credit, and there is
one lemma for each field, operand, access and instruction, up to `DispatchPays` for
every opcode and `ExecuteOpcodeLifts` for a whole instruction. `Pays` adds that the
fetch and the accesses of an instruction stay within the cycles it reports, which is
what makes the bill exact: `SettleLifts` gives the devices the rest of the report at the
end, and would give none if the accesses had cost more. That the flags, taken
from lane 0, are those of every lane is a consequence (`Add8Lifts`, `Sub8Lifts`), as is
that a byte computed in an integer is the byte computed in a byte (`LowBits`). The
invariant `LanesIInv` is both promises in one. The assumptions are a lane
(`LaneAssumption`) and memories and registers of bytes (`ProgramsAssumption`).

**CpuProofs**, the arithmetic (every byte, every decimal digit, every carry). The code
takes carry and half carry from single bits of the operands and the result; that those
are the carries of the numbers is shown bit by bit, by the value of the bits below. ADD
HL,BC does the same on words. For DAA, both operands are digits: the byte and the three
flags it is given are those of `16 * hi + lo` for the two columns `hi` and `lo` of the
sum or difference (`DaaReady`), which leaves a bounded number of cases for what it adds
or takes (`DaaOnDigits`). `ArithmeticIInv` says which machine is left after one
instruction (`First`) and after two (`Second`); `ExecuteIs` reduces an instruction to
its decoder, `AluOfB` and `DispatchOfArithmetic` the decoder to the operation. Here
`ProgramsAssumption` is needed for what a program of kind `decimal` is: ADD, ADC, SUB or
SBC of B and DAA behind it, on operands that are digits.

### Only model-checked

* Liveness (`SubmissionCommitted`, `UnreadIsTaken`, `NativeAllDrained`,
  `LoadsServed`, `LoadsComplete`, `SleepersWake`): the prover does not handle
  fairness and ENABLED.
* `CadenceAlive` in queues with less room than `Roomy` asks for.
* `CallsReturn`: what a program of calls, restarts, pushes and returns leaves is
  computed by TLC for stacks in two places and every Z and carry. A proof
  would run up to twelve instructions symbolically through decoder and stack.
* `DirectTypeOK`, and `MailboxTypeOK`, of which `Shape` proves all but the length of a
  finished read.
* What folds compute: induction over data is out of reach of the provers used. Where a
  proof needed a sequence or a power described by recursion, the recursion is a
  function and the lemma takes the least counterexample; `RECURSIVE` operators are
  in modules that no proof uses.

## Not modelled

* Pixels, sound, and what registers hold that nothing but a program reads back.
* Archived record formats and memory layouts: they keep no state. What their missing
  fields do is in `Codecs`.
* Validation errors of constructors, and the assembly of endpoints and workers.
* Timeouts of waits, which no caller uses.
* The devices and interrupts of lanes: `LaneCore` runs their instructions; the code
  steps the devices of all lanes alike.
* The health flags, which no code sets; the inspector's view and the performance
  counters, which have no effect on the loop; `paused` beyond its toggling, which no
  code reads.
* The kernel's debugger commands are reduced to what they publish.

## Plan

Done: transport (`SlotPool`, `MsgRing`, `Mailbox`, `FramePipeline`, `Codecs`,
`Endpoint`), kernel service, application, machine (`Timers`, `Ppu`, `Serial`, `Bus`,
`Cpu`, `Instructions` on both backends), and the proofs above.

Next:

1. `Machine`: the loop of `step_cycles` with CPU control, timers, serial port and PPU
   under one clock; an access latches, devices step, requests appear in a fixed order.
2. A proof of `CallsReturn` for every stack.
3. The drawing of a line as an operator on tiles and palettes.
4. The inspector's view of a snapshot.
