----------------------------- MODULE FabricApp ------------------------------
(***************************************************************************)
(* The browser application (gbx-wasm): the scheduler with its services     *)
(* behind the transport fabric. One thread runs everything: the page calls *)
(* gbx_tick, which runs the scheduler, lets the worker execute what was    *)
(* submitted, and returns the drained reports, whose frames the page then  *)
(* fetches. The queues are those of the fabric: a ring for lossless        *)
(* commands, a mailbox for ticks, a ring for reports, a pool of slots.     *)
(* Sizes are in KiB, rounded up. A record that fits the free bytes of a    *)
(* ring is taken to fit: MsgRing has the offsets, and shows that an empty  *)
(* ring always has room for a record of at most half of it. The GPU        *)
(* service is a pair of counters; its rings hold far more than the page    *)
(* ever has in flight.                                                     *)
(***************************************************************************)
EXTENDS AppLoop, ServiceQueue, FiniteSets

CONSTANTS
    Lanes,              \* lanes of the display group (8)
    SlotCount,          \* slots of the frame pool (8)
    CommandRing,        \* KiB of the lossless command ring (128)
    RomSize,            \* KiB of a ROM
    ReplyRing,          \* KiB of the reply ring (512)
    InlineSize,         \* KiB of a report that carries its pixels (91)
    KernelCapacity,     \* reports the kernel service queues (64)
    EngineBudget,       \* commands and reports one poll takes (32)
    ReportBudget        \* reports the hub drains (32)

ASSUME FabricAssumption ==
    /\ Lanes \in Nat \ {0} /\ SlotCount \in Nat
    /\ CommandRing \in Nat /\ RomSize \in Nat
    /\ ReplyRing \in Nat /\ InlineSize \in Nat \ {0}
    /\ KernelCapacity \in Nat \ {0}
    /\ EngineBudget \in Nat \ {0} /\ ReportBudget \in Nat \ {0}
    /\ "LoadRom" \in Numbered

(* The most reports one drive of the worker makes: those of `held` loads   *)
(* and of one tick, which publishes the lanes once or twice, and its end.  *)
Most(held) == held + 2 * Lanes + 1

(* With at most `held` loads in the command ring, one poll takes all that  *)
(* a drive makes, one drain of the hub all that the worker published, and  *)
(* the reply ring still has room for a frame. The smallest ROM is 32 KiB:  *)
(* the ring of the page holds three.                                       *)
Roomy(held) ==
    /\ CommandRing <= (held + 1) * RomSize
    /\ Most(held) <= EngineBudget /\ Most(held) <= ReportBudget
    /\ Most(held) + InlineSize <= ReplyRing

ASSUME RoomAssumption == \E held \in 0 .. CommandRing : Roomy(held)

MaxAttempts == 4    \* scheduler runs of gbx_tick before the last one
MaxRuns == 16       \* worker runs of drive_worker_until_idle

VARIABLES
    turn,       \* who runs: "page", "scheduler", "ran", "worker" or "fetch"
    attempt,    \* scheduler runs of this gbx_tick that returned nothing
    runs,       \* worker runs of this drive_worker_until_idle
    returned,   \* reports gbx_tick returns to the page
    wire,       \* lossless ring, mailbox, reply ring, GPU commands and reports
    kernel,     \* report queue of the kernel service
    pool,       \* free slots and ready slots of the frame pool
    poll        \* the kernel engine's poll: its stage, the drained reports
                \* it has not published yet, and the work this run counts

fabricVars == <<turn, attempt, runs, returned, wire, kernel, pool, poll>>

vars == <<loopVars, fabricVars>>

(* ------------------------------- the wire ------------------------------ *)

Inline(rep) == rep.kind = "LaneFrame" /\ ~rep.slot

Carried(reps) == {i \in DOMAIN reps : Inline(reps[i])}

Used(reps) == Len(reps) + Cardinality(Carried(reps)) * (InlineSize - 1)

RepliesFit(rep) == Used(Append(wire.replies, rep)) < ReplyRing

RomFits == (Len(wire.lossless) + 1) * RomSize < CommandRing

(* EndpointHandle::submit: a LoadRom goes into the lossless ring if it     *)
(* fits, a tick replaces what the mailbox holds.                           *)
Sent(command) ==
    CASE command = "LoadRom" /\ RomFits -> "Accepted"
      [] command = "LoadRom" /\ ~RomFits -> "WouldBlock"
      [] command = "TickDisplay" /\ wire.mail -> "Coalesced"
      [] OTHER -> "Accepted"

WireAfter(command) ==
    CASE command = "LoadRom" /\ RomFits -> [wire EXCEPT !.lossless = Append(@, command)]
      [] command = "TickDisplay" -> [wire EXCEPT !.mail = TRUE]
      [] OTHER -> wire

(* ------------------------------ the worker ----------------------------- *)

(* A bug: the lanes are published from the last to the first.              *)
LaneOfReversed(i) == (Lanes - 1) - ((i - 1) % Lanes)

(* Each publication of a tick goes through the lanes in turn.              *)
LaneOf(i) == (i - 1) % Lanes

(* The reports of a tick that publishes all lanes `times` times: frames    *)
(* take the free slots first and are carried inline after that.            *)
TickReports(free, times) ==
    [i \in 1 .. times * Lanes |->
        [kind |-> "LaneFrame", lane |-> LaneOf(i), id |-> 1, slot |-> i <= free]]
    \o << [kind |-> "TickDone"] >>

Farm == INSTANCE KernelFarm
    WITH Groups <- {0}, LaneCounts <- {Lanes}, SlotCount <- 0, HasBootRom <- TRUE,
         ScrollSteps <- 1, FrameDelay <- 0, PauseFrames <- 0

(* What one poll of the GPU service executes, and publishes.               *)
GpuShown == Lesser(wire.uploads, EngineBudget)

(* ------------------------------- actions ------------------------------- *)

Init ==
    /\ InitLoop
    /\ turn = "page" /\ attempt = 0 /\ runs = 0 /\ returned = <<>>
    /\ wire = [lossless |-> <<>>, mail |-> FALSE, replies |-> <<>>,
               uploads |-> 0, shown |-> 0]
    /\ kernel = <<>>
    /\ pool = [free |-> SlotCount, ready |-> 0]
    /\ poll = [stage |-> "commands", outbox |-> <<>>, work |-> 0]

(* gbx_load_rom: two intents, the load in front of everything.             *)
LoadRom ==
    LET load == NewIntent("LoadRom", "Front", 0)
    IN  /\ turn = "page" /\ MoreToAsk
        /\ queues' = [Requeued(queues, load) EXCEPT !["P1"] = Append(@, Pump)]
        /\ Ask(load)
        /\ UNCHANGED <<world, phase, budget, batch, served, fabricVars>>

TickCall ==
    /\ turn = "page"
    /\ Enqueue("P1", "PumpFrame", 0)
    /\ turn' = "scheduler" /\ attempt' = 0 /\ returned' = <<>>
    /\ UNCHANGED <<runs, wire, kernel, pool, poll>>

Begin == turn = "scheduler" /\ StartFrame /\ UNCHANGED fabricVars

Reduce ==
    /\ turn = "scheduler" /\ HasIntent
    /\ LET command == CommandOf(NextIntent)
       IN  TakeIntent(Sent(command)) /\ wire' = WireAfter(command)
    /\ UNCHANGED <<turn, attempt, runs, returned, kernel, pool, poll>>

(* ServicesHub::drain_reports, kernel before GPU.                          *)
Collect ==
    LET shown == Lesser(ReportBudget - Lesser(ReportBudget, Len(wire.replies)),
                        wire.shown)
        drained == Drained(wire.replies, ReportBudget)
                   \o [i \in 1 .. shown |-> [kind |-> "FrameShown"]]
    IN  /\ turn = "scheduler"
        /\ Gather(drained)
        /\ returned' = drained
        /\ wire' = [wire EXCEPT !.replies = Undrained(@, ReportBudget),
                                !.shown = @ - shown]
        /\ UNCHANGED <<turn, attempt, runs, kernel, pool, poll>>

React ==
    /\ turn = "scheduler"
    /\ TakeReport
    /\ wire' = [wire EXCEPT !.uploads = @ + IF Uploads(world, Head(batch)) THEN 1 ELSE 0]
    /\ UNCHANGED <<turn, attempt, runs, returned, kernel, pool, poll>>

(* The end of run_once_collect. With reports, or after the last attempt,   *)
(* gbx_tick goes on to its final drive of the worker.                      *)
Finish ==
    /\ turn = "scheduler"
    /\ EndFrame
    /\ turn' = IF returned # <<>> \/ attempt = MaxAttempts THEN "ran" ELSE "worker"
    /\ runs' = 0
    /\ UNCHANGED <<attempt, returned, wire, kernel, pool, poll>>

(* Without auto_pump the world has to be pumped by gbx_tick. The attempt   *)
(* counter passes the last one to tell the final drive from the others.    *)
Leave ==
    /\ turn = "ran"
    /\ IF AutoPump THEN UNCHANGED loopVars ELSE Enqueue("P1", "PumpFrame", 0)
    /\ turn' = "worker"
    /\ attempt' = MaxAttempts + 1
    /\ UNCHANGED <<runs, returned, wire, kernel, pool, poll>>

HasCommand == wire.lossless # <<>> \/ wire.mail

(* drain_commands takes the lossless ring first.                           *)
NextCommand == IF wire.lossless # <<>> THEN Head(wire.lossless) ELSE "TickDisplay"

WireTaken ==
    IF wire.lossless # <<>>
    THEN [wire EXCEPT !.lossless = Tail(@)]
    ELSE [wire EXCEPT !.mail = FALSE]

(* FabricServiceEngine::poll of the kernel, one command: the service's     *)
(* outcome is ignored except to count the work. The ring holds fewer       *)
(* commands than one poll may take.                                        *)
Execute ==
    /\ turn = "worker" /\ poll.stage = "commands" /\ HasCommand
    /\ \E times \in {1, 2} :
         LET policy == DefaultPolicy(NextCommand)
             needed == Farm!ReportsFor(NextCommand)
             kept == Kept(policy, kernel, KernelCapacity, needed)
             executes == Executes(Admission(policy, kernel, KernelCapacity, needed))
             ticks == executes /\ NextCommand = "TickDisplay"
             used == IF ticks THEN Lesser(pool.free, times * Lanes) ELSE 0
         IN  /\ times = 2 => ticks
             /\ kernel' = kept \o
                  (IF ticks THEN TickReports(pool.free, times)
                   ELSE IF executes THEN << [kind |-> "RomLoaded"] >> ELSE <<>>)
             /\ pool' = [free |-> pool.free - used, ready |-> pool.ready + used]
             /\ poll' = [poll EXCEPT !.work = @ + IF executes THEN 1 ELSE 0]
    /\ wire' = WireTaken
    /\ UNCHANGED <<loopVars, turn, attempt, runs, returned>>

(* The commands are done: drain the reports.                               *)
TakeReports ==
    /\ turn = "worker" /\ poll.stage = "commands" /\ ~HasCommand
    /\ poll' = [poll EXCEPT !.stage = "reports", !.outbox = Drained(kernel, EngineBudget)]
    /\ kernel' = Undrained(kernel, EngineBudget)
    /\ UNCHANGED <<loopVars, turn, attempt, runs, returned, wire, pool>>

(* publish_report: what does not fit the reply ring is lost.               *)
Publish ==
    /\ turn = "worker" /\ poll.stage = "reports" /\ poll.outbox # <<>>
    /\ LET rep == Head(poll.outbox)
           fits == RepliesFit(rep)
       IN  /\ wire' = IF fits THEN [wire EXCEPT !.replies = Append(@, rep)] ELSE wire
           /\ poll' = [poll EXCEPT !.outbox = Tail(@),
                                   !.work = @ + IF fits THEN 1 ELSE 0]
    /\ UNCHANGED <<loopVars, turn, attempt, runs, returned, kernel, pool>>

(* The polls of the other services end one fabric_worker_run;              *)
(* drive_worker_until_idle goes on while there was work.                   *)
EndWorkerRun ==
    /\ turn = "worker" /\ poll.stage = "reports" /\ poll.outbox = <<>>
    /\ wire' = [wire EXCEPT !.uploads = @ - GpuShown, !.shown = @ + GpuShown]
    /\ poll' = [poll EXCEPT !.stage = "commands", !.work = 0]
    /\ runs' = runs + 1
    /\ IF poll.work + 2 * GpuShown > 0 /\ runs' < MaxRuns
       THEN UNCHANGED <<turn, attempt>>
       ELSE IF attempt > MaxAttempts
       THEN turn' = "fetch" /\ UNCHANGED attempt
       ELSE turn' = "scheduler" /\ attempt' = attempt + 1
    /\ UNCHANGED <<loopVars, returned, kernel, pool>>

(* A bug: the page keeps the slot of a frame it has copied.                *)
FetchedKept(held) == [held EXCEPT !.ready = @ - 1]

(* gbx_consume_frame: the oldest ready slot is copied and freed.           *)
Fetched(held) == [free |-> held.free + 1, ready |-> held.ready - 1]

(* The page goes through the reports of gbx_tick.                          *)
Fetch ==
    /\ turn = "fetch"
    /\ IF returned = <<>>
       THEN turn' = "page" /\ UNCHANGED <<returned, pool>>
       ELSE /\ returned' = Tail(returned)
            /\ pool' = IF /\ Head(returned).kind = "LaneFrame"
                          /\ Head(returned).slot
                          /\ pool.ready > 0
                       THEN Fetched(pool) ELSE pool
            /\ UNCHANGED turn
    /\ UNCHANGED <<loopVars, attempt, runs, wire, kernel, poll>>

Run == TickCall \/ Begin \/ Reduce \/ Collect \/ React \/ Finish \/ Leave
       \/ Execute \/ TakeReports \/ Publish \/ EndWorkerRun \/ Fetch

Next == LoadRom \/ Run

(* The browser keeps calling the animation callback, and a call ends.      *)
Spec == Init /\ [][Next]_vars /\ WF_vars(Run)

(* ------------------------------ properties ---------------------------- *)

InSlot(rep) == rep.kind = "LaneFrame" /\ rep.slot

Announced(reps) == Cardinality({i \in DOMAIN reps : InSlot(reps[i])})

(* Every slot of the pool is free, or ready and announced by exactly one   *)
(* report on its way to the page: none leaks, and the page never finds the *)
(* ready ring empty or in another order than it was told.                  *)
SlotsAccounted ==
    /\ pool.free + pool.ready = SlotCount
    /\ pool.ready = Announced(kernel) + Announced(poll.outbox)
                      + Announced(wire.replies) + Announced(returned)

(* Each tick the page adds a pump, and so does each tick that the kernel   *)
(* ends, but no more than a frame's budget of them waits; a load, and each *)
(* retry of one, may hold up as many more.                                 *)
PumpsBounded == Len(queues["P1"]) <= IntentBudget * (1 + asked["Front"])

(* Among the reports for the page, the end of a tick comes after a frame   *)
(* of the lane that the same tick published.                               *)
Reported(lane) ==
    \A j \in DOMAIN returned : returned[j].kind = "TickDone" =>
      \E i \in 1 .. j :
        /\ returned[i].kind = "LaneFrame" /\ returned[i].lane = lane
        /\ \A k \in i .. j - 1 : returned[k].kind # "TickDone"

(* Every tick shows the page a frame of the lane on display.               *)
DisplayReported == turn = "ran" => Reported(world.lane)

(* Kernel reports travel through a lossless ring: every tick shows the     *)
(* page a frame of every lane.                                             *)
LanesReported == turn = "ran" => \A lane \in 0 .. Lanes - 1 : Reported(lane)

(* Every load the user asks for is reported as done to the world.          *)
LoadsComplete ==
    \A n \in 1 .. AskCap : (asked["Front"] >= n) ~> (world.romEvents >= n)

(* A load is refused only for the sake of commands that the worker is yet  *)
(* to take.                                                                *)
RefusedForOthers ==
    [][(budget' < budget /\ CommandOf(NextIntent) = "LoadRom" /\ served' = served)
       => wire.lossless # <<>>]_vars
=============================================================================
