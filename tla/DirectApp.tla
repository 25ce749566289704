----------------------------- MODULE DirectApp ------------------------------
(***************************************************************************)
(* The scheduler with services in its own process, as the tests and the    *)
(* inspector command line build it (app, hub, services): a submission      *)
(* executes at once and its reports wait in the service's queue until the  *)
(* hub drains it. The filesystem and audio services get no command from    *)
(* the reducers, so their queues stay empty and are left out. What a       *)
(* kernel command does is in KernelFarm; here only the kinds and lanes of  *)
(* its reports matter.                                                     *)
(***************************************************************************)
EXTENDS AppLoop, ServiceQueue, FiniteSets

CONSTANTS
    Lanes,              \* lanes of the display group
    KernelCapacity, GpuCapacity,
    ReportBudget,       \* reports drained per frame (32)
    StartCap            \* bound: PumpFrame intents of the client

ASSUME DirectAssumption ==
    /\ Lanes \in Nat \ {0} /\ StartCap \in Nat
    /\ KernelCapacity \in Nat \ {0} /\ GpuCapacity \in Nat \ {0}
    /\ ReportBudget \in Nat \ {0}

Farm == INSTANCE KernelFarm
    WITH Groups <- {0}, LaneCounts <- {Lanes}, SlotCount <- 0, HasBootRom <- TRUE,
         ScrollSteps <- 1, FrameDelay <- 0, PauseFrames <- 0

VARIABLES
    kernel,     \* LocalQueue<KernelRep> of the kernel service
    gpu,        \* LocalQueue<GpuRep> of the GPU service
    pumped,     \* ticks this frame submitted for PumpFrame intents
    started     \* PumpFrame intents the client enqueued
\* pumped and started are not in the code.

vars == <<loopVars, kernel, gpu, pumped, started>>

(* ------------------------------- services ------------------------------ *)

LaneFrames(count) ==
    [i \in 1 .. count * Lanes |->
        [kind |-> "LaneFrame", lane |-> (i - 1) % Lanes, id |-> 1]]

(* The reports of an executed command; a tick publishes every lane once or *)
(* twice.                                                                  *)
ReportsOf(command, times) ==
    CASE command = "TickDisplay" -> Append(LaneFrames(times), [kind |-> "TickDone"])
      [] command = "StepFrame" ->
           LaneFrames(times) \o << [kind |-> "TickDone"], [kind |-> "Debug"] >>
      [] command = "LoadRom" -> << [kind |-> "RomLoaded"] >>
      [] command = "Snapshot" -> << [kind |-> "Debug"] >>

(* Submission to a service queue: what is left of the queue, and the new   *)
(* reports if the command is executed.                                     *)
Submitted(policy, queue, capacity, needed, new) ==
    Kept(policy, queue, capacity, needed)
    \o IF Executes(Admission(policy, queue, capacity, needed)) THEN new ELSE <<>>

(* ServicesHub::try_submit_work.                                           *)
KernelOutcome(command) ==
    Admission(DefaultPolicy(command), kernel, KernelCapacity, Farm!ReportsFor(command))

(* ------------------------------- actions ------------------------------ *)

Init ==
    /\ InitLoop
    /\ kernel = <<>> /\ gpu = <<>>
    /\ pumped = 0 /\ started = 0

Demand(op, p, arg) ==
    /\ Enqueue(p, op, arg)
    /\ UNCHANGED <<kernel, gpu, pumped, started>>

DemandFront(op) ==
    /\ EnqueueFront(op, 0)
    /\ UNCHANGED <<kernel, gpu, pumped, started>>

(* What a client may enqueue between two frames: loads and frame steps with *)
(* the highest priority, loads behind the pumps or in front of everything, *)
(* and intents that ask for nothing that must not be lost.                 *)
Client ==
    \/ \E op \in Numbered : MoreToAsk /\ Demand(op, "P0", 0)
    \/ \E op \in Numbered \cap {"LoadRom"} :
         MoreToAsk /\ (Demand(op, "P1", 0) \/ DemandFront(op))
    \/ Waiting("P1") = <<>> /\ Demand("DebugSnapshot", "P1", 0)
    \/ \E l \in DisplayLanes \ {world.lane} :
         Waiting("P1") = <<>> /\ Demand("SelectDisplayLane", "P1", l)

StartPump ==
    /\ started < StartCap
    /\ Enqueue("P1", "PumpFrame", 0)
    /\ started' = started + 1
    /\ UNCHANGED <<kernel, gpu, pumped>>

Begin ==
    /\ StartFrame
    /\ pumped' = 0
    /\ UNCHANGED <<kernel, gpu, started>>

Reduce ==
    /\ phase = "intents" /\ HasIntent
    /\ LET command == CommandOf(NextIntent)
       IN  \/ /\ command = "None"
              /\ TakeIntent("Accepted") /\ UNCHANGED kernel
           \/ /\ command # "None"
              /\ TakeIntent(KernelOutcome(command))
              /\ \E times \in {1, 2} :
                   kernel' = Submitted(DefaultPolicy(command), kernel, KernelCapacity,
                                       Farm!ReportsFor(command), ReportsOf(command, times))
    /\ pumped' = IF IsPump(NextIntent) THEN pumped + 1 ELSE pumped
    /\ UNCHANGED <<gpu, started>>

(* ServicesHub::drain_reports: the kernel first with the whole budget, the *)
(* GPU with what is left. A second round finds both queues or the budget   *)
(* exhausted.                                                              *)
GpuShare == ReportBudget - Lesser(ReportBudget, Len(kernel))

Collect ==
    /\ Gather(Drained(kernel, ReportBudget)
              \o [i \in 1 .. Lesser(GpuShare, Len(gpu)) |-> [kind |-> "FrameShown"]])
    /\ kernel' = Undrained(kernel, ReportBudget)
    /\ gpu' = Undrained(gpu, GpuShare)
    /\ UNCHANGED <<pumped, started>>

(* A report and the submission of the upload it asks for, which the GPU    *)
(* service treats as Must whatever the scheduler's policy.                 *)
React ==
    /\ TakeReport
    /\ gpu' = IF Uploads(world, Head(batch))
              THEN Submitted("Must", gpu, GpuCapacity, 1, << [kind |-> "FrameShown"] >>)
              ELSE gpu
    /\ UNCHANGED <<kernel, pumped, started>>

Finish == EndFrame /\ UNCHANGED <<kernel, gpu, pumped, started>>

Run == Begin \/ Reduce \/ Collect \/ React \/ Finish

Next == Client \/ StartPump \/ Run

(* The caller keeps calling run_once.                                      *)
Spec == Init /\ [][Next]_vars /\ WF_vars(Run)

(* ------------------------------ properties ---------------------------- *)

Count(seq, S) == Cardinality({i \in DOMAIN seq : seq[i] \in S})

Ends == { [kind |-> "TickDone"] }

(* A pump is an intent that waits, a tick whose TickDone waits, or a       *)
(* report of it that is being reduced.                                     *)
Pumps ==
    Count(queues["P0"], {Pump}) + Count(queues["P1"], {Pump})
    + Count(kernel, Ends) + Count(batch, Ends)

Asks == asked["P0"] + asked["P1"] + asked["P2"] + asked["Front"]

DirectTypeOK ==
    /\ TypeOK
    /\ pumped \in 0 .. IntentBudget /\ started \in 0 .. StartCap
    /\ Len(gpu) <= GpuCapacity
    /\ Len(kernel) <= KernelCapacity + (2 * Lanes - 1)

(* The cadence does not die by itself: once the client has started it      *)
(* there is always a pump to come, whatever the queue evicts.              *)
CadenceAlive == AutoPump /\ started > 0 => Pumps > 0

(* The cadence does not multiply by itself: every pump is one that the     *)
(* client or a frame step of the debugger started.                         *)
CadenceBounded == Pumps <= started + Asks

(* The cadence neither dies nor multiplies by itself (reduce_report).      *)
CadenceKept == CadenceAlive /\ CadenceBounded

(* Every lossless command is accepted in the end, however full the queue.  *)
LoadsServed ==
    \A n \in 1 .. AskCap :
        (asked["P0"] >= n) ~> (\E i \in DOMAIN served["P0"] : served["P0"][i] = n)

(* The queue of the GPU service is drained in the end.                     *)
GpuDrained == (gpu # <<>>) ~> (\E r \in ToSet(batch) : r.kind = "FrameShown")

(* An upload of the display lane is accepted by the GPU service or waits   *)
(* to be tried again.                                                      *)
DisplayUploaded ==
    [][(batch # <<>> /\ batch' = Tail(batch) /\ Uploads(world, Head(batch))
        /\ UploadPolicy(world, Head(batch)) = "Must") => Len(gpu') > Len(gpu)]_vars

(* One frame processes at most one PumpFrame.                              *)
OnePumpPerFrame == pumped <= 1
=============================================================================
