--------------------------- MODULE KernelService ----------------------------
(***************************************************************************)
(* The kernel service behind its Service trait: try_submit executes the    *)
(* command at once if its reports are admitted to the bounded queue, drain *)
(* hands reports to the user interface, and the user interface fetches the *)
(* pictures of the reports it was handed, in order, out of the frame pool. *)
(* Everything runs on one thread, one call after the other; the order of   *)
(* the calls, the commands and what the emulated core does are open.       *)
(***************************************************************************)
EXTENDS KernelFarm

CONSTANTS
    Capacity,       \* reports the queue is bounded to
    Commands,       \* the operations submitted in this instance
    DrainBudget,    \* reports one drain asks for
    EraCap,         \* bound: loads and terminations of one group
    FrameCap        \* bound: frames one era of a group shows

ASSUME ServiceAssumption ==
    /\ Capacity \in Nat \ {0} /\ DrainBudget \in Nat \ {0}
    /\ Commands \subseteq Operations
    /\ EraCap \in Nat /\ FrameCap \in Nat

VARIABLES
    farm,       \* KernelFarm, with the pool it shares with the interface
    reports,    \* LocalQueue<KernelRep>
    inbox       \* drained reports the interface has not handled yet

vars == <<farm, reports, inbox>>

Init ==
    /\ \E lanes \in LaneCounts : farm = NewFarm(lanes)
    /\ reports = <<>>
    /\ inbox = <<>>

(* ------------------------------- actions ------------------------------ *)

WithinBounds(op, g) ==
    /\ op \in {"LoadRom", "LoadBlank", "Terminate"} => farm.era[g] < EraCap
    /\ (op \in {"TickDisplay", "TickExploration", "StepFrame"}
        /\ g \in DOMAIN farm.inst) => farm.inst[g].next < FrameCap

TrySubmit(op, g, run, pad, count) ==
    /\ WithinBounds(op, g)
    /\ LET policy == SubmitPolicy(op)
           needed == ReportsFor(op)
           kept == Kept(policy, reports, Capacity, needed)
           done == Materialise(farm, op, g, run, pad, count)
       IN  IF Executes(Admission(policy, reports, Capacity, needed))
           THEN /\ farm' = done.farm
                /\ reports' = kept \o done.out
           ELSE /\ reports' = kept
                /\ UNCHANGED farm
    /\ UNCHANGED inbox

Submit ==
    \E op \in Commands, g \in Groups :
      \E run \in IF op \in {"TickDisplay", "TickExploration", "StepFrame"}
                 THEN CoreRuns ELSE {"prompt"},
         pad \in IF op = "SetInputs" THEN {Released, "pressed"} ELSE {Released},
         count \in IF op = "StepInstruction" THEN {0, 1} ELSE {1} :
        TrySubmit(op, g, run, pad, count)

Drain ==
    /\ inbox = <<>>
    /\ reports # <<>>
    /\ inbox' = Drained(reports, DrainBudget)
    /\ reports' = Undrained(reports, DrainBudget)
    /\ UNCHANGED farm

(* gbx_consume_frame for a report with one slot: it takes the oldest ready *)
(* slot, whichever it is, and gives it back.                               *)
Consume ==
    /\ inbox # <<>>
    /\ inbox' = Tail(inbox)
    /\ farm' = IF /\ Head(inbox).kind = "LaneFrame"
                  /\ Head(inbox).slot # Inline
                  /\ farm.ready # <<>>
               THEN [farm EXCEPT !.ready = Tail(@),
                                 !.free = Append(@, Head(farm.ready))]
               ELSE farm
    /\ UNCHANGED reports

Next == Submit \/ Drain \/ Consume

Spec == Init /\ [][Next]_vars

(* ------------------------------ properties ---------------------------- *)

Waiting == inbox \o reports

IsFrame(rep) == rep.kind = "LaneFrame"

\* The places of the reports that promise a slot of the pool.
Promising(seq) == {i \in DOMAIN seq : IsFrame(seq[i]) /\ seq[i].slot # Inline}

Pictures == [era : 0 .. EraCap, lane : 0 .. farm.lanes, id : Nat]

TypeOK ==
    /\ DOMAIN farm.inst \subseteq Groups
    /\ \A g \in DOMAIN farm.inst :
         /\ farm.inst[g].next \in Nat
         /\ farm.inst[g].pad \in {Released, "pressed"}
         /\ farm.inst[g].boot.phase \in {"none", "scroll", "pause"}
    /\ ToSet(farm.free) \cup ToSet(farm.ready) \subseteq Slots
    /\ farm.data \in [Slots -> Pictures]
    /\ farm.era \in [Groups -> 0 .. EraCap]
    /\ \A r \in ToSet(Waiting) : r.group \in Groups

(* The slots announced by the reports that were not handled yet are still  *)
(* ready, hold the picture the report speaks of, and come off the ready    *)
(* ring once each and in the order of their reports: the sink never writes *)
(* over a picture somebody was promised -- even after coalescing has       *)
(* thrown reports away and the interface, which fetches the oldest slot,   *)
(* was handed other slots than those announced.                            *)
Promised(f, seq) ==
    \A i \in Promising(seq) :
        /\ f.data[seq[i].slot] = seq[i].of
        /\ \E k \in DOMAIN f.ready :
             /\ f.ready[k] = seq[i].slot
             /\ \A j \in Promising(seq), m \in DOMAIN f.ready :
                  f.ready[m] = seq[j].slot => (i < j => k < m) /\ (i = j => k = m)

SpansPublished == Promised(farm, Waiting)

(* Frames of one group are handed over in the order they were rendered:    *)
(* by game, and within a game by frame number, each number once.           *)
FramesInOrder ==
    \A i, j \in 1 .. Len(Waiting) :
        LET a == Waiting[i] b == Waiting[j]
        IN  (i < j /\ IsFrame(a) /\ IsFrame(b) /\ a.group = b.group) =>
              \/ a.of.era < b.of.era
              \/ a.of.era = b.of.era /\ a.of.id < b.of.id

(* While the boot animation plays, the frame number says where it is: each *)
(* tick shows exactly one of its frames, and no step of it is skipped or   *)
(* shown twice, whatever commands come between.                            *)
BootFollowsFrames ==
    \A g \in DOMAIN farm.inst :
        LET inst == farm.inst[g] boot == inst.boot
        IN  /\ boot.phase = "scroll" =>
                 inst.next = (ScrollSteps - boot.steps) * (FrameDelay + 1)
                             + (FrameDelay - boot.delay)
            /\ boot.phase = "pause" =>
                 inst.next = ScrollSteps * (FrameDelay + 1)
                             + (PauseFrames - boot.left)

(* How far the queue can outgrow its capacity: by what one tick yields     *)
(* beyond the estimate of ReportsFor.                                      *)
OverrunBounded == Len(reports) <= Capacity + (2 * farm.lanes - 1)

(* try_submit_queue says that reports go into a bounded queue.             *)
QueueBounded == Len(reports) <= Capacity

(* The report of a lossless command waits until it is drained.             *)
LosslessAnswersKept ==
    [][\A r \in ToSet(reports) :
         r.kind = "RomLoaded" => r \in ToSet(reports') \cup ToSet(inbox')]_vars

(* One tick shows one frame of each lane: the forced snapshot is for a     *)
(* tick in which no frame became ready.                                    *)
OneFramePerTick ==
    \A i, j \in 1 .. Len(Waiting) :
        LET a == Waiting[i] b == Waiting[j]
        IN  (/\ i < j /\ IsFrame(a) /\ IsFrame(b)
             /\ a.group = b.group /\ a.of.lane = b.of.lane) =>
              \E k \in i .. j : Waiting[k].kind = "TickDone"

(* Frame identifiers of a group only grow.                                 *)
FrameIdsGrow ==
    \A i, j \in 1 .. Len(Waiting) :
        LET a == Waiting[i] b == Waiting[j]
        IN  (i < j /\ IsFrame(a) /\ IsFrame(b) /\ a.group = b.group) =>
              a.of.id < b.of.id
=============================================================================
