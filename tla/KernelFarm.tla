----------------------------- MODULE KernelFarm -----------------------------
(***************************************************************************)
(* The kernel service's farm of emulation instances, the frame sink that   *)
(* writes their pictures into the transport's slot pool, and the boot      *)
(* animation of the scalar backend, as functions on one record:            *)
(*   lanes  lanes of every instance, fixed when the farm is built           *)
(*   inst   group -> instance, a function on the groups that exist         *)
(*   free   slots of the pool the sink may acquire, oldest first           *)
(*   ready  slots the sink published, oldest first                         *)
(*   data   slot -> the picture last written into it                       *)
(*   era    group -> how often the group was loaded or terminated; not in  *)
(*          the code, it tells the pictures of different games apart.      *)
(* The pool is the one of SlotPool, seen between two calls: its rings are  *)
(* FIFO sequences. A picture is what identifies the pixels: era, lane, id. *)
(***************************************************************************)
EXTENDS ServiceQueue, FiniteSets, TLC

CONSTANTS
    Groups,         \* kernel groups
    LaneCounts,     \* numbers of lanes a farm may be built for (CoreConfig::lanes)
    SlotCount,      \* slots of the frame pool
    HasBootRom,     \* load_dmg_boot_rom returned an image
    ScrollSteps,    \* lines the logo scrolls (100 in the code)
    FrameDelay,     \* frames between two lines, less one (2)
    PauseFrames     \* frames the logo stands still (64)

ASSUME FarmAssumption ==
    /\ LaneCounts \subseteq Nat \ {0} /\ SlotCount \in Nat /\ HasBootRom \in BOOLEAN
    /\ ScrollSteps \in Nat \ {0} /\ FrameDelay \in Nat /\ PauseFrames \in Nat

Slots == 1 .. SlotCount

Inline == 0         \* a frame whose pixels travel in the report itself

(* ------------------------- the boot animation ------------------------- *)

NoBoot == [phase |-> "none", steps |-> 0, delay |-> 0, left |-> 0]

NewBoot == [phase |-> "scroll", steps |-> ScrollSteps, delay |-> FrameDelay,
            left |-> 0]

BootPause == [phase |-> "pause", steps |-> 0, delay |-> 0, left |-> PauseFrames]

(* One rendered frame of the animation; the frame that finishes it also    *)
(* removes it from the instance.                                           *)
Advance(boot) ==
    CASE boot.phase = "scroll" /\ boot.delay > 0 ->
           [boot EXCEPT !.delay = @ - 1]
      [] boot.phase = "scroll" /\ boot.delay = 0 /\ boot.steps <= 1 ->
           BootPause
      [] boot.phase = "scroll" /\ boot.delay = 0 /\ boot.steps > 1 ->
           [boot EXCEPT !.steps = @ - 1, !.delay = FrameDelay]
      [] boot.phase = "pause" /\ boot.left > 0 ->
           [boot EXCEPT !.left = @ - 1]
      [] OTHER -> NoBoot

(* ------------------------------ instances ----------------------------- *)

Released == "released"      \* no button held

NewInstance == [boot |-> NoBoot, next |-> 0, pad |-> Released]

Booting(inst) == inst.boot # NoBoot

Ensure(farm, g) ==
    [farm EXCEPT !.inst = [h \in DOMAIN farm.inst \cup {g} |->
                             IF h \in DOMAIN farm.inst THEN farm.inst[h] ELSE NewInstance]]

(* A bug: the frame numbers go on across a load.                           *)
LoadedKeepsNumbers(inst, blank, lanes) ==
    [inst EXCEPT !.boot = IF ~blank /\ ~HasBootRom /\ lanes = 1
                          THEN NewBoot ELSE NoBoot,
                 !.pad = Released]

(* A ROM restarts the frame numbers and releases the buttons the bus knows *)
(* of. Only a scalar instance without a boot image gets the animation.     *)
Loaded(inst, blank, lanes) ==
    [inst EXCEPT !.boot = IF ~blank /\ ~HasBootRom /\ lanes = 1
                          THEN NewBoot ELSE NoBoot,
                 !.next = 0,
                 !.pad = Released]

LoadRom(farm, g, blank) ==
    [Ensure(farm, g) EXCEPT !.inst[g] = Loaded(@, blank, farm.lanes), !.era[g] = @ + 1]

SetInputs(farm, g, pad) ==
    IF g \in DOMAIN farm.inst
    THEN [farm EXCEPT !.inst[g].pad = pad]
    ELSE farm

Terminate(farm, g) ==
    [farm EXCEPT !.inst = [h \in DOMAIN farm.inst \ {g} |-> farm.inst[h]],
                 !.era[g] = @ + 1]

StepInstructions(farm, g, count) ==
    LET held == Ensure(farm, g)
    IN  IF count = 0 THEN held ELSE [held EXCEPT !.inst[g].boot = NoBoot]

(* --------------------------- frames and ticks -------------------------- *)

(* A bug: the acquired slot is written but not pushed to the ready ring.   *)
PlacedUnready(farm, slot, picture) ==
    IF slot = Inline
    THEN farm
    ELSE [farm EXCEPT !.free = Tail(@), !.data[slot] = picture]

(* TransportFrameSink::produce_frame: the picture goes into the oldest     *)
(* free slot, which becomes ready. The ready ring has room for every slot  *)
(* of the pool, so its refusal is not a case.                              *)
Placed(farm, slot, picture) ==
    IF slot = Inline
    THEN farm
    ELSE [farm EXCEPT !.free = Tail(@),
                      !.ready = Append(@, slot),
                      !.data[slot] = picture]

(* A bug: the frame number is used before it is bumped, and never bumped.  *)
StaleNumber(inst) == inst.next

(* Instance::bump_frame_id.                                                *)
BumpedNumber(inst) == inst.next + 1

(* One lane of publish_lane_frames: render, place the picture in the pool  *)
(* or carry it inline when no slot is free, number it and report it.       *)
PublishLane(g, st, lane) ==
    LET farm == st.farm
        id == BumpedNumber(farm.inst[g])
        picture == [era |-> farm.era[g], lane |-> lane, id |-> id]
        slot == IF farm.free = <<>> THEN Inline ELSE Head(farm.free)
        rendered == [farm EXCEPT !.inst[g].boot = Advance(@),
                                 !.inst[g].next = id]
    IN  [farm |-> Placed(rendered, slot, picture),
         out |-> Append(st.out, [kind |-> "LaneFrame", group |-> g,
                                 slot |-> slot, of |-> picture])]

(* publish_lane_frames: all lanes in turn.                                 *)
Publish(g, st) ==
    LET after[lane \in 0 .. st.farm.lanes] ==
            IF lane = 0 THEN st ELSE PublishLane(g, after[lane - 1], lane)
    IN  after[st.farm.lanes]

(* What the core does in a tick: it reports a frame after the cycles of    *)
(* the budget, only after extra ones, or not within the attempts granted.  *)
CoreRuns == {"prompt", "late", "never"}

(* KernelFarm::tick. While the animation plays the core does not run. A    *)
(* frame of the extra attempts is published without being noted in         *)
(* `published`, so the forced snapshot that follows publishes once more.   *)
Tick(farm, g, run) ==
    LET st == [farm |-> Ensure(farm, g), out |-> <<>>]
        late == ~Booting(st.farm.inst[g]) /\ run = "late"
        done == IF late THEN Publish(g, Publish(g, st)) ELSE Publish(g, st)
    IN  [done EXCEPT !.out = Append(@, [kind |-> "TickDone", group |-> g])]

(* ------------------------------- commands ------------------------------ *)

Operations == {"TickDisplay", "TickExploration", "LoadRom", "LoadBlank",
               "SetInputs", "Terminate", "Snapshot", "MemWindow",
               "StepInstruction", "StepFrame"}

SubmitPolicy(op) ==
    CASE op \in {"TickDisplay", "Snapshot"} -> "Coalesce"
      [] op = "TickExploration" -> "BestEffort"
      [] OTHER -> "Lossless"

(* A bug: a tick is taken to answer with TickDone alone.                   *)
ReportsForDoneOnly(op) ==
    CASE op \in {"SetInputs", "Terminate", "TickDisplay", "TickExploration"} -> 0
      [] op = "StepFrame" -> 3
      [] OTHER -> 1

(* The reports a command is expected to need: an estimate, since a tick    *)
(* yields one frame per lane and possibly a second set of them.            *)
ReportsFor(op) ==
    CASE op \in {"TickDisplay", "TickExploration"} -> 2
      [] op \in {"SetInputs", "Terminate"} -> 0
      [] op = "StepFrame" -> 3
      [] OTHER -> 1

Answer(farm, g, kind) ==
    [farm |-> farm, out |-> << [kind |-> kind, group |-> g, era |-> farm.era[g]] >>]

Silent(farm) == [farm |-> farm, out |-> <<>>]

(* KernelService::materialise_reports: execute the command.                *)
Materialise(farm, op, g, run, pad, count) ==
    CASE op \in {"TickDisplay", "TickExploration"} -> Tick(farm, g, run)
      [] op = "LoadRom" -> Answer(LoadRom(farm, g, FALSE), g, "RomLoaded")
      [] op = "LoadBlank" -> Answer(LoadRom(farm, g, TRUE), g, "RomLoaded")
      [] op = "SetInputs" -> Silent(SetInputs(farm, g, pad))
      [] op = "Terminate" -> Silent(Terminate(farm, g))
      [] op \in {"Snapshot", "MemWindow"} -> Answer(Ensure(farm, g), g, op)
      [] op = "StepInstruction" ->
           Answer(StepInstructions(farm, g, count), g, "Stepped")
      [] op = "StepFrame" ->
           LET ticked == Tick(farm, g, run)
           IN  [ticked EXCEPT
                  !.out = @ \o Answer(ticked.farm, g, "Stepped").out]

NewFarm(lanes) ==
           [lanes |-> lanes,
            inst |-> << >>, free |-> [s \in Slots |-> s], ready |-> <<>>,
            data |-> [s \in Slots |-> [era |-> 0, lane |-> 0, id |-> 0]],
            era |-> [g \in Groups |-> 0]]
=============================================================================
