------------------------------ MODULE AppLoop -------------------------------
(***************************************************************************)
(* The application's scheduler: intents wait in three queues by priority,  *)
(* a frame reduces a bounded number of them into commands for the services *)
(* and then reduces a bounded batch of their reports (app, world).         *)
(* Scheduler::run_once is one call on one thread; here one action takes    *)
(* one intent or one report of it. What the services answer is open: the   *)
(* actions have it as a parameter. DirectApp and FabricApp compose the     *)
(* loop with the services it is built with.                                *)
(***************************************************************************)
EXTENDS Naturals, Sequences, SequencesExt, Functions

CONSTANTS
    IntentBudget,   \* intents taken per frame (3)
    AutoPump,       \* World::auto_pump
    Grid,           \* World::view_mode is ViewMode::Grid
    DisplayLanes,   \* the lanes the user can select for display
    Numbered,       \* the lossless intents asked for in this instance
    AskCap          \* bound: numbered intents asked for

ASSUME LoopAssumption ==
    /\ IntentBudget \in Nat \ {0}
    /\ AutoPump \in BOOLEAN /\ Grid \in BOOLEAN
    /\ DisplayLanes \subseteq Nat /\ DisplayLanes # {}
    /\ Numbered \subseteq {"LoadRom", "DebugStepFrame"}
    /\ AskCap \in Nat

VARIABLES
    queues,     \* priority -> the intents that wait, PQueues
    world,      \* the fields of World that reducers write
    phase,      \* where run_once is: "idle", "intents" or "reports"
    budget,     \* intents this frame may still take
    batch,      \* drained reports this frame has not reduced yet
    asked,      \* origin -> how many numbered intents were enqueued
    served      \* origin -> the numbers of those a service accepted
\* asked and served are not in the code.

loopVars == <<queues, world, phase, budget, batch, asked, served>>

Priorities == {"P0", "P1", "P2"}

(* ------------------------------- intents ------------------------------ *)

\* An intent that asks a service for something that must not be lost is
\* numbered by where it came from: the priority it was enqueued with, or the
\* front of P0. SelectDisplayLane has its lane there.
Origins == Priorities \cup {"Front"}

Intents == [op : {"PumpFrame", "TogglePause", "SelectDisplayLane", "LoadRom",
                  "DebugSnapshot", "DebugStepFrame"},
            from : Origins, nr : Nat]

Pump == [op |-> "PumpFrame", from |-> "P1", nr |-> 0]

IsPump(intent) == intent.op = "PumpFrame"

(* World::reduce_intent: the command an intent becomes, at most one.       *)
(* PumpFrame becomes a tick of the display group whether or not the world  *)
(* is paused or has a ROM.                                                 *)
CommandOf(intent) ==
    CASE IsPump(intent) -> "TickDisplay"
      [] intent.op = "LoadRom" -> "LoadRom"
      [] intent.op = "DebugSnapshot" -> "Snapshot"
      [] intent.op = "DebugStepFrame" -> "StepFrame"
      [] OTHER -> "None"

(* WorkCmd::default_policy.                                                *)
DefaultPolicy(command) ==
    IF command \in {"TickDisplay", "Snapshot"} THEN "Coalesce" ELSE "Lossless"

(* Numbered: the intents that must not be lost.                            *)
IsLossless(intent) ==
    CommandOf(intent) # "None" /\ DefaultPolicy(CommandOf(intent)) = "Lossless"

ReducedIntent(w, intent) ==
    CASE intent.op = "TogglePause" -> [w EXCEPT !.paused = ~@]
      [] intent.op = "SelectDisplayLane" -> [w EXCEPT !.lane = intent.nr]
      [] OTHER -> w

(* ------------------------------- reports ------------------------------ *)

(* World::reduce_report: the world it leaves (rom_loaded is romEvents > 0), *)
(* the upload it asks for at once, and the intents it defers.              *)
ReducedReport(w, rep) ==
    CASE rep.kind = "LaneFrame" /\ rep.lane = w.lane -> [w EXCEPT !.shown = rep.id]
      [] rep.kind = "RomLoaded" -> [w EXCEPT !.romEvents = @ + 1]
      [] OTHER -> w

Uploads(w, rep) ==
    rep.kind = "LaneFrame" /\ (Grid \/ rep.lane = w.lane)

(* AvCmd::default_policy: the display lane must be uploaded, others may    *)
(* be dropped.                                                             *)
UploadPolicy(w, rep) == IF rep.lane = w.lane THEN "Must" ELSE "BestEffort"

(* A bug: a lane's frame also asks for the next one.                       *)
DeferredForFrames(rep) ==
    IF rep.kind \in {"TickDone", "LaneFrame"} /\ AutoPump THEN <<Pump>> ELSE <<>>

(* The end of a tick asks for the next one.                                *)
Deferred(rep) == IF rep.kind = "TickDone" /\ AutoPump THEN <<Pump>> ELSE <<>>

(* ------------------------------- actions ------------------------------ *)

Waiting(p) == queues[p]

HasIntent == \E p \in Priorities : Waiting(p) # <<>>

Top ==
    CASE Waiting("P0") # <<>> -> "P0"
      [] Waiting("P0") = <<>> /\ Waiting("P1") # <<>> -> "P1"
      [] OTHER -> "P2"

NextIntent == Head(Waiting(Top))

InitLoop ==
    /\ queues = [p \in Priorities |-> <<>>]
    /\ world = [paused |-> FALSE, lane |-> 0, romEvents |-> 0, shown |-> 0]
    /\ phase = "idle"
    /\ budget = 0
    /\ batch = <<>>
    /\ asked = [o \in Origins |-> 0]
    /\ served = [o \in Origins |-> <<>>]

(* A bug: a blocked intent waits behind the other intents of P0.           *)
RequeuedLast(waiting, intent) == [waiting EXCEPT !["P0"] = Append(@, intent)]

Requeued(waiting, intent) == [waiting EXCEPT !["P0"] = <<intent>> \o @]

NewIntent(op, origin, arg) ==
    [op |-> op, from |-> origin,
     nr |-> IF op \in Numbered THEN asked[origin] + 1 ELSE arg]

Ask(intent) ==
    asked' = IF intent.op \in Numbered
             THEN [asked EXCEPT ![intent.from] = @ + 1] ELSE asked

MoreToAsk == SumFunction(asked) < AskCap

(* Scheduler::enqueue_intent, between two frames.                          *)
Enqueue(p, op, arg) ==
    LET intent == NewIntent(op, p, arg)
    IN  /\ phase = "idle"
        /\ queues' = [queues EXCEPT ![p] = Append(@, intent)]
        /\ Ask(intent)
        /\ UNCHANGED <<world, phase, budget, batch, served>>

(* Scheduler::enqueue_front_p0.                                            *)
EnqueueFront(op, arg) ==
    LET intent == NewIntent(op, "Front", arg)
    IN  /\ phase = "idle"
        /\ queues' = Requeued(queues, intent)
        /\ Ask(intent)
        /\ UNCHANGED <<world, phase, budget, batch, served>>

StartFrame ==
    /\ phase = "idle"
    /\ phase' = "intents"
    /\ budget' = IntentBudget
    /\ UNCHANGED <<queues, world, batch, asked, served>>

(* A bug: only commands that must be taken are tried again.                *)
RetryMustOnly(outcome, command) ==
    /\ command # "None"
    /\ \/ outcome = "Closed"
       \/ outcome = "WouldBlock" /\ DefaultPolicy(command) = "Must"

(* A command that the service could not take is tried again first of all,  *)
(* unless its policy accepts the loss.                                     *)
Retry(outcome, command) ==
    /\ command # "None"
    /\ \/ outcome = "Closed"
       \/ outcome = "WouldBlock" /\ DefaultPolicy(command) \in {"Must", "Lossless"}

(* One turn of the loop in process_intents; outcome is what the service    *)
(* answers if the intent becomes a command.                                *)
TakeIntent(outcome) ==
    LET intent == NextIntent
        popped == [queues EXCEPT ![Top] = Tail(@)]
        again == Retry(outcome, CommandOf(intent))
    IN  /\ phase = "intents" /\ budget > 0 /\ HasIntent
        /\ budget' = budget - 1
        /\ world' = ReducedIntent(world, intent)
        /\ queues' = IF again THEN Requeued(popped, intent) ELSE popped
        /\ served' = IF IsLossless(intent) /\ outcome \in {"Accepted", "Coalesced"}
                     THEN [served EXCEPT ![intent.from] = Append(@, intent.nr)]
                     ELSE served
        /\ UNCHANGED <<phase, batch, asked>>

(* The end of process_intents and the drain of the hub.                    *)
Gather(drained) ==
    /\ phase = "intents" /\ (budget = 0 \/ ~HasIntent)
    /\ phase' = "reports"
    /\ batch' = drained
    /\ UNCHANGED <<queues, world, budget, asked, served>>

(* One report of process_reports. The outcome of its upload, if it has     *)
(* one, changes nothing.                                                   *)
TakeReport ==
    /\ phase = "reports" /\ batch # <<>>
    /\ batch' = Tail(batch)
    /\ world' = ReducedReport(world, Head(batch))
    /\ queues' = [queues EXCEPT !["P1"] = @ \o Deferred(Head(batch))]
    /\ UNCHANGED <<phase, budget, asked, served>>

EndFrame ==
    /\ phase = "reports" /\ batch = <<>>
    /\ phase' = "idle"
    /\ UNCHANGED <<queues, world, budget, batch, asked, served>>

(* ------------------------------ properties ---------------------------- *)

TypeOK ==
    /\ queues \in [Priorities -> Seq(Intents)]
    /\ world.paused \in BOOLEAN /\ world.romEvents \in Nat
    /\ world.lane \in DisplayLanes /\ world.shown \in Nat
    /\ phase \in {"idle", "intents", "reports"}
    /\ budget \in 0 .. IntentBudget
    /\ asked \in [Origins -> Nat]
    /\ served \in [Origins -> Seq(Nat)]

(* The queues one after the other, as process_intents empties them.        *)
InLine == queues["P0"] \o queues["P1"] \o queues["P2"]

(* Where in them the lossless intents of an origin wait, and their numbers. *)
Places(line, o) == {i \in DOMAIN line : IsLossless(line[i]) /\ line[i].from = o}

Unserved(line, o) == {line[i].nr : i \in Places(line, o)}

(* Of n intents asked for, done were served; the others wait in line. None *)
(* was lost or served twice, and they are served as they were asked for.   *)
InOrder(line, o, n, done) ==
    /\ done = [i \in 1 .. Len(done) |-> i] /\ Len(done) <= n
    /\ Unserved(line, o) = Len(done) + 1 .. n
    /\ \A i, j \in Places(line, o) : i < j => line[i].nr < line[j].nr

(* None was lost or served twice, and the latest that waits comes first.   *)
LatestFirst(line, o, n, done) ==
    /\ IsInjective(done)
    /\ ToSet(done) \cap Unserved(line, o) = {}
    /\ ToSet(done) \cup Unserved(line, o) = 1 .. n
    /\ \A i, j \in Places(line, o) : i < j => line[i].nr > line[j].nr

(* Of the lossless commands asked for with one priority none is lost, none *)
(* is served twice, and they are served in the order they were asked for,  *)
(* however often services refuse them or are closed and whatever is put in *)
(* front of them.                                                          *)
LosslessInOrder ==
    \A p \in Priorities : InOrder(InLine, p, asked[p], served[p])

(* Of the intents put at the front of P0 none is lost or served twice; the *)
(* latest of those that wait comes first.                                  *)
FrontConserved == LatestFirst(InLine, "Front", asked["Front"], served["Front"])
=============================================================================
