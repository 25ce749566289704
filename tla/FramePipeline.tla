---------------------------- MODULE FramePipeline ---------------------------
(***************************************************************************)
(* transport-scenarios/src/engine.rs over a slot pool and an event ring: a  *)
(* worker produces numbered frames into slots and announces each on the     *)
(* event ring; the other side drains both.  The rings are the queues that   *)
(* SlotPool and MsgRing implement; what is split here is the waiting.       *)
(*                                                                          *)
(* Two targets:                                                             *)
(*   native: the worker yields and tries again (runtime-native); the        *)
(*           consumer pairs every frame with its event (native_e2e.rs);     *)
(*   wasm:   the worker parks on a counter of the ring with                 *)
(*           memory.atomic.wait32 (fabric-worker-wasm, transport/wait.rs);  *)
(*           the main thread drains frames and events separately and never  *)
(*           blocks (runtime-web-harness, consume_frames).                  *)
(***************************************************************************)
EXTENDS Integers, Sequences, SequencesExt

CONSTANTS
    SlotCount,    \* slots of the pool
    EventCap,     \* events the event ring holds
    FrameCount,   \* frames of the scenario
    DrainBudget,  \* wasm: events drained per turn of consume_frames
    Targets       \* the targets a scenario may be built for

ASSUME FramePipelineAssumption ==
    /\ SlotCount \in Nat \ {0}
    /\ EventCap \in Nat \ {0}
    /\ FrameCount \in Nat \ {0}
    /\ DrainBudget \in Nat \ {0}
    /\ Targets \subseteq {"native", "wasm"} /\ Targets # {}

Slots == 0 .. SlotCount - 1
Frames == 0 .. FrameCount - 1
Waitable == {"free", "ready", "event"}

VARIABLES
    target,       \* what the scenario is built for: "native" or "wasm"
    free, ready,  \* the two index queues
    data,         \* per slot: the frame number written into it
    events,       \* the event ring: <<frame, slot>>
    counter,      \* per waitable ring: the counter a blocked worker waits on
    ppc,          \* worker: "acquire", "write", "ready", "event", or while
                  \*   waiting "load", "compare", "parked"
    back,         \* worker: where it resumes after waiting
    expected,     \* worker: the counter value it waits to see changed
    current,      \* worker: the frame it is producing
    pslot,        \* worker: the slot it holds
    cpc,          \* consumer
    cslot,        \* consumer: the slot it holds
    waking,       \* consumer: the ring whose counter it stored and must notify
    budget,       \* consumer (wasm): events it may still drain this turn
    frames,       \* the frame numbers drained, in order
    announced     \* the frame numbers of the events drained, in order

vars == <<target, free, ready, data, events, counter, ppc, back, expected, current, pslot,
          cpc, cslot, waking, budget, frames, announced>>
workerVars == <<target, back, expected, current, pslot>>
consumerVars == <<cpc, cslot, waking, budget, frames, announced>>

\* The worker parks when it is blocked, instead of yielding and trying again.
Parks == target = "wasm"

Init ==
    /\ target \in Targets
    /\ free = [i \in 1 .. SlotCount |-> i - 1] /\ ready = <<>>
    /\ data = [s \in Slots |-> 0]
    /\ events = <<>>
    /\ counter = [r \in Waitable |-> 0]
    /\ ppc = "acquire" /\ back = "acquire" /\ expected = 0
    /\ current = 0 /\ pslot = 0
    /\ cpc = "pop" /\ cslot = 0 /\ waking = "free" /\ budget = DrainBudget
    /\ frames = <<>> /\ announced = <<>>

-----------------------------------------------------------------------------
(* The queues, as the other modules establish them.                         *)

\* Slips the properties below have to catch (none of them is in the code): a
\* ready ring that is a stack, an event ring that is never used to the full.
EnqueueFront(q, s) == <<s>> \o q
EventRingFullEarly == Len(events) >= EventCap - 1

Enqueue(q, s)  == Append(q, s)
Released(q, s) == Append(q, s)
EventRingFull  == Len(events) >= EventCap

-----------------------------------------------------------------------------
(* The worker: FrameScenarioEngine::poll calling produce_frame per frame.   *)

RingOf(place) == IF place = "acquire" THEN "free" ELSE place

\* A ring is full or empty: wait for it and come back to the same place.
WaitAt(place) ==
    /\ ppc' = IF Parks THEN "load" ELSE place
    /\ back' = place

AcquireFree ==
    /\ ppc = "acquire"
    /\ current < FrameCount
    /\ IF free = <<>>
       THEN WaitAt("acquire") /\ UNCHANGED <<free, pslot>>
       ELSE /\ free' = Tail(free)
            /\ pslot' = Head(free)
            /\ ppc' = "write"
            /\ UNCHANGED back
    /\ UNCHANGED <<target, ready, data, events, counter, expected, current, consumerVars>>

WriteFrame ==
    /\ ppc = "write"
    /\ data' = [data EXCEPT ![pslot] = current]
    /\ ppc' = "ready"
    /\ UNCHANGED <<free, ready, events, counter, workerVars, consumerVars>>

PushReady ==
    /\ ppc = "ready"
    /\ IF Len(ready) >= SlotCount
       THEN WaitAt("ready") /\ UNCHANGED ready
       ELSE /\ ready' = Enqueue(ready, pslot)
            /\ ppc' = "event"
            /\ UNCHANGED back
    /\ UNCHANGED <<target, free, data, events, counter, expected, current, pslot, consumerVars>>

\* The last step of produce_frame also counts the frame as produced.
PushEvent ==
    /\ ppc = "event"
    /\ IF EventRingFull
       THEN WaitAt("event") /\ UNCHANGED <<events, current>>
       ELSE /\ events' = Append(events, <<current, pslot>>)
            /\ current' = current + 1
            /\ ppc' = "acquire"
            /\ UNCHANGED back
    /\ UNCHANGED <<target, free, ready, data, counter, expected, pslot, consumerVars>>

\* wait_for_change loads the counter after the attempt has failed ...
LoadExpected ==
    /\ ppc = "load"
    /\ expected' = counter[RingOf(back)]
    /\ ppc' = "compare"
    /\ UNCHANGED <<target, free, ready, data, events, counter, back, current, pslot,
                   consumerVars>>

\* ... and memory.atomic.wait32 parks the worker if it is still the same.
CompareAndPark ==
    /\ ppc = "compare"
    /\ ppc' = IF counter[RingOf(back)] = expected THEN "parked" ELSE back
    /\ UNCHANGED <<free, ready, data, events, counter, workerVars, consumerVars>>

Worker ==
    \/ AcquireFree
    \/ WriteFrame
    \/ PushReady
    \/ PushEvent
    \/ LoadExpected
    \/ CompareAndPark

-----------------------------------------------------------------------------
(* Consumer operations that both targets use.  Storing a counter and        *)
(* notifying its waiter are two steps.                                      *)

Bumped(r) == [counter EXCEPT ![r] = @ + 1]

\* wake_one: a worker parked on the ring goes back to its attempt.
Notify(next) ==
    /\ ppc' = IF ppc = "parked" /\ RingOf(back) = waking THEN back ELSE ppc
    /\ cpc' = next
    /\ UNCHANGED <<free, ready, data, events, counter, workerVars,
                   cslot, waking, budget, frames, announced>>

PopReadySlot ==
    /\ ready # <<>>
    /\ ready' = Tail(ready)
    /\ cslot' = Head(ready)
    /\ counter' = Bumped("ready")
    /\ waking' = "ready"
    /\ UNCHANGED <<free, data, events, ppc, workerVars, budget, frames, announced>>

PopEvent ==
    /\ events # <<>>
    /\ events' = Tail(events)
    /\ announced' = Append(announced, Head(events)[1])
    /\ counter' = Bumped("event")
    /\ waking' = "event"
    /\ UNCHANGED <<free, ready, data, ppc, workerVars, cslot, frames>>

\* Read the frame number from the slot, then release_free the slot.
TakeFrame ==
    /\ frames' = Append(frames, data[cslot])
    /\ free' = Released(free, cslot)
    /\ counter' = Bumped("free")
    /\ waking' = "free"
    /\ UNCHANGED <<ready, data, events, ppc, workerVars, cslot, budget, announced>>

-----------------------------------------------------------------------------
(* The native consumer: one frame, its event, the comparison, the release.  *)

NativePop ==
    /\ ~Parks /\ cpc = "pop" /\ Len(frames) < FrameCount
    /\ PopReadySlot
    /\ cpc' = "event"

\* Spins until the event is there; the assertions compare event and slot.
NativeEvent ==
    /\ ~Parks /\ cpc = "event"
    /\ PopEvent
    /\ cpc' = IF Head(events) = <<data[cslot], cslot>> THEN "release" ELSE "mismatch"
    /\ UNCHANGED budget

NativeRelease ==
    /\ ~Parks /\ cpc = "release"
    /\ TakeFrame
    /\ cpc' = "pop"

-----------------------------------------------------------------------------
(* The wasm consumer: consume_frames.                                       *)

\* The drain after the loop ("last") pops frames the same way.
WebPop ==
    /\ Parks /\ cpc \in {"pop", "last"}
    /\ PopReadySlot
    /\ cpc' = IF cpc = "pop" THEN "notify_pop" ELSE "notify_last_pop"

WebRelease ==
    /\ Parks /\ cpc \in {"release", "last_release"}
    /\ TakeFrame
    /\ cpc' = IF cpc = "release" THEN "notify_free" ELSE "notify_last_free"

\* No frame is ready: turn to the events.
WebTurnToEvents ==
    /\ Parks /\ cpc \in {"pop", "last"}
    /\ ready = <<>>
    /\ cpc' = IF cpc = "pop" THEN "events" ELSE "last_events"
    /\ budget' = DrainBudget
    /\ UNCHANGED <<free, ready, data, events, counter, ppc, workerVars,
                   cslot, waking, frames, announced>>

WebEvent ==
    /\ Parks /\ cpc \in {"events", "last_events"}
    /\ cpc = "events" => budget > 0
    /\ PopEvent
    /\ budget' = IF cpc = "events" THEN budget - 1 ELSE budget
    /\ cpc' = IF cpc = "events" THEN "notify_event" ELSE "notify_last_event"

\* Budget spent or nothing left: yield to the browser and test the target.
WebEndTurn ==
    /\ Parks /\ cpc = "events"
    /\ events = <<>> \/ budget = 0
    /\ cpc' = IF Len(frames) < FrameCount THEN "pop" ELSE "last"
    /\ UNCHANGED <<free, ready, data, events, counter, ppc, workerVars,
                   cslot, waking, budget, frames, announced>>

WebReturn ==
    /\ Parks /\ cpc = "last_events"
    /\ events = <<>>
    /\ cpc' = "returned"
    /\ UNCHANGED <<free, ready, data, events, counter, ppc, workerVars,
                   cslot, waking, budget, frames, announced>>

AfterNotify ==
    [notify_pop |-> "release", notify_last_pop |-> "last_release",
     notify_free |-> "pop", notify_last_free |-> "last",
     notify_event |-> "events", notify_last_event |-> "last_events"]

WebNotify ==
    /\ cpc \in DOMAIN AfterNotify
    /\ Notify(AfterNotify[cpc])

Consumer ==
    \/ NativePop
    \/ NativeEvent
    \/ NativeRelease
    \/ WebPop
    \/ WebRelease
    \/ WebTurnToEvents
    \/ WebEvent
    \/ WebEndTurn
    \/ WebReturn
    \/ WebNotify

Next == Worker \/ Consumer

\* Both threads are scheduled; a parked worker is not.
Spec == Init /\ [][Next]_vars /\ WF_vars(Worker) /\ WF_vars(Consumer)

-----------------------------------------------------------------------------
(* Properties.                                                             *)

ConsumerTable ==
    {"pop", "event", "release", "mismatch", "last", "last_release", "events",
     "last_events", "returned"} \union DOMAIN AfterNotify

\* Shape of the state.
TypeOK ==
    /\ target \in Targets
    /\ \A s \in {free, ready} : Len(s) <= SlotCount /\ ToSet(s) \subseteq Slots
    /\ data \in [Slots -> Frames]
    /\ Len(events) <= EventCap /\ ToSet(events) \subseteq Frames \X Slots
    /\ counter \in [Waitable -> 0 .. FrameCount]
    /\ ppc \in {"acquire", "write", "ready", "event", "load", "compare", "parked"}
    /\ back \in {"acquire", "ready", "event"}
    /\ expected \in 0 .. FrameCount
    /\ current \in 0 .. FrameCount /\ pslot \in Slots
    /\ cpc \in ConsumerTable
    /\ cslot \in Slots /\ waking \in Waitable
    /\ budget \in 0 .. DrainBudget

Numbered(n) == [k \in 1 .. n |-> k - 1]

\* Frame and event of one turn of the native consumer belong together, and the
\* worker never finds the ready ring full.
PairsMatch ==
    /\ cpc # "mismatch"
    /\ ~ (ppc \in {"load", "compare", "parked"} /\ back = "ready")

\* Frames and announcements arrive complete and in order, whatever the order in
\* which the two queues are drained: no frame is overwritten before it is read,
\* and where the consumer pairs them they match.
InOrder ==
    /\ frames = Numbered(Len(frames))
    /\ announced = Numbered(Len(announced))
    /\ PairsMatch

\* Once the native consumer has all the frames, everything is back where it
\* was (assert_reconciliation).
Reconciled ==
    ~Parks /\ Len(frames) = FrameCount /\ ppc = "acquire" /\ cpc = "pop" =>
        Len(free) = SlotCount /\ ready = <<>> /\ events = <<>>

\* Every frame of the scenario is produced and drained.
AllDrained == <>(Len(frames) = FrameCount)

\* It is when the worker never sleeps, however often either side finds a ring
\* full or empty.
NativeAllDrained == target = "native" => AllDrained

\* consume_frames returns as many announcements as frames.
ReturnsAllEvents == cpc = "returned" => Len(announced) = Len(frames)
=============================================================================
