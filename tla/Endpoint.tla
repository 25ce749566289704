------------------------------- MODULE Endpoint -------------------------------
(***************************************************************************)
(* A service behind the fabric: the endpoint of the scheduler, with the    *)
(* ports that TransportServices gives the service, and the engine that     *)
(* polls on the worker's side. Scheduler and worker interleave port by     *)
(* port, since each port has a lock. A port is the queue that MsgRing and  *)
(* Mailbox establish; its capacity is counted in records. The four         *)
(* services answer as they do in process: each command has its reports,    *)
(* kept in the queue of ServiceQueue. FabricApp has the sizes in bytes.    *)
(***************************************************************************)
EXTENDS Codecs, ServiceQueue

CONSTANTS
    RingCap,        \* records a command ring holds
    ReplyCap,       \* records the reply ring holds
    QueueCap,       \* reports a service queues
    PollBudget,     \* commands, and reports, of one poll (32)
    SendCap,        \* bound: commands submitted
    GroupsSent      \* groups that ticks and loads are for

ASSUME EndpointAssumption ==
    /\ RingCap \in Nat \ {0} /\ ReplyCap \in Nat \ {0} /\ QueueCap \in Nat \ {0}
    /\ PollBudget \in Nat \ {0} /\ SendCap \in Nat

Classes == {"Lossless", "Coalesce", "BestEffort"}
Outcomes == {"Accepted", "Coalesced", "Dropped", "WouldBlock"}

VARIABLES
    service,    \* whose endpoint this is
    ports,      \* class -> wire records waiting, a mailbox holding one at most
    replies,    \* the reply ring
    metrics,    \* port -> outcome -> how often it was recorded
    engine,     \* the worker: the stage of its poll ("idle", a class,
                \*   "reports"), its budget left, commands drained and reports
                \*   taken but not handed on
    reports,    \* the service's queue of reports
    shown,      \* GpuService::next_frame_id
    due,        \* history: class -> commands accepted and not drained
    owed,       \* history: reports in the reply ring, as the service made them
    drained     \* history: class -> commands the worker drained

endpointVars == <<service, ports, replies, metrics, engine, reports, shown,
                  due, owed, drained>>

(* ------------------------------- messages ------------------------------ *)

Pictures == {[size |-> "160x144", pixels |-> <<"picture">>, slot |-> <<>>],
             [size |-> "160x144", pixels |-> <<>>, slot |-> <<3, 1>>]}

(* Commands as the callers make them, with fields that differ from what    *)
(* decoding fills in.                                                      *)
Commands(s) ==
    CASE s = "kernel" ->
           [kind : {"Tick"}, group : GroupsSent, purpose : {"Display", "Exploration"}, budget : {2}]
           \cup [kind : {"LoadRom"}, group : GroupsSent, bytes : {"rom"}]
           \cup {[kind |-> "SetInputs", group |-> 1, lanes |-> 3, joypad |-> 5],
                 [kind |-> "Terminate", group |-> 1],
                 [kind |-> "Snapshot", group |-> 1],
                 [kind |-> "MemWindow", group |-> 1, space |-> "Oam", base |-> 2, len |-> 3],
                 [kind |-> "StepInstruction", group |-> 1, count |-> 2],
                 [kind |-> "StepFrame", group |-> 1]}
      [] s = "fs" -> [kind : {"Persist"}, path : {"manual-save", "auto"}, bytes : {"state"}]
      [] s = "gpu" -> [kind : {"UploadFrame"}, lane : {0, 1}, span : Pictures]
      [] s = "audio" -> [kind : {"Submit"}, span : {[frames |-> 2, slot |-> <<>>]}]

(* What of a command matters behind the port: no picture is drawn and no   *)
(* sound played there, and nobody reads how much of it was.                *)
Meant(cmd) == IF cmd.kind \in {"UploadFrame", "Submit"} THEN Keep(cmd, DOMAIN cmd \ {"span"}) ELSE cmd

(* KernelService::submit_policy, and those of the other services.          *)
ServicePolicy(cmd) ==
    CASE cmd.kind = "Persist" /\ cmd.path = "manual-save" -> "Lossless"
      [] cmd.kind = "Persist" /\ cmd.path # "manual-save" -> "Coalesce"
      [] cmd.kind \in {"UploadFrame", "Submit"} -> "Must"
      [] OTHER -> KernelClass(cmd)

Needed(cmd) ==
    CASE cmd.kind = "Tick" -> 2
      [] cmd.kind \in {"SetInputs", "Terminate"} -> 0
      [] cmd.kind = "StepFrame" -> 3
      [] OTHER -> 1

Picture(group, span) ==
    << [kind |-> "LaneFrame", group |-> group, lane |-> 1, id |-> 7, span |-> span],
       [kind |-> "TickDone", group |-> group, lanes |-> 2, cycles |-> 4] >>

Stepped(step) ==
    << [kind |-> "Stepped", step |-> step, cycles |-> 4, pc |-> 5, disasm |-> "op"] >>

(* The reports of a command that the service executes.                     *)
Answers(cmd, span) ==
    CASE cmd.kind = "Tick" -> Picture(cmd.group, span)
      [] cmd.kind = "LoadRom" -> << [kind |-> "RomLoaded", group |-> cmd.group, len |-> 9] >>
      [] cmd.kind \in {"SetInputs", "Terminate"} -> <<>>
      [] cmd.kind = "Snapshot" ->
           << [kind |-> "Snapshot", vm |-> [cpu |-> 1, ppu |-> 2, timers |-> 3, io |-> 4]] >>
      [] cmd.kind = "MemWindow" ->
           << [kind |-> "MemWindow", space |-> cmd.space, base |-> cmd.base, bytes |-> 6] >>
      [] cmd.kind = "StepInstruction" -> Stepped("Instruction")
      [] cmd.kind = "StepFrame" -> Picture(cmd.group, span) \o Stepped("Frame")
      [] cmd.kind = "Persist" -> << [kind |-> "Saved", path |-> cmd.path, ok |-> TRUE] >>
      [] cmd.kind = "UploadFrame" -> << [kind |-> "FrameShown", lane |-> cmd.lane, id |-> shown + 1] >>
      [] cmd.kind = "Submit" -> << [kind |-> "Played", frames |-> cmd.span.frames] >>

(* -------------------------------- ports -------------------------------- *)

(* The ports TransportServices::new gives each service.                    *)
HasPort(class) == class = "Lossless" \/ service = "kernel"

(* A bug: a mailbox is taken for a ring of one record.                     *)
PortOutcomePlain(class) ==
    CASE class = "Lossless" /\ Len(ports[class]) >= RingCap -> "WouldBlock"
      [] class = "BestEffort" /\ Len(ports[class]) >= RingCap -> "Dropped"
      [] OTHER -> "Accepted"

(* ProducerPort::try_send.                                                 *)
PortOutcome(class) ==
    CASE class = "Coalesce" /\ ports[class] # <<>> -> "Coalesced"
      [] class = "Lossless" /\ Len(ports[class]) >= RingCap -> "WouldBlock"
      [] class = "BestEffort" /\ Len(ports[class]) >= RingCap -> "Dropped"
      [] OTHER -> "Accepted"

Queued(seq, class, m) == IF class = "Coalesce" THEN <<m>> ELSE Append(seq, m)

Recorded(port, outcome) == [metrics EXCEPT ![port][outcome] = @ + 1]

(* ------------------------------- actions ------------------------------- *)

NewEngine == [stage |-> "idle", left |-> 0, commands |-> <<>>, outbox |-> <<>>]

EndpointInit ==
    /\ service \in Services
    /\ ports = [class \in Classes |-> <<>>] /\ replies = <<>>
    /\ metrics = [port \in Classes \cup {"replies"} |-> [o \in Outcomes |-> 0]]
    /\ engine = NewEngine
    /\ reports = <<>> /\ shown = 0
    /\ due = [class \in Classes |-> <<>>] /\ owed = <<>>
    /\ drained = [class \in Classes |-> 0]

Submissions == LET Count(class) == metrics[class]["Accepted"] + metrics[class]["Coalesced"]
                                   + metrics[class]["Dropped"] + metrics[class]["WouldBlock"]
               IN  Count("Lossless") + Count("Coalesce") + Count("BestEffort")

(* EndpointHandle::submit.                                                 *)
Submit ==
    /\ Submissions < SendCap
    /\ \E cmd \in Commands(service) :
         LET class == Class(service, cmd)
             outcome == PortOutcome(class)
             enters == outcome \in {"Accepted", "Coalesced"}
         IN  /\ HasPort(class)
             /\ metrics' = Recorded(class, outcome)
             /\ ports' = IF enters
                         THEN [ports EXCEPT ![class] = Queued(@, class, EncodeCmd(service, cmd))]
                         ELSE ports
             /\ due' = IF enters THEN [due EXCEPT ![class] = Queued(@, class, cmd)] ELSE due
    /\ UNCHANGED <<service, replies, engine, reports, shown, owed, drained>>

(* FabricServiceEngine::poll begins.                                       *)
BeginPoll ==
    /\ engine.stage = "idle"
    /\ engine' = [engine EXCEPT !.stage = "Lossless", !.left = PollBudget]
    /\ UNCHANGED <<service, ports, replies, metrics, reports, shown, due, owed, drained>>

(* The order in which drain_commands empties the ports.                    *)
NextStage(stage) ==
    CASE stage = "Lossless" -> "Coalesce"
      [] stage = "Coalesce" -> "BestEffort"
      [] stage = "BestEffort" -> "reports"

(* drain_port: what the budget allows is decoded, then executed.           *)
DrainPort ==
    /\ engine.stage \in Classes /\ engine.commands = <<>>
    /\ LET class == engine.stage
           n == Lesser(engine.left, Len(ports[class]))
           taken == SubSeq(ports[class], 1, n)
       IN  /\ ports' = [ports EXCEPT ![class] = Undrained(@, n)]
           /\ due' = [due EXCEPT ![class] = Undrained(@, n)]
           /\ drained' = [drained EXCEPT ![class] = @ + n]
           /\ engine' = [engine EXCEPT
                !.commands = [i \in 1 .. n |-> DecodeCmd(service, taken[i])],
                !.left = @ - n,
                !.stage = IF engine.left = n THEN "reports" ELSE NextStage(class)]
    /\ UNCHANGED <<service, replies, metrics, reports, shown, owed>>

(* The service's try_submit; what it refuses is lost.                      *)
ExecuteCommand ==
    /\ engine.commands # <<>>
    /\ \E span \in Pictures :
         LET cmd == Head(engine.commands)
             policy == ServicePolicy(cmd)
             executes == Executes(Admission(policy, reports, QueueCap, Needed(cmd)))
         IN  /\ reports' = Kept(policy, reports, QueueCap, Needed(cmd))
                             \o (IF executes THEN Answers(cmd, span) ELSE <<>>)
             /\ shown' = IF executes /\ cmd.kind = "UploadFrame" THEN shown + 1 ELSE shown
    /\ engine' = [engine EXCEPT !.commands = Tail(@)]
    /\ UNCHANGED <<service, ports, replies, metrics, due, owed, drained>>

TakeServiceReports ==
    /\ engine.stage = "reports" /\ engine.commands = <<>> /\ engine.outbox = <<>>
    /\ reports # <<>>
    /\ engine' = [engine EXCEPT !.stage = "publish", !.outbox = Drained(reports, PollBudget)]
    /\ reports' = Undrained(reports, PollBudget)
    /\ UNCHANGED <<service, ports, replies, metrics, shown, due, owed, drained>>

(* publish_report: what does not fit the reply ring is lost.               *)
PublishReport ==
    /\ engine.outbox # <<>>
    /\ LET rep == Head(engine.outbox)
           fits == Len(replies) < ReplyCap
       IN  /\ metrics' = Recorded("replies", IF fits THEN "Accepted" ELSE "WouldBlock")
           /\ replies' = IF fits THEN Append(replies, EncodeRep(service, rep)) ELSE replies
           /\ owed' = IF fits THEN Append(owed, rep) ELSE owed
    /\ engine' = [engine EXCEPT !.outbox = Tail(@)]
    /\ UNCHANGED <<service, ports, reports, shown, due, drained>>

EndPoll ==
    /\ engine.commands = <<>> /\ engine.outbox = <<>>
    /\ engine.stage = "publish" \/ (engine.stage = "reports" /\ reports = <<>>)
    /\ engine' = NewEngine
    /\ UNCHANGED <<service, ports, replies, metrics, reports, shown, due, owed, drained>>

(* EndpointHandle::drain_reports.                                          *)
DrainReports ==
    /\ replies # <<>>
    /\ replies' = <<>> /\ owed' = <<>>
    /\ UNCHANGED <<service, ports, metrics, engine, reports, shown, due, drained>>

EndpointNext ==
    \/ Submit \/ BeginPoll \/ DrainPort \/ ExecuteCommand \/ TakeServiceReports
    \/ PublishReport \/ EndPoll \/ DrainReports

EndpointSpec == EndpointInit /\ [][EndpointNext]_endpointVars

(* ------------------------------ properties ----------------------------- *)

(* What the world makes of a report: the group and the cycles of a tick    *)
(* are not read.                                                           *)
Read(rep) ==
    Keep(rep, DOMAIN rep \ (CASE rep.kind = "TickDone" -> {"group", "lanes", "cycles"}
                              [] rep.kind \in {"LaneFrame", "RomLoaded"} -> {"group"}
                              [] OTHER -> {}))

(* Commands and reports pass a port in the order they were accepted, each  *)
(* of them once, and come out as they went in, in all that the one who     *)
(* gets them reads; a mailbox holds the last one accepted. The scheduler   *)
(* sends ticks and loads to group 0 only.                                  *)
MessagesIntact ==
    /\ \A class \in Classes :
         /\ Len(ports[class]) = Len(due[class])
         /\ \A i \in DOMAIN due[class] :
              Meant(DecodeCmd(service, ports[class][i])) = Meant(due[class][i])
    /\ Len(replies) = Len(owed)
    /\ \A i \in DOMAIN owed : Read(DecodeRep(service, replies[i])) = Read(owed[i])

(* What the submitter was told is what happens: the commands the worker    *)
(* drains from a port and those that wait are the accepted ones, and a     *)
(* command that was accepted is lost exactly to one that was coalesced.    *)
OutcomesExact ==
    \A class \in Classes :
      metrics[class]["Accepted"] = drained[class] + Len(ports[class])

(* The statements below do not hold of the code.                           *)

(* A coalesced command displaces pending work of its own kind.             *)
CoalescedSameKind ==
    [][metrics'["Coalesce"]["Coalesced"] > metrics["Coalesce"]["Coalesced"]
       => due'["Coalesce"][1].kind = due["Coalesce"][1].kind]_endpointVars

(* A command is executed for the group it was submitted for.               *)
GroupsKept ==
    service = "kernel" =>
      \A class \in Classes : \A i \in DOMAIN due[class] :
        DecodeCmd(service, ports[class][i]).group = due[class][i].group
===============================================================================
