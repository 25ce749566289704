-------------------------------- MODULE MCPorts -------------------------------
(* The transport as its users see it, for TLC: the port between two        *)
(* threads, the frame pipeline and the endpoints of the services. None of  *)
(* them reads the state of another; a behaviour explores the one it        *)
(* started with while the others rest.                                     *)
EXTENDS Mailbox, FramePipeline, Endpoint

VARIABLE explored

portsVars == <<explored, mailboxVars, vars, endpointVars>>

Resting == {"mailbox", "frames", "endpoint"} \ {explored}

(* A pipeline at rest is one for the target that promises no completion.   *)
PortsInit ==
    /\ explored \in {"mailbox", "frames", "endpoint"}
    /\ MailboxInit /\ Init /\ EndpointInit
    /\ "frames" \in Resting => target = "wasm"
    /\ "endpoint" \in Resting => service = "kernel"

AtMailbox(A) == explored = "mailbox" /\ A /\ UNCHANGED <<explored, vars, endpointVars>>
AtFrames(A) == explored = "frames" /\ A /\ UNCHANGED <<explored, mailboxVars, endpointVars>>

MailboxStep == explored = "mailbox" /\ MailboxNext /\ UNCHANGED <<explored, vars, endpointVars>>
FramesStep == explored = "frames" /\ Next /\ UNCHANGED <<explored, mailboxVars, endpointVars>>
EndpointStep == explored = "endpoint" /\ EndpointNext /\ UNCHANGED <<explored, mailboxVars, vars>>

PortsNext == MailboxStep \/ FramesStep \/ EndpointStep

(* The fairness of FairMailboxSpec and of FramePipeline's Spec.            *)
PortsSpec ==
    /\ PortsInit /\ [][PortsNext]_portsVars
    /\ WF_portsVars(AtMailbox(Sender /\ spc # "idle"))
    /\ SF_portsVars(AtMailbox(TakeBegin))
    /\ WF_portsVars(AtMailbox(Receiver /\ rpc # "idle"))
    /\ WF_portsVars(AtFrames(Worker))
    /\ WF_portsVars(AtFrames(Consumer))
================================================================================
