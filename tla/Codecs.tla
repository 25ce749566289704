-------------------------------- MODULE Codecs --------------------------------
(***************************************************************************)
(* transport-codecs: how commands and reports become records of the wire   *)
(* and back. A message is a record with its kind and its fields; a wire    *)
(* record keeps some of the fields, and decoding fills in the others. Two  *)
(* archived fields that nobody reads (purpose and budget of a TickDone,    *)
(* frame_id of an upload) are left out. An optional slot span is a         *)
(* sequence, empty for None. Paths and disassembly are opaque; lengths fit *)
(* their 32 bits.                                                          *)
(***************************************************************************)
EXTENDS Integers, Sequences

Services == {"kernel", "fs", "gpu", "audio"}

Keep(m, fields) == [f \in fields \cup {"kind"} |-> m[f]]

(* What decoding fills in for the fields that are not sent (@@ of TLC,     *)
(* which a proof cannot expand).                                           *)
Filled(m, defaults) ==
    [f \in DOMAIN m \cup DOMAIN defaults |-> IF f \in DOMAIN m THEN m[f] ELSE defaults[f]]

(* ------------------------------- port classes --------------------------- *)

(* DebugCmd::submit_policy.                                                *)
DebugPolicy(kind) == IF kind = "Snapshot" THEN "Coalesce" ELSE "Lossless"

(* class_from_policy.                                                      *)
ClassFromPolicy(policy) == IF policy = "Must" THEN "Lossless" ELSE policy

(* default_kernel_policy.                                                  *)
KernelClass(cmd) ==
    CASE cmd.kind = "Tick" /\ cmd.purpose = "Display" -> "Coalesce"
      [] cmd.kind = "Tick" /\ cmd.purpose = "Exploration" -> "BestEffort"
      [] cmd.kind \in {"LoadRom", "SetInputs", "Terminate"} -> "Lossless"
      [] OTHER -> ClassFromPolicy(DebugPolicy(cmd.kind))

Class(service, cmd) == IF service = "kernel" THEN KernelClass(cmd) ELSE "Lossless"

(* ------------------------------ slot spans ------------------------------ *)

(* encode_slot_span, encode_audio_slot_span.                               *)
EncodedSlot(slot) == IF slot = <<>> THEN <<0, 0>> ELSE slot

(* The other way: a span of no slots is no span.                           *)
DecodedSlot(pair) == IF pair[2] = 0 THEN <<>> ELSE pair

EmptyFrame == [size |-> "none", pixels |-> <<>>, slot |-> <<>>]

(* frame_span_from_parts: the size is not sent, every frame is 160 by 144. *)
FrameOf(r) == [size |-> "160x144", pixels |-> r.pixels, slot |-> DecodedSlot(r.slot)]

EmptyAudio == [frames |-> 0, slot |-> <<>>]

(* audio_span_from_slot: the samples are not sent.                         *)
AudioOf(r) == [EmptyAudio EXCEPT !.slot = DecodedSlot(r.slot)]

(* ------------------------------- commands ------------------------------- *)

(* KernelCodec::encode_cmd.                                                *)
KernelCmdFields ==
    [Tick      |-> {"purpose", "budget"},
     LoadRom   |-> {"bytes"},
     SetInputs |-> {"group", "lanes", "joypad"},
     Terminate |-> {"group"}]

(* encode_debug_cmd, and decode_debug_cmd, which finds the same fields.    *)
DebugCmdFields ==
    [Snapshot        |-> {"group"},
     MemWindow       |-> {"group", "space", "base", "len"},
     StepInstruction |-> {"group", "count"},
     StepFrame       |-> {"group"}]

EncodedKernelCmd(cmd) ==
    Keep(cmd, IF cmd.kind \in DOMAIN KernelCmdFields THEN KernelCmdFields[cmd.kind]
                                                     ELSE DebugCmdFields[cmd.kind])

(* A bug: the group of the joypad state is replaced like that of a tick.   *)
DecodedKernelCmdGrouped(r) ==
    IF r.kind \in {"Tick", "LoadRom", "SetInputs"} THEN Filled([group |-> 0], r) ELSE r

(* KernelCodec::decode_cmd, decode_debug_cmd.                              *)
DecodedKernelCmd(r) == IF r.kind \in {"Tick", "LoadRom"} THEN Filled(r, [group |-> 0]) ELSE r

(* FsCodec, GpuCodec and AudioCodec: of a picture and of samples only the  *)
(* lane and the number of frames are sent, and that number is not read.    *)
EncodedFsCmd(cmd) == Keep(cmd, {"path", "bytes"})
DecodedFsCmd(r) == r
EncodedGpuCmd(cmd) == Keep(cmd, {"lane"})
DecodedGpuCmd(r) == Filled(r, [span |-> EmptyFrame])
EncodedAudioCmd(cmd) == [kind |-> cmd.kind, frames |-> cmd.span.frames]
DecodedAudioCmd(r) == [kind |-> r.kind, span |-> EmptyAudio]

EncodeCmd(service, cmd) ==
    CASE service = "kernel" -> EncodedKernelCmd(cmd)
      [] service = "fs" -> EncodedFsCmd(cmd)
      [] service = "gpu" -> EncodedGpuCmd(cmd)
      [] service = "audio" -> EncodedAudioCmd(cmd)

DecodeCmd(service, r) ==
    CASE service = "kernel" -> DecodedKernelCmd(r)
      [] service = "fs" -> DecodedFsCmd(r)
      [] service = "gpu" -> DecodedGpuCmd(r)
      [] service = "audio" -> DecodedAudioCmd(r)

(* -------------------------------- reports ------------------------------- *)

(* encode_snapshot, decode_snapshot: CPU, PPU, timers, and registers.      *)
EncodedSnapshot(vm) == [cpu |-> vm.cpu, ppu |-> vm.ppu, timers |-> vm.timers, io |-> vm.io]

(* encode_debug_rep, and decode_debug_rep, which finds the same fields.    *)
EncodedDebugRep(rep) ==
    CASE rep.kind = "Snapshot" -> [kind |-> rep.kind, vm |-> EncodedSnapshot(rep.vm)]
      [] rep.kind = "MemWindow" -> Keep(rep, {"space", "base", "bytes"})
      [] rep.kind = "Stepped" -> Keep(rep, {"step", "cycles", "pc", "disasm"})

(* KernelCodec::encode_rep; it refuses thumbnails, which nobody reports.   *)
EncodedKernelRep(rep) ==
    CASE rep.kind = "TickDone" -> Keep(rep, {})
      [] rep.kind = "LaneFrame" ->
           Filled(Keep(rep, {"lane", "id"}),
                  [slot |-> EncodedSlot(rep.span.slot), pixels |-> rep.span.pixels])
      [] rep.kind = "RomLoaded" -> Keep(rep, {"len"})
      [] rep.kind = "AudioReady" -> Filled(Keep(rep, {"group"}), [slot |-> EncodedSlot(rep.span.slot)])
      [] OTHER -> EncodedDebugRep(rep)

(* KernelCodec::decode_rep.                                                *)
DecodedKernelRep(r) ==
    CASE r.kind = "TickDone" -> Filled(r, [group |-> 0, lanes |-> 0, cycles |-> 0])
      [] r.kind = "LaneFrame" -> Filled(Keep(r, {"lane", "id"}), [group |-> 0, span |-> FrameOf(r)])
      [] r.kind = "RomLoaded" -> Filled(r, [group |-> 0])
      [] r.kind = "AudioReady" -> Filled(Keep(r, {"group"}), [span |-> AudioOf(r)])
      [] OTHER -> r

(* FsCodec, GpuCodec and AudioCodec send their reports whole.              *)
EncodedOtherRep(rep) ==
    CASE rep.kind = "Saved" -> Keep(rep, {"path", "ok"})
      [] rep.kind = "FrameShown" -> Keep(rep, {"lane", "id"})
      [] rep.kind = "Played" -> Keep(rep, {"frames"})
      [] rep.kind = "Underrun" -> Keep(rep, {})

EncodeRep(service, rep) ==
    IF service = "kernel" THEN EncodedKernelRep(rep) ELSE EncodedOtherRep(rep)

DecodeRep(service, r) == IF service = "kernel" THEN DecodedKernelRep(r) ELSE r
===============================================================================
