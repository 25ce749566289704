------------------------------ MODULE MCDevices -------------------------------
(* The devices behind the bus for TLC. None of them reads the state of     *)
(* another; they share IF, of which each sets bits of its own, and the     *)
(* cycles Core::consume_cycles gives to all. So each is explored by itself *)
(* while the others rest: a behaviour is one of the device it started with. *)
EXTENDS Timers, Ppu, Serial, Bus

VARIABLE device

deviceVars == <<device, t, left, p, due, link, shifting, board, saved, wanted>>

(* The weights of two clock selects.                                       *)
SmallWeight == [c \in {0, 1} |-> IF c = 0 THEN 16 ELSE 8]

DevicesInit ==
    /\ device \in {"timers", "ppu", "serial", "bus"}
    /\ Init /\ PpuInit /\ SerialInit /\ BusInit

TimersStep == device = "timers" /\ Next /\ UNCHANGED <<ppuVars, serialVars, busVars>>
PpuStep == device = "ppu" /\ PpuNext /\ UNCHANGED <<vars, serialVars, busVars>>
SerialStep == device = "serial" /\ SerialNext /\ UNCHANGED <<vars, ppuVars, busVars>>
BusStep == device = "bus" /\ BusNext /\ UNCHANGED <<vars, ppuVars, serialVars>>

DevicesNext ==
    (TimersStep \/ PpuStep \/ SerialStep \/ BusStep) /\ UNCHANGED device

DevicesSpec == DevicesInit /\ [][DevicesNext]_deviceVars
=============================================================================
