---------------------------------- MODULE Bus ----------------------------------
(***************************************************************************)
(* The memory map of kernel-core/src/bus.rs and mmu.rs: the ROM with one   *)
(* switchable bank, the boot program over its start, memory and its echo,  *)
(* OAM and its DMA, IE, and the joypad register. A region of the map is    *)
(* one address here; VRAM, HRAM and IE are stored and restored like work   *)
(* RAM and left out. Instances load ROMs of several sizes, and states are  *)
(* saved and restored. The other registers are in Timers, Ppu and Serial;  *)
(* BusSimd is one such bus per lane, and all lanes are given the same.     *)
(***************************************************************************)
EXTENDS Integers, FiniteSets

CONSTANTS
    BankCounts,     \* sizes of the ROMs, in banks
    BankNumbers,    \* values written to the bank register, modulo 32
    Keys,           \* keys of a row of the joypad (4)
    MemoryValues,   \* values programs write to memory
    BootPresent     \* whether the bus has a boot program

ASSUME BusAssumption ==
    /\ BankCounts \subseteq Nat \ {0} /\ BankCounts # {}
    /\ BankNumbers \subseteq 0 .. 31 /\ BankNumbers # {}
    /\ IsFiniteSet(Keys) /\ 0 \in MemoryValues /\ MemoryValues \subseteq 0 .. 255
    /\ BootPresent \in BOOLEAN

Rows == {"dpad", "buttons"}     \* JOYP bits 4 and 5
Memory == {"wram", "oam"}
OpenBus == 255

VARIABLES
    board,      \* the bus: BusScalar's fields, as
                \*   banks, bank      the ROM and rom_bank
                \*   overlay          boot_rom_enabled
                \*   memory           region -> its byte
                \*   latch            row -> the keys whose bit is 1
                \*   rows             rows whose select bit is 1 (joyp_select)
                \*   joyp             the same bits in the register block
    saved,      \* a captured CoreState, or None
    wanted      \* history: the bank number in force

busVars == <<board, saved, wanted>>

NotSaved == [taken |-> FALSE]

(* ------------------------------- reading ------------------------------- *)

RomByte(i) == 64 + i        \* the first byte of bank i
BootByte == 32

RomAt(b, i) == IF i < b.banks THEN RomByte(i) ELSE OpenBus

(* The low bits of JOYP that read as 1: !lo & 0x0F.                        *)
JoypadBits(b) ==
    LET unselected(row) == row \in b.rows
        low == {k \in Keys : \A row \in Rows : unselected(row) \/ k \in b.latch[row]}
    IN  Keys \ low

(* read8_scalar, JOYP apart: addresses that show ROM, memory, its echo or  *)
(* nothing.                                                                *)
ReadByte(b, region) ==
    CASE region = "start" -> IF b.overlay THEN BootByte ELSE RomAt(b, 0)
      [] region = "rom" -> RomAt(b, 0)
      [] region = "banked" -> RomAt(b, b.bank)
      [] region = "echo" -> b.memory["wram"]
      [] region \in Memory -> b.memory[region]
      [] region = "bootoff" -> IF b.overlay THEN 0 ELSE 1
      [] region \in {"cartridge", "unusable"} -> OpenBus

Readable == {"start", "rom", "banked", "echo", "bootoff", "cartridge", "unusable"} \cup Memory

(* ------------------------------- writing ------------------------------- *)

(* set_rom_bank.                                                           *)
BankSet(b, number) ==
    LET bank == number % b.banks
    IN  [b EXCEPT !.bank = IF b.banks > 1 /\ bank = 0 THEN 1 ELSE bank]

Stores(b, region, value) == [b EXCEPT !.memory[region] = value]

(* OAM DMA: the page named by value is read as the CPU would read it.      *)
Transferred(b, region) == Stores(b, "oam", ReadByte(b, region))

RowsWritten(b, rows) == [b EXCEPT !.rows = rows, !.joyp = rows]

(* ------------------------------ components ----------------------------- *)

NoKeyPressed == [row \in Rows |-> Keys]
Cleared == [region \in Memory |-> 0]

(* A bug: the bank of the former ROM stays selected.                       *)
RomReplacedOnly(b, banks) ==
    [b EXCEPT !.banks = banks, !.overlay = BootPresent, !.rows = Rows, !.latch = NoKeyPressed]

(* BusScalar::load_rom.                                                    *)
RomReplaced(b, banks) ==
    BankSet([b EXCEPT !.banks = banks, !.overlay = BootPresent, !.rows = Rows,
                      !.latch = NoKeyPressed], 1)

(* BusScalar::reset_memory; the register block is cleared, JOYP included.  *)
MemoryReset(b) ==
    BankSet([b EXCEPT !.memory = Cleared, !.rows = Rows, !.joyp = {},
                      !.latch = NoKeyPressed, !.overlay = BootPresent], 1)

(* What Core::reset_post_boot writes to the bus: FF50.                     *)
PostBootBus(b) == [b EXCEPT !.overlay = FALSE]

(* CoreState::from: the part of the bus a state captures.                  *)
Captured(b) == [taken |-> TRUE, memory |-> b.memory, joyp |-> b.joyp]

(* Core::load_state.                                                       *)
Restored(b, s) == [b EXCEPT !.memory = s.memory, !.joyp = s.joyp, !.rows = s.joyp]

(* ------------------------------- actions ------------------------------- *)

(* BusScalar::new, then the reset of an instance without a ROM of its own. *)
BusInit ==
    /\ \E banks \in BankCounts :
         LET new == BankSet([banks |-> banks, bank |-> 1, overlay |-> BootPresent,
                             memory |-> Cleared, latch |-> NoKeyPressed,
                             rows |-> Rows, joyp |-> {}], 1)
         IN  board = IF BootPresent THEN MemoryReset(new) ELSE PostBootBus(new)
    /\ saved = NotSaved
    /\ wanted = 1

(* write8_scalar: the bank register, memory and its echo, DMA, FF50.       *)
WriteBank ==
    \E number \in BankNumbers :
      /\ board' = BankSet(board, number)
      /\ wanted' = number
      /\ UNCHANGED saved

WriteMemory ==
    /\ \/ \E region \in Memory, value \in MemoryValues : board' = Stores(board, region, value)
       \/ \E value \in MemoryValues : board' = Stores(board, "wram", value)   \* the echo
       \/ \E region \in Readable : board' = Transferred(board, region)
    /\ UNCHANGED <<saved, wanted>>

LeaveBoot ==
    /\ board.overlay
    /\ board' = [board EXCEPT !.overlay = FALSE]
    /\ UNCHANGED <<saved, wanted>>

WriteJoyp ==
    /\ \E rows \in SUBSET Rows : board' = RowsWritten(board, rows)
    /\ UNCHANGED <<saved, wanted>>

(* KernelCmd::SetInputs, Instance::set_inputs.                             *)
SetInputs ==
    /\ \E latch \in [Rows -> SUBSET Keys] : board' = [board EXCEPT !.latch = latch]
    /\ UNCHANGED <<saved, wanted>>

(* Instance::load_rom: with a boot program and a ROM that is not blank the *)
(* console starts from power-on, otherwise behind the boot.                *)
InsertRom ==
    \E banks \in BankCounts, blank \in BOOLEAN :
      /\ board' = IF BootPresent /\ ~blank
                  THEN MemoryReset(RomReplaced(board, banks))
                  ELSE PostBootBus(RomReplaced(board, banks))
      /\ wanted' = 1
      /\ UNCHANGED saved

Save ==
    /\ saved' = Captured(board)
    /\ UNCHANGED <<board, wanted>>

Restore ==
    /\ saved.taken
    /\ board' = Restored(board, saved)
    /\ UNCHANGED <<saved, wanted>>

BusNext ==
    \/ WriteBank \/ WriteMemory \/ LeaveBoot \/ WriteJoyp
    \/ SetInputs \/ InsertRom \/ Save \/ Restore

BusSpec == BusInit /\ [][BusNext]_busVars

(* ------------------------------ properties ----------------------------- *)

(* The switchable area shows the bank the program asked for, as far as the *)
(* ROM has it, and never bank 0 of a ROM with more than one, whatever ROM  *)
(* was inserted behind which, and a reset or a load starts with bank 1.    *)
BankMapped ==
    /\ ReadByte(board, "banked") # OpenBus
    /\ board.banks > 1 =>
         board.bank = (IF wanted % board.banks = 0 THEN 1 ELSE wanted % board.banks)

(* The statements below do not hold of the code.                           *)

(* A bit of JOYP reads 0 exactly if a key of a selected row is held; the   *)
(* rows keep their keys active-low.                                        *)
JoypadActiveLow ==
    board.rows # Rows =>
      \A k \in Keys :
        k \in JoypadBits(board) <=> ~ \E row \in Rows \ board.rows : k \notin board.latch[row]

(* The keys the host holds stay held when a ROM is loaded.                 *)
InputsKept == [][InsertRom => board'.latch = board.latch]_busVars

(* To restore the state a machine is in changes nothing.                   *)
RestoreExact == [][Restore /\ saved = Captured(board) => board' = board]_busVars
================================================================================
