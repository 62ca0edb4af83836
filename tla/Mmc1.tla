------------------------------- MODULE Mmc1 -------------------------------
(***************************************************************************)
(* The MMC1 cartridge (emulator/src/cartridge/mappers/mmc1.rs): the PRG     *)
(* chip and the CHR chip, each with a load register of its own that decodes *)
(* the same writes, and the timing of the CPU's writes to them.             *)
(*                                                                          *)
(* A step is one CPU cycle.  Of a byte only bits 0 and 7 reach a load       *)
(* register; ROM offsets are counted in banks.  What the RAM and the ROM    *)
(* hold is left out.                                                        *)
(***************************************************************************)
EXTENDS Naturals, Sequences

CONSTANTS
    PrgBanks,  \* prg_rom_16kb_units of the header
    ChrBanks   \* 4KB banks of CHR ROM or RAM: two to each unit of the header

ASSUME RomAssumption ==
    /\ PrgBanks \in Nat /\ PrgBanks >= 1
    /\ ChrBanks \in Nat /\ ChrBanks >= 2 /\ ChrBanks % 2 = 0

VARIABLES
    prg_load, chr_load,  \* the load registers of the two chips
    prg, chr,            \* what the chips map
    cpu,                 \* where the CPU is, as far as writes are concerned
    address              \* of a read-modify-write in progress

mmc1_vars == <<prg_load, chr_load, prg, chr, cpu, address>>

\* The areas of $4020-$FFFF that are decoded: RAM, four registers, anything else.
Areas == {"other", "ram", "control", "chr0", "chr1", "prg"}
Registers == {"control", "chr0", "chr1", "prg"}

\* Bytes, by bits 0 and 7.
Bytes == {0, 1, 128}

\* recent: last_write_cycle is the cycle before this one.
LoadRegister == [shift_writes : 0..4, value : 0..15, recent : BOOLEAN]
NewLoadRegister == [shift_writes |-> 0, value |-> 0, recent |-> FALSE]

PrgModes == {"Switch32KB", "FixFirst16KB", "FixLast16KB"}
ChrModes == {"Switch8KB", "Switch4KB"}
MirroringModes == {"OneScreenLowerBank", "OneScreenUpperBank", "Vertical", "Horizontal"}

\* The 16KB banks in prg_rom: PrgBaseData::new doubles a ROM of one.
RomSize == IF PrgBanks = 1 THEN 2 ELSE PrgBanks

PrgState == [prg_bank_mode : PrgModes, bank : 0..PrgBanks - 1, window0 : Nat, window1 : Nat,
             prg_ram_enabled : BOOLEAN]
ChrState == [chr_bank_mode : ChrModes, bank0 : 0..ChrBanks - 1, bank1 : 0..ChrBanks - 1,
             window0 : Nat, window1 : Nat, mirroring_mode : MirroringModes]

LoadOK(load) == load \in LoadRegister /\ load.value < 2 ^ load.shift_writes

Mmc1TypeOK ==
    /\ LoadOK(prg_load) /\ LoadOK(chr_load)
    /\ prg \in PrgState /\ chr \in ChrState
    /\ cpu \in {"running", "fetching", "dummy", "writing"}
    /\ address \in Areas

Mmc1Init ==
    /\ prg_load = NewLoadRegister /\ chr_load = NewLoadRegister
    /\ prg = [prg_bank_mode |-> "FixLast16KB", bank |-> 0, window0 |-> 0,
              window1 |-> RomSize - 1, prg_ram_enabled |-> TRUE]
    /\ chr = [chr_bank_mode |-> "Switch4KB", bank0 |-> 0, bank1 |-> 1, window0 |-> 0,
              window1 |-> 1, mirroring_mode |-> "OneScreenLowerBank"]
    /\ cpu = "running"
    /\ address = "other"

-----------------------------------------------------------------------------
(* The load register *)

IsReset(byte) == byte >= 128

Emptied(load) == [load EXCEPT !.shift_writes = 0, !.value = 0]

\* Five bits, the new one on top.
ShiftedIn(load, byte) == load.value + (byte % 2) * 2 ^ load.shift_writes

\* A byte below 128 written to a register.
Shifted(load, byte) ==
    IF load.shift_writes = 4
    THEN Emptied(load)
    ELSE [load EXCEPT !.shift_writes = load.shift_writes + 1, !.value = ShiftedIn(load, byte)]

\* Faulty: one write too many is waited for.
LoadAfterSixWrites(load, area, byte) ==
    IF area \in Registers /\ ~IsReset(byte)
    THEN [load EXCEPT !.shift_writes = (load.shift_writes + 1) % 6, !.recent = TRUE]
    ELSE [load EXCEPT !.recent = TRUE]

\* Faulty: a reset leaves the bits that were shifted in before it.
ResetKeepsBits(load, area, byte) ==
    CASE area \notin Registers \/ IsReset(byte) -> load
      [] OTHER -> Shifted(load, byte)

\* A write that is not skipped: to another area, a reset, or a bit.
Taken(load, area, byte) ==
    CASE area \notin Registers -> load
      [] area \in Registers /\ IsReset(byte) -> Emptied(load)
      [] OTHER -> Shifted(load, byte)

\* The load register after a write: a write in the cycle after another is skipped.
AfterWrite(load, area, byte) ==
    IF load.recent THEN [load EXCEPT !.recent = FALSE]
    ELSE [Taken(load, area, byte) EXCEPT !.recent = TRUE]

Resets(load, area, byte) == ~load.recent /\ area \in Registers /\ IsReset(byte)

\* The fifth write.
Loads(load, area, byte) ==
    /\ ~load.recent /\ area \in Registers /\ ~IsReset(byte)
    /\ load.shift_writes = 4

-----------------------------------------------------------------------------
(* The PRG chip *)

PrgMode(value) ==
    CASE (value \div 4) % 4 \in {0, 1} -> "Switch32KB"
      [] (value \div 4) % 4 = 2 -> "FixFirst16KB"
      [] (value \div 4) % 4 = 3 -> "FixLast16KB"

\* update_bank_offsets, in banks of 16KB: Switch32KB counts banks of 32KB.
MapPrg(p) ==
    CASE p.prg_bank_mode = "FixFirst16KB" -> [p EXCEPT !.window0 = 0, !.window1 = p.bank]
      [] p.prg_bank_mode = "FixLast16KB" ->
            [p EXCEPT !.window0 = p.bank, !.window1 = RomSize - 1]
      [] p.prg_bank_mode = "Switch32KB" ->
            [p EXCEPT !.window0 = 2 * p.bank, !.window1 = 2 * p.bank + 1]

UpdatePrgControl(p, value) == MapPrg([p EXCEPT !.prg_bank_mode = PrgMode(value)])

UpdatePrgBank(p, value) ==
    MapPrg([p EXCEPT
        !.prg_ram_enabled = value < 16,
        !.bank = (IF p.prg_bank_mode = "Switch32KB" THEN (value % 16) \div 2 ELSE value % 16)
                 % PrgBanks])

\* MMC1PrgChip::write_byte.
PrgWrite(area, byte) ==
    /\ prg_load' = AfterWrite(prg_load, area, byte)
    /\ prg' = CASE Resets(prg_load, area, byte) -> UpdatePrgControl(prg, 12)
                [] Loads(prg_load, area, byte) /\ area = "control" ->
                      UpdatePrgControl(prg, ShiftedIn(prg_load, byte))
                [] Loads(prg_load, area, byte) /\ area = "prg" ->
                      UpdatePrgBank(prg, ShiftedIn(prg_load, byte))
                [] OTHER -> prg

-----------------------------------------------------------------------------
(* The CHR chip *)

ChrMode(value) == IF (value \div 16) % 2 = 0 THEN "Switch8KB" ELSE "Switch4KB"

Mirroring(value) ==
    CASE value % 4 = 0 -> "OneScreenLowerBank"
      [] value % 4 = 1 -> "OneScreenUpperBank"
      [] value % 4 = 2 -> "Vertical"
      [] value % 4 = 3 -> "Horizontal"

\* update_bank_offsets, in banks of 4KB.
MapChr(c) ==
    [c EXCEPT !.window0 = c.bank0,
              !.window1 = IF c.chr_bank_mode = "Switch4KB" THEN c.bank1 ELSE c.bank0 + 1]

UpdateChrControl(c, value) ==
    MapChr([c EXCEPT !.mirroring_mode = Mirroring(value), !.chr_bank_mode = ChrMode(value)])

ChrBank(c, value) ==
    (IF c.chr_bank_mode = "Switch4KB" THEN value ELSE value - (value % 2)) % ChrBanks

UpdateChrBank0(c, value) == MapChr([c EXCEPT !.bank0 = ChrBank(c, value)])
UpdateChrBank1(c, value) == MapChr([c EXCEPT !.bank1 = ChrBank(c, value)])

\* MMC1ChrChip::cpu_write_byte.
ChrWrite(area, byte) ==
    /\ chr_load' = AfterWrite(chr_load, area, byte)
    /\ LET value == ShiftedIn(chr_load, byte)
       IN  chr' = CASE Resets(chr_load, area, byte) -> UpdateChrControl(chr, 12)
                    [] Loads(chr_load, area, byte) /\ area = "control" ->
                          UpdateChrControl(chr, value)
                    [] Loads(chr_load, area, byte) /\ area = "chr0" -> UpdateChrBank0(chr, value)
                    [] Loads(chr_load, area, byte) /\ area = "chr1" -> UpdateChrBank1(chr, value)
                    [] OTHER -> chr

-----------------------------------------------------------------------------
(* The CPU's cycles *)

\* Cpu::write_byte gives every write to both chips.
CartridgeWrite(area, byte) == PrgWrite(area, byte) /\ ChrWrite(area, byte)

\* A cycle without a write.
NoWrite ==
    /\ prg_load' = [prg_load EXCEPT !.recent = FALSE]
    /\ chr_load' = [chr_load EXCEPT !.recent = FALSE]
    /\ UNCHANGED <<prg, chr>>

\* Instructions that write nothing to the cartridge, and the cycles before a write.
Run == cpu = "running" /\ NoWrite /\ UNCHANGED <<cpu, address>>

\* A store, in its last cycle.
Store ==
    /\ cpu = "running"
    /\ \E area \in Areas, byte \in Bytes : CartridgeWrite(area, byte)
    /\ cpu' = "fetching"
    /\ UNCHANGED address

\* A read-modify-write: the dummy write when it executes,
Execute ==
    /\ cpu = "running"
    /\ \E area \in Areas, byte \in Bytes :
        CartridgeWrite(area, byte) /\ address' = area
    /\ cpu' = "dummy"

\* Faulty: the result is written one cycle after the dummy write.
DummyWritesAtOnce ==
    /\ cpu = "dummy"
    /\ \E byte \in Bytes : CartridgeWrite(address, byte)
    /\ cpu' = "fetching"
    /\ address' = "other"

\* one cycle of WritingResult without a write,
Dummy ==
    /\ cpu = "dummy"
    /\ NoWrite
    /\ cpu' = "writing"
    /\ UNCHANGED address

\* and the result.
WriteResult ==
    /\ cpu = "writing"
    /\ \E byte \in Bytes : CartridgeWrite(address, byte)
    /\ cpu' = "fetching"
    /\ address' = "other"

\* After a write comes a cycle of FetchOpcode.
Fetch == cpu = "fetching" /\ NoWrite /\ cpu' = "running" /\ UNCHANGED address

Mmc1Next == Run \/ Store \/ Execute \/ Dummy \/ WriteResult \/ Fetch

Mmc1Spec == Mmc1Init /\ [][Mmc1Next]_mmc1_vars

-----------------------------------------------------------------------------
(* Properties *)

\* The two chips, which decode the same writes with code of their own, always have the same
\* bits in their load registers, whatever was written where (mmc1.rs:151 and :284).
ChipsAgree == prg_load = chr_load

\* Together the chips are one serial port: see Mmc1Port.  Bits are handed over to both and
\* load one control register between them, and nothing is mapped anew in the middle of a
\* sequence.
Port == INSTANCE Mmc1Port WITH
            bits <- [i \in 1..prg_load.shift_writes |-> (prg_load.value \div 2 ^ (i - 1)) % 2],
            control <- [prg |-> prg.prg_bank_mode, chr |-> chr.chr_bank_mode,
                        mirroring |-> chr.mirroring_mode],
            mapped <- <<prg.window0, prg.window1, prg.prg_ram_enabled, chr.window0, chr.window1>>

ImplementsPort == Port!Spec

\* Every write of the CPU counts.  The filter for writes in consecutive cycles (mmc1.rs:152)
\* would make one bit of a read-modify-write's two writes, but the sequencer makes them two
\* cycles apart and the filter never skips one: such an instruction hands over two bits.
CountsEveryWrite ==
    [][cpu' = "dummy" \/ (cpu' = "fetching" /\ cpu # "fetching")
       => prg_load'.recent /\ chr_load'.recent]_mmc1_vars

\* The cached windows are the ones the present mode and bank select (no stale offset after a
\* mode change, mmc1.rs:88 and :101), the last bank stays where FixLast16KB puts it, and no
\* window lies outside the ROM, except in the 32KB and 8KB modes, which count larger banks.
Mmc1WindowsInRom ==
    /\ CASE prg.prg_bank_mode = "FixFirst16KB" -> prg.window0 = 0 /\ prg.window1 < RomSize
         [] prg.prg_bank_mode = "FixLast16KB" ->
                prg.window0 < RomSize /\ prg.window1 = RomSize - 1
         [] OTHER -> prg.window0 % 2 = 0 /\ prg.window1 = prg.window0 + 1
    /\ chr.window0 < ChrBanks
    /\ chr.chr_bank_mode = "Switch4KB" \/ chr.window0 % 2 = 0 => chr.window1 < ChrBanks
    /\ chr.chr_bank_mode = "Switch8KB" => chr.window1 = chr.window0 + 1
=============================================================================
