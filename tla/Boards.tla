------------------------------ MODULE Boards ------------------------------
(***************************************************************************)
(* The cartridge boards with bank registers the CPU writes in one go        *)
(* (emulator/src/cartridge/mappers/, all but mmc1.rs), the latches of MMC2  *)
(* and MMC4, which PPU reads switch, and the nametable mirroring.           *)
(*                                                                          *)
(* A board is a PRG chip and a CHR chip, each with its banks and the cached *)
(* offsets that reads use; both are counted in the chip's own bank size.    *)
(* What ROM and RAM hold is left out, and MMC3's interrupt is in Mmc3Irq.   *)
(* The build is one without debug assertions: those of the PRG constructors *)
(* only stop some of the headers before the first write.                    *)
(***************************************************************************)
EXTENDS Naturals

CONSTANTS
    Mappers,   \* mapper numbers of the headers considered
    PrgUnits,  \* prg_rom_16kb_units of those headers
    ChrUnits,  \* chr_rom_8kb_units of those headers
    Written    \* bytes the CPU writes to the cartridge

ASSUME HeaderAssumption ==
    /\ Mappers \subseteq {0, 1, 2, 3, 4, 7, 9, 10, 11, 34, 66, 71, 79, 94, 155, 180}
    /\ PrgUnits \subseteq 1..255 \* without PRG ROM there is no program
    /\ ChrUnits \subseteq 0..255
    /\ Written \subseteq 0..255

VARIABLES
    header,     \* the file's header: never changes
    prg_chip,   \* banks and bank_offsets by slot
    chr_chip,
    mirroring_mode,
    mmc3,       \* the registers of MMC3's two chips
    latch,      \* the latches of MMC2 and MMC4, and the banks behind them
    told        \* history: what the CPU wrote to MMC3's bank registers

boards_vars == <<header, prg_chip, chr_chip, mirroring_mode, mmc3, latch, told>>

Uxrom == {2, 94, 180}
Mmc2Mmc4 == {9, 10}

\* Mapper 34 is two boards, told apart by the size of CHR.
IsNina001(h) == h.mapper = 34 /\ h.chr_units > 1

\* Size of a PRG bank in units of 8KB.
PrgBankSize(h) ==
    CASE h.mapper \in {4, 9} -> 1
      [] h.mapper \in Uxrom \cup {10, 71} -> 2
      [] OTHER -> 4

\* total_banks, as the constructors are told it: 32KB boards lose the last 16KB of an odd ROM,
\* and have no bank at all in a ROM of 16KB.
PrgTotal(h) == IF h.mapper \in {0, 3} THEN 1 ELSE (2 * h.prg_units) \div PrgBankSize(h)

\* PrgBaseData::new doubles a ROM of 16KB; UxROM, MMC2 and 71 fill in the structure themselves.
RomUnits(h) ==
    IF h.prg_units = 1 /\ h.mapper \notin Uxrom \cup {9, 71} THEN 2 ELSE h.prg_units

\* The whole banks in prg_rom.
RomBanks(h) == (2 * RomUnits(h)) \div PrgBankSize(h)

\* Size of a CHR bank in units of 1KB, and number of banks: without CHR ROM there is 8KB RAM.
ChrBankSize(h) ==
    CASE h.mapper = 4 -> 1
      [] h.mapper \in Mmc2Mmc4 \/ IsNina001(h) -> 4
      [] OTHER -> 8

ChrTotal(h) == (8 * (IF h.chr_units = 0 THEN 1 ELSE h.chr_units)) \div ChrBankSize(h)

Chip(banks) == [banks |-> banks, offsets |-> banks]

\* The chips' constructors: the last slots are fixed to the last banks.
NewPrg(h) ==
    LET last == PrgTotal(h) - 1
    IN  Chip(CASE h.mapper = 4 -> [i \in 0..3 |-> IF i < 2 THEN i ELSE last + i - 3]
               [] h.mapper = 9 -> [i \in 0..3 |-> IF i = 0 THEN 0 ELSE last + i - 3]
               [] PrgBankSize(h) = 2 -> [i \in 0..1 |-> IF i = 0 THEN 0 ELSE last]
               [] OTHER -> [i \in {0} |-> 0])

NewChr(h) == Chip([i \in 0..(8 \div ChrBankSize(h)) - 1 |-> i])

NewMirroring(h) ==
    CASE h.mapper = 7 -> "OneScreenLowerBank"
      [] h.mapper \in Mmc2Mmc4 -> "Vertical"
      [] IsNina001(h) -> "Horizontal"
      [] OTHER -> h.mirroring

NewMmc3 ==
    [prg_select |-> 0, prg_mode |-> "LowBankSwappable", chr_select |-> 0,
     chr_mode |-> "LowBank2KB", prg_ram_disabled |-> FALSE, prg_ram_readonly |-> FALSE]

\* chr_bank_offsets, by half of the pattern memory and latch value: 0 and 1 for either value.
NewLatch == [at |-> [half \in 0..1 |-> 0], bank |-> [half \in 0..1 |-> [v \in 0..1 |-> half]]]

\* Both bank select bytes: the last one, and the one the last bank data went with; and the data
\* of each register.  The constructors map what these bytes would.
NewTold ==
    [select |-> 0, shown |-> 0,
     data |-> [r \in 0..7 |-> IF r < 2 THEN 2 * r ELSE IF r < 6 THEN r + 2 ELSE r - 6]]

\* CartridgeHeader::new: two bits of flags 6.
HeaderMirroring == {"Horizontal", "Vertical", "FourScreen"}

\* Mmc2PrgChip::new asserts that there are four banks of 8KB.
Headers ==
    {h \in [mapper : Mappers, prg_units : PrgUnits, chr_units : ChrUnits,
            mirroring : HeaderMirroring] : h.mapper = 9 => h.prg_units >= 2}

BoardsInit ==
    /\ header \in Headers
    /\ prg_chip = NewPrg(header)
    /\ chr_chip = NewChr(header)
    /\ mirroring_mode = NewMirroring(header)
    /\ mmc3 = NewMmc3
    /\ latch = NewLatch
    /\ told = NewTold

-----------------------------------------------------------------------------
(* Boards with one register for each chip *)

\* Bits of a byte: (value & mask) >> shift.
Field(value, shift, width) == (value \div 2 ^ shift) % 2 ^ width

Select(chip, slot, bank) ==
    [banks |-> [chip.banks EXCEPT ![slot] = bank],
     offsets |-> [chip.offsets EXCEPT ![slot] = bank]]

\* The control_register_check of mapper 79.
IsNina003(address) == address \div \h2000 = 2 /\ (address \div \h100) % 2 = 1

IsPrgRegister(h, address) ==
    CASE h.mapper = 71 -> address >= \hC000
      [] h.mapper \in Mmc2Mmc4 -> address \in \hA000..\hAFFF
      [] h.mapper = 79 -> IsNina003(address)
      [] IsNina001(h) -> address = \h7FFD
      [] h.mapper \in {7, 11, 34, 66} \cup Uxrom -> address >= \h8000
      [] OTHER -> FALSE

PrgField(h, value) ==
    CASE h.mapper \in {2, 180, 71} \cup Mmc2Mmc4 -> Field(value, 0, 4)
      [] h.mapper = 94 -> Field(value, 2, 3)
      [] h.mapper = 7 -> Field(value, 0, 3)
      [] h.mapper = 66 -> Field(value, 4, 2)
      [] h.mapper = 79 -> Field(value, 3, 1)
      [] IsNina001(h) -> Field(value, 0, 1)
      [] OTHER -> Field(value, 0, 2)

\* Faulty: the bank is not wrapped to the size of the ROM.
SelectPrgUnwrapped(chip, h, address, value) ==
    IF IsPrgRegister(h, address)
    THEN Select(chip, IF h.mapper = 180 THEN 1 ELSE 0, PrgField(h, value))
    ELSE chip

SelectPrg(chip, h, address, value) ==
    IF IsPrgRegister(h, address)
    THEN Select(chip, IF h.mapper = 180 THEN 1 ELSE 0, PrgField(h, value) % PrgTotal(h))
    ELSE chip

\* NINA-001 does not wrap its CHR banks.
SelectChr(chip, h, address, value) ==
    CASE h.mapper = 3 /\ address >= \h8000 -> Select(chip, 0, value % ChrTotal(h))
      [] h.mapper = 11 /\ address >= \h8000 -> Select(chip, 0, Field(value, 4, 4) % ChrTotal(h))
      [] h.mapper = 66 /\ address >= \h8000 -> Select(chip, 0, Field(value, 0, 2) % ChrTotal(h))
      [] h.mapper = 79 /\ IsNina003(address) ->
            Select(chip, 0, Field(value, 0, 3) % ChrTotal(h))
      [] IsNina001(h) /\ address \in {\h7FFE, \h7FFF} ->
            Select(chip, address - \h7FFE, Field(value, 0, 4))
      [] OTHER -> chip

OneScreen(bit) == IF bit = 0 THEN "OneScreenLowerBank" ELSE "OneScreenUpperBank"

Mirrored(mode, h, address, value) ==
    CASE h.mapper = 7 /\ address >= \h8000 -> OneScreen(Field(value, 4, 1))
      [] h.mapper = 71 /\ address \in \h9000..\h9FFF -> OneScreen(Field(value, 4, 1))
      [] h.mapper \in Mmc2Mmc4 /\ address >= \hF000 ->
            IF value % 2 = 1 THEN "Horizontal" ELSE "Vertical"
      [] h.mapper = 4 /\ address \in \hA000..\hBFFF /\ address % 2 = 0 /\ mode # "FourScreen" ->
            IF value % 2 = 0 THEN "Vertical" ELSE "Horizontal"
      [] OTHER -> mode

\* A CPU write to any board but MMC1, MMC2, MMC3 and MMC4.  A 32KB board with no bank panics.
WriteSimple(address, value) ==
    /\ header.mapper \notin {1, 155, 4} \cup Mmc2Mmc4
    /\ IsPrgRegister(header, address) => PrgTotal(header) > 0
    /\ prg_chip' = SelectPrg(prg_chip, header, address, value)
    /\ chr_chip' = SelectChr(chr_chip, header, address, value)
    /\ mirroring_mode' = Mirrored(mirroring_mode, header, address, value)
    /\ UNCHANGED <<header, mmc3, latch, told>>

-----------------------------------------------------------------------------
(* MMC2 and MMC4 *)

\* $B000, $C000: the low half of the pattern memory, latch values 0 and 1; $D000, $E000: the high.
LatchRegister(address, half, v) == address \div \h1000 = 11 + 2 * half + v

\* Faulty: the bank in use is left until the PPU switches the latch.
WriteBehindLatch(half, v, bank) ==
    /\ latch' = [latch EXCEPT !.bank[half][v] = bank]
    /\ UNCHANGED chr_chip

\* The bank behind a latch value; in use at once when the latch has that value.
WriteLatched(half, v, bank) ==
    /\ latch' = [latch EXCEPT !.bank[half][v] = bank]
    /\ chr_chip' = IF latch.at[half] = v THEN Select(chr_chip, half, bank) ELSE chr_chip

WriteMmc2Mmc4(address, value) ==
    /\ header.mapper \in Mmc2Mmc4
    /\ prg_chip' = SelectPrg(prg_chip, header, address, value)
    /\ mirroring_mode' = Mirrored(mirroring_mode, header, address, value)
    /\ \/ \E half, v \in 0..1 :
            /\ LatchRegister(address, half, v)
            /\ WriteLatched(half, v, Field(value, 0, 5) % ChrTotal(header))
       \/ /\ \A half, v \in 0..1 : ~LatchRegister(address, half, v)
          /\ UNCHANGED <<latch, chr_chip>>
    /\ UNCHANGED <<header, mmc3, told>>

\* Addresses whose read sets a latch: a single byte of the low half on MMC2.
SetsLatch(address, half, v) ==
    LET first == \h1000 * half + (IF v = 0 THEN \h0FD8 ELSE \h0FE8)
    IN  address \in first..first + (IF half = 0 /\ header.mapper = 9 THEN 0 ELSE 7)

\* The PPU reads a pattern byte; the latch changes after the read.
ReadPattern(address) ==
    /\ header.mapper \in Mmc2Mmc4
    /\ \E half, v \in 0..1 :
        /\ SetsLatch(address, half, v)
        /\ latch' = [latch EXCEPT !.at[half] = v]
        /\ chr_chip' = Select(chr_chip, half, latch.bank[half][v])
    /\ UNCHANGED <<header, prg_chip, mirroring_mode, mmc3, told>>

-----------------------------------------------------------------------------
(* MMC3's banks.  Both chips see every write; each keeps its own bits of it. *)

\* Faulty: the high mode swaps the fixed last bank, too.
MapPrgReversed(banks, mode) ==
    [i \in 0..3 |-> IF mode = "HighBankSwappable" THEN banks[3 - i] ELSE banks[i]]

\* update_bank_offsets of the PRG chip: slots 0 and 2 are swapped in the high mode.
MapPrgMmc3(banks, mode) ==
    [i \in 0..3 |-> IF mode = "HighBankSwappable" /\ i \in {0, 2} THEN banks[2 - i] ELSE banks[i]]

\* update_bank_offsets of the CHR chip: the halves are swapped in the high mode.
MapChrMmc3(banks, mode) ==
    [i \in 0..7 |-> IF mode = "HighBank2KB" THEN banks[(i + 4) % 8] ELSE banks[i]]

\* $8000: the offsets stay as they are until the next bank data write.
WriteBankSelect(value) ==
    /\ mmc3' = [mmc3 EXCEPT
                    !.prg_select = value % 8, !.chr_select = value % 8,
                    !.prg_mode = IF Field(value, 6, 1) = 0 THEN "LowBankSwappable"
                                 ELSE "HighBankSwappable",
                    !.chr_mode = IF Field(value, 7, 1) = 0 THEN "LowBank2KB" ELSE "HighBank2KB"]
    /\ UNCHANGED <<prg_chip, chr_chip>>

\* The bank registers: 0 and 1 take pairs of CHR banks, 2 to 5 one, 6 and 7 are PRG banks.
PrgBanksMmc3(banks, register, value) ==
    IF register \in {6, 7}
    THEN [banks EXCEPT ![register - 6] = value % PrgTotal(header)]
    ELSE banks

ChrBanksMmc3(banks, register, value) ==
    LET pair == (value - (value % 2)) % ChrTotal(header)
    IN  CASE register \in {0, 1} ->
                [banks EXCEPT ![2 * register] = pair, ![2 * register + 1] = pair + 1]
          [] register \in 2..5 -> [banks EXCEPT ![register + 2] = value % ChrTotal(header)]
          [] OTHER -> banks

\* Faulty: a write of a CHR bank register does not move the PRG windows.
WriteBankDataOneChip(value) ==
    LET prg_banks == PrgBanksMmc3(prg_chip.banks, mmc3.prg_select, value)
        chr_banks == ChrBanksMmc3(chr_chip.banks, mmc3.chr_select, value)
    IN  IF mmc3.prg_select \in {6, 7}
        THEN /\ prg_chip' = [banks |-> prg_banks, offsets |-> MapPrgMmc3(prg_banks, mmc3.prg_mode)]
             /\ UNCHANGED <<mmc3, chr_chip>>
        ELSE /\ chr_chip' = [banks |-> chr_banks, offsets |-> MapChrMmc3(chr_banks, mmc3.chr_mode)]
             /\ UNCHANGED <<mmc3, prg_chip>>

\* $8001
WriteBankData(value) ==
    LET prg_banks == PrgBanksMmc3(prg_chip.banks, mmc3.prg_select, value)
        chr_banks == ChrBanksMmc3(chr_chip.banks, mmc3.chr_select, value)
    IN  /\ prg_chip' = [banks |-> prg_banks, offsets |-> MapPrgMmc3(prg_banks, mmc3.prg_mode)]
        /\ chr_chip' = [banks |-> chr_banks, offsets |-> MapChrMmc3(chr_banks, mmc3.chr_mode)]
        /\ UNCHANGED mmc3

\* $A001
WriteRamProtect(value) ==
    /\ mmc3' = [mmc3 EXCEPT !.prg_ram_disabled = Field(value, 7, 1) = 1,
                            !.prg_ram_readonly = Field(value, 6, 1) = 1]
    /\ UNCHANGED <<prg_chip, chr_chip>>

WriteMmc3(address, value) ==
    /\ header.mapper = 4
    /\ \/ /\ address \in \h8000..\h9FFF /\ address % 2 = 0
          /\ WriteBankSelect(value)
          /\ told' = [told EXCEPT !.select = value]
       \/ /\ address \in \h8000..\h9FFF /\ address % 2 = 1
          /\ WriteBankData(value)
          /\ told' = [told EXCEPT !.data[told.select % 8] = value, !.shown = told.select]
       \/ /\ address \in \hA000..\hBFFF /\ address % 2 = 1
          /\ WriteRamProtect(value)
          /\ UNCHANGED told
       \/ /\ address \in \hA000..\hBFFF /\ address % 2 = 0
          /\ UNCHANGED <<mmc3, prg_chip, chr_chip, told>>
    /\ mirroring_mode' = Mirrored(mirroring_mode, header, address, value)
    /\ UNCHANGED <<header, latch>>

-----------------------------------------------------------------------------

\* One address of each area some board decodes, and its neighbours.
Addresses ==
    {\h4100, \h6000, \h7FFD, \h7FFE, \h7FFF, \h8000, \h8001, \h9000, \hA000, \hA001, \hB000,
     \hC000, \hD000, \hE000, \hF000}

CpuWrite ==
    \E address \in Addresses, value \in Written :
        WriteSimple(address, value) \/ WriteMmc2Mmc4(address, value) \/ WriteMmc3(address, value)

PpuRead ==
    \E address \in {\h0FD8, \h0FD9, \h0FE8, \h0FE9, \h1FD8, \h1FDF, \h1FE8, \h1FEF} :
        ReadPattern(address)

BoardsNext == CpuWrite \/ PpuRead

BoardsSpec == BoardsInit /\ [][BoardsNext]_boards_vars

-----------------------------------------------------------------------------
(* Nametables *)

\* MirroringMode::get_mirrored_address: $2000-$3EFF to a place in the board's VRAM.
MirroredAddress(mode, address) ==
    LET adjusted == address - \h2000
    IN  CASE mode = "Vertical" -> adjusted % \h800
          [] mode = "Horizontal" ->
                (adjusted % \h400) + IF adjusted >= \h800 THEN \h400 ELSE 0
          [] mode = "OneScreenLowerBank" -> adjusted % \h400
          [] mode = "OneScreenUpperBank" -> (adjusted % \h400) + \h400
          [] mode = "FourScreen" -> adjusted

-----------------------------------------------------------------------------
(* Properties *)

AnyMirroring == HeaderMirroring \cup {"OneScreenLowerBank", "OneScreenUpperBank"}
Slots(chip) == DOMAIN chip.banks

BoardsTypeOK ==
    /\ header \in Headers
    /\ \A chip \in {prg_chip, chr_chip} : DOMAIN chip.offsets = Slots(chip)
    /\ Slots(prg_chip) = 0..(4 \div PrgBankSize(header)) - 1
    /\ Slots(chr_chip) = 0..(8 \div ChrBankSize(header)) - 1
    /\ mirroring_mode \in AnyMirroring
    /\ mmc3 \in [prg_select : 0..7, prg_mode : {"LowBankSwappable", "HighBankSwappable"},
                 chr_select : 0..7, chr_mode : {"LowBank2KB", "HighBank2KB"},
                 prg_ram_disabled : BOOLEAN, prg_ram_readonly : BOOLEAN]
    /\ latch.at \in [0..1 -> 0..1]
    /\ told \in [select : 0..255, shown : 0..255, data : [0..7 -> 0..255]]

\* Every cached offset lies inside the ROM, whatever was written in whatever order, so no
\* read of the CPU or the PPU indexes past it (mod.rs:79 and :174); NINA-001's CHR banks
\* (bxrom.rs:49), which are not wrapped, are the exception.
OffsetsInRom ==
    /\ \A i \in Slots(prg_chip) : prg_chip.offsets[i] < RomBanks(header)
    /\ IsNina001(header) \/ \A i \in Slots(chr_chip) : chr_chip.offsets[i] < ChrTotal(header)

\* The vectors' bank never moves: on the boards that fix their last PRG slot it shows the last
\* bank through every bank and mode switch, even between MMC3's two writes.
VectorsStayMapped ==
    header.mapper \in {2, 94, 71, 4, 9, 10} =>
        LET last == (4 \div PrgBankSize(header)) - 1
        IN  prg_chip.offsets[last] = PrgTotal(header) - 1

\* MMC2 and MMC4: a half of the pattern memory shows the bank behind its latch, whichever of
\* the CPU's writes and the PPU's reads came last (mmc2.rs:97 and :143).
LatchSelects ==
    header.mapper \in Mmc2Mmc4 =>
        \A half \in 0..1 : chr_chip.offsets[half] = latch.bank[half][latch.at[half]]

\* MMC3: the two writes that switch a bank are not atomic, and both chips decode them for
\* themselves (mmc3.rs:99 and :273).  Whatever the CPU wrote, every window of both chips shows
\* the last byte written to its register, in the place where the modes put it that were in
\* force at the last bank data: a bank select, or anything else, moves no window.
WindowsFollowData ==
    header.mapper = 4 =>
        LET prg_at(i) == prg_chip.offsets[i]
            chr_at(i) == chr_chip.offsets[IF Field(told.shown, 7, 1) = 1 THEN (i + 4) % 8 ELSE i]
            swapped == IF Field(told.shown, 6, 1) = 1 THEN 2 ELSE 0
        IN  /\ prg_at(1) = told.data[7] % PrgTotal(header)
            /\ prg_at(swapped) = told.data[6] % PrgTotal(header)
            /\ prg_at(2 - swapped) = PrgTotal(header) - 2
            /\ \A r, k \in 0..1 :
                chr_at(2 * r + k) = ((2 * (told.data[r] \div 2)) % ChrTotal(header)) + k
            /\ \A r \in 2..5 : chr_at(r + 2) = told.data[r] % ChrTotal(header)

\* A nametable access stays inside the board's 4KB of VRAM (mod.rs:87), also after a register
\* changed the mirroring; four screens only up to $2FFF: the mirror at $3000 is not folded.
NametableInVram ==
    \A address \in {\h2000, \h23FF, \h2400, \h2800, \h2C00, \h2FFF, \h3000, \h3EFF} :
        \/ mirroring_mode = "FourScreen" /\ address >= \h3000
        \/ MirroredAddress(mirroring_mode, address) < \h1000
=============================================================================
