# A TLA+ model of the NES emulator

This directory models the emulator in `emulator/src`: a cycle-accurate 6502 CPU, the PPU with its
frame timing, address registers and sprites, the machine the two make up, the cartridges' mappers
and the APU's frame counter. TLC checks the models on small instances; TLAPS proves every
safety property, every action property and both refinements the passing runs check, for every value
of the constants. What is left to TLC alone is liveness. Paths below are relative to the
repository, line numbers are those of the modelled commit.

## The system

Everything runs in one thread. The front end (`sdl2_frontend`) or a headless loop (`lib.rs`) calls
`Cpu::next` for ever; a call clocks the CPU and the APU if it is the third since the last time, and
the PPU always. There is no concurrency of threads: what makes the program hard is that three
machines with different clocks are interleaved at a fixed ratio, that each is a state machine cut
into single cycles, and that a CPU access changes the PPU, the APU or the cartridge in the middle of
their own sequences. An error of one cycle is usually invisible to a test of results and breaks one
game in a hundred.

| Component | State | Operations | Interacts with |
|---|---|---|---|
| CPU sequencer (`cpu/mod.rs`, `cpu/opcodes.rs`) | `state`, registers, `cycles`, `cpu_cycle_counter` | `clock`, `step_cpu`, `Opcode::execute` | reads and writes every other component through `read_byte`/`write_byte` |
| Interrupts (`cpu/mod.rs`, `cpu/interrupts.rs`) | `polled_interrupt`, the disable flag, `InterruptState` | `poll_for_interrupts`, `step_interrupt_handler` | asks the PPU (NMI, mapper IRQ) and the APU (IRQ), may clear their lines |
| OAM DMA (`cpu/mod.rs`) | `trigger_dma`, `dma_address`, `DmaState` | write of $4014, `step_dma_handler` | stops the CPU, writes the PPU's OAM |
| PPU timing, vertical blank, NMI (`ppu/mod.rs`) | `scanline`, `dot`, `is_short_frame`, `vblank_started`, `nmi_enable`, `nmi_interrupt`, `last_ppu_status_read_cycle` | `Ppu::next`, PPUCTRL, PPUMASK, PPUSTATUS, `check_ppu_nmi` | polled by the CPU; raced by its register accesses |
| PPU addresses and data (`ppu/mod.rs`) | `vram_addr`, `temp_vram_addr`, `fine_x_scroll`, `write_toggle`, `ppu_data_buffer` | PPUSCROLL, PPUADDR, PPUDATA, scroll increments | reaches the cartridge, whose mapper watches A12 |
| PPU fetches and pixels (`ppu/mod.rs`, `palette.rs`) | shift registers, frame buffer | `fetch_data`, `draw_pixel` | sets the sprite zero flag |
| Sprites (`ppu/sprites.rs`) | OAM, secondary OAM, `SpriteEvaluation`, `SpriteFetch` | `process_sprite_cycle`, OAMADDR, OAMDATA, DMA writes | sets the overflow flag, fetches through the mapper |
| Mappers (`cartridge/mappers/*`) | bank registers, MMC1's load register, MMC3's IRQ counter | CPU writes above $8000, A12 notifications, `check_trigger_irq` | raise the IRQ the CPU polls |
| APU (`apu/*`) | frame counter, channels, length counters | `Apu::next`, $4000-$4017 | raises the frame IRQ |
| Controllers (`io/mod.rs`) | pressed buttons, `reading_button`, strobe | `button_down`, `button_up`, $4016, $4017 | events from the front end between CPU calls |
| Cartridge loading (`cartridge/mod.rs`, `mirroring.rs`) | - | `from_file`, address mirroring | builds the mapper |
| Front end, ROM database tool, benches, ROM tests | window, events | - | drive the emulator |

What is hard in each, and what makes it correct:

- *CPU sequencer*: each addressing mode is a set of `Option` fields filled one call at a time.
  Correct: every instruction takes its cycles and consumes its bytes whatever interrupts and DMA run
  around it.
- *Interrupts*: polls must come before the effect of the last cycle; pending interrupts, triggered
  DMA and hijacked sequences compete at `FetchOpcode`. Correct: nothing polled or triggered is
  forgotten, masked IRQs stay masked, everything ends.
- *OAM DMA*: alignment follows the parity of all earlier cycles. Correct: reads on odd, writes on
  even cycles, exactly one page.
- *PPU timing*: accesses race with single dots: a status read in the dot that starts vertical
  blank, one or two dots later, an enable bit toggled inside it. Correct: the vertical blank flag is
  up only in its window and `nmi_interrupt` is exactly the edges of the NMI output.
- *CPU and PPU*: an NMI is seen soon, once, and only while it is enabled.
- *PPU addresses*: one register, `vram_addr`, is the beam's position while a line is drawn and the
  CPU's address otherwise, and is set through a two-write protocol that another register resets.
  Correct: drawing is where the scroll registers said, and an address stays inside the bus.
- *Sprites*: two machines run once a line over memory the CPU writes, and the second reads what the
  first left. Correct: the first eight sprites in range, in order, each with its own pattern.
- *MMC1*: five writes make one register, counted independently by two chips and filtered by the
  cycle they come in. Correct: together the chips are one serial port that counts each write once.
- *Other boards*: bank registers are cached as offsets. Correct: offsets follow the registers and
  stay inside the ROM, and the vectors' bank never goes away between two writes.
- *MMC3's interrupt*: a counter clocked by a filtered address line that the PPU's fetches and the
  CPU's accesses both move. Correct: one clock a line, an interrupt after latch + 1 of them.
- *APU frame counter*: a sequence in half cycles, reset by a delayed write, with an interrupt that is
  seen late and taken back by reading. Correct: the frames alternate through every reset, an
  interrupt is not lost.
- *Controllers*: a shift position that reading advances.

## The modules

| Module | Models | State and actions in the code |
|---|---|---|
| `CpuSequencer` | the CPU: instructions, interrupt sequences, OAM DMA | one step is one `Cpu::clock`; `state` is the flattened `State` enum (the `dummy: true` variant of `WritingResult` is `WritingResultDummy`); one action per arm of `step_cpu`, `step_interrupt_handler` and `step_dma_handler`; `Execute` is `Opcode::execute`; `EndUnit` is the check for pending work at the end of `clock` |
| `CpuSequencer_proofs` | - | the inductive invariant and the theorems |
| `MCCpuSequencer` | - | the programs TLC runs |
| `PpuVBlank` | the PPU's frame timing, vertical blank and NMI | one step is one `Cpu::next`; `ppu` holds the fields of `Ppu`; `ReadStatus`, `WriteCtrl`, `WriteMask`, `Polled` are the accesses, `Tick` is `Ppu::next` |
| `PpuVBlank_proofs` | - | the inductive invariant, the theorems and the refinement of `NmiLine` |
| `NmiLine` | the abstract specification of NMI | an output line, and an edge that is fresh, ripe or absent |
| `Nes` | `Cpu::next`: CPU and PPU together | instantiates both; `bus` of the sequencer carries a cycle's read, poll and write to the PPU, whose `NmiReady` answers the poll |
| `Nes_proofs` | - | the machine's invariant, and that it implements both its parts |
| `MCNes` | - | two programs for TLC |
| `PpuRegisters` | `InternalRegisters`: the PPU's address registers | `registers` holds its fields; a step is a dot that changes `vram_addr`, or one register access between two of them; `WriteScroll`, `WriteAddr`, `AccessData`, `ReadStatus`, `WriteControl`, `WriteMask` are the arms of `write_register` and `read_register`, `AfterEvent` the increments and copies of `fetch_data` and the pre-render line |
| `PpuRegisters_proofs` | - | the invariant of row and column, and the theorems |
| `Sprites` | `sprites.rs`: evaluation and fetch | `eval` and `fetch` are the two machines, `EvalStep` and `Fetch` their `step_..._machine`, `ProcessSpriteCycle` is the function of that name; `WriteOamAddr`, `WriteOamData`, `DmaWrite` are the CPU's accesses |
| `Sprites_proofs` | - | the invariants of search and fetch, and the theorems |
| `Mmc1` | both chips of MMC1 (`mmc1.rs`) | `prg_load`, `chr_load` are the two `LoadRegister`s, `prg`, `chr` the registers and offsets; a step is a CPU cycle, with the write it may make: `PrgWrite` and `ChrWrite` are the two `write_byte`s; `cpu` says whether the cycle before wrote, which `last_write_cycle` depends on |
| `Mmc1Port` | the abstract specification of MMC1 | the bits handed over, the control register, what is mapped |
| `Boards` | every other board `from_file` creates | `prg_chip` and `chr_chip` are banks and cached offsets, `latch` MMC2's and MMC4's, `mmc3` MMC3's registers, `told` the bytes written to them (history); `CpuWrite` is a CPU write (one disjunct a board), `PpuRead` a pattern read, which moves latches |
| `Cartridge` | `from_file` | an MMC1 or one of the other boards, by the header |
| `Cartridge_proofs` | - | invariants of MMC1 and of the boards, and the theorems of the cartridge |
| `Mmc3Irq` | MMC3's interrupt, with the fetches that clock it | `irq` is the chip's counter, `fetch` what `fetch_data` and the sprite fetch machine address next; a step is a dot, with an access of the CPU before it: `UpdateVramAddress`, `ClockIrqCounter`, `WriteLatch`, `WriteReload`, `WriteDisable`, `WriteEnable`, `Polled` are the chip's functions |
| `Mmc3Irq_proofs` | - | the counter's invariant, the line's, and the theorems |
| `ApuFrame` | `apu/mod.rs`: frame counter, interrupt, length counters | a step is a CPU cycle: `ApuNext` is `Apu::next`, `AccessFrameCounter` is $4017, `AccessStatus` $4015, `AccessChannels` the channels' registers |
| `ApuFrame_proofs` | - | the sequence's invariant and theorems |

Composition: `Nes` instantiates `CpuSequencer` and `PpuVBlank`, and is proved to implement both.
`PpuVBlank` instantiates `NmiLine` with a refinement mapping (`output <- vblank_started /\
nmi_enable`, `edge` from the age of `nmi_interrupt`) and `ImplementsNmiLine` is `Line!Spec`. `Mmc1`
instantiates `Mmc1Port` (`bits` from the PRG chip's load register, `control` from the modes both chips
decoded) and `ImplementsPort` is `Port!Spec`. `Cartridge` extends `Mmc1` and `Boards`; `Mmc3Irq` puts
the chip and the PPU's fetch schedule into one module, because the address line is what they share.

### What is abstracted

- *Data.* Registers and memory are left out. What control reads from them is a field of the
  instruction in flight, chosen when the opcode is fetched: whether indexing or a branch crosses a
  page, whether the branch is taken, the interrupt-disable bit that PLP and RTI pull, which register
  the effective address and the address without its carry select, and the bit that matters of a
  written value. Every combination the opcode table allows is an element of `Instructions`.
- *Operations* with the same control flow share a name (`Load`, `Inherent`, `Store`, `Modify`, ...).
  An operation that is `todo!()` panics in the cycle that would execute it; in the code some panic a
  cycle or two earlier, when `instruction_type` is asked.
- *Accesses.* `bus` records a cycle's register read, its poll and its register write, in that order,
  the order they have in every arm of the code. Accesses without a side effect are `"memory"`.
- *Counters.* `cycles` is kept as its parity, an NMI's raise cycle as its age up to three dots (the
  code compares with the last three only). The wrap of the 32-bit counters is not modelled.
- *Left out of the CPU*: code executed from I/O registers and DMA from I/O registers (operand and
  DMA reads are then not `"memory"`), and logging.
- The IRQ line (mapper and APU) does anything in `Nes`; so does the NMI line in `CpuSequencer` alone.
- *Cartridges.* ROM and RAM contents are left out, banks and offsets are counted in banks. Of each
  area a board decodes one address is written, and of a byte the bits the board uses. Mapper 155
  differs from MMC1 only in when RAM answers.
- *Fetches.* Of an address `Mmc3Irq` keeps which pattern table it is in, or that it is in neither;
  the CPU's own accesses of video memory may set any level. Times are ages, up to the filter's length.
- *Sprites.* Attributes, x positions and patterns are data; of a fetched pattern byte it is kept
  whether it belongs to the line. What DMA and OAMDATA mask off is modelled (`Masked`).
- *Addresses.* `PpuRegisters` keeps the 15 bits as their fields and computes with the number they
  make up; `fine_x_scroll` and the bytes behind PPUDATA are data. The dots between two changes of
  `vram_addr` are skipped, with any number of accesses in their place.
- *APU.* No sound is produced: of a channel its length counter is kept, and the triangle's linear
  counter. The DMC has no interrupt in the code.

A build with overflow checks (debug, tests) stops at `dma_address += 1` after page $FF; a release
build wraps. `OverflowChecks` selects the build. `Panicked` has no successor, so the run `cpu` does
not check deadlock. Nor does `ppu_registers`: an access of PPUDATA beyond the 14-bit bus panics in
every build (`ppu/mod.rs:405`), and the program stops.

## The runs

| Run | Checks | Bounds |
|---|---|---|
| `cpu` | `TypeOK`, `CycleExact`, `ConsumesItsBytes`, `NothingOverlooked`, `DmaAligned`, `MaskedIrqIsLate`, `UnitsEnd` | all instructions, one plain register besides OAMDMA, 4-byte pages, both interrupt lines free |
| `ppu_vblank` | `TypeOK`, `VBlankWindow`, `FreshNmiHasCause`, `ImplementsNmiLine`, `NeverTwoShortFrames` | 8 scanlines of 11 dots, any accesses |
| `nes` | `TypeOK`, `NoNmiWhileDisabled`, `NmiMissedAtMostOnce` | 7 scanlines of 8 dots, 2-byte pages, `RacingProgram` |
| `nes_live` | `RipeNmiIsServed` | the same frame, 1-byte pages, `PollingProgram` |
| `cartridge` | `CartridgeTypeOK`, `OffsetsStayInside`, `VectorsStayMapped`, `LatchSelects`, `ImplementsPort`, `CountsEveryWrite`, `WindowsFollowData` | all boards but mapper 155's, ROMs of one and of five 16KB units (MMC1: five), two CHR units or CHR RAM (MMC1: one unit's two banks), written bytes 6, 81 and 195 |
| `mmc3_irq` | `TypeOK`, `TriggeredIsEnabled`, `OncePerScanline`, `IrqPeriod` | one background tile and two sprite units a line, lines 0 to 2, latch values 0 and 2, accesses before dots 0, 13 and 20 |
| `apu_frame` | `TypeOK`, `HalvesAlternate`, `LineFallsWhenTaken`, `FrameIrqArrives` | sequences of 8 and 9 APU cycles with quarters at 5, 6, 7; triangle and noise; one length |
| `sprites` | `TypeOK`, `FirstSpritesFound`, `UnitsShowSlots` | three sprites, two units, lines 0 to 3 of one-row sprites, two OAM bytes the CPU writes |
| `ppu_registers` | `TypeOK`, `ScrollFollowsBeam`, `AddressedDataIsSafe` | nametables of 3 x 2 tiles with four rows each, one tile a line, two visible lines |
| `polls_in_last_cycle` | `PollsInLastCycle`, violated | 1-byte pages |
| `modify_reads_twice` | `ModifyReadsTwice`, violated | 1-byte pages |
| `sprite_zero_hit` | `SpriteZeroHitClearedAtDot1`, violated | 8 scanlines of 11 dots |

What they show:

- `CycleExact` compares the sequencer with the documented cycle count of each instruction, written
  down independently in `InstructionCycles`; the (zp),Y read-modify-write operations are listed with
  the count the code gives (see the divergences). `ConsumesItsBytes` does the same for
  `instruction_length`.
- `NothingOverlooked` is about `FetchOpcode`: an interrupt goes before a DMA, a DMA before an opcode,
  and a DMA triggered by the dummy write of a read-modify-write waits for the real write.
- `MaskedIrqIsLate` is the order of poll and flag change in CLI, SEI and PLP: the latency of SEI and
  PLP is the only way an IRQ is served with the flag up, and CLI's latency the reason why none is
  served after an instruction that started with it up. `masked` remembers that flag. The exception is
  RTI, which pulls the flag two cycles before it polls.
- `ImplementsNmiLine` is the refinement: a new NMI exactly on a rising edge of flag-and-enable, taken
  back only by a falling edge while it is fresh, and otherwise kept until a poll takes it.
- `NmiMissedAtMostOnce` and `RipeNmiIsServed` say that the three-dot delay of `check_ppu_nmi` never
  costs more than one poll, and that an NMI past that delay is served, or hijacks the sequence that is
  running. The latter assumes a program in which every instruction polls: an untaken branch and BRK do
  not, and a loop of them can delay an NMI past the next vertical blank, where it is replaced.
- `ImplementsPort` is the refinement of `Mmc1Port`: both chips count the same writes, decode them the
  same way, and nothing mapped moves between the fifth writes. `CountsEveryWrite` closes the gap that
  leaves: the filter for writes in consecutive cycles never drops one. The two writes of a
  read-modify-write have a `WritingResult` cycle between them, so such an instruction hands over two
  bits, and no instruction starts with a write.
- `OffsetsStayInside` names the exceptions the code has (MMC1's 32KB mode and odd 8KB banks, NINA-001's
  CHR bank, see below, and the nametable addresses from $3000 of a four-screen board).
  `VectorsStayMapped` and `WindowsFollowData` are about MMC3's two-write protocol: the first says that
  it never unmaps the vectors, the second compares every window with `told`, a record of the bytes the
  CPU wrote that neither chip sees: a window shows the last byte written to its register, where the
  modes of the last bank data put it. `LatchSelects` is about MMC2's two copies of banks and offsets.
- `OncePerScanline` says that the counter is clocked exactly once in a line whose fetches the CPU did
  not disturb (with sprites and background in different tables, and small sprites); `IrqPeriod` that
  an interrupt is raised latch + 1 clocks after the load, whatever is written in between;
  `TriggeredIsEnabled` that disabling takes back what was triggered.
- `HalvesAlternate` is about resets: a reset that landed in the wrong half of an APU cycle would
  clock a frame twice. `LineFallsWhenTaken` has one exception, `irq_age' = JustSet`: an interrupt
  nobody took drops its line for five APU cycles in every frame, when it is triggered again.
- `FirstSpritesFound` compares the evaluation machine with the set of sprites in range, in the order
  of OAM, in a line in which nothing was written; `UnitsShowSlots` says the same of the fetch machine.
  The lines before may have been disturbed in any way.
- `ScrollFollowsBeam` follows the position over lines and wraps from the origin a frame and a line
  start with. `AddressedDataIsSafe` says which programs cannot reach the panic.
- `NoNmiWhileDisabled` has the one exception the code has: the dummy write of a read-modify-write on
  PPUCTRL can disable NMI in a cycle that does not poll.

### Why the bounds are enough

- The sequencer's behaviour depends on `PageSize` only through the end of a transfer; four bytes
  give the first, the middle and the last one, and the theorems hold for every size. The bound
  `ElapsedLimit` caps the history variable `elapsed` above the longest unit of work (a DMA with its
  alignment cycle).
- The frames keep the relations the code's constants have: drawn dots, idle dots and two dots that
  end a line; visible lines, the post-render line, the line vertical blank starts in, at least one
  line inside it and the pre-render line. The real frame has 341 x 262 dots, which is 2 modulo 3, so
  the CPU meets every dot in every alignment over three frames; the small frame of `nes` has 8 x 7
  dots, also 2 modulo 3, and is longer than the longest stretch without a poll of its programs. In
  `ppu_vblank` short frames shift the alignment too.
- `RacingProgram` has the accesses that race with the frame (PPUSTATUS reads, plain and
  read-modify-write writes of PPUCTRL with either bit), and an instruction for each kind of ending:
  a poll in the last cycle, a poll before it, no poll, a DMA.
- `cartridge`: five units are an odd number, of which 32KB boards lose the last, and enough for MMC3
  to have banks besides the fixed ones; one unit is the ROM that is doubled; the three bytes have
  different low bits, both values of bit 4 and of each mode bit, and 81 and 195 exceed the banks. Of
  MMC3's registers they select 6, 1 and 3. The theorems hold for every size and byte.
- `mmc3_irq`: a fetched line followed by another and one that is not, so that the filter meets the
  gap between lines; two sprite units are the fewest that have a last one; the accesses come before
  the line's fetches, inside the sprite fetches and before the prefetch. The chip's theorems hold
  for every schedule.
- `apu_frame`: the distances between the quarters are shorter than the reset delay, so that a reset
  can be in progress at each of them and two can overlap; the real ones only make that rarer. The
  sequence's theorems hold for every distance.
- `sprites`: one sprite more than there are units, so that all of them, all but one or none
  overflow; 18 dots are exactly those the evaluation needs for two copies and the misses. The two
  bytes written are the Y of the first and the last sprite; two lines are visible, one follows.
- `ppu_registers`: one row fewer than the row's field holds, so that a row outside the nametable (30
  and 31 of the code) is met; the byte written is tile 1 and fine row 3 to PPUSCROLL, and has bits
  above the bus as PPUADDR's high byte; accesses come before a line's first dot that moves the
  address and between the copies of column and row, any number of them.

### Fairness

`FairSpec` adds weak fairness of `Next`: `sdl2_app.rs` and `lib.rs` call `Cpu::next` in a loop for as
long as they run, and a call always completes. No fairness is assumed of the choices inside a step:
`UnitsEnd` and `RipeNmiIsServed` hold for every program and every behaviour of the lines. `ApuFrame`
assumes `WF_vars(Next)` for the same reason: `FrameIrqArrives` says that a four-step sequence that is
let alone interrupts again and again.

## Divergences met

- `cpu/mod.rs:210` says a poll happens in the last cycle of an instruction. An untaken branch does not
  poll at all (`mod.rs:758`), PHA and PHP poll one cycle early (`opcodes.rs:301`).
- `cpu/mod.rs:407` says read-modify-write instructions always read an indexed operand twice. The
  (zp),Y ones do so only across a page (`mod.rs:719`).
- `ppu/registers/ppustatus.rs:5` says the sprite zero flag is cleared at dot 1; `ppu/mod.rs:595`
  clears it at dot 0.

Met while modelling, and stated by no run:

- `cpu/mod.rs:210` lets a poll see the registers at the start of the instruction. RTI pulls the
  flags two cycles before it polls, so that its IRQ is masked by the flag it restores.
- `mappers/mmc3.rs:152` says the cycle of the last low is forgotten whenever A12 is high; line 249
  forgets it only at a rise that clocks the counter, an early rise keeps it. The small sprites' slot
  that holds only a Y out of range spills its high byte read past the end of its table
  (`sprites.rs:431`), which is such a rise.
- `sprites.rs:152` speaks of the attribute byte; line 153 masks by the counter of DMA bytes, not by
  the OAM address, so that a transfer with an OAMADDR that is no multiple of four masks other bytes.
- The last sprite's high byte is never fetched (`sprites.rs:414`); the fetches of the pre-render
  line make every unit visible on line 0, with slots of $FF; `sprite_zero_visible` stays up until
  the pre-render line.
- A $4015 read in the cycles after a frame interrupt is triggered takes it back before the CPU sees
  it; a five-step write of $4017 clocks two quarter frames (`apu/mod.rs:174`).
- MMC1's reset stores the whole of $0C, mirroring and CHR mode included; in 32KB mode its offset can
  lie behind the ROM. A 32KB board with one unit of PRG ROM has no bank: it runs with the offset
  zero and panics at its first register write. MMC2's constructor asserts that there are four banks
  (`mmc2.rs:35`), which one unit does not have. NINA-001's CHR bank is not wrapped (`bxrom.rs:49`).
  Four-screen addresses from $3000 are not folded (`mirroring.rs:26`). MMC2's CHR registers start at
  zero while its offsets start in the middle, until the first write.

## The proofs

`CpuSequencer_proofs` proves, for every `Program`, `Targets`, `PageSize` and build, from the
assumptions of `CpuSequencer` (there are plain memory and OAMDMA among the targets, the page size is a
positive number, the program consists of instructions):

| Theorem | States |
|---|---|
| `Inductive` | `Spec => []IInv` |
| `TypeCorrect` | `Spec => []TypeOK` |
| `CyclesCorrect` | `Spec => []CycleExact` |
| `BytesCorrect` | `Spec => []ConsumesItsBytes` |
| `NothingIsOverlooked` | `Spec => []NothingOverlooked` |
| `DmaStaysAligned` | `Spec => []DmaAligned` |
| `MaskingCorrect` | `Spec => []MaskedIrqIsLate` |

The properties speak of the cycle a unit of work ends in, so none is inductive. `IInv` says for
every state in between how many cycles the unit has taken and how many bytes it has consumed
(`OperandInv` up to the execution, `ExecutedInv` after it, `InterruptInv`, `DmaInv`), that nothing
is polled except between an early poll and the end of its instruction (`PollInv`), where a triggered
DMA may wait (`TriggerInv`), and after which instructions an IRQ can be served with the flag up
(`LateInv`). `MaskingCorrect` adds `MaskInv`: inside an instruction `masked` is the disable flag,
unless the instruction is RTI, and no other that started with it up ends with an IRQ polled.
`CyclesToExecute` is the number of cycles to the execution of an instruction, and lemmas relate it
to `InstructionCycles` for each operation. There is one lemma per action that it keeps `IInv`, one
for the cycle count all actions share and one for the end of a unit; `Inductive` collects them.

`PpuVBlank_proofs` proves, from `FrameAssumption` (the frame has its parts in the usual order, a
scanline has room for its drawn dots), for every frame size and every interleaving of CPU accesses
with dots:

| Theorem | States |
|---|---|
| `Inductive` | `Spec => []IInv` |
| `TypeCorrect` | `Spec => []TypeOK` |
| `VBlankCorrect` | `Spec => []VBlankWindow` |
| `FreshNmiCorrect` | `Spec => []FreshNmiHasCause` |
| `ShortFramesAlternate` | `Spec => NeverTwoShortFrames` |
| `NmiIsTheLinesEdges` | `Spec => ImplementsNmiLine` |

A step is two state changes of the code, the CPU's accesses and then a dot. `Accessed` and `Ticked`
say what each of them does; `AccessFacts` and `TickFacts` prove that from the definitions, and
everything after is about the two relations. `VBlankWindow` is inductive; `FreshNmiHasCause` is not:
an NMI raised by the access just before the pre-render line clears the flag would outlive its cause.
`YoungNmiInv` (a one-dot-old NMI was raised by the CPU cycle just past, or by the start of vertical
blank) and `LateNmiInv` (in the one dot where a fresh NMI has no flag, the CPU is not clocked) exclude
it; the second is also why a status read never takes back an NMI of an output that fell by itself.
`ShortFrameInv` ties `last_skipped` to `is_short_frame`.

`Nes_proofs` proves of the composition, from the assumptions of its parts (its registers are those
both know, `RegistersAssumption`):

| Theorem | States |
|---|---|
| `Inductive` | `Spec => []IInv` |
| `ImplementsSequencer` | `Spec => CpuP!Spec`: what is proved of the sequencer holds of the machine |
| `ImplementsPpu` | `Spec => PpuP!Spec` |
| `TypeCorrect` | `Spec => []TypeOK` |
| `NoNmiStaysDisabled` | `Spec => []NoNmiWhileDisabled` |
| `MissedOnce` | `Spec => []NmiMissedAtMostOnce` |
| `SequencerCorrect` | in the machine, `CycleExact`, `ConsumesItsBytes`, `NothingOverlooked`, `DmaAligned` and `MaskedIrqIsLate` of the CPU |
| `TimingCorrect` | in the machine, `VBlankWindow`, `FreshNmiHasCause`, `ImplementsNmiLine` and `NeverTwoShortFrames` of the PPU |

`IInv` is the invariants of both parts, `NoNmiWhileDisabled`, which is inductive with them, and
`MissedInv`: a missed poll leaves an NMI of two dots before the next CPU cycle, or a ripe one, which
the next poll takes. The lemmas whose names begin with `Same` say that the instances inside the proof
modules of the parts are the same as those of `Nes`. `NmiAccess` and `NmiDot` are what an access and
a dot do to `nmi_interrupt` and `nmi_enable`. `SequencerCorrect` and `TimingCorrect` are what the two
refinements are for: the theorems of the parts, carried over without another invariant.

`PpuRegisters_proofs` proves, from `AddressAssumption` (the sizes are positive, a nametable has fewer
rows than its field counts, tiles have an even number of rows, the bus is made of whole bytes), for
every size and every interleaving of accesses with dots:

| Theorem | States |
|---|---|
| `Inductive` | `Spec => []IInv` |
| `TypeCorrect` | `Spec => []TypeOK` |
| `DrawingFollowsScroll` | `Spec => []ScrollFollowsBeam` |
| `AddressedAccessIsSafe` | `Spec => []AddressedDataIsSafe` |

`Row` and `Column` read an address as one number, across two nametables. `RowInv` and `ColumnInv` say
that while nobody interferes it is the origin's number plus the lines and tiles drawn, modulo two
nametables, at every dot of a frame and not only where a line is drawn (`RowDrawn` excludes the lines
between the picture and the next copy of the rows, in which nothing is drawn). The increments are
cases over fields, the property is a remainder: the lemmas on division (`ModNext`, `Digits`) and on
each increment bridge the two. `AddressedInv` says that an address set by two writes of PPUADDR has a
fine row below the bus's, in both registers: PPUDATA's own increments keep that and wrap inside the
bus. The bound `Rows < Coarse` matters: a row outside the nametable wraps without a change of
nametable, and `RowInv` says that none comes up inside a frame that started from one inside.

`Sprites_proofs` proves, from `SpriteAssumption` (fewer units than sprites, sprites have rows, an
empty slot's Y is below the picture, and `EvalDots >= 2 * N + 6 * P`: 192 dots for the code's 64
sprites and 8 units, where it needs 176), for every content of OAM and every order of accesses:

| Theorem | States |
|---|---|
| `Inductive` | `Spec => []IInv` |
| `TypeCorrect` | `Spec => []TypeOK` |
| `FirstSpritesAreFound` | `Spec => []FirstSpritesFound` |
| `ShownUnitsAreFound` | `Spec => []UnitsShowSlots` |

The type invariant is not trivial here: it is what keeps the indices into both memories inside them,
whatever the CPU writes to OAMADDR between two dots. The machine has no counter of sprites, so
`EvalInv` says where it is by the dot: it comes to sprite n after 2n dots and 6 more for each sprite
found before it (`FoundBefore(n)`), and the bytes copied are those sprites' in their order. So the
search ends in time exactly when the dots are enough for all sprites and P copies, which is where the
assumption comes from. Lemmas about cardinalities say that `FoundBefore` counts and `Slot` enumerates
the sprites found. `ClearedInv` is the part of secondary OAM already cleared, `HeldInv` that it stays
as found while it is fetched, `FetchInv` which units are loaded and what Y the fetch in progress uses.

`Cartridge_proofs` proves, from `RomAssumption` (a bank of PRG ROM or more, an even number of CHR
banks) and `HeaderAssumption` (the mappers the code knows, 1 to 255 units of PRG ROM, odd numbers
and the single unit that `mappers/mod.rs:135` doubles included), for every ROM and every program of
writes. A header without PRG ROM has no program; `Headers` leaves out an MMC2 of one unit, against
which its constructor asserts (a debug build also asserts that the banks fill the ROM, which an odd
number of units refutes for 32KB boards; the modules are of the release build):

| Theorem | States |
|---|---|
| `CartridgeTypeCorrect` | `CartridgeSpec => []CartridgeTypeOK` |
| `ReadsStayInside` | `CartridgeSpec => []OffsetsStayInside` |
| `VectorsAlwaysMapped` | `CartridgeSpec => []VectorsStayMapped` |
| `LatchAlwaysSelects` | `CartridgeSpec => []LatchSelects` |
| `EveryWriteOfACartridgeCounts` | `CartridgeSpec => CountsEveryWrite` |
| `CartridgeImplementsPort` | `CartridgeSpec => ImplementsPort` |
| `WindowsAlwaysFollowData` | `CartridgeSpec => []WindowsFollowData` |

`CartridgeInv` is `Mmc1Inv`, `BoardsInv`, `TypeInv` and `ToldInv`. `Mmc1Inv` says that the chips
agree on load register, filter and control register (`ChipsAgree`), that the filter is down before
an instruction writes (`FilterInv`), and what each window of each mode may show. `BoardsInv` says of
every bank and offset that it is below the ROM's number of banks, of MMC2's that both banks of a
latch are, and of the last slot which bank it shows; MMC3's own register for that bank never
changes. `ToldInv` relates both chips of MMC3 to `told`: registers and modes selected are those of
the last bank select, each bank is what the byte last written to its register stands for, and the
offsets are these banks in the modes that were selected at the last bank data.

`Mmc3Irq_proofs` proves, from `ScheduleAssumption` (lines have tiles, two or more sprites, one line
follows the visible ones):

| Theorem | States |
|---|---|
| `Inductive` | `Spec => []IInv` |
| `TypeCorrect` | `Spec => []TypeOK` |
| `NoneWhileDisabled` | `Spec => []TriggeredIsEnabled` |
| `PeriodIsLatch` | `Spec => IrqPeriod` |
| `LineInductive` | `Spec => []LineInv` |
| `CountsScanlines` | `Spec => OncePerScanline` |

`ChipInv` is the relation of the counter to its history: without a reload waiting, `irq_counter` is the
value loaded less the clocks since. It needs nothing of the fetches, so the period holds for any.

`LineInv` is the fetch schedule dot by dot in a line the CPU does not disturb: what `fetch_data` and
the sprite fetch machine read next (`NextInv`, `StepInv`), and for each pair of pattern tables how
long the address line has been low (`LowHighInv` and the three like it). With sprites high, the first
sprite's low byte comes five dots after the background's last low level, which the filter does not yet
let through, and leaves its count at the full length; its high byte, or the next sprite's low one,
clocks the counter and nothing more of the line does. With the background high, the gap that is long
enough comes after the last sprite and before the next line's tiles. In that case, and when both are
high, the filter must be closed when the line begins: `RestInv` says so of every line that follows an
undisturbed line with fetches, which is the meaning of `steady = 2`.

`ApuFrame_proofs` proves, from `SequenceAssumption` (the quarters come in order and the first after the
reset delay) and `ChannelAssumption`:

| Theorem | States |
|---|---|
| `Inductive` | `Spec => []IInv` |
| `TypeCorrect` | `Spec => []TypeOK` |
| `FramesAlternate` | `Spec => HalvesAlternate` |
| `LineStaysUp` | `Spec => LineFallsWhenTaken` |

`SequenceInv` says that a countdown is odd exactly in the APU-cycle half, that without one the sequence
is inside its mode's length, and which quarter frames have passed at each point of it.

Only model-checked: liveness (`UnitsEnd`, `RipeNmiIsServed`, `FrameIrqArrives`), which is out of the
prover's reach: it needs fairness and ENABLED. The three properties expected to be violated have
counterexamples instead. Everything else the runs check is a theorem.

## Not modelled

- The arithmetic of the instructions and the pixel and sound data paths: functions of bytes, which the
  ROM tests compare with recorded results.
- Controllers: one shift position, read by one actor.
- The wrap of the 32-bit counters, and RAM contents.
- Reading and checking the cartridge file, the front end, the ROM database tool, benchmarks and tests:
  they run before or outside the emulation.
- The mapper's and the APU's interrupts are not composed with `Nes`, whose IRQ line does anything: that
  is weaker than either, and everything checked of `Nes` holds with them. What a composition would add
  is which interrupt a poll was for (`cpu/mod.rs:458`).
