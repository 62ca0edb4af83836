------------------------------ MODULE Mmc3Irq ------------------------------
(***************************************************************************)
(* The scanline interrupt of MMC3 (cartridge/mappers/mmc3.rs): a counter    *)
(* clocked by rises of PPU address line A12, seen in the fetches of the PPU *)
(* (ppu/mod.rs, fetch_data; ppu/sprites.rs) and in the CPU's own accesses   *)
(* of video memory, and filtered by how long the line was low.              *)
(*                                                                          *)
(* A step is one dot, before which the CPU may make one access.  Of an      *)
(* address only A12 is kept, and "none" for $2000 and above.                *)
(***************************************************************************)
EXTENDS Naturals

CONSTANTS
    Tiles,        \* 32: background tiles fetched for a scanline
    SpriteUnits,  \* 8: sprites fetched for a scanline
    LastVisible,  \* 239
    PreRender,    \* 261
    Latches,      \* values the CPU writes to the latch
    AccessDots    \* the dots before which the CPU may make an access

ASSUME ScheduleAssumption ==
    /\ Tiles \in Nat \ {0} /\ SpriteUnits \in Nat /\ SpriteUnits >= 2
    /\ LastVisible \in Nat /\ PreRender \in Nat /\ LastVisible + 1 < PreRender
    /\ Latches \subseteq 0..255

\* The parts of a scanline: dots 256, 320, 336 and 340.
BgEnd == 8 * Tiles
SpriteEnd == BgEnd + 8 * SpriteUnits
PrefetchEnd == SpriteEnd + 16
LastDot == PrefetchEnd + 4

VARIABLES
    scanline, dot,
    ppu,          \* the registers that decide what is fetched
    fetch,        \* next_address, and where the sprite fetch machine is
    irq,          \* the CHR chip
    seen,         \* history: clocks in this line; the value last loaded, and clocks since then
    steady        \* history: 0, in a line the CPU disturbed; 2, after a fetched line it did not

vars == <<scanline, dot, ppu, fetch, irq, seen, steady>>

Levels == {"low", "high", "none"}
Tables == {"low", "high"}

\* a12_cycles_at_last_low is kept as the age of that cycle, up to the length of the filter.
FilterLength == 6
NeverLow == FilterLength + 1

CounterRange == {0} \cup UNION {0..l : l \in Latches}

Registers == [rendering : BOOLEAN, background : Tables, sprites : Tables, tall_sprites : BOOLEAN]

TypeOK ==
    /\ scanline \in 0..PreRender /\ dot \in 0..LastDot
    /\ ppu \in Registers
    /\ fetch \in [next : Levels, sprite_step : 0..8 * SpriteUnits, table : Tables]
    /\ irq \in [low : 0..NeverLow, irq_latch : Latches \cup {0}, irq_counter : CounterRange,
                reload : BOOLEAN, irq_enabled : BOOLEAN, irq_triggered : BOOLEAN]
    /\ seen \in [clocks : 0..2, loaded : Latches \cup {0}, since : CounterRange]
    /\ steady \in 0..2

Init ==
    /\ scanline = 0 /\ dot = 0
    /\ ppu = [rendering |-> FALSE, background |-> "low", sprites |-> "low",
              tall_sprites |-> FALSE]
    /\ fetch = [next |-> "low", sprite_step |-> 0, table |-> "low"]
    /\ irq = [low |-> NeverLow, irq_latch |-> 0, irq_counter |-> 0, reload |-> FALSE,
              irq_enabled |-> FALSE, irq_triggered |-> FALSE]
    /\ seen = [clocks |-> 0, loaded |-> 0, since |-> 0]
    /\ steady = 0

-----------------------------------------------------------------------------
(* The CHR chip *)

\* Faulty: the counter is decremented in the clock that reloads it, too.
ClockReloadsLow(i) ==
    LET counter == IF i.reload THEN (IF i.irq_latch = 0 THEN 0 ELSE i.irq_latch - 1)
                   ELSE IF i.irq_counter = 0 THEN i.irq_latch ELSE i.irq_counter - 1
    IN  [i EXCEPT !.irq_counter = counter, !.reload = FALSE,
                  !.irq_triggered = i.irq_triggered \/ (counter = 0 /\ i.irq_enabled)]

\* Faulty: only a write reloads the counter, which runs on below zero.
ClockWraps(i) ==
    LET counter == IF i.reload THEN i.irq_latch ELSE (i.irq_counter + 255) % 256
    IN  [i EXCEPT !.irq_counter = counter, !.reload = FALSE,
                  !.irq_triggered = i.irq_triggered \/ (counter = 0 /\ i.irq_enabled)]

ClockIrqCounter(i) ==
    LET reloads == i.reload \/ i.irq_counter = 0
        counter == IF reloads THEN i.irq_latch ELSE i.irq_counter - 1
    IN  [i EXCEPT !.irq_counter = counter,
                  !.reload = FALSE,
                  !.irq_triggered = i.irq_triggered \/ (counter = 0 /\ i.irq_enabled)]

\* Faulty: any rise of A12 counts.
IsClockUnfiltered(i, level) == level = "high" /\ i.low # NeverLow

\* A rise of A12 after at least six cycles of low.
IsClock(i, level) == level = "high" /\ i.low = FilterLength

\* update_vram_address: a rise too early is ignored, and leaves the last low as it is.
UpdateVramAddress(i, level) ==
    CASE level = "low" -> [i EXCEPT !.low = 0]
      [] IsClock(i, level) -> [ClockIrqCounter(i) EXCEPT !.low = NeverLow]
      [] OTHER -> i

WriteLatch(i, value) == [i EXCEPT !.irq_latch = value]

WriteReload(i) == [i EXCEPT !.irq_counter = 0, !.irq_triggered = FALSE, !.reload = TRUE]

\* Faulty: disabling leaves an interrupt that was triggered before.
WriteDisableOnly(i) == [i EXCEPT !.irq_enabled = FALSE]

WriteDisable(i) == [i EXCEPT !.irq_enabled = FALSE, !.irq_triggered = FALSE]

WriteEnable(i) == [i EXCEPT !.irq_enabled = TRUE]

\* check_trigger_irq, as the poll at the end of an instruction calls it.
Polled(i) == [i EXCEPT !.irq_triggered = FALSE]

Aged(i) == [i EXCEPT !.low = IF i.low < FilterLength THEN i.low + 1 ELSE i.low]

-----------------------------------------------------------------------------
(* What the PPU fetches *)

InBackground(d) == d <= BgEnd \/ d \in SpriteEnd + 1 .. PrefetchEnd
InSprites(d) == d \in BgEnd + 1 .. SpriteEnd

\* fetch_data: the address is put together in one dot,
NextAddress(d, next) ==
    CASE d % 8 \in {1, 3} -> "none"
      [] d % 8 \in {5, 7} /\ (d <= BgEnd \/ d > SpriteEnd) -> ppu.background
      [] OTHER -> next

\* and read in the next.
ReadsNext(d) == d > 0 /\ (d % 8 \in {2, 4} \/ (d % 8 \in {6, 0} /\ InBackground(d)))

\* The sprite fetch machine takes eight dots for each sprite, the last reads no high byte.
FetchesLow(step) == step % 8 = 4 /\ step < 8 * SpriteUnits
FetchesHigh(step) == step % 8 = 6 /\ step < 8 * (SpriteUnits - 1)

SpriteStep(d) == IF d = BgEnd + 1 THEN 0 ELSE fetch.sprite_step

\* Tall sprites choose the table by their tile, for both bytes.  The slot that only holds the Y
\* of a sprite out of range reads its high byte behind the end of its table.
SpriteLevels(step) ==
    CASE ppu.tall_sprites /\ FetchesLow(step) -> Tables
      [] ppu.tall_sprites /\ FetchesHigh(step) -> {fetch.table}
      [] ~ppu.tall_sprites /\ FetchesLow(step) -> {ppu.sprites}
      [] ~ppu.tall_sprites /\ FetchesHigh(step) ->
            {ppu.sprites, IF ppu.sprites = "low" THEN "high" ELSE "none"}
      [] OTHER -> {"none"}

\* What is left in secondary OAM by a line the CPU disturbed may lie anywhere.
FetchedLevels(d) ==
    CASE ReadsNext(d) -> {fetch.next}
      [] ~ReadsNext(d) /\ InSprites(d) ->
            LET levels == SpriteLevels(SpriteStep(d))
            IN  IF steady = 0 /\ levels # {"none"} THEN Levels ELSE levels
      [] OTHER -> {"none"}

-----------------------------------------------------------------------------
(* One dot *)

Capped(n, bound) == IF n < bound THEN n ELSE bound

\* What an address does to the history: a period starts with a reload, or when one has run out.
SeeAddress(s, i, level) ==
    IF ~IsClock(i, level) THEN s
    ELSE LET starts == i.reload \/ s.since = s.loaded
         IN  [clocks |-> Capped(s.clocks + 1, 2),
              loaded |-> IF starts THEN i.irq_latch ELSE s.loaded,
              since |-> IF starts THEN 0 ELSE s.since + 1]

\* The last line of a short frame ends a dot early: PpuVBlank says when.
NextPosition ==
    \/ /\ dot < LastDot /\ dot' = dot + 1 /\ UNCHANGED scanline
    \/ /\ dot = LastDot \/ (dot = LastDot - 1 /\ scanline = PreRender /\ ppu.rendering)
       /\ dot' = 0 /\ scanline' = IF scanline < PreRender THEN scanline + 1 ELSE 0

Fetches == ppu.rendering /\ (scanline <= LastVisible \/ scanline = PreRender)

LineSeen(s) == IF dot' = 0 THEN [s EXCEPT !.clocks = 0] ELSE s

\* The PPU's dot after the CPU left chip i and history s.
RunDot(i, s) ==
    /\ NextPosition
    /\ \/ /\ Fetches
          /\ \E level \in FetchedLevels(dot) :
                /\ irq' = Aged(UpdateVramAddress(i, level))
                /\ seen' = LineSeen(SeeAddress(s, i, level))
                /\ fetch' =
                    [next |-> IF dot = 0 THEN fetch.next ELSE NextAddress(dot, fetch.next),
                     sprite_step |-> IF InSprites(dot)
                                     THEN Capped(SpriteStep(dot) + 1, 8 * SpriteUnits)
                                     ELSE fetch.sprite_step,
                     table |-> IF ppu.tall_sprites /\ level \in Tables /\ InSprites(dot)
                               THEN level ELSE "low"]
       \/ /\ ~Fetches
          /\ irq' = Aged(i) /\ seen' = LineSeen(s) /\ UNCHANGED fetch

LineEnds == steady' = IF dot' # 0 THEN steady
                      ELSE IF steady = 0 THEN 1
                      ELSE IF Fetches THEN 2 ELSE steady

\* No access to the chip's registers, to video memory or to PPUCTRL and PPUMASK.
Quiet == RunDot(irq, seen) /\ LineEnds /\ UNCHANGED ppu

Written(i) == {i, WriteReload(i), WriteDisable(i), WriteEnable(i)}
              \cup {WriteLatch(i, value) : value \in Latches}

\* A write to the chip's registers, a poll at the end of the instruction, or both.
Access ==
    /\ dot \in AccessDots
    /\ \E i \in Written(irq) : \E j \in {i, Polled(i)} : RunDot(j, seen)
    /\ LineEnds
    /\ UNCHANGED ppu

\* PPUADDR and PPUDATA show the chip an address of the CPU's.
TouchVram ==
    /\ dot \in AccessDots
    /\ \E level \in Tables :
        RunDot(UpdateVramAddress(irq, level), SeeAddress(seen, irq, level))
    /\ steady' = 0
    /\ UNCHANGED ppu

\* PPUCTRL and PPUMASK, which the next dot reads.
WriteControl ==
    /\ dot \in AccessDots
    /\ RunDot(irq, seen)
    /\ ppu' \in Registers
    /\ steady' = 0

Next == Quiet \/ Access \/ TouchVram \/ WriteControl

Spec == Init /\ [][Next]_vars

-----------------------------------------------------------------------------
(* Properties *)

\* The counter counts scanlines.  In a fetched line the CPU leaves alone, 8x8 sprites from the
\* other table than the background clock it once, wherever the sprites are, and from the same
\* table never; only from the second such line on, when the background's table is the high one.
OncePerScanline ==
    [][ dot = LastDot /\ Fetches /\ ~ppu.tall_sprites /\ steady # 0 =>
        CASE ppu.background = "low" /\ ppu.sprites = "high" -> seen.clocks = 1
          [] ppu.background = "high" /\ ppu.sprites = "low" -> steady = 2 => seen.clocks = 1
          [] OTHER -> steady = 2 => seen.clocks = 0 ]_vars

\* No interrupt outlives the write that disables it, wherever between two clocks it lands.
TriggeredIsEnabled == irq.irq_triggered => irq.irq_enabled

\* The interrupt is raised by the last of latch + 1 clocks, counted from the one that loads the
\* latch: after a write of the reload register, or when the last period has run out.  Writing
\* the latch, switching the interrupt or polling in between does not move it.
IrqPeriod ==
    [][ /\ irq'.irq_triggered /\ ~irq.irq_triggered => seen'.since = seen'.loaded
        /\ seen'.since # seen.since /\ seen'.since = seen'.loaded =>
               irq'.irq_triggered = irq'.irq_enabled ]_vars

=============================================================================
