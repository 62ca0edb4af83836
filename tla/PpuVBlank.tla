----------------------------- MODULE PpuVBlank -----------------------------
(***************************************************************************)
(* The frame timing of the PPU (emulator/src/ppu/mod.rs): the dot counter   *)
(* and the short frames, the vertical blank flag and the NMI, and the CPU   *)
(* accesses that race with them.                                            *)
(*                                                                          *)
(* A step is one Cpu::next: every third one the CPU is clocked first, with  *)
(* at most one register read, one poll and one register write in that       *)
(* order, and then the PPU runs one dot.  Pixels, fetches and sprites are   *)
(* left out, except that drawing may set the sprite zero flag.              *)
(***************************************************************************)
EXTENDS Naturals

CONSTANTS
    LastDot,       \* 340: dots 0..LastDot in a scanline
    LastDrawnDot,  \* 256
    LastVisible,   \* 239: scanlines 0..LastVisible are drawn
    PreRender,     \* 261: the last scanline
    StartDot       \* 27: the dot of scanline 0 the PPU starts at

ASSUME FrameAssumption ==
    /\ {LastDot, LastDrawnDot, LastVisible, PreRender, StartDot} \subseteq Nat
    /\ 0 < LastDrawnDot /\ LastDrawnDot < LastDot - 1
    /\ LastVisible + 2 < PreRender
    /\ 0 < StartDot /\ StartDot <= LastDot

VARIABLES
    ppu,                \* the PPU's state, a record
    cpu_cycle_counter,  \* 1: the CPU is clocked in the next step
    last_skipped        \* history: the last pre-render line finished lost its last dot

vars == <<ppu, cpu_cycle_counter, last_skipped>>

\* The scanline whose dot 1 starts vertical blank.
VBlankLine == LastVisible + 2

\* nmi_interrupt holds the cycle an NMI was raised in, and is compared with the last three
\* only: the model keeps that cycle's age, up to Ripe.
Ripe == 3
NoNmi == 4

PpuState ==
    [scanline : 0..PreRender, dot : 0..LastDot,
     is_short_frame : BOOLEAN,
     rendering : BOOLEAN,        \* PpuMask::is_rendering_enabled
     nmi_enable : BOOLEAN,
     vblank_started : BOOLEAN,
     sprite_zero_hit : BOOLEAN,
     status_read : BOOLEAN,      \* last_ppu_status_read_cycle is the current cycle
     nmi : 0..NoNmi]             \* age of nmi_interrupt, NoNmi for None

TypeOK == ppu \in PpuState /\ cpu_cycle_counter \in 1..3 /\ last_skipped \in BOOLEAN

Init ==
    /\ ppu = [scanline |-> 0, dot |-> StartDot, is_short_frame |-> FALSE,
              rendering |-> FALSE, nmi_enable |-> FALSE, vblank_started |-> FALSE,
              sprite_zero_hit |-> FALSE, status_read |-> FALSE, nmi |-> NoNmi]
    /\ cpu_cycle_counter = 1
    /\ last_skipped = FALSE

-----------------------------------------------------------------------------
(* CPU accesses *)

IsFresh(p) == p.nmi < Ripe

\* Faulty: an NMI is seen only while the flag that raised it is still up.
NmiReadyInVBlank(p) == p.nmi = Ripe /\ p.vblank_started

\* check_ppu_nmi: an NMI is seen once it is three dots old.
NmiReady(p) == p.nmi = Ripe

Polled(p, clear) == IF clear /\ NmiReady(p) THEN [p EXCEPT !.nmi = NoNmi] ELSE p

\* Faulty: reading PPUSTATUS takes nothing back.
ReadStatusKeepsNmi(p) == [p EXCEPT !.status_read = TRUE, !.vblank_started = FALSE]

\* Faulty: reading PPUSTATUS takes back an NMI of any age.
ReadStatusTakesAnyNmi(p) ==
    [p EXCEPT !.nmi = NoNmi, !.status_read = TRUE, !.vblank_started = FALSE]

\* Reading PPUSTATUS clears the flag, and takes back an NMI of the last two dots.
ReadStatus(p) ==
    [p EXCEPT !.nmi = IF IsFresh(p) THEN NoNmi ELSE p.nmi,
              !.status_read = TRUE,
              !.vblank_started = FALSE]

\* Faulty: writing an enable bit that is already set raises another NMI.
RaisesNmiAgain(p, enable) ==
    /\ enable /\ p.vblank_started
    /\ ~(p.scanline = PreRender /\ p.dot = 1)

\* Writing PPUCTRL: enabling NMI in vertical blank raises one, unless the flag is about to
\* be cleared; disabling it takes back an NMI of the last two dots.
RaisesNmi(p, enable) ==
    /\ ~p.nmi_enable /\ enable /\ p.vblank_started
    /\ ~(p.scanline = PreRender /\ p.dot = 1)

\* Faulty: disabling NMI takes nothing back.
WriteCtrlKeepsNmi(p, enable) ==
    [p EXCEPT !.nmi_enable = enable, !.nmi = IF RaisesNmi(p, enable) THEN 0 ELSE p.nmi]

WriteCtrl(p, enable) ==
    [p EXCEPT !.nmi_enable = enable,
              !.nmi = CASE RaisesNmi(p, enable) -> 0
                        [] ~enable /\ IsFresh(p) -> NoNmi
                        [] OTHER -> p.nmi]

WriteMask(p, show) == [p EXCEPT !.rendering = show]

AfterRead(p, register) == IF register = "PPUSTATUS" THEN ReadStatus(p) ELSE p

AfterWrite(p, register, bit) ==
    CASE register = "PPUCTRL" -> WriteCtrl(p, bit)
      [] register = "PPUMASK" -> WriteMask(p, bit)
      [] OTHER -> p

\* One CPU cycle: what it reads, whether it polls and clears, what it writes.
AfterCpuCycle(p, read, clear, write, bit) ==
    AfterWrite(Polled(AfterRead(p, read), clear), write, bit)

-----------------------------------------------------------------------------
(* Ppu::next *)

At(p, scanline, dot) == p.scanline = scanline /\ p.dot = dot

\* Faulty: a scanline is one dot too long.
NextCycleLate(p) ==
    CASE p.dot <= LastDot -> [p EXCEPT !.dot = p.dot + 1]
      [] p.dot > LastDot /\ p.scanline < PreRender ->
            [p EXCEPT !.dot = 0, !.scanline = p.scanline + 1]
      [] OTHER -> [p EXCEPT !.dot = 0, !.scanline = 0]

NextCycle(p) ==
    CASE p.dot < LastDot -> [p EXCEPT !.dot = p.dot + 1]
      [] p.dot = LastDot /\ p.scanline < PreRender ->
            [p EXCEPT !.dot = 0, !.scanline = p.scanline + 1]
      [] OTHER -> [p EXCEPT !.dot = 0, !.scanline = 0]

\* Faulty: only frames that start with rendering on are counted.
ToggleShortFrameRendered(p) ==
    IF At(p, 0, 0) /\ p.rendering THEN [p EXCEPT !.is_short_frame = ~p.is_short_frame] ELSE p

\* Every other frame is short: toggled at its first dot.
ToggleShortFrame(p) ==
    IF At(p, 0, 0) THEN [p EXCEPT !.is_short_frame = ~p.is_short_frame] ELSE p

SkipsLastDot(p) == At(p, PreRender, LastDot - 1) /\ p.is_short_frame /\ p.rendering

\* draw_pixel may find the first overlap of sprite 0 and the background; not at x = 255.
MayHitSpriteZero(p) ==
    p.rendering /\ p.scanline <= LastVisible /\ p.dot >= 1 /\ p.dot < LastDrawnDot

\* Vertical blank starts, unless PPUSTATUS was read in this very cycle.
StartsVBlank(p) == At(p, VBlankLine, 1) /\ ~p.status_read

StartVBlank(p) ==
    IF StartsVBlank(p)
    THEN [p EXCEPT !.vblank_started = TRUE, !.nmi = IF p.nmi_enable THEN 0 ELSE p.nmi]
    ELSE p

\* Faulty: the flag is cleared a dot late.
PreRenderClearsLate(p) ==
    [p EXCEPT !.sprite_zero_hit = p.sprite_zero_hit /\ ~At(p, PreRender, 0),
              !.vblank_started = p.vblank_started /\ ~At(p, PreRender, 2)]

PreRenderClears(p) ==
    [p EXCEPT !.sprite_zero_hit = p.sprite_zero_hit /\ ~At(p, PreRender, 0),
              !.vblank_started = p.vblank_started /\ ~At(p, PreRender, 1)]

\* total_cycles += 1.
AgeCycles(p) ==
    [p EXCEPT !.nmi = IF IsFresh(p) THEN p.nmi + 1 ELSE p.nmi, !.status_read = FALSE]

Tick(p, hit) ==
    LET drawn == [ToggleShortFrame(p) EXCEPT !.sprite_zero_hit = p.sprite_zero_hit \/ hit]
        flagged == PreRenderClears(StartVBlank(drawn))
        moved == NextCycle(flagged)
    IN  AgeCycles(IF SkipsLastDot(drawn) THEN NextCycle(moved) ELSE moved)

RunDot(p) ==
    /\ \E hit \in BOOLEAN : (hit => MayHitSpriteZero(p)) /\ ppu' = Tick(p, hit)
    /\ last_skipped' = IF At(ppu', 0, 0) THEN p.dot # LastDot ELSE last_skipped

-----------------------------------------------------------------------------

NextDot ==
    /\ cpu_cycle_counter > 1
    /\ cpu_cycle_counter' = cpu_cycle_counter - 1
    /\ RunDot(ppu)

\* On its own the PPU meets a CPU that does anything.
NextCpuCycle ==
    /\ cpu_cycle_counter = 1
    /\ cpu_cycle_counter' = 3
    /\ \E read \in {"memory", "PPUSTATUS"}, write \in {"memory", "PPUCTRL", "PPUMASK"},
          clear, bit \in BOOLEAN : RunDot(AfterCpuCycle(ppu, read, clear, write, bit))

Next == NextDot \/ NextCpuCycle

Spec == Init /\ [][Next]_vars

-----------------------------------------------------------------------------
(* Properties *)

\* The flag is up only between dot 1 of the line after the post-render line and dot 1 of the
\* pre-render line (ppustatus.rs, vblank_started), whatever the CPU reads and writes.
VBlankWindow ==
    ppu.vblank_started =>
        \/ ppu.scanline = VBlankLine /\ ppu.dot > 1
        \/ ppu.scanline \in VBlankLine + 1 .. PreRender - 1
        \/ ppu.scanline = PreRender /\ ppu.dot <= 1

\* An NMI that can still be taken back belongs to a flag that is up and enabled, but for the
\* one dot after the pre-render line clears the flag.
FreshNmiHasCause ==
    IsFresh(ppu) =>
        /\ ppu.nmi_enable
        /\ ppu.vblank_started \/ At(ppu, PreRender, 2)

\* The flag and the enable bit, combined, drive an output line, and what the code keeps in
\* nmi_interrupt is exactly the edges of that line: see NmiLine.
Line == INSTANCE NmiLine WITH
            output <- ppu.vblank_started /\ ppu.nmi_enable,
            edge <- IF IsFresh(ppu) THEN "fresh" ELSE IF NmiReady(ppu) THEN "ripe" ELSE "none"

ImplementsNmiLine == Line!Spec

\* Frames lose their last dot at most every other time ("every other frame the pre-render
\* scanline takes one fewer cycle", mod.rs:166), however rendering is switched meanwhile,
\* and only when rendering is on at the dot before.
NeverTwoShortFrames ==
    [][At(ppu, PreRender, LastDot - 1) /\ ppu'.dot = 0 => ~last_skipped /\ ppu'.rendering]_vars

\* ppustatus.rs:5 says sprite_zero_hit is "cleared at dot 1 of the line 261".
SpriteZeroHitClearedAtDot1 ==
    [][ppu.sprite_zero_hit /\ ~ppu'.sprite_zero_hit => At(ppu, PreRender, 1)]_vars
=============================================================================
