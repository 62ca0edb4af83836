------------------------------ MODULE Sprites ------------------------------
(***************************************************************************)
(* The sprites of a scanline (ppu/sprites.rs): secondary OAM is cleared,    *)
(* the evaluation machine copies the first sprites in range into it and     *)
(* looks for one too many, and the fetch machine loads the output units     *)
(* from it, for the next line.                                              *)
(*                                                                          *)
(* A step is one dot, or one access of the CPU between two dots, which may  *)
(* write OAM, turn rendering on and off or change the sprites' size in the  *)
(* middle of either machine.  Attributes, positions and patterns are left   *)
(* out: of a fetched byte it is kept whether it belongs to this scanline.   *)
(***************************************************************************)
EXTENDS Naturals, FiniteSets

CONSTANTS
    N,            \* 64: MAX_SPRITES
    P,            \* 8: MAX_SPRITES_PER_LINE
    EvalDots,     \* 192: the dots the evaluation machine runs
    LastVisible,  \* 239
    PreRender,    \* 261
    Empty,        \* 255: what secondary OAM is cleared to
    Height,       \* 8: rows of a small sprite, a tall one has twice as many
    Bytes,        \* values the CPU writes to OAM
    Volatile,     \* bound: the OAM addresses the CPU writes, the others stay 0
    AccessDots    \* bound: the dots before which the CPU makes an access

OamSize == 4 * N
SecondarySize == 4 * P

ASSUME SpriteAssumption ==
    /\ {N, P, EvalDots, LastVisible, PreRender, Empty, Height} \subseteq Nat
    /\ 0 < P /\ P < N /\ 0 < Height
    /\ EvalDots >= 2 * N + 6 * P
    /\ LastVisible < Empty /\ LastVisible + 1 < PreRender
    /\ Bytes \subseteq 0..Empty /\ Volatile \subseteq 0..OamSize - 1

\* Dots 64, 256, 320 and 340.
ClearEnd == 2 * SecondarySize
EvalEnd == ClearEnd + EvalDots
FetchEnd == EvalEnd + 8 * P
LastDot == FetchEnd + 1

VARIABLES
    scanline, dot,
    rendering,        \* PpuMask::is_rendering_enabled
    sprite_height,
    oam_ram, oam_addr,
    eval,             \* the evaluation machine, with secondary_oam_ram
    fetch,            \* the fetch machine, as its step, and the Y it has read
    sprites,          \* the output units
    flags,            \* sprite_zero_visible, and sprite_overflow of the PPU's status
    undisturbed       \* history: rendered since dot 0, with no access, from the first sprite on

oamVars == <<oam_ram, oam_addr>>
vars == <<scanline, dot, rendering, sprite_height, oam_ram, oam_addr, eval, fetch, sprites,
          flags, undisturbed>>

Byte == 0..Empty

TypeOK ==
    /\ scanline \in 0..PreRender /\ dot \in 0..LastDot
    /\ rendering \in BOOLEAN /\ sprite_height \in {Height, 2 * Height}
    /\ oam_ram \in [0..OamSize - 1 -> Byte] /\ oam_addr \in 0..OamSize - 1
    /\ eval \in [step : {"ReadY", "WriteY", "ReadByte", "WriteByte", "Completed"},
                 count : 0..3, value : Byte, pointer : 0..SecondarySize,
                 secondary : [0..SecondarySize - 1 -> Byte]]
    /\ fetch \in [step : 0..8 * P, y : Byte]
    /\ sprites \in [0..P - 1 -> [visible : BOOLEAN, low : BOOLEAN, high : BOOLEAN]]
    /\ flags \in [sprite_zero_visible : BOOLEAN, sprite_overflow : BOOLEAN]
    /\ undisturbed \in BOOLEAN

Init ==
    /\ scanline = 0 /\ dot = 0 /\ rendering = FALSE /\ sprite_height = Height
    /\ oam_ram = [a \in 0..OamSize - 1 |-> 0] /\ oam_addr = 0
    /\ eval = [step |-> "ReadY", count |-> 0, value |-> 0, pointer |-> 0,
               secondary |-> [a \in 0..SecondarySize - 1 |-> Empty]]
    /\ fetch = [step |-> 0, y |-> 0]
    /\ sprites = [i \in 0..P - 1 |-> [visible |-> FALSE, low |-> FALSE, high |-> FALSE]]
    /\ flags = [sprite_zero_visible |-> FALSE, sprite_overflow |-> FALSE]
    /\ undisturbed = FALSE

-----------------------------------------------------------------------------
(* Evaluation *)

InRange(y) == y <= scanline /\ scanline < y + sprite_height

IsFull(e) == e.pointer >= SecondarySize

\* The byte that was read goes to secondary OAM, while there is room.
Stored(e) ==
    [e EXCEPT !.value = 0,
              !.secondary = IF IsFull(e) THEN @ ELSE [@ EXCEPT ![e.pointer] = e.value]]

\* Faulty: the pointer goes on behind the end of secondary OAM.
AdvancedPastEnd(e) == e.pointer + 1

\* The search for one too many moves the pointer on behind the end, which is kept as the end.
Advanced(e) == IF IsFull(e) THEN e.pointer ELSE e.pointer + 1

\* Behind the last sprite of the line the search goes on by five bytes, not four: the bug of
\* the hardware, which takes other bytes for Ys.
AfterMiss(e, addr) ==
    LET next == addr + 4
    IN  IF ~IsFull(e) THEN next ELSE IF next % 4 = 3 THEN next - 3 ELSE next + 1

\* The machine's state, its address and the two flags after a dot.
Outcome(e, addr, zero, overflow) ==
    [e |-> e, addr |-> addr, zero |-> zero, overflow |-> overflow]

ReadY(e, addr) ==
    Outcome([e EXCEPT !.step = "WriteY", !.value = oam_ram[addr]], addr, FALSE, FALSE)

WriteY(e, addr) ==
    LET stored == Stored(e)
        found == [stored EXCEPT !.pointer = Advanced(e)]
        next == AfterMiss(e, addr)
    IN  IF InRange(e.value)
        THEN IF addr + 1 < OamSize
             THEN Outcome([found EXCEPT !.step = "ReadByte", !.count = 1], addr + 1,
                          addr = 0, IsFull(found))
             ELSE Outcome([found EXCEPT !.step = "Completed"], addr, addr = 0, IsFull(found))
        ELSE IF next < OamSize
             THEN Outcome([stored EXCEPT !.step = "ReadY"], next, FALSE, FALSE)
             ELSE Outcome([stored EXCEPT !.step = "Completed"], addr, FALSE, FALSE)

ReadByte(e, addr) ==
    Outcome([e EXCEPT !.step = "WriteByte", !.value = oam_ram[addr]], addr, FALSE, FALSE)

WriteByte(e, addr) ==
    LET copied == [Stored(e) EXCEPT !.pointer = Advanced(e)]
    IN  IF addr >= OamSize - 1
        THEN Outcome([copied EXCEPT !.step = "Completed", !.count = 0], addr, FALSE, FALSE)
        ELSE IF e.count = 3
        THEN Outcome([copied EXCEPT !.step = "ReadY", !.count = 0], addr + 1, FALSE, FALSE)
        ELSE Outcome([copied EXCEPT !.step = "ReadByte", !.count = @ + 1], addr + 1,
                     FALSE, FALSE)

EvalStep(e, addr) ==
    CASE e.step = "ReadY" -> ReadY(e, addr)
      [] e.step = "WriteY" -> WriteY(e, addr)
      [] e.step = "ReadByte" -> ReadByte(e, addr)
      [] e.step = "WriteByte" -> WriteByte(e, addr)
      [] e.step = "Completed" -> Outcome(e, addr, FALSE, FALSE)

\* Faulty: the line goes on where the last one left secondary OAM.
RestartedAtPointer(e) == [e EXCEPT !.step = "ReadY", !.count = 0]

Restarted(e) == [e EXCEPT !.step = "ReadY", !.count = 0, !.pointer = 0]

Clear ==
    /\ eval' = [eval EXCEPT !.secondary[(dot - 1) \div 2] = Empty]
    /\ UNCHANGED <<oamVars, fetch, sprites, flags>>

Evaluate ==
    /\ \E o \in {EvalStep(IF dot = ClearEnd + 1 THEN Restarted(eval) ELSE eval, oam_addr)} :
        /\ eval' = o.e
        /\ oam_addr' = o.addr
        /\ flags' = [sprite_zero_visible |-> flags.sprite_zero_visible \/ o.zero,
                     sprite_overflow |-> flags.sprite_overflow \/ o.overflow]
    /\ UNCHANGED <<oam_ram, fetch, sprites>>

-----------------------------------------------------------------------------
(* Fetch *)

\* Faulty: the machine stops at the last unit before it has fetched anything for it.
UnitFetched(step) == IF step < 8 * (P - 1) THEN step + 1 ELSE 8 * P

\* Eight dots for each unit, but the last stops when its low byte is written.
NextFetchStep(step) == IF step < 8 * (P - 1) + 5 THEN step + 1 ELSE 8 * P

\* Of a unit's eight dots: read Y, tile, attributes and X; fetch and write the low byte; fetch
\* and write the high byte.
FetchedUnit(unit, in_unit, y) ==
    CASE in_unit \in {4, 6} -> [unit EXCEPT !.visible = InRange(y)]
      [] in_unit = 5 -> [unit EXCEPT !.low = TRUE]
      [] in_unit = 7 -> [unit EXCEPT !.high = TRUE]
      [] OTHER -> unit

Fetch ==
    LET step == IF dot = EvalEnd + 1 THEN 0 ELSE fetch.step
        i == step \div 8
        in_unit == step % 8
    IN  /\ oam_addr' = 0
        /\ \/ /\ step < 8 * P
              /\ fetch' = [step |-> NextFetchStep(step),
                           y |-> CASE in_unit = 0 -> eval.secondary[4 * i]
                                   [] in_unit # 0 /\ NextFetchStep(step) % 8 # 0 -> fetch.y
                                   [] OTHER -> 0]
              /\ sprites' = [sprites EXCEPT ![i] = FetchedUnit(@, in_unit, fetch.y)]
           \/ /\ step = 8 * P
              /\ UNCHANGED <<fetch, sprites>>
        /\ UNCHANGED <<oam_ram, eval, flags>>

-----------------------------------------------------------------------------
(* Dots and accesses *)

ClearSprites ==
    /\ flags' = [sprite_zero_visible |-> FALSE, sprite_overflow |-> FALSE]
    /\ sprites' = [i \in 0..P - 1 |-> [sprites[i] EXCEPT !.visible = FALSE]]
    /\ UNCHANGED <<oamVars, eval, fetch>>

\* What the units hold is from now on another line's.
AgeSprites ==
    /\ sprites' = [i \in 0..P - 1 |-> [sprites[i] EXCEPT !.low = FALSE, !.high = FALSE]]
    /\ UNCHANGED <<oamVars, eval, fetch, flags>>

Rendered == rendering /\ (scanline <= LastVisible \/ scanline = PreRender)

\* process_sprite_cycle, and dot 0 of handle_prerender_scanline_cycle.
ProcessSpriteCycle ==
    CASE dot = 0 /\ scanline = PreRender -> ClearSprites
      [] Rendered /\ dot \in 1..ClearEnd -> Clear
      [] Rendered /\ dot \in ClearEnd + 1 .. EvalEnd /\ scanline # PreRender -> Evaluate
      [] Rendered /\ dot \in EvalEnd + 1 .. FetchEnd -> Fetch
      [] dot = LastDot -> AgeSprites
      [] OTHER -> UNCHANGED <<oamVars, eval, fetch, sprites, flags>>

Dot ==
    /\ ProcessSpriteCycle
    /\ \/ /\ dot < LastDot /\ dot' = dot + 1 /\ UNCHANGED scanline
       \/ /\ dot = LastDot /\ dot' = 0
          /\ scanline' = IF scanline < PreRender THEN scanline + 1 ELSE 0
    /\ undisturbed' = CASE dot = 0 -> Rendered
                        [] dot = ClearEnd + 1 -> undisturbed /\ oam_addr = 0
                        [] OTHER -> undisturbed
    /\ UNCHANGED <<rendering, sprite_height>>

\* The unused bits of an attribute byte read 0: cut off in every fourth byte that is written.
Masked(index, value) == IF index % 4 = 2 THEN value - 4 * ((value \div 4) % 8) ELSE value

WriteOam(address, value) ==
    address \in Volatile /\ oam_ram' = [oam_ram EXCEPT ![address] = value]

WriteOamAddr == oam_addr' \in Volatile \cup {0} /\ UNCHANGED <<oam_ram, rendering, sprite_height>>

WriteOamData ==
    /\ \E value \in Bytes : WriteOam(oam_addr, Masked(oam_addr, value))
    /\ oam_addr' = (oam_addr + 1) % OamSize
    /\ UNCHANGED <<rendering, sprite_height>>

\* One byte of a DMA, relative to OAMADDR, which it leaves alone; the attribute bytes are counted
\* from there, too, wherever OAMADDR points.
DmaWrite ==
    /\ \E dma_byte \in 0..OamSize - 1, value \in Bytes :
        WriteOam((oam_addr + dma_byte) % OamSize, Masked(dma_byte, value))
    /\ UNCHANGED <<oam_addr, rendering, sprite_height>>

WriteMask == rendering' = ~rendering /\ UNCHANGED <<oamVars, sprite_height>>

WriteControl ==
    /\ sprite_height' \in {Height, 2 * Height} \ {sprite_height}
    /\ UNCHANGED <<oamVars, rendering>>

CpuAccess ==
    /\ dot \in AccessDots
    /\ WriteOamAddr \/ WriteOamData \/ DmaWrite \/ WriteMask \/ WriteControl
    /\ undisturbed' = FALSE
    /\ UNCHANGED <<scanline, dot, eval, fetch, sprites, flags>>

Next == Dot \/ CpuAccess

Spec == Init /\ [][Next]_vars

-----------------------------------------------------------------------------
(* Properties *)

\* The sprites of this line, and how many come before sprite i in OAM.
Found == {i \in 0..N - 1 : InRange(oam_ram[4 * i])}

FoundBefore(i) == Cardinality({j \in Found : j < i})

Slot(k) == [b \in 0..3 |-> eval.secondary[4 * k + b]]
OfOam(i) == [b \in 0..3 |-> oam_ram[4 * i + b]]

IsEvaluated == undisturbed /\ scanline <= LastVisible /\ dot = EvalEnd + 1

\* In the dots there are, the machine copies the first sprites in range, whole and in order,
\* and leaves no other in range; sprite zero is known to be among them; and one sprite too many
\* is noticed when it comes right after the last one.
FirstSpritesFound ==
    IsEvaluated =>
        /\ \A i \in Found : FoundBefore(i) < P => Slot(FoundBefore(i)) = OfOam(i)
        /\ \A k \in Cardinality(Found)..P - 1 : ~InRange(Slot(k)[0])
        /\ 0 \in Found => flags.sprite_zero_visible
        /\ \A i \in Found : i - 1 \in Found /\ FoundBefore(i) = P => flags.sprite_overflow

\* When a line's fetches are done, a unit is shown exactly when its slot holds a sprite of the
\* line, and its pattern is of this line: both bytes, but for the last unit, whose high byte is
\* never fetched.
UnitsShowSlots ==
    undisturbed /\ scanline <= LastVisible /\ dot = FetchEnd + 1 =>
        \A i \in 0..P - 1 :
            /\ sprites[i].visible <=> i < Cardinality(Found)
            /\ sprites[i].low
            /\ i < P - 1 => sprites[i].high

=============================================================================
