---------------------------- MODULE PpuRegisters ----------------------------
(***************************************************************************)
(* The address registers of the PPU (ppu/mod.rs, InternalRegisters): the    *)
(* CPU sets them through PPUCTRL, PPUSCROLL and PPUADDR to scroll and to    *)
(* reach video memory, and rendering walks the same vram_addr over the      *)
(* nametables.                                                              *)
(*                                                                          *)
(* Of a scanline the dots that change vram_addr are kept, and the CPU may   *)
(* make any number of accesses between two of them.  An address is kept as  *)
(* its fields; fine_x_scroll only shifts pixels and is left out.            *)
(***************************************************************************)
EXTENDS Naturals

CONSTANTS
    Coarse,       \* 32: tile columns of a nametable, and values of its row field
    Rows,         \* 30: tile rows of a nametable
    Fine,         \* 8: rows of a tile
    Tiles,        \* 32: tiles fetched for a scanline
    LastVisible,  \* 239
    Written,      \* bytes the CPU writes to PPUSCROLL and PPUADDR
    AccessEvents  \* bound: the CPU makes accesses only after these events of a scanline

\* A byte, the 15 bits of vram_addr, and the PPU's address space of 14 bits.
Byte == Coarse * Fine
Addresses == 4 * Coarse * Coarse * Fine
BusSize == Addresses \div 2

ASSUME AddressAssumption ==
    /\ {Coarse, Rows, Fine, Tiles, LastVisible} \subseteq Nat \ {0}
    /\ Rows < Coarse
    /\ Fine % 2 = 0 /\ BusSize % Byte = 0
    /\ Written \subseteq 0..Byte - 1

VARIABLES
    registers,    \* vram_addr, temp_vram_addr, write_toggle, the increment and the mask
    scanline,     \* the lines 240 to 260 are one
    event,        \* the dots done in this scanline that change vram_addr
    panicked,     \* the program stopped
    origin,       \* history: where the rows and columns drawn now started
    addressed     \* history: vram_addr, and temp_vram_addr, have been set by PPUADDR

vars == <<registers, scanline, event, panicked, origin, addressed>>

\* Dots 8 to 256; 257; 280 and 304, the first and the last of those copying the row; 328, 336.
CopyX == Tiles + 1
CopyY == {Tiles + 2, Tiles + 3}
Prefetch == {Tiles + 4, Tiles + 5}
LastEvent == Tiles + 5

PreRender == LastVisible + 2

Position == [fine_y : 0..Fine - 1, nametable_y : 0..1, nametable_x : 0..1,
             coarse_y : 0..Coarse - 1, coarse_x : 0..Coarse - 1]

NoOrigin == Addresses

TypeOK ==
    /\ registers \in [vram_addr : Position, temp_vram_addr : Position, write_toggle : BOOLEAN,
                      going_down : BOOLEAN, rendering : BOOLEAN]
    /\ scanline \in 0..PreRender /\ event \in 0..LastEvent /\ panicked \in BOOLEAN
    /\ origin \in [row : 0..NoOrigin, column : 0..NoOrigin]
    /\ addressed \in [vram_addr : BOOLEAN, temp_vram_addr : BOOLEAN]

Init ==
    /\ LET zero == [fine_y |-> 0, nametable_y |-> 0, nametable_x |-> 0,
                    coarse_y |-> 0, coarse_x |-> 0]
       IN  registers = [vram_addr |-> zero, temp_vram_addr |-> zero, write_toggle |-> FALSE,
                        going_down |-> FALSE, rendering |-> FALSE]
    /\ scanline = 0 /\ event = 0 /\ panicked = FALSE
    /\ origin = [row |-> NoOrigin, column |-> NoOrigin]
    /\ addressed = [vram_addr |-> FALSE, temp_vram_addr |-> FALSE]

-----------------------------------------------------------------------------
(* Addresses *)

\* The bits of an address, from the lowest: column, row, nametable, row of the tile.
Address(p) ==
    p.coarse_x
      + Coarse * (p.coarse_y + Coarse * (p.nametable_x + 2 * (p.nametable_y + 2 * p.fine_y)))

At(address) ==
    [coarse_x |-> address % Coarse,
     coarse_y |-> (address \div Coarse) % Coarse,
     nametable_x |-> (address \div (Coarse * Coarse)) % 2,
     nametable_y |-> (address \div (2 * Coarse * Coarse)) % 2,
     fine_y |-> address \div (4 * Coarse * Coarse)]

\* Faulty: the column runs over the edge of its nametable.
IncrementXPastEdge(p) == [p EXCEPT !.coarse_x = @ + 1]

IncrementX(p) ==
    IF p.coarse_x = Coarse - 1 THEN [p EXCEPT !.coarse_x = 0, !.nametable_x = 1 - @]
    ELSE [p EXCEPT !.coarse_x = @ + 1]

\* Faulty: the attribute bytes below the last row are shown before the next nametable.
IncrementYPastRows(p) ==
    IF p.fine_y < Fine - 1 THEN [p EXCEPT !.fine_y = @ + 1]
    ELSE IF p.coarse_y = Coarse - 1
    THEN [p EXCEPT !.fine_y = 0, !.coarse_y = 0, !.nametable_y = 1 - @]
    ELSE [p EXCEPT !.fine_y = 0, !.coarse_y = @ + 1]

\* Below the last row lie two that are never reached by drawing, and wrap to the same nametable.
IncrementY(p) ==
    IF p.fine_y < Fine - 1 THEN [p EXCEPT !.fine_y = @ + 1]
    ELSE IF p.coarse_y = Rows - 1
    THEN [p EXCEPT !.fine_y = 0, !.coarse_y = 0, !.nametable_y = 1 - @]
    ELSE [p EXCEPT !.fine_y = 0, !.coarse_y = IF @ = Coarse - 1 THEN 0 ELSE @ + 1]

WithColumn(p, from) == [p EXCEPT !.coarse_x = from.coarse_x, !.nametable_x = from.nametable_x]

WithRow(p, from) ==
    [p EXCEPT !.fine_y = from.fine_y, !.coarse_y = from.coarse_y,
              !.nametable_y = from.nametable_y]

-----------------------------------------------------------------------------
(* The CPU's accesses *)

Toggled(r) == [r EXCEPT !.write_toggle = ~@]

\* PPUCTRL, its nametable and increment bits.
WriteControl(nametable_x, nametable_y, going_down) ==
    /\ registers' = [registers EXCEPT !.temp_vram_addr.nametable_x = nametable_x,
                                      !.temp_vram_addr.nametable_y = nametable_y,
                                      !.going_down = going_down]
    /\ UNCHANGED <<origin, addressed>>

WriteMask(rendering) ==
    /\ registers' = [registers EXCEPT !.rendering = rendering]
    /\ origin' = [row |-> NoOrigin, column |-> NoOrigin]
    /\ UNCHANGED addressed

ReadStatus ==
    /\ registers' = [registers EXCEPT !.write_toggle = FALSE]
    /\ UNCHANGED <<origin, addressed>>

\* PPUSCROLL: the column, then the row, whose fine part is bits 12 to 14 of an address.
WriteScroll(value) ==
    /\ \/ /\ ~registers.write_toggle
          /\ registers' = Toggled([registers EXCEPT !.temp_vram_addr.coarse_x = value \div Fine])
          /\ UNCHANGED addressed
       \/ /\ registers.write_toggle
          /\ registers' = Toggled([registers EXCEPT !.temp_vram_addr.coarse_y = value \div Fine,
                                                    !.temp_vram_addr.fine_y = value % Fine])
          /\ addressed' = [addressed EXCEPT !.temp_vram_addr = FALSE]
    /\ UNCHANGED origin

\* Faulty: the high byte is not cut to the six bits of the address space.
AddrHighUncut(p, value) ==
    At((Address(p) % Byte) + (value % (Addresses \div Byte)) * Byte)

AddrHigh(p, value) ==
    At((Address(p) % Byte) + (value % (BusSize \div Byte)) * Byte)

AddrLow(p, value) == At(Address(p) - (Address(p) % Byte) + value)

\* PPUADDR: the high byte, then the low one, which copies all 15 bits to vram_addr.
WriteAddr(value) ==
    LET t == registers.temp_vram_addr
        low == AddrLow(t, value)
    IN  \/ /\ ~registers.write_toggle
           /\ registers' = Toggled([registers EXCEPT !.temp_vram_addr = AddrHigh(t, value)])
           /\ addressed' = [addressed EXCEPT !.temp_vram_addr = TRUE]
           /\ UNCHANGED origin
        \/ /\ registers.write_toggle
           /\ registers' = Toggled([registers EXCEPT !.temp_vram_addr = low, !.vram_addr = low])
           /\ addressed' = [addressed EXCEPT !.vram_addr = addressed.temp_vram_addr]
           /\ origin' = [row |-> NoOrigin, column |-> NoOrigin]

\* PPUDATA, read or written: an address beyond 14 bits panics.
AccessData ==
    LET address == Address(registers.vram_addr)
        step == IF registers.going_down THEN Coarse ELSE 1
    IN  /\ UNCHANGED addressed
        /\ \/ /\ address < BusSize
              /\ registers' = [registers EXCEPT !.vram_addr = At((address + step) % BusSize)]
              /\ origin' = [row |-> NoOrigin, column |-> NoOrigin]
              /\ UNCHANGED panicked
           \/ /\ address >= BusSize
              /\ panicked' = TRUE
              /\ UNCHANGED <<registers, origin>>

CpuAccess ==
    /\ ~panicked /\ event \in AccessEvents
    /\ UNCHANGED <<scanline, event>>
    /\ \/ AccessData
       \/ /\ UNCHANGED panicked
          /\ \/ \E x \in 0..1, y \in 0..1, down \in BOOLEAN : WriteControl(x, y, down)
             \/ \E rendering \in BOOLEAN : WriteMask(rendering)
             \/ ReadStatus
             \/ \E value \in Written : WriteScroll(value) \/ WriteAddr(value)

-----------------------------------------------------------------------------
(* Rendering *)

Row(p) == p.fine_y + Fine * (p.coarse_y + Rows * p.nametable_y)
Column(p) == p.coarse_x + Coarse * p.nametable_x

\* Nothing is drawn in the lines 240 to 260.
Idle == scanline = LastVisible + 1

\* What a dot does to vram_addr.
AfterEvent(e) ==
    LET v == registers.vram_addr
        t == registers.temp_vram_addr
    IN  CASE e \in 1..Tiles - 1 \cup Prefetch -> IncrementX(v)
          [] e = Tiles -> IncrementY(IncrementX(v))
          [] e = CopyX -> WithColumn(v, t)
          [] e \in CopyY -> IF scanline = PreRender THEN WithRow(v, t) ELSE v

\* A row in the part of a nametable that is drawn is an origin, and one below is not.
OriginAfter(e) ==
    LET t == registers.temp_vram_addr
    IN  [row |-> IF e \in CopyY /\ scanline = PreRender
                 THEN IF t.coarse_y < Rows THEN Row(t) ELSE NoOrigin
                 ELSE origin.row,
         column |-> IF e = CopyX THEN Column(t) ELSE origin.column]

Dot ==
    /\ ~panicked /\ ~Idle
    /\ event < LastEvent /\ event' = event + 1
    /\ \/ /\ registers.rendering
          /\ registers' = [registers EXCEPT !.vram_addr = AfterEvent(event')]
          /\ origin' = OriginAfter(event')
          /\ addressed' = [addressed EXCEPT !.vram_addr = FALSE]
       \/ /\ ~registers.rendering
          /\ UNCHANGED <<registers, origin, addressed>>
    /\ UNCHANGED <<scanline, panicked>>

NextLine ==
    /\ ~panicked
    /\ event = LastEvent \/ Idle
    /\ event' = 0
    /\ scanline' = IF scanline < PreRender THEN scanline + 1 ELSE 0
    /\ UNCHANGED <<registers, panicked, origin, addressed>>

Next == CpuAccess \/ Dot \/ NextLine

Spec == Init /\ [][Next]_vars

-----------------------------------------------------------------------------
(* Properties *)

\* Drawing is where the scroll registers say: in every visible line the row is as many below the
\* one the frame started with as lines have been drawn, and the column as many tiles right of the
\* line's as have been fetched, wrapped at the nametables' edges; whatever the CPU writes to
\* PPUCTRL and PPUSCROLL meanwhile waits for the next frame, or line.
ScrollFollowsBeam ==
    scanline <= LastVisible =>
        /\ origin.row # NoOrigin =>
              Row(registers.vram_addr) =
                (origin.row + scanline + (IF event >= Tiles THEN 1 ELSE 0)) % (2 * Rows * Fine)
        /\ origin.column # NoOrigin =>
              Column(registers.vram_addr) =
                (origin.column + (CASE event <= Tiles -> event + 2
                                    [] event \in Prefetch -> event - Tiles - 3
                                    [] OTHER -> 0)) % (2 * Coarse)

\* The program panics in PPUDATA only when rendering moved vram_addr since, or PPUSCROLL's fine
\* row came in between: an address set by two writes of PPUADDR is one of the 14-bit bus, and
\* stays so however far PPUDATA goes on from it.
AddressedDataIsSafe == [][ addressed.vram_addr => ~panicked' ]_vars

=============================================================================
