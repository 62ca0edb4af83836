--------------------------- MODULE PpuVBlank_proofs ---------------------------
(***************************************************************************)
(* Proofs about PpuVBlank, for every frame size: the vertical blank window, *)
(* the short frames, and that nmi_interrupt is the edges of the NMI output. *)
(*                                                                          *)
(* A step is the CPU's accesses (AfterCpuCycle) and then a dot of the PPU   *)
(* (Tick).  AccessFacts and TickFacts say what each does, and the rest of   *)
(* the proofs is about those facts.                                         *)
(***************************************************************************)
EXTENDS PpuVBlank, TLAPS

-----------------------------------------------------------------------------
(* The inductive invariant *)

Output(p) == p.vblank_started /\ p.nmi_enable

\* Every NMI has been through the dot that raised it.  The youngest comes from a CPU access
\* of the latest step or from the start of vertical blank.
YoungNmiInv ==
    /\ ppu.nmi # 0
    /\ ppu.nmi = 1 => cpu_cycle_counter = 3 \/ At(ppu, VBlankLine, 2)

\* The one dot in which an NMI is fresh and the flag is already down is not a CPU cycle.
LateNmiInv == At(ppu, PreRender, 2) /\ IsFresh(ppu) => ppu.nmi = 2 /\ cpu_cycle_counter = 2

\* After a short frame comes a long one: is_short_frame is toggled at the first dot.
ShortFrameInv ==
    last_skipped => (ppu.is_short_frame <=> At(ppu, 0, 0))

IInv == TypeOK /\ VBlankWindow /\ FreshNmiHasCause /\ YoungNmiInv /\ LateNmiInv /\ ShortFrameInv

-----------------------------------------------------------------------------
(* The CPU's accesses *)

\* What the accesses of a CPU cycle do to the PPU.
Accessed(p, q) ==
    /\ q \in PpuState
    /\ q.scanline = p.scanline /\ q.dot = p.dot /\ q.is_short_frame = p.is_short_frame
    /\ q.vblank_started => p.vblank_started
    /\ q.nmi \in {0, p.nmi, NoNmi}
    /\ q.nmi = 0 => ~Output(p) /\ Output(q) /\ ~At(p, PreRender, 1)
    /\ ~Output(p) /\ Output(q) => q.nmi = 0 \/ At(p, PreRender, 1)
    /\ q.nmi = p.nmi /\ IsFresh(p) /\ p.nmi_enable =>
          q.nmi_enable /\ q.vblank_started = p.vblank_started
    /\ q.nmi = NoNmi /\ IsFresh(p) => ~Output(q)

LEMMA ReadFacts ==
    ASSUME NEW p \in PpuState, p.nmi # 0, NEW read
    PROVE  LET q == AfterRead(p, read)
           IN  /\ q \in PpuState /\ q.scanline = p.scanline /\ q.dot = p.dot
               /\ q.is_short_frame = p.is_short_frame /\ q.nmi_enable = p.nmi_enable
               /\ q.vblank_started => p.vblank_started
               /\ q.nmi = p.nmi \/ (q.nmi = NoNmi /\ IsFresh(p) /\ ~q.vblank_started)
               /\ q.nmi = p.nmi /\ IsFresh(p) => q.vblank_started = p.vblank_started
  <1>1. CASE read = "PPUSTATUS"
    <2> DEFINE n == IF IsFresh(p) THEN NoNmi ELSE p.nmi
    <2>1. AfterRead(p, read)
            = [p EXCEPT !.nmi = n, !.status_read = TRUE, !.vblank_started = FALSE]
      BY <1>1 DEF AfterRead, ReadStatus
    <2>2. /\ n \in 0..NoNmi
          /\ IsFresh(p) => n = NoNmi
          /\ ~IsFresh(p) => n = p.nmi
          /\ IsFresh(p) => n # p.nmi
      BY DEF PpuState, NoNmi, IsFresh, Ripe
    <2> HIDE DEF n
    <2> QED
      BY <2>1, <2>2 DEF PpuState
  <1>2. CASE read # "PPUSTATUS"
    BY <1>2 DEF AfterRead
  <1> QED
    BY <1>1, <1>2

LEMMA PollFacts ==
    ASSUME NEW p \in PpuState, NEW clear \in BOOLEAN
    PROVE  LET q == Polled(p, clear)
           IN  /\ q \in PpuState /\ q.scanline = p.scanline /\ q.dot = p.dot
               /\ q.is_short_frame = p.is_short_frame /\ q.nmi_enable = p.nmi_enable
               /\ q.vblank_started = p.vblank_started
               /\ q.nmi = p.nmi \/ (q.nmi = NoNmi /\ p.nmi = Ripe)
  BY DEF Polled, NmiReady, PpuState, NoNmi, Ripe

LEMMA WriteFacts ==
    ASSUME NEW p \in PpuState, p.nmi # 0, NEW write, NEW bit \in BOOLEAN
    PROVE  Accessed(p, AfterWrite(p, write, bit))
  <1> DEFINE q == AfterWrite(p, write, bit)
  <1>1. CASE write = "PPUCTRL"
    <2> DEFINE n == CASE RaisesNmi(p, bit) -> 0
                      [] ~bit /\ IsFresh(p) -> NoNmi
                      [] OTHER -> p.nmi
    <2>1. q = [p EXCEPT !.nmi_enable = bit, !.nmi = n]
      BY <1>1 DEF AfterWrite, WriteCtrl
    <2>2. /\ n \in 0..NoNmi
          /\ RaisesNmi(p, bit) => n = 0
          /\ ~RaisesNmi(p, bit) => n = IF ~bit /\ IsFresh(p) THEN NoNmi ELSE p.nmi
      BY DEF PpuState, NoNmi, RaisesNmi
    <2> HIDE DEF n, q
    <2>3. /\ q \in PpuState
          /\ q.scanline = p.scanline /\ q.dot = p.dot /\ q.is_short_frame = p.is_short_frame
          /\ q.vblank_started = p.vblank_started /\ q.nmi_enable = bit /\ q.nmi = n
      BY <2>1, <2>2 DEF PpuState
    <2>4. Accessed(p, q)
      BY <2>2, <2>3 DEF Accessed, Output, RaisesNmi, At, IsFresh, Ripe, NoNmi, PpuState
    <2> QED
      BY <2>4 DEF q
  <1>2. CASE write # "PPUCTRL"
    <2>1. /\ q \in PpuState
          /\ q.scanline = p.scanline /\ q.dot = p.dot /\ q.is_short_frame = p.is_short_frame
          /\ q.vblank_started = p.vblank_started /\ q.nmi_enable = p.nmi_enable
          /\ q.nmi = p.nmi
      BY <1>2 DEF AfterWrite, WriteMask, PpuState
    <2> HIDE DEF q
    <2>2. Accessed(p, q)
      BY <2>1 DEF Accessed, Output, IsFresh, Ripe, NoNmi, PpuState
    <2> QED
      BY <2>2 DEF q
  <1> QED
    BY <1>1, <1>2

LEMMA AccessFacts ==
    ASSUME NEW p \in PpuState, p.nmi # 0, NEW read, NEW clear \in BOOLEAN, NEW write,
           NEW bit \in BOOLEAN
    PROVE  Accessed(p, AfterCpuCycle(p, read, clear, write, bit))
  <1> DEFINE a == AfterRead(p, read)
             b == Polled(a, clear)
             q == AfterWrite(b, write, bit)
  <1>1. /\ a \in PpuState /\ a.scanline = p.scanline /\ a.dot = p.dot
        /\ a.is_short_frame = p.is_short_frame /\ a.nmi_enable = p.nmi_enable
        /\ a.vblank_started => p.vblank_started
        /\ a.nmi = p.nmi \/ (a.nmi = NoNmi /\ IsFresh(p) /\ ~a.vblank_started)
        /\ a.nmi = p.nmi /\ IsFresh(p) => a.vblank_started = p.vblank_started
    BY ReadFacts
  <1>2. /\ b \in PpuState /\ b.scanline = a.scanline /\ b.dot = a.dot
        /\ b.is_short_frame = a.is_short_frame /\ b.nmi_enable = a.nmi_enable
        /\ b.vblank_started = a.vblank_started
        /\ b.nmi = a.nmi \/ (b.nmi = NoNmi /\ a.nmi = Ripe)
    BY <1>1, PollFacts
  <1>3. b.nmi # 0
    BY <1>1, <1>2 DEF NoNmi
  <1>4. Accessed(b, q)
    BY <1>2, <1>3, WriteFacts
  <1>5. AfterCpuCycle(p, read, clear, write, bit) = q
    BY DEF AfterCpuCycle
  <1> HIDE DEF a, b, q
  <1>6. Accessed(p, q)
    BY <1>1, <1>2, <1>4 DEF Accessed, Output, At, IsFresh, Ripe, NoNmi, PpuState
  <1> QED
    BY <1>5, <1>6

-----------------------------------------------------------------------------
(* A dot of the PPU *)

LEMMA FrameFacts ==
    /\ LastDot \in Nat /\ LastVisible \in Nat /\ PreRender \in Nat /\ StartDot \in Nat
    /\ 2 < LastDot /\ LastVisible + 2 < PreRender /\ 0 < StartDot /\ StartDot <= LastDot
    /\ VBlankLine \in Nat /\ 1 < VBlankLine /\ VBlankLine < PreRender
  BY FrameAssumption DEF VBlankLine

\* r and p differ in the position at most.
SameFlags(p, r) ==
    /\ r.is_short_frame = p.is_short_frame /\ r.rendering = p.rendering
    /\ r.nmi_enable = p.nmi_enable /\ r.vblank_started = p.vblank_started /\ r.nmi = p.nmi

\* The position after p's.
Follows(p, r) ==
    /\ p.dot < LastDot => At(r, p.scanline, p.dot + 1)
    /\ p.dot = LastDot /\ p.scanline < PreRender => At(r, p.scanline + 1, 0)
    /\ p.dot = LastDot /\ p.scanline = PreRender => At(r, 0, 0)

LEMMA NextCycleFacts ==
    ASSUME NEW p \in PpuState
    PROVE  /\ NextCycle(p) \in PpuState
           /\ SameFlags(p, NextCycle(p))
           /\ Follows(p, NextCycle(p))
  <1> DEFINE r == NextCycle(p)
  <1>1. CASE p.dot < LastDot
    <2>1. r = [p EXCEPT !.dot = p.dot + 1]
      <3>1. p.dot # LastDot
        BY <1>1, FrameFacts
      <3> QED
        BY <1>1, <3>1, Zenon DEF NextCycle
    <2>2. p.dot + 1 \in 0..LastDot
      BY <1>1, FrameFacts DEF PpuState
    <2> HIDE DEF r
    <2>3. r \in PpuState /\ SameFlags(p, r) /\ r.scanline = p.scanline /\ r.dot = p.dot + 1
      BY <2>1, <2>2 DEF PpuState, SameFlags
    <2>4. Follows(p, r)
      BY <1>1, <2>3, FrameFacts DEF Follows, At, PpuState
    <2> QED
      BY <2>3, <2>4 DEF r
  <1>2. CASE p.dot = LastDot /\ p.scanline < PreRender
    <2>1. r = [p EXCEPT !.dot = 0, !.scanline = p.scanline + 1]
      BY <1>2, FrameFacts DEF NextCycle
    <2>2. p.scanline + 1 \in 0..PreRender /\ 0 \in 0..LastDot
      BY <1>2, FrameFacts DEF PpuState
    <2> HIDE DEF r
    <2>3. r \in PpuState /\ SameFlags(p, r) /\ r.scanline = p.scanline + 1 /\ r.dot = 0
      BY <2>1, <2>2 DEF PpuState, SameFlags
    <2>4. Follows(p, r)
      BY <1>2, <2>3, FrameFacts DEF Follows, At, PpuState
    <2> QED
      BY <2>3, <2>4 DEF r
  <1>3. CASE p.dot = LastDot /\ p.scanline = PreRender
    <2>1. r = [p EXCEPT !.dot = 0, !.scanline = 0]
      BY <1>3, FrameFacts DEF NextCycle
    <2>2. 0 \in 0..PreRender /\ 0 \in 0..LastDot
      BY FrameFacts
    <2> HIDE DEF r
    <2>3. r \in PpuState /\ SameFlags(p, r) /\ r.scanline = 0 /\ r.dot = 0
      BY <2>1, <2>2 DEF PpuState, SameFlags
    <2>4. Follows(p, r)
      BY <1>3, <2>3, FrameFacts DEF Follows, At, PpuState
    <2> QED
      BY <2>3, <2>4 DEF r
  <1> QED
    BY <1>1, <1>2, <1>3, FrameFacts DEF PpuState

\* What the flags become in a dot, before the position moves and the NMI ages.
Flagged(p, r) ==
    /\ r \in PpuState
    /\ r.scanline = p.scanline /\ r.dot = p.dot
    /\ r.is_short_frame = IF At(p, 0, 0) THEN ~p.is_short_frame ELSE p.is_short_frame
    /\ r.rendering = p.rendering /\ r.nmi_enable = p.nmi_enable
    /\ r.vblank_started <=> (p.vblank_started \/ StartsVBlank(p)) /\ ~At(p, PreRender, 1)
    /\ r.nmi = IF StartsVBlank(p) /\ p.nmi_enable THEN 0 ELSE p.nmi

LEMMA FlagFacts ==
    ASSUME NEW p \in PpuState, NEW hit \in BOOLEAN
    PROVE  LET drawn == [ToggleShortFrame(p) EXCEPT !.sprite_zero_hit = p.sprite_zero_hit \/ hit]
           IN  /\ Flagged(p, PreRenderClears(StartVBlank(drawn)))
               /\ SkipsLastDot(drawn) <=> SkipsLastDot(p)
  <1> DEFINE drawn == [ToggleShortFrame(p) EXCEPT !.sprite_zero_hit = p.sprite_zero_hit \/ hit]
             started == StartVBlank(drawn)
             cleared == PreRenderClears(started)
  <1>1. /\ drawn \in PpuState
        /\ drawn.scanline = p.scanline /\ drawn.dot = p.dot
        /\ drawn.is_short_frame = IF At(p, 0, 0) THEN ~p.is_short_frame ELSE p.is_short_frame
        /\ drawn.rendering = p.rendering /\ drawn.nmi_enable = p.nmi_enable
        /\ drawn.vblank_started = p.vblank_started /\ drawn.status_read = p.status_read
        /\ drawn.nmi = p.nmi
    <2> DEFINE h == p.sprite_zero_hit \/ hit
    <2>1. h \in BOOLEAN
      OBVIOUS
    <2> HIDE DEF h
    <2>2. drawn = [ToggleShortFrame(p) EXCEPT !.sprite_zero_hit = h]
      BY DEF h
    <2> HIDE DEF drawn
    <2>3. CASE At(p, 0, 0)
      <3> DEFINE t == ~p.is_short_frame
      <3>1. t \in BOOLEAN /\ t = ~p.is_short_frame
        OBVIOUS
      <3>2. ToggleShortFrame(p) = [p EXCEPT !.is_short_frame = t]
        BY <2>3 DEF ToggleShortFrame
      <3> HIDE DEF t
      <3> QED
        BY <2>1, <2>2, <2>3, <3>1, <3>2 DEF PpuState
    <2>4. CASE ~At(p, 0, 0)
      <3>1. ToggleShortFrame(p) = p
        BY <2>4 DEF ToggleShortFrame
      <3> QED
        BY <2>1, <2>2, <2>4, <3>1 DEF PpuState
    <2> QED
      BY <2>3, <2>4
  <1>2. SkipsLastDot(drawn) <=> SkipsLastDot(p)
    BY <1>1, FrameFacts DEF SkipsLastDot, At, PpuState
  <1>3. StartsVBlank(drawn) <=> StartsVBlank(p)
    BY <1>1 DEF StartsVBlank, At
  <1> HIDE DEF drawn
  <1>4. /\ started \in PpuState
        /\ started.scanline = p.scanline /\ started.dot = p.dot
        /\ started.is_short_frame = drawn.is_short_frame
        /\ started.rendering = p.rendering /\ started.nmi_enable = p.nmi_enable
        /\ started.vblank_started <=> p.vblank_started \/ StartsVBlank(p)
        /\ started.nmi = IF StartsVBlank(p) /\ p.nmi_enable THEN 0 ELSE p.nmi
    <2>1. CASE StartsVBlank(p)
      <3> DEFINE n == IF drawn.nmi_enable THEN 0 ELSE drawn.nmi
      <3>1. started = [drawn EXCEPT !.vblank_started = TRUE, !.nmi = n]
        BY <2>1, <1>3 DEF StartVBlank
      <3>2. n \in 0..NoNmi /\ n = IF p.nmi_enable THEN 0 ELSE p.nmi
        BY <1>1 DEF PpuState, NoNmi
      <3> HIDE DEF n, started
      <3> QED
        BY <1>1, <2>1, <3>1, <3>2 DEF PpuState
    <2>2. CASE ~StartsVBlank(p)
      <3>1. started = drawn
        BY <2>2, <1>3 DEF StartVBlank
      <3> HIDE DEF started
      <3> QED
        BY <1>1, <2>2, <3>1
    <2> QED
      BY <2>1, <2>2
  <1> HIDE DEF started
  <1>5. Flagged(p, cleared)
    <2> DEFINE h == started.sprite_zero_hit /\ ~At(started, PreRender, 0)
               v == started.vblank_started /\ ~At(started, PreRender, 1)
    <2>1. cleared = [started EXCEPT !.sprite_zero_hit = h, !.vblank_started = v]
      BY DEF PreRenderClears
    <2>2. h \in BOOLEAN /\ v \in BOOLEAN
      OBVIOUS
    <2>3. v <=> (p.vblank_started \/ StartsVBlank(p)) /\ ~At(p, PreRender, 1)
      BY <1>4 DEF At
    <2> HIDE DEF h, v, cleared
    <2>4. /\ cleared \in PpuState
          /\ cleared.scanline = started.scanline /\ cleared.dot = started.dot
          /\ cleared.is_short_frame = started.is_short_frame
          /\ cleared.rendering = started.rendering /\ cleared.nmi_enable = started.nmi_enable
          /\ cleared.vblank_started = v /\ cleared.nmi = started.nmi
      BY <1>4, <2>1, <2>2 DEF PpuState
    <2> QED
      BY <1>1, <1>4, <2>3, <2>4 DEF Flagged
  <1> QED
    BY <1>2, <1>5 DEF drawn, started

\* What a dot does to the PPU.
Ticked(p, r) ==
    /\ r \in PpuState
    /\ IF SkipsLastDot(p) THEN At(r, 0, 0) ELSE Follows(p, r)
    /\ r.is_short_frame = IF At(p, 0, 0) THEN ~p.is_short_frame ELSE p.is_short_frame
    /\ r.rendering = p.rendering /\ r.nmi_enable = p.nmi_enable
    /\ r.vblank_started <=> (p.vblank_started \/ StartsVBlank(p)) /\ ~At(p, PreRender, 1)
    /\ r.nmi = IF StartsVBlank(p) /\ p.nmi_enable THEN 1
               ELSE IF IsFresh(p) THEN p.nmi + 1 ELSE p.nmi

LEMMA TickFacts ==
    ASSUME NEW p \in PpuState, NEW hit \in BOOLEAN
    PROVE  Ticked(p, Tick(p, hit))
  <1> DEFINE drawn == [ToggleShortFrame(p) EXCEPT !.sprite_zero_hit = p.sprite_zero_hit \/ hit]
             flagged == PreRenderClears(StartVBlank(drawn))
             moved == NextCycle(flagged)
             placed == IF SkipsLastDot(drawn) THEN NextCycle(moved) ELSE moved
             r == AgeCycles(placed)
  <1>1. Flagged(p, flagged) /\ (SkipsLastDot(drawn) <=> SkipsLastDot(p))
    BY FlagFacts
  <1>2. Tick(p, hit) = r
    BY DEF Tick
  <1> HIDE DEF drawn, flagged
  <1>3. moved \in PpuState /\ SameFlags(flagged, moved) /\ Follows(flagged, moved)
    BY <1>1, NextCycleFacts DEF Flagged
  <1> HIDE DEF moved
  <1>4. NextCycle(moved) \in PpuState /\ SameFlags(moved, NextCycle(moved))
        /\ Follows(moved, NextCycle(moved))
    BY <1>3, NextCycleFacts
  <1>5. /\ placed \in PpuState /\ SameFlags(flagged, placed)
        /\ IF SkipsLastDot(p) THEN At(placed, 0, 0) ELSE Follows(p, placed)
    <2>1. CASE SkipsLastDot(p)
      <3>1. placed = NextCycle(moved)
        BY <1>1, <2>1
      <3>2. At(moved, PreRender, LastDot)
        BY <1>1, <1>3, <2>1, FrameFacts DEF Follows, Flagged, SkipsLastDot, At
      <3>3. At(placed, 0, 0)
        BY <1>4, <3>1, <3>2 DEF Follows, At
      <3> QED
        BY <1>3, <1>4, <2>1, <3>1, <3>3 DEF SameFlags
    <2>2. CASE ~SkipsLastDot(p)
      <3>1. placed = moved
        BY <1>1, <2>2
      <3>2. Follows(p, placed)
        BY <1>1, <1>3, <3>1 DEF Follows, Flagged
      <3> QED
        BY <1>3, <2>2, <3>1, <3>2
    <2> QED
      BY <2>1, <2>2
  <1> HIDE DEF placed
  <1>6. /\ r \in PpuState /\ r.scanline = placed.scanline /\ r.dot = placed.dot
        /\ r.is_short_frame = placed.is_short_frame /\ r.rendering = placed.rendering
        /\ r.nmi_enable = placed.nmi_enable /\ r.vblank_started = placed.vblank_started
        /\ r.nmi = IF IsFresh(placed) THEN placed.nmi + 1 ELSE placed.nmi
    <2> DEFINE n == IF IsFresh(placed) THEN placed.nmi + 1 ELSE placed.nmi
    <2>1. r = [placed EXCEPT !.nmi = n, !.status_read = FALSE]
      BY DEF AgeCycles
    <2>2. n \in 0..NoNmi
      BY <1>5 DEF PpuState, IsFresh, Ripe, NoNmi
    <2>3. r \in PpuState /\ r.scanline = placed.scanline /\ r.dot = placed.dot
          /\ r.is_short_frame = placed.is_short_frame /\ r.rendering = placed.rendering
          /\ r.nmi_enable = placed.nmi_enable /\ r.vblank_started = placed.vblank_started
          /\ r.nmi = n
      <3> HIDE DEF n, r
      <3> QED
        BY <1>5, <2>1, <2>2 DEF PpuState
    <2> QED
      BY <2>3
  <1> HIDE DEF r
  <1>7. r.nmi = IF StartsVBlank(p) /\ p.nmi_enable THEN 1
                ELSE IF IsFresh(p) THEN p.nmi + 1 ELSE p.nmi
    BY <1>1, <1>5, <1>6 DEF SameFlags, Flagged, IsFresh, Ripe, PpuState
  <1>8. IF SkipsLastDot(p) THEN At(r, 0, 0) ELSE Follows(p, r)
    BY <1>5, <1>6 DEF Follows, At
  <1> QED
    BY <1>1, <1>2, <1>5, <1>6, <1>7, <1>8 DEF Ticked, SameFlags, Flagged

-----------------------------------------------------------------------------
(* A step keeps the invariant *)

\* A step: the CPU leaves q, and the dot of the PPU makes the next state of it.
Stepped(q) ==
    /\ \/ /\ q = ppu
          /\ cpu_cycle_counter \in 2..3 /\ cpu_cycle_counter' = cpu_cycle_counter - 1
       \/ /\ Accessed(ppu, q)
          /\ cpu_cycle_counter = 1 /\ cpu_cycle_counter' = 3
    /\ Ticked(q, ppu')
    /\ last_skipped' = IF At(ppu', 0, 0) THEN q.dot # LastDot ELSE last_skipped

LEMMA StepFacts ==
    ASSUME TypeOK, YoungNmiInv, Next
    PROVE  \E q \in PpuState : Stepped(q)
  <1>1. ppu \in PpuState /\ ppu.nmi # 0 /\ cpu_cycle_counter \in 1..3
    BY DEF TypeOK, YoungNmiInv
  <1>2. CASE NextDot
    <2>1. Ticked(ppu, ppu')
      BY <1>1, <1>2, TickFacts DEF NextDot, RunDot
    <2> QED
      BY <1>1, <1>2, <2>1 DEF NextDot, RunDot, Stepped
  <1>3. CASE NextCpuCycle
    <2>1. PICK read \in {"memory", "PPUSTATUS"}, write \in {"memory", "PPUCTRL", "PPUMASK"},
               clear \in BOOLEAN, bit \in BOOLEAN :
                 RunDot(AfterCpuCycle(ppu, read, clear, write, bit))
      BY <1>3 DEF NextCpuCycle
    <2> DEFINE q == AfterCpuCycle(ppu, read, clear, write, bit)
    <2>2. Accessed(ppu, q)
      BY <1>1, AccessFacts
    <2> HIDE DEF q
    <2>3. RunDot(q)
      BY <2>1 DEF q
    <2>4. q \in PpuState
      BY <2>2 DEF Accessed
    <2>5. Ticked(q, ppu')
      BY <2>3, <2>4, TickFacts DEF RunDot
    <2> QED
      BY <1>3, <2>2, <2>3, <2>4, <2>5 DEF NextCpuCycle, RunDot, Stepped
  <1> QED
    BY <1>2, <1>3 DEF Next

\* What the accesses of a step leave alone.
LEMMA SameFrame ==
    ASSUME NEW q \in PpuState, Stepped(q)
    PROVE  /\ q.scanline = ppu.scanline /\ q.dot = ppu.dot
           /\ q.is_short_frame = ppu.is_short_frame
           /\ q.vblank_started => ppu.vblank_started
           /\ q.nmi \in {0, ppu.nmi, NoNmi}
  BY DEF Stepped, Accessed

LEMMA InitFacts == Init => IInv
  <1> SUFFICES ASSUME Init PROVE IInv
    OBVIOUS
  <1>1. TypeOK
    <2>1. 0 \in 0..PreRender /\ StartDot \in 0..LastDot /\ NoNmi \in 0..NoNmi
      BY FrameFacts DEF NoNmi
    <2>2. ppu \in PpuState
      BY <2>1 DEF Init, PpuState
    <2>3. cpu_cycle_counter \in 1..3
      BY DEF Init
    <2>4. last_skipped \in BOOLEAN
      BY DEF Init
    <2> QED
      BY <2>2, <2>3, <2>4 DEF TypeOK
  <1> QED
    BY <1>1 DEF Init, IInv, VBlankWindow, FreshNmiHasCause, YoungNmiInv, LateNmiInv,
                ShortFrameInv, IsFresh, Ripe, NoNmi

LEMMA StepKeepsIInv == IInv /\ Next => IInv'
  <1> SUFFICES ASSUME IInv, Next PROVE IInv'
    OBVIOUS
  <1> USE DEF IInv
  <1>1. PICK q \in PpuState : Stepped(q)
    BY StepFacts
  <1>2. /\ q.scanline = ppu.scanline /\ q.dot = ppu.dot
        /\ q.is_short_frame = ppu.is_short_frame
        /\ q.vblank_started => ppu.vblank_started
        /\ q.nmi \in {0, ppu.nmi, NoNmi}
    BY <1>1, SameFrame
  <1>3. Ticked(q, ppu') /\ ppu \in PpuState /\ ppu' \in PpuState
    BY <1>1 DEF Stepped, Ticked, TypeOK
  <1>4. TypeOK'
    <2>1. cpu_cycle_counter' \in 1..3
      BY <1>1 DEF Stepped
    <2>2. last_skipped' \in BOOLEAN
      <3>1. last_skipped \in BOOLEAN
        BY DEF TypeOK
      <3>2. last_skipped' = IF At(ppu', 0, 0) THEN q.dot # LastDot ELSE last_skipped
        BY <1>1 DEF Stepped
      <3> QED
        BY <3>1, <3>2
    <2> QED
      BY <1>3, <2>1, <2>2 DEF TypeOK
  <1>5. VBlankWindow'
    BY <1>2, <1>3, FrameFacts
       DEF VBlankWindow, Ticked, StartsVBlank, At, SkipsLastDot, Follows, PpuState
  \* A fresh NMI was raised in this step, or it was one dot old and had its cause.
  <1>6. IsFresh(ppu') => \/ StartsVBlank(q) /\ q.nmi_enable /\ ppu'.nmi = 1
                         \/ /\ Accessed(ppu, q) /\ q.nmi = 0
                            /\ ppu'.nmi = 1 /\ cpu_cycle_counter' = 3
                         \/ /\ q.nmi = 1 /\ ppu.nmi = 1 /\ ppu'.nmi = 2
                            /\ q.nmi_enable /\ q.vblank_started
    <2>1. SUFFICES ASSUME IsFresh(ppu'), ~(StartsVBlank(q) /\ q.nmi_enable)
                   PROVE  \/ /\ Accessed(ppu, q) /\ q.nmi = 0
                             /\ ppu'.nmi = 1 /\ cpu_cycle_counter' = 3
                          \/ /\ q.nmi = 1 /\ ppu.nmi = 1 /\ ppu'.nmi = 2
                             /\ q.nmi_enable /\ q.vblank_started
      BY <1>3 DEF Ticked
    <2>2. q.nmi \in {0, 1} /\ ppu'.nmi = q.nmi + 1
      BY <1>3, <2>1 DEF Ticked, IsFresh, Ripe, PpuState
    <2>3. CASE q.nmi = 0
      BY <1>1, <2>2, <2>3 DEF Stepped, YoungNmiInv
    <2>4. CASE q.nmi = 1
      <3>1. ppu.nmi = 1 /\ IsFresh(ppu)
        BY <1>2, <2>4 DEF NoNmi, IsFresh, Ripe
      <3>2. ppu.nmi_enable /\ ppu.vblank_started
        BY <3>1 DEF FreshNmiHasCause, LateNmiInv
      <3> QED
        <4>1. CASE q = ppu
          BY <2>2, <2>4, <3>1, <3>2, <4>1
        <4>2. CASE Accessed(ppu, q)
          <5>1. q.nmi_enable /\ q.vblank_started = ppu.vblank_started
            BY <2>4, <3>1, <3>2, <4>2, Zenon DEF Accessed
          <5> QED
            BY <2>2, <2>4, <3>1, <3>2, <5>1
        <4> QED
          BY <1>1, <4>1, <4>2 DEF Stepped
    <2> QED
      BY <2>2, <2>3, <2>4
  <1>7. FreshNmiHasCause'
    <2> SUFFICES ASSUME IsFresh(ppu')
                 PROVE  ppu'.nmi_enable /\ (ppu'.vblank_started \/ At(ppu', PreRender, 2))
      BY DEF FreshNmiHasCause, IsFresh, At
    <2>1. q.nmi_enable /\ (q.vblank_started \/ StartsVBlank(q))
      BY <1>6 DEF Accessed, Output
    <2>2. At(q, PreRender, 1) => At(ppu', PreRender, 2)
      BY <1>3, FrameFacts DEF Ticked, SkipsLastDot, Follows, At
    <2> QED
      BY <1>3, <2>1, <2>2 DEF Ticked
  <1>8. YoungNmiInv'
    <2>1. ppu'.nmi # 0
      BY <1>3 DEF Ticked, IsFresh, Ripe, PpuState, NoNmi
    <2>2. StartsVBlank(q) => At(ppu', VBlankLine, 2)
      BY <1>3, FrameFacts DEF Ticked, StartsVBlank, SkipsLastDot, Follows, At
    <2> QED
      BY <1>6, <2>1, <2>2 DEF YoungNmiInv, IsFresh, Ripe, At
  <1>9. LateNmiInv'
    <2> SUFFICES ASSUME At(ppu', PreRender, 2), IsFresh(ppu')
                 PROVE  ppu'.nmi = 2 /\ cpu_cycle_counter' = 2
      BY DEF LateNmiInv, At, IsFresh
    <2>1. At(q, PreRender, 1)
      BY <1>3, FrameFacts DEF Ticked, SkipsLastDot, Follows, At, PpuState
    <2>2. At(ppu, PreRender, 1)
      BY <1>2, <2>1 DEF At
    <2>3. ~StartsVBlank(q)
      BY <2>1, FrameFacts DEF StartsVBlank, At
    <2>4. ppu.nmi = 1 /\ ppu'.nmi = 2
      BY <1>6, <2>2, <2>3 DEF Accessed
    <2>5. cpu_cycle_counter = 3
      BY <2>2, <2>4, FrameFacts DEF YoungNmiInv, At
    <2> QED
      BY <1>1, <2>4, <2>5 DEF Stepped
  <1>10. ShortFrameInv'
    <2> SUFFICES ASSUME last_skipped' PROVE ppu'.is_short_frame <=> At(ppu', 0, 0)
      BY DEF ShortFrameInv, At
    <2>1. CASE At(ppu', 0, 0)
      <3>1. SkipsLastDot(q)
        <4>1. q.dot # LastDot
          BY <1>1, <2>1 DEF Stepped
        <4>2. SkipsLastDot(q) \/ Follows(q, ppu')
          BY <1>3 DEF Ticked
        <4> QED
          BY <2>1, <4>1, <4>2, FrameFacts DEF Follows, At, PpuState
      <3> QED
        BY <1>3, <2>1, <3>1, FrameFacts DEF Ticked, SkipsLastDot, At
    <2>2. CASE ~At(ppu', 0, 0)
      <3>1. last_skipped /\ (q.is_short_frame <=> At(q, 0, 0))
        BY <1>1, <1>2, <2>2 DEF Stepped, ShortFrameInv, At
      <3> QED
        BY <1>3, <2>2, <3>1 DEF Ticked
    <2> QED
      BY <2>1, <2>2
  <1> QED
    BY <1>4, <1>5, <1>7, <1>8, <1>9, <1>10

LEMMA StutterKeepsIInv == IInv /\ UNCHANGED vars => IInv'
  BY DEF vars, IInv, TypeOK, VBlankWindow, FreshNmiHasCause, YoungNmiInv, LateNmiInv,
         ShortFrameInv, IsFresh, At

\* The invariant holds in every state.
THEOREM Inductive == Spec => []IInv
  <1>1. Init => IInv
    BY InitFacts
  <1>2. IInv /\ [Next]_vars => IInv'
    BY StepKeepsIInv, StutterKeepsIInv
  <1> QED
    BY <1>1, <1>2, PTL DEF Spec

\* The PPU's record keeps its type: no dot is reached outside the frame, whatever the CPU
\* accesses and however long the frame is.
THEOREM TypeCorrect == Spec => []TypeOK
  <1>1. IInv => TypeOK
    BY DEF IInv
  <1> QED
    BY <1>1, Inductive, PTL

\* The vertical blank flag is up only inside vertical blank, whatever the CPU reads and
\* writes in the dots that set and clear it.
THEOREM VBlankCorrect == Spec => []VBlankWindow
  <1>1. IInv => VBlankWindow
    BY DEF IInv
  <1> QED
    BY <1>1, Inductive, PTL

\* An NMI that can still be taken back always has a flag and an enable bit behind it.
THEOREM FreshNmiCorrect == Spec => []FreshNmiHasCause
  <1>1. IInv => FreshNmiHasCause
    BY DEF IInv
  <1> QED
    BY <1>1, Inductive, PTL

-----------------------------------------------------------------------------
(* Short frames *)

LEMMA StepShortFrame ==
    IInv /\ Next /\ At(ppu, PreRender, LastDot - 1) /\ ppu'.dot = 0
        => ~last_skipped /\ ppu'.rendering
  <1> SUFFICES ASSUME IInv, Next, At(ppu, PreRender, LastDot - 1), ppu'.dot = 0
               PROVE  ~last_skipped /\ ppu'.rendering
    OBVIOUS
  <1>1. PICK q \in PpuState : Stepped(q)
    BY StepFacts DEF IInv
  <1>2. q.scanline = ppu.scanline /\ q.dot = ppu.dot /\ q.is_short_frame = ppu.is_short_frame
    BY <1>1, SameFrame
  <1>3. Ticked(q, ppu')
    BY <1>1 DEF Stepped
  <1>4. SkipsLastDot(q)
    BY <1>2, <1>3, FrameFacts DEF Ticked, Follows, At
  <1>5. ppu'.rendering
    BY <1>3, <1>4 DEF Ticked, SkipsLastDot
  <1>6. ppu.is_short_frame /\ ~At(ppu, 0, 0)
    BY <1>2, <1>4, FrameFacts DEF SkipsLastDot, At
  <1> QED
    BY <1>5, <1>6 DEF IInv, ShortFrameInv

\* No two frames running lose their last dot, and none does with rendering off, whenever
\* the program switches rendering.
THEOREM ShortFramesAlternate == Spec => NeverTwoShortFrames
  <1>1. IInv /\ [Next]_vars =>
          [At(ppu, PreRender, LastDot - 1) /\ ppu'.dot = 0 => ~last_skipped /\ ppu'.rendering]_vars
    BY StepShortFrame
  <1> QED
    BY <1>1, Inductive, PTL DEF Spec, NeverTwoShortFrames

-----------------------------------------------------------------------------
(* The NMI output line *)

Edge(p) == IF IsFresh(p) THEN "fresh" ELSE IF NmiReady(p) THEN "ripe" ELSE "none"

\* NmiLine's next-state relation over the state of the PPU.
LineStep ==
    LET Rising == ~Output(ppu) /\ Output(ppu')
    IN  \/ Rising /\ Edge(ppu') = "fresh"
        \/ ~Rising /\ Edge(ppu) = "fresh" /\ Edge(ppu') \in {"fresh", "ripe"}
        \/ Output(ppu) /\ ~Output(ppu') /\ Edge(ppu) = "fresh" /\ Edge(ppu') = "none"
        \/ ~Rising /\ Edge(ppu) = "ripe" /\ Edge(ppu') = "none"
        \/ ~Rising /\ Edge(ppu) \in {"none", "ripe"} /\ Edge(ppu') = Edge(ppu)

LEMMA EdgeFacts ==
    ASSUME NEW p \in PpuState
    PROVE  /\ p.nmi \in 0..2 => Edge(p) = "fresh"
           /\ p.nmi = 3 => Edge(p) = "ripe"
           /\ p.nmi = 4 => Edge(p) = "none"
  BY DEF Edge, IsFresh, NmiReady, Ripe

\* An edge is detected when vertical blank starts and when the CPU enables NMI in it; it is
\* taken back when the CPU makes the output fall, and delivered when the CPU polls.
LEMMA StepImplements == IInv /\ Next => LineStep
  <1> SUFFICES ASSUME IInv, Next PROVE LineStep
    OBVIOUS
  <1>1. PICK q \in PpuState : Stepped(q)
    BY StepFacts DEF IInv
  <1>2. /\ q.scanline = ppu.scanline /\ q.dot = ppu.dot
        /\ q.vblank_started => ppu.vblank_started
        /\ q.nmi \in {0, ppu.nmi, NoNmi}
    BY <1>1, SameFrame
  <1>3. Ticked(q, ppu') /\ ppu \in PpuState /\ ppu' \in PpuState
    BY <1>1 DEF Stepped, Ticked, IInv, TypeOK
  <1>4. q = ppu \/ (Accessed(ppu, q) /\ cpu_cycle_counter = 1)
    BY <1>1 DEF Stepped
  <1>5. CASE StartsVBlank(q) /\ q.nmi_enable
    <2>1. ~ppu.vblank_started
      BY <1>2, <1>5, FrameFacts DEF IInv, VBlankWindow, StartsVBlank, At
    <2>2. ~At(q, PreRender, 1)
      BY <1>5, FrameFacts DEF StartsVBlank, At
    <2>3. ppu'.vblank_started /\ ppu'.nmi_enable /\ ppu'.nmi = 1
      BY <1>3, <1>5, <2>2 DEF Ticked
    <2>4. Edge(ppu') = "fresh"
      BY <1>3, <2>3, EdgeFacts
    <2> QED
      BY <2>1, <2>3, <2>4 DEF LineStep, Output
  <1>6. CASE ~(StartsVBlank(q) /\ q.nmi_enable)
    <2>1. Output(ppu') <=> Output(q) /\ ~At(q, PreRender, 1)
      BY <1>3, <1>6 DEF Ticked, Output
    <2>2. ppu'.nmi = IF IsFresh(q) THEN q.nmi + 1 ELSE q.nmi
      BY <1>3, <1>6 DEF Ticked
    <2>3. CASE q.nmi = 0
      <3>1. Accessed(ppu, q)
        BY <1>4, <2>3 DEF IInv, YoungNmiInv
      <3>2. ~Output(ppu) /\ Output(q) /\ ~At(q, PreRender, 1)
        BY <1>2, <2>3, <3>1 DEF Accessed, At
      <3>3. ppu'.nmi = 1
        BY <2>2, <2>3 DEF IsFresh, Ripe
      <3>4. Edge(ppu') = "fresh"
        BY <1>3, <3>3, EdgeFacts
      <3> QED
        BY <2>1, <3>2, <3>4 DEF LineStep
    <2>4. CASE q.nmi # 0
      <3>1. ~(~Output(ppu) /\ Output(ppu'))
        BY <1>2, <1>4, <2>1, <2>4 DEF Accessed, At
      <3>2. CASE q.nmi = ppu.nmi
        <4>1. CASE ppu.nmi \in 1..2
          <5>1. ppu'.nmi \in 2..3
            BY <2>2, <3>2, <4>1 DEF IsFresh, Ripe
          <5>2. Edge(ppu) = "fresh" /\ Edge(ppu') \in {"fresh", "ripe"}
            BY <1>3, <4>1, <5>1, EdgeFacts
          <5> QED
            BY <3>1, <5>2 DEF LineStep
        <4>2. CASE ppu.nmi \in 3..4
          <5>1. ppu'.nmi = ppu.nmi
            BY <2>2, <3>2, <4>2 DEF IsFresh, Ripe
          <5>2. Edge(ppu) \in {"none", "ripe"} /\ Edge(ppu') = Edge(ppu)
            BY <1>3, <4>2, <5>1, EdgeFacts
          <5> QED
            BY <3>1, <5>2 DEF LineStep
        <4> QED
          BY <1>3, <2>4, <3>2, <4>1, <4>2 DEF PpuState, NoNmi
      <3>3. CASE q.nmi # ppu.nmi
        <4>1. Accessed(ppu, q) /\ cpu_cycle_counter = 1 /\ q.nmi = 4
          BY <1>2, <1>4, <2>4, <3>3 DEF NoNmi
        <4>2. Edge(ppu') = "none"
          BY <1>3, <2>2, <4>1, EdgeFacts DEF IsFresh, Ripe
        <4>3. CASE IsFresh(ppu)
          <5>1. ~Output(q)
            BY <4>1, <4>3 DEF Accessed, NoNmi
          <5>2. ~At(ppu, PreRender, 2)
            BY <4>1, <4>3 DEF IInv, LateNmiInv
          <5>3. Output(ppu)
            BY <4>3, <5>2 DEF IInv, FreshNmiHasCause, Output
          <5>4. Edge(ppu) = "fresh"
            BY <4>3 DEF Edge
          <5> QED
            BY <2>1, <4>2, <5>1, <5>3, <5>4 DEF LineStep
        <4>4. CASE ~IsFresh(ppu)
          <5>1. ppu.nmi = 3
            BY <1>3, <3>3, <4>1, <4>4 DEF PpuState, NoNmi, IsFresh, Ripe
          <5>2. Edge(ppu) = "ripe"
            BY <1>3, <5>1, EdgeFacts
          <5> QED
            BY <3>1, <4>2, <5>2 DEF LineStep
        <4> QED
          BY <4>3, <4>4
      <3> QED
        BY <3>2, <3>3
    <2> QED
      BY <2>3, <2>4
  <1> QED
    BY <1>5, <1>6

\* nmi_interrupt holds the edges of the NMI output and nothing else: an edge for each time
\* the output rises, taken back only while it is fresh and only when the output falls, and
\* otherwise kept until the CPU takes it.
THEOREM NmiIsTheLinesEdges == Spec => ImplementsNmiLine
  <1>1. Init => Line!Init
    BY DEF Init, Line!Init, IsFresh, NmiReady, Ripe, NoNmi
  <1>2. IInv /\ IInv' /\ Next => Line!Next
    <2> SUFFICES ASSUME IInv, IInv', Next PROVE Line!Next
      OBVIOUS
    <2>1. LineStep
      BY StepImplements
    <2>2. ppu'.vblank_started \in BOOLEAN /\ ppu'.nmi_enable \in BOOLEAN
      BY DEF IInv, TypeOK, PpuState
    <2>3. (ppu'.vblank_started /\ ppu'.nmi_enable) \in BOOLEAN
      BY <2>2
    <2> QED
      BY <2>1, <2>3
         DEF LineStep, Output, Edge, IsFresh, NmiReady, Line!Next, Line!Rising, Line!Detect,
             Line!Settle, Line!TakeBack, Line!Deliver, Line!Hold
  <1>3. UNCHANGED vars =>
          UNCHANGED <<ppu.vblank_started /\ ppu.nmi_enable,
                      IF IsFresh(ppu) THEN "fresh" ELSE IF NmiReady(ppu) THEN "ripe" ELSE "none">>
    BY DEF vars, IsFresh, NmiReady
  <1> QED
    BY <1>1, <1>2, <1>3, Inductive, PTL DEF Spec, ImplementsNmiLine, Line!Spec
=============================================================================
