--------------------------- MODULE Mmc3Irq_proofs ---------------------------
(***************************************************************************)
(* The scanline interrupt of MMC3 keeps its period: for every size of the  *)
(* screen, every set of values of the latch and every access of the CPU.   *)
(*                                                                         *)
(* How far the counter has run is kept by the chip itself and, in terms of *)
(* clocks since the last reload, by the history.  ChipInv says that the two*)
(* agree except between a write of the reload register and the next clock. *)
(*                                                                         *)
(* And it counts scanlines: LineInv follows a line dot by dot, from what   *)
(* the PPU fetches to how long address line A12 was low.                   *)
(***************************************************************************)
EXTENDS Mmc3Irq, TLAPS

Chip == [low : 0..NeverLow, irq_latch : Latches \cup {0}, irq_counter : CounterRange,
         reload : BOOLEAN, irq_enabled : BOOLEAN, irq_triggered : BOOLEAN]

History == [clocks : 0..2, loaded : Latches \cup {0}, since : CounterRange]

ChipInv(i, s) ==
    /\ i \in Chip /\ s \in History
    /\ i.irq_triggered => i.irq_enabled
    /\ s.since <= s.loaded
    /\ ~i.reload => i.irq_counter = s.loaded - s.since

\* What a step makes of the chip and its history, as IrqPeriod wants it.
Period(i, s, j, t) ==
    /\ j.irq_triggered /\ ~i.irq_triggered => t.since = t.loaded
    /\ t.since # s.since /\ t.since = t.loaded => j.irq_triggered = j.irq_enabled

IInv == TypeOK /\ ChipInv(irq, seen)

-----------------------------------------------------------------------------
(* The chip *)

LEMMA Counters == CounterRange \subseteq 0..255 /\ Latches \cup {0} \subseteq CounterRange
BY ScheduleAssumption, SMT DEF CounterRange

\* A counter runs down inside the range of the latch's values, and the history up.
LEMMA RunsInRange ==
    /\ \A n \in CounterRange : n # 0 => n - 1 \in CounterRange
    /\ \A l \in Latches \cup {0}, n \in CounterRange : n < l => n + 1 \in CounterRange
BY ScheduleAssumption, SMT DEF CounterRange

\* A clock loads or decrements the counter, and the history follows it.
LEMMA ClockKeeps ==
    ASSUME NEW i, NEW s, NEW level, ChipInv(i, s), IsClock(i, level)
    PROVE  /\ ChipInv(UpdateVramAddress(i, level), SeeAddress(s, i, level))
           /\ Period(i, s, UpdateVramAddress(i, level), SeeAddress(s, i, level))
           /\ UpdateVramAddress(i, level).low = NeverLow
<1> DEFINE starts == i.reload \/ s.since = s.loaded
           counter == IF starts THEN i.irq_latch ELSE i.irq_counter - 1
           triggered == i.irq_triggered \/ (counter = 0 /\ i.irq_enabled)
           loaded == IF starts THEN i.irq_latch ELSE s.loaded
           since == IF starts THEN 0 ELSE s.since + 1
           clocks == Capped(s.clocks + 1, 2)
           j == [low |-> NeverLow, irq_latch |-> i.irq_latch, irq_counter |-> counter,
                 reload |-> FALSE, irq_enabled |-> i.irq_enabled, irq_triggered |-> triggered]
           t == [clocks |-> clocks, loaded |-> loaded, since |-> since]
<1>1. /\ i \in Chip /\ s \in History
      /\ i.irq_latch \in Latches \cup {0} /\ i.irq_counter \in CounterRange
      /\ i.reload \in BOOLEAN /\ i.irq_enabled \in BOOLEAN /\ i.irq_triggered \in BOOLEAN
      /\ s.clocks \in 0..2 /\ s.loaded \in Latches \cup {0} /\ s.since \in CounterRange
  BY DEF ChipInv, Chip, History
<1>2. i.irq_latch \in Nat /\ i.irq_counter \in Nat /\ s.loaded \in Nat /\ s.since \in Nat
  <2> HIDE DEF starts, counter, triggered, loaded, since, clocks, j, t
  <2>1. 0..255 \subseteq Nat
    OBVIOUS
  <2>2. CounterRange \subseteq Nat /\ Latches \cup {0} \subseteq Nat
    BY <2>1, Counters, Zenon
  <2> QED BY <1>1, <2>2, Zenon
<1>3. (i.reload \/ i.irq_counter = 0) = starts
  BY <1>1, <1>2 DEF ChipInv
<1>4. level # "low"
  BY DEF IsClock
<1>5. UpdateVramAddress(i, level) = j
  <2>1. ClockIrqCounter(i) = [i EXCEPT !.irq_counter = counter, !.reload = FALSE,
                                       !.irq_triggered = triggered]
    BY <1>3 DEF ClockIrqCounter
  <2>2. UpdateVramAddress(i, level) = [ClockIrqCounter(i) EXCEPT !.low = NeverLow]
    BY <1>4 DEF UpdateVramAddress
  <2> HIDE DEF counter, triggered
  <2> QED BY <2>1, <2>2, <1>1 DEF Chip
<1>6. SeeAddress(s, i, level) = t
  BY DEF SeeAddress
<1>7. counter \in CounterRange /\ since \in CounterRange /\ loaded \in Latches \cup {0}
  <2>1. CASE starts  BY <2>1, <1>1, Counters
  <2>2. CASE ~starts
    <3>1. i.irq_counter # 0 /\ s.since < s.loaded
      BY <2>2, <1>2, <1>3 DEF ChipInv
    <3> QED BY <3>1, <2>2, <1>1, RunsInRange
  <2> QED BY <2>1, <2>2
<1>8. clocks \in 0..2
  BY <1>1 DEF Capped
<1>9. counter = loaded - since /\ since <= loaded
  BY <1>2, <1>3 DEF ChipInv
<1>10. triggered \in BOOLEAN /\ (triggered => i.irq_enabled)
  BY <1>1 DEF ChipInv
<1>11. /\ triggered /\ ~i.irq_triggered => since = loaded
       /\ since = loaded => triggered = i.irq_enabled
  BY <1>1, <1>2, <1>3, <1>9 DEF ChipInv
<1> HIDE DEF counter, triggered, loaded, since, clocks
<1>12. j \in Chip /\ t \in History
  BY <1>1, <1>7, <1>8, <1>10 DEF Chip, History, NeverLow, FilterLength
<1> QED BY <1>5, <1>6, <1>9, <1>10, <1>11, <1>12 DEF ChipInv, Period

\* Any other address touches neither the counter nor the history.
LEMMA OtherAddressKeeps ==
    ASSUME NEW i, NEW s, NEW level, ChipInv(i, s), ~IsClock(i, level)
    PROVE  /\ ChipInv(UpdateVramAddress(i, level), SeeAddress(s, i, level))
           /\ SeeAddress(s, i, level) = s
           /\ UpdateVramAddress(i, level).irq_triggered = i.irq_triggered
           /\ UpdateVramAddress(i, level).irq_enabled = i.irq_enabled
<1>1. SeeAddress(s, i, level) = s
  BY DEF SeeAddress
<1>2. UpdateVramAddress(i, level) \in {i, [i EXCEPT !.low = 0]}
  BY DEF UpdateVramAddress
<1> QED BY <1>1, <1>2, SMT DEF ChipInv, Chip, NeverLow, FilterLength

\* A clock leaves the filter closed: a second address at once is none.
LEMMA AddressKeeps ==
    ASSUME NEW i, NEW s, NEW level, ChipInv(i, s)
    PROVE  /\ ChipInv(UpdateVramAddress(i, level), SeeAddress(s, i, level))
           /\ Period(i, s, UpdateVramAddress(i, level), SeeAddress(s, i, level))
           /\ IsClock(i, level) => UpdateVramAddress(i, level).low = NeverLow
<1>1. CASE IsClock(i, level)  BY <1>1, ClockKeeps
<1>2. CASE ~IsClock(i, level)  BY <1>2, OtherAddressKeeps DEF Period
<1> QED BY <1>1, <1>2

LEMMA AgedKeeps ==
    ASSUME NEW i, NEW s, ChipInv(i, s)
    PROVE  /\ ChipInv(Aged(i), s)
           /\ Aged(i).irq_triggered = i.irq_triggered /\ Aged(i).irq_enabled = i.irq_enabled
BY SMT DEF ChipInv, Chip, Aged, NeverLow, FilterLength

LEMMA LineSeenKeeps ==
    ASSUME NEW i, NEW s, ChipInv(i, s)
    PROVE  /\ ChipInv(i, LineSeen(s))
           /\ LineSeen(s).since = s.since /\ LineSeen(s).loaded = s.loaded
BY SMT DEF ChipInv, History, LineSeen

LEMMA ChipFields ==
    ASSUME NEW i, NEW s, ChipInv(i, s)
    PROVE  /\ i.low \in 0..NeverLow /\ i.irq_latch \in Latches \cup {0}
           /\ i.irq_counter \in CounterRange /\ i.reload \in BOOLEAN
           /\ i.irq_enabled \in BOOLEAN /\ i.irq_triggered \in BOOLEAN
           /\ i = [low |-> i.low, irq_latch |-> i.irq_latch, irq_counter |-> i.irq_counter,
                   reload |-> i.reload, irq_enabled |-> i.irq_enabled,
                   irq_triggered |-> i.irq_triggered]
BY DEF ChipInv, Chip

\* What an update leaves of a chip, field by field.
LEMMA ChipUpdates ==
    ASSUME NEW i \in Chip, NEW counter,
           NEW reload \in BOOLEAN, NEW enabled \in BOOLEAN, NEW triggered \in BOOLEAN
    PROVE  /\ [i EXCEPT !.irq_counter = counter, !.irq_triggered = triggered, !.reload = reload] =
                  [low |-> i.low, irq_latch |-> i.irq_latch, irq_counter |-> counter,
                   reload |-> reload, irq_enabled |-> i.irq_enabled, irq_triggered |-> triggered]
           /\ [i EXCEPT !.irq_enabled = enabled, !.irq_triggered = triggered] =
                  [low |-> i.low, irq_latch |-> i.irq_latch, irq_counter |-> i.irq_counter,
                   reload |-> i.reload, irq_enabled |-> enabled, irq_triggered |-> triggered]
           /\ [i EXCEPT !.irq_enabled = enabled] =
                  [low |-> i.low, irq_latch |-> i.irq_latch, irq_counter |-> i.irq_counter,
                   reload |-> i.reload, irq_enabled |-> enabled,
                   irq_triggered |-> i.irq_triggered]
           /\ [i EXCEPT !.irq_triggered = triggered] =
                  [low |-> i.low, irq_latch |-> i.irq_latch, irq_counter |-> i.irq_counter,
                   reload |-> i.reload, irq_enabled |-> i.irq_enabled,
                   irq_triggered |-> triggered]
<1> DEFINE a == [i EXCEPT !.irq_counter = counter]
           b == [a EXCEPT !.irq_triggered = triggered]
           c == [b EXCEPT !.reload = reload]
           d == [i EXCEPT !.irq_enabled = enabled]
           e == [d EXCEPT !.irq_triggered = triggered]
<1>1. /\ c = [i EXCEPT !.irq_counter = counter, !.irq_triggered = triggered, !.reload = reload]
      /\ e = [i EXCEPT !.irq_enabled = enabled, !.irq_triggered = triggered]
  OBVIOUS
<1>2. a = [low |-> i.low, irq_latch |-> i.irq_latch, irq_counter |-> counter,
           reload |-> i.reload, irq_enabled |-> i.irq_enabled,
           irq_triggered |-> i.irq_triggered]
  BY DEF Chip
<1>3. d = [low |-> i.low, irq_latch |-> i.irq_latch, irq_counter |-> i.irq_counter,
           reload |-> i.reload, irq_enabled |-> enabled, irq_triggered |-> i.irq_triggered]
  BY DEF Chip
<1>4. [i EXCEPT !.irq_triggered = triggered] =
          [low |-> i.low, irq_latch |-> i.irq_latch, irq_counter |-> i.irq_counter,
           reload |-> i.reload, irq_enabled |-> i.irq_enabled, irq_triggered |-> triggered]
  BY DEF Chip
<1> HIDE DEF a, d
<1>5. b = [low |-> i.low, irq_latch |-> i.irq_latch, irq_counter |-> counter,
           reload |-> i.reload, irq_enabled |-> i.irq_enabled, irq_triggered |-> triggered]
  BY <1>2
<1>6. e = [low |-> i.low, irq_latch |-> i.irq_latch, irq_counter |-> i.irq_counter,
           reload |-> i.reload, irq_enabled |-> enabled, irq_triggered |-> triggered]
  BY <1>3
<1> HIDE DEF b
<1>7. c = [low |-> i.low, irq_latch |-> i.irq_latch, irq_counter |-> counter,
           reload |-> reload, irq_enabled |-> i.irq_enabled, irq_triggered |-> triggered]
  BY <1>5
<1> QED BY <1>1, <1>3, <1>4, <1>6, <1>7, Zenon DEF d

\* The CPU's writes raise no interrupt, and only the reload register leaves the history's count.
LEMMA WritesKeep ==
    ASSUME NEW i, NEW s, ChipInv(i, s), NEW j \in Written(i)
    PROVE  ChipInv(j, s) /\ (j.irq_triggered => i.irq_triggered)
<1>0. 0 \in CounterRange
  BY Counters
<1>1. CASE j = i  BY <1>1
<1>2. CASE j = WriteReload(i)
  <2>1. j = [low |-> i.low, irq_latch |-> i.irq_latch, irq_counter |-> 0, reload |-> TRUE,
             irq_enabled |-> i.irq_enabled, irq_triggered |-> FALSE]
    BY <1>2, ChipUpdates, Zenon DEF WriteReload, ChipInv
  <2> QED BY <2>1, <1>0, ChipFields DEF ChipInv, Chip
<1>3. CASE j = WriteDisable(i)
  <2>1. j = [low |-> i.low, irq_latch |-> i.irq_latch, irq_counter |-> i.irq_counter,
             reload |-> i.reload, irq_enabled |-> FALSE, irq_triggered |-> FALSE]
    BY <1>3, ChipUpdates, Zenon DEF WriteDisable, ChipInv
  <2>2. j \in Chip
    BY <2>1, ChipFields DEF Chip
  <2> QED BY <2>1, <2>2, ChipFields DEF ChipInv
<1>4. CASE j = WriteEnable(i)
  <2>1. j = [low |-> i.low, irq_latch |-> i.irq_latch, irq_counter |-> i.irq_counter,
             reload |-> i.reload, irq_enabled |-> TRUE, irq_triggered |-> i.irq_triggered]
    BY <1>4, ChipUpdates, Zenon DEF WriteEnable, ChipInv
  <2>2. j \in Chip
    BY <2>1, ChipFields DEF Chip
  <2> QED BY <2>1, <2>2, ChipFields DEF ChipInv
<1>5. ASSUME NEW value \in Latches, j = WriteLatch(i, value)
      PROVE  ChipInv(j, s) /\ (j.irq_triggered => i.irq_triggered)
  <2>1. j = [low |-> i.low, irq_latch |-> value, irq_counter |-> i.irq_counter,
             reload |-> i.reload, irq_enabled |-> i.irq_enabled,
             irq_triggered |-> i.irq_triggered]
    BY <1>5, ChipFields DEF WriteLatch
  <2>2. j \in Chip
    BY <2>1, ChipFields DEF Chip
  <2> QED BY <2>1, <2>2, ChipFields DEF ChipInv
<1> QED BY <1>1, <1>2, <1>3, <1>4, <1>5 DEF Written

LEMMA PollKeeps ==
    ASSUME NEW i, NEW s, ChipInv(i, s)
    PROVE  ChipInv(Polled(i), s) /\ ~Polled(i).irq_triggered
<1>1. Polled(i) = [low |-> i.low, irq_latch |-> i.irq_latch, irq_counter |-> i.irq_counter,
                   reload |-> i.reload, irq_enabled |-> i.irq_enabled,
                   irq_triggered |-> FALSE]
  BY ChipUpdates, Zenon DEF Polled, ChipInv
<1>2. Polled(i) \in Chip
  BY <1>1, ChipFields DEF Chip
<1> QED BY <1>1, <1>2, ChipFields DEF ChipInv

-----------------------------------------------------------------------------
(* A dot *)

\* What the dot does to the chip: at most one address, and the filter's age.
LEMMA DotKeeps ==
    ASSUME NEW i, NEW s, ChipInv(i, s), RunDot(i, s)
    PROVE  /\ ChipInv(irq', seen') /\ Period(i, s, irq', seen')
           /\ i.low = NeverLow => /\ seen'.since = s.since /\ seen'.loaded = s.loaded
                                  /\ irq'.irq_triggered = i.irq_triggered
                                  /\ irq'.irq_enabled = i.irq_enabled
<1>1. ASSUME NEW level, irq' = Aged(UpdateVramAddress(i, level)),
             seen' = LineSeen(SeeAddress(s, i, level))
      PROVE  /\ ChipInv(irq', seen') /\ Period(i, s, irq', seen')
             /\ i.low = NeverLow => /\ seen'.since = s.since /\ seen'.loaded = s.loaded
                                    /\ irq'.irq_triggered = i.irq_triggered
                                    /\ irq'.irq_enabled = i.irq_enabled
  <2> DEFINE j == UpdateVramAddress(i, level)
             t == SeeAddress(s, i, level)
  <2>1. ChipInv(j, t) /\ Period(i, s, j, t)
    BY AddressKeeps
  <2>2. i.low = NeverLow => ~IsClock(i, level)
    BY DEF IsClock, NeverLow, FilterLength
  <2>3. i.low = NeverLow => t = s /\ j.irq_triggered = i.irq_triggered
                                 /\ j.irq_enabled = i.irq_enabled
    BY <2>2, OtherAddressKeeps
  <2> HIDE DEF j, t
  <2>4. ChipInv(irq', t) /\ irq'.irq_triggered = j.irq_triggered
        /\ irq'.irq_enabled = j.irq_enabled
    BY <1>1, <2>1, AgedKeeps DEF j
  <2>5. ChipInv(irq', seen') /\ seen'.since = t.since /\ seen'.loaded = t.loaded
    BY <1>1, <2>4, LineSeenKeeps DEF t
  <2> QED BY <2>1, <2>3, <2>4, <2>5 DEF Period
<1>2. CASE irq' = Aged(i) /\ seen' = LineSeen(s)
  BY <1>2, AgedKeeps, LineSeenKeeps DEF Period
<1> QED BY <1>1, <1>2 DEF RunDot

\* The CPU's access of video memory and the dot after it clock the counter once at most.
LEMMA StepKeeps ==
    ASSUME ChipInv(irq, seen), Next
    PROVE  ChipInv(irq', seen') /\ Period(irq, seen, irq', seen')
<1>1. CASE Quiet  BY <1>1, DotKeeps DEF Quiet
<1>2. CASE Access
  <2>1. PICK i \in Written(irq) : \E j \in {i, Polled(i)} : RunDot(j, seen)
    BY <1>2 DEF Access
  <2>2. PICK j \in {i, Polled(i)} : RunDot(j, seen)
    BY <2>1
  <2>3. ChipInv(j, seen) /\ (j.irq_triggered => irq.irq_triggered)
    BY <2>1, <2>2, WritesKeep, PollKeeps
  <2>4. ChipInv(irq', seen') /\ Period(j, seen, irq', seen')
    BY <2>2, <2>3, DotKeeps
  <2> QED BY <2>3, <2>4 DEF Period
<1>3. CASE TouchVram
  <2>1. PICK level \in Tables :
            RunDot(UpdateVramAddress(irq, level), SeeAddress(seen, irq, level))
    BY <1>3 DEF TouchVram
  <2> DEFINE j == UpdateVramAddress(irq, level)
             t == SeeAddress(seen, irq, level)
  <2>2. /\ ChipInv(j, t) /\ Period(irq, seen, j, t)
        /\ IsClock(irq, level) => j.low = NeverLow
    BY AddressKeeps
  <2>3. ~IsClock(irq, level) => t = seen /\ j.irq_triggered = irq.irq_triggered
    BY OtherAddressKeeps
  <2>4. RunDot(j, t)
    BY <2>1
  <2> HIDE DEF j, t
  <2>5. /\ ChipInv(irq', seen') /\ Period(j, t, irq', seen')
        /\ j.low = NeverLow => /\ seen'.since = t.since /\ seen'.loaded = t.loaded
                               /\ irq'.irq_triggered = j.irq_triggered
                               /\ irq'.irq_enabled = j.irq_enabled
    BY <2>2, <2>4, DotKeeps
  <2> QED BY <2>2, <2>3, <2>5 DEF Period
<1>4. CASE WriteControl  BY <1>4, DotKeeps DEF WriteControl
<1> QED BY <1>1, <1>2, <1>3, <1>4 DEF Next

-----------------------------------------------------------------------------
(* The rest of the types *)

LEMMA Positions ==
    /\ BgEnd \in Nat /\ SpriteEnd \in Nat /\ PrefetchEnd \in Nat /\ LastDot \in Nat
    /\ 8 * SpriteUnits \in Nat /\ LastDot >= 1
BY ScheduleAssumption DEF BgEnd, SpriteEnd, PrefetchEnd, LastDot

LEMMA RunDotTypes ==
    ASSUME TypeOK, NEW i, NEW s, RunDot(i, s)
    PROVE  /\ scanline' \in 0..PreRender /\ dot' \in 0..LastDot
           /\ fetch' \in [next : Levels, sprite_step : 0..8 * SpriteUnits, table : Tables]
<1>1. scanline' \in 0..PreRender /\ dot' \in 0..LastDot
  <2>1. scanline \in 0..PreRender /\ dot \in 0..LastDot /\ NextPosition
    BY DEF TypeOK, RunDot
  <2> HIDE DEF LastDot
  <2> QED BY <2>1, Positions, ScheduleAssumption DEF NextPosition
<1>2. fetch \in [next : Levels, sprite_step : 0..8 * SpriteUnits, table : Tables]
      /\ ppu \in Registers
  BY DEF TypeOK
<1>3. NextAddress(dot, fetch.next) \in Levels
  BY <1>2 DEF NextAddress, Levels, Registers, Tables
<1>4. Capped(SpriteStep(dot) + 1, 8 * SpriteUnits) \in 0..8 * SpriteUnits
  <2> DEFINE bound == 8 * SpriteUnits
  <2>1. bound \in Nat /\ SpriteStep(dot) \in 0..bound
    BY <1>2, Positions DEF SpriteStep
  <2> HIDE DEF bound
  <2>2. Capped(SpriteStep(dot) + 1, bound) \in 0..bound
    BY <2>1 DEF Capped
  <2> QED BY <2>2 DEF bound
<1>5. ASSUME NEW level,
             fetch' = [next |-> IF dot = 0 THEN fetch.next ELSE NextAddress(dot, fetch.next),
                       sprite_step |-> IF InSprites(dot)
                                       THEN Capped(SpriteStep(dot) + 1, 8 * SpriteUnits)
                                       ELSE fetch.sprite_step,
                       table |-> IF ppu.tall_sprites /\ level \in Tables /\ InSprites(dot)
                                 THEN level ELSE "low"]
      PROVE  fetch' \in [next : Levels, sprite_step : 0..8 * SpriteUnits, table : Tables]
  <2>1. fetch.next \in Levels /\ fetch.sprite_step \in 0..8 * SpriteUnits
    BY <1>2
  <2>2. "low" \in Tables
    BY DEF Tables
  <2> QED BY <2>1, <2>2, <1>3, <1>4, <1>5
<1> QED BY <1>1, <1>2, <1>5 DEF RunDot

LEMMA StepTypes == TypeOK /\ Next /\ irq' \in Chip /\ seen' \in History => TypeOK'
<1> SUFFICES ASSUME TypeOK, Next, irq' \in Chip, seen' \in History PROVE TypeOK'
  OBVIOUS
<1>1. ppu' \in Registers /\ steady' \in 0..2
  <2>1. ppu \in Registers /\ steady \in 0..2
    BY DEF TypeOK
  <2>2. ppu' = ppu \/ ppu' \in Registers
    BY DEF Next, Quiet, Access, TouchVram, WriteControl
  <2>3. LineEnds \/ steady' = 0
    BY DEF Next, Quiet, Access, TouchVram, WriteControl
  <2> QED BY <2>1, <2>2, <2>3 DEF LineEnds
<1>2. \E i, s : RunDot(i, s)
  BY DEF Next, Quiet, Access, TouchVram, WriteControl
<1> QED BY <1>1, <1>2, RunDotTypes DEF TypeOK, Chip, History

-----------------------------------------------------------------------------
(* A line the CPU does not disturb: how long the line was low at each dot, for each pair of     *)
(* pattern tables, and what that leaves of the clocks                                            *)

Steady == steady # 0 /\ Fetches

\* What fetch_data reads next, and where the sprite fetch machine is.
NextInv ==
    Steady => /\ dot % 8 \in {2, 4} => fetch.next = "none"
              /\ dot > 0 /\ dot % 8 \in {0, 6} /\ InBackground(dot) =>
                     fetch.next = ppu.background

StepInv == Steady /\ dot \in BgEnd + 2..SpriteEnd => fetch.sprite_step = dot - (BgEnd + 1)

\* The tables the background and 8x8 sprites are fetched from.
FromTables(background, sprites) ==
    /\ Steady /\ ~ppu.tall_sprites
    /\ ppu.background = background /\ ppu.sprites = sprites

\* The high byte of a sprite follows two dots behind its low byte, too early to be a clock.
LowSpritesInv ==
    Steady /\ ~ppu.tall_sprites /\ ppu.sprites = "low" /\ InSprites(dot) =>
        /\ dot % 8 = 6 => irq.low = 1
        /\ dot % 8 = 7 => irq.low = 2

\* The first sprite's low byte comes five dots behind the background, one too early; its high
\* byte, or the next sprite's low one, is the clock.
LowHighInv ==
    FromTables("low", "high") =>
        /\ dot <= BgEnd + 7 => seen.clocks = 0
        /\ dot \in BgEnd + 1..BgEnd + 7 => irq.low = Capped(dot - BgEnd, FilterLength)
        /\ dot \in BgEnd + 8..BgEnd + 13 =>
               \/ seen.clocks = 0 /\ irq.low = FilterLength
               \/ seen.clocks = 1 /\ irq.low = NeverLow
        /\ dot \in BgEnd + 14..SpriteEnd => irq.low = NeverLow
        /\ dot >= BgEnd + 14 => seen.clocks = 1

\* The last sprite has no high byte: its low byte lies far enough before the next line's tiles.
HighLowInv ==
    FromTables("high", "low") =>
        /\ dot \in SpriteEnd - 2..SpriteEnd + 6 =>
               irq.low = Capped(dot - (SpriteEnd - 3), FilterLength)
        /\ dot >= SpriteEnd + 7 => irq.low = NeverLow
        /\ steady = 2 /\ dot <= SpriteEnd + 6 => seen.clocks = 0
        /\ steady = 2 /\ dot >= SpriteEnd + 7 => seen.clocks = 1

LowLowInv == FromTables("low", "low") => seen.clocks = 0

HighHighInv ==
    FromTables("high", "high") =>
        /\ dot <= 6 => irq.low >= dot
        /\ dot >= 7 => irq.low = NeverLow
        /\ steady = 2 => seen.clocks = 0

\* A line with its background high ends with the filter closed; nothing opens it before the
\* sprites of the next line that is fetched.
RestInv ==
    /\ steady = 2 /\ ppu.rendering /\ ~ppu.tall_sprites /\ ppu.background = "high"
    /\ ~Fetches \/ dot <= BgEnd + 5
    => irq.low = NeverLow

LineInv ==
    /\ NextInv /\ StepInv /\ LowSpritesInv /\ LowHighInv /\ HighLowInv /\ LowLowInv
    /\ HighHighInv /\ RestInv

LEMMA Dots ==
    /\ Tiles \in Nat \ {0} /\ SpriteUnits \in Nat /\ SpriteUnits >= 2
    /\ BgEnd = 8 * Tiles /\ SpriteEnd = 8 * Tiles + 8 * SpriteUnits
    /\ PrefetchEnd = 8 * Tiles + 8 * SpriteUnits + 16
    /\ LastDot = 8 * Tiles + 8 * SpriteUnits + 20
BY ScheduleAssumption DEF BgEnd, SpriteEnd, PrefetchEnd, LastDot

\* The filter after a dot that sees level.
NextLow(low, level) ==
    CASE level = "low" -> 1
      [] level = "high" /\ low = FilterLength -> NeverLow
      [] OTHER -> IF low < FilterLength THEN low + 1 ELSE low

LEMMA LowFacts ==
    ASSUME NEW low \in 0..NeverLow
    PROVE  /\ NextLow(low, "low") = 1
           /\ NextLow(low, "high") = IF low < FilterLength THEN low + 1 ELSE NeverLow
           /\ NextLow(low, "none") = IF low < FilterLength THEN low + 1 ELSE low
BY DEF NextLow, NeverLow, FilterLength

LEMMA ChipLow ==
    ASSUME NEW i \in Chip, NEW level
    PROVE  /\ Aged(UpdateVramAddress(i, level)).low = NextLow(i.low, level)
           /\ Aged(i).low = NextLow(i.low, "none")
<1>1. /\ Aged(i).low = IF i.low < FilterLength THEN i.low + 1 ELSE i.low
      /\ i.low \in 0..NeverLow
  BY DEF Aged, Chip
<1>2. CASE level = "low"
  <2>1. UpdateVramAddress(i, level) = [i EXCEPT !.low = 0]
    BY <1>2 DEF UpdateVramAddress, IsClock
  <2>2. Aged([i EXCEPT !.low = 0]).low = 1
    BY DEF Aged, Chip, FilterLength
  <2> QED BY <1>1, <1>2, <2>1, <2>2, LowFacts
<1>3. CASE IsClock(i, level)
  <2>1. UpdateVramAddress(i, level) = [ClockIrqCounter(i) EXCEPT !.low = NeverLow]
    BY <1>3 DEF UpdateVramAddress, IsClock
  <2> DEFINE j == [ClockIrqCounter(i) EXCEPT !.low = NeverLow]
  <2>2. j.low = NeverLow
    BY DEF ClockIrqCounter, Chip
  <2>3. Aged(j).low = NeverLow
    <3>1. "low" \in DOMAIN j
      BY DEF ClockIrqCounter, Chip
    <3> HIDE DEF j
    <3> QED BY <2>2, <3>1 DEF Aged, NeverLow, FilterLength
  <2> QED BY <1>1, <1>3, <2>1, <2>3, LowFacts DEF IsClock, FilterLength
<1>4. CASE level # "low" /\ ~IsClock(i, level)
  <2>1. UpdateVramAddress(i, level) = i
    BY <1>4 DEF UpdateVramAddress
  <2> QED BY <1>1, <1>4, <2>1 DEF NextLow, IsClock
<1> QED BY <1>1, <1>2, <1>3, <1>4, LowFacts

\* The writes and the poll leave the filter alone.
LEMMA AccessLow ==
    ASSUME NEW i \in Chip, NEW j \in Written(i) \cup {Polled(k) : k \in Written(i)}
    PROVE  j.low = i.low
<1>1. ASSUME NEW k \in Written(i)
      PROVE  k.low = i.low /\ Polled(k).low = i.low
  BY DEF Written, WriteLatch, WriteReload, WriteDisable, WriteEnable, Polled, Chip
<1> QED BY <1>1

LEMMA SteadyStep ==
    ASSUME ChipInv(irq, seen), Next, steady' # 0
    PROVE  /\ ppu' = ppu /\ LineEnds /\ NextPosition
           /\ \E i : ChipInv(i, seen) /\ i.low = irq.low /\ RunDot(i, seen)
<1>1. irq \in Chip
  BY DEF ChipInv
<1>2. CASE Quiet
  BY <1>2 DEF Quiet, RunDot
<1>3. CASE Access
  <2>1. PICK i \in Written(irq) : \E j \in {i, Polled(i)} : RunDot(j, seen)
    BY <1>3 DEF Access
  <2>2. PICK j \in {i, Polled(i)} : RunDot(j, seen)
    BY <2>1
  <2>3. ChipInv(j, seen)
    BY <2>1, <2>2, WritesKeep, PollKeeps
  <2>4. j.low = irq.low
    BY <1>1, <2>1, <2>2, AccessLow
  <2> QED BY <1>3, <2>2, <2>3, <2>4 DEF Access, RunDot
<1> QED BY <1>2, <1>3 DEF Next, TouchVram, WriteControl

\* A dot of a line that is fetched, without an access that disturbs it.
LineDot(level) ==
    /\ level \in FetchedLevels(dot)
    /\ irq'.low = NextLow(irq.low, level)
    /\ seen'.clocks = IF dot' = 0 THEN 0
                      ELSE IF level = "high" /\ irq.low = FilterLength
                      THEN Capped(seen.clocks + 1, 2) ELSE seen.clocks
    /\ fetch'.next = IF dot = 0 THEN fetch.next ELSE NextAddress(dot, fetch.next)
    /\ InSprites(dot) => fetch'.sprite_step = Capped(SpriteStep(dot) + 1, 8 * SpriteUnits)

LEMMA FetchedStep ==
    ASSUME ChipInv(irq, seen), Next, steady' # 0, Fetches
    PROVE  \E level : LineDot(level)
<1>1. PICK i : ChipInv(i, seen) /\ i.low = irq.low /\ RunDot(i, seen)
  BY SteadyStep
<1>2. PICK level \in FetchedLevels(dot) :
        /\ irq' = Aged(UpdateVramAddress(i, level))
        /\ seen' = LineSeen(SeeAddress(seen, i, level))
        /\ fetch' =
            [next |-> IF dot = 0 THEN fetch.next ELSE NextAddress(dot, fetch.next),
             sprite_step |-> IF InSprites(dot)
                             THEN Capped(SpriteStep(dot) + 1, 8 * SpriteUnits)
                             ELSE fetch.sprite_step,
             table |-> IF ppu.tall_sprites /\ level \in Tables /\ InSprites(dot)
                       THEN level ELSE "low"]
  BY <1>1 DEF RunDot
<1>3. irq'.low = NextLow(irq.low, level)
  BY <1>1, <1>2, ChipLow DEF ChipInv
<1>4. seen'.clocks = IF dot' = 0 THEN 0
                     ELSE IF level = "high" /\ irq.low = FilterLength
                     THEN Capped(seen.clocks + 1, 2) ELSE seen.clocks
  <2> DEFINE t == SeeAddress(seen, i, level)
  <2>1. t.clocks = IF level = "high" /\ irq.low = FilterLength
                   THEN Capped(seen.clocks + 1, 2) ELSE seen.clocks
    BY <1>1 DEF SeeAddress, IsClock
  <2>2. t \in History
    <3>1. ChipInv(UpdateVramAddress(i, level), t)
      BY <1>1, AddressKeeps
    <3> QED BY <3>1 DEF ChipInv
  <2> HIDE DEF t
  <2>3. seen' = LineSeen(t)
    BY <1>2 DEF t
  <2> QED BY <2>1, <2>2, <2>3 DEF LineSeen, History
<1>5. /\ fetch'.next = IF dot = 0 THEN fetch.next ELSE NextAddress(dot, fetch.next)
      /\ InSprites(dot) => fetch'.sprite_step = Capped(SpriteStep(dot) + 1, 8 * SpriteUnits)
  BY <1>2
<1> QED BY <1>2, <1>3, <1>4, <1>5 DEF LineDot

\* And of a line that is not.
LEMMA IdleStep ==
    ASSUME ChipInv(irq, seen), Next, steady' # 0, ~Fetches
    PROVE  irq'.low = NextLow(irq.low, "none") /\ (dot' = 0 => seen'.clocks = 0)
<1>1. PICK i : ChipInv(i, seen) /\ i.low = irq.low /\ RunDot(i, seen)
  BY SteadyStep
<1>2. irq' = Aged(i) /\ seen' = LineSeen(seen)
  BY <1>1 DEF RunDot
<1> QED BY <1>1, <1>2, ChipLow DEF ChipInv, LineSeen, History

\* What such a line sees at each dot.
LEMMA SeenLevels ==
    ASSUME TypeOK, Steady, NextInv, StepInv, ~ppu.tall_sprites,
           NEW level \in FetchedLevels(dot)
    PROVE  /\ dot > 0 /\ dot % 8 \in {0, 6} /\ InBackground(dot) => level = ppu.background
           /\ InSprites(dot) /\ dot % 8 = 5 => level = ppu.sprites
           /\ InSprites(dot) /\ dot % 8 = 7 =>
                /\ level \in Levels
                /\ ppu.sprites = "high" => level # "low"
                /\ dot > SpriteEnd - 8 => level = "none"
           /\ \/ dot > 0 /\ dot % 8 \in {0, 6} /\ InBackground(dot)
              \/ InSprites(dot) /\ dot % 8 \in {5, 7}
              \/ level = "none"
<1>1. /\ dot \in Nat /\ dot <= LastDot /\ steady # 0
      /\ ppu.background \in Tables /\ ppu.sprites \in Tables
  BY Dots DEF TypeOK, Registers, Steady
<1>2. InSprites(dot) => ~InBackground(dot) \/ dot % 8 \notin {0, 6}
  BY <1>1, Dots DEF InSprites, InBackground
<1>3. CASE dot > 0 /\ dot % 8 \in {0, 6} /\ InBackground(dot)
  <2>1. ReadsNext(dot)
    BY <1>3 DEF ReadsNext
  <2>2. level = ppu.background
    BY <1>3, <2>1 DEF FetchedLevels, NextInv
  <2>3. ~(InSprites(dot) /\ dot % 8 \in {5, 7})
    BY <1>3
  <2> QED BY <1>3, <2>2, <2>3
<1>4. CASE dot % 8 \in {2, 4}
  <2>1. ReadsNext(dot)
    BY <1>1, <1>4 DEF ReadsNext
  <2>2. level = "none"
    BY <1>4, <2>1 DEF FetchedLevels, NextInv
  <2> QED BY <1>4, <2>2
<1>5. CASE ~InSprites(dot) /\ ~ReadsNext(dot)
  <2>1. level = "none"
    BY <1>5 DEF FetchedLevels
  <2>2. ~(dot > 0 /\ dot % 8 \in {0, 6} /\ InBackground(dot))
    BY <1>5 DEF ReadsNext
  <2> QED BY <1>5, <2>1, <2>2
<1>6. CASE InSprites(dot) /\ dot % 8 \notin {2, 4}
  <2> DEFINE step == SpriteStep(dot)
             q == dot - (BgEnd + 1)
  <2>1. /\ ~InBackground(dot) \/ dot % 8 \notin {0, 6}
        /\ ~ReadsNext(dot)
    BY <1>2, <1>6 DEF ReadsNext
  <2>2. step = q
    <3>1. CASE dot = BgEnd + 1
      BY <3>1, Dots DEF SpriteStep
    <3>2. CASE dot # BgEnd + 1
      BY <1>1, <1>6, <3>2, Dots DEF SpriteStep, StepInv, InSprites
    <3> QED BY <3>1, <3>2
  <2>3. /\ q \in Nat /\ q < 8 * SpriteUnits
        /\ q % 8 = 4 <=> dot % 8 = 5
        /\ q % 8 = 6 <=> dot % 8 = 7
        /\ q < 8 * (SpriteUnits - 1) <=> dot <= SpriteEnd - 8
    BY <1>1, <1>6, Dots DEF InSprites
  <2> HIDE DEF q, step
  <2>4. /\ FetchesLow(step) <=> dot % 8 = 5
        /\ FetchesHigh(step) <=> (dot % 8 = 7 /\ dot <= SpriteEnd - 8)
    BY <2>2, <2>3 DEF FetchesLow, FetchesHigh
  <2>5. level \in SpriteLevels(step)
    BY <1>1, <1>6, <2>1 DEF FetchedLevels, step
  <2>6. CASE dot % 8 = 5
    <3>1. FetchesLow(step) /\ ~FetchesHigh(step)
      BY <2>4, <2>6
    <3>2. level = ppu.sprites
      BY <2>5, <3>1 DEF SpriteLevels
    <3> QED BY <1>6, <2>6, <3>2
  <2>7. CASE dot % 8 = 7 /\ dot <= SpriteEnd - 8
    <3>1. ~FetchesLow(step) /\ FetchesHigh(step)
      BY <2>4, <2>7
    <3>2. level \in {ppu.sprites, IF ppu.sprites = "low" THEN "high" ELSE "none"}
      BY <2>5, <3>1 DEF SpriteLevels
    <3>3. level \in Levels /\ (ppu.sprites = "high" => level # "low")
      BY <1>1, <3>2 DEF Levels, Tables
    <3>4. ~(dot > SpriteEnd - 8)
      BY <1>1, <2>7, Dots
    <3> QED BY <1>6, <2>7, <3>3, <3>4
  <2>8. CASE dot % 8 # 5 /\ ~(dot % 8 = 7 /\ dot <= SpriteEnd - 8)
    <3>1. ~FetchesLow(step) /\ ~FetchesHigh(step)
      BY <2>4, <2>8
    <3>2. level = "none"
      BY <2>5, <3>1 DEF SpriteLevels
    <3>3. level \in Levels /\ level # "low"
      BY <3>2 DEF Levels
    <3>4. ~(dot > 0 /\ dot % 8 \in {0, 6} /\ InBackground(dot))
      BY <2>1
    <3> QED BY <2>8, <3>2, <3>3, <3>4
  <2> QED BY <2>6, <2>7, <2>8
<1>7. \/ dot > 0 /\ dot % 8 \in {0, 6} /\ InBackground(dot)
      \/ dot % 8 \in {2, 4}
      \/ ~InSprites(dot) /\ ~ReadsNext(dot)
      \/ InSprites(dot) /\ dot % 8 \notin {2, 4}
  BY DEF ReadsNext
<1> QED BY <1>3, <1>4, <1>5, <1>6, <1>7

\* From one dot of such a line to the next.
LEMMA WithinLine ==
    ASSUME TypeOK, ChipInv(irq, seen), Next, steady' # 0, dot' # 0
    PROVE  /\ dot \in Nat /\ dot' = dot + 1 /\ dot < LastDot
           /\ steady' = steady /\ ppu' = ppu /\ scanline' = scanline
           /\ Fetches' = Fetches /\ Steady' = Steady
           /\ irq.low \in 0..NeverLow
<1>1. ppu' = ppu /\ LineEnds /\ NextPosition
  BY SteadyStep
<1>2. dot \in Nat
  BY Dots DEF TypeOK
<1>3. dot' = dot + 1 /\ dot < LastDot /\ scanline' = scanline
  BY <1>1 DEF NextPosition
<1>4. steady' = steady
  BY <1>1 DEF LineEnds
<1>5. Fetches' = Fetches
  BY <1>1, <1>3 DEF Fetches
<1>6. irq.low \in 0..NeverLow
  BY DEF TypeOK
<1> QED BY <1>1, <1>2, <1>3, <1>4, <1>5, <1>6 DEF Steady

LEMMA NextStep ==
    ASSUME IInv, LineInv, Next
    PROVE  NextInv' /\ StepInv'
<1>1. SUFFICES ASSUME Steady', dot' # 0
               PROVE  NextInv' /\ StepInv'
  <2>1. dot' = 0 => dot' % 8 \notin {2, 4} /\ ~(dot' > 0) /\ dot' \notin BgEnd + 2..SpriteEnd
    BY Dots
  <2> QED BY <1>1, <2>1 DEF NextInv, StepInv
<1>2. /\ dot \in Nat /\ dot' = dot + 1 /\ dot < LastDot /\ ppu' = ppu
      /\ Steady /\ steady' # 0 /\ Fetches
  BY <1>1, WithinLine DEF IInv, Steady
<1>3. PICK level : LineDot(level)
  BY <1>2, FetchedStep DEF IInv
<1>4. ASSUME dot' % 8 \in {2, 4}
      PROVE  fetch'.next = "none"
  <2>1. dot # 0 /\ dot % 8 \in {1, 3}
    BY <1>2, <1>4
  <2> QED BY <1>3, <2>1 DEF LineDot, NextAddress
<1>5. ASSUME dot' % 8 \in {0, 6}, InBackground(dot')
      PROVE  fetch'.next = ppu'.background
  <2>1. dot # 0 /\ dot % 8 \in {5, 7} /\ (dot <= BgEnd \/ dot > SpriteEnd)
    BY <1>2, <1>5, Dots DEF InBackground
  <2> QED BY <1>2, <1>3, <2>1 DEF LineDot, NextAddress
<1>6. ASSUME dot' \in BgEnd + 2..SpriteEnd
      PROVE  fetch'.sprite_step = dot' - (BgEnd + 1)
  <2>1. InSprites(dot) /\ dot - (BgEnd + 1) < 8 * SpriteUnits
    BY <1>2, <1>6, Dots DEF InSprites
  <2>2. SpriteStep(dot) = dot - (BgEnd + 1)
    <3>1. CASE dot = BgEnd + 1
      BY <3>1, Dots DEF SpriteStep
    <3>2. CASE dot # BgEnd + 1
      BY <1>2, <2>1, <3>2, Dots DEF SpriteStep, StepInv, InSprites, LineInv
    <3> QED BY <3>1, <3>2
  <2> DEFINE q == dot - (BgEnd + 1)
             bound == 8 * SpriteUnits
  <2>3. q \in Nat /\ bound \in Nat /\ q < bound /\ dot' - (BgEnd + 1) = q + 1
    BY <1>2, <2>1, Dots DEF InSprites
  <2>4. fetch'.sprite_step = Capped(q + 1, bound)
    BY <1>3, <2>1, <2>2 DEF LineDot
  <2> HIDE DEF q, bound
  <2> QED BY <2>3, <2>4 DEF Capped
<1> QED BY <1>4, <1>5, <1>6 DEF NextInv, StepInv

\* A dot of such a line with 8x8 sprites, as the pattern tables decide it.
LEMMA QuietDot ==
    ASSUME IInv, LineInv, Next, steady' # 0, Steady, ~ppu.tall_sprites
    PROVE  \E level :
             /\ irq'.low = NextLow(irq.low, level)
             /\ seen'.clocks = IF dot' = 0 THEN 0
                               ELSE IF level = "high" /\ irq.low = FilterLength
                               THEN Capped(seen.clocks + 1, 2) ELSE seen.clocks
             /\ dot > 0 /\ dot % 8 \in {0, 6} /\ InBackground(dot) => level = ppu.background
             /\ InSprites(dot) /\ dot % 8 = 5 => level = ppu.sprites
             /\ InSprites(dot) /\ dot % 8 = 7 =>
                  /\ level \in Levels
                  /\ ppu.sprites = "high" => level # "low"
                  /\ dot > SpriteEnd - 8 => level = "none"
             /\ \/ dot > 0 /\ dot % 8 \in {0, 6} /\ InBackground(dot)
                \/ InSprites(dot) /\ dot % 8 \in {5, 7}
                \/ level = "none"
<1>1. PICK level : LineDot(level)
  BY FetchedStep DEF IInv, Steady
<1>2. level \in FetchedLevels(dot)
  BY <1>1 DEF LineDot
<1> QED BY <1>1, <1>2, SeenLevels DEF IInv, LineInv, LineDot

LEMMA LowSpritesStep ==
    ASSUME IInv, LineInv, Next
    PROVE  LowSpritesInv'
<1>1. SUFFICES ASSUME Steady', ~ppu'.tall_sprites, ppu'.sprites = "low", InSprites(dot')
               PROVE  /\ dot' % 8 = 6 => irq'.low = 1
                      /\ dot' % 8 = 7 => irq'.low = 2
  BY DEF LowSpritesInv
<1>2. dot' # 0 /\ steady' # 0
  BY <1>1, Dots DEF InSprites, Steady
<1>3. /\ dot \in Nat /\ dot' = dot + 1 /\ Steady /\ irq.low \in 0..NeverLow
      /\ ~ppu.tall_sprites /\ ppu.sprites = "low"
  BY <1>1, <1>2, WithinLine DEF IInv
<1>4. PICK level :
        /\ irq'.low = NextLow(irq.low, level)
        /\ InSprites(dot) /\ dot % 8 = 5 => level = ppu.sprites
        /\ \/ dot > 0 /\ dot % 8 \in {0, 6} /\ InBackground(dot)
           \/ InSprites(dot) /\ dot % 8 \in {5, 7}
           \/ level = "none"
  BY <1>2, <1>3, QuietDot
<1>5. ASSUME dot' % 8 = 6
      PROVE  irq'.low = 1
  <2>1. InSprites(dot) /\ dot % 8 = 5
    BY <1>1, <1>3, <1>5, Dots DEF InSprites
  <2> QED BY <1>3, <1>4, <2>1, LowFacts
<1>6. ASSUME dot' % 8 = 7
      PROVE  irq'.low = 2
  <2>1. InSprites(dot) /\ dot % 8 = 6 /\ ~InBackground(dot)
    BY <1>1, <1>3, <1>6, Dots DEF InSprites, InBackground
  <2>2. level = "none"
    BY <1>4, <2>1
  <2>3. irq.low = 1
    BY <1>3, <2>1 DEF LineInv, LowSpritesInv
  <2> QED BY <1>3, <1>4, <2>2, <2>3, LowFacts DEF FilterLength
<1> QED BY <1>5, <1>6

\* A line begins without a clock.
LEMMA LineBegins ==
    ASSUME IInv, Next, steady' # 0, dot' = 0
    PROVE  seen'.clocks = 0
<1>1. CASE Fetches
  <2>1. PICK level : LineDot(level)
    BY <1>1, FetchedStep DEF IInv
  <2> QED BY <2>1 DEF LineDot
<1>2. CASE ~Fetches
  BY <1>2, IdleStep DEF IInv
<1> QED BY <1>1, <1>2

LEMMA LowHighStep ==
    ASSUME IInv, LineInv, Next
    PROVE  LowHighInv'
<1> DEFINE low == irq.low
           clocks == seen.clocks
<1>1. SUFFICES ASSUME FromTables("low", "high")'
               PROVE  /\ dot' <= BgEnd + 7 => seen'.clocks = 0
                      /\ dot' \in BgEnd + 1..BgEnd + 7 =>
                             irq'.low = Capped(dot' - BgEnd, FilterLength)
                      /\ dot' \in BgEnd + 8..BgEnd + 13 =>
                             \/ seen'.clocks = 0 /\ irq'.low = FilterLength
                             \/ seen'.clocks = 1 /\ irq'.low = NeverLow
                      /\ dot' \in BgEnd + 14..SpriteEnd => irq'.low = NeverLow
                      /\ dot' >= BgEnd + 14 => seen'.clocks = 1
  BY DEF LowHighInv
<1>2. steady' # 0
  BY <1>1 DEF FromTables, Steady
<1>3. CASE dot' = 0
  BY <1>2, <1>3, LineBegins, Dots
<1>4. CASE dot' # 0
  <2>1. /\ dot \in Nat /\ dot' = dot + 1 /\ dot < LastDot /\ FromTables("low", "high")
        /\ low \in 0..NeverLow /\ clocks \in 0..2
    BY <1>1, <1>2, <1>4, WithinLine DEF IInv, FromTables, TypeOK
  <2>2. PICK level :
          /\ irq'.low = NextLow(low, level)
          /\ seen'.clocks = IF dot' = 0 THEN 0
                            ELSE IF level = "high" /\ low = FilterLength
                            THEN Capped(clocks + 1, 2) ELSE clocks
          /\ dot > 0 /\ dot % 8 \in {0, 6} /\ InBackground(dot) => level = ppu.background
          /\ InSprites(dot) /\ dot % 8 = 5 => level = ppu.sprites
          /\ InSprites(dot) /\ dot % 8 = 7 => level \in Levels
                                              /\ (ppu.sprites = "high" => level # "low")
          /\ \/ dot > 0 /\ dot % 8 \in {0, 6} /\ InBackground(dot)
             \/ InSprites(dot) /\ dot % 8 \in {5, 7}
             \/ level = "none"
    BY <1>2, <2>1, QuietDot DEF FromTables
  <2>3. /\ dot <= BgEnd + 7 => clocks = 0
        /\ dot \in BgEnd + 1..BgEnd + 7 => low = Capped(dot - BgEnd, FilterLength)
        /\ dot \in BgEnd + 8..BgEnd + 13 =>
               (clocks = 0 /\ low = FilterLength) \/ (clocks = 1 /\ low = NeverLow)
        /\ dot \in BgEnd + 14..SpriteEnd => low = NeverLow
        /\ dot >= BgEnd + 14 => clocks = 1
    BY <2>1 DEF LineInv, LowHighInv
  <2>4. ppu.background = "low" /\ ppu.sprites = "high"
    BY <2>1 DEF FromTables
  <2> HIDE DEF low, clocks
  <2>5. /\ irq'.low = IF level = "low" THEN 1
                      ELSE IF level = "high" /\ low = 6 THEN 7
                      ELSE IF low < 6 THEN low + 1 ELSE low
        /\ seen'.clocks = IF level = "high" /\ low = 6
                          THEN (IF clocks < 1 THEN clocks + 1 ELSE 2) ELSE clocks
        /\ low \in 0..7
    BY <1>4, <2>1, <2>2 DEF NextLow, Capped, NeverLow, FilterLength
  <2>6. CASE dot < BgEnd
    <3>1. level # "high"
      BY <2>1, <2>2, <2>4, <2>6, Dots DEF InSprites
    <3>2. seen'.clocks = 0 /\ dot' <= BgEnd
      BY <2>1, <2>3, <2>5, <2>6, <3>1, Dots
    <3> QED BY <2>1, <3>2, Dots
  <2>7. CASE dot = BgEnd
    <3>1. level = "low"
      BY <2>1, <2>2, <2>4, <2>7, Dots DEF InBackground
    <3>2. irq'.low = 1 /\ seen'.clocks = 0
      BY <2>1, <2>3, <2>5, <2>7, <3>1, Dots
    <3>3. dot' = BgEnd + 1 /\ Capped(dot' - BgEnd, FilterLength) = 1
      BY <2>1, <2>7, Dots DEF Capped, FilterLength
    <3> QED BY <3>2, <3>3, Dots
  <2>8. CASE dot \in BgEnd + 1..BgEnd + 6
    <3>1. low = IF dot - BgEnd < 6 THEN dot - BgEnd ELSE 6
      BY <2>3, <2>8, Dots DEF Capped, FilterLength
    <3>2. level = "none" \/ (level = "high" /\ dot = BgEnd + 5)
      BY <2>1, <2>2, <2>4, <2>8, Dots DEF InSprites, InBackground
    <3>3. seen'.clocks = 0 /\ irq'.low = IF dot' - BgEnd < 6 THEN dot' - BgEnd ELSE 6
      BY <2>1, <2>3, <2>5, <2>8, <3>1, <3>2, Dots
    <3> QED BY <2>1, <2>8, <3>3, Dots DEF Capped, FilterLength
  <2>9. CASE dot = BgEnd + 7
    <3>1. low = 6 /\ clocks = 0
      BY <2>3, <2>9, Dots DEF Capped, FilterLength
    <3>2. level # "low"
      BY <2>1, <2>2, <2>4, <2>9, Dots DEF InSprites
    <3>3. (seen'.clocks = 0 /\ irq'.low = 6) \/ (seen'.clocks = 1 /\ irq'.low = 7)
      BY <2>5, <3>1, <3>2
    <3> QED BY <2>1, <2>9, <3>3, Dots DEF NeverLow, FilterLength
  <2>10. CASE dot \in BgEnd + 8..BgEnd + 12
    <3>1. level = "none"
      BY <2>1, <2>2, <2>10, Dots DEF InSprites, InBackground
    <3>2. (seen'.clocks = 0 /\ irq'.low = 6) \/ (seen'.clocks = 1 /\ irq'.low = 7)
      BY <2>3, <2>5, <2>10, <3>1, Dots DEF NeverLow, FilterLength
    <3> QED BY <2>1, <2>10, <3>2, Dots DEF NeverLow, FilterLength
  <2>11. CASE dot = BgEnd + 13
    <3>1. level = "high"
      BY <2>1, <2>2, <2>4, <2>11, Dots DEF InSprites
    <3>2. seen'.clocks = 1 /\ irq'.low = 7
      BY <2>3, <2>5, <2>11, <3>1, Dots DEF NeverLow, FilterLength
    <3>3. ~(dot' <= BgEnd + 7) /\ dot' \notin BgEnd + 1..BgEnd + 7
          /\ dot' \notin BgEnd + 8..BgEnd + 13
      BY <2>1, <2>11, Dots
    <3> QED BY <3>2, <3>3 DEF NeverLow, FilterLength
  <2>12. CASE dot \in BgEnd + 14..SpriteEnd
    <3>1. level # "low"
      BY <2>1, <2>2, <2>4, <2>12, Dots DEF InSprites, InBackground
    <3>2. dot \in BgEnd + 14..SpriteEnd /\ dot >= BgEnd + 14
      BY <2>12, Dots
    <3>3. low = 7 /\ clocks = 1
      BY <2>3, <3>2 DEF NeverLow, FilterLength
    <3>4. seen'.clocks = 1 /\ irq'.low = 7
      BY <2>5, <3>1, <3>3
    <3>5. ~(dot' <= BgEnd + 7) /\ dot' \notin BgEnd + 1..BgEnd + 7
          /\ dot' \notin BgEnd + 8..BgEnd + 13
      BY <2>1, <2>12, Dots
    <3> QED BY <3>4, <3>5 DEF NeverLow, FilterLength
  <2>13. CASE dot > SpriteEnd
    <3>1. level # "high"
      BY <2>1, <2>2, <2>4, <2>13, Dots DEF InSprites
    <3>2. seen'.clocks = 1
      BY <2>1, <2>3, <2>5, <2>13, <3>1, Dots
    <3> QED BY <2>1, <2>13, <3>2, Dots
  <2>14. \/ dot < BgEnd \/ dot = BgEnd \/ dot \in BgEnd + 1..BgEnd + 6 \/ dot = BgEnd + 7
         \/ dot \in BgEnd + 8..BgEnd + 12 \/ dot = BgEnd + 13
         \/ dot \in BgEnd + 14..SpriteEnd \/ dot > SpriteEnd
    BY <2>1, Dots
  <2> QED BY <2>6, <2>7, <2>8, <2>9, <2>10, <2>11, <2>12, <2>13, <2>14
<1> QED BY <1>3, <1>4

LEMMA HighLowStep ==
    ASSUME IInv, LineInv, Next
    PROVE  HighLowInv'
<1> DEFINE low == irq.low
           clocks == seen.clocks
<1>1. SUFFICES ASSUME FromTables("high", "low")'
               PROVE  /\ dot' \in SpriteEnd - 2..SpriteEnd + 6 =>
                             irq'.low = Capped(dot' - (SpriteEnd - 3), FilterLength)
                      /\ dot' >= SpriteEnd + 7 => irq'.low = NeverLow
                      /\ steady' = 2 /\ dot' <= SpriteEnd + 6 => seen'.clocks = 0
                      /\ steady' = 2 /\ dot' >= SpriteEnd + 7 => seen'.clocks = 1
  BY DEF HighLowInv
<1>2. steady' # 0
  BY <1>1 DEF FromTables, Steady
<1>3. CASE dot' = 0
  BY <1>2, <1>3, LineBegins, Dots
<1>4. CASE dot' # 0
  <2>1. /\ dot \in Nat /\ dot' = dot + 1 /\ dot < LastDot /\ FromTables("high", "low")
        /\ low \in 0..NeverLow /\ clocks \in 0..2 /\ steady' = steady
    BY <1>1, <1>2, <1>4, WithinLine DEF IInv, FromTables, TypeOK
  <2>2. PICK level :
          /\ irq'.low = NextLow(low, level)
          /\ seen'.clocks = IF dot' = 0 THEN 0
                            ELSE IF level = "high" /\ low = FilterLength
                            THEN Capped(clocks + 1, 2) ELSE clocks
          /\ dot > 0 /\ dot % 8 \in {0, 6} /\ InBackground(dot) => level = ppu.background
          /\ InSprites(dot) /\ dot % 8 = 5 => level = ppu.sprites
          /\ InSprites(dot) /\ dot % 8 = 7 => (dot > SpriteEnd - 8 => level = "none")
          /\ \/ dot > 0 /\ dot % 8 \in {0, 6} /\ InBackground(dot)
             \/ InSprites(dot) /\ dot % 8 \in {5, 7}
             \/ level = "none"
    BY <1>2, <2>1, QuietDot DEF FromTables
  <2>3. /\ dot \in SpriteEnd - 2..SpriteEnd + 6 =>
               low = Capped(dot - (SpriteEnd - 3), FilterLength)
        /\ dot >= SpriteEnd + 7 => low = NeverLow
        /\ steady = 2 /\ dot <= SpriteEnd + 6 => clocks = 0
        /\ steady = 2 /\ dot >= SpriteEnd + 7 => clocks = 1
    BY <2>1 DEF LineInv, HighLowInv
  <2>4. ppu.background = "high" /\ ppu.sprites = "low"
    BY <2>1 DEF FromTables
  <2>5. InSprites(dot) /\ dot % 8 = 7 => low = 2
    BY <2>1 DEF LineInv, LowSpritesInv, FromTables
  <2>6. steady = 2 /\ dot <= BgEnd + 5 => low = 7
    BY <2>1 DEF LineInv, RestInv, FromTables, Steady, Fetches, NeverLow, FilterLength
  <2> HIDE DEF low, clocks
  <2>7. /\ irq'.low = IF level = "low" THEN 1
                      ELSE IF level = "high" /\ low = 6 THEN 7
                      ELSE IF low < 6 THEN low + 1 ELSE low
        /\ seen'.clocks = IF level = "high" /\ low = 6
                          THEN (IF clocks < 1 THEN clocks + 1 ELSE 2) ELSE clocks
        /\ low \in 0..7
    BY <1>4, <2>1, <2>2 DEF NextLow, Capped, NeverLow, FilterLength
  <2>8. CASE dot < SpriteEnd - 3
    <3>1. steady = 2 => ~(level = "high" /\ low = 6)
      <4>1. level = "none" \/ level = "low" \/ dot <= BgEnd \/ (InSprites(dot) /\ dot % 8 = 7)
        BY <2>1, <2>2, <2>4, <2>8, Dots DEF InBackground
      <4>2. dot <= BgEnd => dot <= BgEnd + 5
        BY <2>1, Dots
      <4> QED BY <2>5, <2>6, <4>1, <4>2
    <3>2. steady = 2 => seen'.clocks = 0
      <4>1. dot <= SpriteEnd + 6
        BY <2>1, <2>8, Dots
      <4> QED BY <2>3, <2>7, <3>1, <4>1
    <3>3. dot' \notin SpriteEnd - 2..SpriteEnd + 6 /\ ~(dot' >= SpriteEnd + 7)
      BY <2>1, <2>8, Dots
    <3> QED BY <2>1, <3>2, <3>3
  <2>9. CASE dot = SpriteEnd - 3
    <3>1. level = "low"
      BY <2>1, <2>2, <2>4, <2>9, Dots DEF InSprites
    <3>2. irq'.low = 1 /\ (steady = 2 => seen'.clocks = 0)
      <4>1. dot <= SpriteEnd + 6
        BY <2>9, Dots
      <4> QED BY <2>3, <2>7, <3>1, <4>1
    <3>3. Capped(dot' - (SpriteEnd - 3), FilterLength) = 1 /\ ~(dot' >= SpriteEnd + 7)
      BY <2>1, <2>9, Dots DEF Capped, FilterLength
    <3> QED BY <2>1, <3>2, <3>3
  <2>10. CASE dot \in SpriteEnd - 2..SpriteEnd + 5
    <3>1. level = "none"
      BY <2>1, <2>2, <2>10, Dots DEF InSprites, InBackground
    <3>2. low = IF dot - (SpriteEnd - 3) < 6 THEN dot - (SpriteEnd - 3) ELSE 6
      BY <2>3, <2>10, Dots DEF Capped, FilterLength
    <3>3. irq'.low = IF dot' - (SpriteEnd - 3) < 6 THEN dot' - (SpriteEnd - 3) ELSE 6
      BY <2>1, <2>7, <2>10, <3>1, <3>2, Dots
    <3>4. steady = 2 => seen'.clocks = 0
      <4>1. dot <= SpriteEnd + 6
        BY <2>10, Dots
      <4> QED BY <2>3, <2>7, <3>1, <4>1
    <3>5. irq'.low = Capped(dot' - (SpriteEnd - 3), FilterLength)
      BY <3>3 DEF Capped, FilterLength
    <3>6. ~(dot' >= SpriteEnd + 7)
      BY <2>1, <2>10, Dots
    <3> QED BY <2>1, <3>4, <3>5, <3>6
  <2>11. CASE dot = SpriteEnd + 6
    <3>1. level = "high"
      BY <2>1, <2>2, <2>4, <2>11, Dots DEF InBackground
    <3>2. low = 6
      BY <2>3, <2>11, Dots DEF Capped, FilterLength
    <3>3. irq'.low = 7 /\ (steady = 2 => seen'.clocks = 1)
      <4>1. dot <= SpriteEnd + 6
        BY <2>11, Dots
      <4> QED BY <2>3, <2>7, <3>1, <3>2, <4>1
    <3>4. dot' \notin SpriteEnd - 2..SpriteEnd + 6 /\ ~(dot' <= SpriteEnd + 6)
      BY <2>1, <2>11, Dots
    <3> QED BY <2>1, <3>3, <3>4 DEF NeverLow, FilterLength
  <2>12. CASE dot >= SpriteEnd + 7
    <3>1. level # "low"
      BY <2>1, <2>2, <2>4, <2>12, Dots DEF InSprites
    <3>2. low = 7
      BY <2>3, <2>12 DEF NeverLow, FilterLength
    <3>3. irq'.low = 7 /\ (steady = 2 => seen'.clocks = 1)
      BY <2>3, <2>7, <2>12, <3>1, <3>2
    <3>4. dot' \notin SpriteEnd - 2..SpriteEnd + 6 /\ ~(dot' <= SpriteEnd + 6)
      BY <2>1, <2>12, Dots
    <3> QED BY <2>1, <3>3, <3>4 DEF NeverLow, FilterLength
  <2>13. \/ dot < SpriteEnd - 3 \/ dot = SpriteEnd - 3 \/ dot \in SpriteEnd - 2..SpriteEnd + 5
         \/ dot = SpriteEnd + 6 \/ dot >= SpriteEnd + 7
    BY <2>1, Dots
  <2> QED BY <2>8, <2>9, <2>10, <2>11, <2>12, <2>13
<1> QED BY <1>3, <1>4

LEMMA LowLowStep ==
    ASSUME IInv, LineInv, Next
    PROVE  LowLowInv'
<1>1. SUFFICES ASSUME FromTables("low", "low")'
               PROVE  seen'.clocks = 0
  BY DEF LowLowInv
<1>2. steady' # 0
  BY <1>1 DEF FromTables, Steady
<1>3. CASE dot' = 0
  BY <1>2, <1>3, LineBegins
<1>4. CASE dot' # 0
  <2>1. dot \in Nat /\ FromTables("low", "low")
    BY <1>1, <1>2, <1>4, WithinLine DEF IInv, FromTables
  <2>2. PICK level :
          /\ seen'.clocks = IF dot' = 0 THEN 0
                            ELSE IF level = "high" /\ irq.low = FilterLength
                            THEN Capped(seen.clocks + 1, 2) ELSE seen.clocks
          /\ dot > 0 /\ dot % 8 \in {0, 6} /\ InBackground(dot) => level = ppu.background
          /\ InSprites(dot) /\ dot % 8 = 5 => level = ppu.sprites
          /\ \/ dot > 0 /\ dot % 8 \in {0, 6} /\ InBackground(dot)
             \/ InSprites(dot) /\ dot % 8 \in {5, 7}
             \/ level = "none"
    BY <1>2, <2>1, QuietDot DEF FromTables
  <2>3. InSprites(dot) /\ dot % 8 = 7 => irq.low # FilterLength
    BY <2>1 DEF LineInv, LowSpritesInv, FromTables, FilterLength
  <2>4. level = "high" => InSprites(dot) /\ dot % 8 = 7
    BY <2>1, <2>2 DEF FromTables
  <2>5. seen.clocks = 0
    BY <2>1 DEF LineInv, LowLowInv
  <2> QED BY <1>4, <2>2, <2>3, <2>4, <2>5
<1> QED BY <1>3, <1>4

LEMMA HighHighStep ==
    ASSUME IInv, LineInv, Next
    PROVE  HighHighInv'
<1> DEFINE low == irq.low
<1>1. SUFFICES ASSUME FromTables("high", "high")'
               PROVE  /\ dot' <= 6 => irq'.low >= dot'
                      /\ dot' >= 7 => irq'.low = NeverLow
                      /\ steady' = 2 => seen'.clocks = 0
  BY DEF HighHighInv
<1>2. steady' # 0
  BY <1>1 DEF FromTables, Steady
<1>3. CASE dot' = 0
  <2>1. irq'.low \in 0..NeverLow
    BY StepKeeps DEF IInv, ChipInv, Chip
  <2> QED BY <1>2, <1>3, <2>1, LineBegins
<1>4. CASE dot' # 0
  <2>1. /\ dot \in Nat /\ dot' = dot + 1 /\ dot < LastDot /\ FromTables("high", "high")
        /\ low \in 0..NeverLow /\ steady' = steady
    BY <1>1, <1>2, <1>4, WithinLine DEF IInv, FromTables
  <2>2. PICK level :
          /\ irq'.low = NextLow(low, level)
          /\ seen'.clocks = IF dot' = 0 THEN 0
                            ELSE IF level = "high" /\ low = FilterLength
                            THEN Capped(seen.clocks + 1, 2) ELSE seen.clocks
          /\ dot > 0 /\ dot % 8 \in {0, 6} /\ InBackground(dot) => level = ppu.background
          /\ InSprites(dot) /\ dot % 8 = 5 => level = ppu.sprites
          /\ InSprites(dot) /\ dot % 8 = 7 => (ppu.sprites = "high" => level # "low")
          /\ \/ dot > 0 /\ dot % 8 \in {0, 6} /\ InBackground(dot)
             \/ InSprites(dot) /\ dot % 8 \in {5, 7}
             \/ level = "none"
    BY <1>2, <2>1, QuietDot DEF FromTables
  <2>3. /\ dot <= 6 => low >= dot
        /\ dot >= 7 => low = 7
        /\ steady = 2 => seen.clocks = 0
    BY <2>1 DEF LineInv, HighHighInv, NeverLow, FilterLength
  <2>4. ppu.background = "high" /\ ppu.sprites = "high"
    BY <2>1 DEF FromTables
  <2>5. steady = 2 => low = 7
    <3>1. steady = 2 /\ dot <= BgEnd + 5 => low = 7
      BY <2>1 DEF LineInv, RestInv, FromTables, Steady, Fetches, NeverLow, FilterLength
    <3>2. dot <= BgEnd + 5 \/ dot >= 7
      BY <2>1, Dots
    <3> QED BY <2>3, <3>1, <3>2
  <2>6. steady = 2 => seen'.clocks = 0
    BY <1>4, <2>2, <2>3, <2>5 DEF FilterLength
  <2> HIDE DEF low
  <2>7. /\ irq'.low = IF level = "low" THEN 1
                      ELSE IF level = "high" /\ low = 6 THEN 7
                      ELSE IF low < 6 THEN low + 1 ELSE low
        /\ low \in 0..7
    BY <2>1, <2>2 DEF NextLow, NeverLow, FilterLength
  <2>8. level # "low"
    BY <2>1, <2>2, <2>4
  <2>9. CASE dot <= 5
    <3>1. irq'.low >= dot'
      BY <2>1, <2>3, <2>7, <2>8, <2>9
    <3> QED BY <2>1, <2>6, <2>9, <3>1
  <2>10. CASE dot = 6
    <3>1. level = "high"
      BY <2>2, <2>4, <2>10, Dots DEF InBackground
    <3>2. irq'.low = 7
      BY <2>3, <2>7, <2>10, <3>1
    <3> QED BY <2>1, <2>6, <2>10, <3>2 DEF NeverLow, FilterLength
  <2>11. CASE dot >= 7
    <3>1. irq'.low = 7
      BY <2>3, <2>7, <2>8, <2>11
    <3> QED BY <2>1, <2>6, <2>11, <3>1 DEF NeverLow, FilterLength
  <2> QED BY <2>1, <2>9, <2>10, <2>11
<1> QED BY <1>3, <1>4

LEMMA RestStep ==
    ASSUME IInv, LineInv, Next
    PROVE  RestInv'
<1> DEFINE low == irq.low
<1>1. SUFFICES ASSUME steady' = 2, ppu'.rendering, ~ppu'.tall_sprites,
                      ppu'.background = "high", ~Fetches' \/ dot' <= BgEnd + 5
               PROVE  irq'.low = NeverLow
  BY DEF RestInv
<1>2. /\ ppu' = ppu /\ LineEnds /\ NextPosition /\ steady' # 0
      /\ ppu.rendering /\ ~ppu.tall_sprites /\ ppu.background = "high"
  BY <1>1, SteadyStep DEF IInv
<1>3. dot \in Nat /\ low \in 0..NeverLow /\ ppu.sprites \in Tables
  BY Dots DEF IInv, TypeOK, Registers
<1>4. steady # 0
  BY <1>1, <1>2 DEF LineEnds
<1>5. CASE ~Fetches
  <2>1. steady = 2
    BY <1>1, <1>2, <1>5 DEF LineEnds
  <2>2. low = NeverLow
    BY <1>2, <1>5, <2>1 DEF LineInv, RestInv
  <2> QED BY <1>2, <1>5, <2>2, IdleStep DEF IInv, NextLow, NeverLow, FilterLength
<1>6. CASE Fetches
  <2>1. Steady
    BY <1>4, <1>6 DEF Steady
  <2>2. PICK level :
          /\ irq'.low = NextLow(low, level)
          /\ dot > 0 /\ dot % 8 \in {0, 6} /\ InBackground(dot) => level = ppu.background
          /\ \/ dot > 0 /\ dot % 8 \in {0, 6} /\ InBackground(dot)
             \/ InSprites(dot) /\ dot % 8 \in {5, 7}
             \/ level = "none"
    BY <1>2, <2>1, QuietDot
  <2>3. low = NeverLow
    <3>1. CASE dot' = 0
      <4>1. dot >= SpriteEnd + 7 /\ dot >= 7
        BY <1>2, <1>3, <3>1, Dots DEF NextPosition
      <4>2. CASE ppu.sprites = "low"
        BY <1>2, <2>1, <4>1, <4>2 DEF LineInv, HighLowInv, FromTables
      <4>3. CASE ppu.sprites = "high"
        BY <1>2, <2>1, <4>1, <4>3 DEF LineInv, HighHighInv, FromTables
      <4> QED BY <1>3, <4>2, <4>3 DEF Tables
    <3>2. CASE dot' # 0
      <4>1. dot' = dot + 1 /\ steady = 2 /\ Fetches'
        BY <1>1, <1>2, <1>6, <3>2, WithinLine DEF IInv
      <4>2. dot <= BgEnd + 5
        BY <1>1, <1>3, <4>1, Dots
      <4> QED BY <1>2, <4>1, <4>2 DEF LineInv, RestInv
    <3> QED BY <3>1, <3>2
  <2>4. level # "low"
    <3>1. ~(InSprites(dot) /\ dot % 8 \in {5, 7})
      <4>1. CASE dot' = 0
        BY <1>2, <1>3, <4>1, Dots DEF NextPosition, InSprites
      <4>2. CASE dot' # 0
        <5>1. dot' = dot + 1 /\ dot' <= BgEnd + 5
          BY <1>1, <1>2, <1>6, <4>2, WithinLine DEF IInv
        <5> QED BY <1>3, <5>1, Dots DEF InSprites
      <4> QED BY <4>1, <4>2
    <3> QED BY <1>2, <2>2, <3>1
  <2> HIDE DEF low
  <2> QED BY <2>2, <2>3, <2>4 DEF NextLow, NeverLow, FilterLength
<1> QED BY <1>5, <1>6

LEMMA LineStep == IInv /\ LineInv /\ [Next]_vars => LineInv'
<1> SUFFICES ASSUME IInv, LineInv, [Next]_vars PROVE LineInv'
  OBVIOUS
<1>1. CASE Next
  BY <1>1, NextStep, LowSpritesStep, LowHighStep, HighLowStep, LowLowStep, HighHighStep,
     RestStep DEF LineInv
<1>2. CASE UNCHANGED vars
  <2> USE <1>2 DEF vars
  <2>1. NextInv' /\ StepInv'
    BY DEF LineInv, NextInv, StepInv, Steady, Fetches
  <2>2. LowSpritesInv' /\ LowHighInv' /\ HighLowInv'
    BY DEF LineInv, LowSpritesInv, LowHighInv, HighLowInv, FromTables, Steady, Fetches
  <2>3. LowLowInv' /\ HighHighInv' /\ RestInv'
    BY DEF LineInv, LowLowInv, HighHighInv, RestInv, FromTables, Steady, Fetches
  <2> QED BY <2>1, <2>2, <2>3 DEF LineInv
<1> QED BY <1>1, <1>2

-----------------------------------------------------------------------------
(* Theorems *)

LEMMA InitHolds == Init => IInv
<1> SUFFICES ASSUME Init PROVE IInv
  OBVIOUS
<1>1. /\ 0 \in CounterRange /\ 0 \in 0..PreRender /\ 0 \in 0..LastDot
      /\ 0 \in 0..8 * SpriteUnits
  BY Positions, ScheduleAssumption DEF CounterRange
<1>2. irq \in Chip /\ seen \in History
  BY <1>1 DEF Init, Chip, History, NeverLow, FilterLength
<1>3. TypeOK
  BY <1>1, <1>2 DEF Init, TypeOK, Chip, History, Registers, Levels, Tables
<1> QED BY <1>2, <1>3 DEF Init, IInv, ChipInv

LEMMA NextKeeps == IInv /\ [Next]_vars => IInv'
<1> SUFFICES ASSUME IInv, [Next]_vars PROVE IInv'
  OBVIOUS
<1>1. CASE Next
  <2>1. ChipInv(irq, seen)'
    BY <1>1, StepKeeps DEF IInv, ChipInv
  <2>2. irq' \in Chip /\ seen' \in History
    BY <1>1, StepKeeps DEF IInv, ChipInv
  <2> QED BY <1>1, <2>1, <2>2, StepTypes DEF IInv
<1>2. CASE UNCHANGED vars
  BY <1>2 DEF IInv, vars, TypeOK, ChipInv, Chip, History
<1> QED BY <1>1, <1>2

\* The chip and the count of its clocks agree, in every state.
THEOREM Inductive == Spec => []IInv
BY InitHolds, NextKeeps, PTL DEF Spec

\* Every variable stays in its type: the counter in the range of the latch's values.
THEOREM TypeCorrect == Spec => []TypeOK
<1>1. IInv => TypeOK
  BY DEF IInv
<1> QED BY <1>1, Inductive, PTL

\* The write that disables the interrupt takes back the one that waits, and none is raised while
\* it is disabled, wherever between two clocks the write lands.
THEOREM NoneWhileDisabled == Spec => []TriggeredIsEnabled
<1>1. IInv => TriggeredIsEnabled
  BY DEF IInv, ChipInv, TriggeredIsEnabled
<1> QED BY <1>1, Inductive, PTL

\* The interrupt is raised by the last of latch + 1 clocks, whatever the CPU writes, polls or
\* fetches in between.
THEOREM PeriodIsLatch == Spec => IrqPeriod
<1>1. IInv /\ [Next]_vars =>
        [ /\ irq'.irq_triggered /\ ~irq.irq_triggered => seen'.since = seen'.loaded
          /\ seen'.since # seen.since /\ seen'.since = seen'.loaded =>
                 irq'.irq_triggered = irq'.irq_enabled ]_vars
  <2>1. IInv /\ Next => Period(irq, seen, irq', seen')
    BY StepKeeps DEF IInv
  <2> QED BY <2>1 DEF Period
<1> QED BY <1>1, Inductive, PTL DEF Spec, IrqPeriod

\* Where the filter and the count of clocks are at every dot of a line without an access that
\* disturbs it, for each pair of pattern tables.
THEOREM LineInductive == Spec => []LineInv
<1>1. Init => LineInv
  BY DEF Init, LineInv, NextInv, StepInv, LowSpritesInv, LowHighInv, HighLowInv, LowLowInv,
         HighHighInv, RestInv, FromTables, Steady
<1> QED BY <1>1, LineStep, Inductive, PTL DEF Spec

\* Eight-dot sprites from the other table than the background clock the counter once in every
\* fetched line, wherever they are, and from the same table never (update_vram_address in mmc3.rs
\* under the fetches of ppu/mod.rs and ppu/sprites.rs).
THEOREM CountsScanlines == Spec => OncePerScanline
<1>1. IInv /\ LineInv =>
        (dot = LastDot /\ Fetches /\ ~ppu.tall_sprites /\ steady # 0 =>
           CASE ppu.background = "low" /\ ppu.sprites = "high" -> seen.clocks = 1
             [] ppu.background = "high" /\ ppu.sprites = "low" -> steady = 2 => seen.clocks = 1
             [] OTHER -> steady = 2 => seen.clocks = 0)
  <2>1. SUFFICES ASSUME IInv, LineInv, dot = LastDot, Fetches, ~ppu.tall_sprites, steady # 0
                 PROVE  CASE ppu.background = "low" /\ ppu.sprites = "high" -> seen.clocks = 1
                          [] ppu.background = "high" /\ ppu.sprites = "low" ->
                               steady = 2 => seen.clocks = 1
                          [] OTHER -> steady = 2 => seen.clocks = 0
    OBVIOUS
  <2>2. Steady /\ dot >= BgEnd + 14 /\ dot >= SpriteEnd + 7
    BY <2>1, Dots DEF Steady
  <2>3. ppu.background \in Tables /\ ppu.sprites \in Tables
    BY <2>1 DEF IInv, TypeOK, Registers
  <2>4. CASE ppu.background = "low" /\ ppu.sprites = "high"
    <3>1. seen.clocks = 1
      BY <2>1, <2>2, <2>4 DEF LineInv, LowHighInv, FromTables
    <3> QED BY <2>4, <3>1
  <2>5. CASE ppu.background = "high" /\ ppu.sprites = "low"
    <3>1. steady = 2 => seen.clocks = 1
      BY <2>1, <2>2, <2>5 DEF LineInv, HighLowInv, FromTables
    <3> QED BY <2>5, <3>1
  <2>6. CASE ppu.background = "low" /\ ppu.sprites = "low"
    <3>1. seen.clocks = 0
      BY <2>1, <2>2, <2>6 DEF LineInv, LowLowInv, FromTables
    <3> QED BY <2>6, <3>1
  <2>7. CASE ppu.background = "high" /\ ppu.sprites = "high"
    <3>1. steady = 2 => seen.clocks = 0
      BY <2>1, <2>2, <2>7 DEF LineInv, HighHighInv, FromTables
    <3> QED BY <2>7, <3>1
  <2> QED BY <2>3, <2>4, <2>5, <2>6, <2>7 DEF Tables
<1> QED BY <1>1, Inductive, LineInductive, PTL DEF Spec, OncePerScanline

=============================================================================
