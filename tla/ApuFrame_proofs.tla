--------------------------- MODULE ApuFrame_proofs ---------------------------
(***************************************************************************)
(* The frame counter clocks half and quarter frames alternately, and its    *)
(* interrupt stays until it is taken: for all lengths of the sequences, all *)
(* channels and whatever the CPU writes and when.                           *)
(*                                                                          *)
(* SequenceInv says which quarter frames of the sequence have passed, from  *)
(* where the counter is; while a reset is counted down nothing is known of  *)
(* the sequence, but in which half of an APU cycle the reset will be.       *)
(***************************************************************************)
EXTENDS ApuFrame, Integers, TLAPS

Counter == [mode : {"FourStep", "FiveStep"}, inhibit_interrupts : BOOLEAN,
            sequence_cycles : 0..FiveWrap - 1, timer_reset_countdown : 0..4]
LengthCounters == [Channels -> [enabled : BOOLEAN, halt : BOOLEAN, length : 0..255]]
LinearCounter == [counter : 0..127, reload : 0..127, reload_flag : BOOLEAN]
States == [fc : Counter, age : None..Delayed, ch : LengthCounters, lin : LinearCounter]

\* The quarter frames since the last half frame once this cycle's frames are clocked.
Passed(cycles) == IF cycles \in Quarter1 .. Half - 1 \/ cycles >= Quarter3 THEN 1 ELSE 0

SequenceInv ==
    LET cycles == frame_counter.sequence_cycles
        countdown == frame_counter.timer_reset_countdown
    IN  /\ countdown # 0 => (is_apu_cycle <=> countdown \in {1, 3})
        /\ countdown = 0 =>
              /\ cycles < Wrap(frame_counter.mode)
              /\ quarters = IF is_apu_cycle THEN Passed(cycles)
                            ELSE IF cycles = 0 THEN 1 ELSE Passed(cycles - 1)

IInv == TypeOK /\ SequenceInv

-----------------------------------------------------------------------------
(* Arithmetic of the sequence *)

LEMMA ModFacts ==
    ASSUME NEW n \in Nat, NEW w \in Nat \ {0}
    PROVE  /\ n % w \in 0..w - 1
           /\ n < w => n % w = n
           /\ n = w => n % w = 0
OBVIOUS

LEMMA WrapFacts ==
    /\ FourWrap \in Nat \ {0} /\ FiveWrap \in Nat \ {0} /\ FourWrap < FiveWrap
    /\ \A mode : Wrap(mode) \in Nat \ {0} /\ Wrap(mode) <= FiveWrap
BY SequenceAssumption DEF Wrap

-----------------------------------------------------------------------------
(* Types *)

LEMMA NowType == TypeOK => Now \in States
BY DEF TypeOK, Now, State, States, Counter, LengthCounters, LinearCounter

LEMMA ClockLengthsType ==
    ASSUME NEW ch \in LengthCounters
    PROVE  ClockLengths(ch) \in LengthCounters
<1> DEFINE One == [enabled : BOOLEAN, halt : BOOLEAN, length : 0..255]
<1>1. ASSUME NEW c \in Channels, ch[c].length # 0
      PROVE  [ch[c] EXCEPT !.length = ch[c].length - 1] \in One
  <2>1. ch[c] \in One
    BY DEF LengthCounters
  <2> DEFINE n == ch[c].length - 1
  <2>2. n \in 0..255
    BY <1>1, <2>1
  <2> HIDE DEF n
  <2>3. [ch[c] EXCEPT !.length = n] \in One
    BY <2>1, <2>2
  <2> QED BY <2>3 DEF n
<1>2. \A c \in Channels : ch[c] \in One
  BY DEF LengthCounters
<1> HIDE DEF One
<1> QED BY <1>1, <1>2 DEF ClockLengths, LengthCounters, One

LEMMA QuarterFrameType ==
    ASSUME NEW lin \in LinearCounter, NEW ch \in LengthCounters
    PROVE  QuarterFrame(lin, ch) \in LinearCounter
<1> DEFINE counter == IF lin.reload_flag THEN lin.reload
                      ELSE IF lin.counter > 0 THEN lin.counter - 1 ELSE 0
           flag == lin.reload_flag /\ ch["triangle"].halt
<1>1. counter \in 0..127
  BY DEF LinearCounter
<1>2. flag \in BOOLEAN
  BY DEF LinearCounter
<1>3. QuarterFrame(lin, ch) = [lin EXCEPT !.counter = counter, !.reload_flag = flag]
  BY DEF QuarterFrame
<1> HIDE DEF counter, flag
<1> QED BY <1>1, <1>2, <1>3 DEF LinearCounter

LEMMA StateType ==
    ASSUME NEW fc \in Counter, NEW age \in None..Delayed, NEW ch \in LengthCounters,
           NEW lin \in LinearCounter
    PROVE  /\ State(fc, age, ch, lin) \in States
           /\ State(fc, age, ch, lin).fc = fc
BY DEF State, States

LEMMA WriteFrameCounterType ==
    ASSUME NEW s \in States, NEW mode \in {"FourStep", "FiveStep"}, NEW inhibit \in BOOLEAN
    PROVE  /\ WriteFrameCounter(s, mode, inhibit) \in States
           /\ WriteFrameCounter(s, mode, inhibit).fc.timer_reset_countdown = ResetDelay
<1> DEFINE fc == [s.fc EXCEPT !.mode = mode, !.inhibit_interrupts = inhibit,
                              !.timer_reset_countdown = ResetDelay]
           age == IF inhibit THEN None ELSE s.age
<1>1. s.fc \in Counter /\ s.age \in None..Delayed /\ s.ch \in LengthCounters
      /\ s.lin \in LinearCounter
  BY DEF States
<1>2. ResetDelay \in 3..4
  BY DEF ResetDelay
<1>3. fc \in Counter /\ fc.timer_reset_countdown = ResetDelay
  <2> DEFINE delay == ResetDelay
  <2>1. delay \in 0..4
    BY <1>2
  <2> HIDE DEF delay
  <2>2. /\ [s.fc EXCEPT !.mode = mode, !.inhibit_interrupts = inhibit,
                        !.timer_reset_countdown = delay] \in Counter
        /\ [s.fc EXCEPT !.mode = mode, !.inhibit_interrupts = inhibit,
                        !.timer_reset_countdown = delay].timer_reset_countdown = delay
    BY <1>1, <2>1 DEF Counter
  <2> QED BY <2>2 DEF delay
<1>4. age \in None..Delayed
  BY <1>1 DEF None, Delayed
<1>5. /\ ClockLengths(s.ch) \in LengthCounters
      /\ QuarterFrame(QuarterFrame(s.lin, s.ch), s.ch) \in LinearCounter
  BY <1>1, ClockLengthsType, QuarterFrameType
<1>6. WriteFrameCounter(s, mode, inhibit) =
          IF mode = "FourStep" THEN State(fc, age, s.ch, s.lin)
          ELSE State(fc, age, ClockLengths(s.ch), QuarterFrame(QuarterFrame(s.lin, s.ch), s.ch))
  BY DEF WriteFrameCounter
<1> HIDE DEF fc, age
<1> QED BY <1>1, <1>3, <1>4, <1>5, <1>6, StateType

LEMMA ReadStatusType ==
    ASSUME NEW s \in States
    PROVE  ReadStatus(s) \in States /\ ReadStatus(s).fc = s.fc
BY SMT DEF ReadStatus, States, None, Delayed, JustSet

LEMMA WriteStatusType ==
    ASSUME NEW s \in States, NEW on \in SUBSET Channels
    PROVE  /\ WriteStatus(s, on) \in States /\ WriteStatus(s, on).fc = s.fc
           /\ WriteStatus(s, on).age = s.age
<1> DEFINE ch == [c \in Channels |->
                     [s.ch[c] EXCEPT !.enabled = c \in on, !.length = IF c \in on THEN @ ELSE 0]]
<1>1. ASSUME NEW c \in Channels
      PROVE  [s.ch[c] EXCEPT !.enabled = c \in on, !.length = IF c \in on THEN @ ELSE 0]
                 \in [enabled : BOOLEAN, halt : BOOLEAN, length : 0..255]
  <2> DEFINE enabled == c \in on
             length == IF c \in on THEN s.ch[c].length ELSE 0
  <2>1. s.ch[c] \in [enabled : BOOLEAN, halt : BOOLEAN, length : 0..255]
    BY DEF States, LengthCounters
  <2>2. enabled \in BOOLEAN /\ length \in 0..255
    BY <2>1
  <2> HIDE DEF enabled, length
  <2>3. [s.ch[c] EXCEPT !.enabled = enabled, !.length = length]
            \in [enabled : BOOLEAN, halt : BOOLEAN, length : 0..255]
    BY <2>1, <2>2
  <2> QED BY <2>3 DEF enabled, length
<1>2. ch \in LengthCounters
  BY <1>1 DEF LengthCounters
<1>3. WriteStatus(s, on) = [s EXCEPT !.ch = ch]
  BY DEF WriteStatus
<1> HIDE DEF ch
<1> QED BY <1>2, <1>3 DEF States

LEMMA ChannelUpdate ==
    ASSUME NEW s \in States, NEW c \in Channels, NEW one,
           one \in [enabled : BOOLEAN, halt : BOOLEAN, length : 0..255]
    PROVE  /\ [s EXCEPT !.ch[c] = one] \in States /\ [s EXCEPT !.ch[c] = one].fc = s.fc
           /\ [s EXCEPT !.ch[c] = one].age = s.age
<1> DEFINE ch == [s.ch EXCEPT ![c] = one]
<1>1. ch \in LengthCounters
  BY DEF States, LengthCounters
<1>2. [s EXCEPT !.ch[c] = one] = [s EXCEPT !.ch = ch]
  OBVIOUS
<1> HIDE DEF ch
<1> QED BY <1>1, <1>2 DEF States

LEMMA SetHaltType ==
    ASSUME NEW s \in States, NEW c \in Channels, NEW halt \in BOOLEAN
    PROVE  /\ SetHalt(s, c, halt) \in States /\ SetHalt(s, c, halt).fc = s.fc
           /\ SetHalt(s, c, halt).age = s.age
<1> DEFINE one == [s.ch[c] EXCEPT !.halt = halt]
<1>1. one \in [enabled : BOOLEAN, halt : BOOLEAN, length : 0..255]
  BY DEF States, LengthCounters
<1>2. SetHalt(s, c, halt) = [s EXCEPT !.ch[c] = one]
  BY DEF SetHalt
<1> HIDE DEF one
<1> QED BY <1>1, <1>2, ChannelUpdate

LEMMA LoadLinearCounterType ==
    ASSUME NEW s \in States, NEW halt \in BOOLEAN, NEW value \in LinearLoads
    PROVE  /\ LoadLinearCounter(s, halt, value) \in States
           /\ LoadLinearCounter(s, halt, value).fc = s.fc
           /\ LoadLinearCounter(s, halt, value).age = s.age
<1> DEFINE h == SetHalt(s, "triangle", halt)
           lin == [h.lin EXCEPT !.reload = value]
<1>1. h \in States /\ h.fc = s.fc /\ h.age = s.age
  BY SetHaltType, ChannelAssumption
<1>2. value \in 0..127
  BY ChannelAssumption
<1>3. LoadLinearCounter(s, halt, value) = [h EXCEPT !.lin = lin]
  BY DEF LoadLinearCounter
<1> HIDE DEF h
<1>4. lin \in LinearCounter
  BY <1>1, <1>2 DEF States, LinearCounter
<1> HIDE DEF lin
<1> QED BY <1>1, <1>3, <1>4 DEF States

LEMMA LoadLengthType ==
    ASSUME NEW s \in States, NEW c \in Channels, NEW length \in Lengths
    PROVE  /\ LoadLength(s, c, length) \in States /\ LoadLength(s, c, length).fc = s.fc
           /\ LoadLength(s, c, length).age = s.age
<1> DEFINE one == [s.ch[c] EXCEPT !.length = length]
           loaded == IF s.ch[c].enabled THEN [s EXCEPT !.ch[c] = one] ELSE s
           lin == [loaded.lin EXCEPT !.reload_flag = TRUE]
<1>1. length \in 0..255
  BY ChannelAssumption
<1>2. one \in [enabled : BOOLEAN, halt : BOOLEAN, length : 0..255]
  BY <1>1 DEF States, LengthCounters
<1>3. loaded \in States /\ loaded.fc = s.fc /\ loaded.age = s.age
  <2> HIDE DEF one
  <2> QED BY <1>2, ChannelUpdate
<1>4. LoadLength(s, c, length) = IF c = "triangle" THEN [loaded EXCEPT !.lin = lin] ELSE loaded
  BY DEF LoadLength
<1> HIDE DEF loaded
<1>5. lin \in LinearCounter
  BY <1>3 DEF States, LinearCounter
<1> HIDE DEF lin
<1>6. [loaded EXCEPT !.lin = lin] \in States /\ [loaded EXCEPT !.lin = lin].fc = loaded.fc
      /\ [loaded EXCEPT !.lin = lin].age = loaded.age
  BY <1>3, <1>5 DEF States
<1> QED BY <1>3, <1>4, <1>6

-----------------------------------------------------------------------------
(* Apu::next *)

LEMMA CountDownFields ==
    ASSUME NEW fc \in Counter
    PROVE  /\ CountDown(fc) \in Counter
           /\ CountDown(fc).mode = fc.mode
           /\ CountDown(fc).timer_reset_countdown =
                 IF fc.timer_reset_countdown > 0 THEN fc.timer_reset_countdown - 1 ELSE 0
           /\ CountDown(fc).sequence_cycles =
                 IF fc.timer_reset_countdown = 1 THEN 0 ELSE fc.sequence_cycles
<1> DEFINE countdown == IF fc.timer_reset_countdown > 0 THEN fc.timer_reset_countdown - 1 ELSE 0
           cycles == IF fc.timer_reset_countdown = 1 THEN 0 ELSE fc.sequence_cycles
<1>1. countdown \in 0..4 /\ cycles \in 0..FiveWrap - 1
  BY WrapFacts DEF Counter
<1>2. CountDown(fc) = [fc EXCEPT !.timer_reset_countdown = countdown, !.sequence_cycles = cycles]
  BY DEF CountDown
<1> HIDE DEF countdown, cycles
<1>3. /\ CountDown(fc) \in Counter /\ CountDown(fc).mode = fc.mode
      /\ CountDown(fc).timer_reset_countdown = countdown
      /\ CountDown(fc).sequence_cycles = cycles
  BY <1>1, <1>2 DEF Counter
<1> QED BY <1>3 DEF countdown, cycles

\* The counter after Apu::next, and the interrupt's age.
LEMMA ApuNextFacts ==
    ASSUME NEW s \in States
    PROVE  /\ ApuNext(s) \in States
           /\ ApuNext(s).fc.mode = s.fc.mode
           /\ ApuNext(s).fc.timer_reset_countdown = CountDown(s.fc).timer_reset_countdown
           /\ ApuNext(s).fc.sequence_cycles =
                 IF is_apu_cycle
                 THEN (CountDown(s.fc).sequence_cycles + 1) % Wrap(s.fc.mode)
                 ELSE CountDown(s.fc).sequence_cycles
           /\ ApuNext(s).age \in {s.age, JustSet, Aged(s.age)}
<1> DEFINE down == CountDown(s.fc)
           counted == [s EXCEPT !.fc = down]
<1>1. s.fc \in Counter /\ s.age \in None..Delayed /\ s.ch \in LengthCounters
      /\ s.lin \in LinearCounter
  BY DEF States
<1>2. down \in Counter /\ down.mode = s.fc.mode
  BY <1>1, CountDownFields
<1> HIDE DEF down
<1>3. /\ counted \in States /\ counted.fc = down /\ counted.age = s.age
      /\ counted.ch = s.ch /\ counted.lin = s.lin
  BY <1>2 DEF States
<1>4. ApuNext(s) = IF is_apu_cycle THEN ApuCycle(counted) ELSE FrameCycle(counted)
  BY DEF ApuNext, down
<1> HIDE DEF counted
<1>5. CASE is_apu_cycle
  <2> DEFINE cycles == (down.sequence_cycles + 1) % Wrap(down.mode)
             fc == [down EXCEPT !.sequence_cycles = cycles]
             age == IF TriggersIrq(fc) THEN JustSet ELSE Aged(s.age)
  <2>1. cycles \in 0..FiveWrap - 1
    <3> DEFINE w == Wrap(down.mode)
               n == down.sequence_cycles + 1
    <3>1. w \in Nat \ {0} /\ w <= FiveWrap /\ FiveWrap \in Nat
      BY WrapFacts
    <3>2. n \in Nat
      BY <1>2, WrapFacts DEF Counter
    <3> HIDE DEF w, n
    <3>3. n % w \in 0..w - 1
      BY <3>1, <3>2, ModFacts
    <3>4. n % w \in 0..FiveWrap - 1
      BY <3>1, <3>3
    <3> QED BY <3>4 DEF w, n
  <2>2. ApuCycle(counted) = State(fc, age, s.ch, s.lin)
    BY <1>3 DEF ApuCycle
  <2> HIDE DEF cycles
  <2>3. /\ fc \in Counter /\ fc.mode = down.mode
        /\ fc.timer_reset_countdown = down.timer_reset_countdown
        /\ fc.sequence_cycles = cycles
    BY <1>2, <2>1 DEF Counter
  <2>4. age \in {JustSet, Aged(s.age)} /\ age \in None..Delayed
    BY <1>1 DEF Aged, None, Delayed, JustSet
  <2> HIDE DEF fc, age
  <2>5. /\ State(fc, age, s.ch, s.lin) \in States /\ State(fc, age, s.ch, s.lin).fc = fc
        /\ State(fc, age, s.ch, s.lin).age = age
    BY <1>1, <2>3, <2>4, StateType DEF State
  <2> QED BY <1>2, <1>4, <1>5, <2>2, <2>3, <2>4, <2>5 DEF cycles, down
<1>6. CASE ~is_apu_cycle
  <2> DEFINE ch == IF IsHalf(down.sequence_cycles) THEN ClockLengths(s.ch) ELSE s.ch
             lin == IF IsHalf(down.sequence_cycles) \/ IsQuarter(down.sequence_cycles)
                    THEN QuarterFrame(s.lin, s.ch) ELSE s.lin
  <2>1. FrameCycle(counted) = [counted EXCEPT !.ch = ch, !.lin = lin]
    BY <1>3 DEF FrameCycle
  <2>2. ch \in LengthCounters /\ lin \in LinearCounter
    BY <1>1, ClockLengthsType, QuarterFrameType
  <2> HIDE DEF ch, lin
  <2>3. /\ FrameCycle(counted) \in States /\ FrameCycle(counted).fc = down
        /\ FrameCycle(counted).age = s.age
    BY <1>3, <2>1, <2>2 DEF States
  <2> QED BY <1>2, <1>4, <1>6, <2>3 DEF down
<1> QED BY <1>5, <1>6

-----------------------------------------------------------------------------
(* Steps *)

\* What the rest of the proof needs of a cycle after which the CPU leaves s for the APU.
LEMMA RunFacts ==
    ASSUME TypeOK, NEW s \in States, Run(s), interfered' \in BOOLEAN
    PROVE  /\ TypeOK'
           /\ frame_counter'.mode = s.fc.mode
           /\ frame_counter'.timer_reset_countdown =
                 IF s.fc.timer_reset_countdown > 0 THEN s.fc.timer_reset_countdown - 1 ELSE 0
           /\ frame_counter'.sequence_cycles =
                 LET cycles == IF s.fc.timer_reset_countdown = 1 THEN 0 ELSE s.fc.sequence_cycles
                 IN  IF is_apu_cycle THEN (cycles + 1) % Wrap(s.fc.mode) ELSE cycles
           /\ irq_age' \in {s.age, JustSet, Aged(s.age)}
           /\ is_apu_cycle' = ~is_apu_cycle
           /\ quarters' = IF s.fc.timer_reset_countdown = 1 \/ ClocksHalf THEN 0
                          ELSE IF ClocksQuarter /\ quarters < 2 THEN quarters + 1 ELSE quarters
<1> DEFINE next == ApuNext(s)
<1>1. /\ next \in States
      /\ next.fc.mode = s.fc.mode
      /\ next.fc.timer_reset_countdown = CountDown(s.fc).timer_reset_countdown
      /\ next.fc.sequence_cycles =
            IF is_apu_cycle THEN (CountDown(s.fc).sequence_cycles + 1) % Wrap(s.fc.mode)
            ELSE CountDown(s.fc).sequence_cycles
      /\ next.age \in {s.age, JustSet, Aged(s.age)}
  BY ApuNextFacts
<1>2. s.fc \in Counter
  BY DEF States
<1>3. /\ CountDown(s.fc).timer_reset_countdown =
            IF s.fc.timer_reset_countdown > 0 THEN s.fc.timer_reset_countdown - 1 ELSE 0
      /\ CountDown(s.fc).sequence_cycles =
            IF s.fc.timer_reset_countdown = 1 THEN 0 ELSE s.fc.sequence_cycles
  BY <1>2, CountDownFields
<1> HIDE DEF next
<1>4. /\ frame_counter' = next.fc /\ irq_age' = next.age
      /\ channel' = next.ch /\ linear' = next.lin
      /\ is_apu_cycle' = ~is_apu_cycle
      /\ quarters' = IF s.fc.timer_reset_countdown = 1 \/ ClocksHalf THEN 0
                     ELSE IF ClocksQuarter /\ quarters < 2 THEN quarters + 1 ELSE quarters
  BY DEF Run, next
<1>5. quarters' \in 0..2
  BY <1>4 DEF TypeOK
<1>6. TypeOK'
  BY <1>1, <1>4, <1>5 DEF TypeOK, States, Counter, LengthCounters, LinearCounter
<1> QED BY <1>1, <1>3, <1>4, <1>6

\* A cycle in which the CPU leaves the frame counter alone.
LEMMA CountsOn ==
    ASSUME IInv, NEW s \in States, s.fc = frame_counter, Run(s), interfered' \in BOOLEAN
    PROVE  /\ SequenceInv'
           /\ ClocksHalf /\ frame_counter'.timer_reset_countdown = 0 =>
                 quarters = 1 /\ frame_counter.timer_reset_countdown = 0
<1> DEFINE n == frame_counter.sequence_cycles
           m == frame_counter'.sequence_cycles
           countdown == frame_counter.timer_reset_countdown
           w == Wrap(frame_counter.mode)
           half == ClocksHalf
           quarter == ClocksQuarter
<1>1. /\ n \in 0..FiveWrap - 1 /\ countdown \in 0..4 /\ quarters \in 0..2
      /\ is_apu_cycle \in BOOLEAN
  BY DEF IInv, TypeOK
<1>2. /\ frame_counter'.mode = frame_counter.mode
      /\ frame_counter'.timer_reset_countdown = IF countdown > 0 THEN countdown - 1 ELSE 0
      /\ m = IF is_apu_cycle THEN ((IF countdown = 1 THEN 0 ELSE n) + 1) % w
             ELSE IF countdown = 1 THEN 0 ELSE n
      /\ is_apu_cycle' = ~is_apu_cycle
      /\ quarters' = IF countdown = 1 \/ half THEN 0
                     ELSE IF quarter /\ quarters < 2 THEN quarters + 1 ELSE quarters
  BY RunFacts DEF IInv
<1>3. /\ half <=> ~is_apu_cycle /\ (m = Half \/ m = 0)
      /\ quarter <=> ~is_apu_cycle /\ (m = Quarter1 \/ m = Quarter3)
  BY DEF ClocksHalf, ClocksQuarter, IsHalf, IsQuarter
<1>4. /\ countdown # 0 => (is_apu_cycle <=> countdown \in {1, 3})
      /\ countdown = 0 => /\ n < w
                          /\ quarters = IF is_apu_cycle THEN Passed(n)
                                        ELSE IF n = 0 THEN 1 ELSE Passed(n - 1)
  BY DEF IInv, SequenceInv
<1>5. w \in Nat /\ Quarter3 < w
  BY SequenceAssumption DEF Wrap
<1> DEFINE down == frame_counter'.timer_reset_countdown
           after == quarters'
<1> DEFINE Odd == down # 0 => (~is_apu_cycle <=> down \in {1, 3})
           At == down = 0 => /\ m < w
                             /\ after = IF is_apu_cycle
                                        THEN (IF m = 0 THEN 1 ELSE Passed(m - 1))
                                        ELSE Passed(m)
<1>6. Odd /\ At => SequenceInv'
  BY <1>1, <1>2 DEF SequenceInv
<1>7. /\ down = IF countdown > 0 THEN countdown - 1 ELSE 0
      /\ after = IF countdown = 1 \/ half THEN 0
                 ELSE IF quarter /\ quarters < 2 THEN quarters + 1 ELSE quarters
  BY <1>2
<1>8. countdown > 0 => (is_apu_cycle <=> countdown \in {1, 3})
  BY <1>1, <1>4
<1> HIDE DEF n, m, countdown, w, half, quarter, down, after, Odd, At
<1>9. CASE countdown > 1
  <2>1. down = countdown - 1 /\ down # 0 /\ countdown \in {2, 3, 4}
    BY <1>1, <1>7, <1>9
  <2>2. Odd
    BY <1>8, <2>1 DEF Odd
  <2>3. At
    BY <2>1 DEF At
  <2> QED BY <1>6, <2>1, <2>2, <2>3 DEF half, countdown, down
<1>10. CASE countdown = 1
  <2>1. is_apu_cycle /\ down = 0 /\ after = 0 /\ ~half
    BY <1>3, <1>7, <1>8, <1>10
  <2>2. m = 1 /\ m < w
    <3>1. m = 1 % w /\ 1 < w
      BY <1>2, <1>5, <1>10, <2>1, SequenceAssumption
    <3> DEFINE one == 1
    <3>2. one \in Nat /\ w \in Nat \ {0} /\ one < w
      BY <1>5, <3>1, SequenceAssumption
    <3> HIDE DEF one
    <3>3. one % w = one
      BY <3>2, ModFacts
    <3> QED BY <3>1, <3>3 DEF one
  <2>3. Passed(0) = 0
    BY SequenceAssumption DEF Passed
  <2>4. Odd
    BY <2>1 DEF Odd
  <2>5. At
    BY <2>1, <2>2, <2>3 DEF At
  <2> QED BY <1>6, <2>1, <2>4, <2>5 DEF half, countdown, down
<1>11. CASE countdown = 0 /\ is_apu_cycle
  <2>1. n \in Nat /\ n < w /\ quarters = Passed(n) /\ ~half /\ ~quarter
    BY <1>1, <1>3, <1>4, <1>11
  <2>2. m = IF n + 1 = w THEN 0 ELSE n + 1
    <3> DEFINE k == n + 1
    <3>1. k \in Nat /\ w \in Nat \ {0} /\ k <= w /\ m = k % w
      BY <1>2, <1>5, <1>11, <2>1, SequenceAssumption
    <3> HIDE DEF k
    <3>2. (k < w => k % w = k) /\ (k = w => k % w = 0)
      BY <3>1, ModFacts
    <3>3. m = IF k = w THEN 0 ELSE k
      BY <1>5, <3>1, <3>2
    <3> QED BY <3>3 DEF k
  <2>3. after = Passed(n) /\ down = 0
    BY <1>7, <1>11, <2>1
  <2>4. n + 1 = w => Passed(n) = 1
    BY <1>5, <2>1, SequenceAssumption DEF Passed
  <2>5. Odd
    BY <2>3 DEF Odd
  <2>6. m < w /\ Passed(n) = IF m = 0 THEN 1 ELSE Passed(m - 1)
    <3>1. CASE n + 1 = w  BY <1>5, <2>2, <2>4, <3>1, SequenceAssumption
    <3>2. CASE n + 1 # w
      <4>1. m = n + 1 /\ m # 0 /\ m - 1 = n /\ m < w
        BY <1>5, <2>1, <2>2, <3>2
      <4> QED BY <4>1
    <3> QED BY <3>1, <3>2
  <2>7. At
    BY <1>11, <2>3, <2>6 DEF At
  <2> QED BY <1>6, <1>11, <2>1, <2>5, <2>7 DEF half, countdown, down
<1>12. CASE countdown = 0 /\ ~is_apu_cycle
  <2>1. m = n /\ n \in Nat /\ n < w /\ quarters = IF n = 0 THEN 1 ELSE Passed(n - 1)
    BY <1>1, <1>2, <1>4, <1>12
  <2>2. half => quarters = 1
    BY <1>3, <2>1, SequenceAssumption DEF Passed
  <2>3. after = Passed(n) /\ down = 0
    BY <1>3, <1>7, <1>12, <2>1, SequenceAssumption DEF Passed
  <2>4. Odd
    BY <2>3 DEF Odd
  <2>5. At
    BY <1>12, <2>1, <2>3 DEF At
  <2> QED BY <1>6, <1>12, <2>2, <2>4, <2>5 DEF half, countdown, down
<1> QED BY <1>1, <1>9, <1>10, <1>11, <1>12 DEF half, countdown, down

\* A write of $4017: the reset will come in the first half of an APU cycle, three or four on.
LEMMA StartsOver ==
    ASSUME IInv, NEW s \in States, s.fc.timer_reset_countdown = ResetDelay, Run(s),
           interfered' \in BOOLEAN
    PROVE  SequenceInv' /\ frame_counter'.timer_reset_countdown # 0
<1>1. is_apu_cycle \in BOOLEAN
  BY DEF IInv, TypeOK
<1>2. /\ frame_counter'.timer_reset_countdown =
            IF s.fc.timer_reset_countdown > 0 THEN s.fc.timer_reset_countdown - 1 ELSE 0
      /\ is_apu_cycle' = ~is_apu_cycle
  BY RunFacts DEF IInv
<1>3. frame_counter'.timer_reset_countdown = IF is_apu_cycle THEN 2 ELSE 3
  BY <1>1, <1>2 DEF ResetDelay
<1>4. frame_counter'.timer_reset_countdown # 0 =>
          (is_apu_cycle' <=> frame_counter'.timer_reset_countdown \in {1, 3})
  <2>1. CASE is_apu_cycle
    <3>1. frame_counter'.timer_reset_countdown = 2 /\ ~is_apu_cycle'
      BY <1>2, <1>3, <2>1
    <3> QED BY <3>1
  <2>2. CASE ~is_apu_cycle
    <3>1. frame_counter'.timer_reset_countdown = 3 /\ is_apu_cycle'
      BY <1>2, <1>3, <2>2
    <3> QED BY <3>1
  <2> QED BY <2>1, <2>2
<1>5. frame_counter'.timer_reset_countdown # 0
  BY <1>3
<1> QED BY <1>4, <1>5 DEF SequenceInv

\* Every step is one or the other.
LEMMA NextCases ==
    ASSUME TypeOK, Next
    PROVE  \E s \in States :
              /\ Run(s) /\ interfered' \in BOOLEAN
              /\ s.fc = frame_counter \/ s.fc.timer_reset_countdown = ResetDelay
              /\ s.age = irq_age \/ interfered'
<1>1. Now \in States /\ Now.fc = frame_counter /\ Now.age = irq_age
  BY NowType DEF Now, State
<1>2. CASE Quiet  BY <1>1, <1>2 DEF Quiet
<1>3. CASE AccessFrameCounter  BY <1>1, <1>3, WriteFrameCounterType DEF AccessFrameCounter
<1>4. CASE AccessStatus  BY <1>1, <1>4, ReadStatusType DEF AccessStatus
<1>5. CASE AccessChannels
  <2>1. interfered' \in BOOLEAN
    BY <1>5 DEF AccessChannels
  <2>2. CASE \E on \in SUBSET Channels : Run(WriteStatus(Now, on))
    BY <1>1, <2>1, <2>2, WriteStatusType
  <2>3. CASE \E c \in Channels \ {"triangle"}, halt \in BOOLEAN : Run(SetHalt(Now, c, halt))
    BY <1>1, <2>1, <2>3, SetHaltType
  <2>4. CASE \E halt \in BOOLEAN, value \in LinearLoads :
                 Run(LoadLinearCounter(Now, halt, value))
    BY <1>1, <2>1, <2>4, LoadLinearCounterType
  <2>5. CASE \E c \in Channels, length \in Lengths : Run(LoadLength(Now, c, length))
    BY <1>1, <2>1, <2>5, LoadLengthType
  <2> QED BY <1>5, <2>2, <2>3, <2>4, <2>5 DEF AccessChannels
<1> QED BY <1>2, <1>3, <1>4, <1>5 DEF Next

LEMMA InitHolds == Init => IInv
<1> SUFFICES ASSUME Init PROVE IInv
  OBVIOUS
<1>1. TypeOK
  <2>1. 4 \in 0..FiveWrap - 1
    BY SequenceAssumption
  <2>2. /\ frame_counter \in Counter
        /\ channel \in LengthCounters /\ linear \in LinearCounter
    BY <2>1 DEF Init, Counter, LengthCounters, LinearCounter
  <2>3. irq_age \in None..Delayed /\ is_apu_cycle \in BOOLEAN /\ interfered \in BOOLEAN
        /\ quarters \in 0..2
    <3>1. 0 \in 0..5 /\ 0 \in 0..2
      OBVIOUS
    <3> QED BY <3>1 DEF Init, None, Delayed
  <2> QED BY <2>2, <2>3 DEF TypeOK, Counter, LengthCounters, LinearCounter
<1>2. SequenceInv
  BY SequenceAssumption DEF Init, SequenceInv, Wrap, Passed
<1> QED BY <1>1, <1>2 DEF IInv

LEMMA NextKeeps == IInv /\ [Next]_vars => IInv'
<1> SUFFICES ASSUME IInv, [Next]_vars PROVE IInv'
  OBVIOUS
<1>1. CASE Next
  <2>1. PICK s \in States :
              /\ Run(s) /\ interfered' \in BOOLEAN
              /\ s.fc = frame_counter \/ s.fc.timer_reset_countdown = ResetDelay
    BY <1>1, NextCases DEF IInv
  <2>2. TypeOK'
    BY <2>1, RunFacts DEF IInv
  <2>3. SequenceInv'
    BY <2>1, CountsOn, StartsOver
  <2> QED BY <2>2, <2>3 DEF IInv
<1>2. CASE UNCHANGED vars
  BY <1>2 DEF IInv, vars, channelVars, TypeOK, SequenceInv
<1> QED BY <1>1, <1>2

-----------------------------------------------------------------------------
(* Theorems *)

\* The frame counter's state tells which frames of the sequence have passed.
THEOREM Inductive == Spec => []IInv
BY InitHolds, NextKeeps, PTL DEF Spec

\* No counter leaves its range: the length and linear counters stop at zero, and the sequence
\* wraps, even when $4017 shortens it behind the point it has reached.
THEOREM TypeCorrect == Spec => []TypeOK
<1>1. IInv => TypeOK
  BY DEF IInv
<1> QED BY <1>1, Inductive, PTL

\* Half frames and quarter frames alternate, and resetting the sequence clocks neither, whenever
\* $4017 is written.
THEOREM FramesAlternate == Spec => HalvesAlternate
<1>1. IInv /\ Next => (ClocksHalf /\ frame_counter'.timer_reset_countdown = 0 =>
                           quarters = 1 /\ frame_counter.timer_reset_countdown = 0)
  <2> SUFFICES ASSUME IInv, Next
               PROVE  ClocksHalf /\ frame_counter'.timer_reset_countdown = 0 =>
                          quarters = 1 /\ frame_counter.timer_reset_countdown = 0
    OBVIOUS
  <2>1. PICK s \in States :
              /\ Run(s) /\ interfered' \in BOOLEAN
              /\ s.fc = frame_counter \/ s.fc.timer_reset_countdown = ResetDelay
    BY NextCases DEF IInv
  <2> QED BY <2>1, CountsOn, StartsOver
<1>2. IInv /\ [Next]_vars =>
        [ClocksHalf /\ frame_counter'.timer_reset_countdown = 0 =>
             quarters = 1 /\ frame_counter.timer_reset_countdown = 0]_vars
  BY <1>1
<1> QED BY <1>2, Inductive, PTL DEF Spec, HalvesAlternate

\* The interrupt line falls only when software reads $4015 or writes $4017, or when the next
\* frame's interrupt starts the delay again.
THEOREM LineStaysUp == Spec => LineFallsWhenTaken
<1>1. IInv /\ Next => (IrqLine /\ ~IrqLine' => interfered' \/ irq_age' = JustSet)
  <2> SUFFICES ASSUME IInv, Next, IrqLine, ~IrqLine'
               PROVE  interfered' \/ irq_age' = JustSet
    OBVIOUS
  <2>1. PICK s \in States : /\ Run(s) /\ interfered' \in BOOLEAN
                            /\ s.age = irq_age \/ interfered'
    BY NextCases DEF IInv
  <2>2. irq_age = Delayed
    BY DEF IInv, TypeOK, IrqLine, None, Delayed
  <2>3. irq_age' \in {s.age, JustSet, Aged(s.age)}
    BY <2>1, RunFacts DEF IInv
  <2> QED BY <2>1, <2>2, <2>3 DEF Aged, IrqLine, Delayed
<1>2. IInv /\ [Next]_vars =>
        [IrqLine /\ ~IrqLine' => interfered' \/ irq_age' = JustSet]_vars
  BY <1>1
<1> QED BY <1>2, Inductive, PTL DEF Spec, LineFallsWhenTaken

=============================================================================
