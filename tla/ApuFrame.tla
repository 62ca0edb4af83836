------------------------------ MODULE ApuFrame ------------------------------
(***************************************************************************)
(* The frame counter of the APU (apu/mod.rs), its interrupt, and what it    *)
(* clocks: the channels' length counters (apu/length_counter.rs) and the    *)
(* linear counter of the triangle channel.  Waveforms, envelopes and sweep  *)
(* are not played by the program and are left out.                          *)
(*                                                                          *)
(* A step is one CPU cycle: the CPU makes at most one access, then          *)
(* Apu::next runs (Cpu::next).                                              *)
(***************************************************************************)
EXTENDS Naturals

CONSTANTS
    Quarter1, Half, Quarter3,  \* 3729, 7457, 11186: the steps of the sequence
    FourWrap, FiveWrap,        \* 14915, 18641: its lengths, in APU cycles
    Channels,                  \* the channels with a length counter, "triangle" among them
    Lengths,                   \* values of the length table the CPU loads
    LinearLoads                \* values the CPU writes to the linear counter's register

ASSUME SequenceAssumption ==
    /\ Quarter1 \in Nat /\ Half \in Nat /\ Quarter3 \in Nat /\ FourWrap \in Nat /\ FiveWrap \in Nat
    /\ 4 < Quarter1 /\ Quarter1 < Half /\ Half < Quarter3 /\ Quarter3 < FourWrap
    /\ FourWrap < FiveWrap

ASSUME ChannelAssumption ==
    /\ "triangle" \in Channels
    /\ Lengths \subseteq 0..255 /\ LinearLoads \subseteq 0..127

VARIABLES
    frame_counter,
    is_apu_cycle,
    irq_age,      \* total_apu_cycles - interrupt_triggered_cycles, up to Delayed; 0 for None
    channel,
    linear,       \* the linear counter of the triangle channel
    interfered,   \* history: the CPU wrote $4017 or read $4015 in this cycle
    quarters      \* history: quarter frames of the sequence since its last half frame or reset

channelVars == <<channel, linear>>
vars == <<frame_counter, is_apu_cycle, irq_age, channel, linear, interfered, quarters>>

None == 0
\* Past this age a read of $4015 clears the interrupt, and past this one the CPU sees it.
JustSet == 1
Delayed == 5

Wrap(mode) == IF mode = "FourStep" THEN FourWrap ELSE FiveWrap

TypeOK ==
    /\ frame_counter \in [mode : {"FourStep", "FiveStep"}, inhibit_interrupts : BOOLEAN,
                          sequence_cycles : 0..FiveWrap - 1, timer_reset_countdown : 0..4]
    /\ is_apu_cycle \in BOOLEAN
    /\ irq_age \in None..Delayed
    /\ channel \in [Channels -> [enabled : BOOLEAN, halt : BOOLEAN, length : 0..255]]
    /\ linear \in [counter : 0..127, reload : 0..127, reload_flag : BOOLEAN]
    /\ interfered \in BOOLEAN /\ quarters \in 0..2

Init ==
    /\ frame_counter = [mode |-> "FourStep", inhibit_interrupts |-> FALSE,
                        sequence_cycles |-> 4, timer_reset_countdown |-> 0]
    /\ is_apu_cycle = FALSE
    /\ irq_age = None
    /\ channel = [c \in Channels |-> [enabled |-> FALSE, halt |-> FALSE, length |-> 0]]
    /\ linear = [counter |-> 0, reload |-> 0, reload_flag |-> FALSE]
    /\ interfered = FALSE /\ quarters = 0

-----------------------------------------------------------------------------
(* What a frame clocks *)

\* clock_linear_counter; the channel's control flag is its length counter's halt flag.
QuarterFrame(lin, ch) ==
    [lin EXCEPT
        !.counter = IF lin.reload_flag THEN lin.reload
                    ELSE IF lin.counter > 0 THEN lin.counter - 1 ELSE 0,
        !.reload_flag = lin.reload_flag /\ ch["triangle"].halt]

\* Faulty: a length counter goes below zero.
ClockLengthsBelowZero(ch) ==
    [c \in Channels |-> IF ch[c].halt THEN ch[c]
                        ELSE [ch[c] EXCEPT !.length = ch[c].length - 1]]

ClockLengths(ch) ==
    [c \in Channels |-> IF ch[c].halt \/ ch[c].length = 0 THEN ch[c]
                        ELSE [ch[c] EXCEPT !.length = ch[c].length - 1]]

-----------------------------------------------------------------------------
(* The CPU's accesses *)

\* What an access leaves for Apu::next: frame counter, age of the interrupt, channels.
State(fc, age, ch, lin) == [fc |-> fc, age |-> age, ch |-> ch, lin |-> lin]
Now == State(frame_counter, irq_age, channel, linear)

\* Faulty: the two delays are swapped, and the reset lands in the other half of an APU cycle.
ResetDelaySwapped == IF is_apu_cycle THEN 4 ELSE 3

ResetDelay == IF is_apu_cycle THEN 3 ELSE 4

\* $4017.  A five step sequence clocks a half frame, and another quarter frame, at once.
WriteFrameCounter(s, mode, inhibit) ==
    LET fc == [s.fc EXCEPT !.mode = mode, !.inhibit_interrupts = inhibit,
                           !.timer_reset_countdown = ResetDelay]
        age == IF inhibit THEN None ELSE s.age
    IN  IF mode = "FourStep" THEN State(fc, age, s.ch, s.lin)
        ELSE State(fc, age, ClockLengths(s.ch),
                   QuarterFrame(QuarterFrame(s.lin, s.ch), s.ch))

\* $4015, read: an interrupt that was only just set is shown, and kept.
ReadStatus(s) == [s EXCEPT !.age = IF s.age > JustSet THEN None ELSE s.age]

\* $4015, written: the channels in "on" are enabled.
WriteStatus(s, on) ==
    [s EXCEPT !.ch = [c \in Channels |->
        [s.ch[c] EXCEPT !.enabled = c \in on, !.length = IF c \in on THEN @ ELSE 0]]]

\* $4000, $4004, $400C, and with the linear counter's reload value $4008.
SetHalt(s, c, halt) == [s EXCEPT !.ch[c].halt = halt]

LoadLinearCounter(s, halt, value) ==
    [SetHalt(s, "triangle", halt) EXCEPT !.lin.reload = value]

\* $4003, $4007, $400B, $400F.
LoadLength(s, c, length) ==
    LET loaded == IF s.ch[c].enabled THEN [s EXCEPT !.ch[c].length = length] ELSE s
    IN  IF c = "triangle" THEN [loaded EXCEPT !.lin.reload_flag = TRUE] ELSE loaded

-----------------------------------------------------------------------------
(* Apu::next *)

CountDown(fc) ==
    [fc EXCEPT !.timer_reset_countdown = IF @ > 0 THEN @ - 1 ELSE 0,
               !.sequence_cycles = IF fc.timer_reset_countdown = 1 THEN 0 ELSE @]

\* Faulty: the wrap is tested for, and the counter never gets there.
TriggersAtWrap(fc) ==
    fc.mode = "FourStep" /\ ~fc.inhibit_interrupts /\ fc.sequence_cycles = FourWrap

TriggersIrq(fc) ==
    fc.mode = "FourStep" /\ ~fc.inhibit_interrupts /\ fc.sequence_cycles = 0

\* Faulty: the interrupt is a pulse, gone when the CPU could have seen it.
AgedExpires(age) == IF age = None \/ age = Delayed THEN None ELSE age + 1

Aged(age) == IF age \in {None, Delayed} THEN age ELSE age + 1

ApuCycle(s) ==
    LET fc == [s.fc EXCEPT !.sequence_cycles = (@ + 1) % Wrap(s.fc.mode)]
    IN  State(fc, IF TriggersIrq(fc) THEN JustSet ELSE Aged(s.age), s.ch, s.lin)

IsHalf(cycles) == cycles \in {Half, 0}
IsQuarter(cycles) == cycles \in {Quarter1, Quarter3}

\* The frames are clocked in the other half of the APU cycle.
FrameCycle(s) ==
    LET cycles == s.fc.sequence_cycles
    IN  [s EXCEPT !.ch = IF IsHalf(cycles) THEN ClockLengths(s.ch) ELSE s.ch,
                  !.lin = IF IsHalf(cycles) \/ IsQuarter(cycles) THEN QuarterFrame(s.lin, s.ch)
                          ELSE s.lin]

ApuNext(s) ==
    LET counted == [s EXCEPT !.fc = CountDown(s.fc)]
    IN  IF is_apu_cycle THEN ApuCycle(counted) ELSE FrameCycle(counted)

\* Of the sequence, in this step: a five step write clocks frames of its own.
ClocksHalf == ~is_apu_cycle /\ IsHalf(frame_counter'.sequence_cycles)
ClocksQuarter == ~is_apu_cycle /\ IsQuarter(frame_counter'.sequence_cycles)

-----------------------------------------------------------------------------
(* One CPU cycle *)

Run(s) ==
    \E next \in {ApuNext(s)} :
        /\ frame_counter' = next.fc /\ irq_age' = next.age
        /\ channel' = next.ch /\ linear' = next.lin
        /\ is_apu_cycle' = ~is_apu_cycle
        /\ quarters' = IF s.fc.timer_reset_countdown = 1 \/ ClocksHalf THEN 0
                       ELSE IF ClocksQuarter /\ quarters < 2 THEN quarters + 1
                       ELSE quarters

Quiet == Run(Now) /\ interfered' = FALSE

AccessFrameCounter ==
    /\ \E mode \in {"FourStep", "FiveStep"}, inhibit \in BOOLEAN :
        Run(WriteFrameCounter(Now, mode, inhibit))
    /\ interfered' = TRUE

AccessStatus == Run(ReadStatus(Now)) /\ interfered' = TRUE

AccessChannels ==
    /\ \/ \E on \in SUBSET Channels : Run(WriteStatus(Now, on))
       \/ \E c \in Channels \ {"triangle"}, halt \in BOOLEAN : Run(SetHalt(Now, c, halt))
       \/ \E halt \in BOOLEAN, value \in LinearLoads : Run(LoadLinearCounter(Now, halt, value))
       \/ \E c \in Channels, length \in Lengths : Run(LoadLength(Now, c, length))
    /\ interfered' = FALSE

Next == Quiet \/ AccessFrameCounter \/ AccessStatus \/ AccessChannels

\* The front end calls Cpu::next, and that Apu::next, for as long as the program runs.
Spec == Init /\ [][Next]_vars /\ WF_vars(Next)

-----------------------------------------------------------------------------
(* Properties *)

\* check_trigger_irq, as the CPU's poll calls it.
IrqLine == irq_age >= Delayed

\* Between two half frames of the sequence there is one quarter frame, and none of them comes from
\* resetting it: the delays of $4017 put the reset into the half of the APU cycle that clocks none.
HalvesAlternate ==
    [][ ClocksHalf /\ frame_counter'.timer_reset_countdown = 0 =>
            quarters = 1 /\ frame_counter.timer_reset_countdown = 0 ]_vars

\* The CPU sees the interrupt until software takes it back, except that the next frame's
\* interrupt hides one that was left alone for as long as it takes to be seen itself.
LineFallsWhenTaken ==
    [][ IrqLine /\ ~IrqLine' => interfered' \/ irq_age' = JustSet ]_vars

\* With interrupts allowed, a four step sequence interrupts the CPU, unless software starts it
\* again or reads the status, forever.
FrameIrqArrives ==
    (frame_counter.mode = "FourStep" /\ ~frame_counter.inhibit_interrupts)
        ~> (IrqLine \/ interfered)

=============================================================================
