-------------------------------- MODULE Nes --------------------------------
(***************************************************************************)
(* The CPU and the PPU together: Cpu::next (emulator/src/cpu/mod.rs) clocks *)
(* the CPU in one of every three steps and the PPU in each, and the CPU's   *)
(* register accesses and polls reach the PPU within its own cycle.          *)
(*                                                                          *)
(* The sequencer is CpuSequencer and the PPU is PpuVBlank; this module      *)
(* connects the two.  The IRQ line does anything.                           *)
(***************************************************************************)
EXTENDS Naturals

CONSTANTS Targets, PageSize, Program, OverflowChecks,
          LastDot, LastDrawnDot, LastVisible, PreRender, StartDot

ASSUME RegistersAssumption == {"memory", "OAMDMA", "PPUSTATUS", "PPUCTRL"} \subseteq Targets

VARIABLES state, instr, filled, checked, servicing, polled_interrupt, irq_disable,
          trigger_dma, dma_offset, dma_top, odd, bus, unit, elapsed, consumed,
          masked, ppu, last_skipped, cpu_cycle_counter,
          missed  \* history: polls that could clear the NMI and did not find it

Cpu == INSTANCE CpuSequencer
Ppu == INSTANCE PpuVBlank

\* What the two parts assume of their constants.
ASSUME CpuAssumption ==
    PageSize \in Nat \ {0} /\ OverflowChecks \in BOOLEAN /\ Program \subseteq Cpu!Instructions

ASSUME PpuAssumption ==
    /\ {LastDot, LastDrawnDot, LastVisible, PreRender, StartDot} \subseteq Nat
    /\ 0 < LastDrawnDot /\ LastDrawnDot < LastDot - 1
    /\ LastVisible + 2 < PreRender
    /\ 0 < StartDot /\ StartDot <= LastDot

cpuVars == <<state, instr, filled, checked, servicing, polled_interrupt, irq_disable,
             trigger_dma, dma_offset, dma_top, odd, bus, unit, elapsed, consumed, masked>>
vars == <<cpuVars, ppu, last_skipped, cpu_cycle_counter, missed>>

Init ==
    /\ Cpu!Init
    /\ Ppu!Init
    /\ missed = 0

\* The PPU as a poll of this cycle sees it: after the cycle's read.
PpuAtPoll(access) == Ppu!AfterRead(ppu, access.read)

\* The PPU after the CPU's cycle.
PpuAfterCpu(access, bit) ==
    Ppu!AfterCpuCycle(ppu, access.read, access.poll = "clear", access.write, bit)

\* The write that puts back what a register read gave has any bit.
WrittenBit == IF bus'.dummy THEN BOOLEAN ELSE {instr.flag}

\* A new NMI is one dot old at the end of the step that raises it.
JustRaised(p) == p.nmi = 1

CountMissed(poll) ==
    missed' = IF JustRaised(ppu') \/ ppu'.nmi = Ppu!NoNmi THEN 0
              ELSE IF poll = "clear" THEN missed + 1 ELSE missed

\* Cpu::next in the step that clocks the CPU.
NextWithCpu ==
    /\ cpu_cycle_counter = 1
    /\ cpu_cycle_counter' = 3
    /\ \E nmi, irq \in BOOLEAN :
          Cpu!Clock(nmi, irq) /\ nmi = Ppu!NmiReady(PpuAtPoll(bus'))
    /\ \E bit \in WrittenBit : Ppu!RunDot(PpuAfterCpu(bus', bit))
    /\ CountMissed(bus'.poll)

\* Cpu::next in the other two.
NextPpuOnly ==
    /\ Ppu!NextDot
    /\ CountMissed("none")
    /\ UNCHANGED cpuVars

Next == NextWithCpu \/ NextPpuOnly

Spec == Init /\ [][Next]_vars

\* The front end calls Cpu::next for as long as it runs.
FairSpec == Spec /\ WF_vars(Next)

-----------------------------------------------------------------------------
(* Properties *)

TypeOK == Cpu!TypeOK /\ Ppu!TypeOK /\ missed \in Nat

\* An NMI waits with NMI disabled only because a read-modify-write of PPUCTRL put back a
\* value that disables it, in a cycle that does not poll; a plain store polls before it
\* writes, and what the poll leaves the write takes back.
NoNmiWhileDisabled ==
    ppu.nmi # Ppu!NoNmi =>
        \/ ppu.nmi_enable
        \/ state \in {"WritingResultDummy", "WritingResult"} /\ instr.op = "Modify"

\* Of the polls after an NMI is raised at most one comes too early to see it: the
\* instruction that runs when it is raised, or the one after, is the last before the NMI.
NmiMissedAtMostOnce == missed <= 1

\* While every instruction polls (BRK does not, nor does a branch that is not taken), an NMI
\* that can no longer be taken back starts its interrupt sequence, or turns the one that
\* runs into its own: nothing the program does to the registers loses it.
PollsInterrupts == instr.op # "BRK" /\ (instr.op = "Branch" => instr.flag)
StartsNmi == state \in {"InternalOps1", "PullIRQVecHigh"} /\ servicing = "NMI"

RipeNmiIsServed == []PollsInterrupts => (Ppu!NmiReady(ppu) ~> StartsNmi)
=============================================================================
