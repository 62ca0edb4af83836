------------------------------ MODULE Nes_proofs ------------------------------
(***************************************************************************)
(* The CPU and the PPU together are a CPU and a PPU: Nes implements         *)
(* CpuSequencer and PpuVBlank, and with them all that is proved of either.  *)
(* From what each guarantees, that no NMI is served while NMI is disabled,  *)
(* and that the delay of check_ppu_nmi costs one poll at most.              *)
(***************************************************************************)
EXTENDS Nes, TLAPS

CpuP == INSTANCE CpuSequencer_proofs
PpuP == INSTANCE PpuVBlank_proofs

-----------------------------------------------------------------------------
(* The components of Nes and those of the two proof modules are the same.   *)

LEMMA SameClock ==
    ASSUME NEW nmi, NEW irq, Cpu!Clock(nmi, irq)
    PROVE  CpuP!Clock(nmi, irq)
  BY Zenon DEF
     Cpu!Clock, Cpu!StepCpu, Cpu!WritingResult, Cpu!Polled, Cpu!SetDmaAddress,
     Cpu!dmaVars, Cpu!operandVars, Cpu!EndUnit, Cpu!StartDma, Cpu!StartInterrupt,
     Cpu!NextInstruction, Cpu!TriggerDma, Cpu!Idle, Cpu!BranchLeavesPage, Cpu!Continue,
     Cpu!ConsumeOperandByte, Cpu!OperandBytes, Cpu!OperandFilled, Cpu!FillCycles,
     Cpu!FetchOpcode, Cpu!StepInside, Cpu!CpuSuccessor, Cpu!ReadWithoutCarry,
     Cpu!ReadsTwice, Cpu!FillOperand, Cpu!FinishWithPoll, Cpu!PollsLast,
     Cpu!PushRegisterOnStack, Cpu!BranchCrossesPageBoundary, Cpu!Execute,
     Cpu!ExecuteUnimplemented, Cpu!Panic, Cpu!ExecuteAndContinue, Cpu!StateAfterExecute,
     Cpu!ExecuteAndFinish, Cpu!ExecuteBreak, Cpu!ExecuteModify, Cpu!ExecutePush,
     Cpu!BranchNotTaken, Cpu!ReadOperand, Cpu!OperandRead, Cpu!IndexedModes,
     Cpu!PullStatusForReturn, Cpu!ThrowawayRead, Cpu!CountCycle, Cpu!ElapsedLimit,
     Cpu!Boundary, Cpu!StepInterruptHandler, Cpu!PushStatusRegister, Cpu!Hijacked,
     Cpu!PullIRQVecLow, Cpu!StepInterrupt, Cpu!InterruptSuccessor, Cpu!StepDmaHandler,
     Cpu!DmaReadOverflows, Cpu!DmaAddressOverflows, Cpu!StartDmaRead, Cpu!DmaWrite,
     Cpu!DmaPageDone, Cpu!DmaRead, CpuP!Clock, CpuP!StepCpu, CpuP!WritingResult,
     CpuP!Polled, CpuP!SetDmaAddress, CpuP!dmaVars, CpuP!operandVars, CpuP!EndUnit,
     CpuP!StartDma, CpuP!StartInterrupt, CpuP!NextInstruction, CpuP!TriggerDma,
     CpuP!Idle, CpuP!BranchLeavesPage, CpuP!Continue, CpuP!ConsumeOperandByte,
     CpuP!OperandBytes, CpuP!OperandFilled, CpuP!FillCycles, CpuP!FetchOpcode,
     CpuP!StepInside, CpuP!CpuSuccessor, CpuP!ReadWithoutCarry, CpuP!ReadsTwice,
     CpuP!FillOperand, CpuP!FinishWithPoll, CpuP!PollsLast, CpuP!PushRegisterOnStack,
     CpuP!BranchCrossesPageBoundary, CpuP!Execute, CpuP!ExecuteUnimplemented,
     CpuP!Panic, CpuP!ExecuteAndContinue, CpuP!StateAfterExecute, CpuP!ExecuteAndFinish,
     CpuP!ExecuteBreak, CpuP!ExecuteModify, CpuP!ExecutePush, CpuP!BranchNotTaken,
     CpuP!ReadOperand, CpuP!OperandRead, CpuP!IndexedModes, CpuP!PullStatusForReturn,
     CpuP!ThrowawayRead, CpuP!CountCycle, CpuP!ElapsedLimit, CpuP!Boundary,
     CpuP!StepInterruptHandler, CpuP!PushStatusRegister, CpuP!Hijacked,
     CpuP!PullIRQVecLow, CpuP!StepInterrupt, CpuP!InterruptSuccessor,
     CpuP!StepDmaHandler, CpuP!DmaReadOverflows, CpuP!DmaAddressOverflows,
     CpuP!StartDmaRead, CpuP!DmaWrite, CpuP!DmaPageDone, CpuP!DmaRead

LEMMA SameCpuTypes ==
    /\ Cpu!Init => CpuP!Init
    /\ CpuP!TypeOK => Cpu!TypeOK
  BY Zenon DEF
     Cpu!Init, Cpu!SomeInstruction, Cpu!Idle, Cpu!TypeOK, Cpu!Interrupts,
     Cpu!Instructions, Cpu!OPCODE_TABLE, Cpu!DataModes, Cpu!Instruction, Cpu!Operations,
     Cpu!Modes, Cpu!IndexedModes, Cpu!CpuStates, Cpu!Access, Cpu!ElapsedLimit,
     Cpu!DmaStates, Cpu!InterruptStates, CpuP!Init, CpuP!SomeInstruction, CpuP!Idle,
     CpuP!TypeOK, CpuP!Interrupts, CpuP!Instructions, CpuP!OPCODE_TABLE, CpuP!DataModes,
     CpuP!Instruction, CpuP!Operations, CpuP!Modes, CpuP!IndexedModes, CpuP!CpuStates,
     CpuP!Access, CpuP!ElapsedLimit, CpuP!DmaStates, CpuP!InterruptStates

LEMMA SameAccess ==
    ASSUME NEW p, NEW read, NEW clear, NEW write, NEW bit
    PROVE  /\ Ppu!AfterCpuCycle(p, read, clear, write, bit) =
                  PpuP!AfterCpuCycle(p, read, clear, write, bit)
           /\ Ppu!AfterRead(p, read) = PpuP!AfterRead(p, read)
  BY Zenon DEF
     Ppu!AfterCpuCycle, Ppu!Polled, Ppu!NoNmi, Ppu!NmiReady, Ppu!Ripe, Ppu!AfterRead,
     Ppu!ReadStatus, Ppu!IsFresh, Ppu!AfterWrite, Ppu!WriteMask, Ppu!WriteCtrl,
     Ppu!RaisesNmi, PpuP!AfterCpuCycle, PpuP!Polled, PpuP!NoNmi, PpuP!NmiReady,
     PpuP!Ripe, PpuP!AfterRead, PpuP!ReadStatus, PpuP!IsFresh, PpuP!AfterWrite,
     PpuP!WriteMask, PpuP!WriteCtrl, PpuP!RaisesNmi

LEMMA SameNextCycle ==
    ASSUME NEW p PROVE Ppu!NextCycle(p) = PpuP!NextCycle(p)
  BY Zenon DEF Ppu!NextCycle, PpuP!NextCycle

LEMMA SameDrawn ==
    ASSUME NEW p
    PROVE  /\ Ppu!ToggleShortFrame(p) = PpuP!ToggleShortFrame(p)
           /\ Ppu!SkipsLastDot(p) <=> PpuP!SkipsLastDot(p)
           /\ Ppu!PreRenderClears(p) = PpuP!PreRenderClears(p)
           /\ Ppu!StartVBlank(p) = PpuP!StartVBlank(p)
           /\ Ppu!AgeCycles(p) = PpuP!AgeCycles(p)
  BY Zenon DEF
     Ppu!ToggleShortFrame, Ppu!At, Ppu!SkipsLastDot, Ppu!PreRenderClears,
     Ppu!StartVBlank, Ppu!StartsVBlank, Ppu!VBlankLine, Ppu!AgeCycles, Ppu!IsFresh,
     Ppu!Ripe, PpuP!ToggleShortFrame, PpuP!At, PpuP!SkipsLastDot, PpuP!PreRenderClears,
     PpuP!StartVBlank, PpuP!StartsVBlank, PpuP!VBlankLine, PpuP!AgeCycles, PpuP!IsFresh,
     PpuP!Ripe

LEMMA SameTick ==
    ASSUME NEW p, NEW hit
    PROVE  Ppu!Tick(p, hit) = PpuP!Tick(p, hit)
  BY SameNextCycle, SameDrawn DEF Ppu!Tick, PpuP!Tick

LEMMA SameDot ==
    ASSUME NEW p, Ppu!RunDot(p)
    PROVE  PpuP!RunDot(p)
  BY SameTick, Zenon DEF
     Ppu!RunDot, Ppu!MayHitSpriteZero, Ppu!At, PpuP!RunDot, PpuP!MayHitSpriteZero,
     PpuP!At

LEMMA SamePpuTypes ==
    /\ Ppu!Init => PpuP!Init
    /\ PpuP!TypeOK => Ppu!TypeOK
  BY Zenon DEF
     Ppu!Init, Ppu!NoNmi, Ppu!TypeOK, Ppu!PpuState, PpuP!Init, PpuP!NoNmi, PpuP!TypeOK,
     PpuP!PpuState

LEMMA Assumptions ==
    /\ CpuP!TargetsAssumption /\ CpuP!PageSizeAssumption /\ CpuP!OverflowChecksAssumption
    /\ CpuP!ProgramAssumption
    /\ PpuP!FrameAssumption
  <1>1. CpuP!Instructions = Cpu!Instructions
    BY Zenon DEF
     Cpu!Instructions, Cpu!OPCODE_TABLE, Cpu!DataModes, Cpu!Instruction, Cpu!Operations,
     Cpu!Modes, Cpu!IndexedModes, CpuP!Instructions, CpuP!OPCODE_TABLE, CpuP!DataModes,
     CpuP!Instruction, CpuP!Operations, CpuP!Modes, CpuP!IndexedModes
  <1> QED
    BY <1>1, RegistersAssumption, CpuAssumption, PpuAssumption
    DEF CpuP!TargetsAssumption, CpuP!PageSizeAssumption, CpuP!OverflowChecksAssumption,
        CpuP!ProgramAssumption, PpuP!FrameAssumption

-----------------------------------------------------------------------------
(* Nes implements its parts *)

\* The PPU on its own meets these registers only; others do nothing to it.
LEMMA OtherRegisters ==
    ASSUME NEW p, NEW read, NEW clear, NEW write, NEW bit
    PROVE  \E r \in {"memory", "PPUSTATUS"}, w \in {"memory", "PPUCTRL", "PPUMASK"} :
              PpuP!AfterCpuCycle(p, read, clear, write, bit) =
                  PpuP!AfterCpuCycle(p, r, clear, w, bit)
  <1> DEFINE r == IF read = "PPUSTATUS" THEN "PPUSTATUS" ELSE "memory"
             w == IF write \in {"PPUCTRL", "PPUMASK"} THEN write ELSE "memory"
  <1>1. r \in {"memory", "PPUSTATUS"} /\ w \in {"memory", "PPUCTRL", "PPUMASK"}
    OBVIOUS
  <1>2. PpuP!AfterRead(p, read) = PpuP!AfterRead(p, r)
    BY DEF PpuP!AfterRead
  <1>3. \A q : PpuP!AfterWrite(q, write, bit) = PpuP!AfterWrite(q, w, bit)
    BY DEF PpuP!AfterWrite
  <1> HIDE DEF r, w
  <1> QED
    BY <1>1, <1>2, <1>3 DEF PpuP!AfterCpuCycle

\* The CPU's part of a step.
LEMMA CpuFacts ==
    ASSUME NextWithCpu
    PROVE  \E nmi, irq \in BOOLEAN : CpuP!Clock(nmi, irq)
  BY SameClock DEF NextWithCpu

\* The PPU's part of a step that clocks the CPU.
LEMMA PpuFacts ==
    ASSUME NextWithCpu, instr.flag \in BOOLEAN
    PROVE  /\ cpu_cycle_counter = 1 /\ cpu_cycle_counter' = 3
           /\ \E bit \in BOOLEAN :
                 PpuP!RunDot(PpuP!AfterCpuCycle(ppu, bus'.read, bus'.poll = "clear",
                                                bus'.write, bit))
  <1>1. PICK bit \in WrittenBit : Ppu!RunDot(PpuAfterCpu(bus', bit))
    BY DEF NextWithCpu
  <1>0. bit \in BOOLEAN
    BY DEF WrittenBit
  <1>2. PpuAfterCpu(bus', bit) =
            PpuP!AfterCpuCycle(ppu, bus'.read, bus'.poll = "clear", bus'.write, bit)
    BY SameAccess DEF PpuAfterCpu
  <1> QED
    BY <1>0, <1>1, <1>2, SameDot DEF NextWithCpu

-----------------------------------------------------------------------------
(* What the two guarantee each other *)

\* A write goes with a poll, or is the dummy write of a read-modify-write, whose own write
\* follows: with a poll.
LEMMA BusFacts ==
    ASSUME NEW nmi, NEW irq, CpuP!Clock(nmi, irq)
    PROVE  /\ bus'.write # "memory" =>
                 \/ bus'.poll = "clear"
                 \/ state' = "WritingResultDummy" /\ instr'.op = "Modify"
           /\ state = "WritingResult" => bus'.poll = "clear"
           /\ state = "WritingResultDummy" => state' = "WritingResult" /\ instr' = instr
  <1> DEFINE Goal ==
           /\ bus'.write # "memory" =>
                 \/ bus'.poll = "clear"
                 \/ state' = "WritingResultDummy" /\ instr'.op = "Modify"
           /\ state = "WritingResult" => bus'.poll = "clear"
           /\ state = "WritingResultDummy" => state' = "WritingResult" /\ instr' = instr
  <1>1. ASSUME NEW read, CpuP!Execute(read, nmi, irq), instr' = instr,
               state \notin {"WritingResult", "WritingResultDummy"}
        PROVE  Goal
    <2>1. CASE CpuP!ExecuteModify(read)
      BY <1>1, <2>1 DEF CpuP!ExecuteModify, CpuP!Continue
    <2>2. CASE CpuP!ExecuteAndFinish(read, nmi, irq)
      BY <1>1, <2>2 DEF CpuP!ExecuteAndFinish, CpuP!Idle
    <2>3. CASE CpuP!ExecuteBreak \/ CpuP!ExecutePush(nmi, irq) \/ CpuP!ExecuteAndContinue(read)
               \/ CpuP!ExecuteUnimplemented
      <3>1. bus'.write = "memory"
        BY <2>3 DEF CpuP!ExecuteBreak, CpuP!ExecutePush, CpuP!ExecuteAndContinue,
                    CpuP!ExecuteUnimplemented, CpuP!Panic, CpuP!Idle
      <3> QED
        BY <1>1, <3>1
    <2> QED
      BY <1>1, <2>1, <2>2, <2>3 DEF CpuP!Execute
  <1>2. CASE CpuP!StepCpu(nmi, irq)
    <2>1. CASE CpuP!ThrowawayRead(nmi, irq)
      BY <1>1, <2>1 DEF CpuP!ThrowawayRead
    <2>2. CASE CpuP!ReadOperand(nmi, irq)
      BY <1>1, <2>2 DEF CpuP!ReadOperand, CpuP!OperandFilled
    <2>3. CASE CpuP!BranchCrossesPageBoundary(nmi, irq)
      BY <1>1, <2>3 DEF CpuP!BranchCrossesPageBoundary, CpuP!operandVars
    <2>4. CASE CpuP!WritingResult(nmi, irq)
      BY <2>4 DEF CpuP!WritingResult, CpuP!Idle
    <2>5. CASE CpuP!StepInside
      BY <2>5 DEF CpuP!StepInside, CpuP!CpuSuccessor, CpuP!Idle, CpuP!operandVars
    <2>6. CASE CpuP!FetchOpcode
      BY <2>6 DEF CpuP!FetchOpcode, CpuP!Idle
    <2>7. CASE CpuP!FillOperand \/ CpuP!ReadWithoutCarry \/ CpuP!BranchNotTaken
               \/ CpuP!BranchLeavesPage
      <3>1. bus'.write = "memory" /\ state = "ReadingOperand"
        BY <2>7 DEF CpuP!FillOperand, CpuP!ReadWithoutCarry, CpuP!BranchNotTaken,
                    CpuP!BranchLeavesPage, CpuP!OperandFilled, CpuP!Idle
      <3> QED
        BY <3>1
    <2>8. CASE CpuP!PushRegisterOnStack \/ CpuP!PullStatusForReturn
               \/ CpuP!FinishWithPoll(nmi, irq)
      <3>1. bus'.write = "memory" /\ state \notin {"WritingResult", "WritingResultDummy"}
        BY <2>8 DEF CpuP!PushRegisterOnStack, CpuP!PullStatusForReturn, CpuP!FinishWithPoll,
                    CpuP!PollsLast, CpuP!Idle
      <3> QED
        BY <3>1
    <2> QED
      BY <1>2, <2>1, <2>2, <2>3, <2>4, <2>5, <2>6, <2>7, <2>8 DEF CpuP!StepCpu
  <1>3. CASE CpuP!StepInterruptHandler(nmi, irq) \/ CpuP!StepDmaHandler
    <2>1. bus'.write = "memory" /\ state \notin {"WritingResult", "WritingResultDummy"}
      BY <1>3 DEF CpuP!StepInterruptHandler, CpuP!StepInterrupt, CpuP!PushStatusRegister,
                  CpuP!PullIRQVecLow, CpuP!StepDmaHandler, CpuP!StartDmaRead, CpuP!DmaRead,
                  CpuP!DmaReadOverflows, CpuP!DmaWrite, CpuP!Panic, CpuP!Idle
    <2> QED
      BY <2>1
  <1> QED
    BY <1>2, <1>3 DEF CpuP!Clock

\* What a CPU cycle leaves of an NMI.
LEMMA NmiAccess ==
    ASSUME NEW p \in PpuP!PpuState, p.nmi # 0, NEW read, NEW clear \in BOOLEAN, NEW write,
           NEW bit \in BOOLEAN, PpuP!IsFresh(p) => p.nmi_enable
    PROVE  LET q == PpuP!AfterCpuCycle(p, read, clear, write, bit)
           IN  /\ q \in PpuP!PpuState /\ q.nmi \in {0, p.nmi, PpuP!NoNmi}
               /\ clear /\ p.nmi = PpuP!Ripe => q.nmi # PpuP!Ripe
               /\ clear /\ q.nmi # PpuP!NoNmi => q.nmi_enable
               /\ write # "PPUCTRL" => /\ q.nmi_enable = p.nmi_enable
                                       /\ q.nmi \in {p.nmi, PpuP!NoNmi}
  <1> DEFINE a == PpuP!AfterRead(p, read)
             b == PpuP!Polled(a, clear)
             q == PpuP!AfterWrite(b, write, bit)
  <1>1. /\ a \in PpuP!PpuState /\ a.nmi_enable = p.nmi_enable
        /\ a.nmi = p.nmi \/ (a.nmi = PpuP!NoNmi /\ PpuP!IsFresh(p))
    BY Assumptions, PpuP!ReadFacts
  <1> HIDE DEF a
  <1>2. /\ b \in PpuP!PpuState /\ b.nmi_enable = a.nmi_enable
        /\ b.nmi = a.nmi \/ (b.nmi = PpuP!NoNmi /\ a.nmi = PpuP!Ripe)
    BY <1>1, Assumptions, PpuP!PollFacts
  <1>3. clear => b.nmi # PpuP!Ripe
    <2>1. CASE clear /\ a.nmi = PpuP!Ripe
      <3>1. b = [a EXCEPT !.nmi = PpuP!NoNmi]
        BY <2>1 DEF PpuP!Polled, PpuP!NmiReady
      <3> QED
        BY <1>1, <3>1 DEF PpuP!PpuState, PpuP!NoNmi, PpuP!Ripe
    <2>2. CASE a.nmi # PpuP!Ripe
      BY <1>2, <2>2 DEF PpuP!NoNmi, PpuP!Ripe
    <2> QED
      BY <2>1, <2>2
  <1> HIDE DEF b
  <1>4. b.nmi # 0
    BY <1>1, <1>2 DEF PpuP!NoNmi
  <1>5. CASE write = "PPUCTRL"
    <2> DEFINE n == CASE PpuP!RaisesNmi(b, bit) -> 0
                      [] ~bit /\ PpuP!IsFresh(b) -> PpuP!NoNmi
                      [] OTHER -> b.nmi
    <2>1. q = [b EXCEPT !.nmi_enable = bit, !.nmi = n]
      BY <1>5 DEF PpuP!AfterWrite, PpuP!WriteCtrl
    <2>2. /\ n \in 0..PpuP!NoNmi
          /\ n = 0 => bit
          /\ n # 0 => n = IF ~bit /\ PpuP!IsFresh(b) THEN PpuP!NoNmi ELSE b.nmi
      BY <1>2, <1>4 DEF PpuP!PpuState, PpuP!NoNmi, PpuP!RaisesNmi
    <2> HIDE DEF n, q
    <2>3. q \in PpuP!PpuState /\ q.nmi_enable = bit /\ q.nmi = n
      BY <1>2, <2>1, <2>2 DEF PpuP!PpuState
    <2>4. clear /\ q.nmi # PpuP!NoNmi => q.nmi_enable
      BY <1>2, <1>3, <2>2, <2>3 DEF PpuP!PpuState, PpuP!IsFresh, PpuP!NoNmi, PpuP!Ripe
    <2>5. q.nmi \in {0, p.nmi, PpuP!NoNmi} /\ (clear => q.nmi # PpuP!Ripe)
      BY <1>1, <1>2, <1>3, <2>2, <2>3 DEF PpuP!NoNmi, PpuP!Ripe
    <2> QED
      BY <1>5, <2>3, <2>4, <2>5 DEF PpuP!AfterCpuCycle, a, b, q
  <1>6. CASE write # "PPUCTRL"
    <2>1. q \in PpuP!PpuState /\ q.nmi_enable = b.nmi_enable /\ q.nmi = b.nmi
      BY <1>2, <1>6 DEF PpuP!AfterWrite, PpuP!WriteMask, PpuP!PpuState
    <2> HIDE DEF q
    <2>2. clear /\ q.nmi # PpuP!NoNmi => q.nmi_enable
      BY <1>1, <1>2, <1>3, <2>1 DEF PpuP!PpuState, PpuP!IsFresh, PpuP!NoNmi, PpuP!Ripe
    <2>3. q.nmi \in {p.nmi, PpuP!NoNmi} /\ (clear => q.nmi # PpuP!Ripe)
      BY <1>1, <1>2, <1>3, <2>1
    <2> QED
      BY <1>1, <1>2, <2>1, <2>2, <2>3 DEF PpuP!AfterCpuCycle, a, b, q
  <1> QED
    BY <1>5, <1>6

\* What the PPU's dot makes of it.
LEMMA NmiDot ==
    ASSUME NEW q \in PpuP!PpuState, PpuP!RunDot(q)
    PROVE  /\ ppu'.nmi_enable = q.nmi_enable
           /\ (ppu'.nmi = 1 /\ q.nmi_enable)
                 \/ ppu'.nmi = IF q.nmi < PpuP!Ripe THEN q.nmi + 1 ELSE q.nmi
  <1>1. PICK hit \in BOOLEAN : ppu' = PpuP!Tick(q, hit)
    BY DEF PpuP!RunDot
  <1>2. PpuP!Ticked(q, ppu')
    BY <1>1, Assumptions, PpuP!TickFacts
  <1> QED
    BY <1>2 DEF PpuP!Ticked, PpuP!IsFresh

-----------------------------------------------------------------------------
(* The inductive invariant *)

\* A poll that came too early is less than three dots old, or the NMI waits for the next.
MissedInv ==
    /\ missed \in {0, 1}
    /\ missed = 1 => ppu.nmi = PpuP!Ripe \/ (ppu.nmi = 2 /\ cpu_cycle_counter >= 2)

IInv == CpuP!IInv /\ PpuP!IInv /\ NoNmiWhileDisabled /\ MissedInv

LEMMA Typed ==
    ASSUME IInv
    PROVE  /\ instr.flag \in BOOLEAN
           /\ ppu \in PpuP!PpuState /\ ppu.nmi \in 1..PpuP!NoNmi
           /\ cpu_cycle_counter \in 1..3
           /\ PpuP!IsFresh(ppu) => ppu.nmi_enable
  <1>1. instr \in CpuP!Instructions
    BY DEF IInv, CpuP!IInv, CpuP!TypeOK
  <1>2. instr.flag \in BOOLEAN
    BY <1>1, Assumptions, CpuP!InstructionTyped
  <1>3. ppu \in PpuP!PpuState /\ ppu.nmi # 0 /\ cpu_cycle_counter \in 1..3
    BY DEF IInv, PpuP!IInv, PpuP!TypeOK, PpuP!YoungNmiInv
  <1>4. ppu.nmi \in 1..PpuP!NoNmi
    BY <1>3 DEF PpuP!PpuState, PpuP!NoNmi
  <1> QED
    BY <1>2, <1>3, <1>4 DEF IInv, PpuP!IInv, PpuP!FreshNmiHasCause

\* Each step of Nes is a step of the PPU, and a step of the CPU or none.
LEMMA StepImplements ==
    ASSUME IInv, Next
    PROVE  PpuP!Next /\ (CpuP!Next \/ UNCHANGED CpuP!vars)
  <1>1. CASE NextWithCpu
    <2>1. \E nmi, irq \in BOOLEAN : CpuP!Clock(nmi, irq)
      BY <1>1, CpuFacts
    <2>2. PICK bit \in BOOLEAN :
              PpuP!RunDot(PpuP!AfterCpuCycle(ppu, bus'.read, bus'.poll = "clear",
                                             bus'.write, bit))
      BY <1>1, PpuFacts, Typed
    <2>3. cpu_cycle_counter = 1 /\ cpu_cycle_counter' = 3
      BY <1>1 DEF NextWithCpu
    <2> DEFINE clear == bus'.poll = "clear"
    <2>4. clear \in BOOLEAN
      OBVIOUS
    <2> HIDE DEF clear
    <2>5. PICK r \in {"memory", "PPUSTATUS"}, w \in {"memory", "PPUCTRL", "PPUMASK"} :
              PpuP!AfterCpuCycle(ppu, bus'.read, clear, bus'.write, bit) =
                  PpuP!AfterCpuCycle(ppu, r, clear, w, bit)
      BY OtherRegisters
    <2>6. PpuP!RunDot(PpuP!AfterCpuCycle(ppu, r, clear, w, bit))
      BY <2>2, <2>5 DEF clear
    <2>7. PpuP!NextCpuCycle
      BY <2>3, <2>4, <2>6 DEF PpuP!NextCpuCycle
    <2> QED
      BY <2>1, <2>7 DEF CpuP!Next, PpuP!Next
  <1>2. CASE NextPpuOnly
    <2>1. PpuP!NextDot
      BY <1>2, SameDot DEF NextPpuOnly, Ppu!NextDot, PpuP!NextDot
    <2>2. UNCHANGED CpuP!vars
      BY <1>2 DEF NextPpuOnly, cpuVars, CpuP!vars
    <2> QED
      BY <2>1, <2>2 DEF PpuP!Next
  <1> QED
    BY <1>1, <1>2 DEF Next

LEMMA NmiStep ==
    ASSUME IInv, Next
    PROVE  NoNmiWhileDisabled' /\ MissedInv'
  <1> USE DEF PpuP!NoNmi, PpuP!Ripe, Ppu!NoNmi
  <1>1. CASE NextWithCpu
    <2>1. PICK nmi \in BOOLEAN, irq \in BOOLEAN : CpuP!Clock(nmi, irq)
      BY <1>1, CpuFacts
    <2>2. PICK bit \in BOOLEAN :
              PpuP!RunDot(PpuP!AfterCpuCycle(ppu, bus'.read, bus'.poll = "clear",
                                             bus'.write, bit))
      BY <1>1, PpuFacts, Typed
    <2> DEFINE clear == bus'.poll = "clear"
               q == PpuP!AfterCpuCycle(ppu, bus'.read, clear, bus'.write, bit)
    <2>3. clear \in BOOLEAN
      OBVIOUS
    <2>4. /\ bus'.write # "memory" =>
                clear \/ (state' = "WritingResultDummy" /\ instr'.op = "Modify")
          /\ state = "WritingResult" => clear
          /\ state = "WritingResultDummy" => state' = "WritingResult" /\ instr' = instr
      BY <2>1, BusFacts
    <2> HIDE DEF clear
    <2>5. /\ q \in PpuP!PpuState /\ q.nmi \in {0, ppu.nmi, PpuP!NoNmi}
          /\ clear /\ ppu.nmi = PpuP!Ripe => q.nmi # PpuP!Ripe
          /\ clear /\ q.nmi # PpuP!NoNmi => q.nmi_enable
          /\ bus'.write # "PPUCTRL" => /\ q.nmi_enable = ppu.nmi_enable
                                       /\ q.nmi \in {ppu.nmi, PpuP!NoNmi}
      BY <2>3, Typed, NmiAccess
    <2>6. PpuP!RunDot(q)
      BY <2>2 DEF clear
    <2> HIDE DEF q
    <2>7. /\ ppu'.nmi_enable = q.nmi_enable
          /\ (ppu'.nmi = 1 /\ q.nmi_enable)
                \/ ppu'.nmi = IF q.nmi < PpuP!Ripe THEN q.nmi + 1 ELSE q.nmi
      BY <2>5, <2>6, NmiDot
    <2>8. ppu.nmi \in 1..4 /\ q.nmi \in 0..4
      BY <2>5, Typed
    <2>9. NoNmiWhileDisabled'
      <3> SUFFICES ASSUME ppu'.nmi # 4, ~ppu'.nmi_enable
                   PROVE  state' \in {"WritingResultDummy", "WritingResult"}
                              /\ instr'.op = "Modify"
        BY DEF NoNmiWhileDisabled
      <3>1. q.nmi # 4 /\ ~q.nmi_enable /\ ~clear
        BY <2>5, <2>7, <2>8
      <3>2. CASE bus'.write = "PPUCTRL"
        BY <2>4, <3>1, <3>2
      <3>3. CASE bus'.write # "PPUCTRL"
        <4>1. ppu.nmi # 4 /\ ~ppu.nmi_enable
          BY <2>5, <3>1, <3>3
        <4>2. state \in {"WritingResultDummy", "WritingResult"} /\ instr.op = "Modify"
          BY <4>1 DEF IInv, NoNmiWhileDisabled
        <4> QED
          BY <2>4, <3>1, <4>2
      <3> QED
        BY <3>2, <3>3
    <2>10. MissedInv'
      <3>1. cpu_cycle_counter = 1 /\ cpu_cycle_counter' = 3
        BY <1>1 DEF NextWithCpu
      <3>2. missed' = IF ppu'.nmi = 1 \/ ppu'.nmi = 4 THEN 0
                      ELSE IF clear THEN missed + 1 ELSE missed
        BY <1>1 DEF NextWithCpu, CountMissed, JustRaised, clear
      <3>3. missed \in {0, 1} /\ (missed = 1 => ppu.nmi = 3)
        BY <3>1 DEF IInv, MissedInv
      <3>4. CASE ppu'.nmi = 1 \/ ppu'.nmi = 4
        BY <3>2, <3>4 DEF MissedInv
      <3>5. CASE ppu'.nmi # 1 /\ ppu'.nmi # 4 /\ clear
        <4>1. missed' = missed + 1
          BY <3>2, <3>5
        <4>2. q.nmi \in {1, 2} /\ q.nmi = ppu.nmi /\ ppu'.nmi \in {2, 3}
          BY <2>5, <2>7, <2>8, <3>5
        <4> QED
          BY <3>1, <3>3, <4>1, <4>2 DEF MissedInv
      <3>6. CASE ppu'.nmi # 1 /\ ppu'.nmi # 4 /\ ~clear
        <4>1. missed' = missed
          BY <3>2, <3>6
        <4>2. ppu.nmi = 3 => ppu'.nmi = 3
          BY <2>5, <2>7, <2>8, <3>6
        <4> QED
          BY <3>3, <4>1, <4>2 DEF MissedInv
      <3> QED
        BY <3>4, <3>5, <3>6
    <2> QED
      BY <2>9, <2>10
  <1>2. CASE NextPpuOnly
    <2>1. PpuP!RunDot(ppu) /\ cpu_cycle_counter > 1
          /\ cpu_cycle_counter' = cpu_cycle_counter - 1
      BY <1>2, SameDot DEF NextPpuOnly, Ppu!NextDot
    <2>2. state' = state /\ instr' = instr
      BY <1>2 DEF NextPpuOnly, cpuVars
    <2>3. /\ ppu'.nmi_enable = ppu.nmi_enable
          /\ (ppu'.nmi = 1 /\ ppu.nmi_enable)
                \/ ppu'.nmi = IF ppu.nmi < PpuP!Ripe THEN ppu.nmi + 1 ELSE ppu.nmi
      BY <2>1, Typed, NmiDot
    <2>4. ppu.nmi \in 1..4 /\ cpu_cycle_counter \in 1..3
      BY Typed
    <2>5. NoNmiWhileDisabled'
      <3> SUFFICES ASSUME ppu'.nmi # 4, ~ppu'.nmi_enable
                   PROVE  state \in {"WritingResultDummy", "WritingResult"}
                              /\ instr.op = "Modify"
        BY <2>2 DEF NoNmiWhileDisabled
      <3>1. ppu.nmi # 4 /\ ~ppu.nmi_enable
        BY <2>3, <2>4
      <3> QED
        BY <3>1 DEF IInv, NoNmiWhileDisabled
    <2>6. missed' = IF ppu'.nmi = 1 \/ ppu'.nmi = 4 THEN 0 ELSE missed
      BY <1>2 DEF NextPpuOnly, CountMissed, JustRaised
    <2>7. MissedInv'
      <3>1. missed \in {0, 1} /\ (missed = 1 => ppu.nmi \in {2, 3})
        BY DEF IInv, MissedInv
      <3>2. ppu.nmi \in {2, 3} => ppu'.nmi \in {1, 3}
        BY <2>3
      <3> QED
        BY <2>6, <3>1, <3>2 DEF MissedInv
    <2> QED
      BY <2>5, <2>7
  <1> QED
    BY <1>1, <1>2 DEF Next

LEMMA InitHolds == Init => IInv
  <1> SUFFICES ASSUME Init PROVE IInv
    OBVIOUS
  <1>1. CpuP!Init /\ PpuP!Init /\ missed = 0
    BY SameCpuTypes, SamePpuTypes DEF Init
  <1>2. CpuP!IInv /\ PpuP!IInv
    BY <1>1, Assumptions, CpuP!InitIInv, PpuP!InitFacts
  <1>3. ppu.nmi = Ppu!NoNmi
    BY <1>1 DEF PpuP!Init, PpuP!NoNmi, Ppu!NoNmi
  <1> QED
    BY <1>1, <1>2, <1>3 DEF IInv, NoNmiWhileDisabled, MissedInv

LEMMA StepKeepsIInv == IInv /\ [Next]_vars => IInv'
  <1> SUFFICES ASSUME IInv, [Next]_vars PROVE IInv'
    OBVIOUS
  <1>1. CASE Next
    <2>1. PpuP!Next /\ (CpuP!Next \/ UNCHANGED CpuP!vars)
      BY <1>1, StepImplements
    <2>2. PpuP!IInv'
      BY <2>1, Assumptions, PpuP!StepKeepsIInv DEF IInv
    <2>3. CpuP!IInv'
      <3>1. CASE CpuP!Next
        BY <3>1, Assumptions, CpuP!ClockKeepsIInv DEF IInv, CpuP!Next
      <3>2. CASE UNCHANGED CpuP!vars
        BY <3>2, Assumptions, CpuP!StutterKeepsIInv DEF IInv
      <3> QED
        BY <2>1, <3>1, <3>2
    <2> QED
      BY <1>1, <2>2, <2>3, NmiStep DEF IInv
  <1>2. CASE UNCHANGED vars
    <2>1. UNCHANGED CpuP!vars /\ UNCHANGED PpuP!vars /\ UNCHANGED missed
      BY <1>2 DEF vars, cpuVars, CpuP!vars, PpuP!vars
    <2>2. CpuP!IInv' /\ PpuP!IInv'
      BY <2>1, Assumptions, CpuP!StutterKeepsIInv, PpuP!StutterKeepsIInv DEF IInv
    <2>3. NoNmiWhileDisabled' /\ MissedInv'
      BY <1>2 DEF IInv, vars, cpuVars, NoNmiWhileDisabled, MissedInv
    <2> QED
      BY <2>2, <2>3 DEF IInv
  <1> QED
    BY <1>1, <1>2

-----------------------------------------------------------------------------
(* Theorems *)

\* The invariants of both parts hold in the machine they make up, and those of their
\* exchange (Cpu::next).
THEOREM Inductive == Spec => []IInv
  BY InitHolds, StepKeepsIInv, PTL DEF Spec

\* Every step of the machine is one of the CPU's or leaves it alone: what is proved of the
\* sequencer with interrupt lines that do anything holds with the PPU's.
THEOREM ImplementsSequencer == Spec => CpuP!Spec
  <1>1. Init => CpuP!Init
    BY SameCpuTypes DEF Init
  <1>2. IInv /\ [Next]_vars => [CpuP!Next]_CpuP!vars
    BY StepImplements DEF vars, cpuVars, CpuP!vars
  <1> QED
    BY <1>1, <1>2, Inductive, PTL DEF Spec, CpuP!Spec

\* And every step is one of the PPU's: what is proved of it with any accesses holds with the
\* sequencer's.
THEOREM ImplementsPpu == Spec => PpuP!Spec
  <1>1. Init => PpuP!Init
    BY SamePpuTypes DEF Init
  <1>2. IInv /\ [Next]_vars => [PpuP!Next]_PpuP!vars
    BY StepImplements DEF vars, PpuP!vars
  <1> QED
    BY <1>1, <1>2, Inductive, PTL DEF Spec, PpuP!Spec

\* CPU and PPU keep their types while they run each other's accesses and polls.
THEOREM TypeCorrect == Spec => []TypeOK
  <1>1. IInv => TypeOK
    <2> SUFFICES ASSUME IInv PROVE TypeOK
      OBVIOUS
    <2>1. Cpu!TypeOK /\ Ppu!TypeOK
      BY SameCpuTypes, SamePpuTypes DEF IInv, CpuP!IInv, PpuP!IInv
    <2> QED
      BY <2>1 DEF IInv, MissedInv, TypeOK
  <1> QED
    BY <1>1, Inductive, PTL

\* An NMI waits while NMI is disabled only inside a read-modify-write, for every program and
\* every frame.
THEOREM NoNmiStaysDisabled == Spec => []NoNmiWhileDisabled
  <1>1. IInv => NoNmiWhileDisabled
    BY DEF IInv
  <1> QED
    BY <1>1, Inductive, PTL

\* The three dots of check_ppu_nmi hide an NMI from one poll at most, in every alignment of the
\* CPU with every frame.
THEOREM MissedOnce == Spec => []NmiMissedAtMostOnce
  <1>1. IInv => NmiMissedAtMostOnce
    BY DEF IInv, MissedInv, NmiMissedAtMostOnce
  <1> QED
    BY <1>1, Inductive, PTL

\* Whatever accesses race with the frame, every instruction of the machine takes its documented
\* cycles and consumes its bytes, nothing polled is overlooked, a DMA stays aligned and an IRQ
\* that is masked is served only in the latency of the disable flag (Cpu::clock under Cpu::next).
THEOREM SequencerCorrect ==
    Spec => [](/\ CpuP!CycleExact /\ CpuP!ConsumesItsBytes /\ CpuP!NothingOverlooked
               /\ CpuP!DmaAligned /\ CpuP!MaskedIrqIsLate)
  <1>1. /\ CpuP!Spec => []CpuP!CycleExact
        /\ CpuP!Spec => []CpuP!ConsumesItsBytes
        /\ CpuP!Spec => []CpuP!NothingOverlooked
        /\ CpuP!Spec => []CpuP!DmaAligned
        /\ CpuP!Spec => []CpuP!MaskedIrqIsLate
    BY Assumptions, CpuP!CyclesCorrect, CpuP!BytesCorrect, CpuP!NothingIsOverlooked,
       CpuP!DmaStaysAligned, CpuP!MaskingCorrect
  <1> QED
    BY <1>1, ImplementsSequencer, PTL

\* Whatever the CPU runs, the vertical blank flag is up only in its window, a fresh NMI has a
\* cause, and NMIs are exactly the edges of flag-and-enable (Ppu::next under Cpu::next).
THEOREM TimingCorrect ==
    Spec => /\ [](PpuP!VBlankWindow /\ PpuP!FreshNmiHasCause)
            /\ PpuP!ImplementsNmiLine /\ PpuP!NeverTwoShortFrames
  <1>1. /\ PpuP!Spec => []PpuP!VBlankWindow
        /\ PpuP!Spec => []PpuP!FreshNmiHasCause
        /\ PpuP!Spec => PpuP!ImplementsNmiLine
        /\ PpuP!Spec => PpuP!NeverTwoShortFrames
    BY Assumptions, PpuP!VBlankCorrect, PpuP!FreshNmiCorrect, PpuP!NmiIsTheLinesEdges,
       PpuP!ShortFramesAlternate
  <1> QED
    BY <1>1, ImplementsPpu, PTL

=============================================================================
