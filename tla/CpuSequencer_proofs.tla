------------------------- MODULE CpuSequencer_proofs -------------------------
(***************************************************************************)
(* Proofs about CpuSequencer, for every program, page size and set of       *)
(* targets: the type invariant and the safety properties that the run of    *)
(* MCCpuSequencer checks.                                                   *)
(*                                                                          *)
(* The properties speak of the cycle in which a unit of work ends.  IInv    *)
(* strengthens them to every cycle: what each state of the sequencer says   *)
(* about the instruction in flight, the cycles gone and the bytes consumed. *)
(***************************************************************************)
EXTENDS CpuSequencer, TLAPS

-----------------------------------------------------------------------------
(* The inductive invariant *)

\* Outside the one state between an early poll and the end of its instruction no
\* interrupt is pending.
PollInv ==
    polled_interrupt # "None" =>
        state = "PushRegisterOnStack" /\ (polled_interrupt = "IRQ" => ~irq_disable)

TriggerInv ==
    trigger_dma =>
        /\ dma_offset = 0
        /\ \/ state \in InterruptStates /\ servicing # "IRQ_BRK"
           \/ state \in {"WritingResultDummy", "WritingResult"} /\ instr.target = "OAMDMA"

\* The bytes moved, the parity and the cycles gone of a DMA.
DmaInv ==
    /\ state \in {"OddCpuCycle", "ReadCycle", "WriteCycle"} => unit = "dma"
    /\ state = "DummyCycle"  => dma_offset = 0
    /\ state = "OddCpuCycle" => dma_offset = 0 /\ ~odd /\ elapsed = 1
    /\ state = "ReadCycle"   =>
          /\ odd /\ dma_offset < PageSize
          /\ elapsed \in {2 * dma_offset + 1, 2 * dma_offset + 2}
    /\ state = "WriteCycle"  =>
          /\ ~odd /\ dma_offset > 0
          /\ elapsed \in {2 * dma_offset, 2 * dma_offset + 1}
    /\ state \in Boundary /\ unit = "dma" =>
          /\ odd /\ dma_offset = PageSize
          /\ elapsed \in {2 * PageSize + 1, 2 * PageSize + 2}

\* An interrupt sequence has gone as far as its state says; BRK joins it after two cycles.
InterruptInv ==
    /\ state \in InterruptStates \ {"InternalOps1"} =>
          \/ unit = "interrupt"
          \/ unit = "instruction" /\ instr.op = "BRK" /\ state # "InternalOps2"
    /\ state = "InternalOps2"       => elapsed = 1
    /\ state = "PushPCH"            => elapsed = 2
    /\ state = "PushPCL"            => elapsed = 3
    /\ state = "PushStatusRegister" => elapsed = 4
    /\ state = "PullIRQVecHigh"     => elapsed = 5
    /\ state = "PullIRQVecLow"      => elapsed = 6
    /\ state \in Boundary /\ unit = "interrupt" => elapsed = 7

Inside == CpuStates \ {"FetchOpcode"}

\* Up to the execution of the instruction.
OperandInv ==
    /\ state = "ThrowawayRead" =>
          instr.mode \in {"Accumulator", "Implied"} /\ elapsed = 1 /\ consumed = 1
    /\ state = "ReadingOperand" =>
          /\ instr.mode \notin {"Accumulator", "Implied"}
          /\ filled <= FillCycles(instr)
          /\ checked => filled = FillCycles(instr) /\ ReadsTwice(instr)
          /\ elapsed = 1 + filled + (IF checked THEN 1 ELSE 0)
          /\ consumed = 1 + (IF filled < OperandBytes(instr.mode)
                             THEN filled ELSE OperandBytes(instr.mode))

\* The operations that pass through a state, and the cycles they have taken there.
ExecutedInv ==
    /\ state = "BranchCrossesPageBoundary" =>
          instr.op = "Branch" /\ instr.flag /\ instr.crosses /\ elapsed = 2
    /\ state = "SetProgramCounter" =>
          \/ instr.op = "JSR" /\ elapsed = 5
          \/ instr.op = "Branch" /\ instr.flag /\ elapsed = IF instr.crosses THEN 3 ELSE 2
    /\ state = "PushRegisterOnStack" => instr.op = "Push" /\ elapsed = 2
    /\ state = "PreIncrementStackPointer" =>
          instr.op \in {"PLA", "PLP", "RTI", "RTS"} /\ elapsed = 2
    /\ state = "PullRegisterFromStack" =>
          instr.op \in {"PLA", "PLP", "RTI"} /\ elapsed = 3
    /\ state = "PullPCLFromStack" =>
          instr.op \in {"RTI", "RTS"} /\ elapsed = IF instr.op = "RTI" THEN 4 ELSE 3
    /\ state = "PullPCHFromStack" =>
          instr.op \in {"RTI", "RTS"} /\ elapsed = IF instr.op = "RTI" THEN 5 ELSE 4
    /\ state = "IncrementProgramCounter" => instr.op = "RTS" /\ elapsed = 5
    /\ state = "WritePCHToStack" => instr.op = "JSR" /\ elapsed = 3
    /\ state = "WritePCLToStack" => instr.op = "JSR" /\ elapsed = 4
    /\ state = "WritingResultDummy" =>
          instr.op = "Modify" /\ elapsed = InstructionCycles(instr) - 2
    /\ state = "WritingResult" =>
          instr.op \in {"Store", "Modify"} /\ elapsed = InstructionCycles(instr) - 1

InstructionInv ==
    /\ state \in Inside => unit = "instruction"
    /\ state \notin {"ThrowawayRead", "ReadingOperand", "Panicked"} /\ unit = "instruction" =>
          consumed = InstructionLength(instr)
    /\ state \in Boundary /\ unit = "instruction" => elapsed = InstructionCycles(instr)

\* An IRQ is taken with the disable flag up only when SEI or PLP has just raised it.
LateInv ==
    state = "InternalOps1" /\ servicing = "IRQ" /\ irq_disable =>
        unit = "instruction" /\ instr.op \in {"SEI", "PLP"}

IInv ==
    /\ TypeOK
    /\ PollInv
    /\ TriggerInv
    /\ DmaInv
    /\ InterruptInv
    /\ OperandInv
    /\ ExecutedInv
    /\ InstructionInv
    /\ LateInv

-----------------------------------------------------------------------------
(* What the tables say of every instruction *)

ImpliedOperations == {"Inherent", "CLI", "SEI", "BRK", "RTI", "RTS", "Push", "PLA", "PLP"}

\* The fields of an instruction have their types.
LEMMA InstructionTyped ==
    ASSUME NEW i \in Instructions
    PROVE  /\ i \in Instruction
           /\ i.op \in Operations /\ i.mode \in Modes
           /\ i.target \in Targets /\ i.stray \in Targets
           /\ i.crosses \in BOOLEAN /\ i.flag \in BOOLEAN
  BY DEF Instructions, Instruction

\* Which operation goes with which addressing mode.
LEMMA OperationMode ==
    ASSUME NEW i \in Instructions
    PROVE  /\ i.op \in {"Store", "Modify"} => i.mode \in DataModes
           /\ i.op = "Load" => i.mode \in DataModes \cup {"Immediate"}
           /\ i.op = "Branch" <=> i.mode = "Relative"
           /\ i.op = "JMP" => i.mode \in {"Absolute", "Indirect"}
           /\ i.op = "JSR" => i.mode = "Absolute"
           /\ i.op \in ImpliedOperations => i.mode \in {"Accumulator", "Implied"}
           /\ i.op = "Unimplemented" =>
                 i.mode \in {"Implied", "Immediate", "AbsoluteIndexed", "IndirectYIndexed"}
           /\ i.crosses => i.mode \in IndexedModes \/ (i.op = "Branch" /\ i.flag)
  <1>1. <<i.op, i.mode>> \in OPCODE_TABLE
    BY DEF Instructions
  <1>2. i.crosses => i.mode \in IndexedModes \/ (i.op = "Branch" /\ i.flag)
    BY DEF Instructions
  <1> QED
    BY <1>1, <1>2 DEF OPCODE_TABLE, DataModes, ImpliedOperations

\* The cycles up to and including the one that executes the instruction.
CyclesToExecute(i) ==
    IF i.mode \in {"Accumulator", "Implied"} THEN 2
    ELSE 2 + FillCycles(i) + (IF ReadsTwice(i) THEN 1 ELSE 0)

LEMMA OperandTyped ==
    ASSUME NEW i \in Instructions
    PROVE  /\ OperandBytes(i.mode) \in 0..2
           /\ FillCycles(i) \in 0..4
           /\ ReadsTwice(i) \in BOOLEAN
           /\ InstructionCycles(i) \in 2..8
           /\ InstructionLength(i) \in 1..3
  <1>1. i.op \in Operations /\ i.mode \in Modes /\ i.crosses \in BOOLEAN /\ i.flag \in BOOLEAN
    BY InstructionTyped
  <1>2. OperandBytes(i.mode) \in 0..2
    BY <1>1 DEF OperandBytes, Modes
  <1>3. FillCycles(i) \in 0..4
    BY <1>1 DEF FillCycles, Modes
  <1>4. ReadsTwice(i) \in BOOLEAN
    BY DEF ReadsTwice
  <1>5. InstructionCycles(i) \in 2..8
    <2>1. CASE i.op \in {"Branch", "JMP", "JSR", "RTI", "RTS", "BRK", "Push", "PLA", "PLP"}
      BY <2>1 DEF InstructionCycles
    <2>2. CASE i.op \notin {"Branch", "JMP", "JSR", "RTI", "RTS", "BRK", "Push", "PLA", "PLP"}
      <3>1. i.mode \in Modes \ {"Relative", "Indirect"}
        BY <1>1, <2>2, OperationMode DEF Operations, DataModes, ImpliedOperations
      <3>2. ReadCycles(i.mode) \in 2..6
        BY <3>1 DEF ReadCycles, Modes
      <3>3. CarryCycle(i) => i.mode # "IndirectXIndexed"
        BY DEF CarryCycle, IndexedModes
      <3>4. i.mode = "IndirectXIndexed" \/ ReadCycles(i.mode) \in 2..5
        BY <3>1 DEF ReadCycles, Modes
      <3> QED
        BY <2>2, <3>2, <3>3, <3>4 DEF InstructionCycles
    <2> QED
      BY <2>1, <2>2
  <1>6. InstructionLength(i) \in 1..3
    BY <1>2 DEF InstructionLength
  <1> QED
    BY <1>2, <1>3, <1>4, <1>5, <1>6

\* The last cycle of an operand consumes its last byte.
LEMMA OperandConsumed ==
    ASSUME NEW i \in Instructions, i.mode \notin {"Accumulator", "Implied"}
    PROVE  /\ OperandBytes(i.mode) >= 1
           /\ FillCycles(i) + 1 >= OperandBytes(i.mode)
  BY InstructionTyped, OperationMode DEF OperandBytes, FillCycles, Modes, DataModes

\* The cycles left once an instruction is executed.
LEMMA CyclesLeft ==
    ASSUME NEW i \in Instructions
    PROVE  /\ i.op \in {"Load", "Inherent", "CLI", "SEI", "JMP"} =>
                 InstructionCycles(i) = CyclesToExecute(i)
           /\ i.op = "Store"  => InstructionCycles(i) = CyclesToExecute(i) + 1
           /\ i.op = "Modify" => InstructionCycles(i) = CyclesToExecute(i) + 2
           /\ i.op = "JSR"    => CyclesToExecute(i) = 3
           /\ i.op = "Branch" => FillCycles(i) = 0 /\ ~ReadsTwice(i)
           /\ i.op \in ImpliedOperations => CyclesToExecute(i) = 2
  <1>1. CASE i.op = "Load"
    BY <1>1, InstructionTyped, OperationMode
    DEF InstructionCycles, ReadCycles, CarryCycle, IndexedModes, CyclesToExecute, FillCycles,
        ReadsTwice, DataModes, ImpliedOperations
  <1>2. CASE i.op = "Store"
    BY <1>2, InstructionTyped, OperationMode
    DEF InstructionCycles, ReadCycles, CarryCycle, IndexedModes, CyclesToExecute, FillCycles,
        ReadsTwice, DataModes, ImpliedOperations
  <1>3. CASE i.op = "Modify"
    BY <1>3, InstructionTyped, OperationMode
    DEF InstructionCycles, ReadCycles, CarryCycle, IndexedModes, CyclesToExecute, FillCycles,
        ReadsTwice, DataModes, ImpliedOperations
  <1>4. CASE i.op = "JMP"
    BY <1>4, InstructionTyped, OperationMode
    DEF InstructionCycles, CyclesToExecute, FillCycles, ReadsTwice, ImpliedOperations
  <1>5. CASE i.op = "JSR"
    BY <1>5, InstructionTyped, OperationMode
    DEF InstructionCycles, CyclesToExecute, FillCycles, ReadsTwice, ImpliedOperations
  <1>6. CASE i.op = "Branch"
    BY <1>6, InstructionTyped, OperationMode
    DEF InstructionCycles, CyclesToExecute, FillCycles, ReadsTwice, ImpliedOperations
  <1>7. CASE i.op \in ImpliedOperations
    BY <1>7, InstructionTyped, OperationMode
    DEF InstructionCycles, ReadCycles, CarryCycle, IndexedModes, CyclesToExecute,
        ReadsTwice, ImpliedOperations
  <1>8. CASE i.op = "Unimplemented"
    BY <1>8 DEF ImpliedOperations
  <1> QED
    BY <1>1, <1>2, <1>3, <1>4, <1>5, <1>6, <1>7, <1>8, InstructionTyped
    DEF Operations, ImpliedOperations

-----------------------------------------------------------------------------
(* What every cycle does *)

\* The accesses of a cycle have their types.
LEMMA IdleTyped ==
    /\ Idle \in Access
    /\ [Idle EXCEPT !.poll = "clear"] \in Access
    /\ [Idle EXCEPT !.poll = "keep"] \in Access
  BY TargetsAssumption DEF Access, Idle

LEMMA AccessTyped ==
    ASSUME NEW r \in Targets, NEW w \in Targets
    PROVE  /\ [Idle EXCEPT !.read = r] \in Access
           /\ [Idle EXCEPT !.read = r, !.poll = "clear"] \in Access
           /\ [Idle EXCEPT !.read = r, !.write = w, !.dummy = TRUE] \in Access
           /\ [Idle EXCEPT !.poll = "clear", !.write = w] \in Access
  BY TargetsAssumption DEF Access, Idle

\* The history of a cycle.
LEMMA CycleCounted ==
    ASSUME TypeOK, CountCycle
    PROVE  /\ odd' = ~odd
           /\ odd' \in BOOLEAN /\ masked' \in BOOLEAN /\ elapsed' \in 0..ElapsedLimit
           /\ unit' \in {"reset", "instruction", "interrupt", "dma"}
           /\ state \in Boundary => elapsed' = 1
           /\ state \notin Boundary => unit' = unit
           /\ state \notin Boundary /\ elapsed < 2 * PageSize + 10 => elapsed' = elapsed + 1
           /\ state = "FetchOpcode" => unit' = "instruction"
           /\ state = "InternalOps1" => unit' = "interrupt"
           /\ state = "DummyCycle" => unit' = "dma"
  BY PageSizeAssumption DEF TypeOK, CountCycle, ElapsedLimit, Boundary


LEMMA InitIInv == Init => IInv
  <1> SUFFICES ASSUME Init PROVE IInv
    OBVIOUS
  <1>1. SomeInstruction \in Instructions
    BY TargetsAssumption DEF SomeInstruction, Instructions, Instruction, Operations, Modes,
       OPCODE_TABLE
  <1>2. TypeOK
    <2>1. state \in CpuStates /\ servicing \in Interrupts
      BY DEF Init, CpuStates, Interrupts
    <2>2. /\ polled_interrupt \in {"None", "NMI", "IRQ"}
          /\ unit \in {"reset", "instruction", "interrupt", "dma"}
          /\ {checked, irq_disable, trigger_dma, dma_top, odd, masked} \subseteq BOOLEAN
      BY DEF Init
    <2>3. /\ dma_offset \in 0..PageSize /\ elapsed \in 0..ElapsedLimit
          /\ filled \in 0..4 /\ consumed \in 0..3
      BY PageSizeAssumption DEF Init, ElapsedLimit
    <2>4. bus \in Access /\ instr \in Instructions
      BY <1>1, IdleTyped DEF Init
    <2> QED
      BY <2>1, <2>2, <2>3, <2>4 DEF TypeOK
  <1>3. PollInv /\ TriggerInv /\ LateInv
    BY DEF Init, PollInv, TriggerInv, LateInv
  <1>4. DmaInv /\ InterruptInv
    BY DEF Init, DmaInv, InterruptInv, InterruptStates
  <1>5. OperandInv /\ ExecutedInv /\ InstructionInv
    BY DEF Init, OperandInv, ExecutedInv, InstructionInv, Inside
  <1> QED
    BY <1>2, <1>3, <1>4, <1>5 DEF IInv

\* What a poll may leave in polled_interrupt.
LEMMA PolledTyped ==
    ASSUME IInv, state # "PushRegisterOnStack", NEW nmi \in BOOLEAN, NEW irq \in BOOLEAN
    PROVE  /\ Polled(nmi, irq) \in {"None", "NMI", "IRQ"}
           /\ Polled(nmi, irq) = "IRQ" => ~irq_disable
           /\ polled_interrupt = "None"
  BY DEF IInv, TypeOK, PollInv, Polled

\* A cycle that ends a unit of work keeps the invariant when the unit has taken its cycles
\* and its bytes, a DMA is triggered with its address, and a pending IRQ was not masked when
\* it was polled.
LEMMA EndUnitKeepsIInv ==
    ASSUME IInv, CountCycle, state \notin Boundary,
           NEW pending \in {"None", "NMI", "IRQ"}, NEW dma \in BOOLEAN, EndUnit(pending, dma),
           pending = "None" => polled_interrupt = "None",
           ~dma => ~trigger_dma,
           dma => dma_offset' = 0,
           instr' \in Instructions, filled' \in 0..4, checked' \in BOOLEAN, consumed' \in 0..3,
           irq_disable' \in BOOLEAN, dma_offset' \in 0..PageSize, dma_top' \in BOOLEAN,
           bus' \in Access,
           unit = "instruction" =>
               elapsed' = InstructionCycles(instr') /\ consumed' = InstructionLength(instr'),
           unit = "interrupt" => elapsed' = 7,
           unit = "dma" => /\ odd' /\ dma_offset' = PageSize
                           /\ elapsed' \in {2 * PageSize + 1, 2 * PageSize + 2},
           pending = "IRQ" /\ irq_disable' =>
               unit = "instruction" /\ instr'.op \in {"SEI", "PLP"}
    PROVE  IInv'
  <1>1. /\ unit' = unit /\ unit' \in {"reset", "instruction", "interrupt", "dma"}
        /\ odd' \in BOOLEAN /\ masked' \in BOOLEAN /\ elapsed' \in 0..ElapsedLimit
    BY CycleCounted DEF IInv
  <1>2. /\ state' \in Boundary
        /\ polled_interrupt' = "None"
        /\ trigger_dma' \in BOOLEAN /\ (trigger_dma' => dma)
        /\ state' = "InternalOps1" => servicing' = pending /\ pending # "None"
        /\ state' # "InternalOps1" => servicing' = servicing /\ ~trigger_dma'
        /\ state' = "DummyCycle" => dma
    <2>1. trigger_dma \in BOOLEAN
      BY DEF IInv, TypeOK
    <2>2. CASE StartInterrupt(pending, dma)
      BY <2>2 DEF StartInterrupt, Boundary
    <2>3. CASE StartDma(pending, dma)
      BY <2>3 DEF StartDma, Boundary
    <2>4. CASE NextInstruction(pending, dma)
      BY <2>1, <2>4 DEF NextInstruction, Boundary
    <2> QED
      BY <2>2, <2>3, <2>4 DEF EndUnit
  <1>3. servicing' \in Interrupts
    BY <1>2 DEF IInv, TypeOK, Interrupts, Boundary
  <1>4. state' \in CpuStates \cup InterruptStates \cup DmaStates
    BY <1>2 DEF Boundary, CpuStates, InterruptStates, DmaStates
  <1>5. TypeOK'
    BY <1>1, <1>2, <1>3, <1>4 DEF TypeOK
  <1>6. PollInv' /\ LateInv'
    BY <1>1, <1>2 DEF PollInv, LateInv
  <1>7. TriggerInv'
    BY <1>2 DEF TriggerInv, InterruptStates
  <1>8. DmaInv'
    BY <1>1, <1>2 DEF DmaInv, Boundary
  <1>9. InterruptInv' /\ OperandInv' /\ ExecutedInv'
    BY <1>1, <1>2 DEF InterruptInv, OperandInv, ExecutedInv, Boundary, InterruptStates
  <1>10. InstructionInv'
    BY <1>1, <1>2 DEF InstructionInv, Boundary, Inside, CpuStates
  <1> QED
    BY <1>5, <1>6, <1>7, <1>8, <1>9, <1>10 DEF IInv

\* A write to a register leaves a DMA address with its type.
LEMMA DmaAddressTyped ==
    ASSUME IInv, NEW target, NEW top \in BOOLEAN, SetDmaAddress(target, top)
    PROVE  /\ dma_offset' \in 0..PageSize /\ dma_top' \in BOOLEAN
           /\ target = "OAMDMA" => dma_offset' = 0
           /\ target # "OAMDMA" => dma_offset' = dma_offset
  <1>1. /\ dma_offset \in 0..PageSize /\ dma_top \in BOOLEAN
    BY DEF IInv, TypeOK
  <1>2. CASE target = "OAMDMA"
    <2>1. dma_offset' = 0 /\ dma_top' = top
      BY <1>2 DEF SetDmaAddress
    <2> QED
      BY <1>2, <2>1, PageSizeAssumption
  <1>3. CASE target # "OAMDMA"
    <2>1. dma_offset' = dma_offset /\ dma_top' = dma_top
      BY <1>3 DEF SetDmaAddress, dmaVars
    <2> QED
      BY <1>1, <1>3, <2>1
  <1> QED
    BY <1>2, <1>3

-----------------------------------------------------------------------------
(* Opcode::execute *)

\* The cycle that executes an instruction keeps the invariant, if the instruction has
\* consumed its bytes and taken its cycles by then.
LEMMA ExecuteKeepsIInv ==
    ASSUME IInv, CountCycle, NEW read \in Targets, NEW nmi \in BOOLEAN, NEW irq \in BOOLEAN,
           Execute(read, nmi, irq),
           state \in {"ThrowawayRead", "ReadingOperand", "BranchCrossesPageBoundary"},
           instr' = instr, filled' = filled, checked' = checked,
           consumed' = InstructionLength(instr),
           instr.op # "Branch" => elapsed + 1 = CyclesToExecute(instr),
           instr.op = "Branch" =>
               instr.flag /\ elapsed + 1 = IF instr.crosses THEN 3 ELSE 2
    PROVE  IInv'
  <1>1. /\ instr \in Instructions /\ filled' \in 0..4 /\ checked' \in BOOLEAN
        /\ consumed' \in 0..3 /\ instr.target \in Targets
    BY OperandTyped, InstructionTyped DEF IInv, TypeOK
  <1>2. /\ state \notin Boundary /\ unit = "instruction"
        /\ polled_interrupt = "None" /\ ~trigger_dma
    BY DEF IInv, InstructionInv, Inside, CpuStates, Boundary, PollInv, TriggerInv,
       InterruptStates
  <1>3. elapsed + 1 \in 2..7
    BY <1>1, OperandTyped DEF CyclesToExecute
  <1>4. unit' = "instruction" /\ elapsed' = elapsed + 1 /\ elapsed' \in 0..ElapsedLimit
        /\ odd' \in BOOLEAN /\ masked' \in BOOLEAN
    <2>1. elapsed \in 0..6 /\ PageSize \in Nat
      BY <1>3, PageSizeAssumption DEF IInv, TypeOK
    <2>2. elapsed < 2 * PageSize + 10
      BY <2>1
    <2> QED
      BY <1>2, <2>2, CycleCounted DEF IInv
  <1>5. CASE ExecuteAndFinish(read, nmi, irq)
    <2>1. /\ Polled(nmi, irq) \in {"None", "NMI", "IRQ"}
          /\ Polled(nmi, irq) = "IRQ" => ~irq_disable
      BY PolledTyped
    <2>2. /\ irq_disable' \in BOOLEAN
          /\ irq_disable' => irq_disable \/ instr.op \in {"SEI", "PLP"}
      BY <1>5 DEF ExecuteAndFinish, IInv, TypeOK
    <2>3. /\ dma_offset' \in 0..PageSize /\ dma_top' \in BOOLEAN /\ bus' \in Access
          /\ EndUnit(Polled(nmi, irq), trigger_dma) /\ trigger_dma \in BOOLEAN
      BY <1>5, AccessTyped, TargetsAssumption DEF ExecuteAndFinish, IInv, TypeOK, dmaVars
    <2>4. elapsed' = InstructionCycles(instr')
      BY <1>1, <1>4, <1>5, CyclesLeft DEF ExecuteAndFinish
    <2> QED
      BY <1>1, <1>2, <1>4, <2>1, <2>2, <2>3, <2>4, EndUnitKeepsIInv
  <1>6. CASE ExecuteModify(read)
    <2>1. /\ state' = "WritingResultDummy" /\ polled_interrupt' = "None"
          /\ trigger_dma' \in BOOLEAN
          /\ trigger_dma' => instr'.target = "OAMDMA" /\ dma_offset' = 0
          /\ instr'.op = "Modify"
      BY <1>2, <1>6 DEF ExecuteModify, Continue, TriggerDma, SetDmaAddress
    <2>2. /\ dma_offset' \in 0..PageSize /\ dma_top' \in BOOLEAN
      BY <1>6, DmaAddressTyped DEF ExecuteModify
    <2>3. bus' \in Access /\ servicing' \in Interrupts /\ irq_disable' \in BOOLEAN
      BY <1>1, <1>6, AccessTyped DEF ExecuteModify, IInv, TypeOK
    <2>4. TypeOK'
      BY <1>1, <1>4, <2>1, <2>2, <2>3 DEF TypeOK, CpuStates
    <2>5. elapsed' = InstructionCycles(instr') - 2
      BY <1>1, <1>4, <2>1, CyclesLeft, OperandTyped
    <2> QED
      BY <1>4, <2>1, <2>4, <2>5 DEF IInv, PollInv, TriggerInv, DmaInv, InterruptInv,
         OperandInv, ExecutedInv, InstructionInv, LateInv, Boundary, InterruptStates
  <1>7. CASE ExecuteBreak
    <2>1. /\ state' = "PushPCH" /\ polled_interrupt' = "None" /\ ~trigger_dma'
          /\ servicing' = "IRQ_BRK" /\ instr'.op = "BRK"
          /\ trigger_dma' \in BOOLEAN
      BY <1>2, <1>7 DEF ExecuteBreak, Continue, IInv, TypeOK
    <2>2. /\ dma_offset' \in 0..PageSize /\ dma_top' \in BOOLEAN /\ bus' \in Access
          /\ irq_disable' \in BOOLEAN
      BY <1>7, IdleTyped DEF ExecuteBreak, IInv, TypeOK, dmaVars
    <2>3. TypeOK'
      BY <1>1, <1>4, <2>1, <2>2 DEF TypeOK, InterruptStates, Interrupts
    <2>4. elapsed' = 2
      BY <1>1, <1>4, <2>1, CyclesLeft DEF ImpliedOperations
    <2> QED
      BY <1>4, <2>1, <2>3, <2>4 DEF IInv, PollInv, TriggerInv, DmaInv, InterruptInv,
         OperandInv, ExecutedInv, InstructionInv, LateInv, Boundary, Inside, CpuStates
  <1>8. CASE ExecutePush(nmi, irq)
    <2>1. /\ state' = "PushRegisterOnStack" /\ ~trigger_dma' /\ trigger_dma' \in BOOLEAN
          /\ polled_interrupt' = Polled(nmi, irq) /\ instr'.op = "Push"
          /\ irq_disable' = irq_disable /\ servicing' = servicing
      BY <1>2, <1>8 DEF ExecutePush, Continue, IInv, TypeOK
    <2>2. /\ polled_interrupt' \in {"None", "NMI", "IRQ"}
          /\ polled_interrupt' = "IRQ" => ~irq_disable'
      BY <2>1, PolledTyped
    <2>3. /\ dma_offset' \in 0..PageSize /\ dma_top' \in BOOLEAN /\ bus' \in Access
          /\ irq_disable' \in BOOLEAN /\ servicing' \in Interrupts
      BY <1>8, <2>1, IdleTyped DEF ExecutePush, IInv, TypeOK, dmaVars
    <2>4. TypeOK'
      BY <1>1, <1>4, <2>1, <2>2, <2>3 DEF TypeOK, CpuStates
    <2>5. elapsed' = 2
      BY <1>1, <1>4, <2>1, CyclesLeft DEF ImpliedOperations
    <2> QED
      BY <1>4, <2>1, <2>2, <2>4, <2>5 DEF IInv, PollInv, TriggerInv, DmaInv, InterruptInv,
         OperandInv, ExecutedInv, InstructionInv, LateInv, Boundary, InterruptStates
  <1>9. CASE ExecuteAndContinue(read)
    <2>1. /\ instr'.op \in {"Store", "Branch", "JSR", "PLA", "PLP", "RTI", "RTS"}
          /\ polled_interrupt' = "None" /\ ~trigger_dma' /\ trigger_dma' \in BOOLEAN
          /\ state' = StateAfterExecute(instr'.op)
      BY <1>2, <1>9 DEF ExecuteAndContinue, Continue, IInv, TypeOK
    <2>2. /\ instr'.op = "Store" => state' = "WritingResult"
          /\ instr'.op = "Branch" => state' = "SetProgramCounter"
          /\ instr'.op = "JSR" => state' = "WritePCHToStack"
          /\ instr'.op \in {"PLA", "PLP", "RTI", "RTS"} => state' = "PreIncrementStackPointer"
          /\ state' \in {"WritingResult", "SetProgramCounter", "WritePCHToStack",
                         "PreIncrementStackPointer"}
      BY <2>1, SMTT(30) DEF StateAfterExecute
    <2>3. /\ dma_offset' \in 0..PageSize /\ dma_top' \in BOOLEAN /\ bus' \in Access
          /\ irq_disable' \in BOOLEAN /\ servicing' \in Interrupts
      BY <1>9, AccessTyped DEF ExecuteAndContinue, IInv, TypeOK, dmaVars
    <2>4. TypeOK'
      BY <1>1, <1>4, <2>1, <2>2, <2>3 DEF TypeOK, CpuStates
    <2>5. /\ instr'.op = "Store" => elapsed' = InstructionCycles(instr') - 1
          /\ instr'.op = "Branch" => instr'.flag /\ elapsed' = IF instr'.crosses THEN 3 ELSE 2
          /\ instr'.op = "JSR" => elapsed' = 3
          /\ instr'.op \in {"PLA", "PLP", "RTI", "RTS"} => elapsed' = 2
      BY <1>1, <1>4, CyclesLeft, OperandTyped DEF ImpliedOperations
    <2>6. ExecutedInv'
      BY <2>1, <2>2, <2>5 DEF ExecutedInv
    <2> QED
      BY <1>4, <2>1, <2>2, <2>4, <2>6 DEF IInv, PollInv, TriggerInv, DmaInv, InterruptInv,
         OperandInv, InstructionInv, LateInv, Boundary, InterruptStates
  <1>10. CASE ExecuteUnimplemented
    <2>1. /\ state' = "Panicked" /\ polled_interrupt' = "None" /\ ~trigger_dma'
          /\ trigger_dma' \in BOOLEAN
      BY <1>2, <1>10 DEF ExecuteUnimplemented, Panic, Continue, IInv, TypeOK
    <2>2. /\ dma_offset' \in 0..PageSize /\ dma_top' \in BOOLEAN /\ bus' \in Access
          /\ irq_disable' \in BOOLEAN /\ servicing' \in Interrupts
      BY <1>10, IdleTyped DEF ExecuteUnimplemented, Panic, IInv, TypeOK, dmaVars
    <2>3. TypeOK'
      BY <1>1, <1>4, <2>1, <2>2 DEF TypeOK
    <2> QED
      BY <2>1, <2>3 DEF IInv, PollInv, TriggerInv, DmaInv, InterruptInv, OperandInv,
         ExecutedInv, InstructionInv, LateInv, Boundary, InterruptStates, Inside,
         CpuStates
  <1> QED
    BY <1>5, <1>6, <1>7, <1>8, <1>9, <1>10 DEF Execute

-----------------------------------------------------------------------------
(* step_cpu *)

\* What the invariant says in every cycle of an instruction.
LEMMA InsideInstruction ==
    ASSUME IInv, state \in Inside, state # "PushRegisterOnStack"
    PROVE  /\ state \notin Boundary /\ unit = "instruction" /\ polled_interrupt = "None"
           /\ trigger_dma \in BOOLEAN
           /\ trigger_dma => /\ state \in {"WritingResultDummy", "WritingResult"}
                             /\ instr.target = "OAMDMA" /\ dma_offset = 0
  BY DEF IInv, TypeOK, InstructionInv, Inside, CpuStates, Boundary, PollInv, TriggerInv,
     InterruptStates

\* Below the limit a cycle inside a unit of work counts one.
LEMMA CountsOne ==
    ASSUME IInv, CountCycle, state \notin Boundary, elapsed < 10
    PROVE  elapsed' = elapsed + 1 /\ unit' = unit
  <1>1. elapsed < 2 * PageSize + 10
    BY PageSizeAssumption DEF IInv, TypeOK, ElapsedLimit
  <1> QED
    BY <1>1, CycleCounted DEF IInv

LEMMA FetchOpcodeKeepsIInv ==
    ASSUME IInv, FetchOpcode, CountCycle
    PROVE  IInv'
  <1>1. instr' \in Instructions
    BY ProgramAssumption DEF FetchOpcode
  <1>2. /\ state' \in {"ThrowawayRead", "ReadingOperand"}
        /\ state' = "ThrowawayRead" <=> instr'.mode \in {"Accumulator", "Implied"}
        /\ polled_interrupt' = "None" /\ ~trigger_dma' /\ trigger_dma' \in BOOLEAN
        /\ filled' = 0 /\ checked' = FALSE /\ consumed' = 1
    BY DEF IInv, TypeOK, PollInv, TriggerInv, FetchOpcode, Continue, InterruptStates
  <1>3. /\ dma_offset' \in 0..PageSize /\ dma_top' \in BOOLEAN /\ bus' \in Access
        /\ irq_disable' \in BOOLEAN /\ servicing' \in Interrupts
    BY IdleTyped DEF FetchOpcode, IInv, TypeOK, dmaVars
  <1>4. /\ unit' = "instruction" /\ elapsed' = 1 /\ elapsed' \in 0..ElapsedLimit
        /\ odd' \in BOOLEAN /\ masked' \in BOOLEAN
    BY CycleCounted DEF FetchOpcode, IInv, Boundary
  <1>5. TypeOK'
    <2>1. /\ state' \in CpuStates /\ polled_interrupt' \in {"None", "NMI", "IRQ"}
          /\ unit' \in {"reset", "instruction", "interrupt", "dma"}
      BY <1>2, <1>4 DEF CpuStates
    <2>2. filled' \in 0..4 /\ consumed' \in 0..3
      BY <1>2
    <2>3. checked' \in BOOLEAN
      BY <1>2
    <2> QED
      BY <1>1, <1>2, <1>3, <1>4, <2>1, <2>2, <2>3 DEF TypeOK
  <1>6. OperandInv'
    BY <1>1, <1>2, <1>4, OperandTyped, OperandConsumed DEF OperandInv
  <1> QED
    BY <1>2, <1>4, <1>5, <1>6 DEF IInv, PollInv, TriggerInv, DmaInv, InterruptInv, ExecutedInv,
       InstructionInv, LateInv, Boundary, InterruptStates, Inside, CpuStates

LEMMA ThrowawayReadKeepsIInv ==
    ASSUME IInv, NEW nmi \in BOOLEAN, NEW irq \in BOOLEAN, ThrowawayRead(nmi, irq), CountCycle
    PROVE  IInv'
  <1>1. /\ state = "ThrowawayRead" /\ instr' = instr /\ filled' = filled /\ checked' = checked
        /\ instr.mode \in {"Accumulator", "Implied"} /\ elapsed = 1 /\ consumed = 1
        /\ instr \in Instructions /\ Execute("memory", nmi, irq)
    BY DEF ThrowawayRead, IInv, TypeOK, OperandInv
  <1>2. instr.op # "Branch" /\ elapsed + 1 = CyclesToExecute(instr)
    BY <1>1, OperationMode DEF CyclesToExecute
  <1>3. consumed' = InstructionLength(instr)
    BY <1>1 DEF ThrowawayRead, InstructionLength, OperandBytes
  <1> QED
    BY <1>1, <1>2, <1>3, TargetsAssumption, ExecuteKeepsIInv

LEMMA FillOperandKeepsIInv ==
    ASSUME IInv, FillOperand, CountCycle
    PROVE  IInv'
  <1>1. /\ state = "ReadingOperand" /\ state' = "ReadingOperand" /\ instr' = instr
        /\ filled' = filled + 1 /\ filled < FillCycles(instr) /\ checked' = checked
        /\ polled_interrupt' = polled_interrupt /\ trigger_dma' = trigger_dma
        /\ servicing' = servicing /\ irq_disable' = irq_disable
        /\ dma_offset' = dma_offset /\ dma_top' = dma_top /\ bus' = Idle
    BY DEF FillOperand, dmaVars
  <1>2. /\ instr \in Instructions /\ instr.mode \notin {"Accumulator", "Implied"}
        /\ filled \in 0..4 /\ checked = FALSE /\ elapsed = 1 + filled
        /\ consumed = 1 + (IF filled < OperandBytes(instr.mode)
                           THEN filled ELSE OperandBytes(instr.mode))
    BY <1>1, OperandTyped DEF IInv, TypeOK, OperandInv
  <1>3. FillCycles(instr) \in 0..4 /\ OperandBytes(instr.mode) \in 0..2
    BY <1>2, OperandTyped
  <1>4. /\ consumed' = 1 + (IF filled' < OperandBytes(instr.mode)
                            THEN filled' ELSE OperandBytes(instr.mode))
        /\ filled' \in 0..4 /\ consumed' \in 0..3 /\ elapsed < 10
    BY <1>1, <1>2, <1>3 DEF FillOperand, ConsumeOperandByte
  <1>5. /\ unit = "instruction" /\ polled_interrupt' = "None" /\ ~trigger_dma'
        /\ trigger_dma' \in BOOLEAN /\ state \notin Boundary
    BY <1>1, InsideInstruction DEF Inside, CpuStates
  <1>6. elapsed' = 1 + filled' /\ unit' = "instruction"
    BY <1>1, <1>2, <1>4, <1>5, CountsOne
  <1>7. TypeOK'
    BY <1>1, <1>2, <1>4, <1>5, CycleCounted, IdleTyped DEF IInv, TypeOK
  <1>8. OperandInv'
    BY <1>1, <1>2, <1>3, <1>4, <1>6 DEF OperandInv
  <1> QED
    BY <1>1, <1>5, <1>6, <1>7, <1>8 DEF IInv, PollInv, TriggerInv, DmaInv, InterruptInv,
       ExecutedInv, InstructionInv, LateInv, Boundary, InterruptStates

LEMMA ReadWithoutCarryKeepsIInv ==
    ASSUME IInv, ReadWithoutCarry, CountCycle
    PROVE  IInv'
  <1>1. /\ state = "ReadingOperand" /\ state' = "ReadingOperand" /\ instr' = instr
        /\ filled' = filled /\ filled = FillCycles(instr)
        /\ checked = FALSE /\ checked' = TRUE /\ ReadsTwice(instr) /\ consumed' = consumed
        /\ polled_interrupt' = polled_interrupt /\ trigger_dma' = trigger_dma
        /\ servicing' = servicing /\ irq_disable' = irq_disable
        /\ dma_offset' = dma_offset /\ dma_top' = dma_top
        /\ bus' = [Idle EXCEPT !.read = instr.stray]
    BY DEF ReadWithoutCarry, OperandFilled, dmaVars, IInv, TypeOK
  <1>2. /\ instr \in Instructions /\ instr.mode \notin {"Accumulator", "Implied"}
        /\ filled \in 0..4 /\ elapsed = 1 + filled
        /\ consumed = 1 + (IF filled < OperandBytes(instr.mode)
                           THEN filled ELSE OperandBytes(instr.mode))
    BY <1>1, SMTT(30) DEF IInv, TypeOK, OperandInv
  <1>3. bus' \in Access
    BY <1>1, <1>2, AccessTyped, InstructionTyped, TargetsAssumption
  <1>4. /\ unit = "instruction" /\ polled_interrupt' = "None" /\ ~trigger_dma'
        /\ trigger_dma' \in BOOLEAN /\ state \notin Boundary
    BY <1>1, InsideInstruction DEF Inside, CpuStates
  <1>5. elapsed' = 2 + filled' /\ unit' = "instruction"
    BY <1>1, <1>2, <1>4, CountsOne
  <1>6. TypeOK'
    BY <1>1, <1>3, <1>4, CycleCounted DEF IInv, TypeOK
  <1>7. OperandInv'
    BY <1>1, <1>2, <1>5, OperandTyped DEF OperandInv
  <1> QED
    BY <1>1, <1>4, <1>5, <1>6, <1>7 DEF IInv, PollInv, TriggerInv, DmaInv, InterruptInv,
       ExecutedInv, InstructionInv, LateInv, Boundary, InterruptStates

LEMMA ReadOperandKeepsIInv ==
    ASSUME IInv, NEW nmi \in BOOLEAN, NEW irq \in BOOLEAN, ReadOperand(nmi, irq), CountCycle
    PROVE  IInv'
  <1>1. /\ state = "ReadingOperand" /\ filled = FillCycles(instr) /\ instr' = instr
        /\ filled' = filled /\ checked' = checked
        /\ ReadsTwice(instr) <=> checked
        /\ instr.op = "Branch" => instr.flag /\ ~instr.crosses
        /\ Execute(OperandRead(instr), nmi, irq)
    BY DEF ReadOperand, OperandFilled, IInv, OperandInv
  <1>2. /\ instr \in Instructions /\ instr.mode \notin {"Accumulator", "Implied"}
        /\ elapsed = 1 + filled + (IF checked THEN 1 ELSE 0)
        /\ consumed = 1 + (IF filled < OperandBytes(instr.mode)
                           THEN filled ELSE OperandBytes(instr.mode))
    BY <1>1 DEF IInv, TypeOK, OperandInv
  <1>3. OperandRead(instr) \in Targets
    BY <1>2, InstructionTyped, TargetsAssumption DEF OperandRead
  <1>4. consumed' = InstructionLength(instr)
    <2>1. FillCycles(instr) \in 0..4 /\ OperandBytes(instr.mode) \in 1..2
          /\ FillCycles(instr) + 1 >= OperandBytes(instr.mode)
      BY <1>2, OperandTyped, OperandConsumed
    <2>2. instr.op # "BRK"
      BY <1>2, OperationMode DEF ImpliedOperations
    <2> QED
      BY <1>1, <1>2, <2>1, <2>2 DEF ReadOperand, ConsumeOperandByte, InstructionLength
  <1>5. elapsed + 1 = CyclesToExecute(instr)
    BY <1>1, <1>2, OperandTyped DEF CyclesToExecute
  <1>6. instr.op = "Branch" => elapsed + 1 = 2
    BY <1>1, <1>2, CyclesLeft
  <1> QED
    BY <1>1, <1>3, <1>4, <1>5, <1>6, ExecuteKeepsIInv

\* A branch has consumed its offset in the second cycle.
LEMMA BranchOperand ==
    ASSUME IInv, OperandFilled, instr.op = "Branch", ConsumeOperandByte
    PROVE  /\ instr \in Instructions /\ elapsed = 1 /\ filled = 0
           /\ consumed' = InstructionLength(instr) /\ consumed' \in 0..3
  <1>1. /\ instr \in Instructions /\ FillCycles(instr) = 0 /\ ~ReadsTwice(instr)
        /\ instr.mode = "Relative"
    BY CyclesLeft, OperationMode DEF IInv, TypeOK
  <1>2. filled = 0 /\ elapsed = 1 /\ consumed = 1
    BY <1>1, OperandTyped DEF IInv, OperandInv, OperandFilled
  <1> QED
    BY <1>1, <1>2 DEF ConsumeOperandByte, InstructionLength, OperandBytes

LEMMA BranchNotTakenKeepsIInv ==
    ASSUME IInv, BranchNotTaken, CountCycle
    PROVE  IInv'
  <1>1. /\ state = "ReadingOperand" /\ instr.op = "Branch" /\ ~instr.flag
        /\ instr' = instr /\ filled' = filled /\ checked' = checked /\ bus' = Idle
        /\ irq_disable' = irq_disable /\ dma_offset' = dma_offset /\ dma_top' = dma_top
        /\ EndUnit(polled_interrupt, trigger_dma)
    BY DEF BranchNotTaken, OperandFilled, dmaVars
  <1>2. /\ instr \in Instructions /\ elapsed = 1
        /\ consumed' = InstructionLength(instr) /\ consumed' \in 0..3
    BY BranchOperand DEF BranchNotTaken
  <1>3. /\ unit = "instruction" /\ polled_interrupt = "None" /\ ~trigger_dma
        /\ trigger_dma \in BOOLEAN /\ state \notin Boundary
    BY <1>1, InsideInstruction DEF Inside, CpuStates
  <1>4. elapsed' = InstructionCycles(instr')
    BY <1>1, <1>2, <1>3, CountsOne DEF InstructionCycles
  <1>5. /\ filled \in 0..4 /\ checked \in BOOLEAN /\ irq_disable \in BOOLEAN
        /\ dma_offset \in 0..PageSize /\ dma_top \in BOOLEAN
    BY DEF IInv, TypeOK
  <1> QED
    BY <1>1, <1>2, <1>3, <1>4, <1>5, IdleTyped, EndUnitKeepsIInv

LEMMA BranchLeavesPageKeepsIInv ==
    ASSUME IInv, BranchLeavesPage, CountCycle
    PROVE  IInv'
  <1>1. /\ state = "ReadingOperand" /\ instr.op = "Branch" /\ instr.crosses
        /\ state' = "BranchCrossesPageBoundary" /\ servicing' = servicing
        /\ polled_interrupt' = polled_interrupt /\ trigger_dma' = trigger_dma
        /\ instr' = instr /\ filled' = filled /\ checked' = checked /\ bus' = Idle
        /\ irq_disable' = irq_disable /\ dma_offset' = dma_offset /\ dma_top' = dma_top
    BY DEF BranchLeavesPage, OperandFilled, Continue, dmaVars
  <1>2. /\ instr \in Instructions /\ elapsed = 1
        /\ consumed' = InstructionLength(instr) /\ consumed' \in 0..3
    BY BranchOperand DEF BranchLeavesPage
  <1>3. instr.flag
    BY <1>1, <1>2, OperationMode DEF IndexedModes
  <1>4. /\ unit = "instruction" /\ polled_interrupt' = "None" /\ ~trigger_dma'
        /\ trigger_dma' \in BOOLEAN /\ state \notin Boundary
    BY <1>1, InsideInstruction DEF Inside, CpuStates
  <1>5. elapsed' = 2 /\ unit' = "instruction"
    BY <1>2, <1>4, CountsOne
  <1>6. TypeOK'
    BY <1>1, <1>2, <1>4, CycleCounted, IdleTyped DEF IInv, TypeOK, CpuStates
  <1> QED
    BY <1>1, <1>2, <1>3, <1>4, <1>5, <1>6 DEF IInv, PollInv, TriggerInv, DmaInv, InterruptInv,
       OperandInv, ExecutedInv, InstructionInv, LateInv, Boundary, InterruptStates

LEMMA BranchCrossesPageBoundaryKeepsIInv ==
    ASSUME IInv, NEW nmi \in BOOLEAN, NEW irq \in BOOLEAN,
           BranchCrossesPageBoundary(nmi, irq), CountCycle
    PROVE  IInv'
  <1>1. /\ state = "BranchCrossesPageBoundary" /\ instr' = instr /\ filled' = filled
        /\ checked' = checked /\ consumed' = consumed /\ Execute("memory", nmi, irq)
        /\ instr.op = "Branch" /\ instr.flag /\ instr.crosses /\ elapsed = 2
        /\ consumed = InstructionLength(instr)
    BY DEF BranchCrossesPageBoundary, operandVars, IInv, ExecutedInv, InstructionInv, Inside,
       CpuStates
  <1> QED
    BY <1>1, TargetsAssumption, ExecuteKeepsIInv

\* What the cycles after the one that executes leave alone.
LEMMA OperandKept ==
    ASSUME IInv, UNCHANGED operandVars
    PROVE  /\ instr' = instr /\ filled' = filled /\ checked' = checked /\ consumed' = consumed
           /\ instr \in Instructions /\ filled \in 0..4 /\ checked \in BOOLEAN
           /\ consumed \in 0..3
  BY DEF IInv, TypeOK, operandVars

LEMMA DmaKept ==
    ASSUME IInv, UNCHANGED dmaVars
    PROVE  /\ dma_offset' = dma_offset /\ dma_top' = dma_top
           /\ dma_offset \in 0..PageSize /\ dma_top \in BOOLEAN
  BY DEF IInv, TypeOK, dmaVars

LEMMA StepInsideKeepsIInv ==
    ASSUME IInv, StepInside, CountCycle
    PROVE  IInv'
  <1>1. /\ state \in {"PreIncrementStackPointer", "PullPCLFromStack", "PullPCHFromStack",
                      "WritePCHToStack", "WritePCLToStack", "WritingResultDummy"}
        /\ ~(state = "PullPCHFromStack" /\ instr.op = "RTI")
        /\ state' = CpuSuccessor(state, instr.op) /\ bus' = Idle
        /\ servicing' = servicing /\ irq_disable' = irq_disable
        /\ polled_interrupt' = polled_interrupt /\ trigger_dma' = trigger_dma
    BY DEF StepInside
  <1>2. /\ instr' = instr /\ filled' = filled /\ checked' = checked /\ consumed' = consumed
        /\ dma_offset' = dma_offset /\ dma_top' = dma_top /\ instr \in Instructions
    BY OperandKept, DmaKept DEF StepInside
  <1>3. /\ unit = "instruction" /\ polled_interrupt' = "None" /\ state \notin Boundary
        /\ trigger_dma' \in BOOLEAN
        /\ trigger_dma' => /\ state = "WritingResultDummy"
                           /\ instr'.target = "OAMDMA" /\ dma_offset' = 0
    BY <1>1, <1>2, InsideInstruction DEF Inside, CpuStates
  <1>4. elapsed < 10
    BY <1>1, <1>2, OperandTyped DEF IInv, ExecutedInv
  <1>5. elapsed' = elapsed + 1 /\ unit' = "instruction"
    BY <1>3, <1>4, CountsOne
  <1>6. /\ state = "PreIncrementStackPointer" /\ instr.op = "RTS" => state' = "PullPCLFromStack"
        /\ state = "PreIncrementStackPointer" /\ instr.op # "RTS" =>
              state' = "PullRegisterFromStack"
        /\ state = "PullPCLFromStack" => state' = "PullPCHFromStack"
        /\ state = "PullPCHFromStack" => state' = "IncrementProgramCounter"
        /\ state = "WritePCHToStack" => state' = "WritePCLToStack"
        /\ state = "WritePCLToStack" => state' = "SetProgramCounter"
        /\ state = "WritingResultDummy" => state' = "WritingResult"
    BY <1>1 DEF CpuSuccessor
  <1>7. state' \in {"PullPCLFromStack", "PullRegisterFromStack", "PullPCHFromStack",
                    "IncrementProgramCounter", "WritePCLToStack", "SetProgramCounter",
                    "WritingResult"}
    BY <1>1, <1>6
  <1>8. TypeOK'
    <2>1. state' \in CpuStates
      BY <1>7 DEF CpuStates
    <2> QED
      BY <1>1, <1>2, <1>3, <2>1, CycleCounted, IdleTyped DEF IInv, TypeOK
  <1>9. ExecutedInv'
    <2>1. instr.op = "Modify" /\ elapsed = InstructionCycles(instr) - 2 =>
             elapsed + 1 = InstructionCycles(instr) - 1
      BY <1>2, OperandTyped
    <2> QED
      BY <1>1, <1>2, <1>5, <1>6, <1>7, <2>1 DEF IInv, ExecutedInv
  <1>10. consumed' = InstructionLength(instr')
    BY <1>1, <1>2, <1>3 DEF IInv, InstructionInv
  <1> QED
    BY <1>1, <1>2, <1>3, <1>5, <1>6, <1>7, <1>8, <1>9, <1>10 DEF IInv, PollInv, TriggerInv,
       DmaInv, InterruptInv, OperandInv, InstructionInv, LateInv, Boundary,
       InterruptStates

LEMMA PushRegisterOnStackKeepsIInv ==
    ASSUME IInv, PushRegisterOnStack, CountCycle
    PROVE  IInv'
  <1>1. /\ state = "PushRegisterOnStack" /\ bus' = Idle /\ irq_disable' = irq_disable
        /\ EndUnit(polled_interrupt, trigger_dma)
        /\ instr.op = "Push" /\ elapsed = 2
        /\ polled_interrupt = "IRQ" => ~irq_disable
        /\ polled_interrupt \in {"None", "NMI", "IRQ"}
        /\ trigger_dma \in BOOLEAN /\ irq_disable \in BOOLEAN
    BY DEF PushRegisterOnStack, IInv, TypeOK, ExecutedInv, PollInv
  <1>2. /\ instr' = instr /\ filled' = filled /\ checked' = checked /\ consumed' = consumed
        /\ instr \in Instructions /\ filled \in 0..4 /\ checked \in BOOLEAN
        /\ consumed \in 0..3 /\ dma_offset' = dma_offset /\ dma_top' = dma_top
        /\ dma_offset \in 0..PageSize /\ dma_top \in BOOLEAN
    BY OperandKept, DmaKept DEF PushRegisterOnStack
  <1>3. /\ unit = "instruction" /\ ~trigger_dma /\ state \notin Boundary
        /\ consumed = InstructionLength(instr)
    BY <1>1 DEF IInv, InstructionInv, TriggerInv, Inside, CpuStates, Boundary, InterruptStates
  <1>4. elapsed' = InstructionCycles(instr')
    BY <1>1, <1>2, <1>3, CountsOne DEF InstructionCycles
  <1> QED
    BY <1>1, <1>2, <1>3, <1>4, IdleTyped, EndUnitKeepsIInv

LEMMA PullStatusForReturnKeepsIInv ==
    ASSUME IInv, PullStatusForReturn, CountCycle
    PROVE  IInv'
  <1>1. /\ state = "PullRegisterFromStack" /\ instr.op = "RTI" /\ elapsed = 3
        /\ state' = "PullPCLFromStack" /\ bus' = Idle /\ servicing' = servicing
        /\ polled_interrupt' = polled_interrupt /\ trigger_dma' = trigger_dma
        /\ irq_disable' = instr.flag
    BY DEF PullStatusForReturn, IInv, ExecutedInv
  <1>2. /\ instr' = instr /\ filled' = filled /\ checked' = checked /\ consumed' = consumed
        /\ dma_offset' = dma_offset /\ dma_top' = dma_top /\ instr \in Instructions
    BY OperandKept, DmaKept DEF PullStatusForReturn
  <1>3. /\ unit = "instruction" /\ polled_interrupt' = "None" /\ state \notin Boundary
        /\ trigger_dma' \in BOOLEAN /\ ~trigger_dma'
    BY <1>1, InsideInstruction DEF Inside, CpuStates
  <1>4. elapsed' = 4 /\ unit' = "instruction"
    BY <1>1, <1>3, CountsOne
  <1>5. irq_disable' \in BOOLEAN
    BY <1>1, <1>2, InstructionTyped
  <1>6. TypeOK'
    BY <1>1, <1>2, <1>3, <1>5, CycleCounted, IdleTyped DEF IInv, TypeOK, CpuStates
  <1>7. consumed' = InstructionLength(instr')
    BY <1>1, <1>2, <1>3 DEF IInv, InstructionInv
  <1> QED
    BY <1>1, <1>2, <1>3, <1>4, <1>6, <1>7 DEF IInv, PollInv, TriggerInv, DmaInv, InterruptInv,
       OperandInv, ExecutedInv, InstructionInv, LateInv, Boundary, InterruptStates

LEMMA FinishWithPollKeepsIInv ==
    ASSUME IInv, NEW nmi \in BOOLEAN, NEW irq \in BOOLEAN, FinishWithPoll(nmi, irq), CountCycle
    PROVE  IInv'
  <1>1. /\ bus' = [Idle EXCEPT !.poll = "clear"]
        /\ EndUnit(Polled(nmi, irq), trigger_dma)
        /\ irq_disable' = IF instr.op = "PLP" THEN instr.flag ELSE irq_disable
        /\ state \in {"PullRegisterFromStack", "PullPCHFromStack", "IncrementProgramCounter",
                      "SetProgramCounter"}
        /\ state = "PullRegisterFromStack" => instr.op \in {"PLA", "PLP"}
        /\ state = "PullPCHFromStack" => instr.op = "RTI"
    BY DEF FinishWithPoll, PollsLast
  <1>2. /\ instr' = instr /\ filled' = filled /\ checked' = checked /\ consumed' = consumed
        /\ instr \in Instructions /\ filled \in 0..4 /\ checked \in BOOLEAN
        /\ consumed \in 0..3 /\ dma_offset' = dma_offset /\ dma_top' = dma_top
        /\ dma_offset \in 0..PageSize /\ dma_top \in BOOLEAN
    BY OperandKept, DmaKept DEF FinishWithPoll
  <1>3. /\ unit = "instruction" /\ state \notin Boundary /\ polled_interrupt = "None"
        /\ trigger_dma \in BOOLEAN /\ ~trigger_dma
    BY <1>1, InsideInstruction DEF Inside, CpuStates
  <1>4. consumed = InstructionLength(instr)
    BY <1>1, <1>3 DEF IInv, InstructionInv
  <1>5. elapsed + 1 = InstructionCycles(instr) /\ elapsed < 10
    BY <1>1 DEF IInv, ExecutedInv, InstructionCycles
  <1>6. elapsed' = InstructionCycles(instr')
    BY <1>2, <1>3, <1>5, CountsOne
  <1>7. /\ irq_disable' \in BOOLEAN
        /\ irq_disable' => irq_disable \/ instr.op = "PLP"
    BY <1>1, <1>2, InstructionTyped DEF IInv, TypeOK
  <1>8. /\ Polled(nmi, irq) \in {"None", "NMI", "IRQ"}
        /\ Polled(nmi, irq) = "IRQ" => ~irq_disable
    BY <1>1, PolledTyped
  <1> QED
    BY <1>1, <1>2, <1>3, <1>4, <1>6, <1>7, <1>8, IdleTyped, EndUnitKeepsIInv

LEMMA WritingResultKeepsIInv ==
    ASSUME IInv, NEW nmi \in BOOLEAN, NEW irq \in BOOLEAN, WritingResult(nmi, irq), CountCycle
    PROVE  IInv'
  <1>1. /\ state = "WritingResult" /\ irq_disable' = irq_disable
        /\ bus' = [Idle EXCEPT !.poll = "clear", !.write = instr.target]
        /\ SetDmaAddress(instr.target, instr.flag)
        /\ EndUnit(Polled(nmi, irq), TriggerDma(instr.target))
        /\ elapsed = InstructionCycles(instr) - 1
    BY DEF WritingResult, IInv, ExecutedInv
  <1>2. /\ instr' = instr /\ filled' = filled /\ checked' = checked /\ consumed' = consumed
        /\ instr \in Instructions /\ filled \in 0..4 /\ checked \in BOOLEAN
        /\ consumed \in 0..3
    BY OperandKept DEF WritingResult
  <1>3. instr.target \in Targets /\ instr.flag \in BOOLEAN
    BY <1>2, InstructionTyped
  <1>4. /\ dma_offset' \in 0..PageSize /\ dma_top' \in BOOLEAN
        /\ instr.target = "OAMDMA" => dma_offset' = 0
    BY <1>1, <1>3, DmaAddressTyped
  <1>5. /\ unit = "instruction" /\ state \notin Boundary /\ polled_interrupt = "None"
        /\ trigger_dma \in BOOLEAN
        /\ trigger_dma => instr.target = "OAMDMA"
    BY <1>1, InsideInstruction DEF Inside, CpuStates
  <1>6. /\ TriggerDma(instr.target) \in BOOLEAN
        /\ TriggerDma(instr.target) => dma_offset' = 0
        /\ ~TriggerDma(instr.target) => ~trigger_dma
    BY <1>4, <1>5 DEF TriggerDma
  <1>7. consumed = InstructionLength(instr)
    BY <1>1, <1>5 DEF IInv, InstructionInv
  <1>8. elapsed' = InstructionCycles(instr')
    <2>1. InstructionCycles(instr) \in 2..8
      BY <1>2, OperandTyped
    <2>2. elapsed < 10 /\ elapsed + 1 = InstructionCycles(instr)
      BY <1>1, <2>1
    <2> QED
      BY <1>2, <1>5, <2>2, CountsOne
  <1>9. /\ Polled(nmi, irq) \in {"None", "NMI", "IRQ"}
        /\ Polled(nmi, irq) = "IRQ" => ~irq_disable
        /\ irq_disable \in BOOLEAN
    BY <1>1, PolledTyped, SMTT(30) DEF IInv, TypeOK
  <1>10. bus' \in Access
    BY <1>1, <1>3, AccessTyped
  <1> QED
    BY <1>1, <1>2, <1>4, <1>5, <1>6, <1>7, <1>8, <1>9, <1>10, EndUnitKeepsIInv

-----------------------------------------------------------------------------
(* step_interrupt_handler *)

\* What the invariant says in every cycle of an interrupt sequence.
LEMMA InsideInterrupt ==
    ASSUME IInv, state \in InterruptStates
    PROVE  /\ polled_interrupt = "None" /\ trigger_dma \in BOOLEAN
           /\ trigger_dma => dma_offset = 0 /\ servicing # "IRQ_BRK"
           /\ servicing \in Interrupts
  BY DEF IInv, TypeOK, PollInv, TriggerInv, InterruptStates

LEMMA StepInterruptKeepsIInv ==
    ASSUME IInv, StepInterrupt, CountCycle
    PROVE  IInv'
  <1>1. /\ state \in {"InternalOps1", "InternalOps2", "PushPCH", "PushPCL", "PullIRQVecHigh"}
        /\ state' = InterruptSuccessor(state) /\ bus' = Idle
        /\ servicing' = servicing /\ irq_disable' = irq_disable
        /\ polled_interrupt' = polled_interrupt /\ trigger_dma' = trigger_dma
    BY DEF StepInterrupt
  <1>2. /\ instr' = instr /\ filled' = filled /\ checked' = checked /\ consumed' = consumed
        /\ dma_offset' = dma_offset /\ dma_top' = dma_top /\ instr \in Instructions
    BY OperandKept, DmaKept DEF StepInterrupt
  <1>3. /\ polled_interrupt' = "None" /\ trigger_dma' \in BOOLEAN
        /\ trigger_dma' => dma_offset' = 0 /\ servicing' # "IRQ_BRK"
    BY <1>1, <1>2, InsideInterrupt DEF InterruptStates
  <1>4. /\ state = "InternalOps1" => state' = "InternalOps2"
        /\ state = "InternalOps2" => state' = "PushPCH"
        /\ state = "PushPCH" => state' = "PushPCL"
        /\ state = "PushPCL" => state' = "PushStatusRegister"
        /\ state = "PullIRQVecHigh" => state' = "PullIRQVecLow"
    BY <1>1 DEF InterruptSuccessor
  <1>5. state' \in InterruptStates \ {"InternalOps1", "PullIRQVecHigh"}
    BY <1>1, <1>4 DEF InterruptStates
  <1>6. TypeOK'
    BY <1>1, <1>2, <1>3, <1>5, CycleCounted, IdleTyped DEF IInv, TypeOK
  <1>7. InterruptInv'
    <2>1. CASE state = "InternalOps1"
      <3>1. state' = "InternalOps2" /\ elapsed' = 1 /\ unit' = "interrupt"
        BY <1>4, <2>1, CycleCounted DEF IInv, Boundary
      <3> QED
        BY <3>1 DEF InterruptInv, Boundary
    <2>2. CASE state # "InternalOps1"
      <3>1. /\ elapsed < 10 /\ state \notin Boundary
            /\ unit = "interrupt" \/ (unit = "instruction" /\ instr.op = "BRK")
        BY <1>1, <2>2 DEF IInv, InterruptInv, InterruptStates, Boundary
      <3>2. elapsed' = elapsed + 1 /\ unit' = unit
        BY <3>1, CountsOne
      <3>3. /\ state = "InternalOps2" => elapsed = 1
            /\ state = "PushPCH" => elapsed = 2
            /\ state = "PushPCL" => elapsed = 3
            /\ state = "PullIRQVecHigh" => elapsed = 5
        BY DEF IInv, InterruptInv
      <3> QED
        BY <1>1, <1>2, <1>4, <2>2, <3>1, <3>2, <3>3 DEF InterruptInv, InterruptStates, Boundary
    <2> QED
      BY <2>1, <2>2
  <1>8. InstructionInv'
    <2>1. state # "InternalOps1" => unit' = unit
      BY <1>1, CycleCounted DEF IInv, Boundary
    <2>2. state = "InternalOps1" => unit' = "interrupt"
      BY CycleCounted DEF IInv
    <2> QED
      BY <1>1, <1>2, <1>5, <2>1, <2>2 DEF IInv, InstructionInv, InterruptStates, Inside,
         CpuStates, Boundary
  <1> QED
    BY <1>3, <1>5, <1>6, <1>7, <1>8 DEF IInv, PollInv, TriggerInv, DmaInv, OperandInv,
       ExecutedInv, LateInv, Boundary, InterruptStates

LEMMA PushStatusRegisterKeepsIInv ==
    ASSUME IInv, NEW nmi \in BOOLEAN, NEW irq \in BOOLEAN, PushStatusRegister(nmi, irq),
           CountCycle
    PROVE  IInv'
  <1>1. /\ state = "PushStatusRegister" /\ state' = "PullIRQVecHigh"
        /\ servicing' = Hijacked(servicing, Polled(nmi, irq))
        /\ polled_interrupt' = "None" /\ trigger_dma' = trigger_dma
        /\ irq_disable' = TRUE /\ bus' = [Idle EXCEPT !.poll = "keep"]
    BY DEF PushStatusRegister, Continue
  <1>2. /\ instr' = instr /\ filled' = filled /\ checked' = checked /\ consumed' = consumed
        /\ dma_offset' = dma_offset /\ dma_top' = dma_top /\ instr \in Instructions
    BY OperandKept, DmaKept DEF PushStatusRegister
  <1>3. /\ trigger_dma' \in BOOLEAN /\ servicing \in Interrupts
        /\ trigger_dma' => dma_offset' = 0 /\ servicing # "IRQ_BRK"
    BY <1>1, <1>2, InsideInterrupt DEF InterruptStates
  <1>4. /\ servicing' \in Interrupts
        /\ servicing # "IRQ_BRK" => servicing' # "IRQ_BRK"
    <2>1. Polled(nmi, irq) \in {"None", "NMI", "IRQ"}
      BY <1>1, PolledTyped
    <2> QED
      BY <1>1, <1>3, <2>1 DEF Hijacked, Interrupts
  <1>5. /\ elapsed = 4 /\ state \notin Boundary
        /\ unit = "interrupt" \/ (unit = "instruction" /\ instr.op = "BRK")
    BY <1>1 DEF IInv, InterruptInv, InterruptStates, Boundary
  <1>6. elapsed' = 5 /\ unit' = unit
    BY <1>5, CountsOne
  <1>7. irq_disable' \in BOOLEAN
    BY <1>1
  <1>8. TypeOK'
    BY <1>1, <1>2, <1>3, <1>4, <1>7, CycleCounted, IdleTyped DEF IInv, TypeOK, InterruptStates
  <1>9. InstructionInv'
    BY <1>1, <1>2, <1>6 DEF IInv, InstructionInv, Inside, CpuStates, Boundary
  <1> QED
    BY <1>1, <1>2, <1>3, <1>4, <1>5, <1>6, <1>8, <1>9 DEF IInv, PollInv, TriggerInv, DmaInv,
       InterruptInv, OperandInv, ExecutedInv, LateInv, Boundary, InterruptStates

LEMMA PullIRQVecLowKeepsIInv ==
    ASSUME IInv, PullIRQVecLow, CountCycle
    PROVE  IInv'
  <1>1. /\ state = "PullIRQVecLow" /\ bus' = Idle /\ irq_disable' = irq_disable
        /\ EndUnit(polled_interrupt, trigger_dma)
        /\ irq_disable \in BOOLEAN
    BY DEF PullIRQVecLow, IInv, TypeOK
  <1>2. /\ instr' = instr /\ filled' = filled /\ checked' = checked /\ consumed' = consumed
        /\ instr \in Instructions /\ filled \in 0..4 /\ checked \in BOOLEAN
        /\ consumed \in 0..3 /\ dma_offset' = dma_offset /\ dma_top' = dma_top
        /\ dma_offset \in 0..PageSize /\ dma_top \in BOOLEAN
    BY OperandKept, DmaKept DEF PullIRQVecLow
  <1>3. /\ polled_interrupt = "None" /\ trigger_dma \in BOOLEAN
        /\ trigger_dma => dma_offset = 0
    BY <1>1, InsideInterrupt DEF InterruptStates
  <1>4. /\ elapsed = 6 /\ state \notin Boundary
        /\ unit = "interrupt" \/ (unit = "instruction" /\ instr.op = "BRK")
    BY <1>1 DEF IInv, InterruptInv, InterruptStates, Boundary
  <1>5. elapsed' = 7
    BY <1>4, CountsOne
  <1>6. unit = "instruction" =>
           elapsed' = InstructionCycles(instr') /\ consumed' = InstructionLength(instr')
    BY <1>1, <1>2, <1>4, <1>5 DEF InstructionCycles, IInv, InstructionInv
  <1> QED
    BY <1>1, <1>2, <1>3, <1>4, <1>5, <1>6, IdleTyped, EndUnitKeepsIInv

-----------------------------------------------------------------------------
(* step_dma_handler *)

\* What the invariant says in every cycle of a DMA.
LEMMA InsideDma ==
    ASSUME IInv, state \in DmaStates
    PROVE  /\ polled_interrupt = "None" /\ ~trigger_dma /\ trigger_dma \in BOOLEAN
           /\ odd \in BOOLEAN /\ dma_offset \in Nat /\ PageSize \in Nat /\ elapsed \in Nat
           /\ state # "DummyCycle" => state \notin Boundary
  BY PageSizeAssumption DEF IInv, TypeOK, PollInv, TriggerInv, InterruptStates, DmaStates,
     Boundary, ElapsedLimit

LEMMA StartDmaReadKeepsIInv ==
    ASSUME IInv, StartDmaRead, CountCycle
    PROVE  IInv'
  <1>1. /\ \/ state = "DummyCycle" /\ state' = IF odd THEN "OddCpuCycle" ELSE "ReadCycle"
           \/ state = "OddCpuCycle" /\ state' = "ReadCycle"
        /\ bus' = Idle /\ servicing' = servicing /\ irq_disable' = irq_disable
        /\ polled_interrupt' = polled_interrupt /\ trigger_dma' = trigger_dma
    BY DEF StartDmaRead
  <1>2. /\ instr' = instr /\ filled' = filled /\ checked' = checked /\ consumed' = consumed
        /\ dma_offset' = dma_offset /\ dma_top' = dma_top
    BY OperandKept, DmaKept DEF StartDmaRead
  <1>3. /\ polled_interrupt' = "None" /\ ~trigger_dma' /\ trigger_dma' \in BOOLEAN
    BY <1>1, InsideDma DEF DmaStates
  <1>4. state' \in {"OddCpuCycle", "ReadCycle"}
    BY <1>1
  <1>5. TypeOK'
    BY <1>1, <1>2, <1>3, <1>4, CycleCounted, IdleTyped DEF IInv, TypeOK, DmaStates
  <1>6. dma_offset' = 0 /\ unit' = "dma" /\ dma_offset' < PageSize
    <2>1. dma_offset = 0
      BY <1>1 DEF IInv, DmaInv
    <2>2. unit' = "dma"
      BY <1>1, CycleCounted DEF IInv, DmaInv, Boundary
    <2> QED
      BY <1>2, <2>1, <2>2, PageSizeAssumption
  <1>7. DmaInv'
    <2>1. CASE state = "DummyCycle"
      <3>1. elapsed' = 1 /\ odd' = ~odd /\ odd \in BOOLEAN
        BY <2>1, CycleCounted DEF IInv, TypeOK, Boundary
      <3>2. elapsed' \in {2 * dma_offset' + 1, 2 * dma_offset' + 2}
        BY <1>6, <3>1
      <3>3. state' = "OddCpuCycle" => ~odd'
        BY <1>1, <2>1, <3>1
      <3>4. state' = "ReadCycle" => odd'
        BY <1>1, <2>1, <3>1
      <3> QED
        BY <1>4, <1>6, <3>1, <3>2, <3>3, <3>4 DEF DmaInv, Boundary
    <2>2. CASE state = "OddCpuCycle"
      <3>1. elapsed = 1 /\ ~odd
        BY <2>2 DEF IInv, DmaInv
      <3>2. odd'
        BY <3>1, CycleCounted DEF IInv
      <3>3. elapsed' = 2
        <4>1. elapsed < 10 /\ state \notin Boundary
          BY <2>2, <3>1 DEF Boundary
        <4>2. elapsed' = elapsed + 1
          BY <4>1, CountsOne
        <4> QED
          BY <3>1, <4>2
      <3>4. elapsed' \in {2 * dma_offset' + 1, 2 * dma_offset' + 2}
        BY <1>6, <3>3
      <3>5. state' = "ReadCycle"
        BY <1>1, <2>2
      <3> QED
        BY <1>6, <3>2, <3>4, <3>5 DEF DmaInv, Boundary
    <2> QED
      BY <1>1, <2>1, <2>2
  <1> QED
    BY <1>3, <1>4, <1>5, <1>6, <1>7 DEF IInv, PollInv, TriggerInv, InterruptInv, OperandInv,
       ExecutedInv, InstructionInv, LateInv, Boundary, InterruptStates, Inside,
       CpuStates

LEMMA DmaReadKeepsIInv ==
    ASSUME IInv, DmaRead, CountCycle
    PROVE  IInv'
  <1>1. /\ state = "ReadCycle" /\ state' = "WriteCycle" /\ dma_offset' = dma_offset + 1
        /\ bus' = Idle /\ servicing' = servicing /\ irq_disable' = irq_disable
        /\ polled_interrupt' = polled_interrupt /\ trigger_dma' = trigger_dma
        /\ dma_top' = dma_top
    BY DEF DmaRead
  <1>2. /\ instr' = instr /\ filled' = filled /\ checked' = checked /\ consumed' = consumed
    BY OperandKept DEF DmaRead
  <1>3. /\ polled_interrupt' = "None" /\ ~trigger_dma' /\ trigger_dma' \in BOOLEAN
        /\ dma_offset \in Nat /\ PageSize \in Nat /\ elapsed \in Nat /\ state \notin Boundary
    BY <1>1, InsideDma DEF DmaStates
  <1>4. /\ odd /\ dma_offset < PageSize /\ unit = "dma"
        /\ elapsed \in {2 * dma_offset + 1, 2 * dma_offset + 2}
    BY <1>1 DEF IInv, DmaInv
  <1>5. dma_offset' \in 0..PageSize /\ dma_offset' > 0
    BY <1>1, <1>3, <1>4
  <1>6. unit' = "dma" /\ ~odd'
    BY <1>3, <1>4, CycleCounted DEF IInv
  <1>7. elapsed' \in {2 * dma_offset', 2 * dma_offset' + 1}
    <2>1. elapsed < 2 * PageSize + 10
      BY <1>3, <1>4
    <2>2. elapsed' = elapsed + 1
      BY <1>3, <2>1, CycleCounted DEF IInv
    <2> QED
      BY <1>1, <1>3, <1>4, <2>2
  <1>8. TypeOK'
    BY <1>1, <1>2, <1>3, <1>5, CycleCounted, IdleTyped DEF IInv, TypeOK, DmaStates
  <1> QED
    BY <1>1, <1>3, <1>5, <1>6, <1>7, <1>8 DEF IInv, PollInv, TriggerInv, DmaInv, InterruptInv,
       OperandInv, ExecutedInv, InstructionInv, LateInv, Boundary, InterruptStates,
       Inside, CpuStates

LEMMA DmaReadOverflowsKeepsIInv ==
    ASSUME IInv, DmaReadOverflows, CountCycle
    PROVE  IInv'
  <1>1. /\ state = "ReadCycle" /\ state' = "Panicked" /\ bus' = Idle
        /\ servicing' = servicing /\ irq_disable' = irq_disable
        /\ polled_interrupt' = polled_interrupt /\ trigger_dma' = trigger_dma
    BY DEF DmaReadOverflows, Panic, Continue
  <1>2. /\ instr' = instr /\ filled' = filled /\ checked' = checked /\ consumed' = consumed
        /\ dma_offset' = dma_offset /\ dma_top' = dma_top
    BY OperandKept, DmaKept DEF DmaReadOverflows, Panic
  <1>3. /\ polled_interrupt' = "None" /\ ~trigger_dma' /\ trigger_dma' \in BOOLEAN
    BY <1>1, InsideDma DEF DmaStates
  <1>4. TypeOK'
    BY <1>1, <1>2, <1>3, CycleCounted, IdleTyped DEF IInv, TypeOK
  <1> QED
    BY <1>1, <1>3, <1>4 DEF IInv, PollInv, TriggerInv, DmaInv, InterruptInv, OperandInv,
       ExecutedInv, InstructionInv, LateInv, Boundary, InterruptStates, Inside,
       CpuStates

LEMMA DmaWriteKeepsIInv ==
    ASSUME IInv, DmaWrite, CountCycle
    PROVE  IInv'
  <1>1. /\ state = "WriteCycle" /\ bus' = Idle /\ irq_disable' = irq_disable
        /\ irq_disable \in BOOLEAN
    BY DEF DmaWrite, IInv, TypeOK
  <1>2. /\ instr' = instr /\ filled' = filled /\ checked' = checked /\ consumed' = consumed
        /\ instr \in Instructions /\ filled \in 0..4 /\ checked \in BOOLEAN
        /\ consumed \in 0..3 /\ dma_offset' = dma_offset /\ dma_top' = dma_top
        /\ dma_offset \in 0..PageSize /\ dma_top \in BOOLEAN
    BY OperandKept, DmaKept DEF DmaWrite
  <1>3. /\ polled_interrupt = "None" /\ ~trigger_dma /\ trigger_dma \in BOOLEAN
        /\ dma_offset \in Nat /\ PageSize \in Nat /\ elapsed \in Nat /\ state \notin Boundary
    BY <1>1, InsideDma DEF DmaStates
  <1>4. /\ ~odd /\ dma_offset > 0 /\ unit = "dma"
        /\ elapsed \in {2 * dma_offset, 2 * dma_offset + 1}
    BY <1>1 DEF IInv, DmaInv
  <1>5. elapsed' = elapsed + 1 /\ unit' = "dma" /\ odd'
    <2>1. dma_offset <= PageSize
      BY <1>2, <1>3
    <2>2. elapsed < 2 * PageSize + 10
      BY <1>3, <1>4, <2>1
    <2> QED
      BY <1>3, <1>4, <2>2, CycleCounted DEF IInv
  <1>6. elapsed' \in {2 * dma_offset + 1, 2 * dma_offset + 2}
    BY <1>3, <1>4, <1>5
  <1>7. CASE DmaPageDone
    <2>1. EndUnit(polled_interrupt, trigger_dma)
      BY <1>7 DEF DmaWrite
    <2>2. dma_offset = PageSize
      BY <1>7 DEF DmaPageDone
    <2> QED
      BY <1>1, <1>2, <1>3, <1>4, <1>5, <1>6, <2>1, <2>2, IdleTyped, EndUnitKeepsIInv
  <1>8. CASE ~DmaPageDone
    <2>1. /\ state' = "ReadCycle" /\ polled_interrupt' = "None" /\ ~trigger_dma'
          /\ trigger_dma' \in BOOLEAN /\ servicing' = servicing
      BY <1>3, <1>8 DEF DmaWrite, Continue
    <2>2. dma_offset' < PageSize
      BY <1>2, <1>3, <1>8 DEF DmaPageDone
    <2>3. TypeOK'
      BY <1>1, <1>2, <2>1, CycleCounted, IdleTyped DEF IInv, TypeOK, DmaStates
    <2> QED
      BY <1>2, <1>5, <1>6, <2>1, <2>2, <2>3 DEF IInv, PollInv, TriggerInv, DmaInv,
         InterruptInv, OperandInv, ExecutedInv, InstructionInv, LateInv, Boundary,
         InterruptStates, Inside, CpuStates
  <1> QED
    BY <1>7, <1>8

-----------------------------------------------------------------------------
(* The theorems *)

LEMMA ClockKeepsIInv ==
    ASSUME IInv, NEW nmi \in BOOLEAN, NEW irq \in BOOLEAN, Clock(nmi, irq)
    PROVE  IInv'
  <1>1. CountCycle
    BY DEF Clock
  <1>2. CASE StepCpu(nmi, irq)
    BY <1>1, <1>2, FetchOpcodeKeepsIInv, ThrowawayReadKeepsIInv, FillOperandKeepsIInv,
       ReadWithoutCarryKeepsIInv, ReadOperandKeepsIInv, BranchNotTakenKeepsIInv,
       BranchLeavesPageKeepsIInv, BranchCrossesPageBoundaryKeepsIInv, StepInsideKeepsIInv,
       PushRegisterOnStackKeepsIInv, PullStatusForReturnKeepsIInv, FinishWithPollKeepsIInv,
       WritingResultKeepsIInv
    DEF StepCpu
  <1>3. CASE StepInterruptHandler(nmi, irq)
    BY <1>1, <1>3, StepInterruptKeepsIInv, PushStatusRegisterKeepsIInv, PullIRQVecLowKeepsIInv
    DEF StepInterruptHandler
  <1>4. CASE StepDmaHandler
    BY <1>1, <1>4, StartDmaReadKeepsIInv, DmaReadKeepsIInv, DmaReadOverflowsKeepsIInv,
       DmaWriteKeepsIInv
    DEF StepDmaHandler
  <1> QED
    BY <1>2, <1>3, <1>4 DEF Clock

LEMMA StutterKeepsIInv ==
    ASSUME IInv, UNCHANGED vars
    PROVE  IInv'
  <1> USE DEF vars
  <1>1. TypeOK'
    BY DEF IInv, TypeOK
  <1>2. PollInv' /\ TriggerInv' /\ DmaInv' /\ InterruptInv' /\ LateInv'
    BY DEF IInv, PollInv, TriggerInv, DmaInv, InterruptInv, LateInv
  <1>3. OperandInv' /\ ExecutedInv' /\ InstructionInv'
    BY DEF IInv, OperandInv, ExecutedInv, InstructionInv
  <1> QED
    BY <1>1, <1>2, <1>3 DEF IInv

\* IInv holds in every cycle (Cpu::clock), for every program.
THEOREM Inductive == Spec => []IInv
  <1>1. ASSUME IInv, [Next]_vars
        PROVE  IInv'
    BY <1>1, ClockKeepsIInv, StutterKeepsIInv DEF Next
  <1> QED
    BY <1>1, InitIInv, PTL DEF Spec

\* Every field of the CPU keeps its type: no operand Option is filled twice, no DMA offset
\* leaves its page, no unit of work runs on.
THEOREM TypeCorrect == Spec => []TypeOK
  <1>1. IInv => TypeOK
    BY DEF IInv
  <1> QED
    BY <1>1, Inductive, PTL

\* Every instruction, interrupt sequence and DMA takes the cycles it should (the step_*
\* functions, for every instruction of OPCODE_TABLE and every page size).
THEOREM CyclesCorrect == Spec => []CycleExact
  <1>1. IInv => CycleExact
    BY DEF IInv, TypeOK, InstructionInv, InterruptInv, DmaInv, CycleExact
  <1> QED
    BY <1>1, Inductive, PTL

\* Every instruction leaves the program counter behind its last byte
\* (read_and_inc_program_counter).
THEOREM BytesCorrect == Spec => []ConsumesItsBytes
  <1>1. IInv => ConsumesItsBytes
    BY DEF IInv, InstructionInv, ConsumesItsBytes, Boundary
  <1> QED
    BY <1>1, Inductive, PTL

\* No polled interrupt and no triggered DMA is fetched over (Cpu::clock).
THEOREM NothingIsOverlooked == Spec => []NothingOverlooked
  <1>1. IInv => NothingOverlooked
    BY DEF IInv, PollInv, TriggerInv, NothingOverlooked, DmaStates, InterruptStates
  <1> QED
    BY <1>1, Inductive, PTL

\* OAM DMA stays aligned with the CPU's odd and even cycles and moves the whole page
\* (step_dma_handler).
THEOREM DmaStaysAligned == Spec => []DmaAligned
  <1>1. IInv => DmaAligned
    BY DEF IInv, DmaInv, DmaAligned
  <1> QED
    BY <1>1, Inductive, PTL

-----------------------------------------------------------------------------
(* The flag an instruction started with *)

\* While an instruction runs, the disable flag is the one it started with, but for RTI.
MaskInv ==
    /\ state \in Inside => masked = irq_disable \/ instr.op = "RTI"
    /\ state = "InternalOps1" /\ servicing = "IRQ" /\ masked => instr.op = "RTI"

\* A unit of work that ends with no IRQ polled under a flag that was up at its start.
LEMMA EndUnitMasks ==
    ASSUME NEW pending, NEW dma, EndUnit(pending, dma),
           pending = "IRQ" => (masked' => instr'.op = "RTI")
    PROVE  MaskInv'
  BY DEF EndUnit, StartInterrupt, StartDma, NextInstruction, MaskInv, Inside, CpuStates

\* The cycles inside an instruction.
LEMMA InsideMasks ==
    ASSUME IInv, MaskInv, NEW nmi \in BOOLEAN, NEW irq \in BOOLEAN, StepCpu(nmi, irq),
           state \in Inside, masked' = masked
    PROVE  MaskInv'
  <1>1. /\ masked = irq_disable \/ instr.op = "RTI"
        /\ polled_interrupt = "IRQ" => ~irq_disable
        /\ irq_disable \in BOOLEAN /\ masked \in BOOLEAN
    BY DEF MaskInv, IInv, TypeOK, PollInv
  <1>2. Polled(nmi, irq) = "IRQ" => ~irq_disable
    BY <1>1 DEF Polled
  <1>3. instr' = instr
    BY DEF StepCpu, FetchOpcode, ThrowawayRead, FillOperand, ReadWithoutCarry, ReadOperand,
           BranchNotTaken, BranchLeavesPage, BranchCrossesPageBoundary, StepInside,
           PushRegisterOnStack, PullStatusForReturn, FinishWithPoll, WritingResult,
           operandVars, Inside
  <1>4. ASSUME NEW pending, NEW dma, EndUnit(pending, dma), pending = "IRQ" => ~irq_disable
        PROVE  MaskInv'
    <2>1. pending = "IRQ" => (masked' => instr'.op = "RTI")
      BY <1>1, <1>3, <1>4
    <2> QED
      BY <1>4, <2>1, EndUnitMasks
  <1>5. ASSUME state' # "InternalOps1", irq_disable' = irq_disable \/ instr.op = "RTI"
        PROVE  MaskInv'
    BY <1>1, <1>3, <1>5 DEF MaskInv
  <1>6. ASSUME NEW read, Execute(read, nmi, irq)
        PROVE  MaskInv'
    <2>1. CASE ExecuteAndFinish(read, nmi, irq)
      BY <1>2, <1>4, <2>1 DEF ExecuteAndFinish
    <2>2. CASE ExecuteModify(read)
      BY <1>5, <2>2 DEF ExecuteModify, Continue
    <2>3. CASE ExecuteBreak
      BY <1>5, <2>3 DEF ExecuteBreak, Continue
    <2>4. CASE ExecutePush(nmi, irq)
      BY <1>5, <2>4 DEF ExecutePush, Continue
    <2>5. CASE ExecuteAndContinue(read)
      BY <1>5, <2>5 DEF ExecuteAndContinue, StateAfterExecute, Continue
    <2>6. CASE ExecuteUnimplemented
      BY <1>5, <2>6 DEF ExecuteUnimplemented, Panic, Continue
    <2> QED
      BY <1>6, <2>1, <2>2, <2>3, <2>4, <2>5, <2>6 DEF Execute
  <1>7. CASE ThrowawayRead(nmi, irq) \/ ReadOperand(nmi, irq)
             \/ BranchCrossesPageBoundary(nmi, irq)
    BY <1>6, <1>7 DEF ThrowawayRead, ReadOperand, BranchCrossesPageBoundary
  <1>8. CASE FillOperand \/ ReadWithoutCarry \/ BranchLeavesPage
    BY <1>5, <1>8 DEF FillOperand, ReadWithoutCarry, OperandFilled, BranchLeavesPage, Continue
  <1>9. CASE BranchNotTaken \/ PushRegisterOnStack
    BY <1>1, <1>4, <1>9 DEF BranchNotTaken, PushRegisterOnStack
  <1>10. CASE StepInside
    BY <1>5, <1>10 DEF StepInside, CpuSuccessor
  <1>11. CASE PullStatusForReturn
    BY <1>5, <1>11 DEF PullStatusForReturn
  <1>12. CASE FinishWithPoll(nmi, irq)
    BY <1>2, <1>4, <1>12 DEF FinishWithPoll
  <1>13. CASE WritingResult(nmi, irq)
    BY <1>2, <1>4, <1>13 DEF WritingResult
  <1> QED
    BY <1>7, <1>8, <1>9, <1>10, <1>11, <1>12, <1>13 DEF StepCpu, FetchOpcode, Inside

LEMMA ClockKeepsMaskInv ==
    ASSUME IInv, MaskInv, NEW nmi \in BOOLEAN, NEW irq \in BOOLEAN, Clock(nmi, irq)
    PROVE  MaskInv'
  <1>1. masked' = IF state = "FetchOpcode" THEN irq_disable ELSE masked
    BY DEF Clock, CountCycle
  <1>2. CASE FetchOpcode
    BY <1>1, <1>2 DEF FetchOpcode, Continue, MaskInv
  <1>3. CASE StepCpu(nmi, irq) /\ ~FetchOpcode
    <2>1. state \in Inside
      BY <1>3 DEF StepCpu, ThrowawayRead, FillOperand, ReadWithoutCarry, OperandFilled,
         ReadOperand, BranchNotTaken, BranchLeavesPage, BranchCrossesPageBoundary, StepInside,
         PushRegisterOnStack, PullStatusForReturn, FinishWithPoll, PollsLast, WritingResult,
         Inside, CpuStates
    <2>2. masked' = masked
      BY <1>1, <2>1 DEF Inside
    <2> QED
      BY <1>3, <2>1, <2>2, InsideMasks
  <1>4. CASE StepInterruptHandler(nmi, irq)
    <2>1. CASE StepInterrupt
      BY <2>1 DEF StepInterrupt, InterruptSuccessor, MaskInv, Inside, CpuStates
    <2>2. CASE PushStatusRegister(nmi, irq)
      BY <2>2 DEF PushStatusRegister, Continue, MaskInv, Inside, CpuStates
    <2>3. CASE PullIRQVecLow
      <3>1. polled_interrupt = "None" /\ EndUnit(polled_interrupt, trigger_dma)
        BY <2>3, InsideInterrupt DEF PullIRQVecLow, InterruptStates
      <3> QED
        BY <3>1, EndUnitMasks
    <2> QED
      BY <1>4, <2>1, <2>2, <2>3 DEF StepInterruptHandler
  <1>5. CASE StepDmaHandler
    <2>1. polled_interrupt = "None"
      BY <1>5 DEF StepDmaHandler, StartDmaRead, DmaRead, DmaReadOverflows, DmaWrite, IInv, PollInv
    <2>2. CASE DmaWrite /\ DmaPageDone
      BY <2>1, <2>2, EndUnitMasks DEF DmaWrite
    <2>3. CASE ~(DmaWrite /\ DmaPageDone)
      BY <1>5, <2>3 DEF StepDmaHandler, StartDmaRead, DmaRead, DmaReadOverflows, Panic, DmaWrite,
         Continue, MaskInv, Inside, CpuStates
    <2> QED
      BY <2>2, <2>3
  <1> QED
    BY <1>2, <1>3, <1>4, <1>5 DEF Clock

\* No instruction but RTI, that started with IRQs masked, is followed by one, and only one that
\* has just raised the disable flag lets an IRQ through under it (poll_for_interrupts).
THEOREM MaskingCorrect == Spec => []MaskedIrqIsLate
  <1>1. Init => MaskInv
    BY DEF Init, MaskInv, Inside
  <1>2. ASSUME IInv, MaskInv, [Next]_vars
        PROVE  MaskInv'
    <2>1. CASE Next
      BY <1>2, <2>1, ClockKeepsMaskInv DEF Next
    <2>2. CASE UNCHANGED vars
      BY <1>2, <2>2 DEF vars, MaskInv
    <2> QED
      BY <1>2, <2>1, <2>2
  <1>3. IInv /\ MaskInv => MaskedIrqIsLate
    BY DEF IInv, LateInv, MaskInv, MaskedIrqIsLate
  <1> QED
    BY <1>1, <1>2, <1>3, Inductive, PTL DEF Spec
=============================================================================
