---------------------------- MODULE CpuSequencer ----------------------------
(***************************************************************************)
(* The cycle sequencer of the 6502 CPU (emulator/src/cpu/mod.rs, opcodes.rs *)
(* and interrupts.rs): one step of this module is one call of Cpu::clock,   *)
(* that is one CPU cycle.  It runs instructions, interrupt sequences and    *)
(* OAM DMA transfers.                                                       *)
(*                                                                          *)
(* Data is abstracted: register and memory contents are left out, opcodes   *)
(* are grouped by the shape `execute` gives them, and what the operand      *)
(* bytes of an instruction turn out to select is chosen when it is fetched. *)
(* What the rest of the console sees of a cycle is kept in `bus`.           *)
(***************************************************************************)
EXTENDS Naturals

CONSTANTS
    Targets,        \* what an operand address selects: plain memory or an I/O register
    PageSize,       \* bytes one OAM DMA moves (256 in the code)
    Program,        \* the instructions that occur: some of Instructions, below
    OverflowChecks  \* TRUE for a build whose integer overflow panics (debug, tests)

ASSUME TargetsAssumption == {"memory", "OAMDMA"} \subseteq Targets
ASSUME PageSizeAssumption == PageSize \in Nat \ {0}
ASSUME OverflowChecksAssumption == OverflowChecks \in BOOLEAN

VARIABLES
    state,            \* the State / CpuState / InterruptState / DmaState variant
    instr,            \* the instruction in flight, as its operand bytes will turn out
    filled,           \* ReadingOperand: how many of its Option fields are filled
    checked,          \* ReadingOperand: checked_page_boundary
    servicing,        \* the Interrupt an InterruptState carries
    polled_interrupt, \* Option<Interrupt>
    irq_disable,      \* INTERRUPT_DISABLE_FLAG of the status register
    trigger_dma,
    dma_offset,       \* dma_address within its page
    dma_top,          \* dma_address is in page $FF
    odd,              \* cycles & 1
    bus,              \* what the latest cycle did: register read, poll, register write
    unit, elapsed, consumed, masked
        \* History: what runs (instruction, interrupt sequence, DMA), the cycles it
        \* has taken, the program bytes the instruction has consumed, and the disable
        \* flag the instruction started with.

vars == <<state, instr, filled, checked, servicing, polled_interrupt, irq_disable,
          trigger_dma, dma_offset, dma_top, odd, bus, unit, elapsed, consumed,
          masked>>

-----------------------------------------------------------------------------
(* Instructions *)

\* Operations that share a control flow share a name.
Operations ==
    {"Load",     \* polls, uses the operand: ADC AND BIT CMP ... LDA LAX NOP ORA SBC
     "Inherent", \* polls, touches registers only: CLC DEX NOP TAX ..., ASL A ...
     "CLI", "SEI",
     "Store",    \* InstructionType::Write
     "Modify",   \* InstructionType::ReadModifyWrite on memory
     "Branch", "JMP", "JSR", "BRK", "RTI", "RTS",
     "Push",     \* PHA PHP
     "PLA", "PLP",
     "Unimplemented"}  \* KIL and the operations that are todo!()

\* The X and Y flavours of an indexed mode behave alike.
Modes == {"Accumulator", "Absolute", "AbsoluteIndexed", "Immediate", "Implied", "Indirect",
          "IndirectXIndexed", "IndirectYIndexed", "Relative", "ZeroPage", "ZeroPageIndexed"}

DataModes == {"Absolute", "AbsoluteIndexed", "IndirectXIndexed", "IndirectYIndexed",
              "ZeroPage", "ZeroPageIndexed"}

OPCODE_TABLE ==
    ({"Load", "Store", "Modify"} \X DataModes)
    \cup ({"Inherent", "CLI", "SEI", "BRK", "RTI", "RTS", "Push", "PLA", "PLP",
           "Unimplemented"} \X {"Implied"})
    \cup ({"Unimplemented"} \X {"Immediate", "AbsoluteIndexed", "IndirectYIndexed"})
    \cup {<<"Load", "Immediate">>, <<"Inherent", "Accumulator">>, <<"Branch", "Relative">>,
          <<"JMP", "Absolute">>, <<"JMP", "Indirect">>, <<"JSR", "Absolute">>}

Instruction == [op : Operations, mode : Modes, target : Targets, stray : Targets,
                crosses : BOOLEAN, flag : BOOLEAN]

IndexedModes == {"AbsoluteIndexed", "IndirectYIndexed"}

\* target:  what the effective address selects;
\* stray:   what the indexed address without its carry selects;
\* crosses: indexing, or the branch, leaves the page;
\* flag:    the bit of the data that control depends on: the branch is taken, the
\*          interrupt-disable bit that PLP or RTI pulls, the bit that matters of the
\*          value written to a register (for OAMDMA: the page is $FF).
Instructions ==
    {i \in Instruction :
        /\ <<i.op, i.mode>> \in OPCODE_TABLE
        /\ i.target # "memory" =>
              i.op \in {"Load", "Store", "Modify"}
              /\ i.mode \in IndexedModes \cup {"Absolute", "IndirectXIndexed"}
        /\ i.crosses => i.mode \in IndexedModes \/ (i.op = "Branch" /\ i.flag)
        /\ i.stray # i.target => i.crosses /\ i.mode \in IndexedModes
        /\ i.flag => \/ i.op \in {"Branch", "PLP", "RTI"}
                     \/ i.op \in {"Store", "Modify"} /\ i.target # "memory"}

ASSUME ProgramAssumption == Program \subseteq Instructions

\* Bytes that follow the opcode: each is read with read_and_inc_program_counter.
OperandBytes(mode) ==
    CASE mode \in {"Accumulator", "Implied"} -> 0
      [] mode \in {"Absolute", "AbsoluteIndexed", "Indirect"} -> 2
      [] OTHER -> 1

\* How many ReadingOperand cycles of an instruction only fill an Option field; the one
\* after them executes it, unless an indexed address has to be fixed up first.
FillCycles(i) ==
    CASE i.mode \in {"Immediate", "Relative"} -> 0
      [] i.mode = "ZeroPage"         -> IF i.op = "Store" THEN 0 ELSE 1
      [] i.mode = "ZeroPageIndexed"  -> IF i.op = "Store" THEN 1 ELSE 2
      [] i.mode = "Absolute"         -> IF i.op \in {"Store", "JMP", "JSR"} THEN 1 ELSE 2
      [] i.mode = "AbsoluteIndexed"  -> 2
      [] i.mode \in {"Indirect", "IndirectYIndexed"} -> 3
      [] i.mode = "IndirectXIndexed" -> IF i.op = "Store" THEN 3 ELSE 4
      [] OTHER -> 0

\* Faulty: every (zp),Y read is made twice.
ReadsTwiceAlways(i) ==
    \/ i.mode = "AbsoluteIndexed" /\ i.op = "Load" /\ i.crosses
    \/ i.mode = "AbsoluteIndexed" /\ i.op = "Modify"
    \/ i.mode = "IndirectYIndexed" /\ i.op \in {"Load", "Modify"}

\* An indexed operand is read first without the carry and then again: a Load, and a
\* Modify that goes through (zp),Y, only when that read hit the wrong page.
ReadsTwice(i) ==
    \/ i.mode = "AbsoluteIndexed" /\ i.op = "Load" /\ i.crosses
    \/ i.mode = "AbsoluteIndexed" /\ i.op = "Modify"
    \/ i.mode = "IndirectYIndexed" /\ i.op \in {"Load", "Modify"} /\ i.crosses

-----------------------------------------------------------------------------
(* States *)

Interrupts == {"NMI", "IRQ", "IRQ_BRK"}

CpuStates == {"FetchOpcode", "ThrowawayRead", "ReadingOperand", "BranchCrossesPageBoundary",
              "PushRegisterOnStack", "PreIncrementStackPointer", "PullRegisterFromStack",
              "PullPCLFromStack", "PullPCHFromStack", "IncrementProgramCounter",
              "WritePCHToStack", "WritePCLToStack", "SetProgramCounter",
              "WritingResultDummy", "WritingResult"}

InterruptStates == {"InternalOps1", "InternalOps2", "PushPCH", "PushPCL",
                    "PushStatusRegister", "PullIRQVecHigh", "PullIRQVecLow"}

DmaStates == {"DummyCycle", "OddCpuCycle", "ReadCycle", "WriteCycle"}

\* The states a unit of work starts in; entering one ends the unit before it.
Boundary == {"FetchOpcode", "InternalOps1", "DummyCycle"}

\* A cycle's accesses happen in this order; "memory" is any access without a side effect.
Access == [read : Targets, poll : {"none", "clear", "keep"}, write : Targets,
           dummy : BOOLEAN]  \* dummy: the write puts back the value that was just read

Idle == [read |-> "memory", poll |-> "none", write |-> "memory", dummy |-> FALSE]

\* Bound of the history variable `elapsed`: more than any unit of work takes.
ElapsedLimit == 2 * PageSize + 10

TypeOK ==
    /\ state \in CpuStates \cup InterruptStates \cup DmaStates \cup {"Panicked"}
    /\ instr \in Instructions
    /\ filled \in 0..4
    /\ checked \in BOOLEAN
    /\ servicing \in Interrupts
    /\ polled_interrupt \in {"None", "NMI", "IRQ"}
    /\ irq_disable \in BOOLEAN
    /\ trigger_dma \in BOOLEAN
    /\ dma_offset \in 0..PageSize
    /\ dma_top \in BOOLEAN
    /\ odd \in BOOLEAN
    /\ bus \in Access
    /\ unit \in {"reset", "instruction", "interrupt", "dma"}
    /\ elapsed \in 0..ElapsedLimit
    /\ consumed \in 0..3
    /\ masked \in BOOLEAN

SomeInstruction == [op |-> "Inherent", mode |-> "Implied", target |-> "memory",
                    stray |-> "memory", crosses |-> FALSE, flag |-> FALSE]

Init ==
    /\ state = "FetchOpcode"
    /\ instr = SomeInstruction
    /\ filled = 0
    /\ checked = FALSE
    /\ servicing = "IRQ_BRK"
    /\ polled_interrupt = "None"
    /\ irq_disable = TRUE
    /\ trigger_dma = FALSE
    /\ dma_offset = 0
    /\ dma_top = FALSE
    /\ odd = FALSE
    /\ bus = Idle
    /\ unit = "reset" /\ elapsed = 0 /\ consumed = 0 /\ masked = TRUE

-----------------------------------------------------------------------------
(* What every cycle does *)

operandVars == <<instr, filled, checked, consumed>>
dmaVars == <<dma_offset, dma_top>>

\* poll_for_interrupts: polled_interrupt after a poll that finds an NMI ready (nmi) or an
\* IRQ asserted (irq).
Polled(nmi, irq) ==
    CASE nmi -> "NMI"
      [] ~nmi /\ irq /\ ~irq_disable -> "IRQ"
      [] OTHER -> polled_interrupt

\* clock: the state stepped to is not FetchOpcode.
Continue(next, pending, dma) ==
    /\ state' = next
    /\ polled_interrupt' = pending
    /\ trigger_dma' = dma

\* clock: the state stepped to is FetchOpcode, where a polled interrupt is taken first,
\* then a triggered DMA.
StartInterrupt(pending, dma) ==
    /\ pending # "None"
    /\ state' = "InternalOps1"
    /\ servicing' = pending
    /\ polled_interrupt' = "None"
    /\ trigger_dma' = dma

\* Faulty: a triggered DMA does not wait for a polled interrupt.
StartDmaFirst(pending, dma) ==
    /\ dma
    /\ state' = "DummyCycle"
    /\ trigger_dma' = FALSE
    /\ polled_interrupt' = pending
    /\ UNCHANGED servicing

StartDma(pending, dma) ==
    /\ pending = "None" /\ dma
    /\ state' = "DummyCycle"
    /\ trigger_dma' = FALSE
    /\ UNCHANGED <<servicing, polled_interrupt>>

NextInstruction(pending, dma) ==
    /\ pending = "None" /\ ~dma
    /\ state' = "FetchOpcode"
    /\ UNCHANGED <<servicing, polled_interrupt, trigger_dma>>

EndUnit(pending, dma) ==
    \/ StartInterrupt(pending, dma)
    \/ StartDma(pending, dma)
    \/ NextInstruction(pending, dma)

\* cycles += 1, and the history variables that go with it.
CountCycle ==
    /\ odd' = ~odd
    /\ elapsed' = CASE state \in Boundary -> 1
                    [] state \notin Boundary /\ elapsed < ElapsedLimit -> elapsed + 1
                    [] OTHER -> elapsed
    /\ unit' = CASE state = "FetchOpcode"  -> "instruction"
                 [] state = "InternalOps1" -> "interrupt"
                 [] state = "DummyCycle"   -> "dma"
                 [] OTHER -> unit
    /\ masked' = IF state = "FetchOpcode" THEN irq_disable ELSE masked

\* write_byte: of the registers an instruction writes, only OAMDMA is the sequencer's.
TriggerDma(target) == trigger_dma \/ target = "OAMDMA"

SetDmaAddress(target, top) ==
    IF target = "OAMDMA" THEN dma_offset' = 0 /\ dma_top' = top ELSE UNCHANGED dmaVars

Panic ==
    /\ Continue("Panicked", polled_interrupt, trigger_dma)
    /\ bus' = Idle
    /\ UNCHANGED <<servicing, irq_disable, dmaVars>>

-----------------------------------------------------------------------------
(* Opcode::execute.  `read` is the register the operand read of this cycle hit. *)

\* Faulty: CLI and SEI change the flag first and then poll.
ExecuteAndPoll(read, nmi, irq) ==
    /\ instr.op \in {"Load", "Inherent", "CLI", "SEI", "JMP"}
    /\ bus' = [Idle EXCEPT !.read = read, !.poll = "clear"]
    /\ irq_disable' = CASE instr.op = "CLI" -> FALSE
                        [] instr.op = "SEI" -> TRUE
                        [] OTHER -> irq_disable
    /\ EndUnit(IF ~nmi /\ irq /\ ~irq_disable' THEN "IRQ" ELSE Polled(nmi, FALSE), trigger_dma)
    /\ UNCHANGED dmaVars

\* An operation that is done once executed polls before it has its effect.
ExecuteAndFinish(read, nmi, irq) ==
    /\ instr.op \in {"Load", "Inherent", "CLI", "SEI", "JMP"}
    /\ bus' = [Idle EXCEPT !.read = read, !.poll = "clear"]
    /\ irq_disable' = CASE instr.op = "CLI" -> FALSE
                        [] instr.op = "SEI" -> TRUE
                        [] OTHER -> irq_disable
    /\ EndUnit(Polled(nmi, irq), trigger_dma)
    /\ UNCHANGED dmaVars

\* A read-modify-write operation writes the value back in the cycle that read it.
ExecuteModify(read) ==
    /\ instr.op = "Modify"
    /\ bus' = [Idle EXCEPT !.read = read, !.write = instr.target, !.dummy = TRUE]
    /\ SetDmaAddress(instr.target, FALSE)
    /\ Continue("WritingResultDummy", polled_interrupt, TriggerDma(instr.target))
    /\ UNCHANGED <<servicing, irq_disable>>

\* The interrupt sequence of BRK skips the internal operations.
ExecuteBreak ==
    /\ instr.op = "BRK"
    /\ servicing' = "IRQ_BRK"
    /\ Continue("PushPCH", polled_interrupt, trigger_dma)
    /\ bus' = Idle
    /\ UNCHANGED <<irq_disable, dmaVars>>

\* PHA and PHP poll here, one cycle before the push that ends them.
ExecutePush(nmi, irq) ==
    /\ instr.op = "Push"
    /\ Continue("PushRegisterOnStack", Polled(nmi, irq), trigger_dma)
    /\ bus' = [Idle EXCEPT !.poll = "clear"]
    /\ UNCHANGED <<servicing, irq_disable, dmaVars>>

StateAfterExecute(op) ==
    CASE op = "Store"  -> "WritingResult"
      [] op = "Branch" -> "SetProgramCounter"
      [] op = "JSR"    -> "WritePCHToStack"
      [] OTHER         -> "PreIncrementStackPointer"

ExecuteAndContinue(read) ==
    /\ instr.op \in {"Store", "Branch", "JSR", "PLA", "PLP", "RTI", "RTS"}
    /\ Continue(StateAfterExecute(instr.op), polled_interrupt, trigger_dma)
    /\ bus' = [Idle EXCEPT !.read = read]
    /\ UNCHANGED <<servicing, irq_disable, dmaVars>>

\* The operand's instruction_type(), or the operation itself, is a todo!().
ExecuteUnimplemented == instr.op = "Unimplemented" /\ Panic

Execute(read, nmi, irq) ==
    \/ ExecuteAndFinish(read, nmi, irq)
    \/ ExecuteModify(read)
    \/ ExecuteBreak
    \/ ExecutePush(nmi, irq)
    \/ ExecuteAndContinue(read)
    \/ ExecuteUnimplemented

-----------------------------------------------------------------------------
(* step_cpu: from the opcode to the execution of the instruction *)

FetchOpcode ==
    /\ state = "FetchOpcode"
    /\ instr' \in Program
    /\ filled' = 0 /\ checked' = FALSE /\ consumed' = 1
    /\ Continue(IF instr'.mode \in {"Accumulator", "Implied"} THEN "ThrowawayRead"
                                                            ELSE "ReadingOperand",
                polled_interrupt, trigger_dma)
    /\ bus' = Idle
    /\ UNCHANGED <<servicing, irq_disable, dmaVars>>

\* BRK skips a byte, other inherent instructions read the next opcode and leave it.
ThrowawayRead(nmi, irq) ==
    /\ state = "ThrowawayRead"
    /\ consumed' = IF instr.op = "BRK" THEN consumed + 1 ELSE consumed
    /\ Execute("memory", nmi, irq)
    /\ UNCHANGED <<instr, filled, checked>>

\* Faulty: the last operand byte is read without advancing the program counter.
ConsumeOperandByteLate ==
    consumed' = IF filled + 1 < OperandBytes(instr.mode) THEN consumed + 1 ELSE consumed

ConsumeOperandByte ==
    consumed' = IF filled < OperandBytes(instr.mode) THEN consumed + 1 ELSE consumed

FillOperand ==
    /\ state = "ReadingOperand" /\ filled < FillCycles(instr)
    /\ filled' = filled + 1
    /\ ConsumeOperandByte
    /\ bus' = Idle
    /\ UNCHANGED <<instr, checked, state, servicing, polled_interrupt, trigger_dma,
                   irq_disable, dmaVars>>

OperandFilled == state = "ReadingOperand" /\ filled = FillCycles(instr)

\* The first of two reads: the high byte of the address has not had its carry yet.
ReadWithoutCarry ==
    /\ OperandFilled /\ ReadsTwice(instr) /\ ~checked
    /\ checked' = TRUE
    /\ bus' = [Idle EXCEPT !.read = instr.stray]
    /\ UNCHANGED <<instr, filled, consumed, state, servicing, polled_interrupt, trigger_dma,
                   irq_disable, dmaVars>>

\* An indexed Store reads the address without its carry in the cycle it executes in.
OperandRead(i) ==
    CASE i.op \in {"Load", "Modify"} -> i.target
      [] i.op = "Store" /\ i.mode \in IndexedModes -> i.stray
      [] OTHER -> "memory"

ReadOperand(nmi, irq) ==
    /\ OperandFilled /\ (ReadsTwice(instr) => checked)
    /\ instr.op = "Branch" => instr.flag /\ ~instr.crosses
    /\ ConsumeOperandByte
    /\ Execute(OperandRead(instr), nmi, irq)
    /\ UNCHANGED <<instr, filled, checked>>

\* A branch that is not taken ends here, without a poll.
BranchNotTaken ==
    /\ OperandFilled /\ instr.op = "Branch" /\ ~instr.flag
    /\ ConsumeOperandByte
    /\ EndUnit(polled_interrupt, trigger_dma)
    /\ bus' = Idle
    /\ UNCHANGED <<instr, filled, checked, irq_disable, dmaVars>>

BranchLeavesPage ==
    /\ OperandFilled /\ instr.op = "Branch" /\ instr.crosses
    /\ ConsumeOperandByte
    /\ Continue("BranchCrossesPageBoundary", polled_interrupt, trigger_dma)
    /\ bus' = Idle
    /\ UNCHANGED <<instr, filled, checked, servicing, irq_disable, dmaVars>>

BranchCrossesPageBoundary(nmi, irq) ==
    /\ state = "BranchCrossesPageBoundary"
    /\ Execute("memory", nmi, irq)
    /\ UNCHANGED operandVars

-----------------------------------------------------------------------------
(* step_cpu: the cycles after the one that executes *)

\* A cycle that only moves on to the next: stack accesses and the program counter are data.
CpuSuccessor(s, op) ==
    CASE s = "PreIncrementStackPointer" /\ op = "RTS" -> "PullPCLFromStack"
      [] s = "PreIncrementStackPointer" /\ op # "RTS" -> "PullRegisterFromStack"
      [] s = "PullPCLFromStack" -> "PullPCHFromStack"
      [] s = "PullPCHFromStack" -> "IncrementProgramCounter"  \* RTS
      [] s = "WritePCHToStack"  -> "WritePCLToStack"
      [] s = "WritePCLToStack"  -> "SetProgramCounter"
      [] s = "WritingResultDummy" -> "WritingResult"

StepInside ==
    /\ state \in {"PreIncrementStackPointer", "PullPCLFromStack", "PullPCHFromStack",
                  "WritePCHToStack", "WritePCLToStack", "WritingResultDummy"}
    /\ ~(state = "PullPCHFromStack" /\ instr.op = "RTI")
    /\ state' = CpuSuccessor(state, instr.op)
    /\ bus' = Idle
    /\ UNCHANGED <<operandVars, servicing, polled_interrupt, trigger_dma, irq_disable,
                   dmaVars>>

\* The push of PHA or PHP: the poll was in the cycle before.
PushRegisterOnStack ==
    /\ state = "PushRegisterOnStack"
    /\ EndUnit(polled_interrupt, trigger_dma)
    /\ bus' = Idle
    /\ UNCHANGED <<operandVars, irq_disable, dmaVars>>

\* RTI restores the flags two cycles before it polls.
PullStatusForReturn ==
    /\ state = "PullRegisterFromStack" /\ instr.op = "RTI"
    /\ irq_disable' = instr.flag
    /\ state' = "PullPCLFromStack"
    /\ bus' = Idle
    /\ UNCHANGED <<operandVars, servicing, polled_interrupt, trigger_dma, dmaVars>>

\* Every other last cycle polls, then has its effect.
PollsLast ==
    \/ state = "PullRegisterFromStack" /\ instr.op \in {"PLA", "PLP"}
    \/ state = "PullPCHFromStack" /\ instr.op = "RTI"
    \/ state \in {"IncrementProgramCounter", "SetProgramCounter"}

FinishWithPoll(nmi, irq) ==
    /\ PollsLast
    /\ bus' = [Idle EXCEPT !.poll = "clear"]
    /\ irq_disable' = IF instr.op = "PLP" THEN instr.flag ELSE irq_disable
    /\ EndUnit(Polled(nmi, irq), trigger_dma)
    /\ UNCHANGED <<operandVars, dmaVars>>

WritingResult(nmi, irq) ==
    /\ state = "WritingResult"
    /\ bus' = [Idle EXCEPT !.poll = "clear", !.write = instr.target]
    /\ SetDmaAddress(instr.target, instr.flag)
    /\ EndUnit(Polled(nmi, irq), TriggerDma(instr.target))
    /\ UNCHANGED <<operandVars, irq_disable>>

-----------------------------------------------------------------------------
(* step_interrupt_handler *)

\* Faulty: fetching the vector starts the pushes again.
InterruptSuccessorRestarts(s) ==
    CASE s = "InternalOps1" -> "InternalOps2"
      [] s = "InternalOps2" -> "PushPCH"
      [] s \in {"PushPCH", "PullIRQVecHigh"} -> "PushPCL"
      [] s = "PushPCL"      -> "PushStatusRegister"

InterruptSuccessor(s) ==
    CASE s = "InternalOps1" -> "InternalOps2"
      [] s = "InternalOps2" -> "PushPCH"
      [] s = "PushPCH"      -> "PushPCL"
      [] s = "PushPCL"      -> "PushStatusRegister"
      [] s = "PullIRQVecHigh" -> "PullIRQVecLow"

StepInterrupt ==
    /\ state \in {"InternalOps1", "InternalOps2", "PushPCH", "PushPCL", "PullIRQVecHigh"}
    /\ state' = InterruptSuccessor(state)
    /\ bus' = Idle
    /\ UNCHANGED <<operandVars, servicing, polled_interrupt, trigger_dma, irq_disable,
                   dmaVars>>

\* The interrupt whose vector is fetched, once an IRQ or a BRK has met a later poll.
Hijacked(i, polled) == IF polled = "None" \/ i = "NMI" THEN i ELSE polled

PushStatusRegister(nmi, irq) ==
    /\ state = "PushStatusRegister"
    /\ servicing' = Hijacked(servicing, Polled(nmi, irq))
    /\ Continue("PullIRQVecHigh", "None", trigger_dma)
    /\ irq_disable' = TRUE
    /\ bus' = [Idle EXCEPT !.poll = "keep"]
    /\ UNCHANGED <<operandVars, dmaVars>>

PullIRQVecLow ==
    /\ state = "PullIRQVecLow"
    /\ EndUnit(polled_interrupt, trigger_dma)
    /\ bus' = Idle
    /\ UNCHANGED <<operandVars, irq_disable, dmaVars>>

-----------------------------------------------------------------------------
(* step_dma_handler *)

\* Faulty: the alignment cycle is taken on the wrong parity.
StartDmaReadMisaligned ==
    /\ \/ state = "DummyCycle" /\ state' = IF odd THEN "ReadCycle" ELSE "OddCpuCycle"
       \/ state = "OddCpuCycle" /\ state' = "ReadCycle"
    /\ bus' = Idle
    /\ UNCHANGED <<operandVars, servicing, polled_interrupt, trigger_dma, irq_disable,
                   dmaVars>>

StartDmaRead ==
    /\ \/ state = "DummyCycle" /\ state' = IF odd THEN "OddCpuCycle" ELSE "ReadCycle"
       \/ state = "OddCpuCycle" /\ state' = "ReadCycle"
    /\ bus' = Idle
    /\ UNCHANGED <<operandVars, servicing, polled_interrupt, trigger_dma, irq_disable,
                   dmaVars>>

\* dma_address += 1 overflows after the last byte of page $FF.
DmaAddressOverflows == OverflowChecks /\ dma_top /\ dma_offset = PageSize - 1

DmaRead ==
    /\ state = "ReadCycle" /\ ~DmaAddressOverflows
    /\ dma_offset' = dma_offset + 1
    /\ state' = "WriteCycle"
    /\ bus' = Idle
    /\ UNCHANGED <<operandVars, servicing, polled_interrupt, trigger_dma, irq_disable,
                   dma_top>>

DmaReadOverflows ==
    /\ state = "ReadCycle" /\ DmaAddressOverflows
    /\ Panic
    /\ UNCHANGED operandVars

\* Faulty: one byte too many.
DmaPageDoneLate == dma_offset = PageSize + 1

\* The transfer ends when the low byte of dma_address is back at 0.
DmaPageDone == dma_offset = PageSize

DmaWrite ==
    /\ state = "WriteCycle"
    /\ IF DmaPageDone
       THEN EndUnit(polled_interrupt, trigger_dma)
       ELSE Continue("ReadCycle", polled_interrupt, trigger_dma) /\ UNCHANGED servicing
    /\ bus' = Idle
    /\ UNCHANGED <<operandVars, irq_disable, dmaVars>>

-----------------------------------------------------------------------------

StepCpu(nmi, irq) ==
    \/ FetchOpcode
    \/ ThrowawayRead(nmi, irq)
    \/ FillOperand
    \/ ReadWithoutCarry
    \/ ReadOperand(nmi, irq)
    \/ BranchNotTaken
    \/ BranchLeavesPage
    \/ BranchCrossesPageBoundary(nmi, irq)
    \/ StepInside
    \/ PushRegisterOnStack
    \/ PullStatusForReturn
    \/ FinishWithPoll(nmi, irq)
    \/ WritingResult(nmi, irq)

StepInterruptHandler(nmi, irq) ==
    \/ StepInterrupt
    \/ PushStatusRegister(nmi, irq)
    \/ PullIRQVecLow

StepDmaHandler ==
    \/ StartDmaRead
    \/ DmaRead
    \/ DmaReadOverflows
    \/ DmaWrite

\* Cpu::clock.  nmi and irq say what a poll in this cycle finds.
Clock(nmi, irq) ==
    /\ \/ StepCpu(nmi, irq)
       \/ StepInterruptHandler(nmi, irq)
       \/ StepDmaHandler
    /\ CountCycle

\* On its own the sequencer runs against lines that do anything.
Next == \E nmi, irq \in BOOLEAN : Clock(nmi, irq)

Spec == Init /\ [][Next]_vars

\* The front end calls Cpu::next for as long as it runs.
FairSpec == Spec /\ WF_vars(Next)

-----------------------------------------------------------------------------
(* Properties *)

\* The cycles a 6502 takes to read an operand, before anything is added.
ReadCycles(mode) ==
    CASE mode \in {"Accumulator", "Implied", "Immediate"} -> 2
      [] mode = "ZeroPage" -> 3
      [] mode \in {"ZeroPageIndexed", "Absolute", "AbsoluteIndexed"} -> 4
      [] mode = "IndirectYIndexed" -> 5
      [] mode = "IndirectXIndexed" -> 6

\* One cycle more to carry into the high byte: when there is a carry, and always before a
\* write.  The (zp),Y read-modify-write operations, which would always take it too, are as
\* the code has them.
CarryCycle(i) ==
    /\ i.mode \in IndexedModes
    /\ i.crosses \/ i.op = "Store" \/ (i.op = "Modify" /\ i.mode = "AbsoluteIndexed")

\* The cycles of an instruction.
InstructionCycles(i) ==
    CASE i.op = "Branch" -> IF ~i.flag THEN 2 ELSE IF i.crosses THEN 4 ELSE 3
      [] i.op = "JMP" -> IF i.mode = "Indirect" THEN 5 ELSE 3
      [] i.op \in {"JSR", "RTI", "RTS"} -> 6
      [] i.op = "BRK" -> 7
      [] i.op = "Push" -> 3
      [] i.op \in {"PLA", "PLP"} -> 4
      [] OTHER -> ReadCycles(i.mode) + (IF i.op = "Modify" THEN 2 ELSE 0)
                                     + (IF CarryCycle(i) THEN 1 ELSE 0)

\* Every unit of work takes the cycles the hardware takes, whatever interrupts and DMA run
\* before and after it: each instruction its own count, an interrupt sequence 7, a DMA two
\* per byte plus one to halt and one more if that was an odd cycle.
CycleExact ==
    state \in Boundary =>
        CASE unit = "instruction" -> elapsed = InstructionCycles(instr)
          [] unit = "interrupt"   -> elapsed = 7
          [] unit = "dma"         -> elapsed \in {2 * PageSize + 1, 2 * PageSize + 2}
          [] OTHER                -> TRUE

\* AddressingMode::instruction_length, and the signature byte that BRK skips.
InstructionLength(i) == IF i.op = "BRK" THEN 2 ELSE 1 + OperandBytes(i.mode)

\* A finished instruction has consumed all its bytes and no other, so the next opcode is
\* fetched from the right place (when the instruction itself does not jump), and the
\* address an interrupt pushes is that of the next instruction.
ConsumesItsBytes ==
    state \in Boundary /\ unit = "instruction" => consumed = InstructionLength(instr)

\* The CPU never fetches an opcode over a polled interrupt or a triggered DMA, a polled
\* interrupt never waits behind a DMA, and a triggered DMA waits for no more than the rest
\* of a read-modify-write and one interrupt sequence.
NothingOverlooked ==
    /\ state = "FetchOpcode" => polled_interrupt = "None" /\ ~trigger_dma
    /\ state \in DmaStates => polled_interrupt = "None"
    /\ trigger_dma =>
          \/ state \in InterruptStates /\ servicing # "IRQ_BRK"
          \/ state \in {"WritingResultDummy", "WritingResult"} /\ instr.target = "OAMDMA"

\* OAM DMA reads on odd CPU cycles and writes on even ones, so the alignment cycle is taken
\* exactly when it is needed; the offset is behind or at the number of bytes moved.
DmaAligned ==
    /\ state = "ReadCycle"  => odd /\ dma_offset < PageSize
    /\ state = "WriteCycle" => ~odd /\ dma_offset > 0
    /\ state \in Boundary /\ unit = "dma" => odd /\ dma_offset = PageSize

\* The poll goes by the disable flag "at the _start_ of that instruction" (mod.rs:210), for the
\* operations change the flag after it: an IRQ is taken with the flag up only when SEI or PLP
\* has just raised it, and after an instruction that started with the flag up never, CLI
\* included, except for RTI, which pulls the flag two cycles before it polls.
MaskedIrqIsLate ==
    state = "InternalOps1" /\ servicing = "IRQ" =>
        /\ irq_disable => unit = "instruction" /\ instr.op \in {"SEI", "PLP"}
        /\ masked => instr.op = "RTI"

\* Every instruction, interrupt sequence and DMA comes to an end, whatever the lines do.
UnitsEnd == []<>(state \in Boundary \cup {"Panicked"})

\* poll_for_interrupts "happens during the last cycle of an instruction" (mod.rs:210): the
\* cycle that ends an instruction polls.  BRK ends in the interrupt sequence, which has its
\* own poll, and an operation that panics does not end.
PollsInLastCycle ==
    state \in Boundary /\ unit = "instruction" /\ instr.op # "BRK" => bus.poll = "clear"

\* "Instructions which both read & write will always read twice" (mod.rs:407), which is
\* said of indexed addressing.
ModifyReadsTwice ==
    state = "WritingResultDummy" /\ instr.mode \in IndexedModes => checked
=============================================================================
