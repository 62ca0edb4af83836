------------------------------- MODULE MCNes -------------------------------
(* TLC instance of Nes: a small frame and a program of the instructions that race with it. *)
EXTENDS Nes

Operand(op, mode, target, flag) ==
    [op |-> op, mode |-> mode, target |-> target, stray |-> target, crosses |-> FALSE,
     flag |-> flag]

\* Accesses to the two registers that race with the frame, and instructions of each kind of
\* ending: a poll in the last cycle, a poll before it (Push), none (Branch, BRK, DMA).
RacingProgram ==
    {Operand("Load", "Absolute", "PPUSTATUS", FALSE),
     Operand("Inherent", "Implied", "memory", FALSE),
     Operand("Push", "Implied", "memory", FALSE),
     Operand("RTI", "Implied", "memory", FALSE),
     Operand("BRK", "Implied", "memory", FALSE),
     Operand("Branch", "Relative", "memory", FALSE),
     Operand("Store", "Absolute", "OAMDMA", FALSE)}
    \cup {Operand(op, "Absolute", "PPUCTRL", f) : op \in {"Store", "Modify"}, f \in BOOLEAN}

\* A program in which every instruction polls.
PollingProgram ==
    {Operand("Load", "Absolute", "PPUSTATUS", FALSE),
     Operand("Store", "Absolute", "PPUCTRL", FALSE),
     Operand("Modify", "Absolute", "PPUCTRL", TRUE),
     Operand("RTI", "Implied", "memory", FALSE),
     Operand("Push", "Implied", "memory", FALSE)}
=============================================================================
