----------------------------- MODULE Mmc1Port -----------------------------
(***************************************************************************)
(* What the CPU is promised by an MMC1 (mapper 1): one serial port.  Each   *)
(* write of the CPU hands over one bit, the fifth loads a register with the *)
(* five, and a byte with bit 7 set empties the port and resets the control  *)
(* register.  Nothing that is mapped changes at any other time.             *)
(***************************************************************************)
EXTENDS Naturals, Sequences

VARIABLES
    bits,     \* the bits handed over so far, the first first
    control,  \* the control register, decoded
    mapped    \* everything else the two chips map: banks, RAM

vars == <<bits, control, mapped>>

\* The control register's five bits, the lowest first.
Decoded(b) ==
    [prg |-> IF b[4] = 0 THEN "Switch32KB"
             ELSE IF b[3] = 0 THEN "FixFirst16KB" ELSE "FixLast16KB",
     chr |-> IF b[5] = 0 THEN "Switch8KB" ELSE "Switch4KB",
     mirroring |-> CASE b[1] = 0 /\ b[2] = 0 -> "OneScreenLowerBank"
                     [] b[1] = 1 /\ b[2] = 0 -> "OneScreenUpperBank"
                     [] b[1] = 0 /\ b[2] = 1 -> "Vertical"
                     [] OTHER -> "Horizontal"]

Init == bits = <<>> /\ control = Decoded(<<0, 0, 1, 1, 1>>)

HandOver ==
    /\ Len(bits) < 4
    /\ \E b \in {0, 1} : bits' = Append(bits, b)
    /\ UNCHANGED <<control, mapped>>

\* A bank register maps something else, the control register may.
Load ==
    /\ Len(bits) = 4
    /\ bits' = <<>>
    /\ \/ UNCHANGED control
       \/ \E b \in {0, 1} : control' = Decoded(Append(bits, b))

Reset == bits' = <<>> /\ control' = Decoded(<<0, 0, 1, 1, 0>>)

Next == HandOver \/ Load \/ Reset

Spec == Init /\ [][Next]_vars
=============================================================================
