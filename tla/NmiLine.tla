------------------------------ MODULE NmiLine ------------------------------
(***************************************************************************)
(* What the PPU promises the CPU about NMI: the PPU drives one output line, *)
(* and the CPU detects its rising edges.  An edge is fresh for a few dots,  *)
(* when the line may still take it back, and ripe after that, when it stays *)
(* until the CPU takes it.                                                  *)
(***************************************************************************)
VARIABLES
    output,  \* the NMI output of the PPU
    edge     \* "none", or the detected edge the CPU has not taken: "fresh", "ripe"

Init == output = FALSE /\ edge = "none"

Rising == ~output /\ output'

\* A new edge, which also stands for an older one that was not taken.
Detect == Rising /\ edge' = "fresh"

Settle == ~Rising /\ edge = "fresh" /\ edge' \in {"fresh", "ripe"}

\* Only a falling output takes an edge back, and only a fresh one.
TakeBack == output /\ ~output' /\ edge = "fresh" /\ edge' = "none"

Deliver == ~Rising /\ edge = "ripe" /\ edge' = "none"

Hold == ~Rising /\ edge \in {"none", "ripe"} /\ edge' = edge

Next ==
    /\ output' \in BOOLEAN
    /\ Detect \/ Settle \/ TakeBack \/ Deliver \/ Hold

Spec == Init /\ [][Next]_<<output, edge>>
=============================================================================
