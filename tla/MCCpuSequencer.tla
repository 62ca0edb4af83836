-------------------------- MODULE MCCpuSequencer --------------------------
(* TLC instances of CpuSequencer. *)
EXTENDS CpuSequencer

\* Every instruction may occur.
AllInstructions == Instructions

\* A program of implemented instructions, for the runs that look for one behaviour.
Implemented == {i \in Instructions : i.op # "Unimplemented"}
=============================================================================
