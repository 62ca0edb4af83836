----------------------------- MODULE Cartridge -----------------------------
(***************************************************************************)
(* The cartridge that a file's header asks for (cartridge/mod.rs,           *)
(* from_file): an MMC1, whose writes are timed, or one of the other boards. *)
(***************************************************************************)
EXTENDS Mmc1, Boards

cartridge_vars == <<mmc1_vars, boards_vars>>

\* Mapper 155 is an MMC1 whose RAM cannot be disabled.
IsMmc1 == header.mapper \in {1, 155}

CartridgeInit ==
    /\ BoardsInit
    /\ Mmc1Init
    /\ IsMmc1 => \* its mirroring is not the header's
            /\ header.prg_units = PrgBanks /\ 2 * header.chr_units \in {0, ChrBanks}
            /\ header.mirroring = "Horizontal"

Mmc1Step == IsMmc1 /\ Mmc1Next /\ UNCHANGED boards_vars
BoardStep == ~IsMmc1 /\ BoardsNext /\ UNCHANGED mmc1_vars

CartridgeSpec == CartridgeInit /\ [][Mmc1Step \/ BoardStep]_cartridge_vars

-----------------------------------------------------------------------------
(* Properties *)

CartridgeTypeOK == Mmc1TypeOK /\ BoardsTypeOK

\* No read of the CPU or the PPU leaves the cartridge's memory: the offsets of every board, kept
\* up to date write by write, are inside ROM and VRAM, but for the cases named in the parts.
OffsetsStayInside == Mmc1WindowsInRom /\ OffsetsInRom /\ NametableInVram
=============================================================================
