------------------------- MODULE Cartridge_proofs -------------------------
(***************************************************************************)
(* Proofs about Cartridge, for every size of ROM, every set of headers and  *)
(* every program of writes.  Of an MMC1: the two chips always hold the same *)
(* bits and implement one serial port, the filter for consecutive writes    *)
(* never skips one, and the windows follow modes and banks.  Of the other   *)
(* boards: no bank offset leaves the ROM, the vectors stay mapped, the      *)
(* latches of MMC2 and MMC4 select what is mapped, and MMC3's windows show  *)
(* what the CPU wrote to their registers.  Then the theorems, about the     *)
(* cartridge that a header asks for.                                        *)
(***************************************************************************)
EXTENDS Cartridge, TLAPS

-----------------------------------------------------------------------------
(* MMC1: the inductive invariant *)

\* The filter is closed when the CPU can write.
FilterInv == cpu \in {"running", "writing"} => ~prg_load.recent

PrgWindowsOK(p) ==
    CASE p.prg_bank_mode = "FixFirst16KB" -> p.window0 = 0 /\ p.window1 < RomSize
      [] p.prg_bank_mode = "FixLast16KB" -> p.window0 < RomSize /\ p.window1 = RomSize - 1
      [] OTHER -> p.window0 % 2 = 0 /\ p.window1 = p.window0 + 1

ChrWindowsOK(c) ==
    /\ c.window0 < ChrBanks
    /\ c.chr_bank_mode = "Switch4KB" \/ c.window0 % 2 = 0 => c.window1 < ChrBanks
    /\ c.chr_bank_mode = "Switch8KB" => c.window1 = c.window0 + 1

Mmc1Inv ==
    /\ Mmc1TypeOK
    /\ ChipsAgree
    /\ FilterInv
    /\ PrgWindowsOK(prg) /\ ChrWindowsOK(chr)

-----------------------------------------------------------------------------
(* The load register *)

LEMMA Powers == 2 ^ 0 = 1 /\ 2 ^ 1 = 2 /\ 2 ^ 2 = 4 /\ 2 ^ 3 = 8 /\ 2 ^ 4 = 16
  OBVIOUS

LEMMA ShiftedInFacts ==
    ASSUME NEW load, LoadOK(load), NEW byte \in Bytes
    PROVE  /\ ShiftedIn(load, byte) \in Nat
           /\ load.shift_writes < 4 =>
                 /\ ShiftedIn(load, byte) \in 0..15
                 /\ ShiftedIn(load, byte) < 2 ^ (load.shift_writes + 1)
           /\ ShiftedIn(load, byte) \in 0..31
  <1> DEFINE s == load.shift_writes
             b == byte % 2
  <1>1. load.value \in 0..15 /\ s \in 0..4 /\ load.value < 2 ^ s
    BY DEF LoadOK, LoadRegister
  <1>2. b \in 0..1
    BY DEF Bytes
  <1>3. ShiftedIn(load, byte) = load.value + b * 2 ^ s
    BY DEF ShiftedIn
  <1> HIDE DEF s, b
  <1>4. CASE s = 0
    BY <1>1, <1>2, <1>3, <1>4, Powers DEF s
  <1>5. CASE s = 1
    BY <1>1, <1>2, <1>3, <1>5, Powers DEF s
  <1>6. CASE s = 2
    BY <1>1, <1>2, <1>3, <1>6, Powers DEF s
  <1>7. CASE s = 3
    BY <1>1, <1>2, <1>3, <1>7, Powers DEF s
  <1>8. CASE s = 4
    BY <1>1, <1>2, <1>3, <1>8, Powers DEF s
  <1> QED
    BY <1>1, <1>4, <1>5, <1>6, <1>7, <1>8

LEMMA EmptiedFacts ==
    ASSUME NEW load, LoadOK(load)
    PROVE  LoadOK(Emptied(load)) /\ Emptied(load).shift_writes = 0
  <1>1. /\ Emptied(load) \in LoadRegister
        /\ Emptied(load).shift_writes = 0 /\ Emptied(load).value = 0
    <2>1. load \in LoadRegister
      BY DEF LoadOK
    <2> DEFINE none == 0
               e == [load EXCEPT !.shift_writes = none, !.value = none]
    <2>2. Emptied(load) = e
      BY DEF Emptied
    <2>3. none \in 0..4 /\ none \in 0..15
      OBVIOUS
    <2> HIDE DEF none
    <2>4. e \in LoadRegister /\ e.shift_writes = none /\ e.value = none
      BY <2>1, <2>3 DEF LoadRegister
    <2> HIDE DEF e
    <2> QED
      BY <2>2, <2>4 DEF none
  <1>2. Emptied(load).value < 2 ^ Emptied(load).shift_writes
    BY <1>1, Powers
  <1> QED
    BY <1>1, <1>2 DEF LoadOK

LEMMA ShiftedFacts ==
    ASSUME NEW load, LoadOK(load), NEW byte \in Bytes
    PROVE  LoadOK(Shifted(load, byte))
  <1>1. CASE load.shift_writes = 4
    BY <1>1, EmptiedFacts DEF Shifted
  <1>2. CASE load.shift_writes # 4
    <2> DEFINE v == ShiftedIn(load, byte)
               s == load.shift_writes + 1
    <2>1. Shifted(load, byte) = [load EXCEPT !.shift_writes = s, !.value = v]
      BY <1>2 DEF Shifted
    <2>2. v \in 0..15 /\ v < 2 ^ s /\ s \in 0..4
      BY <1>2, ShiftedInFacts DEF LoadOK, LoadRegister
    <2> HIDE DEF v, s
    <2> QED
      BY <2>1, <2>2 DEF LoadOK, LoadRegister
  <1> QED
    BY <1>1, <1>2

LEMMA RecentFacts ==
    ASSUME NEW load, LoadOK(load), NEW flag \in BOOLEAN
    PROVE  LoadOK([load EXCEPT !.recent = flag]) /\ [load EXCEPT !.recent = flag].recent = flag
  BY DEF LoadOK, LoadRegister

LEMMA AfterWriteFacts ==
    ASSUME NEW load, LoadOK(load), ~load.recent, NEW area, NEW byte \in Bytes
    PROVE  LoadOK(AfterWrite(load, area, byte)) /\ AfterWrite(load, area, byte).recent
  <1>1. AfterWrite(load, area, byte) = [Taken(load, area, byte) EXCEPT !.recent = TRUE]
    BY DEF AfterWrite
  <1>2. LoadOK(Taken(load, area, byte))
    <2>1. CASE area \notin Registers
      BY <2>1 DEF Taken
    <2>2. CASE area \in Registers /\ IsReset(byte)
      BY <2>2, EmptiedFacts DEF Taken
    <2>3. CASE area \in Registers /\ ~IsReset(byte)
      BY <2>3, ShiftedFacts DEF Taken
    <2> QED
      BY <2>1, <2>2, <2>3
  <1> QED
    BY <1>1, <1>2, RecentFacts

-----------------------------------------------------------------------------
(* The windows *)

LEMMA MapPrgFacts ==
    ASSUME NEW p \in PrgState, NEW q, q = MapPrg(p)
    PROVE  q \in PrgState /\ PrgWindowsOK(q)
  <1>0. p.bank \in Nat /\ p.bank < RomSize /\ RomSize - 1 \in Nat /\ 0 < RomSize
    BY RomAssumption DEF PrgState, RomSize
  <1>1. CASE p.prg_bank_mode = "FixFirst16KB"
    <2>1. q = [p EXCEPT !.window0 = 0, !.window1 = p.bank]
      BY <1>1 DEF MapPrg
    <2>2. q = [prg_bank_mode |-> "FixFirst16KB", bank |-> p.bank, window0 |-> 0,
               window1 |-> p.bank, prg_ram_enabled |-> p.prg_ram_enabled]
      BY <1>1, <2>1 DEF PrgState
    <2> QED
      BY <1>0, <1>1, <2>2 DEF PrgState, PrgWindowsOK
  <1>2. CASE p.prg_bank_mode = "FixLast16KB"
    <2>1. q = [p EXCEPT !.window0 = p.bank, !.window1 = RomSize - 1]
      BY <1>2 DEF MapPrg
    <2> QED
      BY <1>0, <1>2, <2>1 DEF PrgState, PrgWindowsOK
  <1>3. CASE p.prg_bank_mode = "Switch32KB"
    <2> DEFINE w == 2 * p.bank
    <2>1. w \in Nat /\ w % 2 = 0 /\ w + 1 \in Nat
      BY RomAssumption DEF PrgState
    <2>2. q = [p EXCEPT !.window0 = w, !.window1 = w + 1]
      BY <1>3 DEF MapPrg
    <2> HIDE DEF w
    <2> QED
      BY <1>3, <2>1, <2>2 DEF PrgState, PrgWindowsOK
  <1> QED
    BY <1>1, <1>2, <1>3 DEF PrgState, PrgModes

LEMMA UpdatePrgFacts ==
    ASSUME NEW p \in PrgState, NEW value \in Nat
    PROVE  /\ UpdatePrgControl(p, value) \in PrgState /\ PrgWindowsOK(UpdatePrgControl(p, value))
           /\ UpdatePrgBank(p, value) \in PrgState /\ PrgWindowsOK(UpdatePrgBank(p, value))
  <1>1. [p EXCEPT !.prg_bank_mode = PrgMode(value)] \in PrgState
    <2>1. PrgMode(value) \in PrgModes
      BY DEF PrgMode, PrgModes
    <2> QED
      BY <2>1 DEF PrgState
  <1> DEFINE bank == (IF p.prg_bank_mode = "Switch32KB" THEN (value % 16) \div 2 ELSE value % 16)
                     % PrgBanks
             enabled == value < 16
  <1>2. bank \in 0..PrgBanks - 1
    <2>1. (value % 16) \div 2 \in Nat /\ value % 16 \in Nat
      OBVIOUS
    <2> QED
      BY <2>1, RomAssumption
  <1>3. enabled \in BOOLEAN
    OBVIOUS
  <1>4. UpdatePrgBank(p, value) = MapPrg([p EXCEPT !.prg_ram_enabled = enabled, !.bank = bank])
    BY DEF UpdatePrgBank
  <1> HIDE DEF bank, enabled
  <1>5. [p EXCEPT !.prg_ram_enabled = enabled, !.bank = bank] \in PrgState
    BY <1>2, <1>3 DEF PrgState
  <1>6. UpdatePrgBank(p, value) \in PrgState /\ PrgWindowsOK(UpdatePrgBank(p, value))
    BY <1>4, <1>5, MapPrgFacts
  <1>7. UpdatePrgControl(p, value) \in PrgState /\ PrgWindowsOK(UpdatePrgControl(p, value))
    BY <1>1, MapPrgFacts DEF UpdatePrgControl
  <1> QED
    BY <1>6, <1>7

LEMMA MapChrFacts ==
    ASSUME NEW c \in ChrState, NEW d, d = MapChr(c)
    PROVE  d \in ChrState /\ ChrWindowsOK(d)
  <1> DEFINE w == IF c.chr_bank_mode = "Switch4KB" THEN c.bank1 ELSE c.bank0 + 1
  <1>1. d = [c EXCEPT !.window0 = c.bank0, !.window1 = w]
    BY DEF MapChr
  <1>2. /\ w \in Nat /\ c.bank0 \in Nat /\ c.bank0 < ChrBanks
        /\ c.chr_bank_mode = "Switch4KB" \/ c.bank0 % 2 = 0 => w < ChrBanks
        /\ c.chr_bank_mode = "Switch8KB" => w = c.bank0 + 1
    BY RomAssumption DEF ChrState, ChrModes
  <1> HIDE DEF w
  <1> QED
    BY <1>1, <1>2 DEF ChrState, ChrWindowsOK

LEMMA UpdateChrFacts ==
    ASSUME NEW c \in ChrState, NEW value \in Nat
    PROVE  /\ UpdateChrControl(c, value) \in ChrState /\ ChrWindowsOK(UpdateChrControl(c, value))
           /\ UpdateChrBank0(c, value) \in ChrState /\ ChrWindowsOK(UpdateChrBank0(c, value))
           /\ UpdateChrBank1(c, value) \in ChrState /\ ChrWindowsOK(UpdateChrBank1(c, value))
  <1>1. Mirroring(value) \in MirroringModes /\ ChrMode(value) \in ChrModes
    BY DEF Mirroring, ChrMode, MirroringModes, ChrModes
  <1>2. [c EXCEPT !.mirroring_mode = Mirroring(value), !.chr_bank_mode = ChrMode(value)]
          \in ChrState
    BY <1>1 DEF ChrState
  <1>3. ChrBank(c, value) \in 0..ChrBanks - 1
    <2>1. value - (value % 2) \in Nat
      OBVIOUS
    <2> QED
      BY <2>1, RomAssumption DEF ChrBank
  <1>4. /\ [c EXCEPT !.bank0 = ChrBank(c, value)] \in ChrState
        /\ [c EXCEPT !.bank1 = ChrBank(c, value)] \in ChrState
    BY <1>3 DEF ChrState
  <1>5. UpdateChrControl(c, value) \in ChrState /\ ChrWindowsOK(UpdateChrControl(c, value))
    BY <1>2, MapChrFacts DEF UpdateChrControl
  <1>6. UpdateChrBank0(c, value) \in ChrState /\ ChrWindowsOK(UpdateChrBank0(c, value))
    BY <1>4, MapChrFacts DEF UpdateChrBank0
  <1>7. UpdateChrBank1(c, value) \in ChrState /\ ChrWindowsOK(UpdateChrBank1(c, value))
    BY <1>4, MapChrFacts DEF UpdateChrBank1
  <1> QED
    BY <1>5, <1>6, <1>7

-----------------------------------------------------------------------------
(* Every step preserves the invariant *)

\* What a cycle leaves, but for where the CPU is.
ChipsOK ==
    /\ LoadOK(prg_load') /\ prg_load' = chr_load'
    /\ prg' \in PrgState /\ PrgWindowsOK(prg')
    /\ chr' \in ChrState /\ ChrWindowsOK(chr')

LEMMA PrgWriteFacts ==
    ASSUME Mmc1Inv, cpu \in {"running", "writing"}, NEW area, NEW byte \in Bytes,
           PrgWrite(area, byte)
    PROVE  prg' \in PrgState /\ PrgWindowsOK(prg')
  <1>1. prg \in PrgState /\ PrgWindowsOK(prg)
    BY DEF Mmc1Inv, Mmc1TypeOK
  <1>2. ShiftedIn(prg_load, byte) \in Nat
    BY ShiftedInFacts DEF Mmc1Inv, Mmc1TypeOK
  <1>3. 12 \in Nat
    OBVIOUS
  <1>4. \/ prg' = UpdatePrgControl(prg, 12)
        \/ prg' = UpdatePrgControl(prg, ShiftedIn(prg_load, byte))
        \/ prg' = UpdatePrgBank(prg, ShiftedIn(prg_load, byte))
        \/ prg' = prg
    BY DEF PrgWrite
  <1> QED
    BY <1>1, <1>2, <1>3, <1>4, UpdatePrgFacts

LEMMA ChrWriteFacts ==
    ASSUME Mmc1Inv, cpu \in {"running", "writing"}, NEW area, NEW byte \in Bytes,
           ChrWrite(area, byte)
    PROVE  chr' \in ChrState /\ ChrWindowsOK(chr')
  <1>1. chr \in ChrState /\ ChrWindowsOK(chr)
    BY DEF Mmc1Inv, Mmc1TypeOK
  <1>2. ShiftedIn(chr_load, byte) \in Nat
    BY ShiftedInFacts DEF Mmc1Inv, Mmc1TypeOK
  <1>3. 12 \in Nat
    OBVIOUS
  <1>4. \/ chr' = UpdateChrControl(chr, 12)
        \/ chr' = UpdateChrControl(chr, ShiftedIn(chr_load, byte))
        \/ chr' = UpdateChrBank0(chr, ShiftedIn(chr_load, byte))
        \/ chr' = UpdateChrBank1(chr, ShiftedIn(chr_load, byte))
        \/ chr' = chr
    BY DEF ChrWrite
  <1> QED
    BY <1>1, <1>2, <1>3, <1>4, UpdateChrFacts

\* A write is taken by both chips.
LEMMA CartridgeWriteFacts ==
    ASSUME Mmc1Inv, cpu \in {"running", "writing"}, NEW area, NEW byte \in Bytes,
           CartridgeWrite(area, byte)
    PROVE  ChipsOK /\ prg_load'.recent /\ chr_load'.recent
  <1>1. /\ LoadOK(prg_load) /\ ~prg_load.recent /\ chr_load = prg_load
        /\ prg_load' = AfterWrite(prg_load, area, byte)
        /\ chr_load' = AfterWrite(chr_load, area, byte)
    BY DEF Mmc1Inv, Mmc1TypeOK, ChipsAgree, FilterInv, CartridgeWrite, PrgWrite, ChrWrite
  <1>2. LoadOK(prg_load') /\ prg_load'.recent /\ prg_load' = chr_load'
    BY <1>1, AfterWriteFacts
  <1>3. prg' \in PrgState /\ PrgWindowsOK(prg')
    BY PrgWriteFacts DEF CartridgeWrite
  <1>4. chr' \in ChrState /\ ChrWindowsOK(chr')
    BY ChrWriteFacts DEF CartridgeWrite
  <1> QED
    BY <1>2, <1>3, <1>4 DEF ChipsOK

LEMMA NoWriteFacts ==
    ASSUME Mmc1Inv, NoWrite
    PROVE  ChipsOK /\ ~prg_load'.recent /\ ~chr_load'.recent
  <1>1. /\ LoadOK(prg_load) /\ chr_load = prg_load
        /\ prg_load' = [prg_load EXCEPT !.recent = FALSE]
        /\ chr_load' = [chr_load EXCEPT !.recent = FALSE]
        /\ UNCHANGED <<prg, chr>>
    BY DEF Mmc1Inv, Mmc1TypeOK, ChipsAgree, NoWrite
  <1>2. LoadOK(prg_load') /\ prg_load'.recent = FALSE /\ prg_load' = chr_load'
    BY <1>1, RecentFacts
  <1> QED
    BY <1>1, <1>2 DEF ChipsOK, Mmc1Inv, Mmc1TypeOK

LEMMA Mmc1InvInit == Mmc1Init => Mmc1Inv
  <1> SUFFICES ASSUME Mmc1Init PROVE Mmc1Inv
    OBVIOUS
  <1>1. LoadOK(NewLoadRegister) /\ ~NewLoadRegister.recent
    BY Powers DEF LoadOK, NewLoadRegister, LoadRegister
  <1>2. prg \in PrgState /\ PrgWindowsOK(prg)
    BY RomAssumption DEF Mmc1Init, PrgState, PrgModes, PrgWindowsOK, RomSize
  <1>3. chr \in ChrState /\ ChrWindowsOK(chr)
    BY RomAssumption DEF Mmc1Init, ChrState, ChrModes, MirroringModes, ChrWindowsOK
  <1>4. /\ prg_load = NewLoadRegister /\ chr_load = NewLoadRegister
        /\ cpu = "running" /\ address = "other"
    BY DEF Mmc1Init
  <1> QED
    BY <1>1, <1>2, <1>3, <1>4 DEF Mmc1Inv, Mmc1TypeOK, ChipsAgree, FilterInv, Areas

LEMMA Mmc1InvStep == Mmc1Inv /\ [Mmc1Next]_mmc1_vars => Mmc1Inv'
  <1> SUFFICES ASSUME Mmc1Inv, [Mmc1Next]_mmc1_vars PROVE Mmc1Inv'
    OBVIOUS
  <1>0. address \in Areas
    BY DEF Mmc1Inv, Mmc1TypeOK
  <1>1. CASE Run
    <2>1. ChipsOK /\ ~prg_load'.recent
      BY <1>1, NoWriteFacts DEF Run
    <2> QED
      BY <1>0, <1>1, <2>1 DEF Run, ChipsOK, Mmc1Inv, Mmc1TypeOK, ChipsAgree, FilterInv
  <1>2. CASE Store
    <2>1. ChipsOK
      BY <1>2, CartridgeWriteFacts DEF Store
    <2> QED
      BY <1>0, <1>2, <2>1 DEF Store, ChipsOK, Mmc1Inv, Mmc1TypeOK, ChipsAgree, FilterInv
  <1>3. CASE Execute
    <2>1. PICK area \in Areas, byte \in Bytes : CartridgeWrite(area, byte) /\ address' = area
      BY <1>3 DEF Execute
    <2>2. cpu = "running" /\ cpu' = "dummy"
      BY <1>3 DEF Execute
    <2>3. ChipsOK
      BY <2>1, <2>2, CartridgeWriteFacts
    <2> QED
      BY <2>1, <2>2, <2>3 DEF ChipsOK, Mmc1Inv, Mmc1TypeOK, ChipsAgree, FilterInv
  <1>4. CASE Dummy
    <2>1. ChipsOK /\ ~prg_load'.recent
      BY <1>4, NoWriteFacts DEF Dummy
    <2> QED
      BY <1>0, <1>4, <2>1 DEF Dummy, ChipsOK, Mmc1Inv, Mmc1TypeOK, ChipsAgree, FilterInv
  <1>5. CASE WriteResult
    <2>1. ChipsOK
      BY <1>5, CartridgeWriteFacts DEF WriteResult
    <2> QED
      BY <1>5, <2>1
         DEF WriteResult, ChipsOK, Mmc1Inv, Mmc1TypeOK, ChipsAgree, FilterInv, Areas
  <1>6. CASE Fetch
    <2>1. ChipsOK /\ ~prg_load'.recent
      BY <1>6, NoWriteFacts DEF Fetch
    <2> QED
      BY <1>0, <1>6, <2>1 DEF Fetch, ChipsOK, Mmc1Inv, Mmc1TypeOK, ChipsAgree, FilterInv
  <1>7. CASE UNCHANGED mmc1_vars
    BY <1>7 DEF mmc1_vars, Mmc1Inv, Mmc1TypeOK, ChipsAgree, FilterInv
  <1> QED
    BY <1>1, <1>2, <1>3, <1>4, <1>5, <1>6, <1>7 DEF Mmc1Next

LEMMA InvImpliesMmc1Windows == Mmc1Inv => Mmc1WindowsInRom
  BY DEF Mmc1Inv, Mmc1WindowsInRom, PrgWindowsOK, ChrWindowsOK

\* A step in which the CPU has written leaves the filter of both chips closed.
LEMMA WritesCount ==
    ASSUME Mmc1Inv, Mmc1Next,
           cpu' = "dummy" \/ (cpu' = "fetching" /\ cpu # "fetching")
    PROVE  prg_load'.recent /\ chr_load'.recent
  <1>1. CASE Store
    BY <1>1, CartridgeWriteFacts DEF Store
  <1>2. CASE Execute
    BY <1>2, CartridgeWriteFacts DEF Execute
  <1>3. CASE WriteResult
    BY <1>3, CartridgeWriteFacts DEF WriteResult
  <1> QED
    BY <1>1, <1>2, <1>3 DEF Mmc1Next, Run, Dummy, Fetch

-----------------------------------------------------------------------------
(* The port *)

\* The bits in a load register, as a sequence.
Bits(load) == [i \in 1..load.shift_writes |-> (load.value \div 2 ^ (i - 1)) % 2]

LEMMA BitsEmpty ==
    ASSUME NEW load, load.shift_writes = 0
    PROVE  Bits(load) = <<>>
  BY DEF Bits

LEMMA BitsFacts ==
    ASSUME NEW load, LoadOK(load)
    PROVE  /\ Bits(load) \in Seq(0..1) /\ Len(Bits(load)) = load.shift_writes
           /\ load.shift_writes >= 1 => Bits(load)[1] = load.value % 2
           /\ load.shift_writes >= 2 => Bits(load)[2] = (load.value \div 2) % 2
           /\ load.shift_writes >= 3 => Bits(load)[3] = (load.value \div 4) % 2
           /\ load.shift_writes >= 4 => Bits(load)[4] = (load.value \div 8) % 2
  <1> DEFINE s == load.shift_writes
             Bit(i) == (load.value \div 2 ^ (i - 1)) % 2
  <1>1. s \in 0..4 /\ load.value \in 0..15
    BY DEF LoadOK, LoadRegister
  <1>2. /\ Bit(1) = load.value % 2 /\ Bit(2) = (load.value \div 2) % 2
        /\ Bit(3) = (load.value \div 4) % 2 /\ Bit(4) = (load.value \div 8) % 2
    BY <1>1, Powers
  <1>3. \A i \in 1..4 : Bit(i) \in 0..1
    <2>1. Bit(1) \in 0..1 /\ Bit(2) \in 0..1 /\ Bit(3) \in 0..1 /\ Bit(4) \in 0..1
      BY <1>1, <1>2
    <2> HIDE DEF Bit
    <2>2. \A i \in 1..4 : i = 1 \/ i = 2 \/ i = 3 \/ i = 4
      OBVIOUS
    <2> QED
      BY <2>1, <2>2
  <1>4. Bits(load) = [i \in 1..s |-> Bit(i)]
    BY DEF Bits
  <1> HIDE DEF Bit, s
  <1>5. Bits(load) \in [1..s -> 0..1] /\ \A i \in 1..s : Bits(load)[i] = Bit(i)
    BY <1>1, <1>3, <1>4
  <1>6. Bits(load) \in Seq(0..1) /\ Len(Bits(load)) = s
    BY <1>1, <1>5
  <1>7. \A i \in 1..4 : s >= i => Bits(load)[i] = Bit(i)
    BY <1>1, <1>5
  <1> QED
    BY <1>2, <1>6, <1>7 DEF s

\* A bit goes to the end.
LEMMA BitsAppend ==
    ASSUME NEW load, LoadOK(load), load.shift_writes < 4, NEW byte \in Bytes,
           NEW next, LoadOK(next), next.shift_writes = load.shift_writes + 1,
           next.value = ShiftedIn(load, byte)
    PROVE  Bits(next) = Append(Bits(load), byte % 2)
  <1> DEFINE s == load.shift_writes
             v == load.value
             w == next.value
             b == byte % 2
             f == Bits(load)
             g == Bits(next)
  <1>1. s \in 0..3 /\ v \in 0..15 /\ w \in 0..15 /\ v < 2 ^ s /\ next.shift_writes = s + 1
    BY DEF LoadOK, LoadRegister
  <1>2. b \in 0..1
    BY DEF Bytes
  <1>3. w = v + b * 2 ^ s
    BY DEF ShiftedIn
  <1>4. f \in Seq(0..1) /\ g \in Seq(0..1) /\ Len(f) = s /\ Len(g) = s + 1
    BY BitsFacts
  <1>5. /\ s >= 1 => f[1] = v % 2
        /\ s >= 2 => f[2] = (v \div 2) % 2
        /\ s >= 3 => f[3] = (v \div 4) % 2
    BY BitsFacts
  <1>6. /\ g[1] = w % 2
        /\ s >= 1 => g[2] = (w \div 2) % 2
        /\ s >= 2 => g[3] = (w \div 4) % 2
        /\ s >= 3 => g[4] = (w \div 8) % 2
    <2>1. /\ next.shift_writes >= 1 => g[1] = w % 2
          /\ next.shift_writes >= 2 => g[2] = (w \div 2) % 2
          /\ next.shift_writes >= 3 => g[3] = (w \div 4) % 2
          /\ next.shift_writes >= 4 => g[4] = (w \div 8) % 2
      BY BitsFacts
    <2> HIDE DEF s, v, w, f, g
    <2> QED
      BY <1>1, <2>1
  <1> HIDE DEF s, v, w, b, f, g
  <1>7. g[s + 1] = b /\ \A i \in 1..s : g[i] = f[i]
    <2>1. CASE s = 0
      BY <1>1, <1>2, <1>3, <1>6, <2>1, Powers
    <2>2. CASE s = 1
      BY <1>1, <1>2, <1>3, <1>5, <1>6, <2>2, Powers
    <2>3. CASE s = 2
      BY <1>1, <1>2, <1>3, <1>5, <1>6, <2>3, Powers
    <2>4. CASE s = 3
      BY <1>1, <1>2, <1>3, <1>5, <1>6, <2>4, Powers
    <2> QED
      BY <1>1, <2>1, <2>2, <2>3, <2>4
  <1>8. g = Append(f, b)
    BY <1>1, <1>2, <1>4, <1>7
  <1> QED
    BY <1>8 DEF f, g, b

LEMMA PrgModeKept ==
    ASSUME NEW p \in PrgState
    PROVE  MapPrg(p).prg_bank_mode = p.prg_bank_mode
  <1>1. CASE p.prg_bank_mode = "FixFirst16KB"
    BY <1>1 DEF MapPrg, PrgState
  <1>2. CASE p.prg_bank_mode = "FixLast16KB"
    BY <1>2 DEF MapPrg, PrgState
  <1>3. CASE p.prg_bank_mode = "Switch32KB"
    BY <1>3 DEF MapPrg, PrgState
  <1> QED
    BY <1>1, <1>2, <1>3 DEF PrgState, PrgModes

\* Which updates set the modes.
LEMMA PrgModeFacts ==
    ASSUME NEW p \in PrgState, NEW value \in Nat
    PROVE  /\ UpdatePrgControl(p, value).prg_bank_mode = PrgMode(value)
           /\ UpdatePrgBank(p, value).prg_bank_mode = p.prg_bank_mode
  <1>1. /\ [p EXCEPT !.prg_bank_mode = PrgMode(value)] \in PrgState
        /\ [p EXCEPT !.prg_bank_mode = PrgMode(value)].prg_bank_mode = PrgMode(value)
    <2>1. PrgMode(value) \in PrgModes
      BY DEF PrgMode, PrgModes
    <2> QED
      BY <2>1 DEF PrgState
  <1> DEFINE bank == (IF p.prg_bank_mode = "Switch32KB" THEN (value % 16) \div 2 ELSE value % 16)
                     % PrgBanks
             enabled == value < 16
             q == [p EXCEPT !.prg_ram_enabled = enabled, !.bank = bank]
  <1>2. bank \in 0..PrgBanks - 1
    <2>1. (value % 16) \div 2 \in Nat /\ value % 16 \in Nat
      OBVIOUS
    <2> QED
      BY <2>1, RomAssumption
  <1>3. enabled \in BOOLEAN
    OBVIOUS
  <1>4. UpdatePrgBank(p, value) = MapPrg(q)
    BY DEF UpdatePrgBank
  <1> HIDE DEF bank, enabled
  <1>5. q \in PrgState /\ q.prg_bank_mode = p.prg_bank_mode
    BY <1>2, <1>3 DEF PrgState
  <1> HIDE DEF q
  <1>6. UpdatePrgBank(p, value).prg_bank_mode = p.prg_bank_mode
    BY <1>4, <1>5, PrgModeKept
  <1> QED
    BY <1>1, <1>6, PrgModeKept DEF UpdatePrgControl

LEMMA ChrModeFacts ==
    ASSUME NEW c \in ChrState, NEW value \in Nat
    PROVE  /\ UpdateChrControl(c, value).chr_bank_mode = ChrMode(value)
           /\ UpdateChrControl(c, value).mirroring_mode = Mirroring(value)
           /\ UpdateChrBank0(c, value).chr_bank_mode = c.chr_bank_mode
           /\ UpdateChrBank0(c, value).mirroring_mode = c.mirroring_mode
           /\ UpdateChrBank1(c, value).chr_bank_mode = c.chr_bank_mode
           /\ UpdateChrBank1(c, value).mirroring_mode = c.mirroring_mode
  <1>1. ASSUME NEW d \in ChrState
        PROVE  /\ MapChr(d).chr_bank_mode = d.chr_bank_mode
               /\ MapChr(d).mirroring_mode = d.mirroring_mode
    BY DEF MapChr, ChrState
  <1>2. Mirroring(value) \in MirroringModes /\ ChrMode(value) \in ChrModes
    BY DEF Mirroring, ChrMode, MirroringModes, ChrModes
  <1> DEFINE control == [c EXCEPT !.mirroring_mode = Mirroring(value),
                                  !.chr_bank_mode = ChrMode(value)]
             first == [c EXCEPT !.bank0 = ChrBank(c, value)]
             second == [c EXCEPT !.bank1 = ChrBank(c, value)]
  <1>3. /\ control \in ChrState
        /\ control.chr_bank_mode = ChrMode(value) /\ control.mirroring_mode = Mirroring(value)
    BY <1>2 DEF ChrState
  <1>4. ChrBank(c, value) \in 0..ChrBanks - 1
    <2>1. value - (value % 2) \in Nat
      OBVIOUS
    <2> QED
      BY <2>1, RomAssumption DEF ChrBank
  <1>5. /\ first \in ChrState /\ second \in ChrState
        /\ first.chr_bank_mode = c.chr_bank_mode /\ first.mirroring_mode = c.mirroring_mode
        /\ second.chr_bank_mode = c.chr_bank_mode /\ second.mirroring_mode = c.mirroring_mode
    BY <1>4 DEF ChrState
  <1>6. /\ UpdateChrControl(c, value) = MapChr(control)
        /\ UpdateChrBank0(c, value) = MapChr(first)
        /\ UpdateChrBank1(c, value) = MapChr(second)
    BY DEF UpdateChrControl, UpdateChrBank0, UpdateChrBank1
  <1> HIDE DEF control, first, second
  <1> QED
    BY <1>1, <1>3, <1>5, <1>6

\* Five bits and the number they make decode to the same modes.
LEMMA DecodedFacts ==
    ASSUME NEW bits \in Seq(0..1), Len(bits) = 5, NEW value \in 0..31,
           bits[1] = value % 2, bits[2] = (value \div 2) % 2, bits[3] = (value \div 4) % 2,
           bits[4] = (value \div 8) % 2, bits[5] = (value \div 16) % 2
    PROVE  Port!Decoded(bits) = [prg |-> PrgMode(value), chr |-> ChrMode(value),
                                 mirroring |-> Mirroring(value)]
  <1> DEFINE p == IF bits[4] = 0 THEN "Switch32KB"
                  ELSE IF bits[3] = 0 THEN "FixFirst16KB" ELSE "FixLast16KB"
             c == IF bits[5] = 0 THEN "Switch8KB" ELSE "Switch4KB"
             m == CASE bits[1] = 0 /\ bits[2] = 0 -> "OneScreenLowerBank"
                    [] bits[1] = 1 /\ bits[2] = 0 -> "OneScreenUpperBank"
                    [] bits[1] = 0 /\ bits[2] = 1 -> "Vertical"
                    [] OTHER -> "Horizontal"
  <1>0. /\ bits[1] \in {0, 1} /\ bits[2] \in {0, 1} /\ bits[3] \in {0, 1} /\ bits[4] \in {0, 1}
        /\ (value \div 4) % 4 = bits[3] + 2 * bits[4]
        /\ value % 4 = bits[1] + 2 * bits[2]
    <2>1. /\ value % 2 \in {0, 1} /\ (value \div 2) % 2 \in {0, 1}
          /\ (value \div 4) % 2 \in {0, 1} /\ (value \div 8) % 2 \in {0, 1}
      OBVIOUS
    <2>2. (value \div 4) % 4 = ((value \div 4) % 2) + 2 * ((value \div 8) % 2)
      OBVIOUS
    <2>3. value % 4 = (value % 2) + 2 * ((value \div 2) % 2)
      OBVIOUS
    <2> QED
      BY <2>1, <2>2, <2>3
  <1>1. p = PrgMode(value)
    <2>1. CASE bits[4] = 0
      <3>1. (value \div 4) % 4 \in {0, 1}
        BY <1>0, <2>1
      <3> QED
        BY <2>1, <3>1 DEF PrgMode
    <2>2. CASE bits[4] = 1 /\ bits[3] = 0
      <3>1. (value \div 4) % 4 = 2
        BY <1>0, <2>2
      <3> QED
        BY <2>2, <3>1 DEF PrgMode
    <2>3. CASE bits[4] = 1 /\ bits[3] = 1
      <3>1. (value \div 4) % 4 = 3
        BY <1>0, <2>3
      <3> QED
        BY <2>3, <3>1 DEF PrgMode
    <2> QED
      BY <1>0, <2>1, <2>2, <2>3
  <1>2. c = ChrMode(value)
    BY DEF ChrMode
  <1>3. m = Mirroring(value)
    <2>1. CASE bits[1] = 0 /\ bits[2] = 0
      <3>1. value % 4 = 0
        BY <1>0, <2>1
      <3> QED
        BY <2>1, <3>1 DEF Mirroring
    <2>2. CASE bits[1] = 1 /\ bits[2] = 0
      <3>1. value % 4 = 1
        BY <1>0, <2>2
      <3> QED
        BY <2>2, <3>1 DEF Mirroring
    <2>3. CASE bits[1] = 0 /\ bits[2] = 1
      <3>1. value % 4 = 2
        BY <1>0, <2>3
      <3> QED
        BY <2>3, <3>1 DEF Mirroring
    <2>4. CASE bits[1] = 1 /\ bits[2] = 1
      <3>1. value % 4 = 3
        BY <1>0, <2>4
      <3> QED
        BY <2>4, <3>1 DEF Mirroring
    <2> QED
      BY <1>0, <2>1, <2>2, <2>3, <2>4
  <1>4. Port!Decoded(bits) = [prg |-> p, chr |-> c, mirroring |-> m]
    BY DEF Port!Decoded
  <1> HIDE DEF p, c, m
  <1> QED
    BY <1>1, <1>2, <1>3, <1>4

Control ==
    [prg |-> prg.prg_bank_mode, chr |-> chr.chr_bank_mode, mirroring |-> chr.mirroring_mode]

Mapped == <<prg.window0, prg.window1, prg.prg_ram_enabled, chr.window0, chr.window1>>

\* A step of the port, in terms of what it shows.
PortStep ==
    \/ /\ Len(Bits(prg_load)) < 4
       /\ \E b \in {0, 1} : Bits(prg_load)' = Append(Bits(prg_load), b)
       /\ UNCHANGED <<Control, Mapped>>
    \/ /\ Len(Bits(prg_load)) = 4
       /\ Bits(prg_load)' = <<>>
       /\ \/ UNCHANGED Control
          \/ \E b \in {0, 1} : Control' = Port!Decoded(Append(Bits(prg_load), b))
    \/ Bits(prg_load)' = <<>> /\ Control' = Port!Decoded(<<0, 0, 1, 1, 0>>)
    \/ UNCHANGED <<Bits(prg_load), Control, Mapped>>

LEMMA PortStepFacts == PortStep => [Port!Next]_(Port!vars)
  BY DEF PortStep, Bits, Control, Mapped, Port!Next, Port!HandOver, Port!Load, Port!Reset, Port!vars

\* Nothing but the flag of the filter.
LEMMA BitsRecent ==
    ASSUME NEW load, LoadOK(load), NEW flag \in BOOLEAN
    PROVE  Bits([load EXCEPT !.recent = flag]) = Bits(load)
  <1> DEFINE next == [load EXCEPT !.recent = flag]
  <1>1. next.shift_writes = load.shift_writes /\ next.value = load.value
    BY DEF LoadOK, LoadRegister
  <1> HIDE DEF next
  <1>2. Bits(next) = Bits(load)
    BY <1>1 DEF Bits
  <1> QED
    BY <1>2 DEF next

LEMMA ResetMode == Port!Decoded(<<0, 0, 1, 1, 0>>)
                     = [prg |-> PrgMode(12), chr |-> ChrMode(12), mirroring |-> Mirroring(12)]
  <1> DEFINE bits == <<0, 0, 1, 1, 0>>
  <1>1. bits \in Seq(0..1) /\ Len(bits) = 5
    OBVIOUS
  <1>2. /\ bits[1] = 12 % 2 /\ bits[2] = (12 \div 2) % 2 /\ bits[3] = (12 \div 4) % 2
        /\ bits[4] = (12 \div 8) % 2 /\ bits[5] = (12 \div 16) % 2 /\ 12 \in 0..31
    OBVIOUS
  <1> HIDE DEF bits
  <1>3. Port!Decoded(bits) = [prg |-> PrgMode(12), chr |-> ChrMode(12), mirroring |-> Mirroring(12)]
    BY <1>1, <1>2, DecodedFacts
  <1> QED
    BY <1>3 DEF bits

LEMMA AppendFacts ==
    ASSUME NEW S, NEW f \in Seq(S), NEW b \in S
    PROVE  /\ Append(f, b) \in Seq(S) /\ Len(Append(f, b)) = Len(f) + 1
           /\ \A i \in 1..Len(f) : Append(f, b)[i] = f[i]
           /\ Append(f, b)[Len(f) + 1] = b
  OBVIOUS

\* The fifth bit.
LEMMA FifthBit ==
    ASSUME NEW load, LoadOK(load), load.shift_writes = 4, NEW byte \in Bytes
    PROVE  LET value == ShiftedIn(load, byte)
           IN  Port!Decoded(Append(Bits(load), byte % 2))
                 = [prg |-> PrgMode(value), chr |-> ChrMode(value), mirroring |-> Mirroring(value)]
  <1> DEFINE f == Bits(load)
             b == byte % 2
             bits == Append(f, b)
             value == ShiftedIn(load, byte)
             v == load.value
  <1>1. v \in 0..15 /\ b \in 0..1 /\ b \in {0, 1}
    BY DEF LoadOK, LoadRegister, Bytes
  <1>2. value = v + b * 16
    BY Powers DEF ShiftedIn
  <1>3. /\ f \in Seq(0..1) /\ Len(f) = 4
        /\ f[1] = v % 2 /\ f[2] = (v \div 2) % 2 /\ f[3] = (v \div 4) % 2 /\ f[4] = (v \div 8) % 2
    <2>1. 4 >= 1 /\ 4 >= 2 /\ 4 >= 3 /\ 4 >= 4
      OBVIOUS
    <2>2. /\ f \in Seq(0..1) /\ Len(f) = load.shift_writes
          /\ load.shift_writes >= 1 => f[1] = v % 2
          /\ load.shift_writes >= 2 => f[2] = (v \div 2) % 2
          /\ load.shift_writes >= 3 => f[3] = (v \div 4) % 2
          /\ load.shift_writes >= 4 => f[4] = (v \div 8) % 2
      BY BitsFacts
    <2> HIDE DEF f, v
    <2> QED
      BY <2>1, <2>2
  <1> HIDE DEF f, b, value, v
  <1>4. /\ bits \in Seq(0..1) /\ Len(bits) = 5
        /\ bits[1] = f[1] /\ bits[2] = f[2] /\ bits[3] = f[3] /\ bits[4] = f[4] /\ bits[5] = b
    <2> DEFINE S == 0..1
    <2>1. f \in Seq(S) /\ b \in S
      BY <1>1, <1>3
    <2> HIDE DEF S
    <2>2. /\ bits \in Seq(S) /\ Len(bits) = Len(f) + 1
          /\ \A i \in 1..Len(f) : bits[i] = f[i]
          /\ bits[Len(f) + 1] = b
      BY <2>1, AppendFacts
    <2> HIDE DEF bits
    <2>3. 1 \in 1..4 /\ 2 \in 1..4 /\ 3 \in 1..4 /\ 4 \in 1..4
      OBVIOUS
    <2> QED
      BY <1>3, <2>2, <2>3 DEF S
  <1> HIDE DEF bits
  <1>5. value \in 0..31
    BY <1>1, <1>2
  <1>6. /\ value % 2 = v % 2 /\ (value \div 2) % 2 = (v \div 2) % 2
        /\ (value \div 4) % 2 = (v \div 4) % 2 /\ (value \div 8) % 2 = (v \div 8) % 2
        /\ (value \div 16) % 2 = b
    <2>1. CASE b = 0
      BY <1>1, <1>2, <2>1
    <2>2. CASE b = 1
      BY <1>1, <1>2, <2>2
    <2> QED
      BY <1>1, <2>1, <2>2
  <1>7. Port!Decoded(bits)
          = [prg |-> PrgMode(value), chr |-> ChrMode(value), mirroring |-> Mirroring(value)]
    BY <1>3, <1>4, <1>5, <1>6, DecodedFacts
  <1> QED
    BY <1>7 DEF bits, f, b, value

\* A write of the CPU is one step of the port, for both chips together.
LEMMA PortWrite ==
    ASSUME Mmc1Inv, cpu \in {"running", "writing"}, NEW area, NEW byte \in Bytes,
           CartridgeWrite(area, byte)
    PROVE  PortStep
  <1> DEFINE l == prg_load
             taken == Taken(l, area, byte)
             value == ShiftedIn(l, byte)
  <1>1. /\ LoadOK(l) /\ ~l.recent /\ chr_load = l
        /\ prg \in PrgState /\ chr \in ChrState
    BY DEF Mmc1Inv, Mmc1TypeOK, ChipsAgree, FilterInv
  <1>2. LoadOK(taken)
    BY <1>1, EmptiedFacts, ShiftedFacts DEF Taken
  <1>3. Bits(l)' = Bits(taken)
    <2>1. l' = [taken EXCEPT !.recent = TRUE]
      BY <1>1 DEF CartridgeWrite, PrgWrite, AfterWrite
    <2>2. Bits([taken EXCEPT !.recent = TRUE]) = Bits(taken)
      BY <1>2, BitsRecent
    <2> HIDE DEF taken
    <2>3. Bits(l') = Bits(taken)
      BY <2>1, <2>2
    <2> QED
      BY <2>3 DEF Bits
  <1>4. value \in Nat
    BY <1>1, ShiftedInFacts
  <1>5. CASE area \notin Registers
    <2>1. UNCHANGED <<prg, chr>>
      BY <1>5 DEF CartridgeWrite, PrgWrite, ChrWrite, Resets, Loads
    <2>2. taken = l
      BY <1>5 DEF Taken
    <2> QED
      BY <1>3, <2>1, <2>2 DEF PortStep, Control, Mapped
  <1>6. CASE area \in Registers /\ IsReset(byte)
    <2>1. taken = Emptied(l)
      BY <1>6 DEF Taken
    <2>2. Bits(l)' = <<>>
      BY <1>1, <1>3, <2>1, EmptiedFacts, BitsEmpty
    <2>3. prg' = UpdatePrgControl(prg, 12) /\ chr' = UpdateChrControl(chr, 12)
      BY <1>1, <1>6 DEF CartridgeWrite, PrgWrite, ChrWrite, Resets, Loads
    <2>4. 12 \in Nat
      OBVIOUS
    <2>5. /\ prg'.prg_bank_mode = PrgMode(12) /\ chr'.chr_bank_mode = ChrMode(12)
          /\ chr'.mirroring_mode = Mirroring(12)
      BY <1>1, <2>3, <2>4, PrgModeFacts, ChrModeFacts
    <2>6. Control' = Port!Decoded(<<0, 0, 1, 1, 0>>)
      BY <2>5, ResetMode DEF Control
    <2> QED
      BY <2>2, <2>6 DEF PortStep
  <1>7. CASE area \in Registers /\ ~IsReset(byte) /\ l.shift_writes # 4
    <2>1. taken = [l EXCEPT !.shift_writes = l.shift_writes + 1, !.value = value]
      BY <1>7 DEF Taken, Shifted
    <2>2. UNCHANGED <<prg, chr>>
      BY <1>1, <1>7 DEF CartridgeWrite, PrgWrite, ChrWrite, Resets, Loads
    <2>3. taken.shift_writes = l.shift_writes + 1 /\ taken.value = value
      <3>1. l \in LoadRegister
        BY <1>1 DEF LoadOK
      <3> HIDE DEF value
      <3> QED
        BY <2>1, <3>1 DEF LoadRegister
    <2>4. l.shift_writes < 4 /\ Len(Bits(l)) = l.shift_writes
      BY <1>1, <1>7, BitsFacts DEF LoadOK, LoadRegister
    <2> HIDE DEF taken
    <2>5. Bits(taken) = Append(Bits(l), byte % 2)
      BY <1>1, <1>2, <2>3, <2>4, BitsAppend
    <2>6. byte % 2 \in {0, 1}
      BY DEF Bytes
    <2> QED
      BY <1>3, <2>2, <2>4, <2>5, <2>6 DEF PortStep, Control, Mapped
  <1>8. CASE area \in Registers /\ ~IsReset(byte) /\ l.shift_writes = 4
    <2>1. taken = Emptied(l)
      BY <1>8 DEF Taken, Shifted
    <2>2. Bits(l)' = <<>>
      BY <1>1, <1>3, <2>1, EmptiedFacts, BitsEmpty
    <2>3. Len(Bits(l)) = 4
      BY <1>1, <1>8, BitsFacts
    <2>4. Loads(l, area, byte) /\ ~Resets(l, area, byte)
      BY <1>1, <1>8 DEF Loads, Resets
    <2>5. /\ prg' = CASE area = "control" -> UpdatePrgControl(prg, value)
                      [] area = "prg" -> UpdatePrgBank(prg, value)
                      [] OTHER -> prg
          /\ chr' = CASE area = "control" -> UpdateChrControl(chr, value)
                      [] area = "chr0" -> UpdateChrBank0(chr, value)
                      [] area = "chr1" -> UpdateChrBank1(chr, value)
                      [] OTHER -> chr
      BY <1>1, <2>4 DEF CartridgeWrite, PrgWrite, ChrWrite
    <2> HIDE DEF value
    <2>6. CASE area = "control"
      <3>1. /\ prg'.prg_bank_mode = PrgMode(value) /\ chr'.chr_bank_mode = ChrMode(value)
            /\ chr'.mirroring_mode = Mirroring(value)
        BY <1>1, <1>4, <2>5, <2>6, PrgModeFacts, ChrModeFacts
      <3>2. Control' = Port!Decoded(Append(Bits(l), byte % 2))
        BY <1>1, <1>8, <3>1, FifthBit DEF Control, value
      <3>3. byte % 2 \in {0, 1}
        BY DEF Bytes
      <3> QED
        BY <2>2, <2>3, <3>2, <3>3 DEF PortStep
    <2>7. CASE area # "control"
      <3>1. prg'.prg_bank_mode = prg.prg_bank_mode
        BY <1>1, <1>4, <2>5, <2>7, PrgModeFacts
      <3>2. chr'.chr_bank_mode = chr.chr_bank_mode /\ chr'.mirroring_mode = chr.mirroring_mode
        BY <1>1, <1>4, <2>5, <2>7, ChrModeFacts
      <3> QED
        BY <2>2, <2>3, <3>1, <3>2 DEF PortStep, Control
    <2> QED
      BY <2>6, <2>7
  <1> QED
    BY <1>1, <1>5, <1>6, <1>7, <1>8

LEMMA PortNoWrite ==
    ASSUME Mmc1Inv, NoWrite
    PROVE  PortStep
  <1>1. Bits(prg_load)' = Bits(prg_load)
    BY BitsRecent DEF Mmc1Inv, Mmc1TypeOK, NoWrite, Bits
  <1> QED
    BY <1>1 DEF NoWrite, PortStep, Control, Mapped

LEMMA StepIsPortStep ==
    ASSUME Mmc1Inv, [Mmc1Next]_mmc1_vars
    PROVE  PortStep
  <1>1. CASE Run \/ Dummy \/ Fetch
    BY <1>1, PortNoWrite DEF Run, Dummy, Fetch
  <1>2. CASE Store
    BY <1>2, PortWrite DEF Store
  <1>3. CASE Execute
    BY <1>3, PortWrite DEF Execute
  <1>4. CASE WriteResult
    BY <1>4, PortWrite DEF WriteResult
  <1>5. CASE UNCHANGED mmc1_vars
    BY <1>5 DEF mmc1_vars, PortStep, Control, Mapped, Bits
  <1> QED
    BY <1>1, <1>2, <1>3, <1>4, <1>5 DEF Mmc1Next

LEMMA PortInit == Mmc1Init => Port!Init
  <1> SUFFICES ASSUME Mmc1Init PROVE Port!Init
    OBVIOUS
  <1>1. prg_load.shift_writes = 0
    BY DEF Mmc1Init, NewLoadRegister
  <1>2. Bits(prg_load) = <<>>
    BY <1>1, BitsEmpty
  <1>3. Control = [prg |-> "FixLast16KB", chr |-> "Switch4KB", mirroring |-> "OneScreenLowerBank"]
    BY DEF Mmc1Init, Control
  <1>4. Port!Decoded(<<0, 0, 1, 1, 1>>)
          = [prg |-> "FixLast16KB", chr |-> "Switch4KB", mirroring |-> "OneScreenLowerBank"]
    BY DEF Port!Decoded
  <1> QED
    BY <1>2, <1>3, <1>4 DEF Port!Init, Bits, Control

-----------------------------------------------------------------------------
(* The other boards: windows inside the ROM *)

PrgSlots(h) == 0..(4 \div PrgBankSize(h)) - 1
ChrSlots(h) == 0..(8 \div ChrBankSize(h)) - 1

PrgWindows(h) == [PrgSlots(h) -> 0..RomBanks(h) - 1]
ChrWindows(h) == [ChrSlots(h) -> 0..ChrTotal(h) - 1]

PrgChips(h) == [banks : PrgWindows(h), offsets : PrgWindows(h)]
ChrChips(h) == [banks : ChrWindows(h), offsets : ChrWindows(h)]

LEMMA HeaderFacts ==
    ASSUME NEW h \in Headers
    PROVE  /\ h.mapper \in Mappers
           /\ h.prg_units \in 1..255
           /\ h.mapper = 9 => h.prg_units >= 2
           /\ h.chr_units \in 0..255
           /\ h.mirroring \in HeaderMirroring
  BY HeaderAssumption DEF Headers

\* What the constructors are told never exceeds the ROM they get.
LEMMA PrgSizes ==
    ASSUME NEW h \in Headers
    PROVE  /\ PrgTotal(h) \in Nat /\ RomBanks(h) \in Nat
           /\ PrgTotal(h) <= RomBanks(h) /\ RomBanks(h) > 0
           /\ h.mapper \in {4, 9} => PrgSlots(h) = 0..3 /\ PrgTotal(h) >= 2
           /\ h.mapper = 9 => PrgTotal(h) >= 4
           /\ h.mapper \in Uxrom \cup {10, 71} => PrgSlots(h) = 0..1 /\ PrgTotal(h) >= 1
           /\ h.mapper \notin Uxrom \cup {4, 9, 10, 71} => PrgSlots(h) = 0..0
  <1> DEFINE u == h.prg_units
             r == RomUnits(h)
  <1>1. /\ u \in 1..255 /\ (h.mapper = 9 => u >= 2)
        /\ r \in 1..255 /\ u <= r
        /\ h.mapper \notin Uxrom \cup {9, 71} => r >= 2
    BY HeaderFacts DEF RomUnits
  <1>2. /\ RomBanks(h) = (2 * r) \div PrgBankSize(h)
        /\ h.mapper \notin {0, 3} => PrgTotal(h) = (2 * u) \div PrgBankSize(h)
        /\ h.mapper \in {0, 3} => PrgTotal(h) = 1
    BY DEF RomBanks, PrgTotal
  <1> HIDE DEF u, r
  <1>3. CASE h.mapper \in {4, 9}
    <2>1. PrgBankSize(h) = 1 /\ h.mapper \notin {0, 3} /\ h.mapper \notin Uxrom \cup {10, 71}
      BY <1>3 DEF PrgBankSize, Uxrom
    <2>2. PrgTotal(h) = 2 * u /\ RomBanks(h) = 2 * r /\ PrgSlots(h) = 0..3
      BY <1>1, <1>2, <2>1 DEF PrgSlots
    <2> QED
      BY <1>1, <1>3, <2>1, <2>2
  <1>4. CASE h.mapper \in Uxrom \cup {10, 71}
    <2>1. PrgBankSize(h) = 2 /\ h.mapper \notin {0, 3, 4, 9}
      BY <1>4 DEF PrgBankSize, Uxrom
    <2>2. PrgTotal(h) = u /\ RomBanks(h) = r /\ PrgSlots(h) = 0..1
      BY <1>1, <1>2, <2>1 DEF PrgSlots
    <2> QED
      BY <1>1, <1>4, <2>1, <2>2
  <1>5. CASE h.mapper \notin Uxrom \cup {4, 9, 10, 71}
    <2>1. PrgBankSize(h) = 4
      BY <1>5 DEF PrgBankSize
    <2>2. (2 * r) \div 4 \in Nat /\ (2 * r) \div 4 >= 1
      BY <1>1, <1>5
    <2>3. (2 * u) \div 4 \in Nat /\ (2 * u) \div 4 <= (2 * r) \div 4
      BY <1>1
    <2>4. /\ PrgTotal(h) \in Nat /\ RomBanks(h) \in Nat
          /\ PrgTotal(h) <= RomBanks(h) /\ RomBanks(h) > 0
      <3>1. CASE h.mapper \in {0, 3}
        BY <1>2, <2>1, <2>2, <3>1
      <3>2. CASE h.mapper \notin {0, 3}
        BY <1>2, <2>1, <2>2, <2>3, <3>2
      <3> QED
        BY <3>1, <3>2
    <2>5. PrgSlots(h) = 0..0
      BY <2>1 DEF PrgSlots
    <2> QED
      BY <1>5, <2>4, <2>5
  <1> QED
    BY <1>3, <1>4, <1>5

LEMMA ChrSizes ==
    ASSUME NEW h \in Headers
    PROVE  /\ ChrTotal(h) \in Nat /\ ChrTotal(h) > 0
           /\ h.mapper = 4 => ChrSlots(h) = 0..7 /\ \E k \in Nat : k > 0 /\ ChrTotal(h) = 8 * k
           /\ h.mapper \in Mmc2Mmc4 \/ IsNina001(h) => ChrSlots(h) = 0..1 /\ ChrTotal(h) >= 2
           /\ h.mapper \notin Mmc2Mmc4 \cup {4} /\ ~IsNina001(h) => ChrSlots(h) = 0..0
  <1> DEFINE u == IF h.chr_units = 0 THEN 1 ELSE h.chr_units
  <1>1. u \in Nat /\ u > 0
    BY HeaderFacts
  <1>2. ChrTotal(h) = (8 * u) \div ChrBankSize(h)
    BY DEF ChrTotal
  <1> HIDE DEF u
  <1>3. CASE h.mapper = 4
    <2>1. ChrBankSize(h) = 1
      BY <1>3 DEF ChrBankSize, IsNina001, Mmc2Mmc4
    <2>2. ~IsNina001(h) /\ h.mapper \notin Mmc2Mmc4
      BY <1>3 DEF IsNina001, Mmc2Mmc4
    <2>3. ChrTotal(h) = 8 * u /\ ChrSlots(h) = 0..7
      BY <1>1, <1>2, <2>1 DEF ChrSlots
    <2>4. \E k \in Nat : k > 0 /\ ChrTotal(h) = 8 * k
      BY <1>1, <2>3
    <2>5. ChrTotal(h) \in Nat /\ ChrTotal(h) > 0
      BY <1>1, <2>3
    <2> QED
      BY <1>3, <2>2, <2>3, <2>4, <2>5
  <1>4. CASE h.mapper \in Mmc2Mmc4 \/ IsNina001(h)
    <2>1. ChrBankSize(h) = 4 /\ h.mapper # 4
      BY <1>4 DEF ChrBankSize, IsNina001, Mmc2Mmc4
    <2>2. ChrTotal(h) = 2 * u /\ ChrSlots(h) = 0..1
      BY <1>1, <1>2, <2>1 DEF ChrSlots
    <2> QED
      BY <1>1, <1>4, <2>1, <2>2
  <1>5. CASE h.mapper \notin Mmc2Mmc4 \cup {4} /\ ~IsNina001(h)
    <2>1. ChrBankSize(h) = 8
      BY <1>5 DEF ChrBankSize
    <2>2. ChrTotal(h) = u /\ ChrSlots(h) = 0..0
      BY <1>1, <1>2, <2>1 DEF ChrSlots
    <2> QED
      BY <1>1, <1>5, <2>2
  <1> QED
    BY <1>3, <1>4, <1>5

LEMMA Division ==
    ASSUME NEW m \in Nat, NEW n \in Nat, n > 0
    PROVE  m % n \in 0..n - 1 /\ m \div n \in Nat /\ m = n * (m \div n) + (m % n)
  <1>1. m % n \in 0..n - 1
    OBVIOUS
  <1>2. m \div n \in Nat
    OBVIOUS
  <1>3. m = n * (m \div n) + (m % n)
    OBVIOUS
  <1> QED
    BY <1>1, <1>2, <1>3

LEMMA ByteFacts ==
    ASSUME NEW value \in Written
    PROVE  value \in 0..255
  BY HeaderAssumption

LEMMA FieldFacts ==
    ASSUME NEW value \in 0..255
    PROVE  /\ Field(value, 0, 1) \in Nat /\ Field(value, 0, 2) \in Nat
           /\ Field(value, 0, 3) \in Nat /\ Field(value, 0, 4) \in Nat
           /\ Field(value, 2, 3) \in Nat /\ Field(value, 3, 1) \in Nat
           /\ Field(value, 4, 2) \in Nat /\ Field(value, 4, 4) \in Nat
           /\ Field(value, 0, 5) \in Nat
  BY DEF Field

LEMMA PrgFieldIsNat ==
    ASSUME NEW h \in Headers, NEW value \in 0..255
    PROVE  PrgField(h, value) \in Nat
  BY FieldFacts DEF PrgField

\* A board's PRG register moves its slot to a bank of the ROM, and no other slot.
LEMMA SelectPrgFacts ==
    ASSUME NEW h \in Headers, NEW chip \in PrgChips(h), NEW addr, NEW value \in Written,
           NEW c, c = SelectPrg(chip, h, addr, value),
           IsPrgRegister(h, addr) => PrgTotal(h) > 0
    PROVE  /\ c \in PrgChips(h)
           /\ h.mapper # 180 => \A i \in PrgSlots(h) : i # 0 => c.offsets[i] = chip.offsets[i]
  <1> DEFINE slot == IF h.mapper = 180 THEN 1 ELSE 0
             bank == PrgField(h, value) % PrgTotal(h)
             moved == Select(chip, slot, bank)
  <1>1. IsPrgRegister(h, addr) => bank \in 0..RomBanks(h) - 1
    <2> SUFFICES ASSUME IsPrgRegister(h, addr)
                 PROVE  bank \in 0..RomBanks(h) - 1
      OBVIOUS
    <2>1. PrgField(h, value) \in Nat /\ PrgTotal(h) \in Nat /\ PrgTotal(h) > 0
      BY PrgSizes, PrgFieldIsNat, ByteFacts
    <2>2. bank \in 0..PrgTotal(h) - 1
      BY <2>1, Division
    <2> QED
      BY <2>1, <2>2, PrgSizes
  <1>2. slot \in PrgSlots(h) /\ (h.mapper # 180 => slot = 0)
    BY PrgSizes DEF Uxrom
  <1> HIDE DEF bank, slot
  <1>3. IsPrgRegister(h, addr) =>
            /\ moved \in PrgChips(h)
            /\ \A i \in PrgSlots(h) : i # slot => moved.offsets[i] = chip.offsets[i]
    BY <1>1, <1>2 DEF Select, PrgChips, PrgWindows
  <1>4. \/ c = chip
        \/ IsPrgRegister(h, addr) /\ c = moved
    BY DEF SelectPrg, moved, slot, bank
  <1> HIDE DEF moved
  <1> QED
    BY <1>2, <1>3, <1>4

LEMMA SelectChrFacts ==
    ASSUME NEW h \in Headers, NEW chip \in ChrChips(h), NEW addr, NEW value \in 0..255,
           h.mapper \notin Mmc2Mmc4 \cup {4}, ~IsNina001(h)
    PROVE  SelectChr(chip, h, addr, value) \in ChrChips(h)
  <1>1. \A n \in Nat : n % ChrTotal(h) \in 0..ChrTotal(h) - 1
    BY ChrSizes
  <1>2. 0 \in ChrSlots(h)
    BY ChrSizes
  <1>3. \A bank \in 0..ChrTotal(h) - 1 : Select(chip, 0, bank) \in ChrChips(h)
    BY <1>2 DEF Select, ChrChips, ChrWindows
  <1>4. \A n \in Nat : Select(chip, 0, n % ChrTotal(h)) \in ChrChips(h)
    BY <1>1, <1>3
  <1>5. value \in Nat
    OBVIOUS
  <1> QED
    BY <1>4, <1>5, FieldFacts DEF SelectChr

LEMMA OneScreenFacts ==
    ASSUME NEW bit
    PROVE  OneScreen(bit) \in AnyMirroring
  BY DEF OneScreen, AnyMirroring

LEMMA MirroredFacts ==
    ASSUME NEW mode \in AnyMirroring, NEW h, NEW addr, NEW value
    PROVE  Mirrored(mode, h, addr, value) \in AnyMirroring
  <1> DEFINE axrom == h.mapper = 7 /\ addr >= \h8000
             fire == h.mapper = 71 /\ addr \in \h9000..\h9FFF
             latched == h.mapper \in Mmc2Mmc4 /\ addr >= \hF000
             mmc3s == h.mapper = 4 /\ addr \in \hA000..\hBFFF /\ addr % 2 = 0 /\ mode # "FourScreen"
             one == OneScreen(Field(value, 4, 1))
             odd == value % 2 = 1
             even == value % 2 = 0
  <1>1. Mirrored(mode, h, addr, value) =
            CASE axrom -> one
              [] fire -> one
              [] latched -> IF odd THEN "Horizontal" ELSE "Vertical"
              [] mmc3s -> IF even THEN "Vertical" ELSE "Horizontal"
              [] OTHER -> mode
    BY DEF Mirrored
  <1>2. one \in AnyMirroring
    BY OneScreenFacts
  <1>3. {"Horizontal", "Vertical"} \subseteq AnyMirroring
    BY DEF AnyMirroring, HeaderMirroring
  <1> HIDE DEF axrom, fire, latched, mmc3s, one, odd, even
  <1> QED
    BY <1>1, <1>2, <1>3

-----------------------------------------------------------------------------
(* MMC3's windows *)

LEMMA Mmc3PrgFacts ==
    ASSUME NEW h \in Headers, h.mapper = 4, header = h, NEW banks \in PrgWindows(h),
           banks[3] = PrgTotal(h) - 1, NEW register, NEW value \in Written, NEW mode,
           NEW new, new = PrgBanksMmc3(banks, register, value)
    PROVE  /\ new \in PrgWindows(h) /\ MapPrgMmc3(new, mode) \in PrgWindows(h)
           /\ new[3] = PrgTotal(h) - 1 /\ MapPrgMmc3(new, mode)[3] = PrgTotal(h) - 1
  <1>1. value % PrgTotal(h) \in 0..RomBanks(h) - 1
    <2>1. value \in Nat /\ PrgTotal(h) \in Nat /\ PrgTotal(h) > 0
      BY PrgSizes, ByteFacts
    <2>2. value % PrgTotal(h) \in 0..PrgTotal(h) - 1
      BY <2>1, Division
    <2> QED
      BY <2>1, <2>2, PrgSizes
  <1>2. PrgSlots(h) = 0..3
    BY PrgSizes
  <1>3. new \in PrgWindows(h) /\ new[3] = banks[3]
    <2>1. CASE register \in {6, 7}
      <3>1. new = [banks EXCEPT ![register - 6] = value % PrgTotal(h)]
        BY <2>1 DEF PrgBanksMmc3
      <3>2. register - 6 \in 0..1
        BY <2>1
      <3> QED
        BY <1>1, <1>2, <3>1, <3>2 DEF PrgWindows
    <2>2. CASE register \notin {6, 7}
      BY <2>2 DEF PrgBanksMmc3
    <2> QED
      BY <2>1, <2>2
  <1>4. MapPrgMmc3(new, mode) \in PrgWindows(h) /\ MapPrgMmc3(new, mode)[3] = new[3]
    BY <1>2, <1>3 DEF MapPrgMmc3, PrgWindows
  <1> QED
    BY <1>3, <1>4

\* A pair of 1KB banks, of a number of them that is a multiple of eight.
LEMMA PairFits ==
    ASSUME NEW value \in Nat, NEW k \in Nat, k > 0
    PROVE  LET pair == (value - (value % 2)) % (8 * k)
           IN  pair \in 0..8 * k - 1 /\ pair + 1 \in 0..8 * k - 1
  <1> DEFINE even == value - (value % 2)
             n == 8 * k
  <1>1. PICK half \in Nat : even = 2 * half
    <2>1. even = 2 * (value \div 2) /\ value \div 2 \in Nat
      OBVIOUS
    <2> QED
      BY <2>1
  <1>2. n \in Nat /\ n > 0
    OBVIOUS
  <1> HIDE DEF even, n
  <1>3. PICK q \in Nat : even = n * q + (even % n)
    BY <1>1, <1>2, Division
  <1>4. even % n \in 0..n - 1
    BY <1>1, <1>2, Division
  <1>5. n * q = 2 * (4 * (k * q)) /\ k * q \in Nat
    BY DEF n
  <1>6. n = 2 * (4 * k)
    BY DEF n
  <1>7. even % n # n - 1
    BY <1>1, <1>3, <1>4, <1>5, <1>6
  <1> QED
    BY <1>2, <1>4, <1>7 DEF even, n

LEMMA Mmc3ChrFacts ==
    ASSUME NEW h \in Headers, h.mapper = 4, header = h, NEW banks \in ChrWindows(h),
           NEW register, NEW value \in Written, NEW mode,
           NEW new, new = ChrBanksMmc3(banks, register, value)
    PROVE  new \in ChrWindows(h) /\ MapChrMmc3(new, mode) \in ChrWindows(h)
  <1> DEFINE pair == (value - (value % 2)) % ChrTotal(h)
  <1>1. ChrSlots(h) = 0..7
    BY ChrSizes
  <1>2. value % ChrTotal(h) \in 0..ChrTotal(h) - 1
    BY ChrSizes, ByteFacts
  <1>3. pair \in 0..ChrTotal(h) - 1 /\ pair + 1 \in 0..ChrTotal(h) - 1
    <2>1. value \in Nat
      BY ByteFacts
    <2>2. PICK k \in Nat : k > 0 /\ ChrTotal(h) = 8 * k
      BY ChrSizes
    <2> QED
      BY <2>1, <2>2, PairFits
  <1>4. new \in ChrWindows(h)
    <2>1. CASE register \in {0, 1}
      <3> DEFINE first == [banks EXCEPT ![2 * register] = pair]
      <3>1. new = [first EXCEPT ![2 * register + 1] = pair + 1]
        BY <2>1 DEF ChrBanksMmc3
      <3>2. 2 * register \in 0..7 /\ 2 * register + 1 \in 0..7
        BY <2>1
      <3> HIDE DEF pair
      <3>3. first \in ChrWindows(h)
        BY <1>1, <1>3, <3>2 DEF ChrWindows
      <3> QED
        BY <1>1, <1>3, <3>1, <3>2, <3>3 DEF ChrWindows
    <2>2. CASE register \in 2..5
      <3>1. new = [banks EXCEPT ![register + 2] = value % ChrTotal(h)]
        BY <2>2 DEF ChrBanksMmc3
      <3>2. register + 2 \in 0..7
        BY <2>2
      <3> QED
        BY <1>1, <1>2, <3>1, <3>2 DEF ChrWindows
    <2>3. CASE register \notin {0, 1} /\ register \notin 2..5
      BY <2>3 DEF ChrBanksMmc3
    <2> QED
      BY <2>1, <2>2, <2>3
  <1>5. MapChrMmc3(new, mode) \in ChrWindows(h)
    BY <1>1, <1>4 DEF MapChrMmc3, ChrWindows
  <1> QED
    BY <1>4, <1>5

-----------------------------------------------------------------------------
(* The inductive invariant *)

BoardsHeaderOK == header \in Headers

\* The banks, and the offsets cached for them, of every slot.
WindowsInv ==
    /\ prg_chip \in PrgChips(header)
    /\ IsNina001(header) \/ chr_chip \in ChrChips(header)

\* The last slot shows the last bank; MMC3 maps it anew from a bank that never changes.
VectorsInv ==
    /\ header.mapper \in {4, 9} => prg_chip.offsets[3] = PrgTotal(header) - 1
    /\ header.mapper \in {2, 94, 71, 10} => prg_chip.offsets[1] = PrgTotal(header) - 1
    /\ header.mapper = 4 => prg_chip.banks[3] = PrgTotal(header) - 1

MirroringInv == mirroring_mode \in AnyMirroring

\* The banks behind the latches are banks of the ROM, too: a read of the PPU maps them.
Latches(h) == [at : [0..1 -> 0..1], bank : [0..1 -> [0..1 -> 0..ChrTotal(h) - 1]]]

LatchInv == header.mapper \in Mmc2Mmc4 => latch \in Latches(header) /\ LatchSelects

BoardsInv == BoardsHeaderOK /\ WindowsInv /\ VectorsInv /\ MirroringInv /\ LatchInv

-----------------------------------------------------------------------------
(* The constructors *)

LEMMA NewPrgFacts ==
    ASSUME NEW h \in Headers
    PROVE  LET c == NewPrg(h)
           IN  /\ c \in PrgChips(h)
               /\ h.mapper \in {4, 9} =>
                     c.banks[3] = PrgTotal(h) - 1 /\ c.offsets[3] = PrgTotal(h) - 1
               /\ h.mapper \in Uxrom \cup {10, 71} => c.offsets[1] = PrgTotal(h) - 1
  <1> DEFINE T == PrgTotal(h)
             R == RomBanks(h)
             f4 == [i \in 0..3 |-> IF i < 2 THEN i ELSE (T - 1) + i - 3]
             f9 == [i \in 0..3 |-> IF i = 0 THEN 0 ELSE (T - 1) + i - 3]
             f2 == [i \in 0..1 |-> IF i = 0 THEN 0 ELSE T - 1]
             f1 == [i \in {0} |-> 0]
  <1>1. CASE h.mapper = 4
    <2>6. PrgBankSize(h) = 1
      BY <1>1 DEF PrgBankSize, Uxrom
    <2>1. NewPrg(h) = Chip(f4)
      BY <1>1, <2>6 DEF NewPrg
    <2>2. T \in Nat /\ T >= 2 /\ R \in Nat /\ T <= R /\ PrgWindows(h) = [0..3 -> 0..R - 1]
      BY <1>1, PrgSizes DEF PrgWindows
    <2> HIDE DEF T, R
    <2>3. f4 \in [0..3 -> 0..R - 1] /\ f4[3] = T - 1
      BY <2>2
    <2> HIDE DEF f4
    <2>4. f4 \in PrgWindows(h) /\ f4[3] = PrgTotal(h) - 1
      BY <2>2, <2>3 DEF T
    <2>5. h.mapper \notin Uxrom \cup {10, 71}
      BY <1>1 DEF Uxrom
    <2> QED
      BY <2>1, <2>4, <2>5 DEF Chip, PrgChips
  <1>2. CASE h.mapper = 9
    <2>6. PrgBankSize(h) = 1
      BY <1>2 DEF PrgBankSize, Uxrom
    <2>1. NewPrg(h) = Chip(f9)
      BY <1>2, <2>6 DEF NewPrg
    <2>2. T \in Nat /\ T >= 4 /\ R \in Nat /\ T <= R /\ PrgWindows(h) = [0..3 -> 0..R - 1]
      BY <1>2, PrgSizes DEF PrgWindows
    <2> HIDE DEF T, R
    <2>3. f9 \in [0..3 -> 0..R - 1] /\ f9[3] = T - 1
      BY <2>2
    <2> HIDE DEF f9
    <2>4. f9 \in PrgWindows(h) /\ f9[3] = PrgTotal(h) - 1
      BY <2>2, <2>3 DEF T
    <2>5. h.mapper \notin Uxrom \cup {10, 71}
      BY <1>2 DEF Uxrom
    <2> QED
      BY <2>1, <2>4, <2>5 DEF Chip, PrgChips
  <1>3. CASE h.mapper \in Uxrom \cup {10, 71}
    <2>1. NewPrg(h) = Chip(f2)
      BY <1>3 DEF NewPrg, PrgBankSize, Uxrom
    <2>2. f2 \in PrgWindows(h) /\ f2[1] = T - 1
      BY <1>3, PrgSizes DEF PrgWindows
    <2> QED
      BY <1>3, <2>1, <2>2 DEF Chip, PrgChips, Uxrom
  <1>4. CASE h.mapper \notin Uxrom \cup {4, 9, 10, 71}
    <2>1. NewPrg(h) = Chip(f1)
      BY <1>4 DEF NewPrg, PrgBankSize, Uxrom
    <2>2. f1 \in PrgWindows(h)
      BY <1>4, PrgSizes DEF PrgWindows
    <2> QED
      BY <1>4, <2>1, <2>2 DEF Chip, PrgChips, Uxrom
  <1> QED
    BY <1>1, <1>2, <1>3, <1>4

LEMMA NewChrFacts ==
    ASSUME NEW h \in Headers
    PROVE  NewChr(h) \in ChrChips(h)
  <1> DEFINE f == [i \in ChrSlots(h) |-> i]
  <1>1. NewChr(h) = Chip(f)
    BY DEF NewChr, ChrSlots
  <1>2. f \in ChrWindows(h)
    <2>1. CASE h.mapper = 4
      BY <2>1, ChrSizes DEF ChrWindows
    <2>2. CASE h.mapper \in Mmc2Mmc4 \/ IsNina001(h)
      BY <2>2, ChrSizes DEF ChrWindows
    <2>3. CASE h.mapper \notin Mmc2Mmc4 \cup {4} /\ ~IsNina001(h)
      BY <2>3, ChrSizes DEF ChrWindows
    <2> QED
      BY <2>1, <2>2, <2>3
  <1> HIDE DEF f
  <1> QED
    BY <1>1, <1>2 DEF Chip, ChrChips

LEMMA InvInit == BoardsInit => BoardsInv
  <1> SUFFICES ASSUME BoardsInit PROVE BoardsInv
    OBVIOUS
  <1>1. BoardsHeaderOK
    BY DEF BoardsInit, BoardsHeaderOK
  <1>2. WindowsInv
    BY <1>1, NewPrgFacts, NewChrFacts DEF BoardsInit, WindowsInv, BoardsHeaderOK
  <1>3. VectorsInv
    BY <1>1, NewPrgFacts DEF BoardsInit, VectorsInv, BoardsHeaderOK, Uxrom
  <1>4. MirroringInv
    BY <1>1, HeaderFacts
       DEF BoardsInit, NewMirroring, MirroringInv, AnyMirroring, HeaderMirroring, BoardsHeaderOK
  <1>5. ASSUME header.mapper \in Mmc2Mmc4
        PROVE  latch \in Latches(header) /\ LatchSelects
    <2>1. chr_chip = Chip([i \in 0..1 |-> i])
      BY <1>5 DEF BoardsInit, NewChr, ChrBankSize, Mmc2Mmc4
    <2>2. latch = NewLatch
      BY DEF BoardsInit
    <2>3. 0 \in 0..ChrTotal(header) - 1 /\ 1 \in 0..ChrTotal(header) - 1
      BY <1>1, <1>5, ChrSizes DEF BoardsHeaderOK
    <2>4. latch \in Latches(header)
      BY <2>2, <2>3 DEF Latches, NewLatch
    <2>5. LatchSelects
      BY <2>1, <2>2 DEF LatchSelects, Chip, NewLatch
    <2> QED
      BY <2>4, <2>5
  <1> QED
    BY <1>1, <1>2, <1>3, <1>4, <1>5 DEF BoardsInv, LatchInv

-----------------------------------------------------------------------------
(* MMC2 and MMC4 *)

LEMMA SelectLatched ==
    ASSUME NEW h \in Headers, h.mapper \in Mmc2Mmc4, NEW chip \in ChrChips(h),
           NEW half \in 0..1, NEW bank \in 0..ChrTotal(h) - 1,
           NEW c, c = Select(chip, half, bank)
    PROVE  /\ c \in ChrChips(h)
           /\ c.offsets[half] = bank
           /\ \A i \in 0..1 : i # half => c.offsets[i] = chip.offsets[i]
  <1>1. ChrSlots(h) = 0..1
    BY ChrSizes
  <1> QED
    BY <1>1 DEF Select, ChrChips, ChrWindows

\* A bank is written behind latch value v of a half.
LEMMA WriteLatchFacts ==
    ASSUME NEW h \in Headers, NEW l \in Latches(h), NEW half \in 0..1, NEW v \in 0..1,
           NEW bank \in 0..ChrTotal(h) - 1
    PROVE  LET m == [l EXCEPT !.bank[half][v] = bank]
           IN  /\ m \in Latches(h)
               /\ m.at = l.at
               /\ m.bank[half][v] = bank
               /\ \A g, w \in 0..1 : g # half \/ w # v => m.bank[g][w] = l.bank[g][w]
  <1> DEFINE f == [l.bank EXCEPT ![half] = [l.bank[half] EXCEPT ![v] = bank]]
  <1>1. [l EXCEPT !.bank[half][v] = bank] = [at |-> l.at, bank |-> f]
    BY DEF Latches
  <1>2. /\ f \in [0..1 -> [0..1 -> 0..ChrTotal(h) - 1]]
        /\ f[half][v] = bank
        /\ \A g, w \in 0..1 : g # half \/ w # v => f[g][w] = l.bank[g][w]
    BY DEF Latches
  <1> HIDE DEF f
  <1> QED
    BY <1>1, <1>2 DEF Latches

\* A read of the PPU sets the latch of a half to v.
LEMMA SetLatchFacts ==
    ASSUME NEW h \in Headers, NEW l \in Latches(h), NEW half \in 0..1, NEW v \in 0..1,
           NEW m, m = [l EXCEPT !.at[half] = v]
    PROVE  /\ m \in Latches(h)
           /\ m.bank = l.bank
           /\ m.at[half] = v
           /\ \A g \in 0..1 : g # half => m.at[g] = l.at[g]
  <1> DEFINE f == [l.at EXCEPT ![half] = v]
  <1>1. m = [at |-> f, bank |-> l.bank]
    BY DEF Latches
  <1>2. f \in [0..1 -> 0..1] /\ f[half] = v /\ \A g \in 0..1 : g # half => f[g] = l.at[g]
    BY DEF Latches
  <1> HIDE DEF f
  <1> QED
    BY <1>1, <1>2 DEF Latches

\* What a step of one of these boards leaves of the CHR chip and the latch.
LatchStep ==
    /\ chr_chip' \in ChrChips(header) /\ latch' \in Latches(header)
    /\ \A g \in 0..1 : chr_chip'.offsets[g] = latch'.bank[g][latch'.at[g]]

\* A write to one of the registers $B000-$EFFF moves the window only if the latch selects it.
LEMMA WriteLatchedStep ==
    ASSUME BoardsInv, header.mapper \in Mmc2Mmc4, NEW half \in 0..1, NEW v \in 0..1,
           NEW bank \in 0..ChrTotal(header) - 1, WriteLatched(half, v, bank)
    PROVE  LatchStep
  <1>1. /\ header \in Headers /\ latch \in Latches(header) /\ chr_chip \in ChrChips(header)
        /\ \A g \in 0..1 : chr_chip.offsets[g] = latch.bank[g][latch.at[g]]
    BY DEF BoardsInv, BoardsHeaderOK, LatchInv, LatchSelects, WindowsInv, IsNina001, Mmc2Mmc4
  <1>2. /\ latch' \in Latches(header)
        /\ latch'.at = latch.at
        /\ latch'.bank[half][v] = bank
        /\ \A g, w \in 0..1 : g # half \/ w # v => latch'.bank[g][w] = latch.bank[g][w]
    BY <1>1, WriteLatchFacts DEF WriteLatched
  <1>3. latch.at \in [0..1 -> 0..1]
    BY <1>1 DEF Latches
  <1>4. CASE latch.at[half] = v
    <2>1. chr_chip' = Select(chr_chip, half, bank)
      BY <1>4 DEF WriteLatched
    <2>2. /\ chr_chip' \in ChrChips(header)
          /\ chr_chip'.offsets[half] = bank
          /\ \A i \in 0..1 : i # half => chr_chip'.offsets[i] = chr_chip.offsets[i]
      BY <1>1, <2>1, SelectLatched
    <2> QED
      BY <1>1, <1>2, <1>3, <1>4, <2>2 DEF LatchStep
  <1>5. CASE latch.at[half] # v
    <2>1. chr_chip' = chr_chip
      BY <1>5 DEF WriteLatched
    <2> QED
      BY <1>1, <1>2, <1>3, <1>5, <2>1 DEF LatchStep
  <1> QED
    BY <1>4, <1>5

LEMMA ReadPatternStep ==
    ASSUME BoardsInv, NEW addr, ReadPattern(addr)
    PROVE  LatchStep
  <1>1. /\ header \in Headers /\ latch \in Latches(header) /\ chr_chip \in ChrChips(header)
        /\ header.mapper \in Mmc2Mmc4
        /\ \A g \in 0..1 : chr_chip.offsets[g] = latch.bank[g][latch.at[g]]
    BY DEF BoardsInv, BoardsHeaderOK, LatchInv, LatchSelects, WindowsInv, IsNina001, Mmc2Mmc4,
           ReadPattern
  <1>2. PICK half \in 0..1, v \in 0..1 :
          /\ latch' = [latch EXCEPT !.at[half] = v]
          /\ chr_chip' = Select(chr_chip, half, latch.bank[half][v])
    BY DEF ReadPattern
  <1>3. /\ latch' \in Latches(header)
        /\ latch'.bank = latch.bank
        /\ latch'.at[half] = v
        /\ \A g \in 0..1 : g # half => latch'.at[g] = latch.at[g]
    BY <1>1, <1>2, SetLatchFacts
  <1>4. latch.bank[half][v] \in 0..ChrTotal(header) - 1
    BY <1>1 DEF Latches
  <1>5. /\ chr_chip' \in ChrChips(header)
        /\ chr_chip'.offsets[half] = latch.bank[half][v]
        /\ \A i \in 0..1 : i # half => chr_chip'.offsets[i] = chr_chip.offsets[i]
    BY <1>1, <1>2, <1>4, SelectLatched
  <1> QED
    BY <1>1, <1>3, <1>5 DEF LatchStep

-----------------------------------------------------------------------------
(* Every step preserves the invariant *)

LEMMA WriteSimpleStep ==
    ASSUME BoardsInv, NEW addr, NEW value \in Written, WriteSimple(addr, value)
    PROVE  BoardsInv'
  <1>1. /\ header \in Headers /\ header' = header /\ value \in 0..255
        /\ header.mapper \notin Mmc2Mmc4 /\ header.mapper # 4
    BY ByteFacts DEF BoardsInv, BoardsHeaderOK, WriteSimple
  <1>2. /\ prg_chip' = SelectPrg(prg_chip, header, addr, value)
        /\ IsPrgRegister(header, addr) => PrgTotal(header) > 0
        /\ chr_chip' = SelectChr(chr_chip, header, addr, value)
        /\ mirroring_mode' = Mirrored(mirroring_mode, header, addr, value)
    BY DEF WriteSimple
  <1>3. BoardsHeaderOK' /\ LatchInv'
    BY <1>1 DEF BoardsHeaderOK, LatchInv
  <1>4. prg_chip \in PrgChips(header)
    BY DEF BoardsInv, WindowsInv
  <1>5. /\ prg_chip' \in PrgChips(header)
        /\ header.mapper # 180 =>
              \A i \in PrgSlots(header) : i # 0 => prg_chip'.offsets[i] = prg_chip.offsets[i]
    BY <1>1, <1>2, <1>4, SelectPrgFacts
  <1>6. IsNina001(header) \/ chr_chip' \in ChrChips(header)
    BY <1>1, <1>2, SelectChrFacts DEF BoardsInv, WindowsInv
  <1>7. WindowsInv'
    BY <1>1, <1>5, <1>6 DEF WindowsInv
  <1>8. VectorsInv'
    <2>1. CASE header.mapper \in {2, 94, 71}
      <3>1. PrgSlots(header) = 0..1
        BY <1>1, <2>1, PrgSizes DEF Uxrom
      <3>2. prg_chip'.offsets[1] = prg_chip.offsets[1]
        BY <1>5, <2>1, <3>1
      <3> QED
        BY <1>1, <2>1, <3>2 DEF BoardsInv, VectorsInv
    <2>2. CASE header.mapper \notin {2, 94, 71}
      BY <1>1, <2>2 DEF VectorsInv, Mmc2Mmc4
    <2> QED
      BY <2>1, <2>2
  <1>9. MirroringInv'
    BY <1>2, MirroredFacts DEF BoardsInv, MirroringInv
  <1> QED
    BY <1>3, <1>7, <1>8, <1>9 DEF BoardsInv

LEMMA WriteMmc2Mmc4Step ==
    ASSUME BoardsInv, NEW addr, NEW value \in Written, WriteMmc2Mmc4(addr, value)
    PROVE  BoardsInv'
  <1>1. /\ header \in Headers /\ header' = header /\ value \in 0..255
        /\ header.mapper \in Mmc2Mmc4 /\ ~IsNina001(header)
        /\ header.mapper \in {9, 10}
    BY ByteFacts DEF BoardsInv, BoardsHeaderOK, WriteMmc2Mmc4, Mmc2Mmc4, IsNina001
  <1>2. /\ prg_chip' = SelectPrg(prg_chip, header, addr, value)
        /\ mirroring_mode' = Mirrored(mirroring_mode, header, addr, value)
    BY DEF WriteMmc2Mmc4
  <1>3. prg_chip \in PrgChips(header) /\ PrgTotal(header) > 0
    BY <1>1, PrgSizes DEF BoardsInv, WindowsInv
  <1>4. /\ prg_chip' \in PrgChips(header)
        /\ \A i \in PrgSlots(header) : i # 0 => prg_chip'.offsets[i] = prg_chip.offsets[i]
    BY <1>1, <1>2, <1>3, SelectPrgFacts
  <1>5. LatchStep
    <2>1. CASE UNCHANGED <<latch, chr_chip>>
      BY <1>1, <2>1 DEF BoardsInv, LatchInv, LatchSelects, WindowsInv, LatchStep
    <2>2. ASSUME NEW half \in 0..1, NEW v \in 0..1,
                 WriteLatched(half, v, Field(value, 0, 5) % ChrTotal(header))
          PROVE  LatchStep
      <3>1. Field(value, 0, 5) % ChrTotal(header) \in 0..ChrTotal(header) - 1
        BY <1>1, FieldFacts, ChrSizes
      <3> QED
        BY <1>1, <2>2, <3>1, WriteLatchedStep
    <2> QED
      BY <2>1, <2>2 DEF WriteMmc2Mmc4
  <1>6. LatchInv'
    BY <1>1, <1>5 DEF LatchStep, LatchInv, LatchSelects
  <1>7. WindowsInv'
    BY <1>1, <1>4, <1>5 DEF WindowsInv, LatchStep
  <1>8. VectorsInv'
    <2>1. /\ header.mapper = 9 => PrgSlots(header) = 0..3
          /\ header.mapper = 10 => PrgSlots(header) = 0..1
      BY <1>1, PrgSizes
    <2> QED
      BY <1>1, <1>4, <2>1 DEF BoardsInv, VectorsInv
  <1>9. MirroringInv'
    BY <1>2, MirroredFacts, SMTT(30) DEF BoardsInv, MirroringInv
  <1> QED
    BY <1>1, <1>6, <1>7, <1>8, <1>9 DEF BoardsInv, BoardsHeaderOK

LEMMA WriteMmc3Step ==
    ASSUME BoardsInv, NEW addr, NEW value \in Written, WriteMmc3(addr, value)
    PROVE  BoardsInv'
  <1>1. /\ header \in Headers /\ header' = header /\ value \in 0..255
        /\ header.mapper = 4 /\ ~IsNina001(header)
    BY ByteFacts, SMTT(30) DEF BoardsInv, BoardsHeaderOK, WriteMmc3, IsNina001
  <1>2. BoardsHeaderOK' /\ LatchInv'
    BY <1>1 DEF BoardsHeaderOK, LatchInv, Mmc2Mmc4
  <1>3. MirroringInv'
    BY MirroredFacts DEF BoardsInv, MirroringInv, WriteMmc3
  <1>4. CASE UNCHANGED <<prg_chip, chr_chip>>
    BY <1>1, <1>2, <1>3, <1>4 DEF BoardsInv, WindowsInv, VectorsInv
  <1>5. CASE WriteBankData(value)
    <2> DEFINE prg_banks == PrgBanksMmc3(prg_chip.banks, mmc3.prg_select, value)
               chr_banks == ChrBanksMmc3(chr_chip.banks, mmc3.chr_select, value)
    <2>1. /\ prg_chip' = [banks |-> prg_banks, offsets |-> MapPrgMmc3(prg_banks, mmc3.prg_mode)]
          /\ chr_chip' = [banks |-> chr_banks, offsets |-> MapChrMmc3(chr_banks, mmc3.chr_mode)]
      BY <1>5 DEF WriteBankData
    <2>2. /\ prg_chip.banks \in PrgWindows(header)
          /\ prg_chip.banks[3] = PrgTotal(header) - 1
          /\ chr_chip.banks \in ChrWindows(header)
      BY <1>1 DEF BoardsInv, WindowsInv, VectorsInv, PrgChips, ChrChips
    <2>6. /\ prg_banks = PrgBanksMmc3(prg_chip.banks, mmc3.prg_select, value)
          /\ chr_banks = ChrBanksMmc3(chr_chip.banks, mmc3.chr_select, value)
      OBVIOUS
    <2> HIDE DEF prg_banks, chr_banks
    <2>3. /\ prg_banks \in PrgWindows(header)
          /\ MapPrgMmc3(prg_banks, mmc3.prg_mode) \in PrgWindows(header)
          /\ prg_banks[3] = PrgTotal(header) - 1
          /\ MapPrgMmc3(prg_banks, mmc3.prg_mode)[3] = PrgTotal(header) - 1
      BY <1>1, <2>2, <2>6, Mmc3PrgFacts
    <2>4. /\ chr_banks \in ChrWindows(header)
          /\ MapChrMmc3(chr_banks, mmc3.chr_mode) \in ChrWindows(header)
      BY <1>1, <2>2, <2>6, Mmc3ChrFacts
    <2>5. WindowsInv' /\ VectorsInv'
      BY <1>1, <2>1, <2>3, <2>4 DEF WindowsInv, VectorsInv, PrgChips, ChrChips
    <2> QED
      BY <1>2, <1>3, <2>5 DEF BoardsInv
  <1> QED
    BY <1>4, <1>5, SMTT(30) DEF WriteMmc3, WriteBankSelect, WriteRamProtect

LEMMA PpuReadStep ==
    ASSUME BoardsInv, NEW addr, ReadPattern(addr)
    PROVE  BoardsInv'
  <1>1. /\ header' = header /\ header.mapper \in Mmc2Mmc4 /\ ~IsNina001(header)
        /\ UNCHANGED <<prg_chip, mirroring_mode>>
    BY DEF ReadPattern, Mmc2Mmc4, IsNina001
  <1>2. LatchStep
    BY ReadPatternStep
  <1>3. WindowsInv' /\ LatchInv'
    BY <1>1, <1>2 DEF BoardsInv, WindowsInv, LatchInv, LatchStep, LatchSelects
  <1> QED
    BY <1>1, <1>3 DEF BoardsInv, BoardsHeaderOK, VectorsInv, MirroringInv

LEMMA InvStep == BoardsInv /\ [BoardsNext]_boards_vars => BoardsInv'
  <1> SUFFICES ASSUME BoardsInv, [BoardsNext]_boards_vars PROVE BoardsInv'
    OBVIOUS
  <1>1. ASSUME NEW addr \in Addresses, NEW value \in Written, WriteSimple(addr, value)
        PROVE  BoardsInv'
    BY <1>1, WriteSimpleStep
  <1>2. ASSUME NEW addr \in Addresses, NEW value \in Written, WriteMmc2Mmc4(addr, value)
        PROVE  BoardsInv'
    BY <1>2, WriteMmc2Mmc4Step
  <1>3. ASSUME NEW addr \in Addresses, NEW value \in Written, WriteMmc3(addr, value)
        PROVE  BoardsInv'
    BY <1>3, WriteMmc3Step
  <1>4. CASE PpuRead
    BY <1>4, PpuReadStep DEF PpuRead
  <1>5. CASE UNCHANGED boards_vars
    BY <1>5 DEF boards_vars, BoardsInv, BoardsHeaderOK, WindowsInv, VectorsInv, MirroringInv,
                LatchInv, LatchSelects
  <1> QED
    BY <1>1, <1>2, <1>3, <1>4, <1>5 DEF BoardsNext, CpuWrite

-----------------------------------------------------------------------------
(* What the invariant says *)

LEMMA InvImpliesVectors == BoardsInv => VectorsStayMapped
  <1> SUFFICES ASSUME BoardsInv, header.mapper \in {2, 94, 71, 4, 9, 10}
               PROVE  prg_chip.offsets[(4 \div PrgBankSize(header)) - 1] = PrgTotal(header) - 1
    BY DEF VectorsStayMapped
  <1>1. CASE header.mapper \in {4, 9}
    <2>1. PrgBankSize(header) = 1
      BY <1>1 DEF PrgBankSize, Uxrom
    <2> QED
      BY <1>1, <2>1 DEF BoardsInv, VectorsInv
  <1>2. CASE header.mapper \in {2, 94, 71, 10}
    <2>1. PrgBankSize(header) = 2
      BY <1>2 DEF PrgBankSize, Uxrom
    <2> QED
      BY <1>2, <2>1 DEF BoardsInv, VectorsInv
  <1> QED
    BY <1>1, <1>2

LEMMA InvImpliesOffsets == BoardsInv => OffsetsInRom
  <1> SUFFICES ASSUME BoardsInv PROVE OffsetsInRom
    OBVIOUS
  <1>1. RomBanks(header) \in Nat /\ ChrTotal(header) \in Nat
    BY PrgSizes, ChrSizes DEF BoardsInv, BoardsHeaderOK
  <1>2. \A i \in Slots(prg_chip) : prg_chip.offsets[i] < RomBanks(header)
    BY <1>1 DEF BoardsInv, WindowsInv, PrgChips, PrgWindows, Slots
  <1>3. IsNina001(header) \/ \A i \in Slots(chr_chip) : chr_chip.offsets[i] < ChrTotal(header)
    BY <1>1 DEF BoardsInv, WindowsInv, ChrChips, ChrWindows, Slots
  <1> QED
    BY <1>2, <1>3 DEF OffsetsInRom

LEMMA InvImpliesNametable == BoardsInv => NametableInVram
  BY DEF BoardsInv, MirroringInv, NametableInVram, MirroredAddress, AnyMirroring, HeaderMirroring

LEMMA InvImpliesLatch == BoardsInv => LatchSelects
  BY DEF BoardsInv, LatchInv, LatchSelects

-----------------------------------------------------------------------------
(* The types *)

Mmc3State ==
    [prg_select : 0..7, prg_mode : {"LowBankSwappable", "HighBankSwappable"},
     chr_select : 0..7, chr_mode : {"LowBank2KB", "HighBank2KB"},
     prg_ram_disabled : BOOLEAN, prg_ram_readonly : BOOLEAN]

\* NINA-001's banks are not wrapped: its chip is only known to have two windows.
NinaInv ==
    IsNina001(header) =>
        chr_chip \in [banks : [ChrSlots(header) -> Nat], offsets : [ChrSlots(header) -> Nat]]

ToldType == [select : 0..255, shown : 0..255, data : [0..7 -> 0..255]]

TypeInv ==
    mmc3 \in Mmc3State /\ latch.at \in [0..1 -> 0..1] /\ NinaInv /\ told \in ToldType

LEMMA TypeInit == BoardsInit => TypeInv
  <1> SUFFICES ASSUME BoardsInit PROVE TypeInv
    OBVIOUS
  <1>1. mmc3 \in Mmc3State
    BY DEF BoardsInit, NewMmc3, Mmc3State
  <1>2. latch.at \in [0..1 -> 0..1]
    BY DEF BoardsInit, NewLatch
  <1>3. NinaInv
    <2>1. chr_chip = Chip([i \in ChrSlots(header) |-> i])
      BY DEF BoardsInit, NewChr, ChrSlots
    <2>2. IsNina001(header) => ChrSlots(header) = 0..1
      BY ChrSizes DEF BoardsInit
    <2> QED
      BY <2>1, <2>2 DEF NinaInv, Chip
  <1>4. told \in ToldType
    BY DEF BoardsInit, NewTold, ToldType
  <1> QED
    BY <1>1, <1>2, <1>3, <1>4 DEF TypeInv

LEMMA Mmc3TypeStep ==
    ASSUME TypeInv, NEW value \in Written,
           \/ WriteBankSelect(value) \/ WriteBankData(value) \/ WriteRamProtect(value)
           \/ UNCHANGED <<mmc3, prg_chip, chr_chip>>
    PROVE  mmc3' \in Mmc3State
  <1>1. mmc3 \in Mmc3State
    BY DEF TypeInv
  <1>2. CASE WriteBankSelect(value)
    <2> DEFINE select == value % 8
               prg_mode == IF Field(value, 6, 1) = 0 THEN "LowBankSwappable"
                           ELSE "HighBankSwappable"
               chr_mode == IF Field(value, 7, 1) = 0 THEN "LowBank2KB" ELSE "HighBank2KB"
    <2>1. mmc3' = [mmc3 EXCEPT !.prg_select = select, !.chr_select = select,
                               !.prg_mode = prg_mode, !.chr_mode = chr_mode]
      BY <1>2 DEF WriteBankSelect
    <2>2. /\ select \in 0..7 /\ prg_mode \in {"LowBankSwappable", "HighBankSwappable"}
          /\ chr_mode \in {"LowBank2KB", "HighBank2KB"}
      BY ByteFacts
    <2> HIDE DEF select, prg_mode, chr_mode
    <2> QED
      BY <1>1, <2>1, <2>2 DEF Mmc3State
  <1>3. CASE WriteRamProtect(value)
    <2> DEFINE disabled == Field(value, 7, 1) = 1
               readonly == Field(value, 6, 1) = 1
    <2>1. mmc3' = [mmc3 EXCEPT !.prg_ram_disabled = disabled, !.prg_ram_readonly = readonly]
      BY <1>3 DEF WriteRamProtect
    <2>2. disabled \in BOOLEAN /\ readonly \in BOOLEAN
      OBVIOUS
    <2> HIDE DEF disabled, readonly
    <2> QED
      BY <1>1, <2>1, <2>2 DEF Mmc3State
  <1>4. CASE WriteBankData(value) \/ UNCHANGED <<mmc3, prg_chip, chr_chip>>
    BY <1>1, <1>4 DEF WriteBankData
  <1> QED
    BY <1>2, <1>3, <1>4

LEMMA ToldUpdates ==
    ASSUME NEW Selects, NEW Datas, NEW value \in Selects, NEW data \in Datas,
           NEW t \in [select : Selects, shown : Selects, data : Datas]
    PROVE  /\ [t EXCEPT !.select = value] \in [select : Selects, shown : Selects, data : Datas]
           /\ [t EXCEPT !.data = data, !.shown = t.select]
                 \in [select : Selects, shown : Selects, data : Datas]
  OBVIOUS

LEMMA ToldTypeStep ==
    ASSUME TypeInv, NEW addr, NEW value \in Written, WriteMmc3(addr, value)
    PROVE  told' \in ToldType
  <1>1. told \in ToldType /\ value \in 0..255
    BY ByteFacts DEF TypeInv
  <1> DEFINE selected == [told EXCEPT !.select = value]
             written == [told EXCEPT !.data[told.select % 8] = value, !.shown = told.select]
             d == [told.data EXCEPT ![told.select % 8] = value]
             Bytes8 == 0..255
             Datas == [0..7 -> 0..255]
  <1>2. /\ told \in [select : Bytes8, shown : Bytes8, data : Datas]
        /\ ToldType = [select : Bytes8, shown : Bytes8, data : Datas]
        /\ value \in Bytes8
    BY <1>1 DEF ToldType
  <1>3. d \in Datas
    <2>1. told.data \in [0..7 -> 0..255]
      BY <1>1 DEF ToldType
    <2> QED
      BY <1>1, <2>1
  <1>4. written = [told EXCEPT !.data = d, !.shown = told.select]
    BY SMTT(30)
  <1>5. told' = selected \/ told' = written \/ told' = told
    BY DEF WriteMmc3
  <1> HIDE DEF d, written, Bytes8, Datas
  <1>6. selected \in ToldType /\ written \in ToldType
    BY <1>2, <1>3, <1>4, ToldUpdates
  <1> HIDE DEF selected
  <1> QED
    BY <1>1, <1>5, <1>6

LEMMA NinaStep ==
    ASSUME BoardsInv, TypeInv, NEW addr, NEW value \in Written, WriteSimple(addr, value)
    PROVE  NinaInv'
  <1> SUFFICES ASSUME IsNina001(header)
               PROVE  chr_chip' \in [banks : [ChrSlots(header) -> Nat],
                                     offsets : [ChrSlots(header) -> Nat]]
    BY DEF NinaInv, WriteSimple
  <1> DEFINE Chips == [banks : [ChrSlots(header) -> Nat], offsets : [ChrSlots(header) -> Nat]]
  <1>1. chr_chip \in Chips /\ ChrSlots(header) = 0..1
    BY ChrSizes DEF TypeInv, NinaInv, BoardsInv, BoardsHeaderOK
  <1>2. Field(value, 0, 4) \in Nat
    BY ByteFacts, FieldFacts
  <1>3. ASSUME NEW slot \in 0..1, NEW bank \in Nat
        PROVE  Select(chr_chip, slot, bank) \in Chips
    BY <1>1 DEF Select
  <1>4. header.mapper = 34
    BY DEF IsNina001
  <1>5. CASE addr \in {\h7FFE, \h7FFF}
    <2>1. addr - \h7FFE \in 0..1
      BY <1>5
    <2>2. SelectChr(chr_chip, header, addr, value)
            = Select(chr_chip, addr - \h7FFE, Field(value, 0, 4))
      BY <1>4, <1>5 DEF SelectChr
    <2> QED
      BY <1>2, <1>3, <2>1, <2>2 DEF WriteSimple
  <1>6. CASE addr \notin {\h7FFE, \h7FFF}
    <2>1. SelectChr(chr_chip, header, addr, value) = chr_chip
      BY <1>4, <1>6 DEF SelectChr
    <2> QED
      BY <1>1, <2>1 DEF WriteSimple
  <1> QED
    BY <1>5, <1>6

LEMMA TypeStep == BoardsInv /\ TypeInv /\ [BoardsNext]_boards_vars => TypeInv'
  <1> SUFFICES ASSUME BoardsInv, TypeInv, [BoardsNext]_boards_vars PROVE TypeInv'
    OBVIOUS
  <1>1. ASSUME NEW addr \in Addresses, NEW value \in Written, WriteSimple(addr, value)
        PROVE  TypeInv'
    BY <1>1, NinaStep DEF WriteSimple, TypeInv
  <1>2. ASSUME NEW addr \in Addresses, NEW value \in Written, WriteMmc2Mmc4(addr, value)
        PROVE  TypeInv'
    <2>1. BoardsInv' /\ header' = header /\ header.mapper \in Mmc2Mmc4 /\ mmc3' = mmc3
          /\ told' = told
      BY <1>2, WriteMmc2Mmc4Step DEF WriteMmc2Mmc4
    <2> QED
      BY <2>1 DEF TypeInv, NinaInv, IsNina001, Mmc2Mmc4, BoardsInv, LatchInv, Latches
  <1>3. ASSUME NEW addr \in Addresses, NEW value \in Written, WriteMmc3(addr, value)
        PROVE  TypeInv'
    <2>1. told' \in ToldType
      BY <1>3, ToldTypeStep, SMTT(30)
    <2>3. mmc3' \in Mmc3State
      BY <1>3, Mmc3TypeStep, SMTT(30) DEF WriteMmc3
    <2>2. header' = header /\ header.mapper = 4 /\ latch' = latch
      BY <1>3 DEF WriteMmc3
    <2> QED
      BY <2>1, <2>2, <2>3 DEF TypeInv, NinaInv, IsNina001
  <1>4. ASSUME NEW addr, ReadPattern(addr) PROVE TypeInv'
    <2>1. BoardsInv' /\ header' = header /\ header.mapper \in Mmc2Mmc4 /\ mmc3' = mmc3
          /\ told' = told
      BY <1>4, PpuReadStep DEF ReadPattern
    <2> QED
      BY <2>1 DEF TypeInv, NinaInv, IsNina001, Mmc2Mmc4, BoardsInv, LatchInv, Latches
  <1>5. CASE UNCHANGED boards_vars
    BY <1>5 DEF boards_vars, TypeInv, NinaInv
  <1> QED
    BY <1>1, <1>2, <1>3, <1>4, <1>5 DEF BoardsNext, CpuWrite, PpuRead

LEMMA InvImpliesType == BoardsInv /\ TypeInv => BoardsTypeOK
  <1> SUFFICES ASSUME BoardsInv, TypeInv PROVE BoardsTypeOK
    OBVIOUS
  <1>1. DOMAIN prg_chip.banks = PrgSlots(header) /\ DOMAIN prg_chip.offsets = PrgSlots(header)
    BY DEF BoardsInv, WindowsInv, PrgChips, PrgWindows
  <1>2. DOMAIN chr_chip.banks = ChrSlots(header) /\ DOMAIN chr_chip.offsets = ChrSlots(header)
    BY DEF BoardsInv, TypeInv, NinaInv, WindowsInv, ChrChips, ChrWindows
  <1>3. header \in Headers /\ mirroring_mode \in AnyMirroring
    BY DEF BoardsInv, BoardsHeaderOK, MirroringInv
  <1> QED
    BY <1>1, <1>2, <1>3
       DEF TypeInv, BoardsTypeOK, Slots, PrgSlots, ChrSlots, Mmc3State, ToldType

-----------------------------------------------------------------------------
(* MMC3's windows show what the CPU wrote *)

PrgModeOf(select) == IF Field(select, 6, 1) = 0 THEN "LowBankSwappable" ELSE "HighBankSwappable"
ChrModeOf(select) == IF Field(select, 7, 1) = 0 THEN "LowBank2KB" ELSE "HighBank2KB"

\* The banks that the bytes written to the registers stand for.
PrgOf(h, data) ==
    [i \in 0..3 |-> IF i < 2 THEN data[i + 6] % PrgTotal(h) ELSE PrgTotal(h) + i - 4]

ChrOf(h, data) ==
    [i \in 0..7 |-> IF i < 4 THEN ((2 * (data[i \div 2] \div 2)) % ChrTotal(h)) + (i % 2)
                    ELSE data[i - 2] % ChrTotal(h)]

SelectInv ==
    /\ mmc3.prg_select = told.select % 8 /\ mmc3.chr_select = told.select % 8
    /\ mmc3.prg_mode = PrgModeOf(told.select) /\ mmc3.chr_mode = ChrModeOf(told.select)

ShownInv ==
    /\ prg_chip.banks = PrgOf(header, told.data)
    /\ chr_chip.banks = ChrOf(header, told.data)
    /\ prg_chip.offsets = MapPrgMmc3(prg_chip.banks, PrgModeOf(told.shown))
    /\ chr_chip.offsets = MapChrMmc3(chr_chip.banks, ChrModeOf(told.shown))

ToldInv == header.mapper = 4 => SelectInv /\ ShownInv

LEMMA ToldInit == BoardsInit => ToldInv
  <1> SUFFICES ASSUME BoardsInit, header.mapper = 4 PROVE SelectInv /\ ShownInv
    BY DEF ToldInv
  <1> DEFINE T == PrgTotal(header)
             C == ChrTotal(header)
             d == NewTold.data
  <1>1. told = NewTold /\ mmc3 = NewMmc3 /\ header \in Headers
    BY DEF BoardsInit
  <1>2. Field(0, 6, 1) = 0 /\ Field(0, 7, 1) = 0
    BY DEF Field
  <1>3. PrgModeOf(0) = "LowBankSwappable" /\ ChrModeOf(0) = "LowBank2KB"
    BY <1>2 DEF PrgModeOf, ChrModeOf
  <1>4. SelectInv
    BY <1>1, <1>3 DEF SelectInv, NewTold, NewMmc3
  <1>5. T \in Nat /\ T >= 2
    BY <1>1, PrgSizes
  <1>6. C \in Nat /\ C >= 8
    <2>1. PICK k \in Nat : k > 0 /\ C = 8 * k
      BY <1>1, ChrSizes
    <2> QED
      BY <2>1
  <1>7. /\ d[0] = 0 /\ d[1] = 2 /\ d[2] = 4 /\ d[3] = 5 /\ d[4] = 6 /\ d[5] = 7
        /\ d[6] = 0 /\ d[7] = 1
    BY DEF NewTold
  <1>8. PrgBankSize(header) = 1 /\ ChrBankSize(header) = 1
    BY DEF PrgBankSize, ChrBankSize, Uxrom, IsNina001, Mmc2Mmc4
  <1> DEFINE p == [i \in 0..3 |-> IF i < 2 THEN i ELSE (T - 1) + i - 3]
             c == [i \in 0..7 |-> i]
  <1>9. prg_chip = Chip(p) /\ chr_chip = Chip(c)
    BY <1>8 DEF BoardsInit, NewPrg, NewChr
  <1>10. told.data = d /\ told.shown = 0
    BY <1>1 DEF NewTold
  <1> HIDE DEF d
  <1>11. p = PrgOf(header, d)
    <2> HIDE DEF T
    <2>1. \A i \in 0..3 : p[i] = IF i < 2 THEN d[i + 6] % T ELSE T + i - 4
      BY <1>5, <1>7
    <2> HIDE DEF p
    <2>2. p = [i \in 0..3 |-> p[i]]
      BY DEF p
    <2> QED
      BY <2>1, <2>2 DEF PrgOf, T
  <1>12. c = ChrOf(header, d)
    <2> HIDE DEF C
    <2>1. \A i \in 0..7 : i = IF i < 4 THEN ((2 * (d[i \div 2] \div 2)) % C) + (i % 2)
                              ELSE d[i - 2] % C
      BY <1>6, <1>7
    <2> QED
      BY <2>1 DEF ChrOf, C
  <1>13. MapPrgMmc3(p, "LowBankSwappable") = p /\ MapChrMmc3(c, "LowBank2KB") = c
    <2>1. \A i \in 0..7 : c[i] = i
      OBVIOUS
    <2> QED
      BY DEF MapPrgMmc3, MapChrMmc3
  <1> HIDE DEF p, c
  <1>14. ShownInv
    BY <1>3, <1>9, <1>10, <1>11, <1>12, <1>13 DEF ShownInv, Chip
  <1> QED
    BY <1>4, <1>14

\* A byte written to a register moves the banks it stands for, on both chips.
LEMMA DataFacts ==
    ASSUME NEW data \in [0..7 -> 0..255], NEW register \in 0..7, NEW value \in 0..255,
           header \in Headers, header.mapper = 4
    PROVE  LET new == [data EXCEPT ![register] = value]
           IN  /\ PrgBanksMmc3(PrgOf(header, data), register, value) = PrgOf(header, new)
               /\ ChrBanksMmc3(ChrOf(header, data), register, value) = ChrOf(header, new)
  <1> DEFINE new == [data EXCEPT ![register] = value]
             T == PrgTotal(header)
             C == ChrTotal(header)
             p == PrgOf(header, data)
             c == ChrOf(header, data)
  <1>1. \A r \in 0..7 : new[r] = IF r = register THEN value ELSE data[r]
    OBVIOUS
  <1>2. value - (value % 2) = 2 * (value \div 2)
    OBVIOUS
  <1>3. PrgBanksMmc3(p, register, value) = PrgOf(header, new)
    <2>1. CASE register \in {6, 7}
      <3>1. PrgBanksMmc3(p, register, value) = [p EXCEPT ![register - 6] = value % T]
        BY <2>1 DEF PrgBanksMmc3
      <3>2. register - 6 \in 0..3
        BY <2>1
      <3>3. \A i \in 0..3 : [p EXCEPT ![register - 6] = value % T][i]
                              = IF i < 2 THEN new[i + 6] % T ELSE T + i - 4
        BY <1>1, <2>1, <3>2 DEF PrgOf
      <3> QED
        BY <3>1, <3>3 DEF PrgOf
    <2>2. CASE register \notin {6, 7}
      <3>1. PrgBanksMmc3(p, register, value) = p
        BY <2>2 DEF PrgBanksMmc3
      <3>2. new[6] = data[6] /\ new[7] = data[7]
        BY <1>1, <2>2
      <3>3. \A i \in 0..3 : i < 2 => new[i + 6] = data[i + 6]
        BY <3>2, SMTT(30)
      <3> QED
        BY <3>1, <3>3 DEF PrgOf
    <2> QED
      BY <2>1, <2>2, SMTT(30)
  <1>4. ChrBanksMmc3(c, register, value) = ChrOf(header, new)
    <2> DEFINE pair == (value - (value % 2)) % C
               e == ChrBanksMmc3(c, register, value)
    <2>1. \A i \in 0..7 : c[i] = IF i < 4 THEN ((2 * (data[i \div 2] \div 2)) % C) + (i % 2)
                                 ELSE data[i - 2] % C
      BY DEF ChrOf
    <2>2. DOMAIN c = 0..7
      BY DEF ChrOf
    <2>3. pair = (2 * (value \div 2)) % C
      BY <1>2
    <2>4. e = [i \in 0..7 |-> e[i]]
      <3>1. c = [i \in 0..7 |-> c[i]]
        BY DEF ChrOf
      <3> HIDE DEF c, pair
      <3>2. CASE register \in {0, 1}
        <4> DEFINE first == [c EXCEPT ![2 * register] = pair]
        <4>1. e = [first EXCEPT ![2 * register + 1] = pair + 1]
          BY <3>2 DEF ChrBanksMmc3, pair
        <4>2. first = [i \in 0..7 |-> first[i]]
          BY <3>1
        <4> HIDE DEF first
        <4> QED
          BY <4>1, <4>2
      <3>3. CASE register \in 2..5
        <4>1. e = [c EXCEPT ![register + 2] = value % C]
          BY <3>3 DEF ChrBanksMmc3
        <4> QED
          BY <3>1, <4>1
      <3>4. CASE register \in {6, 7}
        <4>1. e = c
          BY <3>4 DEF ChrBanksMmc3
        <4> QED
          BY <3>1, <4>1
      <3> QED
        BY <3>2, <3>3, <3>4
    <2>5. \A i \in 0..7 : e[i] = IF i < 4 THEN ((2 * (new[i \div 2] \div 2)) % C) + (i % 2)
                                 ELSE new[i - 2] % C
      <3>1. CASE register \in {0, 1}
        <4>1. e = [c EXCEPT ![2 * register] = pair, ![2 * register + 1] = pair + 1]
          BY <3>1 DEF ChrBanksMmc3
        <4>2. \A i \in 0..7 : e[i] = IF i = 2 * register THEN pair
                                     ELSE IF i = 2 * register + 1 THEN pair + 1 ELSE c[i]
          BY <2>2, <3>1, <4>1
        <4> HIDE DEF e, c, pair, C
        <4>3. CASE register = 0
          BY <1>1, <2>1, <2>3, <4>2, <4>3
        <4>4. CASE register = 1
          BY <1>1, <2>1, <2>3, <4>2, <4>4
        <4> QED
          BY <3>1, <4>3, <4>4
      <3>2. CASE register \in 2..5
        <4>1. e = [c EXCEPT ![register + 2] = value % C]
          BY <3>2 DEF ChrBanksMmc3
        <4>2. \A i \in 0..7 : e[i] = IF i = register + 2 THEN value % C ELSE c[i]
          BY <2>2, <3>2, <4>1
        <4> HIDE DEF e, c, pair, C
        <4> QED
          BY <1>1, <2>1, <3>2, <4>2
      <3>3. CASE register \in {6, 7}
        <4>1. e = c
          BY <3>3, SMTT(30) DEF ChrBanksMmc3
        <4> HIDE DEF e, c, pair, C
        <4> QED
          BY <1>1, <2>1, <3>3, <4>1
      <3> QED
        BY <3>1, <3>2, <3>3
    <2> HIDE DEF e
    <2> QED
      BY <2>4, <2>5 DEF ChrOf, e
  <1> QED
    BY <1>3, <1>4

LEMMA WriteMmc3Follows ==
    ASSUME BoardsInv, TypeInv, ToldInv, NEW addr, NEW value \in Written, WriteMmc3(addr, value)
    PROVE  ToldInv'
  <1>0. header \in Headers /\ header.mapper = 4 /\ value \in 0..255
    BY ByteFacts, SMTT(30) DEF BoardsInv, BoardsHeaderOK, WriteMmc3
  <1>1. /\ header' = header /\ value \in 0..255
        /\ SelectInv /\ ShownInv /\ told \in ToldType /\ mmc3 \in Mmc3State
    <2>1. header' = header
      BY DEF WriteMmc3
    <2>2. told \in ToldType /\ mmc3 \in Mmc3State
      BY DEF TypeInv
    <2>3. SelectInv /\ ShownInv
      BY <1>0 DEF ToldInv
    <2> QED
      BY <1>0, <2>1, <2>2, <2>3
  <1>2. CASE WriteBankSelect(value) /\ told' = [told EXCEPT !.select = value]
    <2>1. told'.select = value /\ told'.shown = told.shown /\ told'.data = told.data
      BY <1>1, <1>2 DEF ToldType
    <2>2. ShownInv'
      BY <1>1, <1>2, <2>1 DEF ShownInv, WriteBankSelect
    <2>3. /\ mmc3'.prg_select = value % 8 /\ mmc3'.chr_select = value % 8
          /\ mmc3'.prg_mode = PrgModeOf(value) /\ mmc3'.chr_mode = ChrModeOf(value)
      BY <1>1, <1>2 DEF WriteBankSelect, Mmc3State, PrgModeOf, ChrModeOf
    <2>4. SelectInv'
      BY <2>1, <2>3 DEF SelectInv
    <2> QED
      BY <2>2, <2>4 DEF ToldInv
  <1>3. CASE /\ WriteBankData(value)
             /\ told' = [told EXCEPT !.data[told.select % 8] = value, !.shown = told.select]
    <2> DEFINE r == told.select % 8
               d == [told.data EXCEPT ![r] = value]
    <2>1. told'.select = told.select /\ told'.shown = told.select /\ told'.data = d
      BY <1>1, <1>3 DEF ToldType
    <2>2. r \in 0..7 /\ told.data \in [0..7 -> 0..255]
      BY <1>1, SMTT(30) DEF ToldType
    <2>3. mmc3' = mmc3 /\ mmc3.prg_select = r /\ mmc3.chr_select = r
      BY <1>1, <1>3 DEF SelectInv, WriteBankData
    <2> HIDE DEF r
    <2>4. /\ PrgBanksMmc3(PrgOf(header, told.data), r, value) = PrgOf(header, d)
          /\ ChrBanksMmc3(ChrOf(header, told.data), r, value) = ChrOf(header, d)
      BY <1>0, <2>2, DataFacts
    <2> HIDE DEF d
    <2>5. /\ prg_chip' = [banks |-> PrgOf(header, d),
                          offsets |-> MapPrgMmc3(PrgOf(header, d), PrgModeOf(told.select))]
          /\ chr_chip' = [banks |-> ChrOf(header, d),
                          offsets |-> MapChrMmc3(ChrOf(header, d), ChrModeOf(told.select))]
      BY <1>1, <1>3, <2>3, <2>4 DEF SelectInv, ShownInv, WriteBankData
    <2>7. ShownInv'
      BY <1>1, <2>1, <2>5 DEF ShownInv
    <2>8. SelectInv'
      BY <1>1, <2>1, <2>3 DEF SelectInv
    <2> QED
      BY <2>7, <2>8 DEF ToldInv
  <1>4. CASE WriteRamProtect(value) /\ told' = told
    <2> DEFINE disabled == Field(value, 7, 1) = 1
               readonly == Field(value, 6, 1) = 1
    <2>1. mmc3' = [mmc3 EXCEPT !.prg_ram_disabled = disabled, !.prg_ram_readonly = readonly]
      BY <1>4 DEF WriteRamProtect
    <2> HIDE DEF disabled, readonly
    <2>2. /\ mmc3'.prg_select = mmc3.prg_select /\ mmc3'.chr_select = mmc3.chr_select
          /\ mmc3'.prg_mode = mmc3.prg_mode /\ mmc3'.chr_mode = mmc3.chr_mode
      BY <1>1, <2>1 DEF Mmc3State
    <2> QED
      BY <1>1, <1>4, <2>2 DEF ToldInv, SelectInv, ShownInv, WriteRamProtect
  <1>5. CASE UNCHANGED <<mmc3, prg_chip, chr_chip, told>>
    BY <1>1, <1>5 DEF ToldInv, SelectInv, ShownInv
  <1> QED
    BY <1>2, <1>3, <1>4, <1>5, SMTT(30) DEF WriteMmc3

LEMMA ToldStep == BoardsInv /\ TypeInv /\ ToldInv /\ [BoardsNext]_boards_vars => ToldInv'
  <1> SUFFICES ASSUME BoardsInv, TypeInv, ToldInv, [BoardsNext]_boards_vars PROVE ToldInv'
    OBVIOUS
  <1>1. ASSUME NEW addr \in Addresses, NEW value \in Written, WriteSimple(addr, value)
        PROVE  ToldInv'
    BY <1>1 DEF WriteSimple, ToldInv
  <1>2. ASSUME NEW addr \in Addresses, NEW value \in Written, WriteMmc2Mmc4(addr, value)
        PROVE  ToldInv'
    BY <1>2 DEF WriteMmc2Mmc4, ToldInv, Mmc2Mmc4
  <1>3. ASSUME NEW addr \in Addresses, NEW value \in Written, WriteMmc3(addr, value)
        PROVE  ToldInv'
    BY <1>3, WriteMmc3Follows
  <1>4. ASSUME NEW addr, ReadPattern(addr) PROVE ToldInv'
    BY <1>4 DEF ReadPattern, ToldInv, Mmc2Mmc4
  <1>5. CASE UNCHANGED boards_vars
    BY <1>5 DEF boards_vars, ToldInv, SelectInv, ShownInv
  <1> QED
    BY <1>1, <1>2, <1>3, <1>4, <1>5 DEF BoardsNext, CpuWrite, PpuRead

LEMMA InvImpliesFollowData == BoardsInv /\ TypeInv /\ ToldInv => WindowsFollowData
  <1> SUFFICES ASSUME BoardsInv, TypeInv, ToldInv, header.mapper = 4 PROVE WindowsFollowData
    BY DEF WindowsFollowData
  <1> DEFINE T == PrgTotal(header)
             C == ChrTotal(header)
             p == PrgOf(header, told.data)
             c == ChrOf(header, told.data)
             prg_bit == Field(told.shown, 6, 1)
             chr_bit == Field(told.shown, 7, 1)
             prg_at(i) == prg_chip.offsets[i]
             chr_at(i) == chr_chip.offsets[IF chr_bit = 1 THEN (i + 4) % 8 ELSE i]
             swapped == IF prg_bit = 1 THEN 2 ELSE 0
  <1>1. prg_bit \in {0, 1} /\ chr_bit \in {0, 1}
    BY DEF TypeInv, ToldType, Field
  <1>2. /\ prg_chip.offsets = MapPrgMmc3(p, PrgModeOf(told.shown))
        /\ chr_chip.offsets = MapChrMmc3(c, ChrModeOf(told.shown))
    BY DEF ToldInv, ShownInv
  <1>3. /\ p[0] = told.data[6] % T /\ p[1] = told.data[7] % T /\ p[2] = T - 2
    <2>1. T \in Nat
      BY PrgSizes DEF BoardsInv, BoardsHeaderOK
    <2> HIDE DEF T
    <2>2. \A i \in 0..3 : p[i] = IF i < 2 THEN told.data[i + 6] % T ELSE T + i - 4
      BY DEF PrgOf, T
    <2> HIDE DEF p
    <2> QED
      BY <2>1, <2>2
  <1>4. prg_at(1) = p[1] /\ prg_at(swapped) = p[0] /\ prg_at(2 - swapped) = p[2]
    <2> HIDE DEF p
    <2>1. CASE prg_bit = 1
      <3>1. PrgModeOf(told.shown) = "HighBankSwappable"
        BY <2>1 DEF PrgModeOf
      <3>2. swapped = 2
        BY <2>1
      <3> QED
        BY <1>2, <3>1, <3>2 DEF MapPrgMmc3
    <2>2. CASE prg_bit = 0
      <3>1. PrgModeOf(told.shown) = "LowBankSwappable"
        BY <2>2 DEF PrgModeOf
      <3>2. swapped = 0
        BY <2>2
      <3> QED
        BY <1>2, <3>1, <3>2 DEF MapPrgMmc3
    <2> QED
      BY <1>1, <2>1, <2>2
  <1>5. \A i \in 0..7 : chr_at(i) = c[i]
    <2> HIDE DEF c
    <2>1. CASE chr_bit = 1
      <3>1. ChrModeOf(told.shown) = "HighBank2KB"
        BY <2>1 DEF ChrModeOf
      <3>2. \A i \in 0..7 : (i + 4) % 8 \in 0..7 /\ (((i + 4) % 8) + 4) % 8 = i
        OBVIOUS
      <3>3. \A i \in 0..7 : chr_chip.offsets[i] = c[(i + 4) % 8]
        BY <1>2, <3>1 DEF MapChrMmc3
      <3> QED
        BY <2>1, <3>2, <3>3
    <2>2. CASE chr_bit = 0
      <3>1. ChrModeOf(told.shown) = "LowBank2KB"
        BY <2>2 DEF ChrModeOf
      <3> QED
        BY <1>2, <2>2, <3>1 DEF MapChrMmc3
    <2> QED
      BY <1>1, <2>1, <2>2
  <1>6. /\ \A r, k \in 0..1 : c[2 * r + k] = ((2 * (told.data[r] \div 2)) % C) + k
        /\ \A r \in 2..5 : c[r + 2] = told.data[r] % C
    <2>1. \A i \in 0..7 : c[i] = IF i < 4
                                 THEN ((2 * (told.data[i \div 2] \div 2)) % C) + (i % 2)
                                 ELSE told.data[i - 2] % C
      BY DEF ChrOf
    <2> HIDE DEF c, C
    <2>2. \A r, k \in 0..1 : /\ 2 * r + k \in 0..7 /\ 2 * r + k < 4
                             /\ (2 * r + k) \div 2 = r /\ (2 * r + k) % 2 = k
      OBVIOUS
    <2>3. \A r \in 2..5 : r + 2 \in 0..7 /\ ~(r + 2 < 4) /\ (r + 2) - 2 = r
      OBVIOUS
    <2> QED
      BY <2>1, <2>2, <2>3
  <1>7. /\ \A r, k \in 0..1 : 2 * r + k \in 0..7
        /\ \A r \in 2..5 : r + 2 \in 0..7
    OBVIOUS
  <1>8. /\ \A r, k \in 0..1 : chr_at(2 * r + k) = ((2 * (told.data[r] \div 2)) % C) + k
        /\ \A r \in 2..5 : chr_at(r + 2) = told.data[r] % C
    <2> HIDE DEF c, C, chr_at
    <2> QED
      BY <1>5, <1>6, <1>7
  <1> QED
    BY <1>3, <1>4, <1>8 DEF WindowsFollowData

-----------------------------------------------------------------------------
(* The cartridge *)

CartridgeInv == Mmc1Inv /\ BoardsInv /\ TypeInv /\ ToldInv

LEMMA CartridgeInvInit == CartridgeInit => CartridgeInv
  BY Mmc1InvInit, InvInit, TypeInit, ToldInit DEF CartridgeInit, CartridgeInv

\* Of a cartridge's two halves of the model one moves and the other stays.
LEMMA CartridgeStepFacts ==
    [Mmc1Step \/ BoardStep]_cartridge_vars =>
        [Mmc1Next]_mmc1_vars /\ [BoardsNext]_boards_vars
  BY DEF Mmc1Step, BoardStep, cartridge_vars

LEMMA CartridgeInvStep ==
    CartridgeInv /\ [Mmc1Step \/ BoardStep]_cartridge_vars => CartridgeInv'
  BY CartridgeStepFacts, Mmc1InvStep, InvStep, TypeStep, ToldStep DEF CartridgeInv

LEMMA CartridgeInductive == CartridgeSpec => []CartridgeInv
  BY CartridgeInvInit, CartridgeInvStep, PTL DEF CartridgeSpec

-----------------------------------------------------------------------------
(* Theorems *)

\* The registers of every board keep to their widths (mappers/).
THEOREM CartridgeTypeCorrect == CartridgeSpec => []CartridgeTypeOK
  <1>1. CartridgeInv => CartridgeTypeOK
    BY InvImpliesType DEF CartridgeInv, CartridgeTypeOK, Mmc1Inv
  <1> QED
    BY <1>1, CartridgeInductive, PTL

\* No read of the CPU or the PPU leaves the cartridge's memory, whatever is written: the offsets
\* cached for reads are inside ROM and VRAM, of any size, a doubled ROM of 16KB (mod.rs:135)
\* included.  Not said of NINA-001's CHR banks, of MMC1's modes with large banks, of four screens
\* from $3000 on, nor of an MMC2 with 16KB, which asserts (mod.rs:79, :87 and :174, mmc1.rs:88).
THEOREM ReadsStayInside == CartridgeSpec => []OffsetsStayInside
  <1>1. CartridgeInv => OffsetsStayInside
    BY InvImpliesMmc1Windows, InvImpliesOffsets, InvImpliesNametable
       DEF CartridgeInv, OffsetsStayInside
  <1> QED
    BY <1>1, CartridgeInductive, PTL

\* The bank of the vectors is mapped at all times on the boards that fix it, even between the
\* two writes that switch a bank of MMC3 (mmc3.rs:99, mod.rs:255).
THEOREM VectorsAlwaysMapped == CartridgeSpec => []VectorsStayMapped
  <1>1. CartridgeInv => VectorsStayMapped
    BY InvImpliesVectors DEF CartridgeInv
  <1> QED
    BY <1>1, CartridgeInductive, PTL

\* MMC2 and MMC4: whichever of the CPU's bank writes and the PPU's latching reads came last,
\* each half of the pattern memory shows the bank behind its latch (mmc2.rs:97 and :143).
THEOREM LatchAlwaysSelects == CartridgeSpec => []LatchSelects
  <1>1. CartridgeInv => LatchSelects
    BY InvImpliesLatch DEF CartridgeInv
  <1> QED
    BY <1>1, CartridgeInductive, PTL

\* The filter for writes in consecutive cycles (mmc1.rs:152) never skips a write of the CPU.
THEOREM EveryWriteOfACartridgeCounts == CartridgeSpec => CountsEveryWrite
  <1> DEFINE Counts == cpu' = "dummy" \/ (cpu' = "fetching" /\ cpu # "fetching")
                          => prg_load'.recent /\ chr_load'.recent
  <1>1. CartridgeInv /\ [Mmc1Step \/ BoardStep]_cartridge_vars => [Counts]_mmc1_vars
    <2> SUFFICES ASSUME CartridgeInv, [Mmc1Step \/ BoardStep]_cartridge_vars
                 PROVE  [Counts]_mmc1_vars
      OBVIOUS
    <2>1. Mmc1Inv /\ [Mmc1Next]_mmc1_vars
      BY CartridgeStepFacts DEF CartridgeInv
    <2> QED
      BY <2>1, WritesCount
  <1> QED
    BY <1>1, CartridgeInductive, PTL DEF CartridgeSpec, CountsEveryWrite

\* The two chips of an MMC1 implement one serial port (mmc1.rs:151-192 and :284-337).
THEOREM CartridgeImplementsPort == CartridgeSpec => ImplementsPort
  <1>1. CartridgeInv /\ [Mmc1Step \/ BoardStep]_cartridge_vars => [Port!Next]_(Port!vars)
    <2> SUFFICES ASSUME CartridgeInv, [Mmc1Step \/ BoardStep]_cartridge_vars
                 PROVE  [Port!Next]_(Port!vars)
      OBVIOUS
    <2>1. Mmc1Inv /\ [Mmc1Next]_mmc1_vars
      BY CartridgeStepFacts DEF CartridgeInv
    <2> QED
      BY <2>1, StepIsPortStep, PortStepFacts
  <1>2. CartridgeInit => Port!Init
    BY PortInit DEF CartridgeInit
  <1> QED
    BY <1>1, <1>2, CartridgeInductive, PTL DEF CartridgeSpec, ImplementsPort, Port!Spec

\* MMC3: whatever bytes the CPU writes to bank select and bank data in whatever order, each
\* window of both chips shows the last byte written to its register, where the modes of the last
\* bank data put it: no bank select leaves one chip behind the other (mmc3.rs:99 and :273).
THEOREM WindowsAlwaysFollowData == CartridgeSpec => []WindowsFollowData
  <1>1. CartridgeInv => WindowsFollowData
    BY InvImpliesFollowData DEF CartridgeInv
  <1> QED
    BY <1>1, CartridgeInductive, PTL
=============================================================================
