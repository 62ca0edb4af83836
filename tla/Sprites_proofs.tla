--------------------------- MODULE Sprites_proofs ---------------------------
(***************************************************************************)
(* Proofs about Sprites, for every size of OAM, sprite and frame and every  *)
(* order of the CPU's accesses: the two machines keep to their memories,    *)
(* and in a line without an access the first sprites in range are found,    *)
(* in time, and shown.                                                      *)
(***************************************************************************)
EXTENDS Sprites, FiniteSetTheorems, TLAPS

-----------------------------------------------------------------------------
(* Types *)

LEMMA Sizes ==
    /\ N \in Nat /\ P \in Nat /\ EvalDots \in Nat /\ LastVisible \in Nat /\ PreRender \in Nat
    /\ Empty \in Nat /\ Height \in Nat
    /\ 0 < P /\ P < N /\ 0 < Height /\ EvalDots >= 2 * N + 6 * P
    /\ LastVisible < Empty /\ LastVisible + 1 < PreRender
    /\ OamSize = 4 * N /\ SecondarySize = 4 * P
    /\ ClearEnd = 8 * P /\ EvalEnd = 8 * P + EvalDots
    /\ FetchEnd = 16 * P + EvalDots /\ LastDot = 16 * P + EvalDots + 1
  BY SpriteAssumption DEF OamSize, SecondarySize, ClearEnd, EvalEnd, FetchEnd, LastDot

Steps == {"ReadY", "WriteY", "ReadByte", "WriteByte", "Completed"}

Machines == [step : Steps, count : 0..3, value : Byte, pointer : 0..SecondarySize,
             secondary : [0..SecondarySize - 1 -> Byte]]

Memories == [0..OamSize - 1 -> Byte]

Units == [visible : BOOLEAN, low : BOOLEAN, high : BOOLEAN]

LEMMA StoredFacts ==
    ASSUME NEW e \in Machines
    PROVE  /\ Stored(e) \in Machines
           /\ Stored(e).step = e.step /\ Stored(e).count = e.count
           /\ Stored(e).pointer = e.pointer
           /\ IsFull(e) => Stored(e).secondary = e.secondary
           /\ ~IsFull(e) => Stored(e).secondary = [e.secondary EXCEPT ![e.pointer] = e.value]
           /\ Advanced(e) \in 0..SecondarySize
           /\ (IsFull(e) <=> e.pointer = SecondarySize)
           /\ Advanced(e) = IF IsFull(e) THEN e.pointer ELSE e.pointer + 1
  <1>1. SecondarySize \in Nat /\ Empty \in Nat
    BY Sizes
  <1>2. 0 \in Byte /\ e.secondary \in [0..SecondarySize - 1 -> Byte] /\ e.value \in Byte
        /\ e.pointer \in 0..SecondarySize
    BY <1>1 DEF Machines, Byte
  <1>3. (IsFull(e) <=> e.pointer = SecondarySize) /\ Advanced(e) \in 0..SecondarySize
    BY <1>1, <1>2 DEF IsFull, Advanced
  <1> DEFINE s == IF IsFull(e) THEN e.secondary ELSE [e.secondary EXCEPT ![e.pointer] = e.value]
  <1>4. s \in [0..SecondarySize - 1 -> Byte]
    BY <1>1, <1>2, <1>3
  <1>5. Stored(e) = [e EXCEPT !.value = 0, !.secondary = s]
    BY DEF Stored, Machines
  <1>6. /\ IsFull(e) => s = e.secondary
        /\ ~IsFull(e) => s = [e.secondary EXCEPT ![e.pointer] = e.value]
    OBVIOUS
  <1> HIDE DEF s
  <1> QED
    BY <1>2, <1>3, <1>4, <1>5, <1>6 DEF Machines, Advanced

WithStep(e, step, count) == [e EXCEPT !.step = step, !.count = count]

LEMMA WithStepFacts ==
    ASSUME NEW e \in Machines, NEW step \in Steps, NEW count \in 0..3
    PROVE  /\ WithStep(e, step, count) \in Machines
           /\ WithStep(e, step, count).step = step /\ WithStep(e, step, count).count = count
           /\ WithStep(e, step, count).pointer = e.pointer
           /\ WithStep(e, step, count).secondary = e.secondary
  BY DEF Machines, WithStep

\* What a dot of the evaluation machine makes of a state, field by field.
LEMMA ReadYFacts ==
    ASSUME NEW e \in Machines, NEW addr \in 0..OamSize - 1, oam_ram \in Memories
    PROVE  LET o == ReadY(e, addr)
           IN  /\ o.e \in Machines /\ o.e.step = "WriteY" /\ o.e.value = oam_ram[addr]
               /\ o.e.pointer = e.pointer /\ o.e.secondary = e.secondary
               /\ o.addr = addr /\ o.zero = FALSE /\ o.overflow = FALSE
  BY DEF ReadY, Outcome, Machines, Memories, Steps

LEMMA ReadByteFacts ==
    ASSUME NEW e \in Machines, NEW addr \in 0..OamSize - 1, oam_ram \in Memories
    PROVE  LET o == ReadByte(e, addr)
           IN  /\ o.e \in Machines /\ o.e.step = "WriteByte" /\ o.e.value = oam_ram[addr]
               /\ o.e.pointer = e.pointer /\ o.e.secondary = e.secondary
               /\ o.e.count = e.count
               /\ o.addr = addr /\ o.zero = FALSE /\ o.overflow = FALSE
  BY DEF ReadByte, Outcome, Machines, Memories, Steps

LEMMA WriteByteFacts ==
    ASSUME NEW e \in Machines, NEW addr \in 0..OamSize - 1
    PROVE  LET o == WriteByte(e, addr)
           IN  /\ o.e \in Machines /\ o.addr \in 0..OamSize - 1
               /\ o.e.pointer = Advanced(e) /\ o.e.secondary = Stored(e).secondary
               /\ o.zero = FALSE /\ o.overflow = FALSE
               /\ addr = OamSize - 1 => o.e.step = "Completed"
               /\ addr < OamSize - 1 =>
                    /\ o.addr = addr + 1
                    /\ e.count = 3 => o.e.step = "ReadY"
                    /\ e.count < 3 => o.e.step = "ReadByte" /\ o.e.count = e.count + 1
  <1> DEFINE copied == [Stored(e) EXCEPT !.pointer = Advanced(e)]
  <1>1. /\ copied \in Machines /\ copied.pointer = Advanced(e) /\ copied.count = e.count
        /\ copied.secondary = Stored(e).secondary
    BY StoredFacts DEF Machines
  <1>2. e.count \in 0..3 /\ OamSize \in Nat
    BY Sizes DEF Machines
  <1>3. WriteByte(e, addr) =
          IF addr >= OamSize - 1
          THEN Outcome([copied EXCEPT !.step = "Completed", !.count = 0], addr, FALSE, FALSE)
          ELSE IF e.count = 3
          THEN Outcome([copied EXCEPT !.step = "ReadY", !.count = 0], addr + 1, FALSE, FALSE)
          ELSE Outcome([copied EXCEPT !.step = "ReadByte", !.count = copied.count + 1],
                       addr + 1, FALSE, FALSE)
    BY <1>1 DEF WriteByte, Machines
  <1> HIDE DEF copied
  <1>4. CASE addr >= OamSize - 1
    <2> DEFINE f == WithStep(copied, "Completed", 0)
    <2>1. WriteByte(e, addr) = Outcome(f, addr, FALSE, FALSE)
      BY <1>3, <1>4 DEF WithStep
    <2>2. f \in Machines /\ f.step = "Completed" /\ f.pointer = copied.pointer
          /\ f.secondary = copied.secondary
      BY <1>1, WithStepFacts DEF Steps
    <2> HIDE DEF f
    <2>3. LET o == WriteByte(e, addr)
          IN  o.e = f /\ o.addr = addr /\ o.zero = FALSE /\ o.overflow = FALSE
      BY <2>1 DEF Outcome
    <2> QED
      <3> DEFINE o == WriteByte(e, addr)
      <3>1. o.e \in Machines
        BY <2>2, <2>3
      <3>2. o.addr \in 0..OamSize - 1
        BY <2>3
      <3>3. o.e.pointer = Advanced(e) /\ o.e.secondary = Stored(e).secondary
        BY <1>1, <2>2, <2>3
      <3>4. o.zero = FALSE /\ o.overflow = FALSE
        BY <2>3
      <3>5. o.e.step = "Completed"
        BY <2>2, <2>3
      <3>6. ~(addr < OamSize - 1)
        BY <1>2, <1>4
      <3> HIDE DEF o
      <3> QED
        BY <3>1, <3>2, <3>3, <3>4, <3>5, <3>6 DEF o
  <1>5. CASE ~(addr >= OamSize - 1) /\ e.count = 3
    <2> DEFINE f == WithStep(copied, "ReadY", 0)
    <2>1. WriteByte(e, addr) = Outcome(f, addr + 1, FALSE, FALSE)
      BY <1>3, <1>5 DEF WithStep
    <2>2. f \in Machines /\ f.step = "ReadY" /\ f.pointer = copied.pointer
          /\ f.secondary = copied.secondary
      BY <1>1, WithStepFacts DEF Steps
    <2> HIDE DEF f
    <2>3. LET o == WriteByte(e, addr)
          IN  o.e = f /\ o.addr = addr + 1 /\ o.zero = FALSE /\ o.overflow = FALSE
      BY <2>1 DEF Outcome
    <2> QED
      <3> DEFINE o == WriteByte(e, addr)
      <3>1. o.e \in Machines
        BY <2>2, <2>3
      <3>2. o.addr \in 0..OamSize - 1 /\ o.addr = addr + 1 /\ addr < OamSize - 1
        BY <1>2, <1>5, <2>3
      <3>3. o.e.pointer = Advanced(e) /\ o.e.secondary = Stored(e).secondary
        BY <1>1, <2>2, <2>3
      <3>4. o.zero = FALSE /\ o.overflow = FALSE
        BY <2>3
      <3>5. o.e.step = "ReadY"
        BY <1>1, <1>5, <2>2, <2>3
      <3>6. addr # OamSize - 1
        BY <1>2, <3>2
      <3>7. e.count = 3 /\ ~(e.count < 3)
        BY <1>2, <1>5
      <3> HIDE DEF o
      <3> QED
        BY <3>1, <3>2, <3>3, <3>4, <3>5, <3>6, <3>7 DEF o
  <1>6. CASE ~(addr >= OamSize - 1) /\ e.count # 3
    <2> DEFINE c == copied.count + 1
               f == WithStep(copied, "ReadByte", c)
    <2>1. WriteByte(e, addr) = Outcome(f, addr + 1, FALSE, FALSE)
      BY <1>3, <1>6 DEF WithStep
    <2>2. c \in 0..3 /\ c = e.count + 1
      BY <1>1, <1>2, <1>6
    <2> HIDE DEF c
    <2>3. f \in Machines /\ f.step = "ReadByte" /\ f.pointer = copied.pointer
          /\ f.secondary = copied.secondary /\ f.count = c
      BY <1>1, <2>2, WithStepFacts DEF Steps
    <2> HIDE DEF f
    <2>4. LET o == WriteByte(e, addr)
          IN  o.e = f /\ o.addr = addr + 1 /\ o.zero = FALSE /\ o.overflow = FALSE
      BY <2>1 DEF Outcome
    <2> QED
      <3> DEFINE o == WriteByte(e, addr)
      <3>1. o.e \in Machines
        BY <2>2, <2>3, <2>4
      <3>2. o.addr \in 0..OamSize - 1 /\ o.addr = addr + 1 /\ addr < OamSize - 1
        BY <1>2, <1>6, <2>4
      <3>3. o.e.pointer = Advanced(e) /\ o.e.secondary = Stored(e).secondary
        BY <1>1, <2>2, <2>3, <2>4
      <3>4. o.zero = FALSE /\ o.overflow = FALSE
        BY <2>4
      <3>5. o.e.step = "ReadByte" /\ o.e.count = e.count + 1
        BY <1>1, <1>6, <2>2, <2>3, <2>4
      <3>6. addr # OamSize - 1
        BY <1>2, <3>2
      <3>7. e.count # 3
        BY <1>2, <1>6
      <3> HIDE DEF o
      <3> QED
        BY <3>1, <3>2, <3>3, <3>4, <3>5, <3>6, <3>7 DEF o
  <1> QED
    BY <1>4, <1>5, <1>6

LEMMA WriteYFacts ==
    ASSUME NEW e \in Machines, NEW addr \in 0..OamSize - 1
    PROVE  LET o == WriteY(e, addr)
           IN  /\ o.e \in Machines /\ o.addr \in 0..OamSize - 1
               /\ o.zero \in BOOLEAN /\ o.overflow \in BOOLEAN
               /\ o.e.secondary = Stored(e).secondary
               /\ IsFull(e) => o.e.pointer = e.pointer
               /\ InRange(e.value) =>
                    /\ o.e.pointer = Advanced(e) /\ o.zero = (addr = 0)
                    /\ IsFull(e) => o.overflow = TRUE
                    /\ addr + 1 < OamSize =>
                         o.addr = addr + 1 /\ o.e.step = "ReadByte" /\ o.e.count = 1
               /\ ~InRange(e.value) =>
                    /\ o.e.pointer = e.pointer /\ o.zero = FALSE /\ o.overflow = FALSE
                    /\ ~IsFull(e) /\ addr + 4 < OamSize =>
                         o.addr = addr + 4 /\ o.e.step = "ReadY"
                    /\ ~IsFull(e) /\ addr + 4 >= OamSize => o.e.step = "Completed"
  <1> DEFINE stored == Stored(e)
             found == [stored EXCEPT !.pointer = Advanced(e)]
             next == AfterMiss(e, addr)
  <1>1. /\ stored \in Machines /\ stored.pointer = e.pointer
        /\ found \in Machines /\ found.pointer = Advanced(e)
        /\ found.secondary = stored.secondary /\ Advanced(e) \in 0..SecondarySize
        /\ (IsFull(e) => Advanced(e) = e.pointer)
    BY StoredFacts DEF Machines
  <1>2. OamSize \in Nat /\ next \in Nat /\ (~IsFull(e) => next = addr + 4)
    BY Sizes DEF AfterMiss
  <1>3. IsFull(found) \in BOOLEAN /\ (IsFull(e) => IsFull(found))
    BY <1>1 DEF IsFull
  <1> HIDE DEF stored, found, next
  <1>4. CASE InRange(e.value) /\ addr + 1 < OamSize
    <2> DEFINE f == WithStep(found, "ReadByte", 1)
    <2>1. WriteY(e, addr) = Outcome(f, addr + 1, addr = 0, IsFull(found))
      BY <1>4 DEF WriteY, stored, found, WithStep
    <2>2. f \in Machines /\ f.step = "ReadByte" /\ f.pointer = found.pointer
          /\ f.secondary = found.secondary /\ f.count = 1
      BY <1>1, WithStepFacts DEF Steps
    <2> HIDE DEF f
    <2>3. LET o == WriteY(e, addr)
          IN  o.e = f /\ o.addr = addr + 1 /\ o.zero = (addr = 0) /\ o.overflow = IsFull(found)
      BY <2>1 DEF Outcome
    <2> QED
      <3> DEFINE o == WriteY(e, addr)
      <3>1. o.e \in Machines /\ o.e.secondary = Stored(e).secondary
        BY <1>1, <2>2, <2>3 DEF stored
      <3>2. o.addr \in 0..OamSize - 1
        BY <1>2, <1>4, <2>3
      <3>3. o.zero \in BOOLEAN /\ o.overflow \in BOOLEAN
        BY <1>3, <2>3
      <3>4. o.e.pointer = Advanced(e) /\ (IsFull(e) => o.e.pointer = e.pointer)
        BY <1>1, <2>2, <2>3
      <3>5. o.zero = (addr = 0)
        BY <2>3
      <3>6. IsFull(e) => o.overflow = TRUE
        BY <1>3, <2>3
      <3>7. o.addr = addr + 1 /\ o.e.step = "ReadByte" /\ o.e.count = 1
        BY <2>2, <2>3
      <3> HIDE DEF o
      <3> QED
        BY <1>4, <3>1, <3>2, <3>3, <3>4, <3>5, <3>6, <3>7 DEF o
  <1>5. CASE InRange(e.value) /\ ~(addr + 1 < OamSize)
    <2> DEFINE f == [found EXCEPT !.step = "Completed"]
    <2>1. WriteY(e, addr) = Outcome(f, addr, addr = 0, IsFull(found))
      BY <1>5 DEF WriteY, stored, found
    <2>2. f \in Machines /\ f.step = "Completed" /\ f.pointer = found.pointer
          /\ f.secondary = found.secondary
      BY <1>1 DEF Machines, Steps
    <2> HIDE DEF f
    <2>3. LET o == WriteY(e, addr)
          IN  o.e = f /\ o.addr = addr /\ o.zero = (addr = 0) /\ o.overflow = IsFull(found)
      BY <2>1 DEF Outcome
    <2> QED
      <3> DEFINE o == WriteY(e, addr)
      <3>1. o.e \in Machines /\ o.e.secondary = Stored(e).secondary
        BY <1>1, <2>2, <2>3 DEF stored
      <3>2. o.addr \in 0..OamSize - 1
        BY <1>2, <1>5, <2>3
      <3>3. o.zero \in BOOLEAN /\ o.overflow \in BOOLEAN
        BY <1>3, <2>3
      <3>4. o.e.pointer = Advanced(e) /\ (IsFull(e) => o.e.pointer = e.pointer)
        BY <1>1, <2>2, <2>3
      <3>5. o.zero = (addr = 0)
        BY <2>3
      <3>6. IsFull(e) => o.overflow = TRUE
        BY <1>3, <2>3
      <3>7. ~(addr + 1 < OamSize)
        BY <1>5
      <3> HIDE DEF o
      <3> QED
        BY <1>5, <3>1, <3>2, <3>3, <3>4, <3>5, <3>6, <3>7 DEF o
  <1>6. CASE ~InRange(e.value) /\ next < OamSize
    <2> DEFINE f == [stored EXCEPT !.step = "ReadY"]
    <2>1. WriteY(e, addr) = Outcome(f, next, FALSE, FALSE)
      BY <1>6 DEF WriteY, stored, next
    <2>2. f \in Machines /\ f.step = "ReadY" /\ f.pointer = stored.pointer
          /\ f.secondary = stored.secondary
      BY <1>1 DEF Machines, Steps
    <2> HIDE DEF f
    <2>3. LET o == WriteY(e, addr)
          IN  o.e = f /\ o.addr = next /\ o.zero = FALSE /\ o.overflow = FALSE
      BY <2>1 DEF Outcome
    <2> QED
      <3> DEFINE o == WriteY(e, addr)
      <3>1. o.e \in Machines /\ o.e.secondary = Stored(e).secondary
        BY <1>1, <2>2, <2>3 DEF stored
      <3>2. o.addr \in 0..OamSize - 1
        BY <1>2, <1>6, <2>3
      <3>3. o.zero \in BOOLEAN /\ o.overflow \in BOOLEAN
        BY <1>3, <2>3
      <3>4. o.e.pointer = e.pointer
        BY <1>1, <2>2, <2>3
      <3>5. o.zero = FALSE /\ o.overflow = FALSE
        BY <2>3
      <3>6. ~IsFull(e) => o.addr = addr + 4 /\ addr + 4 < OamSize
        BY <1>2, <1>6, <2>3
      <3>7. o.e.step = "ReadY" /\ (~IsFull(e) => ~(addr + 4 >= OamSize))
        BY <1>2, <2>2, <2>3, <3>6
      <3> HIDE DEF o
      <3> QED
        BY <1>6, <3>1, <3>2, <3>3, <3>4, <3>5, <3>6, <3>7 DEF o
  <1>7. CASE ~InRange(e.value) /\ ~(next < OamSize)
    <2> DEFINE f == [stored EXCEPT !.step = "Completed"]
    <2>1. WriteY(e, addr) = Outcome(f, addr, FALSE, FALSE)
      BY <1>7 DEF WriteY, stored, next
    <2>2. f \in Machines /\ f.step = "Completed" /\ f.pointer = stored.pointer
          /\ f.secondary = stored.secondary
      BY <1>1 DEF Machines, Steps
    <2> HIDE DEF f
    <2>3. LET o == WriteY(e, addr)
          IN  o.e = f /\ o.addr = addr /\ o.zero = FALSE /\ o.overflow = FALSE
      BY <2>1 DEF Outcome
    <2> QED
      <3> DEFINE o == WriteY(e, addr)
      <3>1. o.e \in Machines /\ o.e.secondary = Stored(e).secondary
        BY <1>1, <2>2, <2>3 DEF stored
      <3>2. o.addr \in 0..OamSize - 1
        BY <1>2, <1>7, <2>3
      <3>3. o.zero \in BOOLEAN /\ o.overflow \in BOOLEAN
        BY <1>3, <2>3
      <3>4. o.e.pointer = e.pointer
        BY <1>1, <2>2, <2>3
      <3>5. o.zero = FALSE /\ o.overflow = FALSE
        BY <2>3
      <3>6. ~IsFull(e) => ~(addr + 4 < OamSize)
        BY <1>2, <1>7
      <3>7. o.e.step = "Completed"
        BY <2>2, <2>3
      <3> HIDE DEF o
      <3> QED
        BY <1>7, <3>1, <3>2, <3>3, <3>4, <3>5, <3>6, <3>7 DEF o
  <1> QED
    BY <1>4, <1>5, <1>6, <1>7

LEMMA EvalCases ==
    ASSUME NEW e, NEW addr
    PROVE  /\ e.step = "ReadY" => EvalStep(e, addr) = ReadY(e, addr)
           /\ e.step = "WriteY" => EvalStep(e, addr) = WriteY(e, addr)
           /\ e.step = "ReadByte" => EvalStep(e, addr) = ReadByte(e, addr)
           /\ e.step = "WriteByte" => EvalStep(e, addr) = WriteByte(e, addr)
           /\ e.step = "Completed" => EvalStep(e, addr) = Outcome(e, addr, FALSE, FALSE)
  BY DEF EvalStep

\* And of any state: it stays one, the full memory is left alone.
LEMMA EvalFacts ==
    ASSUME NEW e \in Machines, NEW addr \in 0..OamSize - 1, oam_ram \in Memories
    PROVE  LET o == EvalStep(e, addr)
           IN  /\ o.e \in Machines /\ o.addr \in 0..OamSize - 1
               /\ o.zero \in BOOLEAN /\ o.overflow \in BOOLEAN
               /\ e.step = "Completed" \/ IsFull(e) =>
                    /\ o.e.secondary = e.secondary
                    /\ o.e.step = "Completed" \/ IsFull(o.e)
  <1> DEFINE o == EvalStep(e, addr)
  <1>1. e.step \in Steps
    BY DEF Machines
  <1>2. CASE e.step = "ReadY"
    <2>1. o = ReadY(e, addr)
      BY <1>2, EvalCases
    <2> HIDE DEF o
    <2>2. o.e \in Machines /\ o.addr \in 0..OamSize - 1
      BY <2>1, ReadYFacts
    <2>3. o.zero \in BOOLEAN /\ o.overflow \in BOOLEAN
      BY <2>1, ReadYFacts
    <2>4. IsFull(e) => o.e.secondary = e.secondary /\ o.e.pointer = e.pointer
      BY <2>1, ReadYFacts, StoredFacts, ZenonT(60)
    <2> QED
      BY <1>2, <2>2, <2>3, <2>4 DEF IsFull, o
  <1>3. CASE e.step = "WriteY"
    <2>1. o = WriteY(e, addr)
      BY <1>3, EvalCases
    <2> HIDE DEF o
    <2>2. o.e \in Machines /\ o.addr \in 0..OamSize - 1
      BY <2>1, WriteYFacts
    <2>3. o.zero \in BOOLEAN /\ o.overflow \in BOOLEAN
      BY <2>1, WriteYFacts
    <2>4. IsFull(e) => o.e.secondary = e.secondary /\ o.e.pointer = e.pointer
      BY <2>1, WriteYFacts, StoredFacts, ZenonT(60)
    <2> QED
      BY <1>3, <2>2, <2>3, <2>4 DEF IsFull, o
  <1>4. CASE e.step = "ReadByte"
    <2>1. o = ReadByte(e, addr)
      BY <1>4, EvalCases
    <2> HIDE DEF o
    <2>2. o.e \in Machines /\ o.addr \in 0..OamSize - 1
      BY <2>1, ReadByteFacts
    <2>3. o.zero \in BOOLEAN /\ o.overflow \in BOOLEAN
      BY <2>1, ReadByteFacts
    <2>4. IsFull(e) => o.e.secondary = e.secondary /\ o.e.pointer = e.pointer
      BY <2>1, ReadByteFacts, StoredFacts, ZenonT(60)
    <2> QED
      BY <1>4, <2>2, <2>3, <2>4 DEF IsFull, o
  <1>5. CASE e.step = "WriteByte"
    <2>1. o = WriteByte(e, addr)
      BY <1>5, EvalCases
    <2> HIDE DEF o
    <2>2. o.e \in Machines /\ o.addr \in 0..OamSize - 1
      BY <2>1, WriteByteFacts
    <2>3. o.zero \in BOOLEAN /\ o.overflow \in BOOLEAN
      BY <2>1, WriteByteFacts
    <2>4. o.e.secondary = Stored(e).secondary /\ o.e.pointer = Advanced(e)
      BY <2>1, WriteByteFacts
    <2>5. IsFull(e) => Stored(e).secondary = e.secondary /\ Advanced(e) = e.pointer
      BY StoredFacts
    <2>6. IsFull(e) => o.e.secondary = e.secondary /\ o.e.pointer = e.pointer
      BY <2>4, <2>5
    <2> QED
      BY <1>5, <2>2, <2>3, <2>6 DEF IsFull, o
  <1>6. CASE e.step = "Completed"
    <2>1. o = Outcome(e, addr, FALSE, FALSE)
      BY <1>6, EvalCases
    <2> HIDE DEF o
    <2>2. o.e = e /\ o.addr = addr
      BY <2>1 DEF Outcome
    <2>3. o.zero \in BOOLEAN /\ o.overflow \in BOOLEAN
      BY <2>1 DEF Outcome
    <2> QED
      BY <1>6, <2>2, <2>3 DEF o
  <1> QED
    BY <1>1, <1>2, <1>3, <1>4, <1>5, <1>6 DEF Steps

-----------------------------------------------------------------------------
(* Dots *)

\* What a dot does.
LEMMA Cycles ==
    ASSUME TypeOK, ProcessSpriteCycle
    PROVE  /\ dot = 0 /\ scanline = PreRender => ClearSprites
           /\ Rendered /\ dot \in 1..ClearEnd => Clear
           /\ Rendered /\ dot \in ClearEnd + 1 .. EvalEnd /\ scanline # PreRender => Evaluate
           /\ Rendered /\ dot \in EvalEnd + 1 .. FetchEnd => Fetch
           /\ dot = LastDot => AgeSprites
           /\ \/ dot = 0 /\ scanline = PreRender /\ ClearSprites
              \/ Rendered /\ dot \in 1..ClearEnd /\ Clear
              \/ Rendered /\ dot \in ClearEnd + 1 .. EvalEnd /\ Evaluate
              \/ Rendered /\ dot \in EvalEnd + 1 .. FetchEnd /\ Fetch
              \/ dot = LastDot /\ AgeSprites
              \/ UNCHANGED <<oamVars, eval, fetch, sprites, flags>>
  <1>1. dot \in Nat
    BY Sizes DEF TypeOK
  <1> DEFINE a == dot = 0 /\ scanline = PreRender
             b == Rendered /\ dot \in 1..ClearEnd
             c == Rendered /\ dot \in ClearEnd + 1 .. EvalEnd /\ scanline # PreRender
             d == Rendered /\ dot \in EvalEnd + 1 .. FetchEnd
             l == dot = LastDot
  <1>2. /\ a => ~b /\ ~c /\ ~d /\ ~l
        /\ b => ~a /\ ~c /\ ~d /\ ~l
        /\ c => ~a /\ ~b /\ ~d /\ ~l
        /\ d => ~a /\ ~b /\ ~c /\ ~l
        /\ l => ~a /\ ~b /\ ~c /\ ~d
    BY <1>1, Sizes
  <1>3. CASE a
    BY <1>2, <1>3 DEF ProcessSpriteCycle
  <1>4. CASE b
    BY <1>2, <1>4 DEF ProcessSpriteCycle
  <1>5. CASE c
    BY <1>2, <1>5 DEF ProcessSpriteCycle
  <1>6. CASE d
    BY <1>2, <1>6 DEF ProcessSpriteCycle
  <1>7. CASE l
    BY <1>2, <1>7 DEF ProcessSpriteCycle
  <1>8. CASE ~a /\ ~b /\ ~c /\ ~d /\ ~l
    BY <1>8 DEF ProcessSpriteCycle
  <1> QED
    BY <1>3, <1>4, <1>5, <1>6, <1>7, <1>8

\* The types of what the dots change.
Types ==
    /\ oam_ram \in Memories /\ oam_addr \in 0..OamSize - 1
    /\ eval \in Machines
    /\ fetch \in [step : 0..8 * P, y : Byte]
    /\ sprites \in [0..P - 1 -> Units]
    /\ flags \in [sprite_zero_visible : BOOLEAN, sprite_overflow : BOOLEAN]

LEMMA TypeParts ==
    /\ TypeOK <=> /\ Types /\ scanline \in 0..PreRender /\ dot \in 0..LastDot
                  /\ rendering \in BOOLEAN /\ sprite_height \in {Height, 2 * Height}
                  /\ undisturbed \in BOOLEAN
    /\ TypeOK' <=> /\ Types' /\ scanline' \in 0..PreRender /\ dot' \in 0..LastDot
                   /\ rendering' \in BOOLEAN /\ sprite_height' \in {Height, 2 * Height}
                   /\ undisturbed' \in BOOLEAN
  BY DEF TypeOK, Types, Memories, Machines, Steps, Units

LEMMA ClearType ==
    ASSUME Types, Clear, dot \in 1..ClearEnd
    PROVE  /\ Types'
           /\ eval' = [eval EXCEPT !.secondary = [eval.secondary EXCEPT ![(dot - 1) \div 2] = Empty]]
           /\ (dot - 1) \div 2 \in 0..SecondarySize - 1
  <1> DEFINE a == (dot - 1) \div 2
             s == [eval.secondary EXCEPT ![a] = Empty]
  <1>1. a \in 0..SecondarySize - 1
    BY Sizes
  <1>2. Empty \in Byte /\ eval \in Machines
    BY Sizes DEF Types, Byte
  <1> HIDE DEF a
  <1>3. s \in [0..SecondarySize - 1 -> Byte]
    BY <1>2 DEF Machines
  <1>4. eval' = [eval EXCEPT !.secondary = s]
    BY <1>2 DEF Clear, a, Machines
  <1> HIDE DEF s
  <1>5. eval' \in Machines
    BY <1>2, <1>3, <1>4 DEF Machines
  <1> QED
    BY <1>1, <1>4, <1>5 DEF Types, Clear, oamVars, a, s

\* The state the evaluation machine goes on from.
Resumed == IF dot = ClearEnd + 1 THEN Restarted(eval) ELSE eval

LEMMA ResumedFacts ==
    ASSUME Types
    PROVE  /\ Resumed \in Machines /\ Resumed.secondary = eval.secondary
           /\ dot = ClearEnd + 1 => Resumed.step = "ReadY" /\ Resumed.pointer = 0
           /\ dot # ClearEnd + 1 => Resumed = eval
  <1>1. 0 \in 0..SecondarySize /\ eval \in Machines
    BY Sizes DEF Types
  <1>2. /\ Restarted(eval) \in Machines /\ Restarted(eval).secondary = eval.secondary
        /\ Restarted(eval).step = "ReadY" /\ Restarted(eval).pointer = 0
    <2>1. /\ WithStep(eval, "ReadY", 0) \in Machines
          /\ WithStep(eval, "ReadY", 0).secondary = eval.secondary
          /\ WithStep(eval, "ReadY", 0).step = "ReadY"
      BY <1>1, WithStepFacts DEF Steps
    <2>2. Restarted(eval) = [WithStep(eval, "ReadY", 0) EXCEPT !.pointer = 0]
      BY <1>1 DEF Restarted, WithStep, Machines
    <2> QED
      BY <1>1, <2>1, <2>2 DEF Machines
  <1> QED
    BY <1>1, <1>2 DEF Resumed

LEMMA EvaluateType ==
    ASSUME Types, Evaluate
    PROVE  LET o == EvalStep(Resumed, oam_addr)
           IN  /\ Types' /\ eval' = o.e /\ oam_addr' = o.addr
               /\ flags'.sprite_zero_visible = (flags.sprite_zero_visible \/ o.zero)
               /\ flags'.sprite_overflow = (flags.sprite_overflow \/ o.overflow)
               /\ UNCHANGED <<oam_ram, fetch, sprites>>
  <1> DEFINE o == EvalStep(Resumed, oam_addr)
  <1>1. /\ eval' = o.e /\ oam_addr' = o.addr
        /\ flags' = [sprite_zero_visible |-> flags.sprite_zero_visible \/ o.zero,
                     sprite_overflow |-> flags.sprite_overflow \/ o.overflow]
        /\ UNCHANGED <<oam_ram, fetch, sprites>>
    BY DEF Evaluate, Resumed
  <1>2. o.e \in Machines /\ o.addr \in 0..OamSize - 1
    BY ResumedFacts, EvalFacts DEF Types
  <1> HIDE DEF o
  <1>3. flags' \in [sprite_zero_visible : BOOLEAN, sprite_overflow : BOOLEAN]
    BY <1>1
  <1>4. /\ flags'.sprite_zero_visible = (flags.sprite_zero_visible \/ o.zero)
        /\ flags'.sprite_overflow = (flags.sprite_overflow \/ o.overflow)
    BY <1>1
  <1>5. Types'
    BY <1>1, <1>2, <1>3 DEF Types
  <1> QED
    BY <1>1, <1>4, <1>5 DEF o

LEMMA UnitFacts ==
    ASSUME NEW unit \in Units, NEW in_unit \in 0..7, NEW y
    PROVE  LET u == FetchedUnit(unit, in_unit, y)
           IN  /\ u \in Units
               /\ in_unit \in {4, 6} => (u.visible <=> InRange(y))
               /\ in_unit \notin {4, 6} => u.visible = unit.visible
               /\ in_unit = 5 => u.low = TRUE
               /\ in_unit # 5 => u.low = unit.low
               /\ in_unit = 7 => u.high = TRUE
               /\ in_unit # 7 => u.high = unit.high
  <1>1. InRange(y) \in BOOLEAN
    BY DEF InRange
  <1>2. CASE in_unit \in {4, 6}
    <2>1. FetchedUnit(unit, in_unit, y) = [unit EXCEPT !.visible = InRange(y)]
      BY <1>2 DEF FetchedUnit
    <2> QED
      <3> DEFINE u == FetchedUnit(unit, in_unit, y)
      <3>1. u \in Units
        BY <1>1, <2>1 DEF Units
      <3>2. u.visible = InRange(y)
        BY <2>1 DEF Units
      <3>3. u.low = unit.low /\ u.high = unit.high
        BY <2>1 DEF Units
      <3>4. in_unit # 5 /\ in_unit # 7
        BY <1>2
      <3> HIDE DEF u
      <3> QED
        BY <1>2, <3>1, <3>2, <3>3, <3>4 DEF u
  <1>3. CASE in_unit = 5
    <2>1. FetchedUnit(unit, in_unit, y) = [unit EXCEPT !.low = TRUE]
      BY <1>3 DEF FetchedUnit
    <2> QED
      <3> DEFINE u == FetchedUnit(unit, in_unit, y)
      <3>1. u \in Units
        BY <2>1 DEF Units
      <3>2. u.low = TRUE
        BY <2>1 DEF Units
      <3>3. u.visible = unit.visible /\ u.high = unit.high
        BY <2>1 DEF Units
      <3>4. in_unit \notin {4, 6} /\ in_unit # 7
        BY <1>3
      <3> HIDE DEF u
      <3> QED
        BY <1>3, <3>1, <3>2, <3>3, <3>4 DEF u
  <1>4. CASE in_unit = 7
    <2>1. FetchedUnit(unit, in_unit, y) = [unit EXCEPT !.high = TRUE]
      BY <1>4 DEF FetchedUnit
    <2> QED
      <3> DEFINE u == FetchedUnit(unit, in_unit, y)
      <3>1. u \in Units
        BY <2>1 DEF Units
      <3>2. u.high = TRUE
        BY <2>1 DEF Units
      <3>3. u.visible = unit.visible /\ u.low = unit.low
        BY <2>1 DEF Units
      <3>4. in_unit \notin {4, 6} /\ in_unit # 5
        BY <1>4
      <3> HIDE DEF u
      <3> QED
        BY <1>4, <3>1, <3>2, <3>3, <3>4 DEF u
  <1>5. CASE in_unit \notin {4, 5, 6, 7}
    <2>1. FetchedUnit(unit, in_unit, y) = unit
      BY <1>5 DEF FetchedUnit
    <2> QED
      BY <1>5, <2>1
  <1> QED
    BY <1>2, <1>3, <1>4, <1>5

\* The step the fetch machine goes on from, its unit, and the dot within the unit.
FetchFrom == IF dot = EvalEnd + 1 THEN 0 ELSE fetch.step
Unit == FetchFrom \div 8
InUnit == FetchFrom % 8

LEMMA UnitSteps ==
    ASSUME NEW step \in 0..8 * P
    PROVE  /\ step \div 8 \in Nat /\ step % 8 \in 0..7
           /\ step = 8 * (step \div 8) + (step % 8)
           /\ step < 8 * P => step \div 8 \in 0..P - 1
           /\ NextFetchStep(step) \in 0..8 * P
  BY Sizes DEF NextFetchStep

LEMMA FetchFacts ==
    ASSUME Types, Fetch
    PROVE  /\ Types' /\ eval' = eval /\ flags' = flags /\ oam_ram' = oam_ram
           /\ FetchFrom \in 0..8 * P
           /\ FetchFrom < 8 * P =>
                /\ fetch'.step = NextFetchStep(FetchFrom)
                /\ fetch'.y = IF InUnit = 0 THEN eval.secondary[4 * Unit]
                              ELSE IF NextFetchStep(FetchFrom) % 8 # 0 THEN fetch.y ELSE 0
                /\ sprites' = [sprites EXCEPT ![Unit] =
                                 FetchedUnit(sprites[Unit], InUnit, fetch.y)]
           /\ FetchFrom = 8 * P => fetch' = fetch /\ sprites' = sprites
  <1>1. FetchFrom \in 0..8 * P
    BY Sizes DEF Types, FetchFrom
  <1>2. oam_addr' \in 0..OamSize - 1 /\ eval' = eval /\ flags' = flags /\ oam_ram' = oam_ram
    BY Sizes DEF Fetch
  <1>3. CASE FetchFrom < 8 * P
    <2> DEFINE y == IF InUnit = 0 THEN eval.secondary[4 * Unit]
                    ELSE IF NextFetchStep(FetchFrom) % 8 # 0 THEN fetch.y ELSE 0
               u == FetchedUnit(sprites[Unit], InUnit, fetch.y)
    <2>1. fetch' = [step |-> NextFetchStep(FetchFrom), y |-> y]
          /\ sprites' = [sprites EXCEPT ![Unit] = u]
      <3>1. FetchFrom # 8 * P
        BY <1>1, <1>3, Sizes
      <3>2. /\ fetch' = [step |-> NextFetchStep(FetchFrom),
                         y |-> CASE InUnit = 0 -> eval.secondary[4 * Unit]
                                 [] InUnit # 0 /\ NextFetchStep(FetchFrom) % 8 # 0 -> fetch.y
                                 [] OTHER -> 0]
            /\ sprites' = [sprites EXCEPT ![Unit] = u]
        BY <3>1 DEF Fetch, FetchFrom, Unit, InUnit
      <3>3. (CASE InUnit = 0 -> eval.secondary[4 * Unit]
               [] InUnit # 0 /\ NextFetchStep(FetchFrom) % 8 # 0 -> fetch.y
               [] OTHER -> 0) = y
        OBVIOUS
      <3> HIDE DEF y, u
      <3> QED
        BY <3>2, <3>3
    <2>2. Unit \in 0..P - 1 /\ InUnit \in 0..7 /\ NextFetchStep(FetchFrom) \in 0..8 * P
      BY <1>1, <1>3, UnitSteps DEF Unit, InUnit
    <2>3. y \in Byte
      <3>1. 4 * Unit \in 0..SecondarySize - 1 /\ 0 \in Byte
        BY <2>2, Sizes DEF Byte
      <3>2. eval.secondary[4 * Unit] \in Byte /\ fetch.y \in Byte
        BY <3>1 DEF Types, Machines
      <3> QED
        BY <3>1, <3>2
    <2>4. u \in Units
      BY <2>2, UnitFacts DEF Types
    <2> HIDE DEF y, u
    <2>5. Types'
      BY <1>2, <2>1, <2>2, <2>3, <2>4 DEF Types
    <2> QED
      BY <1>1, <1>2, <1>3, <2>1, <2>5, Sizes DEF y, u
  <1>4. CASE FetchFrom = 8 * P
    <2>1. fetch' = fetch /\ sprites' = sprites
      BY <1>4, Sizes DEF Fetch, FetchFrom
    <2> QED
      BY <1>1, <1>2, <1>4, <2>1, Sizes DEF Types
  <1> QED
    BY <1>1, <1>3, <1>4, Sizes

LEMMA DotTypes ==
    ASSUME TypeOK, ProcessSpriteCycle
    PROVE  Types'
  <1>1. Types
    BY TypeParts
  <1>2. CASE ClearSprites
    <2>1. sprites' \in [0..P - 1 -> Units]
      BY <1>1, <1>2 DEF ClearSprites, Types, Units
    <2> QED
      BY <1>1, <1>2, <2>1 DEF ClearSprites, Types, oamVars
  <1>3. CASE dot \in 1..ClearEnd /\ Clear
    BY <1>1, <1>3, ClearType
  <1>4. CASE Evaluate
    BY <1>1, <1>4, EvaluateType
  <1>5. CASE Fetch
    BY <1>1, <1>5, FetchFacts
  <1>6. CASE AgeSprites
    <2>1. sprites' \in [0..P - 1 -> Units]
      BY <1>1, <1>6 DEF AgeSprites, Types, Units
    <2> QED
      BY <1>1, <1>6, <2>1 DEF AgeSprites, Types, oamVars
  <1>7. CASE UNCHANGED <<oamVars, eval, fetch, sprites, flags>>
    BY <1>1, <1>7 DEF Types, oamVars
  <1> QED
    BY <1>2, <1>3, <1>4, <1>5, <1>6, <1>7, Cycles

\* What all accesses of the CPU leave alone.
LEMMA AccessFacts ==
    ASSUME TypeOK, CpuAccess
    PROVE  TypeOK' /\ undisturbed' = FALSE
  <1>1. Types /\ OamSize \in Nat \ {0}
    BY TypeParts, Sizes
  <1>2. ASSUME NEW index \in 0..OamSize - 1, NEW value \in Bytes
        PROVE  Masked(index, value) \in Byte
    <2>1. value \in 0..Empty /\ Empty \in Nat
      BY SpriteAssumption
    <2> DEFINE q == value \div 4
    <2>2. q \in Nat /\ 4 * q <= value
      BY <2>1
    <2> HIDE DEF q
    <2>3. q % 8 \in Nat /\ q % 8 <= q
      BY <2>2
    <2> QED
      BY <2>1, <2>2, <2>3 DEF Masked, Byte, q
  <1>3. ASSUME NEW address, NEW value \in Byte, WriteOam(address, value)
        PROVE  oam_ram' \in Memories
    BY <1>1, <1>3 DEF WriteOam, Types, Memories
  <1>4. Volatile \subseteq 0..OamSize - 1
    BY SpriteAssumption
  <1>5. /\ scanline' = scanline /\ dot' = dot /\ eval' = eval /\ fetch' = fetch
        /\ sprites' = sprites /\ flags' = flags /\ undisturbed' = FALSE
    BY DEF CpuAccess
  <1>6. CASE WriteOamAddr
    <2>1. oam_addr' \in 0..OamSize - 1 /\ oam_ram' = oam_ram /\ rendering' = rendering
          /\ sprite_height' = sprite_height
      BY <1>1, <1>4, <1>6 DEF WriteOamAddr
    <2> QED
      BY <1>1, <1>5, <2>1, TypeParts DEF Types
  <1>7. CASE WriteOamData
    <2>1. oam_addr \in 0..OamSize - 1
      BY <1>1 DEF Types
    <2>2. oam_ram' \in Memories
      BY <1>2, <1>3, <1>7, <2>1 DEF WriteOamData
    <2>3. oam_addr' \in 0..OamSize - 1 /\ rendering' = rendering
          /\ sprite_height' = sprite_height
      BY <1>1, <1>7, <2>1 DEF WriteOamData
    <2> QED
      BY <1>1, <1>5, <2>2, <2>3, TypeParts DEF Types
  <1>8. CASE DmaWrite
    <2>1. oam_ram' \in Memories
      BY <1>2, <1>3, <1>8 DEF DmaWrite
    <2>2. oam_addr' = oam_addr /\ rendering' = rendering /\ sprite_height' = sprite_height
      BY <1>8 DEF DmaWrite
    <2> QED
      BY <1>1, <1>5, <2>1, <2>2, TypeParts DEF Types
  <1>9. CASE WriteMask
    <2>1. rendering' \in BOOLEAN /\ oam_ram' = oam_ram /\ oam_addr' = oam_addr
          /\ sprite_height' = sprite_height
      BY <1>9, TypeParts DEF WriteMask, oamVars
    <2> QED
      BY <1>1, <1>5, <2>1, TypeParts DEF Types
  <1>10. CASE WriteControl
    <2>1. sprite_height' \in {Height, 2 * Height} /\ oam_ram' = oam_ram
          /\ oam_addr' = oam_addr /\ rendering' = rendering
      BY <1>10 DEF WriteControl, oamVars
    <2> QED
      BY <1>1, <1>5, <2>1, TypeParts DEF Types
  <1> QED
    BY <1>5, <1>6, <1>7, <1>8, <1>9, <1>10 DEF CpuAccess

LEMMA DotType ==
    ASSUME TypeOK, Dot
    PROVE  TypeOK'
  <1>1. Types'
    BY DotTypes DEF Dot
  <1>2. scanline' \in 0..PreRender /\ dot' \in 0..LastDot
    <2>1. scanline \in 0..PreRender /\ dot \in 0..LastDot
      BY DEF TypeOK
    <2>2. \/ dot < LastDot /\ dot' = dot + 1 /\ scanline' = scanline
          \/ dot' = 0 /\ scanline' = IF scanline < PreRender THEN scanline + 1 ELSE 0
      BY DEF Dot
    <2> QED
      BY <2>1, <2>2, Sizes
  <1>3. undisturbed' \in BOOLEAN
    <2>1. undisturbed \in BOOLEAN /\ rendering \in BOOLEAN
      BY DEF TypeOK
    <2>2. undisturbed' = CASE dot = 0 -> Rendered
                           [] dot = ClearEnd + 1 -> undisturbed /\ oam_addr = 0
                           [] OTHER -> undisturbed
      BY DEF Dot
    <2>3. ClearEnd + 1 # 0
      BY Sizes
    <2> QED
      BY <2>1, <2>2, <2>3 DEF Rendered
  <1> QED
    BY <1>1, <1>2, <1>3, TypeParts DEF Dot

-----------------------------------------------------------------------------
(* Sprites of the line *)

LEMMA FoundFacts ==
    /\ Found \subseteq 0..N - 1 /\ IsFiniteSet(Found)
    /\ \A i \in Found : i \in Nat /\ 0 <= i /\ i < N
  <1>1. Found \in SUBSET (0..N - 1)
    BY DEF Found
  <1>2. IsFiniteSet(0..N - 1)
    BY Sizes, FS_Interval
  <1>3. \A i \in Found : i \in Nat /\ 0 <= i /\ i < N
    BY <1>1, Sizes
  <1> QED
    BY <1>1, <1>2, <1>3, FS_Subset

\* Counting the sprites of the line in the order of OAM.
LEMMA CountTypes ==
    ASSUME NEW n \in 0..N
    PROVE  /\ FoundBefore(n) \in Nat
           /\ \A m \in 0..N : m <= n => FoundBefore(m) <= FoundBefore(n)
  <1> DEFINE S == {j \in Found : j < n}
  <1>1. S \in SUBSET Found /\ IsFiniteSet(S)
    BY FoundFacts, FS_Subset
  <1>2. FoundBefore(n) \in Nat
    BY <1>1, FS_CardinalityType DEF FoundBefore
  <1>3. ASSUME NEW m \in 0..N, m <= n
        PROVE  FoundBefore(m) <= FoundBefore(n)
    <2>1. \A j \in Found : j < m => j < n
      BY <1>3, FoundFacts, Sizes
    <2>2. {j \in Found : j < m} \in SUBSET S
      BY <2>1
    <2> QED
      BY <1>1, <2>2, FS_Subset DEF FoundBefore
  <1> QED
    BY <1>2, <1>3

LEMMA CountFacts ==
    /\ FoundBefore(0) = 0 /\ FoundBefore(N) = Cardinality(Found)
    /\ \A n \in 0..N - 1 :
         FoundBefore(n + 1) = IF n \in Found THEN FoundBefore(n) + 1 ELSE FoundBefore(n)
  <1>1. FoundBefore(0) = 0
    <2>1. \A j \in Found : ~(j < 0)
      BY FoundFacts
    <2>2. {j \in Found : j < 0} = {}
      BY <2>1
    <2> QED
      BY <2>2, FS_EmptySet DEF FoundBefore
  <1>2. FoundBefore(N) = Cardinality(Found)
    <2>1. \A j \in Found : j < N
      BY FoundFacts
    <2>2. {j \in Found : j < N} = Found
      BY <2>1
    <2> QED
      BY <2>2 DEF FoundBefore
  <1>3. ASSUME NEW n \in 0..N - 1
        PROVE  FoundBefore(n + 1) = IF n \in Found THEN FoundBefore(n) + 1 ELSE FoundBefore(n)
    <2> DEFINE S == {j \in Found : j < n}
               T == {j \in Found : j < n + 1}
    <2>1. IsFiniteSet(S) /\ n \notin S
      BY FoundFacts, FS_Subset
    <2>2. CASE n \in Found
      <3>1. \A j \in Found : j < n + 1 <=> (j < n \/ j = n)
        BY FoundFacts, Sizes
      <3>2. T = S \cup {n}
        BY <2>2, <3>1
      <3>3. Cardinality(S \cup {n}) = Cardinality(S) + 1
        BY <2>1, FS_AddElement
      <3> QED
        BY <2>2, <3>2, <3>3 DEF FoundBefore
    <2>3. CASE n \notin Found
      <3>1. \A j \in Found : j < n + 1 <=> j < n
        BY <2>3, FoundFacts, Sizes
      <3>2. T = S
        BY <3>1
      <3> QED
        BY <2>3, <3>2 DEF FoundBefore
    <2> QED
      BY <2>2, <2>3
  <1> QED
    BY <1>1, <1>2, <1>3

\* A sprite of the line is counted from the next one on.
LEMMA CountGrows ==
    ASSUME NEW m \in Found, NEW n \in 0..N, m < n
    PROVE  FoundBefore(m) + 1 <= FoundBefore(n)
  <1>1. m \in 0..N - 1 /\ m + 1 \in 0..N /\ m + 1 <= n
    BY FoundFacts, Sizes
  <1>2. FoundBefore(m + 1) = FoundBefore(m) + 1
    BY <1>1, CountFacts
  <1>3. FoundBefore(m + 1) <= FoundBefore(n)
    BY <1>1, CountTypes
  <1> QED
    BY <1>2, <1>3

-----------------------------------------------------------------------------
(* The search: d dots into it, a machine e at addr, and the flags it has raised *)

\* Slots hold the sprites of the line among the first n.
Copied(n, secondary) ==
    \A i \in Found : i < n /\ FoundBefore(i) < P =>
        \A b \in 0..3 : secondary[4 * FoundBefore(i) + b] = oam_ram[4 * i + b]

\* The first c slots hold sprites of the line, and no other does.
Taken(c, secondary) == \A k \in 0..P - 1 : InRange(secondary[4 * k]) <=> k < c

\* Sprite n is next.  Full, the machine has just copied sprite n - 1.
AtSprite(n, e, addr, zero, d) ==
    /\ FoundBefore(n) <= P
    /\ FoundBefore(n) = P => n - 1 \in Found
    /\ addr = 4 * n /\ e.pointer = 4 * FoundBefore(n)
    /\ Copied(n, e.secondary) /\ Taken(FoundBefore(n), e.secondary)
    /\ n > 0 /\ 0 \in Found => zero
    /\ \/ e.step = "ReadY" /\ d = 2 * n + 6 * FoundBefore(n)
       \/ /\ e.step = "WriteY" /\ d = 2 * n + 6 * FoundBefore(n) + 1
          /\ e.value = oam_ram[4 * n]

\* Sprite n is in range, and count of its bytes are copied.
InSprite(n, e, addr, zero, d) ==
    /\ n \in Found /\ FoundBefore(n) < P
    /\ e.count \in 1..3
    /\ addr = 4 * n + e.count /\ e.pointer = 4 * FoundBefore(n) + e.count
    /\ Copied(n, e.secondary) /\ Taken(FoundBefore(n) + 1, e.secondary)
    /\ \A b \in 0..e.count - 1 : e.secondary[4 * FoundBefore(n) + b] = oam_ram[4 * n + b]
    /\ 0 \in Found => zero
    /\ \/ e.step = "ReadByte" /\ d = 2 * n + 6 * FoundBefore(n) + 2 * e.count
       \/ /\ e.step = "WriteByte" /\ d = 2 * n + 6 * FoundBefore(n) + 2 * e.count + 1
          /\ e.value = oam_ram[4 * n + e.count]

\* One sprite too many, right after the last one.
OverflowDue == \E i \in Found : i - 1 \in Found /\ FoundBefore(i) = P

\* Nothing of what counts changes any more.
Searched(e, zero, overflow) ==
    /\ e.step = "Completed" \/ IsFull(e)
    /\ Copied(N, e.secondary) /\ Taken(Cardinality(Found), e.secondary)
    /\ 0 \in Found => zero
    /\ OverflowDue => overflow

Searching(e, addr, zero, overflow, d) ==
    \/ Searched(e, zero, overflow)
    \/ \E n \in 0..N - 1 : AtSprite(n, e, addr, zero, d) \/ InSprite(n, e, addr, zero, d)

LEMMA SearchedStep ==
    ASSUME NEW e \in Machines, NEW addr \in 0..OamSize - 1, oam_ram \in Memories,
           NEW zero \in BOOLEAN, NEW overflow \in BOOLEAN, Searched(e, zero, overflow)
    PROVE  LET o == EvalStep(e, addr)
           IN  Searched(o.e, zero \/ o.zero, overflow \/ o.overflow)
  <1> DEFINE o == EvalStep(e, addr)
  <1>1. o.e.secondary = e.secondary /\ (o.e.step = "Completed" \/ IsFull(o.e))
    BY EvalFacts DEF Searched
  <1> HIDE DEF o
  <1>2. Searched(o.e, zero \/ o.zero, overflow \/ o.overflow)
    BY <1>1 DEF Searched
  <1> QED
    BY <1>2 DEF o

\* One byte of secondary OAM is written.
LEMMA WrittenFacts ==
    ASSUME NEW e \in Machines, ~IsFull(e)
    PROVE  /\ e.pointer \in 0..4 * P - 1
           /\ \A x \in 0..4 * P - 1 :
                Stored(e).secondary[x] = IF x = e.pointer THEN e.value ELSE e.secondary[x]
  <1>1. Stored(e).secondary = [e.secondary EXCEPT ![e.pointer] = e.value]
    BY StoredFacts
  <1>2. e.secondary \in [0..4 * P - 1 -> Byte] /\ e.pointer \in 0..4 * P
    BY Sizes DEF Machines
  <1>3. e.pointer \in 0..4 * P - 1
    <2>1. ~(e.pointer >= SecondarySize) /\ SecondarySize = 4 * P /\ P \in Nat
      BY Sizes DEF IsFull
    <2> QED
      BY <1>2, <2>1
  <1> QED
    BY <1>1, <1>2, <1>3

\* A byte of slot c disturbs neither the slots before it nor, but for its Y, who is in range.
LEMMA CopiedKept ==
    ASSUME NEW n \in 0..N - 1, NEW old, NEW new, NEW at,
           FoundBefore(n) < P, at \in 4 * FoundBefore(n) .. 4 * FoundBefore(n) + 3,
           \A x \in 0..4 * P - 1 : x # at => new[x] = old[x],
           Copied(n, old)
    PROVE  Copied(n, new)
  <1>1. n \in 0..N /\ FoundBefore(n) \in Nat
    BY CountTypes, Sizes
  <1>2. ASSUME NEW i \in Found, i < n, FoundBefore(i) < P, NEW b \in 0..3
        PROVE  new[4 * FoundBefore(i) + b] = oam_ram[4 * i + b]
    <2>1. FoundBefore(i) + 1 <= FoundBefore(n)
      BY <1>1, <1>2, CountGrows
    <2>2. FoundBefore(i) \in Nat
      BY <1>1, FoundFacts, CountTypes, Sizes
    <2>3. 4 * FoundBefore(i) + b \in 0..4 * P - 1 /\ 4 * FoundBefore(i) + b # at
      BY <1>1, <1>2, <2>1, <2>2, Sizes
    <2>4. old[4 * FoundBefore(i) + b] = oam_ram[4 * i + b]
      BY <1>2 DEF Copied
    <2> QED
      BY <2>3, <2>4
  <1> QED
    BY <1>2 DEF Copied

LEMMA AtReadY ==
    ASSUME NEW e \in Machines, NEW addr \in 0..OamSize - 1, oam_ram \in Memories,
           NEW zero \in BOOLEAN, NEW d \in Nat, NEW n \in 0..N - 1,
           AtSprite(n, e, addr, zero, d), e.step = "ReadY"
    PROVE  LET o == EvalStep(e, addr)
           IN  AtSprite(n, o.e, o.addr, zero \/ o.zero, d + 1)
  <1> DEFINE o == EvalStep(e, addr)
  <1>1. /\ o.e.step = "WriteY" /\ o.e.value = oam_ram[addr]
        /\ o.e.pointer = e.pointer /\ o.e.secondary = e.secondary /\ o.addr = addr
    <2>1. o = ReadY(e, addr)
      BY EvalCases
    <2> HIDE DEF o
    <2> QED
      BY <2>1, ReadYFacts
  <1>2. addr = 4 * n /\ d = 2 * n + 6 * FoundBefore(n)
    BY DEF AtSprite
  <1>3. d + 1 = 2 * n + 6 * FoundBefore(n) + 1
    BY <1>2
  <1> HIDE DEF o
  <1>4. AtSprite(n, o.e, o.addr, zero \/ o.zero, d + 1)
    BY <1>1, <1>2, <1>3 DEF AtSprite
  <1> QED
    BY <1>4 DEF o

LEMMA InReadByte ==
    ASSUME NEW e \in Machines, NEW addr \in 0..OamSize - 1, oam_ram \in Memories,
           NEW zero \in BOOLEAN, NEW d \in Nat, NEW n \in 0..N - 1,
           InSprite(n, e, addr, zero, d), e.step = "ReadByte"
    PROVE  LET o == EvalStep(e, addr)
           IN  InSprite(n, o.e, o.addr, zero \/ o.zero, d + 1)
  <1> DEFINE o == EvalStep(e, addr)
  <1>1. /\ o.e.step = "WriteByte" /\ o.e.value = oam_ram[addr] /\ o.e.count = e.count
        /\ o.e.pointer = e.pointer /\ o.e.secondary = e.secondary /\ o.addr = addr
    <2>1. o = ReadByte(e, addr)
      BY EvalCases
    <2> HIDE DEF o
    <2> QED
      BY <2>1, ReadByteFacts
  <1>2. addr = 4 * n + e.count /\ d = 2 * n + 6 * FoundBefore(n) + 2 * e.count
    BY DEF InSprite
  <1>3. d + 1 = 2 * n + 6 * FoundBefore(n) + 2 * e.count + 1
    BY <1>2
  <1> HIDE DEF o
  <1>4. InSprite(n, o.e, o.addr, zero \/ o.zero, d + 1)
    BY <1>1, <1>2, <1>3 DEF InSprite
  <1> QED
    BY <1>4 DEF o

\* A full memory, or one sprite more: what the Y that was read decides.
LEMMA AtWriteYFull ==
    ASSUME NEW e \in Machines, NEW addr \in 0..OamSize - 1, oam_ram \in Memories,
           NEW zero \in BOOLEAN, NEW overflow \in BOOLEAN, NEW d \in Nat, NEW n \in 0..N - 1,
           AtSprite(n, e, addr, zero, d), e.step = "WriteY", FoundBefore(n) = P
    PROVE  LET o == EvalStep(e, addr)
           IN  Searched(o.e, zero \/ o.zero, overflow \/ o.overflow)
  <1> DEFINE o == EvalStep(e, addr)
  <1>1. o = WriteY(e, addr)
    BY EvalCases
  <1>2. IsFull(e)
    <2>1. e.pointer = 4 * P
      BY DEF AtSprite
    <2> QED
      BY <2>1, Sizes DEF IsFull
  <1>3. o.e.secondary = e.secondary /\ (o.e.step = "Completed" \/ IsFull(o.e))
    BY <1>2, EvalFacts
  <1>4. InRange(e.value) <=> n \in Found
    BY DEF AtSprite, Found
  <1> HIDE DEF o
  <1>5. n \in Found => o.overflow = TRUE
    BY <1>1, <1>2, <1>4, WriteYFacts
  <1>6. n \in 0..N /\ n - 1 \in Found /\ n - 1 \in 0..N - 1
    BY FoundFacts, Sizes DEF AtSprite
  <1>7. FoundBefore(n) \in Nat /\ P \in Nat /\ N \in Nat
    BY <1>6, CountTypes, Sizes
  <1>8. OverflowDue => n \in Found
    <2>1. SUFFICES ASSUME NEW i \in Found, i - 1 \in Found, FoundBefore(i) = P
                   PROVE  i = n
      BY DEF OverflowDue
    <2>2. i \in 0..N - 1 /\ i - 1 \in 0..N - 1 /\ i \in 0..N
      BY <2>1, FoundFacts, Sizes
    <2>3. ~(n < i)
      <3>1. n < i => n - 1 < i - 1
        BY <2>2
      <3>2. FoundBefore(n - 1) + 1 = P
        <4>1. (n - 1) + 1 = n
          BY <1>6
        <4> QED
          BY <1>6, <4>1, CountFacts
      <3>3. FoundBefore(i - 1) + 1 = P
        <4>1. (i - 1) + 1 = i
          BY <2>2
        <4> QED
          BY <2>1, <2>2, <4>1, CountFacts
      <3>4. n - 1 < i - 1 => FoundBefore(n - 1) + 1 <= FoundBefore(i - 1)
        <4>1. i - 1 \in 0..N
          BY <1>7, <2>2
        <4> QED
          BY <1>6, <4>1, CountGrows
      <3>5. FoundBefore(n - 1) \in Nat /\ FoundBefore(i - 1) \in Nat
        BY <1>6, <2>2, CountTypes, Sizes
      <3> QED
        BY <1>7, <3>1, <3>2, <3>3, <3>4, <3>5
    <2>4. ~(i < n)
      <3>1. i < n => FoundBefore(i) + 1 <= FoundBefore(n)
        BY <1>6, <2>2, CountGrows
      <3> QED
        BY <1>7, <2>1, <3>1
    <2> QED
      BY <1>6, <2>2, <2>3, <2>4
  <1>9. Copied(N, o.e.secondary)
    <2>1. ASSUME NEW i \in Found, FoundBefore(i) < P
          PROVE  i < n
      <3>1. i \in 0..N /\ (n <= i => FoundBefore(n) <= FoundBefore(i))
        BY <1>6, FoundFacts, CountTypes, Sizes
      <3>2. FoundBefore(i) \in Nat
        BY <3>1, CountTypes
      <3> QED
        BY <1>6, <1>7, <2>1, <3>1, <3>2
    <2>2. Copied(n, e.secondary)
      BY DEF AtSprite
    <2> QED
      BY <1>3, <2>1, <2>2 DEF Copied
  <1>10. Taken(Cardinality(Found), o.e.secondary)
    <2>1. Taken(P, e.secondary)
      BY DEF AtSprite
    <2>2. Cardinality(Found) \in Nat /\ P <= Cardinality(Found)
      <3>1. N \in 0..N /\ n <= N
        BY <1>6, <1>7
      <3> QED
        BY <1>6, <3>1, CountTypes, CountFacts
    <2>3. \A k \in 0..P - 1 : k < P /\ k < Cardinality(Found)
      BY <1>7, <2>2
    <2> QED
      BY <1>3, <2>1, <2>3 DEF Taken
  <1>11. 0 \in Found => zero
    BY <1>6, FoundFacts DEF AtSprite
  <1>12. Searched(o.e, zero \/ o.zero, overflow \/ o.overflow)
    BY <1>3, <1>5, <1>8, <1>9, <1>10, <1>11 DEF Searched
  <1> QED
    BY <1>12 DEF o

LEMMA AtWriteYHit ==
    ASSUME NEW e \in Machines, NEW addr \in 0..OamSize - 1, oam_ram \in Memories,
           NEW zero \in BOOLEAN, NEW d \in Nat, NEW n \in 0..N - 1,
           AtSprite(n, e, addr, zero, d), e.step = "WriteY", FoundBefore(n) < P, n \in Found
    PROVE  LET o == EvalStep(e, addr)
           IN  InSprite(n, o.e, o.addr, zero \/ o.zero, d + 1)
  <1> DEFINE o == EvalStep(e, addr)
             c == FoundBefore(n)
  <1>1. o = WriteY(e, addr)
    BY EvalCases
  <1>2. n \in 0..N /\ c \in Nat /\ P \in Nat /\ N \in Nat /\ c < P
    BY CountTypes, Sizes
  <1>3. /\ addr = 4 * n /\ e.pointer = 4 * c /\ d = 2 * n + 6 * c + 1
        /\ e.value = oam_ram[4 * n] /\ Copied(n, e.secondary) /\ Taken(c, e.secondary)
        /\ n > 0 /\ 0 \in Found => zero
    BY DEF AtSprite
  <1>4. ~IsFull(e)
    <2>1. SecondarySize = 4 * P
      BY Sizes
    <2> QED
      BY <1>2, <1>3, <2>1 DEF IsFull
  <1>5. InRange(e.value)
    BY <1>3 DEF Found
  <1>6. addr + 1 < OamSize
    BY <1>2, <1>3, Sizes
  <1> HIDE DEF o
  <1>7. /\ o.e.secondary = Stored(e).secondary /\ o.e.pointer = 4 * c + 1
        /\ o.addr = 4 * n + 1 /\ o.e.step = "ReadByte" /\ o.e.count = 1
    <2>1. o.e.secondary = Stored(e).secondary /\ o.e.pointer = Advanced(e)
      BY <1>1, <1>5, WriteYFacts
    <2>2. Advanced(e) = 4 * c + 1
      BY <1>3, <1>4, StoredFacts
    <2>3. o.addr = addr + 1 /\ o.e.step = "ReadByte" /\ o.e.count = 1
      BY <1>1, <1>5, <1>6, WriteYFacts
    <2> QED
      BY <1>3, <2>1, <2>2, <2>3
  <1>8. o.zero = (addr = 0)
    BY <1>1, <1>5, WriteYFacts
  <1>9. \A x \in 0..4 * P - 1 :
          o.e.secondary[x] = IF x = 4 * c THEN oam_ram[4 * n] ELSE e.secondary[x]
    BY <1>3, <1>4, <1>7, WrittenFacts
  <1>10. Copied(n, o.e.secondary)
    <2>1. 4 * c \in 4 * c .. 4 * c + 3
      BY <1>2
    <2>2. \A x \in 0..4 * P - 1 : x # 4 * c => o.e.secondary[x] = e.secondary[x]
      BY <1>9
    <2> QED
      BY <1>2, <1>3, <2>1, <2>2, CopiedKept
  <1>11. Taken(c + 1, o.e.secondary)
    <2>1. SUFFICES ASSUME NEW k \in 0..P - 1
                   PROVE  InRange(o.e.secondary[4 * k]) <=> k < c + 1
      BY DEF Taken
    <2>2. 4 * k \in 0..4 * P - 1 /\ (4 * k = 4 * c <=> k = c)
      BY <1>2
    <2>3. InRange(e.secondary[4 * k]) <=> k < c
      BY <1>3 DEF Taken
    <2>4. CASE k = c
      <3>1. o.e.secondary[4 * k] = e.value
        BY <1>3, <1>9, <2>2, <2>4
      <3> QED
        BY <1>2, <1>5, <2>4, <3>1
    <2>5. CASE k # c
      <3>1. o.e.secondary[4 * k] = e.secondary[4 * k]
        BY <1>9, <2>2, <2>5
      <3>2. k < c <=> k < c + 1
        BY <1>2, <2>5
      <3> QED
        BY <2>3, <3>1, <3>2
    <2> QED
      BY <2>4, <2>5
  <1>12. \A b \in 0..1 - 1 : o.e.secondary[4 * c + b] = oam_ram[4 * n + b]
    <2>1. o.e.secondary[4 * c + 0] = oam_ram[4 * n + 0]
      BY <1>2, <1>9
    <2> QED
      BY <2>1
  <1>13. 0 \in Found => zero \/ o.zero
    <2>1. CASE n = 0
      <3>1. addr = 0
        BY <1>3, <2>1
      <3>2. o.zero
        BY <1>8, <3>1
      <3> QED
        BY <3>2
    <2>2. CASE n # 0
      BY <1>2, <1>3, <2>2
    <2> QED
      BY <2>1, <2>2
  <1>14. d + 1 = 2 * n + 6 * c + 2 * 1
    BY <1>2, <1>3
  <1>15. InSprite(n, o.e, o.addr, zero \/ o.zero, d + 1)
    BY <1>2, <1>7, <1>10, <1>11, <1>12, <1>13, <1>14 DEF InSprite
  <1> QED
    BY <1>15 DEF o

LEMMA AtWriteYMiss ==
    ASSUME NEW e \in Machines, NEW addr \in 0..OamSize - 1, oam_ram \in Memories,
           NEW zero \in BOOLEAN, NEW overflow \in BOOLEAN, NEW d \in Nat, NEW n \in 0..N - 1,
           AtSprite(n, e, addr, zero, d), e.step = "WriteY", FoundBefore(n) < P, n \notin Found
    PROVE  LET o == EvalStep(e, addr)
           IN  \/ Searched(o.e, zero \/ o.zero, overflow \/ o.overflow)
               \/ n + 1 \in 0..N - 1 /\ AtSprite(n + 1, o.e, o.addr, zero \/ o.zero, d + 1)
  <1> DEFINE o == EvalStep(e, addr)
             c == FoundBefore(n)
  <1>1. o = WriteY(e, addr)
    BY EvalCases
  <1>2. n \in 0..N /\ c \in Nat /\ P \in Nat /\ N \in Nat /\ c < P /\ n + 1 \in 0..N
    BY CountTypes, Sizes
  <1>3. /\ addr = 4 * n /\ e.pointer = 4 * c /\ d = 2 * n + 6 * c + 1
        /\ e.value = oam_ram[4 * n] /\ Copied(n, e.secondary) /\ Taken(c, e.secondary)
        /\ n > 0 /\ 0 \in Found => zero
    BY DEF AtSprite
  <1>4. ~IsFull(e)
    <2>1. SecondarySize = 4 * P
      BY Sizes
    <2> QED
      BY <1>2, <1>3, <2>1 DEF IsFull
  <1>5. ~InRange(e.value)
    BY <1>3 DEF Found
  <1>6. addr + 4 < OamSize <=> n + 1 < N
    BY <1>2, <1>3, Sizes
  <1>7. FoundBefore(n + 1) = c
    BY CountFacts
  <1> HIDE DEF o
  <1>8. o.e.secondary = Stored(e).secondary /\ o.e.pointer = 4 * c
    <2>1. o.e.secondary = Stored(e).secondary
      BY <1>1, WriteYFacts
    <2>2. o.e.pointer = e.pointer
      BY <1>1, <1>5, WriteYFacts
    <2> QED
      BY <1>3, <2>1, <2>2
  <1>9. \A x \in 0..4 * P - 1 :
          o.e.secondary[x] = IF x = 4 * c THEN oam_ram[4 * n] ELSE e.secondary[x]
    BY <1>3, <1>4, <1>8, WrittenFacts
  <1>10. Copied(n + 1, o.e.secondary)
    <2>1. 4 * c \in 4 * c .. 4 * c + 3
      BY <1>2
    <2>2. \A x \in 0..4 * P - 1 : x # 4 * c => o.e.secondary[x] = e.secondary[x]
      BY <1>9
    <2>3. Copied(n, o.e.secondary)
      BY <1>2, <1>3, <2>1, <2>2, CopiedKept
    <2>4. \A i \in Found : i < n + 1 => i < n
      BY <1>2, FoundFacts
    <2> QED
      BY <2>3, <2>4 DEF Copied
  <1>11. Taken(c, o.e.secondary)
    <2>1. SUFFICES ASSUME NEW k \in 0..P - 1
                   PROVE  InRange(o.e.secondary[4 * k]) <=> k < c
      BY DEF Taken
    <2>2. 4 * k \in 0..4 * P - 1 /\ (4 * k = 4 * c <=> k = c)
      BY <1>2
    <2>3. InRange(e.secondary[4 * k]) <=> k < c
      BY <1>3 DEF Taken
    <2>4. CASE k = c
      <3>1. o.e.secondary[4 * k] = e.value
        BY <1>3, <1>9, <2>2, <2>4
      <3> QED
        BY <1>2, <1>5, <2>4, <3>1
    <2>5. CASE k # c
      <3>1. o.e.secondary[4 * k] = e.secondary[4 * k]
        BY <1>9, <2>2, <2>5
      <3> QED
        BY <2>3, <3>1
    <2> QED
      BY <2>4, <2>5
  <1>12. 0 \in Found => zero
    BY <1>2, <1>3
  <1>13. CASE n + 1 < N
    <2>1. o.addr = addr + 4 /\ o.e.step = "ReadY"
      BY <1>1, <1>4, <1>5, <1>6, <1>13, WriteYFacts
    <2>2. d + 1 = 2 * (n + 1) + 6 * c /\ addr + 4 = 4 * (n + 1) /\ n + 1 \in 0..N - 1
      BY <1>2, <1>3, <1>13
    <2>3. c <= P /\ c # P
      BY <1>2
    <2>4. AtSprite(n + 1, o.e, o.addr, zero \/ o.zero, d + 1)
      BY <1>7, <1>8, <1>10, <1>11, <1>12, <2>1, <2>2, <2>3 DEF AtSprite
    <2> QED
      BY <2>2, <2>4 DEF o
  <1>14. CASE ~(n + 1 < N)
    <2>1. o.e.step = "Completed"
      <3>1. addr + 4 >= OamSize
        BY <1>2, <1>3, <1>14, Sizes
      <3> QED
        BY <1>1, <1>4, <1>5, <3>1, WriteYFacts
    <2>2. n + 1 = N
      BY <1>2, <1>14
    <2>3. FoundBefore(N) = c /\ Cardinality(Found) = c
      BY <1>7, <2>2, CountFacts
    <2>4. ~OverflowDue
      <3>1. SUFFICES ASSUME NEW i \in Found
                     PROVE  FoundBefore(i) # P
        BY DEF OverflowDue
      <3>2. i \in 0..N /\ i <= N /\ N \in 0..N
        BY <1>2, FoundFacts
      <3>3. FoundBefore(i) <= FoundBefore(N) /\ FoundBefore(i) \in Nat
        BY <3>2, CountTypes
      <3> QED
        BY <1>2, <2>3, <3>3
    <2>5. Copied(N, o.e.secondary) /\ Taken(Cardinality(Found), o.e.secondary)
      BY <1>10, <1>11, <2>2, <2>3
    <2>6. Searched(o.e, zero \/ o.zero, overflow \/ o.overflow)
      BY <1>12, <2>1, <2>4, <2>5 DEF Searched
    <2> QED
      BY <2>6 DEF o
  <1> QED
    BY <1>13, <1>14

LEMMA InWriteByte ==
    ASSUME NEW e \in Machines, NEW addr \in 0..OamSize - 1, oam_ram \in Memories,
           NEW zero \in BOOLEAN, NEW overflow \in BOOLEAN, NEW d \in Nat, NEW n \in 0..N - 1,
           InSprite(n, e, addr, zero, d), e.step = "WriteByte"
    PROVE  LET o == EvalStep(e, addr)
           IN  \/ Searched(o.e, zero \/ o.zero, overflow \/ o.overflow)
               \/ InSprite(n, o.e, o.addr, zero \/ o.zero, d + 1)
               \/ n + 1 \in 0..N - 1 /\ AtSprite(n + 1, o.e, o.addr, zero \/ o.zero, d + 1)
  <1> DEFINE o == EvalStep(e, addr)
             c == FoundBefore(n)
             b == e.count
             at == 4 * c + b
  <1>1. o = WriteByte(e, addr)
    BY EvalCases
  <1>2. n \in 0..N /\ c \in Nat /\ P \in Nat /\ N \in Nat /\ n + 1 \in 0..N
    BY CountTypes, Sizes
  <1>3. /\ n \in Found /\ c < P /\ b \in 1..3 /\ addr = 4 * n + b /\ e.pointer = at
        /\ Copied(n, e.secondary) /\ Taken(c + 1, e.secondary)
        /\ \A x \in 0..b - 1 : e.secondary[4 * c + x] = oam_ram[4 * n + x]
        /\ 0 \in Found => zero
        /\ d = 2 * n + 6 * c + 2 * b + 1 /\ e.value = oam_ram[4 * n + b]
    BY DEF InSprite
  <1>4. ~IsFull(e)
    <2>1. SecondarySize = 4 * P
      BY Sizes
    <2> QED
      BY <1>2, <1>3, <2>1 DEF IsFull
  <1>5. FoundBefore(n + 1) = c + 1
    BY <1>3, CountFacts
  <1> HIDE DEF o, b
  <1>6. o.e.secondary = Stored(e).secondary /\ o.e.pointer = at + 1
    BY <1>1, <1>3, <1>4, WriteByteFacts, StoredFacts
  <1>7. \A x \in 0..4 * P - 1 :
          o.e.secondary[x] = IF x = at THEN oam_ram[4 * n + b] ELSE e.secondary[x]
    BY <1>3, <1>4, <1>6, WrittenFacts
  <1>8. Copied(n, o.e.secondary)
    <2>1. at \in 4 * c .. 4 * c + 3
      BY <1>2, <1>3
    <2>2. \A x \in 0..4 * P - 1 : x # at => o.e.secondary[x] = e.secondary[x]
      BY <1>7
    <2>3. c < P /\ Copied(n, e.secondary)
      BY <1>3
    <2> DEFINE old == e.secondary
               new == o.e.secondary
    <2>4. \A x \in 0..4 * P - 1 : x # at => new[x] = old[x]
      BY <2>2
    <2> HIDE DEF at, old, new
    <2>5. Copied(n, new)
      BY <2>1, <2>3, <2>4, CopiedKept DEF old
    <2> QED
      BY <2>5 DEF new
  <1>9. Taken(c + 1, o.e.secondary)
    <2>1. \A k \in 0..P - 1 : 4 * k \in 0..4 * P - 1 /\ 4 * k # at
      BY <1>2, <1>3
    <2>2. \A k \in 0..P - 1 : o.e.secondary[4 * k] = e.secondary[4 * k]
      BY <1>7, <2>1
    <2> QED
      BY <1>3, <2>2 DEF Taken
  <1>10. \A x \in 0..b : o.e.secondary[4 * c + x] = oam_ram[4 * n + x]
    <2>1. SUFFICES ASSUME NEW x \in 0..b
                   PROVE  o.e.secondary[4 * c + x] = oam_ram[4 * n + x]
      OBVIOUS
    <2>2. 4 * c + x \in 0..4 * P - 1 /\ (4 * c + x = at <=> x = b)
      BY <1>2, <1>3
    <2>3. x # b => x \in 0..b - 1
      BY <1>3
    <2> QED
      BY <1>3, <1>7, <2>2, <2>3
  <1>11. CASE b < 3
    <2>1. addr < OamSize - 1
      BY <1>2, <1>3, <1>11, Sizes
    <2>2. o.addr = addr + 1 /\ o.e.step = "ReadByte" /\ o.e.count = b + 1
      BY <1>1, <1>11, <2>1, WriteByteFacts DEF b
    <2>3. b + 1 \in 1..3 /\ 0..(b + 1) - 1 = 0..b
          /\ d + 1 = 2 * n + 6 * c + 2 * (b + 1)
          /\ addr + 1 = 4 * n + (b + 1) /\ at + 1 = 4 * c + (b + 1)
      BY <1>2, <1>3, <1>11
    <2>4. InSprite(n, o.e, o.addr, zero \/ o.zero, d + 1)
      BY <1>3, <1>6, <1>8, <1>9, <1>10, <2>2, <2>3 DEF InSprite
    <2> QED
      BY <2>4 DEF o
  <1>12. CASE b = 3
    <2>1. Copied(n + 1, o.e.secondary)
      <3>1. SUFFICES ASSUME NEW i \in Found, i < n + 1, FoundBefore(i) < P, NEW x \in 0..3
                     PROVE  o.e.secondary[4 * FoundBefore(i) + x] = oam_ram[4 * i + x]
        BY DEF Copied
      <3>2. i < n \/ i = n
        BY <1>2, <3>1, FoundFacts
      <3>3. CASE i < n
        BY <1>8, <3>1, <3>3 DEF Copied
      <3>4. CASE i = n
        BY <1>10, <1>12, <3>4
      <3> QED
        BY <3>2, <3>3, <3>4
    <2>2. CASE n + 1 < N
      <3>1. addr < OamSize - 1
        BY <1>2, <1>3, <1>12, <2>2, Sizes
      <3>2. o.addr = addr + 1 /\ o.e.step = "ReadY"
        BY <1>1, <1>12, <3>1, WriteByteFacts DEF b
      <3>3. d + 1 = 2 * (n + 1) + 6 * (c + 1) /\ addr + 1 = 4 * (n + 1)
            /\ at + 1 = 4 * (c + 1) /\ c + 1 <= P /\ n + 1 \in 0..N - 1 /\ (n + 1) - 1 = n
        BY <1>2, <1>3, <1>12, <2>2
      <3>4. AtSprite(n + 1, o.e, o.addr, zero \/ o.zero, d + 1)
        BY <1>3, <1>5, <1>6, <1>9, <2>1, <3>2, <3>3 DEF AtSprite
      <3> QED
        BY <3>3, <3>4 DEF o
    <2>3. CASE ~(n + 1 < N)
      <3>1. n + 1 = N
        BY <1>2, <2>3
      <3>2. o.e.step = "Completed"
        <4>1. addr = OamSize - 1
          BY <1>2, <1>3, <1>12, <3>1, Sizes
        <4> QED
          BY <1>1, <4>1, WriteByteFacts
      <3>3. FoundBefore(N) = c + 1 /\ Cardinality(Found) = c + 1
        BY <1>5, <3>1, CountFacts
      <3>4. ~OverflowDue
        <4>1. SUFFICES ASSUME NEW i \in Found
                       PROVE  FoundBefore(i) # P
          BY DEF OverflowDue
        <4>2. i \in 0..N /\ i < N /\ N \in 0..N
          BY <1>2, FoundFacts
        <4>3. FoundBefore(i) + 1 <= FoundBefore(N) /\ FoundBefore(i) \in Nat
          BY <4>2, CountGrows, CountTypes
        <4> QED
          BY <1>2, <1>3, <3>3, <4>3
      <3>5. Copied(N, o.e.secondary) /\ Taken(Cardinality(Found), o.e.secondary)
        BY <1>9, <2>1, <3>1, <3>3
      <3>6. Searched(o.e, zero \/ o.zero, overflow \/ o.overflow)
        BY <1>3, <3>2, <3>4, <3>5 DEF Searched
      <3> QED
        BY <3>6 DEF o
    <2> QED
      BY <2>2, <2>3
  <1> QED
    BY <1>2, <1>3, <1>11, <1>12

\* A dot of the search.
LEMMA SearchStep ==
    ASSUME NEW e \in Machines, NEW addr \in 0..OamSize - 1, oam_ram \in Memories,
           NEW zero \in BOOLEAN, NEW overflow \in BOOLEAN, NEW d \in Nat,
           Searching(e, addr, zero, overflow, d)
    PROVE  LET o == EvalStep(e, addr)
           IN  Searching(o.e, o.addr, zero \/ o.zero, overflow \/ o.overflow, d + 1)
  <1> DEFINE o == EvalStep(e, addr)
             z == zero \/ o.zero
             v == overflow \/ o.overflow
  <1>1. CASE Searched(e, zero, overflow)
    <2>1. Searched(o.e, z, v)
      BY <1>1, SearchedStep
    <2> HIDE DEF o, z, v
    <2>2. Searching(o.e, o.addr, z, v, d + 1)
      BY <2>1 DEF Searching
    <2> QED
      BY <2>2 DEF o, z, v
  <1>2. ASSUME NEW n \in 0..N - 1, AtSprite(n, e, addr, zero, d)
        PROVE  Searching(o.e, o.addr, z, v, d + 1)
    <2>1. FoundBefore(n) \in Nat /\ P \in Nat /\ FoundBefore(n) <= P
      <3>1. n \in 0..N
        BY <1>2, Sizes
      <3> QED
        BY <1>2, <3>1, CountTypes, Sizes DEF AtSprite
    <2>2. CASE e.step = "ReadY"
      <3>1. AtSprite(n, o.e, o.addr, z, d + 1)
        BY <1>2, <2>2, AtReadY
      <3> HIDE DEF o, z, v
      <3> QED
        BY <1>2, <3>1 DEF Searching
    <2>3. CASE e.step = "WriteY" /\ FoundBefore(n) = P
      <3>1. Searched(o.e, z, v)
        BY <1>2, <2>3, AtWriteYFull
      <3> HIDE DEF o, z, v
      <3> QED
        BY <3>1 DEF Searching
    <2>4. CASE e.step = "WriteY" /\ FoundBefore(n) < P /\ n \in Found
      <3>1. InSprite(n, o.e, o.addr, z, d + 1)
        BY <1>2, <2>4, AtWriteYHit
      <3> HIDE DEF o, z, v
      <3> QED
        BY <1>2, <3>1 DEF Searching
    <2>5. CASE e.step = "WriteY" /\ FoundBefore(n) < P /\ n \notin Found
      <3>1. Searched(o.e, z, v) \/ (n + 1 \in 0..N - 1 /\ AtSprite(n + 1, o.e, o.addr, z, d + 1))
        BY <1>2, <2>5, AtWriteYMiss
      <3> HIDE DEF o, z, v
      <3> QED
        BY <3>1 DEF Searching
    <2>6. e.step = "ReadY" \/ e.step = "WriteY"
      BY <1>2 DEF AtSprite
    <2> QED
      BY <2>1, <2>2, <2>3, <2>4, <2>5, <2>6
  <1>3. ASSUME NEW n \in 0..N - 1, InSprite(n, e, addr, zero, d)
        PROVE  Searching(o.e, o.addr, z, v, d + 1)
    <2>1. CASE e.step = "ReadByte"
      <3>1. InSprite(n, o.e, o.addr, z, d + 1)
        BY <1>3, <2>1, InReadByte
      <3> HIDE DEF o, z, v
      <3> QED
        BY <1>3, <3>1 DEF Searching
    <2>2. CASE e.step = "WriteByte"
      <3>1. \/ Searched(o.e, z, v) \/ InSprite(n, o.e, o.addr, z, d + 1)
            \/ n + 1 \in 0..N - 1 /\ AtSprite(n + 1, o.e, o.addr, z, d + 1)
        BY <1>3, <2>2, InWriteByte
      <3> HIDE DEF o, z, v
      <3> QED
        BY <1>3, <3>1 DEF Searching
    <2>3. e.step = "ReadByte" \/ e.step = "WriteByte"
      BY <1>3 DEF InSprite
    <2> QED
      BY <2>1, <2>2, <2>3
  <1> QED
    BY <1>1, <1>2, <1>3 DEF Searching

\* Its first dot, with secondary OAM cleared.
LEMMA SearchStart ==
    ASSUME NEW e \in Machines, oam_ram \in Memories, scanline \in Nat, scanline <= LastVisible,
           NEW zero \in BOOLEAN, NEW overflow \in BOOLEAN,
           e.step = "ReadY", e.pointer = 0,
           \A a \in 0..SecondarySize - 1 : e.secondary[a] = Empty
    PROVE  LET o == EvalStep(e, 0)
           IN  Searching(o.e, o.addr, zero \/ o.zero, overflow \/ o.overflow, 1)
  <1>1. 0 \in 0..OamSize - 1 /\ 0 \in 0..N - 1 /\ P \in Nat \ {0} /\ N \in Nat
    BY Sizes
  <1>2. FoundBefore(0) = 0
    BY CountFacts
  <1>3. Copied(0, e.secondary)
    BY FoundFacts DEF Copied
  <1>4. Taken(0, e.secondary)
    <2>1. ~InRange(Empty)
      BY Sizes DEF InRange
    <2>2. \A k \in 0..P - 1 : 4 * k \in 0..SecondarySize - 1 /\ ~(k < 0)
      BY Sizes
    <2> QED
      BY <2>1, <2>2 DEF Taken
  <1>5. AtSprite(0, e, 0, zero, 0)
    <2>1. FoundBefore(0) <= P /\ FoundBefore(0) # P /\ 0 = 4 * 0 /\ e.pointer = 4 * FoundBefore(0)
          /\ 0 = 2 * 0 + 6 * FoundBefore(0)
      BY <1>1, <1>2
    <2> QED
      BY <1>2, <1>3, <1>4, <2>1 DEF AtSprite
  <1>6. Searching(e, 0, zero, overflow, 0)
    BY <1>1, <1>5 DEF Searching
  <1>7. 0 \in Nat /\ 0 + 1 = 1
    OBVIOUS
  <1> QED
    BY <1>1, <1>6, <1>7, SearchStep

\* There are dots enough: when they are over, nothing is left to find.
LEMMA SearchEnds ==
    ASSUME NEW e, NEW addr, NEW zero, NEW overflow, Searching(e, addr, zero, overflow, EvalDots)
    PROVE  Searched(e, zero, overflow)
  <1>1. SUFFICES ASSUME NEW n \in 0..N - 1,
                        AtSprite(n, e, addr, zero, EvalDots) \/ InSprite(n, e, addr, zero, EvalDots)
                 PROVE  FALSE
    BY DEF Searching
  <1>2. FoundBefore(n) \in Nat
    <2>1. n \in 0..N
      BY Sizes
    <2> QED
      BY <2>1, CountTypes
  <1>3. EvalDots >= 2 * N + 6 * P /\ EvalDots \in Nat /\ N \in Nat /\ P \in Nat
    BY Sizes
  <1>4. CASE AtSprite(n, e, addr, zero, EvalDots)
    <2>1. FoundBefore(n) <= P /\ EvalDots <= 2 * n + 6 * FoundBefore(n) + 1
      BY <1>2, <1>4 DEF AtSprite
    <2> QED
      BY <1>2, <1>3, <2>1
  <1>5. CASE InSprite(n, e, addr, zero, EvalDots)
    <2>1. FoundBefore(n) < P /\ EvalDots <= 2 * n + 6 * FoundBefore(n) + 7
      BY <1>2, <1>5 DEF InSprite
    <2> QED
      BY <1>2, <1>3, <2>1
  <1> QED
    BY <1>1, <1>4, <1>5

-----------------------------------------------------------------------------
(* The fetches: s dots into them, the machine at step, having read y *)

FetchLine(s, step, y, units, secondary) ==
    /\ step = IF s <= 8 * (P - 1) + 5 THEN s ELSE 8 * P
    /\ step < 8 * P /\ step % 8 # 0 => y = secondary[4 * (step \div 8)]
    /\ \A i \in 0..P - 1 :
         /\ s >= 8 * i + 5 => (units[i].visible <=> InRange(secondary[4 * i]))
         /\ s >= 8 * i + 6 => units[i].low
         /\ s >= 8 * i + 8 /\ i < P - 1 => units[i].high

LEMMA FetchStep ==
    ASSUME Types, Fetch, NEW s \in 0..8 * P - 1,
           FetchLine(s, FetchFrom, fetch.y, sprites, eval.secondary)
    PROVE  FetchLine(s + 1, fetch'.step, fetch'.y, sprites', eval.secondary)
  <1> DEFINE f == FetchFrom
             old == eval.secondary
  <1>1. P \in Nat \ {0} /\ f \in 0..8 * P /\ f = IF s <= 8 * (P - 1) + 5 THEN s ELSE 8 * P
    BY FetchFacts, Sizes DEF FetchLine
  <1>2. \A i \in 0..P - 1 :
          /\ s >= 8 * i + 5 => (sprites[i].visible <=> InRange(old[4 * i]))
          /\ s >= 8 * i + 6 => sprites[i].low
          /\ s >= 8 * i + 8 /\ i < P - 1 => sprites[i].high
    BY DEF FetchLine
  <1>3. CASE f = 8 * P
    <2>1. fetch' = fetch /\ sprites' = sprites
      BY <1>3, FetchFacts
    <2>2. s > 8 * (P - 1) + 5
      BY <1>1, <1>3
    <2>3. fetch.step = 8 * P
      BY <1>1, <1>3, Sizes DEF FetchFrom
    <2>4. \A i \in 0..P - 1 : /\ s + 1 >= 8 * i + 5 => s >= 8 * i + 5
                              /\ s + 1 >= 8 * i + 6 => s >= 8 * i + 6
                              /\ s + 1 >= 8 * i + 8 /\ i < P - 1 => s >= 8 * i + 8
      BY <1>1, <2>2
    <2>5. ~(s + 1 <= 8 * (P - 1) + 5) /\ ~(8 * P < 8 * P)
      BY <1>1, <2>2
    <2> QED
      BY <1>2, <2>1, <2>3, <2>4, <2>5 DEF FetchLine
  <1>4. CASE f # 8 * P
    <2> DEFINE unit == f \div 8
               in == f % 8
               new == FetchedUnit(sprites[unit], in, fetch.y)
    <2>1. s = f /\ s <= 8 * (P - 1) + 5 /\ f < 8 * P
      BY <1>1, <1>4
    <2>2. /\ fetch'.step = NextFetchStep(f)
          /\ fetch'.y = IF in = 0 THEN old[4 * unit]
                        ELSE IF NextFetchStep(f) % 8 # 0 THEN fetch.y ELSE 0
          /\ sprites' = [sprites EXCEPT ![unit] = new]
      BY <2>1, FetchFacts DEF Unit, InUnit
    <2>3. unit \in 0..P - 1 /\ in \in 0..7 /\ f = 8 * unit + in
      BY <1>1, <2>1, UnitSteps
    <2>4. NextFetchStep(f) = IF s + 1 <= 8 * (P - 1) + 5 THEN s + 1 ELSE 8 * P
      BY <1>1, <2>1 DEF NextFetchStep
    <2>5. in # 0 => fetch.y = old[4 * unit]
      BY <2>1 DEF FetchLine
    <2>6. /\ in \in {4, 6} => (new.visible <=> InRange(fetch.y))
          /\ in \notin {4, 6} => new.visible = sprites[unit].visible
          /\ in = 5 => new.low = TRUE
          /\ in # 5 => new.low = sprites[unit].low
          /\ in = 7 => new.high = TRUE
          /\ in # 7 => new.high = sprites[unit].high
      <3>1. sprites[unit] \in Units
        BY <2>3 DEF Types
      <3> DEFINE w == sprites[unit]
                 y == fetch.y
      <3>2. w \in Units /\ in \in 0..7 /\ new = FetchedUnit(w, in, y)
        BY <2>3, <3>1
      <3> HIDE DEF w, y, in, new
      <3>3. in \in {4, 6} => (new.visible <=> InRange(y))
        BY <3>2, UnitFacts
      <3>4. in \notin {4, 6} => new.visible = w.visible
        BY <3>2, UnitFacts
      <3>5. in = 5 => new.low = TRUE
        BY <3>2, UnitFacts
      <3>6. in # 5 => new.low = w.low
        BY <3>2, UnitFacts
      <3>7. in = 7 => new.high = TRUE
        BY <3>2, UnitFacts
      <3>8. in # 7 => new.high = w.high
        BY <3>2, UnitFacts
      <3> QED
        BY <3>3, <3>4, <3>5, <3>6, <3>7, <3>8 DEF w, y
    <2>7. sprites \in [0..P - 1 -> Units]
      BY DEF Types
    <2>8. ASSUME NextFetchStep(f) < 8 * P, NextFetchStep(f) % 8 # 0
          PROVE  fetch'.y = old[4 * (NextFetchStep(f) \div 8)]
      <3>1. NextFetchStep(f) = 8 * unit + (in + 1)
        BY <1>1, <2>1, <2>3, <2>4, <2>8
      <3>2. in + 1 \in 0..7
        <4>1. in = 7 => 8 * unit + (in + 1) = 8 * (unit + 1)
          BY <2>3
        <4>2. in # 7
          BY <2>3, <2>8, <3>1, <4>1
        <4> QED
          BY <2>3, <4>2
      <3>3. NextFetchStep(f) \div 8 = unit
        BY <2>3, <3>1, <3>2
      <3> QED
        BY <2>2, <2>5, <2>8, <3>3
    <2> HIDE DEF unit, in, new, f
    <2>9. ASSUME NEW i \in 0..P - 1
          PROVE  /\ s + 1 >= 8 * i + 5 => (sprites'[i].visible <=> InRange(old[4 * i]))
                 /\ s + 1 >= 8 * i + 6 => sprites'[i].low
                 /\ s + 1 >= 8 * i + 8 /\ i < P - 1 => sprites'[i].high
      <3>1. CASE i # unit
        <4>1. sprites'[i] = sprites[i]
          BY <2>2, <2>7, <3>1
        <4>2. /\ s + 1 >= 8 * i + 5 => s >= 8 * i + 5
              /\ s + 1 >= 8 * i + 6 => s >= 8 * i + 6
              /\ s + 1 >= 8 * i + 8 => s >= 8 * i + 8 \/ i = unit
          BY <2>1, <2>3, <3>1
        <4> QED
          BY <1>2, <3>1, <4>1, <4>2
      <3>2. CASE i = unit
        <4>1. sprites'[i] = new
          BY <2>2, <2>3, <2>7, <3>2
        <4>2. s + 1 >= 8 * i + 5 => (new.visible <=> InRange(old[4 * i]))
          <5>1. CASE in \in {4, 6}
            BY <2>5, <2>6, <3>2, <5>1
          <5>2. CASE in \notin {4, 6}
            <6>1. s + 1 >= 8 * i + 5 => s >= 8 * i + 5
              BY <2>1, <2>3, <3>2, <5>2
            <6>2. new.visible = sprites[i].visible
              BY <2>6, <3>2, <5>2
            <6> QED
              BY <1>2, <6>1, <6>2
          <5> QED
            BY <5>1, <5>2
        <4>3. s + 1 >= 8 * i + 6 => new.low
          <5>1. CASE in = 5
            BY <2>6, <5>1
          <5>2. CASE in # 5
            <6>1. s + 1 >= 8 * i + 6 => s >= 8 * i + 6
              BY <2>1, <2>3, <3>2, <5>2
            <6>2. new.low = sprites[i].low
              BY <2>6, <3>2, <5>2
            <6> QED
              BY <1>2, <6>1, <6>2
          <5> QED
            BY <5>1, <5>2
        <4>4. s + 1 >= 8 * i + 8 /\ i < P - 1 => new.high
          <5>1. CASE in = 7
            BY <2>6, <5>1
          <5>2. CASE in # 7
            <6>1. ~(s + 1 >= 8 * i + 8)
              BY <2>1, <2>3, <3>2, <5>2
            <6> QED
              BY <6>1
          <5> QED
            BY <5>1, <5>2
        <4> QED
          BY <4>1, <4>2, <4>3, <4>4
      <3> QED
        BY <3>1, <3>2
    <2> QED
      BY <2>2, <2>4, <2>8, <2>9 DEF FetchLine
  <1> QED
    BY <1>3, <1>4

-----------------------------------------------------------------------------
(* The inductive invariant *)

\* A line that is not disturbed is rendered.
RenderedInv == undisturbed /\ dot > 0 => Rendered

\* Two dots clear one byte of secondary OAM.
ClearedInv ==
    undisturbed /\ dot \in 1..ClearEnd + 1 =>
        \A a \in 0..SecondarySize - 1 : 2 * a + 2 <= dot => eval.secondary[a] = Empty

EvalInv ==
    undisturbed /\ scanline <= LastVisible /\ dot \in ClearEnd + 2..EvalEnd + 1 =>
        Searching(eval, oam_addr, flags.sprite_zero_visible, flags.sprite_overflow,
                  dot - (ClearEnd + 1))

\* Nothing touches secondary OAM while the fetches read it.
HeldInv ==
    undisturbed /\ scanline <= LastVisible /\ dot \in EvalEnd + 1..FetchEnd + 1 =>
        Taken(Cardinality(Found), eval.secondary)

FetchInv ==
    undisturbed /\ scanline <= LastVisible /\ dot \in EvalEnd + 2..FetchEnd + 1 =>
        FetchLine(dot - (EvalEnd + 1), fetch.step, fetch.y, sprites, eval.secondary)

IInv == TypeOK /\ RenderedInv /\ ClearedInv /\ EvalInv /\ HeldInv /\ FetchInv

\* A dot within a line leaves the sprites of the line as they are.
LEMMA Unmoved ==
    ASSUME oam_ram' = oam_ram, scanline' = scanline, sprite_height' = sprite_height
    PROVE  /\ Found' = Found /\ Cardinality(Found)' = Cardinality(Found)
           /\ \A n : FoundBefore(n)' = FoundBefore(n)
           /\ \A y : InRange(y)' <=> InRange(y)
  <1>1. \A y : InRange(y)' <=> InRange(y)
    BY DEF InRange
  <1>2. Found' = Found
    BY DEF Found, InRange
  <1>3. \A n : FoundBefore(n)' = FoundBefore(n)
    BY <1>2 DEF FoundBefore
  <1> QED
    BY <1>1, <1>2, <1>3

LEMMA TakenUnmoved ==
    ASSUME oam_ram' = oam_ram, scanline' = scanline, sprite_height' = sprite_height,
           Taken(Cardinality(Found), eval'.secondary)
    PROVE  Taken(Cardinality(Found), eval.secondary)'
  BY Unmoved DEF Taken

LEMMA SearchUnmoved ==
    ASSUME oam_ram' = oam_ram, scanline' = scanline, sprite_height' = sprite_height,
           Searching(eval', oam_addr', flags'.sprite_zero_visible, flags'.sprite_overflow,
                     dot' - (ClearEnd + 1))
    PROVE  Searching(eval, oam_addr, flags.sprite_zero_visible, flags.sprite_overflow,
                     dot - (ClearEnd + 1))'
  BY Unmoved DEF Searching, Searched, AtSprite, InSprite, Copied, Taken, OverflowDue, IsFull

LEMMA FetchUnmoved ==
    ASSUME oam_ram' = oam_ram, scanline' = scanline, sprite_height' = sprite_height,
           FetchLine(dot' - (EvalEnd + 1), fetch'.step, fetch'.y, sprites', eval'.secondary)
    PROVE  FetchLine(dot - (EvalEnd + 1), fetch.step, fetch.y, sprites, eval.secondary)'
  BY Unmoved DEF FetchLine

LEMMA DotFacts ==
    ASSUME TypeOK, Dot
    PROVE  /\ dot \in Nat /\ dot <= LastDot
           /\ dot < LastDot => dot' = dot + 1 /\ scanline' = scanline
           /\ dot = LastDot => dot' = 0
           /\ rendering' = rendering /\ sprite_height' = sprite_height /\ oam_ram' = oam_ram
           /\ undisturbed' /\ dot = 0 => Rendered
           /\ undisturbed' /\ dot > 0 => undisturbed
           /\ undisturbed' /\ dot = ClearEnd + 1 => oam_addr = 0
  <1>1. dot \in Nat /\ dot <= LastDot /\ ClearEnd + 1 # 0
    BY Sizes DEF TypeOK
  <1>2. /\ dot < LastDot => dot' = dot + 1 /\ scanline' = scanline
        /\ dot = LastDot => dot' = 0
    BY <1>1, Sizes DEF Dot
  <1>3. oam_ram' = oam_ram
    BY Cycles DEF Dot, ClearSprites, Clear, Evaluate, Fetch, AgeSprites, oamVars
  <1>4. /\ undisturbed' /\ dot = 0 => Rendered
        /\ undisturbed' /\ dot > 0 => undisturbed
        /\ undisturbed' /\ dot = ClearEnd + 1 => oam_addr = 0
    <2>1. undisturbed' = CASE dot = 0 -> Rendered
                           [] dot = ClearEnd + 1 -> undisturbed /\ oam_addr = 0
                           [] OTHER -> undisturbed
      BY DEF Dot
    <2>2. CASE dot = 0
      BY <1>1, <2>1, <2>2
    <2>3. CASE dot = ClearEnd + 1
      BY <1>1, <2>1, <2>3
    <2>4. CASE dot # 0 /\ dot # ClearEnd + 1
      BY <1>1, <2>1, <2>4
    <2> QED
      BY <2>2, <2>3, <2>4
  <1> QED
    BY <1>1, <1>2, <1>3, <1>4 DEF Dot

LEMMA RenderedStep ==
    ASSUME IInv, Dot
    PROVE  RenderedInv'
  <1>1. SUFFICES ASSUME undisturbed', dot' > 0
                 PROVE  Rendered'
    BY DEF RenderedInv
  <1>2. dot \in Nat /\ dot < LastDot /\ rendering' = rendering /\ scanline' = scanline
    BY <1>1, DotFacts, Sizes DEF IInv
  <1>3. Rendered
    BY <1>1, <1>2, DotFacts DEF IInv, RenderedInv
  <1> QED
    BY <1>2, <1>3 DEF Rendered

LEMMA ClearedStep ==
    ASSUME IInv, Dot
    PROVE  ClearedInv'
  <1>1. SUFFICES ASSUME undisturbed', dot' \in 1..ClearEnd + 1,
                        NEW a \in 0..SecondarySize - 1, 2 * a + 2 <= dot'
                 PROVE  eval'.secondary[a] = Empty
    BY DEF ClearedInv
  <1>2. dot \in Nat /\ dot' = dot + 1 /\ dot <= ClearEnd
    BY <1>1, DotFacts, Sizes DEF IInv
  <1>3. a \in Nat /\ dot > 0 /\ dot \in 1..ClearEnd
    BY <1>1, <1>2, Sizes
  <1>4. undisturbed /\ Rendered /\ Types
    BY <1>1, <1>3, DotFacts, TypeParts DEF IInv, RenderedInv
  <1>5. Clear
    BY <1>3, <1>4, Cycles DEF IInv, Dot
  <1> DEFINE b == (dot - 1) \div 2
  <1>6. /\ eval' = [eval EXCEPT !.secondary = [eval.secondary EXCEPT ![b] = Empty]]
        /\ b \in 0..SecondarySize - 1
    BY <1>3, <1>4, <1>5, ClearType
  <1>7. a = b \/ 2 * a + 2 <= dot
    BY <1>1, <1>2, <1>3
  <1>8. eval.secondary \in [0..SecondarySize - 1 -> Byte] /\ eval \in Machines
    BY <1>4 DEF Types, Machines
  <1>9. a # b => eval.secondary[a] = Empty
    <2>1. dot \in 1..ClearEnd + 1
      BY <1>3, Sizes
    <2> QED
      BY <1>4, <1>7, <2>1 DEF IInv, ClearedInv
  <1> HIDE DEF b
  <1>10. eval'.secondary = [eval.secondary EXCEPT ![b] = Empty]
    BY <1>6, <1>8 DEF Machines
  <1> QED
    BY <1>6, <1>8, <1>9, <1>10

LEMMA EvalDotStep ==
    ASSUME IInv, Dot, undisturbed', scanline <= LastVisible, dot \in ClearEnd + 1..EvalEnd
    PROVE  Searching(eval', oam_addr', flags'.sprite_zero_visible, flags'.sprite_overflow,
                     dot' - (ClearEnd + 1))
  <1>1. dot \in Nat /\ dot > 0 /\ dot' = dot + 1 /\ scanline \in Nat /\ scanline # PreRender
    BY DotFacts, Sizes DEF IInv, TypeOK
  <1>2. undisturbed /\ Rendered /\ Types
    BY <1>1, DotFacts, TypeParts DEF IInv, RenderedInv
  <1>3. Evaluate
    BY <1>1, <1>2, Cycles DEF IInv, Dot
  <1> DEFINE o == EvalStep(Resumed, oam_addr)
             zero == flags.sprite_zero_visible
             overflow == flags.sprite_overflow
             d == dot - (ClearEnd + 1)
  <1>4. /\ eval' = o.e /\ oam_addr' = o.addr
        /\ flags'.sprite_zero_visible = (zero \/ o.zero)
        /\ flags'.sprite_overflow = (overflow \/ o.overflow)
    BY <1>2, <1>3, EvaluateType
  <1>5. d \in Nat /\ dot' - (ClearEnd + 1) = d + 1
    BY <1>1, Sizes
  <1>6. /\ zero \in BOOLEAN /\ overflow \in BOOLEAN /\ oam_ram \in Memories
        /\ oam_addr \in 0..OamSize - 1 /\ Resumed \in Machines
    BY <1>2, ResumedFacts DEF Types
  <1>7. Searching(o.e, o.addr, zero \/ o.zero, overflow \/ o.overflow, d + 1)
    <2>1. CASE dot = ClearEnd + 1
      <3>1. oam_addr = 0 /\ d + 1 = 1
        BY <1>1, <2>1, DotFacts, Sizes DEF IInv
      <3>2. \A a \in 0..SecondarySize - 1 : Resumed.secondary[a] = Empty
        <4>1. \A a \in 0..SecondarySize - 1 : 2 * a + 2 <= dot
          BY <2>1, Sizes
        <4>2. dot \in 1..ClearEnd + 1
          BY <2>1, Sizes
        <4> QED
          BY <1>2, <4>1, <4>2, ResumedFacts DEF IInv, ClearedInv
      <3>3. Resumed.step = "ReadY" /\ Resumed.pointer = 0
        BY <1>2, <2>1, ResumedFacts
      <3> HIDE DEF d, zero, overflow
      <3>4. Searching(o.e, o.addr, zero \/ o.zero, overflow \/ o.overflow, 1)
        BY <1>1, <1>6, <3>1, <3>2, <3>3, SearchStart
      <3> QED
        BY <3>1, <3>4
    <2>2. CASE dot # ClearEnd + 1
      <3>1. Resumed = eval /\ dot \in ClearEnd + 2..EvalEnd + 1
        BY <1>2, <2>2, ResumedFacts, Sizes
      <3>2. Searching(Resumed, oam_addr, zero, overflow, d)
        BY <1>2, <3>1 DEF IInv, EvalInv
      <3> HIDE DEF d, zero, overflow
      <3> QED
        BY <1>5, <1>6, <3>2, SearchStep
    <2> QED
      BY <2>1, <2>2
  <1> HIDE DEF o, d, zero, overflow
  <1> QED
    BY <1>4, <1>5, <1>7

LEMMA EvalInvStep ==
    ASSUME IInv, Dot
    PROVE  EvalInv'
  <1>1. SUFFICES ASSUME undisturbed', scanline' <= LastVisible,
                        dot' \in ClearEnd + 2..EvalEnd + 1
                 PROVE  Searching(eval, oam_addr, flags.sprite_zero_visible,
                                  flags.sprite_overflow, dot - (ClearEnd + 1))'
    BY DEF EvalInv
  <1>2. dot \in ClearEnd + 1..EvalEnd /\ scanline' = scanline /\ oam_ram' = oam_ram
        /\ sprite_height' = sprite_height
    BY <1>1, DotFacts, Sizes DEF IInv
  <1>3. scanline <= LastVisible
    BY <1>1, <1>2
  <1> QED
    BY <1>1, <1>2, <1>3, EvalDotStep, SearchUnmoved

LEMMA FetchDot ==
    ASSUME IInv, Dot, undisturbed', scanline <= LastVisible, dot \in EvalEnd + 1..FetchEnd
    PROVE  undisturbed /\ Fetch /\ Types /\ eval' = eval
  <1>1. dot \in Nat /\ dot > 0
    BY DotFacts, Sizes DEF IInv
  <1>2. undisturbed /\ Rendered /\ Types
    BY <1>1, DotFacts, TypeParts DEF IInv, RenderedInv
  <1>3. Fetch
    BY <1>1, <1>2, Cycles DEF IInv, Dot
  <1> QED
    BY <1>2, <1>3, FetchFacts

LEMMA HeldStep ==
    ASSUME IInv, Dot
    PROVE  HeldInv'
  <1>1. SUFFICES ASSUME undisturbed', scanline' <= LastVisible,
                        dot' \in EvalEnd + 1..FetchEnd + 1
                 PROVE  Taken(Cardinality(Found), eval.secondary)'
    BY DEF HeldInv
  <1>2. dot \in EvalEnd..FetchEnd /\ dot' = dot + 1 /\ scanline' = scanline
        /\ oam_ram' = oam_ram /\ sprite_height' = sprite_height
    BY <1>1, DotFacts, Sizes DEF IInv
  <1>3. scanline <= LastVisible
    BY <1>1, <1>2
  <1>4. CASE dot = EvalEnd
    <2>1. dot \in ClearEnd + 1..EvalEnd /\ dot' - (ClearEnd + 1) = EvalDots
      BY <1>2, <1>4, Sizes
    <2>2. Searched(eval', flags'.sprite_zero_visible, flags'.sprite_overflow)
      BY <1>1, <1>3, <2>1, EvalDotStep, SearchEnds
    <2> QED
      BY <1>2, <2>2, TakenUnmoved DEF Searched
  <1>5. CASE dot # EvalEnd
    <2>1. dot \in EvalEnd + 1..FetchEnd /\ dot \in EvalEnd + 1..FetchEnd + 1
      BY <1>2, <1>5, Sizes
    <2>2. undisturbed /\ eval' = eval
      BY <1>1, <1>3, <2>1, FetchDot
    <2>3. Taken(Cardinality(Found), eval'.secondary)
      BY <1>3, <2>1, <2>2 DEF IInv, HeldInv
    <2> QED
      BY <1>2, <2>3, TakenUnmoved
  <1> QED
    BY <1>4, <1>5

LEMMA FetchInvStep ==
    ASSUME IInv, Dot
    PROVE  FetchInv'
  <1>1. SUFFICES ASSUME undisturbed', scanline' <= LastVisible,
                        dot' \in EvalEnd + 2..FetchEnd + 1
                 PROVE  FetchLine(dot - (EvalEnd + 1), fetch.step, fetch.y, sprites,
                                  eval.secondary)'
    BY DEF FetchInv
  <1>2. dot \in EvalEnd + 1..FetchEnd /\ dot' = dot + 1 /\ scanline' = scanline
        /\ oam_ram' = oam_ram /\ sprite_height' = sprite_height
    BY <1>1, DotFacts, Sizes DEF IInv
  <1>3. scanline <= LastVisible
    BY <1>1, <1>2
  <1>4. undisturbed /\ Fetch /\ Types /\ eval' = eval
    BY <1>1, <1>2, <1>3, FetchDot
  <1> DEFINE s == dot - (EvalEnd + 1)
  <1>5. s \in 0..8 * P - 1 /\ dot' - (EvalEnd + 1) = s + 1
    BY <1>2, Sizes
  <1>6. FetchLine(s, FetchFrom, fetch.y, sprites, eval.secondary)
    <2>1. CASE dot = EvalEnd + 1
      <3>1. s = 0 /\ FetchFrom = 0 /\ 0 % 8 = 0 /\ P \in Nat \ {0}
        BY <2>1, Sizes DEF FetchFrom
      <3>2. \A i \in 0..P - 1 : ~(0 >= 8 * i + 5) /\ ~(0 >= 8 * i + 6) /\ ~(0 >= 8 * i + 8)
        BY <3>1
      <3>3. 0 <= 8 * (P - 1) + 5
        BY <3>1
      <3> HIDE DEF s
      <3> QED
        BY <3>1, <3>2, <3>3 DEF FetchLine
    <2>2. CASE dot # EvalEnd + 1
      <3>1. FetchFrom = fetch.step /\ dot \in EvalEnd + 2..FetchEnd + 1
        BY <1>2, <2>2, Sizes DEF FetchFrom
      <3> QED
        BY <1>3, <1>4, <3>1 DEF IInv, FetchInv
    <2> QED
      BY <2>1, <2>2
  <1> HIDE DEF s
  <1>7. FetchLine(s + 1, fetch'.step, fetch'.y, sprites', eval'.secondary)
    BY <1>4, <1>5, <1>6, FetchStep
  <1> QED
    BY <1>2, <1>5, <1>7, FetchUnmoved

LEMMA IInvInit ==
    ASSUME Init
    PROVE  IInv
  <1>1. Types
    <2>1. /\ eval \in Machines /\ fetch \in [step : 0..8 * P, y : Byte]
      BY Sizes DEF Init, Machines, Steps, Byte
    <2>2. oam_ram \in Memories /\ oam_addr \in 0..OamSize - 1
      BY Sizes DEF Init, Memories, Byte
    <2> QED
      BY <2>1, <2>2 DEF Init, Types, Units
  <1>2. TypeOK
    <2>1. scanline \in 0..PreRender /\ dot \in 0..LastDot
      BY Sizes DEF Init
    <2>2. rendering \in BOOLEAN /\ undisturbed \in BOOLEAN
          /\ sprite_height \in {Height, 2 * Height}
      BY DEF Init
    <2> QED
      BY <1>1, <2>1, <2>2, TypeParts
  <1>3. undisturbed = FALSE
    BY DEF Init
  <1> QED
    BY <1>2, <1>3 DEF IInv, RenderedInv, ClearedInv, EvalInv, HeldInv, FetchInv

LEMMA IInvStep ==
    ASSUME IInv, [Next]_vars
    PROVE  IInv'
  <1>1. CASE Dot
    BY <1>1, DotType, RenderedStep, ClearedStep, EvalInvStep, HeldStep, FetchInvStep DEF IInv
  <1>2. CASE CpuAccess
    <2>1. TypeOK' /\ undisturbed' = FALSE
      BY <1>2, AccessFacts DEF IInv
    <2> QED
      BY <2>1 DEF IInv, RenderedInv, ClearedInv, EvalInv, HeldInv, FetchInv
  <1>3. CASE UNCHANGED vars
    <2> USE <1>3 DEF vars, oamVars
    <2>1. oam_ram' = oam_ram /\ scanline' = scanline /\ sprite_height' = sprite_height
          /\ oam_addr' = oam_addr /\ eval' = eval /\ fetch' = fetch /\ sprites' = sprites
          /\ flags' = flags /\ undisturbed' = undisturbed /\ dot' = dot /\ rendering' = rendering
      OBVIOUS
    <2> QED
      BY ONLY IInv, <2>1, SearchUnmoved, TakenUnmoved, FetchUnmoved, TypeParts
      DEF IInv, RenderedInv, ClearedInv, EvalInv, HeldInv, FetchInv, Types, Rendered
  <1> QED
    BY <1>1, <1>2, <1>3 DEF Next

-----------------------------------------------------------------------------
(* Theorems *)

\* The inductive invariant: the types, and how far a line without an access has come, the memory
\* it has cleared, the sprite its search is at, and the units its fetches have loaded.
THEOREM Inductive == Spec => []IInv
  BY IInvInit, IInvStep, PTL DEF Spec

\* The memories and machines keep to their sizes: the pointer into secondary OAM and the address
\* into OAM stay in range whatever the CPU writes between two dots, sprites.rs:236-372.
THEOREM TypeCorrect == Spec => []TypeOK
  <1>1. IInv => TypeOK
    BY DEF IInv
  <1> QED
    BY <1>1, Inductive, PTL

\* When the search is over on a line without an access, the first sprites in range are in
\* secondary OAM, whole and in order, and no other is; sprite zero is known to be among them,
\* and a sprite too many right after the last is noticed.
THEOREM FirstSpritesAreFound == Spec => []FirstSpritesFound
  <1>1. IInv => FirstSpritesFound
    <2>1. SUFFICES ASSUME IInv, IsEvaluated
                   PROVE  /\ \A i \in Found : FoundBefore(i) < P => Slot(FoundBefore(i)) = OfOam(i)
                          /\ \A k \in Cardinality(Found)..P - 1 : ~InRange(Slot(k)[0])
                          /\ 0 \in Found => flags.sprite_zero_visible
                          /\ \A i \in Found :
                               i - 1 \in Found /\ FoundBefore(i) = P => flags.sprite_overflow
      BY DEF FirstSpritesFound
    <2>2. dot \in ClearEnd + 2..EvalEnd + 1 /\ dot - (ClearEnd + 1) = EvalDots
      BY <2>1, Sizes DEF IsEvaluated
    <2>3. Searched(eval, flags.sprite_zero_visible, flags.sprite_overflow)
      BY <2>1, <2>2, SearchEnds DEF IInv, EvalInv, IsEvaluated
    <2>4. ASSUME NEW i \in Found, FoundBefore(i) < P
          PROVE  Slot(FoundBefore(i)) = OfOam(i)
      <3>1. \A b \in 0..3 :
              eval.secondary[4 * FoundBefore(i) + b] = oam_ram[4 * i + b]
        BY <2>3, <2>4, FoundFacts DEF Searched, Copied
      <3> QED
        BY <3>1 DEF Slot, OfOam
    <2>5. ASSUME NEW k \in Cardinality(Found)..P - 1
          PROVE  ~InRange(Slot(k)[0])
      <3>1. Cardinality(Found) \in Nat
        BY FoundFacts, FS_CardinalityType
      <3>2. k \in 0..P - 1 /\ ~(k < Cardinality(Found))
        BY <3>1, Sizes
      <3>3. ~InRange(eval.secondary[4 * k])
        BY <2>3, <3>2 DEF Searched, Taken
      <3>4. Slot(k)[0] = eval.secondary[4 * k]
        BY <3>2, Sizes DEF Slot
      <3> QED
        BY <3>3, <3>4
    <2>6. 0 \in Found => flags.sprite_zero_visible
      BY <2>3 DEF Searched
    <2>7. ASSUME NEW i \in Found, i - 1 \in Found, FoundBefore(i) = P
          PROVE  flags.sprite_overflow
      BY <2>3, <2>7 DEF Searched, OverflowDue
    <2> QED
      BY <2>4, <2>5, <2>6, <2>7
  <1> QED
    BY <1>1, Inductive, PTL

\* After the fetches of such a line a unit is shown exactly when its slot holds a sprite of the
\* line, with the pattern of this line.
THEOREM ShownUnitsAreFound == Spec => []UnitsShowSlots
  <1>1. IInv => UnitsShowSlots
    <2>1. SUFFICES ASSUME IInv, undisturbed, scanline <= LastVisible, dot = FetchEnd + 1,
                          NEW i \in 0..P - 1
                   PROVE  /\ sprites[i].visible <=> i < Cardinality(Found)
                          /\ sprites[i].low
                          /\ i < P - 1 => sprites[i].high
      BY DEF UnitsShowSlots
    <2>2. /\ dot \in EvalEnd + 1..FetchEnd + 1 /\ dot \in EvalEnd + 2..FetchEnd + 1
          /\ dot - (EvalEnd + 1) = 8 * P
          /\ 8 * P >= 8 * i + 5 /\ 8 * P >= 8 * i + 6 /\ 8 * P >= 8 * i + 8
      BY <2>1, Sizes
    <2>3. FetchLine(8 * P, fetch.step, fetch.y, sprites, eval.secondary)
      BY <2>1, <2>2 DEF IInv, FetchInv
    <2>4. Taken(Cardinality(Found), eval.secondary)
      BY <2>1, <2>2 DEF IInv, HeldInv
    <2>5. sprites[i].visible <=> InRange(eval.secondary[4 * i])
      BY <2>1, <2>2, <2>3 DEF FetchLine
    <2>6. sprites[i].low /\ (i < P - 1 => sprites[i].high)
      BY <2>1, <2>2, <2>3 DEF FetchLine
    <2> QED
      BY <2>1, <2>4, <2>5, <2>6 DEF Taken
  <1> QED
    BY <1>1, Inductive, PTL

=============================================================================
