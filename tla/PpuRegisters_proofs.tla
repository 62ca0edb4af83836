------------------------ MODULE PpuRegisters_proofs ------------------------
(***************************************************************************)
(* Proofs about PpuRegisters, for every size of nametable, tile and frame   *)
(* and every program of accesses: addresses keep to their fields, drawing   *)
(* follows the scroll registers, and an address set by PPUADDR never stops  *)
(* the program.                                                             *)
(***************************************************************************)
EXTENDS PpuRegisters, TLAPS

-----------------------------------------------------------------------------
(* Division *)

LEMMA Remainder ==
    ASSUME NEW b \in Nat \ {0}, NEW q \in Nat, NEW r \in 0..b - 1
    PROVE  (b * q + r) \div b = q /\ (b * q + r) % b = r
  OBVIOUS

LEMMA Division ==
    ASSUME NEW a \in Nat, NEW b \in Nat \ {0}
    PROVE  /\ a \div b \in Nat /\ a % b \in 0..b - 1
           /\ a = b * (a \div b) + (a % b)
  OBVIOUS

LEMMA Monotone ==
    ASSUME NEW b \in Nat, NEW m \in Nat, NEW n \in Nat, m <= n
    PROVE  b * m \in Nat /\ b * m <= b * n
  OBVIOUS

\* A number of two digits, the lower of base b, the higher below m.
LEMMA Digits ==
    ASSUME NEW b \in Nat \ {0}, NEW m \in Nat, NEW x \in 0..b - 1, NEW n \in 0..m - 1
    PROVE  x + b * n \in 0..b * m - 1
  <1>1. b * (n + 1) = b * n + b
    OBVIOUS
  <1>2. b * (n + 1) <= b * m /\ b * n \in Nat /\ b * m \in Nat
    BY Monotone
  <1> QED
    BY <1>1, <1>2

LEMMA DivisionBound ==
    ASSUME NEW b \in Nat \ {0}, NEW m \in Nat, NEW a \in 0..b * m - 1
    PROVE  a \div b \in 0..m - 1
  <1> DEFINE q == a \div b
  <1>1. a \in Nat
    OBVIOUS
  <1>2. q \in Nat /\ b * q <= a
    BY <1>1, Division
  <1> HIDE DEF q
  <1>3. ~(m <= q)
    BY <1>1, <1>2, Monotone
  <1>4. q \in 0..m - 1
    BY <1>2, <1>3
  <1> QED
    BY <1>4 DEF q

\* A counter modulo m.
LEMMA ModNext ==
    ASSUME NEW a \in Nat, NEW m \in Nat \ {0}
    PROVE  /\ (a + 1) % m = IF (a % m) + 1 = m THEN 0 ELSE (a % m) + 1
           /\ a < m => a % m = a
  <1> DEFINE q == a \div m
             r == a % m
  <1>1. q \in Nat /\ r \in 0..m - 1 /\ a = m * q + r
    BY Division
  <1>2. a < m => a % m = a
    OBVIOUS
  <1> HIDE DEF q, r
  <1>3. m * (q + 1) = m * q + m /\ m * q \in Nat
    BY <1>1
  <1>4. CASE r + 1 = m
    <2>1. a + 1 = m * (q + 1) + 0
      BY <1>1, <1>3, <1>4
    <2>2. (m * (q + 1) + 0) % m = 0
      BY <1>1, Remainder
    <2> QED
      BY <1>2, <1>4, <2>1, <2>2 DEF r
  <1>5. CASE r + 1 # m
    <2>1. a + 1 = m * q + (r + 1) /\ r + 1 \in 0..m - 1
      BY <1>1, <1>3, <1>5
    <2>2. (m * q + (r + 1)) % m = r + 1
      BY <1>1, <2>1, Remainder
    <2> QED
      BY <1>2, <1>5, <2>1, <2>2 DEF r
  <1> QED
    BY <1>4, <1>5

-----------------------------------------------------------------------------
(* Addresses *)

LEMMA Sizes ==
    /\ Coarse \in Nat \ {0} /\ Rows \in Nat \ {0} /\ Fine \in Nat \ {0} /\ Tiles \in Nat \ {0}
    /\ LastVisible \in Nat /\ Rows < Coarse
    /\ Byte \in Nat \ {0} /\ Addresses \in Nat \ {0} /\ BusSize \in Nat \ {0}
    /\ Addresses = Byte * (4 * Coarse) /\ BusSize = Byte * (2 * Coarse)
    /\ Addresses = (4 * Coarse * Coarse) * Fine /\ BusSize <= Addresses
  <1>1. /\ Coarse \in Nat \ {0} /\ Rows \in Nat \ {0} /\ Fine \in Nat \ {0}
        /\ Tiles \in Nat \ {0} /\ LastVisible \in Nat /\ Rows < Coarse
    BY AddressAssumption
  <1> DEFINE half == Coarse * Coarse * Fine
  <1>2. half \in Nat \ {0} /\ Byte \in Nat \ {0}
    BY <1>1 DEF Byte
  <1>3. Addresses = 4 * half
    BY <1>1 DEF Addresses
  <1>4. half = Byte * Coarse
    BY <1>1 DEF Byte
  <1>5. Byte * (4 * Coarse) = 4 * (Byte * Coarse) /\ Byte * (2 * Coarse) = 2 * (Byte * Coarse)
    BY <1>1, <1>2
  <1>6. (4 * Coarse * Coarse) * Fine = 4 * half
    BY <1>1
  <1> HIDE DEF half
  <1>7. BusSize = 2 * half
    BY <1>2, <1>3 DEF BusSize
  <1> QED
    BY <1>1, <1>2, <1>3, <1>4, <1>5, <1>6, <1>7

\* The half of the tile rows that addresses of the bus have.
BusRows == Fine \div 2

LEMMA BusRowsFacts ==
    BusRows \in Nat /\ BusRows < Fine /\ BusSize = (4 * Coarse * Coarse) * BusRows
  <1>1. BusRows \in Nat /\ Fine = 2 * BusRows
    BY Sizes, AddressAssumption DEF BusRows
  <1>2. BusRows < Fine
    BY <1>1, Sizes
  <1>3. Addresses = 2 * ((4 * Coarse * Coarse) * BusRows)
    BY <1>1, Sizes
  <1>4. (4 * Coarse * Coarse) * BusRows \in Nat
    BY <1>1, Sizes
  <1> QED
    BY <1>1, <1>2, <1>3, <1>4 DEF BusSize

\* The address of a position whose tile row is below m.
LEMMA AddressFacts ==
    ASSUME NEW p \in Position, NEW m \in Nat, p.fine_y < m
    PROVE  Address(p) \in 0..(4 * Coarse * Coarse) * m - 1
  <1>1. /\ p.coarse_x \in 0..Coarse - 1 /\ p.coarse_y \in 0..Coarse - 1
        /\ p.nametable_x \in 0..2 - 1 /\ p.nametable_y \in 0..2 - 1 /\ p.fine_y \in 0..m - 1
    BY DEF Position
  <1>2. p.nametable_y + 2 * p.fine_y \in 0..2 * m - 1
    BY <1>1
  <1>3. p.nametable_x + 2 * (p.nametable_y + 2 * p.fine_y) \in 0..4 * m - 1
    BY <1>1, <1>2
  <1> DEFINE n == p.nametable_x + 2 * (p.nametable_y + 2 * p.fine_y)
  <1> HIDE DEF n
  <1>4. n \in 0..4 * m - 1
    BY <1>3 DEF n
  <1>5. p.coarse_y + Coarse * n \in 0..Coarse * (4 * m) - 1
    BY <1>1, <1>4, Sizes, Digits
  <1> DEFINE k == p.coarse_y + Coarse * n
             l == Coarse * (4 * m)
  <1>6. l \in Nat /\ Coarse * l = (4 * Coarse * Coarse) * m
    BY Sizes
  <1> HIDE DEF k, l
  <1>7. p.coarse_x + Coarse * k \in 0..Coarse * l - 1
    BY <1>1, <1>5, <1>6, Sizes, Digits DEF k, l
  <1> QED
    BY <1>6, <1>7 DEF k, n, Address

LEMMA AddressBounds ==
    ASSUME NEW p \in Position
    PROVE  /\ Address(p) \in 0..Addresses - 1
           /\ p.fine_y < BusRows => Address(p) \in 0..BusSize - 1
  <1>1. p.fine_y < Fine /\ Fine \in Nat
    BY Sizes DEF Position
  <1>2. Address(p) \in 0..(4 * Coarse * Coarse) * Fine - 1
    BY <1>1, AddressFacts
  <1>3. p.fine_y < BusRows => Address(p) \in 0..(4 * Coarse * Coarse) * BusRows - 1
    BY BusRowsFacts, AddressFacts
  <1>4. BusSize = (4 * Coarse * Coarse) * BusRows /\ Addresses = (4 * Coarse * Coarse) * Fine
    BY BusRowsFacts, Sizes
  <1> QED
    BY <1>2, <1>3, <1>4

LEMMA AtFacts ==
    ASSUME NEW m \in Nat, m <= Fine, NEW a \in 0..(4 * Coarse * Coarse) * m - 1
    PROVE  At(a) \in Position /\ At(a).fine_y < m
  <1>1. a \in Nat /\ Coarse * Coarse \in Nat \ {0} /\ 2 * Coarse * Coarse \in Nat \ {0}
        /\ 4 * Coarse * Coarse \in Nat \ {0}
    BY Sizes
  <1>2. a % Coarse \in 0..Coarse - 1 /\ (a \div Coarse) \in Nat
    BY <1>1, Sizes, Division
  <1>3. (a \div Coarse) % Coarse \in 0..Coarse - 1
    BY <1>2, Sizes, Division
  <1>4. (a \div (Coarse * Coarse)) % 2 \in 0..1
    <2>1. a \div (Coarse * Coarse) \in Nat
      BY <1>1, Division
    <2> QED
      BY <2>1
  <1>5. (a \div (2 * Coarse * Coarse)) % 2 \in 0..1
    <2>1. a \div (2 * Coarse * Coarse) \in Nat
      BY <1>1, Division
    <2> QED
      BY <2>1
  <1>6. a \div (4 * Coarse * Coarse) \in 0..m - 1
    BY <1>1, DivisionBound
  <1>7. a \div (4 * Coarse * Coarse) \in 0..Fine - 1
    BY <1>6, Sizes
  <1> QED
    BY <1>2, <1>3, <1>4, <1>5, <1>6, <1>7 DEF At, Position

LEMMA AtBounds ==
    /\ \A a \in 0..Addresses - 1 : At(a) \in Position
    /\ \A a \in 0..BusSize - 1 : At(a) \in Position /\ At(a).fine_y < BusRows
  BY AtFacts, BusRowsFacts, Sizes

LEMMA AddrHighFacts ==
    ASSUME NEW p \in Position, NEW value \in Written
    PROVE  AddrHigh(p, value) \in Position /\ AddrHigh(p, value).fine_y < BusRows
  <1>1. value \in Nat /\ 2 * Coarse \in Nat \ {0}
    BY AddressAssumption, Sizes
  <1>2. BusSize \div Byte = 2 * Coarse
    <2>1. BusSize = Byte * (2 * Coarse) + 0
      BY Sizes
    <2> QED
      BY <1>1, <2>1, Sizes, Remainder
  <1>3. Address(p) % Byte \in 0..Byte - 1
    <2>1. Address(p) \in Nat
      BY AddressBounds, Sizes
    <2> QED
      BY <2>1, Sizes, Division
  <1>4. value % (2 * Coarse) \in 0..2 * Coarse - 1
    BY <1>1, Division
  <1> DEFINE low == Address(p) % Byte
             high == value % (2 * Coarse)
  <1> HIDE DEF low, high
  <1>5. low + Byte * high \in 0..Byte * (2 * Coarse) - 1
    BY <1>1, <1>3, <1>4, Sizes, Digits DEF low, high
  <1>6. high * Byte = Byte * high
    BY <1>4, Sizes DEF high
  <1>7. low + high * Byte \in 0..BusSize - 1
    BY <1>5, <1>6, Sizes
  <1>8. AddrHigh(p, value) = At(low + high * Byte)
    BY <1>2 DEF AddrHigh, low, high
  <1> QED
    BY <1>7, <1>8, AtBounds

LEMMA AddrLowFacts ==
    ASSUME NEW p \in Position, NEW value \in Written
    PROVE  /\ AddrLow(p, value) \in Position
           /\ p.fine_y < BusRows => AddrLow(p, value).fine_y < BusRows
  <1> DEFINE a == Address(p)
             q == a \div Byte
  <1>1. a \in 0..Addresses - 1 /\ (p.fine_y < BusRows => a \in 0..BusSize - 1)
    BY AddressBounds
  <1>2. q \in Nat /\ a - (a % Byte) = Byte * q
    <2>1. a \in Nat
      BY <1>1, Sizes
    <2> HIDE DEF a
    <2>2. a % Byte \in Nat /\ a = Byte * (a \div Byte) + (a % Byte) /\ a \div Byte \in Nat
      BY <2>1, Sizes, Division
    <2> QED
      BY <2>1, <2>2, Sizes
  <1>3. q \in 0..4 * Coarse - 1
    BY <1>1, Sizes, DivisionBound
  <1>4. p.fine_y < BusRows => q \in 0..2 * Coarse - 1
    BY <1>1, Sizes, DivisionBound
  <1>5. value \in 0..Byte - 1
    BY AddressAssumption
  <1>6. AddrLow(p, value) = At(a - (a % Byte) + value)
    BY DEF AddrLow
  <1> HIDE DEF a, q
  <1>7. value + Byte * q \in 0..Addresses - 1
    BY <1>3, <1>5, Sizes, Digits
  <1>8. p.fine_y < BusRows => value + Byte * q \in 0..BusSize - 1
    BY <1>4, <1>5, Sizes, Digits
  <1>9. AddrLow(p, value) = At(value + Byte * q)
    <2>1. a - (a % Byte) + value = value + Byte * q
      BY <1>2, <1>5, Sizes
    <2> QED
      BY <1>6, <2>1
  <1> QED
    BY <1>7, <1>8, <1>9, AtBounds

-----------------------------------------------------------------------------
(* The beam *)

\* Pixel rows and tile columns of the four nametables.
AllRows == 2 * Rows * Fine
AllColumns == 2 * Coarse

LEMMA AllSizes ==
    /\ AllRows \in Nat \ {0} /\ AllRows <= NoOrigin
    /\ AllColumns \in Nat \ {0} /\ AllColumns <= NoOrigin
  <1>1. Rows * Fine \in Nat \ {0} /\ AllRows = 2 * (Rows * Fine)
    BY Sizes DEF AllRows
  <1>2. Fine * Rows <= Fine * Coarse /\ Fine * Coarse \in Nat
    BY Sizes, Monotone
  <1>3. AllRows <= 2 * Byte
    BY <1>1, <1>2, Sizes DEF Byte
  <1>4. Byte * 2 <= Byte * (4 * Coarse)
    BY Sizes, Monotone
  <1>5. Coarse * 1 <= Coarse * Fine
    BY Sizes, Monotone
  <1> QED
    BY <1>1, <1>3, <1>4, <1>5, Sizes DEF AllColumns, NoOrigin, Byte

LEMMA Fields ==
    ASSUME NEW p \in Position
    PROVE  /\ p.coarse_x \in 0..Coarse - 1 /\ p.coarse_y \in 0..Coarse - 1
           /\ p.nametable_x \in 0..1 /\ p.nametable_y \in 0..1 /\ p.fine_y \in 0..Fine - 1
           /\ 1 - p.nametable_x \in 0..1 /\ 1 - p.nametable_y \in 0..1
           /\ p = [fine_y |-> p.fine_y, nametable_y |-> p.nametable_y,
                   nametable_x |-> p.nametable_x, coarse_y |-> p.coarse_y,
                   coarse_x |-> p.coarse_x]
  <1>1. /\ p.coarse_x \in 0..Coarse - 1 /\ p.coarse_y \in 0..Coarse - 1
        /\ p.nametable_x \in 0..1 /\ p.nametable_y \in 0..1 /\ p.fine_y \in 0..Fine - 1
    BY DEF Position
  <1>2. p = [fine_y |-> p.fine_y, nametable_y |-> p.nametable_y,
             nametable_x |-> p.nametable_x, coarse_y |-> p.coarse_y, coarse_x |-> p.coarse_x]
    BY DEF Position
  <1> QED
    BY <1>1, <1>2

LEMMA RowBounds ==
    ASSUME NEW p \in Position, p.coarse_y < Rows
    PROVE  Row(p) \in 0..AllRows - 1
  <1>1. p.coarse_y \in 0..Rows - 1 /\ p.nametable_y \in 0..2 - 1 /\ p.fine_y \in 0..Fine - 1
    BY Fields, Sizes
  <1>2. p.coarse_y + Rows * p.nametable_y \in 0..Rows * 2 - 1
    BY <1>1, Sizes, Digits
  <1> DEFINE n == p.coarse_y + Rows * p.nametable_y
             m == Rows * 2
  <1>3. m \in Nat /\ Fine * m = AllRows
    BY Sizes DEF AllRows
  <1> HIDE DEF n, m
  <1>4. p.fine_y + Fine * n \in 0..Fine * m - 1
    BY <1>1, <1>2, <1>3, Sizes, Digits DEF n, m
  <1> QED
    BY <1>3, <1>4 DEF n, Row

LEMMA ColumnBounds ==
    ASSUME NEW p \in Position
    PROVE  Column(p) \in 0..AllColumns - 1
  <1>1. p.coarse_x \in 0..Coarse - 1 /\ p.nametable_x \in 0..2 - 1
    BY Fields
  <1>2. p.coarse_x + Coarse * p.nametable_x \in 0..Coarse * 2 - 1
    BY <1>1, Sizes, Digits
  <1> QED
    BY <1>2, Sizes DEF Column, AllColumns

\* The next tile to the right, in the same row.
LEMMA NextColumn ==
    ASSUME NEW p \in Position
    PROVE  /\ IncrementX(p) \in Position
           /\ Column(IncrementX(p)) = IF Column(p) + 1 = AllColumns THEN 0 ELSE Column(p) + 1
           /\ Row(IncrementX(p)) = Row(p) /\ IncrementX(p).coarse_y = p.coarse_y
  <1>1. Coarse \in Nat \ {0} /\ Coarse * 0 = 0 /\ Coarse * 1 = Coarse /\ AllColumns = 2 * Coarse
    BY Sizes DEF AllColumns
  <1>2. CASE p.coarse_x = Coarse - 1
    <2> DEFINE q == [fine_y |-> p.fine_y, nametable_y |-> p.nametable_y,
                     nametable_x |-> 1 - p.nametable_x, coarse_y |-> p.coarse_y,
                     coarse_x |-> 0]
    <2>1. q \in Position
      BY Fields, <1>1 DEF Position
    <2>2. IncrementX(p) = q
      <3>1. IncrementX(p) = [p EXCEPT !.coarse_x = 0, !.nametable_x = 1 - p.nametable_x]
        BY <1>2 DEF IncrementX, Position
      <3> QED
        BY <3>1 DEF Position
    <2>3. Row(q) = Row(p) /\ q.coarse_y = p.coarse_y
      BY DEF Row
    <2>4. Column(q) = IF Column(p) + 1 = AllColumns THEN 0 ELSE Column(p) + 1
      <3>1. Column(q) = 0 + Coarse * (1 - p.nametable_x)
        BY DEF Column
      <3>2. Column(p) = Coarse - 1 + Coarse * p.nametable_x
        BY <1>2 DEF Column
      <3>3. p.nametable_x = 0 \/ p.nametable_x = 1
        BY Fields
      <3>4. CASE p.nametable_x = 0
        <4>1. Column(q) = Coarse /\ Column(p) = Coarse - 1
          BY <1>1, <3>1, <3>2, <3>4
        <4> QED
          BY <1>1, <4>1
      <3>5. CASE p.nametable_x = 1
        <4>1. Column(q) = 0 /\ Column(p) = 2 * Coarse - 1
          BY <1>1, <3>1, <3>2, <3>5
        <4> QED
          BY <1>1, <4>1
      <3> QED
        BY <3>3, <3>4, <3>5
    <2> QED
      BY <2>1, <2>2, <2>3, <2>4
  <1>3. CASE p.coarse_x # Coarse - 1
    <2> DEFINE q == [fine_y |-> p.fine_y, nametable_y |-> p.nametable_y,
                     nametable_x |-> p.nametable_x, coarse_y |-> p.coarse_y,
                     coarse_x |-> p.coarse_x + 1]
    <2>1. q \in Position
      BY Fields, <1>1, <1>3 DEF Position
    <2>2. IncrementX(p) = q
      BY Fields, <1>3 DEF IncrementX
    <2>3. Row(q) = Row(p) /\ q.coarse_y = p.coarse_y
      BY DEF Row
    <2>4. Column(q) = Column(p) + 1
      <3>1. Coarse * p.nametable_x \in Nat /\ p.coarse_x \in Nat
        BY Fields, <1>1
      <3>2. Column(q) = (p.coarse_x + 1) + Coarse * p.nametable_x
            /\ Column(p) = p.coarse_x + Coarse * p.nametable_x
        BY DEF Column
      <3> QED
        BY <3>1, <3>2
    <2>5. Column(q) < AllColumns
      BY <2>1, ColumnBounds, AllSizes
    <2> HIDE DEF q
    <2> QED
      BY <2>1, <2>2, <2>3, <2>4, <2>5, AllSizes
  <1> QED
    BY <1>2, <1>3

\* The next pixel row, in the same column; drawing never reaches the rows below the last.
LEMMA NextRow ==
    ASSUME NEW p \in Position
    PROVE  /\ IncrementY(p) \in Position
           /\ Column(IncrementY(p)) = Column(p)
           /\ p.coarse_y < Rows =>
                /\ IncrementY(p).coarse_y < Rows
                /\ Row(IncrementY(p)) = IF Row(p) + 1 = AllRows THEN 0 ELSE Row(p) + 1
  <1>1. Coarse \in Nat \ {0} /\ Fine \in Nat \ {0} /\ Rows \in Nat \ {0} /\ Rows < Coarse
    BY Sizes
  <1> DEFINE Moved(f, y, n) == [fine_y |-> f, nametable_y |-> n,
                                nametable_x |-> p.nametable_x, coarse_y |-> y,
                                coarse_x |-> p.coarse_x]
  <1>2. ASSUME NEW f, NEW y, NEW n
        PROVE  /\ Moved(f, y, n).coarse_y = y /\ Column(Moved(f, y, n)) = Column(p)
               /\ Row(Moved(f, y, n)) = f + Fine * (y + Rows * n)
    BY DEF Column, Row
  <1>3. CASE p.fine_y < Fine - 1
    <2> DEFINE q == Moved(p.fine_y + 1, p.coarse_y, p.nametable_y)
    <2>1. q \in Position
      BY Fields, <1>1, <1>3 DEF Position
    <2>2. IncrementY(p) = q
      BY Fields, <1>3 DEF IncrementY
    <2>3. Row(q) = Row(p) + 1
      <3>1. Fine * (p.coarse_y + Rows * p.nametable_y) \in Nat /\ p.fine_y \in Nat
        BY Fields, <1>1
      <3>2. Row(q) = (p.fine_y + 1) + Fine * (p.coarse_y + Rows * p.nametable_y)
        BY <1>2
      <3>3. Row(p) = p.fine_y + Fine * (p.coarse_y + Rows * p.nametable_y)
        BY DEF Row
      <3> QED
        BY <3>1, <3>2, <3>3
    <2>4. Column(q) = Column(p) /\ q.coarse_y = p.coarse_y
      BY <1>2
    <2>5. p.coarse_y < Rows => Row(q) < AllRows
      BY <2>1, <2>4, RowBounds, AllSizes
    <2> HIDE DEF q
    <2> QED
      BY <2>1, <2>2, <2>3, <2>4, <2>5, AllSizes
  <1>4. CASE p.fine_y = Fine - 1 /\ p.coarse_y = Rows - 1
    <2> DEFINE q == Moved(0, 0, 1 - p.nametable_y)
    <2>1. q \in Position
      BY Fields, <1>1 DEF Position
    <2>2. IncrementY(p) = q
      <3>1. IncrementY(p) = [p EXCEPT !.fine_y = 0, !.coarse_y = 0,
                                      !.nametable_y = 1 - p.nametable_y]
        BY Fields, <1>1, <1>4 DEF IncrementY, Position
      <3> QED
        BY <3>1 DEF Position
    <2>3. Column(q) = Column(p) /\ q.coarse_y = 0
      BY <1>2
    <2>4. Row(q) = IF Row(p) + 1 = AllRows THEN 0 ELSE Row(p) + 1
      <3>1. Row(q) = Fine * (Rows * (1 - p.nametable_y))
        <4>1. Row(q) = 0 + Fine * (0 + Rows * (1 - p.nametable_y))
          BY <1>2
        <4>2. Rows * (1 - p.nametable_y) \in Nat
          BY Fields, <1>1
        <4> QED
          BY <4>1, <4>2, <1>1
      <3>2. Row(p) = Fine - 1 + Fine * (Rows - 1 + Rows * p.nametable_y)
        BY <1>4 DEF Row
      <3>3. p.nametable_y = 0 \/ p.nametable_y = 1
        BY Fields
      <3> DEFINE half == Fine * Rows
      <3>4. half \in Nat \ {0} /\ AllRows = 2 * half
        BY <1>1 DEF AllRows
      <3>5. CASE p.nametable_y = 0
        <4>1. Row(q) = half
          BY <1>1, <3>1, <3>5
        <4>2. Rows - 1 + Rows * p.nametable_y = Rows - 1 /\ Fine * (Rows - 1) = half - Fine
          BY <1>1, <3>5
        <4>3. Row(p) = half - 1
          BY <1>1, <3>2, <3>4, <4>2
        <4> HIDE DEF half, q
        <4> QED
          BY <3>4, <4>1, <4>3
      <3>6. CASE p.nametable_y = 1
        <4>1. Row(q) = 0
          BY <1>1, <3>1, <3>6
        <4>2. Rows - 1 + Rows * p.nametable_y = 2 * Rows - 1
              /\ Fine * (2 * Rows - 1) = 2 * half - Fine
          BY <1>1, <3>6
        <4>3. Row(p) = 2 * half - 1
          BY <1>1, <3>2, <3>4, <4>2
        <4> HIDE DEF half, q
        <4> QED
          BY <3>4, <4>1, <4>3
      <3> QED
        BY <3>3, <3>5, <3>6
    <2> HIDE DEF q
    <2> QED
      BY <1>1, <2>1, <2>2, <2>3, <2>4
  <1>5. CASE p.fine_y = Fine - 1 /\ p.coarse_y # Rows - 1
    <2> DEFINE y == IF p.coarse_y = Coarse - 1 THEN 0 ELSE p.coarse_y + 1
               q == Moved(0, y, p.nametable_y)
    <2>0. y \in 0..Coarse - 1 /\ (p.coarse_y < Rows => y = p.coarse_y + 1 /\ y < Rows)
      BY Fields, <1>1, <1>5
    <2>2. IncrementY(p) = q
      <3>1. IncrementY(p) = [p EXCEPT !.fine_y = 0, !.coarse_y = y]
        BY Fields, <1>1, <1>5 DEF IncrementY, Position
      <3> HIDE DEF y
      <3> QED
        BY <3>1 DEF Position
    <2> HIDE DEF y
    <2>1. q \in Position
      BY Fields, <1>1, <2>0 DEF Position
    <2>3. Column(q) = Column(p) /\ q.coarse_y = y
      BY <1>2
    <2>4. ASSUME p.coarse_y < Rows
          PROVE  Row(q) = Row(p) + 1
      <3> DEFINE n == p.coarse_y + Rows * p.nametable_y
      <3>1. n \in Nat
        BY Fields, <1>1
      <3>2. Row(q) = Fine * (n + 1)
        <4>1. Row(q) = 0 + Fine * (y + Rows * p.nametable_y)
          BY <1>2
        <4>2. y + Rows * p.nametable_y = n + 1
          BY Fields, <1>1, <2>0, <2>4
        <4> QED
          BY <1>1, <3>1, <4>1, <4>2
      <3>3. Row(p) = Fine - 1 + Fine * n
        BY <1>5 DEF Row
      <3> HIDE DEF n, q
      <3>4. Fine * (n + 1) = Fine * n + Fine /\ Fine * n \in Nat
        BY <1>1, <3>1
      <3> QED
        BY <1>1, <3>2, <3>3, <3>4
    <2>5. p.coarse_y < Rows => Row(q) < AllRows
      BY <2>0, <2>1, <2>3, RowBounds, AllSizes
    <2> HIDE DEF q
    <2> QED
      BY <2>0, <2>1, <2>2, <2>3, <2>4, <2>5, AllSizes
  <1> QED
    BY <1>1, <1>3, <1>4, <1>5, Fields

LEMMA CopyFacts ==
    ASSUME NEW p \in Position, NEW from \in Position
    PROVE  /\ WithColumn(p, from) \in Position
           /\ Column(WithColumn(p, from)) = Column(from)
           /\ Row(WithColumn(p, from)) = Row(p) /\ WithColumn(p, from).coarse_y = p.coarse_y
           /\ WithRow(p, from) \in Position
           /\ Column(WithRow(p, from)) = Column(p)
           /\ Row(WithRow(p, from)) = Row(from) /\ WithRow(p, from).coarse_y = from.coarse_y
  BY DEF WithColumn, WithRow, Position, Row, Column

-----------------------------------------------------------------------------
(* The inductive invariant *)

\* What a write of PPUADDR has set is an address of the bus.
AddressedInv ==
    /\ addressed.temp_vram_addr => registers.temp_vram_addr.fine_y < BusRows
    /\ addressed.vram_addr => registers.vram_addr.fine_y < BusRows

\* No dot of the lines 240 to 260 counts.
IdleInv == Idle => event = 0

\* What is drawn has a known origin only since rendering was last switched.
RenderingInv == ~registers.rendering => origin.row = NoOrigin /\ origin.column = NoOrigin

\* The row of the frame, from the dots of the pre-render line that copy it.
LinesDrawn == IF scanline = PreRender THEN 0 ELSE scanline + (IF event >= Tiles THEN 1 ELSE 0)

RowDrawn == scanline <= LastVisible \/ (scanline = PreRender /\ event >= Tiles + 2)

RowInv ==
    RowDrawn /\ origin.row # NoOrigin =>
        /\ origin.row \in 0..AllRows - 1
        /\ registers.vram_addr.coarse_y < Rows
        /\ Row(registers.vram_addr) = (origin.row + LinesDrawn) % AllRows

\* The column of the line, in the lines that are not drawn too.
TilesFetched ==
    IF event <= Tiles THEN event + 2
    ELSE IF event \in Prefetch THEN event - Tiles - 3
    ELSE 0

ColumnInv ==
    origin.column # NoOrigin =>
        /\ origin.column \in 0..AllColumns - 1
        /\ Column(registers.vram_addr) = (origin.column + TilesFetched) % AllColumns

IInv == TypeOK /\ AddressedInv /\ IdleInv /\ RenderingInv /\ RowInv /\ ColumnInv

Registers == [vram_addr : Position, temp_vram_addr : Position, write_toggle : BOOLEAN,
              going_down : BOOLEAN, rendering : BOOLEAN]

\* What every access of the CPU keeps: drawing goes on as it was, or its origin is forgotten.
Accessed ==
    /\ registers' \in Registers
    /\ addressed' \in [vram_addr : BOOLEAN, temp_vram_addr : BOOLEAN]
    /\ AddressedInv'
    /\ \/ origin' = [row |-> NoOrigin, column |-> NoOrigin]
       \/ /\ origin' = origin
          /\ registers'.vram_addr = registers.vram_addr
          /\ registers'.rendering = registers.rendering

LEMMA ControlAccess ==
    ASSUME TypeOK, AddressedInv,
           NEW x \in 0..1, NEW y \in 0..1, NEW down \in BOOLEAN, WriteControl(x, y, down)
    PROVE  Accessed
  <1> DEFINE t == [registers.temp_vram_addr EXCEPT !.nametable_x = x, !.nametable_y = y]
  <1>1. registers \in Registers /\ registers.temp_vram_addr \in Position
    BY DEF TypeOK, Registers
  <1>2. t \in Position /\ t.fine_y = registers.temp_vram_addr.fine_y
    BY <1>1 DEF Position
  <1>3. registers' = [registers EXCEPT !.temp_vram_addr = t, !.going_down = down]
    BY <1>1 DEF WriteControl, Registers, Position
  <1> HIDE DEF t
  <1>4. /\ registers' \in Registers /\ registers'.vram_addr = registers.vram_addr
        /\ registers'.temp_vram_addr = t /\ registers'.rendering = registers.rendering
    BY <1>1, <1>2, <1>3 DEF Registers
  <1> QED
    BY <1>2, <1>4 DEF Accessed, WriteControl, AddressedInv, TypeOK

LEMMA MaskAccess ==
    ASSUME TypeOK, AddressedInv, NEW rendering \in BOOLEAN, WriteMask(rendering)
    PROVE  Accessed
  BY DEF Accessed, WriteMask, AddressedInv, TypeOK, Registers

LEMMA StatusAccess ==
    ASSUME TypeOK, AddressedInv, ReadStatus
    PROVE  Accessed
  BY DEF Accessed, ReadStatus, AddressedInv, TypeOK, Registers

LEMMA ScrollAccess ==
    ASSUME TypeOK, AddressedInv, NEW value \in Written, WriteScroll(value)
    PROVE  Accessed
  <1>1. registers \in Registers /\ registers.temp_vram_addr \in Position
        /\ (~registers.write_toggle) \in BOOLEAN
    BY DEF TypeOK, Registers
  <1>2. value \div Fine \in 0..Coarse - 1 /\ value % Fine \in 0..Fine - 1
    <2>1. value \in 0..Byte - 1 /\ Byte = Fine * Coarse
      BY AddressAssumption, Sizes DEF Byte
    <2>2. value \in Nat
      BY <2>1
    <2> QED
      BY <2>1, <2>2, Sizes, Division, DivisionBound
  <1>3. CASE ~registers.write_toggle
    <2> DEFINE t == [registers.temp_vram_addr EXCEPT !.coarse_x = value \div Fine]
    <2>1. t \in Position /\ t.fine_y = registers.temp_vram_addr.fine_y
      BY <1>1, <1>2 DEF Position
    <2>2. registers' = [registers EXCEPT !.temp_vram_addr = t,
                                         !.write_toggle = ~registers.write_toggle]
      BY <1>1, <1>3 DEF WriteScroll, Toggled, Registers, Position
    <2> HIDE DEF t
    <2>3. /\ registers' \in Registers /\ registers'.vram_addr = registers.vram_addr
          /\ registers'.temp_vram_addr = t /\ registers'.rendering = registers.rendering
      BY <1>1, <2>1, <2>2 DEF Registers
    <2>4. addressed' = addressed /\ origin' = origin
      BY <1>3 DEF WriteScroll
    <2> QED
      BY <2>1, <2>3, <2>4 DEF Accessed, AddressedInv, TypeOK
  <1>4. CASE registers.write_toggle
    <2> DEFINE t == [registers.temp_vram_addr EXCEPT !.coarse_y = value \div Fine,
                                                     !.fine_y = value % Fine]
    <2>1. t \in Position
      BY <1>1, <1>2 DEF Position
    <2>2. registers' = [registers EXCEPT !.temp_vram_addr = t,
                                         !.write_toggle = ~registers.write_toggle]
      BY <1>1, <1>4 DEF WriteScroll, Toggled, Registers, Position
    <2> HIDE DEF t
    <2>3. /\ registers' \in Registers /\ registers'.vram_addr = registers.vram_addr
          /\ registers'.temp_vram_addr = t /\ registers'.rendering = registers.rendering
      BY <1>1, <2>1, <2>2 DEF Registers
    <2>4. addressed' = [addressed EXCEPT !.temp_vram_addr = FALSE] /\ origin' = origin
      BY <1>4 DEF WriteScroll
    <2> QED
      BY <2>3, <2>4 DEF Accessed, AddressedInv, TypeOK
  <1> QED
    BY <1>3, <1>4 DEF WriteScroll

LEMMA AddrAccess ==
    ASSUME TypeOK, AddressedInv, NEW value \in Written, WriteAddr(value)
    PROVE  Accessed
  <1> DEFINE t == registers.temp_vram_addr
             low == AddrLow(t, value)
             high == AddrHigh(t, value)
  <1>1. registers \in Registers /\ t \in Position /\ (~registers.write_toggle) \in BOOLEAN
    BY DEF TypeOK, Registers
  <1>2. /\ low \in Position /\ (t.fine_y < BusRows => low.fine_y < BusRows)
        /\ high \in Position /\ high.fine_y < BusRows
    BY <1>1, AddrLowFacts, AddrHighFacts
  <1>3. \/ /\ registers' = [registers EXCEPT !.temp_vram_addr = high,
                                             !.write_toggle = ~registers.write_toggle]
           /\ addressed' = [addressed EXCEPT !.temp_vram_addr = TRUE]
           /\ origin' = origin
        \/ /\ registers' = [registers EXCEPT !.temp_vram_addr = low, !.vram_addr = low,
                                             !.write_toggle = ~registers.write_toggle]
           /\ addressed' = [addressed EXCEPT !.vram_addr = addressed.temp_vram_addr]
           /\ origin' = [row |-> NoOrigin, column |-> NoOrigin]
    BY <1>1 DEF WriteAddr, Toggled, Registers
  <1>4. addressed.temp_vram_addr => t.fine_y < BusRows
    BY DEF AddressedInv
  <1>5. addressed.vram_addr => registers.vram_addr.fine_y < BusRows
    BY DEF AddressedInv
  <1> HIDE DEF low, high
  <1> QED
    BY <1>1, <1>2, <1>3, <1>4, <1>5 DEF Accessed, AddressedInv, TypeOK, Registers

LEMMA DataAccess ==
    ASSUME TypeOK, AddressedInv, AccessData
    PROVE  Accessed
  <1> DEFINE address == Address(registers.vram_addr)
             step == IF registers.going_down THEN Coarse ELSE 1
             next == At((address + step) % BusSize)
  <1>1. registers \in Registers /\ registers.vram_addr \in Position
    BY DEF TypeOK, Registers
  <1>2. next \in Position /\ next.fine_y < BusRows
    <2>1. address + step \in Nat
      BY <1>1, AddressBounds, Sizes
    <2> HIDE DEF address, step
    <2>2. (address + step) % BusSize \in 0..BusSize - 1
      BY <2>1, Sizes, Division
    <2> QED
      BY <2>2, AtBounds
  <1>3. addressed' = addressed
    BY DEF AccessData
  <1>4. \/ /\ registers' = [registers EXCEPT !.vram_addr = next]
           /\ origin' = [row |-> NoOrigin, column |-> NoOrigin]
        \/ registers' = registers /\ origin' = origin
    BY DEF AccessData
  <1> HIDE DEF next
  <1> QED
    BY <1>1, <1>2, <1>3, <1>4 DEF Accessed, AddressedInv, TypeOK, Registers

LEMMA AccessFacts ==
    ASSUME TypeOK, AddressedInv, CpuAccess
    PROVE  Accessed /\ scanline' = scanline /\ event' = event /\ panicked' \in BOOLEAN
  <1>1. CASE AccessData
    BY <1>1, DataAccess DEF CpuAccess, AccessData, TypeOK
  <1>2. CASE UNCHANGED panicked /\ \E x \in 0..1, y \in 0..1, down \in BOOLEAN :
                                      WriteControl(x, y, down)
    BY <1>2, ControlAccess DEF CpuAccess, TypeOK
  <1>3. CASE UNCHANGED panicked /\ \E rendering \in BOOLEAN : WriteMask(rendering)
    BY <1>3, MaskAccess DEF CpuAccess, TypeOK
  <1>4. CASE UNCHANGED panicked /\ ReadStatus
    BY <1>4, StatusAccess DEF CpuAccess, TypeOK
  <1>5. CASE UNCHANGED panicked /\ \E value \in Written : WriteScroll(value) \/ WriteAddr(value)
    BY <1>5, ScrollAccess, AddrAccess DEF CpuAccess, TypeOK
  <1> QED
    BY <1>1, <1>2, <1>3, <1>4, <1>5 DEF CpuAccess

\* An access that leaves the origin leaves the beam and vram_addr too.
LEMMA AccessStep ==
    ASSUME IInv, CpuAccess
    PROVE  IInv'
  <1>1. Accessed /\ scanline' = scanline /\ event' = event /\ panicked' \in BOOLEAN
    BY AccessFacts DEF IInv
  <1>2. AddressedInv' /\ IdleInv'
    BY <1>1 DEF IInv, Accessed, IdleInv, Idle
  <1>3. NoOrigin \in Nat
    BY Sizes DEF NoOrigin
  <1>4. TypeOK'
    BY <1>1, <1>3 DEF IInv, TypeOK, Accessed, Registers
  <1>5. RenderingInv'
    BY <1>1 DEF IInv, Accessed, RenderingInv
  <1>6. RowInv'
    BY <1>1 DEF IInv, Accessed, RowInv, RowDrawn, LinesDrawn
  <1>7. ColumnInv'
    BY <1>1 DEF IInv, Accessed, ColumnInv, TilesFetched
  <1> QED
    BY <1>2, <1>4, <1>5, <1>6, <1>7 DEF IInv

\* A beam that goes one further in a ring of m is one further from where it began.
LEMMA OneFurther ==
    ASSUME NEW m \in Nat \ {0}, NEW start \in Nat, NEW n \in Nat, NEW at, NEW next,
           at = (start + n) % m,
           next = IF at + 1 = m THEN 0 ELSE at + 1
    PROVE  next = (start + (n + 1)) % m
  <1>1. start + n \in Nat /\ start + (n + 1) = (start + n) + 1
    OBVIOUS
  <1>2. ((start + n) + 1) % m = IF ((start + n) % m) + 1 = m THEN 0 ELSE ((start + n) % m) + 1
    BY <1>1, ModNext
  <1> QED
    BY <1>1, <1>2

LEMMA AtOrigin ==
    ASSUME NEW m \in Nat \ {0}, NEW start \in 0..m - 1
    PROVE  (start + 0) % m = start
  <1>1. start \in Nat /\ start < m /\ start + 0 = start
    OBVIOUS
  <1> QED
    BY <1>1, ModNext

\* A dot that draws, with what it does to vram_addr and to the origin.
Draws ==
    /\ ~panicked /\ ~Idle
    /\ event < LastEvent /\ event' = event + 1
    /\ registers.rendering
    /\ registers' = [registers EXCEPT !.vram_addr = AfterEvent(event')]
    /\ origin' = OriginAfter(event')
    /\ addressed' = [addressed EXCEPT !.vram_addr = FALSE]
    /\ scanline' = scanline /\ panicked' = panicked

LEMMA Counters ==
    ASSUME TypeOK
    PROVE  /\ event \in Nat /\ scanline \in Nat /\ scanline <= LastVisible + 2
           /\ LastVisible \in Nat /\ Tiles \in Nat \ {0} /\ event <= Tiles + 5
           /\ TilesFetched \in Nat /\ LinesDrawn \in Nat
  <1>1. /\ event \in Nat /\ scanline \in Nat /\ scanline <= LastVisible + 2
        /\ LastVisible \in Nat /\ Tiles \in Nat \ {0} /\ event <= Tiles + 5
    BY Sizes DEF TypeOK, LastEvent, PreRender
  <1>2. TilesFetched \in Nat
    BY <1>1 DEF TilesFetched, Prefetch
  <1>3. LinesDrawn \in Nat
    BY <1>1 DEF LinesDrawn, PreRender
  <1> QED
    BY <1>1, <1>2, <1>3

\* The four kinds of dots that draw.
LEMMA DrawsCases ==
    ASSUME IInv, Draws
    PROVE  LET v == registers.vram_addr
               t == registers.temp_vram_addr
               w == registers'.vram_addr
           IN  \/ /\ event' < Tiles \/ event' \in Prefetch
                  /\ w = IncrementX(v) /\ origin' = origin
               \/ event' = Tiles /\ w = IncrementY(IncrementX(v)) /\ origin' = origin
               \/ /\ event' = Tiles + 1 /\ w = WithColumn(v, t)
                  /\ origin' = [row |-> origin.row, column |-> Column(t)]
               \/ /\ event' \in CopyY /\ scanline # PreRender /\ w = v /\ origin' = origin
               \/ /\ event' \in CopyY /\ scanline = PreRender /\ w = WithRow(v, t)
                  /\ origin' = [row |-> IF t.coarse_y < Rows THEN Row(t) ELSE NoOrigin,
                                column |-> origin.column]
  <1> DEFINE v == registers.vram_addr
             t == registers.temp_vram_addr
  <1>1. event' \in Nat \ {0} /\ event' <= Tiles + 5 /\ Tiles \in Nat \ {0}
    BY Counters DEF IInv, Draws, LastEvent
  <1>2. registers'.vram_addr = AfterEvent(event') /\ origin' = OriginAfter(event')
    BY DEF IInv, TypeOK, Draws
  <1>3. origin = [row |-> origin.row, column |-> origin.column]
    BY DEF IInv, TypeOK
  <1>4. CASE event' < Tiles \/ event' \in Prefetch
    <2>1. event' \in (1..Tiles - 1) \cup Prefetch /\ event' # CopyX /\ event' \notin CopyY
          /\ event' # Tiles
      BY <1>1, <1>4 DEF Prefetch, CopyX, CopyY
    <2>2. AfterEvent(event') = IncrementX(v)
      BY <2>1 DEF AfterEvent
    <2>3. OriginAfter(event') = origin
      BY <1>3, <2>1 DEF OriginAfter
    <2> QED
      BY <1>2, <1>4, <2>2, <2>3
  <1>5. CASE event' = Tiles
    <2>1. event' \notin (1..Tiles - 1) \cup Prefetch /\ event' # CopyX /\ event' \notin CopyY
      BY <1>1, <1>5 DEF Prefetch, CopyX, CopyY
    <2>2. AfterEvent(event') = IncrementY(IncrementX(v))
      BY <1>5, <2>1 DEF AfterEvent
    <2>3. OriginAfter(event') = origin
      BY <1>3, <2>1 DEF OriginAfter
    <2> QED
      BY <1>2, <1>5, <2>2, <2>3
  <1>6. CASE event' = Tiles + 1
    <2>1. event' \notin (1..Tiles - 1) \cup Prefetch /\ event' = CopyX /\ event' \notin CopyY
          /\ event' # Tiles
      BY <1>1, <1>6 DEF Prefetch, CopyX, CopyY
    <2>2. AfterEvent(event') = WithColumn(v, t)
      BY <2>1 DEF AfterEvent
    <2>3. OriginAfter(event') = [row |-> origin.row, column |-> Column(t)]
      BY <2>1 DEF OriginAfter
    <2> QED
      BY <1>2, <1>6, <2>2, <2>3
  <1>7. CASE event' \in CopyY
    <2>1. event' \notin (1..Tiles - 1) \cup Prefetch /\ event' # CopyX /\ event' # Tiles
      BY <1>1, <1>7 DEF Prefetch, CopyX, CopyY
    <2>2. AfterEvent(event') = IF scanline = PreRender THEN WithRow(v, t) ELSE v
      BY <1>7, <2>1 DEF AfterEvent
    <2>3. scanline # PreRender => OriginAfter(event') = origin
      BY <1>3, <2>1 DEF OriginAfter
    <2>4. scanline = PreRender =>
            OriginAfter(event') = [row |-> IF t.coarse_y < Rows THEN Row(t) ELSE NoOrigin,
                                   column |-> origin.column]
      BY <1>7, <2>1 DEF OriginAfter
    <2> QED
      BY <1>2, <1>7, <2>2, <2>3, <2>4
  <1>8. \/ event' < Tiles \/ event' \in Prefetch \/ event' = Tiles \/ event' = Tiles + 1
        \/ event' \in CopyY
    BY <1>1 DEF Prefetch, CopyY
  <1> QED
    BY <1>4, <1>5, <1>6, <1>7, <1>8

\* The dots move the column one tile on, back to temp_vram_addr's, or not at all.
LEMMA DrawsColumn ==
    ASSUME IInv, Draws
    PROVE  ColumnInv'
  <1> DEFINE v == registers.vram_addr
             t == registers.temp_vram_addr
             w == registers'.vram_addr
  <1>1. v \in Position /\ t \in Position
    BY DEF IInv, TypeOK
  <1>2. event' = event + 1 /\ event \in Nat /\ Tiles \in Nat \ {0} /\ TilesFetched \in Nat
        /\ event' <= Tiles + 5
    BY Counters DEF IInv, Draws, LastEvent
  <1>3. ASSUME TilesFetched' = TilesFetched + 1, origin'.column = origin.column,
               Column(w) = IF Column(v) + 1 = AllColumns THEN 0 ELSE Column(v) + 1
        PROVE  ColumnInv'
    <2>1. SUFFICES ASSUME origin.column # NoOrigin
                   PROVE  /\ origin.column \in 0..AllColumns - 1
                          /\ Column(w) = (origin.column + TilesFetched') % AllColumns
      BY <1>3 DEF ColumnInv, Column
    <2>2. /\ origin.column \in 0..AllColumns - 1
          /\ Column(v) = (origin.column + TilesFetched) % AllColumns
      BY <2>1 DEF IInv, ColumnInv
    <2>3. origin.column \in Nat /\ AllColumns \in Nat \ {0}
      BY <2>2, AllSizes
    <2> DEFINE start == origin.column
               at == Column(v)
               next == Column(w)
               n == TilesFetched
    <2>4. at = (start + n) % AllColumns /\ next = IF at + 1 = AllColumns THEN 0 ELSE at + 1
      BY <1>3, <2>2
    <2>5. start \in Nat /\ n \in Nat
      BY <1>2, <2>3
    <2>6. next = (start + (n + 1)) % AllColumns
      <3> HIDE DEF start, at, next, n
      <3> QED
        BY <2>3, <2>4, <2>5, OneFurther, ZenonT(60)
    <2> QED
      BY <1>3, <2>2, <2>6
  <1>4. CASE event' < Tiles \/ event' \in Prefetch
    <2>1. TilesFetched' = TilesFetched + 1
      BY <1>2, <1>4 DEF TilesFetched, Prefetch
    <2>2. w = IncrementX(v) /\ origin' = origin
      BY <1>2, <1>4, DrawsCases DEF Prefetch, CopyY
    <2> QED
      BY <1>1, <1>3, <2>1, <2>2, NextColumn
  <1>5. CASE event' = Tiles
    <2>1. TilesFetched' = TilesFetched + 1
      BY <1>2, <1>5 DEF TilesFetched, Prefetch
    <2>2. w = IncrementY(IncrementX(v)) /\ origin' = origin
      BY <1>2, <1>5, DrawsCases DEF Prefetch, CopyY
    <2> QED
      BY <1>1, <1>3, <2>1, <2>2, NextColumn, NextRow
  <1>6. CASE event' = Tiles + 1
    <2>1. TilesFetched' = 0
      BY <1>2, <1>6 DEF TilesFetched, Prefetch
    <2>2. w = WithColumn(v, t) /\ origin' = [row |-> origin.row, column |-> Column(t)]
      BY <1>2, <1>6, DrawsCases DEF Prefetch, CopyY
    <2>3. Column(w) = Column(t) /\ Column(t) \in 0..AllColumns - 1
      BY <1>1, <2>2, CopyFacts, ColumnBounds
    <2>4. (Column(t) + 0) % AllColumns = Column(t)
      BY <2>3, AllSizes, AtOrigin
    <2>5. origin'.column = Column(t)
      BY <2>2
    <2> QED
      BY <2>1, <2>3, <2>4, <2>5 DEF ColumnInv, Column
  <1>7. CASE event' \in CopyY
    <2>1. TilesFetched' = 0 /\ TilesFetched = 0
      BY <1>2, <1>7 DEF TilesFetched, Prefetch, CopyY
    <2>2. (w = v \/ w = WithRow(v, t)) /\ origin'.column = origin.column
      BY <1>2, <1>7, DrawsCases DEF Prefetch, CopyY
    <2>3. Column(w) = Column(v)
      BY <1>1, <2>2, CopyFacts
    <2> QED
      BY <2>1, <2>2, <2>3 DEF IInv, ColumnInv, Column
  <1> QED
    BY <1>2, <1>4, <1>5, <1>6, <1>7 DEF Prefetch, CopyY

\* In the frame they move the row one on at the end of the line; the pre-render line copies it.
LEMMA DrawsRow ==
    ASSUME IInv, Draws
    PROVE  RowInv'
  <1> DEFINE v == registers.vram_addr
             t == registers.temp_vram_addr
             w == registers'.vram_addr
  <1>1. v \in Position /\ t \in Position
    BY DEF IInv, TypeOK
  <1>2. /\ event' = event + 1 /\ event \in Nat /\ Tiles \in Nat \ {0} /\ event' <= Tiles + 5
        /\ scanline' = scanline /\ scanline \in Nat /\ LastVisible \in Nat /\ LinesDrawn \in Nat
    BY Counters DEF IInv, Draws, LastEvent
  <1>3. ASSUME RowDrawn' => RowDrawn /\ LinesDrawn' = LinesDrawn, origin'.row = origin.row,
               Row(w) = Row(v), w.coarse_y = v.coarse_y
        PROVE  RowInv'
    <2>1. SUFFICES ASSUME RowDrawn', origin.row # NoOrigin
                   PROVE  /\ origin.row \in 0..AllRows - 1 /\ w.coarse_y < Rows
                          /\ Row(w) = (origin.row + LinesDrawn') % AllRows
      BY <1>3 DEF RowInv, Row
    <2> QED
      BY <1>3, <2>1 DEF IInv, RowInv
  <1>4. CASE event' < Tiles \/ event' \in Prefetch
    <2>1. RowDrawn' => RowDrawn /\ LinesDrawn' = LinesDrawn
      BY <1>2, <1>4 DEF RowDrawn, LinesDrawn, Prefetch, PreRender
    <2>2. w = IncrementX(v) /\ origin' = origin
      BY <1>2, <1>4, DrawsCases DEF Prefetch, CopyY
    <2> QED
      BY <1>1, <1>3, <2>1, <2>2, NextColumn
  <1>5. CASE event' = Tiles
    <2>1. w = IncrementY(IncrementX(v)) /\ origin' = origin
      BY <1>2, <1>5, DrawsCases DEF Prefetch, CopyY
    <2>2. SUFFICES ASSUME RowDrawn', origin.row # NoOrigin
                   PROVE  /\ origin.row \in 0..AllRows - 1 /\ w.coarse_y < Rows
                          /\ Row(w) = (origin.row + LinesDrawn') % AllRows
      BY <2>1 DEF RowInv, Row
    <2>3. scanline <= LastVisible /\ RowDrawn /\ LinesDrawn' = LinesDrawn + 1
      BY <1>2, <1>5, <2>2 DEF RowDrawn, LinesDrawn, PreRender
    <2>4. /\ origin.row \in 0..AllRows - 1 /\ v.coarse_y < Rows
          /\ Row(v) = (origin.row + LinesDrawn) % AllRows
      BY <2>2, <2>3 DEF IInv, RowInv
    <2>5. /\ w.coarse_y < Rows
          /\ Row(w) = IF Row(v) + 1 = AllRows THEN 0 ELSE Row(v) + 1
      <3> DEFINE u == IncrementX(v)
      <3>1. u \in Position /\ Row(u) = Row(v) /\ u.coarse_y < Rows
        BY <1>1, <2>4, NextColumn
      <3>2. w = IncrementY(u)
        BY <2>1
      <3> HIDE DEF u, v, w
      <3> QED
        BY <3>1, <3>2, NextRow
    <2> DEFINE start == origin.row
               at == Row(v)
               next == Row(w)
               n == LinesDrawn
    <2>6. start \in Nat /\ n \in Nat /\ AllRows \in Nat \ {0}
      BY <1>2, <2>4, AllSizes
    <2>7. at = (start + n) % AllRows /\ next = IF at + 1 = AllRows THEN 0 ELSE at + 1
      BY <2>4, <2>5
    <2>8. next = (start + (n + 1)) % AllRows
      <3> HIDE DEF start, at, next, n
      <3> QED
        BY <2>6, <2>7, OneFurther, ZenonT(60)
    <2> QED
      BY <2>3, <2>4, <2>5, <2>8
  <1>6. CASE event' = Tiles + 1
    <2>1. RowDrawn' => RowDrawn /\ LinesDrawn' = LinesDrawn
      BY <1>2, <1>6 DEF RowDrawn, LinesDrawn, PreRender
    <2>2. w = WithColumn(v, t) /\ origin'.row = origin.row
      BY <1>2, <1>6, DrawsCases DEF Prefetch, CopyY
    <2> QED
      BY <1>1, <1>3, <2>1, <2>2, CopyFacts
  <1>7. CASE event' \in CopyY /\ scanline # PreRender
    <2>1. RowDrawn' => RowDrawn /\ LinesDrawn' = LinesDrawn
      BY <1>2, <1>7 DEF RowDrawn, LinesDrawn, PreRender, CopyY
    <2>2. w = v /\ origin' = origin
      BY <1>2, <1>7, DrawsCases DEF Prefetch, CopyY
    <2> QED
      BY <1>3, <2>1, <2>2
  <1>8. CASE event' \in CopyY /\ scanline = PreRender
    <2>1. LinesDrawn' = 0
      BY <1>2, <1>8 DEF LinesDrawn
    <2>2. /\ w = WithRow(v, t)
          /\ origin' = [row |-> IF t.coarse_y < Rows THEN Row(t) ELSE NoOrigin,
                        column |-> origin.column]
      BY <1>2, <1>8, DrawsCases DEF Prefetch, CopyY
    <2>3. Row(w) = Row(t) /\ w.coarse_y = t.coarse_y
      BY <1>1, <2>2, CopyFacts
    <2>4. t.coarse_y < Rows => Row(t) \in 0..AllRows - 1 /\ (Row(t) + 0) % AllRows = Row(t)
      BY <1>1, RowBounds, AllSizes, AtOrigin
    <2>5. origin'.row # NoOrigin => origin'.row = Row(t) /\ t.coarse_y < Rows
      BY <2>2
    <2> QED
      BY <2>1, <2>3, <2>4, <2>5 DEF RowInv, Row
  <1> QED
    BY <1>2, <1>4, <1>5, <1>6, <1>7, <1>8 DEF Prefetch, CopyY

LEMMA DrawsStep ==
    ASSUME IInv, Draws
    PROVE  IInv'
  <1> DEFINE v == registers.vram_addr
             t == registers.temp_vram_addr
             w == registers'.vram_addr
  <1>1. registers \in Registers /\ v \in Position /\ t \in Position
    BY DEF IInv, TypeOK, Registers
  <1>2. w \in Position
    <2>1. \/ w = IncrementX(v) \/ w = IncrementY(IncrementX(v)) \/ w = WithColumn(v, t)
          \/ w = v \/ w = WithRow(v, t)
      BY DrawsCases
    <2>2. IncrementX(v) \in Position /\ IncrementY(IncrementX(v)) \in Position
      BY <1>1, NextColumn, NextRow
    <2>3. WithColumn(v, t) \in Position /\ WithRow(v, t) \in Position
      BY <1>1, CopyFacts
    <2> QED
      BY <1>1, <2>1, <2>2, <2>3
  <1>3. registers' \in Registers /\ registers'.temp_vram_addr = t /\ registers'.rendering
    BY <1>1, <1>2 DEF Draws, Registers
  <1>4. event' \in 0..LastEvent /\ scanline' = scanline /\ panicked' = panicked
    BY Counters DEF IInv, Draws, LastEvent
  <1>5. addressed' \in [vram_addr : BOOLEAN, temp_vram_addr : BOOLEAN]
        /\ ~addressed'.vram_addr /\ addressed'.temp_vram_addr = addressed.temp_vram_addr
    BY DEF IInv, TypeOK, Draws
  <1>6. origin' \in [row : 0..NoOrigin, column : 0..NoOrigin]
    <2>1. origin.row \in 0..NoOrigin /\ origin.column \in 0..NoOrigin /\ NoOrigin \in Nat
      BY Sizes DEF IInv, TypeOK, NoOrigin
    <2>2. Column(t) \in 0..NoOrigin /\ (t.coarse_y < Rows => Row(t) \in 0..NoOrigin)
      BY <1>1, <2>1, ColumnBounds, RowBounds, AllSizes
    <2>3. \/ origin' = origin
          \/ origin' = [row |-> origin.row, column |-> Column(t)]
          \/ origin' = [row |-> IF t.coarse_y < Rows THEN Row(t) ELSE NoOrigin,
                        column |-> origin.column]
      BY DrawsCases
    <2> QED
      BY <2>1, <2>2, <2>3 DEF IInv, TypeOK
  <1>7. TypeOK'
    BY <1>3, <1>4, <1>5, <1>6 DEF IInv, TypeOK, Registers
  <1>8. AddressedInv' /\ IdleInv' /\ RenderingInv'
    BY <1>3, <1>4, <1>5 DEF IInv, AddressedInv, IdleInv, Idle, RenderingInv, Draws
  <1> QED
    BY <1>7, <1>8, DrawsColumn, DrawsRow DEF IInv

\* With rendering off nothing has an origin, so only the counters matter.
LEMMA DotStep ==
    ASSUME IInv, Dot
    PROVE  IInv'
  <1>1. CASE registers.rendering
    BY <1>1, DrawsStep DEF Dot, Draws
  <1>2. CASE ~registers.rendering
    <2>1. registers' = registers /\ origin' = origin /\ addressed' = addressed
          /\ scanline' = scanline /\ panicked' = panicked /\ ~Idle
      BY <1>2 DEF Dot
    <2>2. event' \in 0..LastEvent
      BY Counters DEF IInv, Dot, LastEvent
    <2>3. origin.row = NoOrigin /\ origin.column = NoOrigin
      BY <1>2 DEF IInv, RenderingInv
    <2> QED
      BY <2>1, <2>2, <2>3 DEF IInv, TypeOK, AddressedInv, IdleInv, Idle, RenderingInv, RowInv,
                              ColumnInv
  <1> QED
    BY <1>1, <1>2

LEMMA NextLineStep ==
    ASSUME IInv, NextLine
    PROVE  IInv'
  <1>1. /\ event \in Nat /\ scanline \in Nat /\ scanline <= LastVisible + 2
        /\ LastVisible \in Nat /\ Tiles \in Nat \ {0}
    BY Counters DEF IInv
  <1>2. /\ registers' = registers /\ origin' = origin /\ addressed' = addressed
        /\ panicked' = panicked /\ event' = 0
        /\ scanline' = IF scanline < LastVisible + 2 THEN scanline + 1 ELSE 0
        /\ event = Tiles + 5 \/ (event = 0 /\ scanline = LastVisible + 1)
    BY DEF NextLine, PreRender, LastEvent, IInv, IdleInv, Idle
  <1>3. scanline' \in 0..PreRender /\ event' \in 0..LastEvent
    BY <1>1, <1>2 DEF PreRender, LastEvent
  <1>4. TypeOK' /\ AddressedInv' /\ IdleInv' /\ RenderingInv'
    BY <1>2, <1>3 DEF IInv, TypeOK, AddressedInv, IdleInv, RenderingInv
  <1>5. TilesFetched' = TilesFetched
    BY <1>1, <1>2 DEF TilesFetched, Prefetch
  <1>6. ColumnInv'
    BY <1>2, <1>5 DEF IInv, ColumnInv
  <1>7. RowDrawn' => RowDrawn /\ LinesDrawn' = LinesDrawn
    BY <1>1, <1>2 DEF RowDrawn, LinesDrawn, PreRender
  <1>8. RowInv'
    BY <1>2, <1>7 DEF IInv, RowInv
  <1> QED
    BY <1>4, <1>6, <1>8 DEF IInv

LEMMA Initially == Init => IInv
  <1> SUFFICES ASSUME Init
               PROVE  IInv
    OBVIOUS
  <1>1. NoOrigin \in Nat
    BY Sizes DEF NoOrigin
  <1>2. TypeOK
    <2> DEFINE zero == [fine_y |-> 0, nametable_y |-> 0, nametable_x |-> 0,
                        coarse_y |-> 0, coarse_x |-> 0]
    <2>1. zero \in Position
      BY Sizes DEF Position
    <2>2. registers = [vram_addr |-> zero, temp_vram_addr |-> zero, write_toggle |-> FALSE,
                       going_down |-> FALSE, rendering |-> FALSE]
      BY DEF Init
    <2> HIDE DEF zero
    <2>3. scanline \in 0..PreRender /\ event \in 0..LastEvent
      BY Sizes DEF Init, PreRender, LastEvent
    <2> QED
      <3>1. registers \in [vram_addr : Position, temp_vram_addr : Position,
                           write_toggle : BOOLEAN, going_down : BOOLEAN, rendering : BOOLEAN]
        BY <2>1, <2>2
      <3>2. origin \in [row : 0..NoOrigin, column : 0..NoOrigin]
        <4>1. NoOrigin \in 0..NoOrigin
          BY <1>1
        <4> QED
          BY <4>1 DEF Init
      <3>3. addressed \in [vram_addr : BOOLEAN, temp_vram_addr : BOOLEAN]
            /\ panicked \in BOOLEAN
        BY DEF Init
      <3> QED
        BY <2>3, <3>1, <3>2, <3>3 DEF TypeOK
  <1> QED
    BY <1>2 DEF Init, IInv, AddressedInv, IdleInv, RenderingInv, RowInv, ColumnInv

LEMMA Step == IInv /\ [Next]_vars => IInv'
  <1> SUFFICES ASSUME IInv, [Next]_vars
               PROVE  IInv'
    OBVIOUS
  <1>1. CASE UNCHANGED vars
    BY <1>1 DEF vars, IInv, TypeOK, AddressedInv, IdleInv, Idle, RenderingInv, RowInv, RowDrawn,
                LinesDrawn, ColumnInv, TilesFetched
  <1> QED
    BY <1>1, AccessStep, DotStep, NextLineStep DEF Next

-----------------------------------------------------------------------------
(* Theorems *)

\* The inductive invariant: the row and the column of vram_addr are those of the beam, counted
\* from where the frame and the line began, in the lines that are not shown as well.
THEOREM Inductive == Spec => []IInv
  BY Initially, Step, PTL DEF Spec

\* Every address the registers hold is one of its fields' widths, whatever is written to them.
THEOREM TypeCorrect == Spec => []TypeOK
  <1>1. IInv => TypeOK
    BY DEF IInv
  <1> QED
    BY <1>1, Inductive, PTL

\* Drawing follows the scroll registers across the edges of the nametables, for every size of
\* nametable and frame (vram_addr's increments and copies in ppu/mod.rs).
THEOREM DrawingFollowsScroll == Spec => []ScrollFollowsBeam
  <1>1. IInv => ScrollFollowsBeam
    <2> SUFFICES ASSUME IInv, scanline <= LastVisible
                 PROVE  ScrollFollowsBeam
      BY DEF ScrollFollowsBeam
    <2>1. /\ event \in Nat /\ scanline \in Nat /\ LastVisible \in Nat /\ Tiles \in Nat \ {0}
          /\ event <= Tiles + 5
      BY Counters DEF IInv
    <2>2. ASSUME origin.row # NoOrigin
          PROVE  Row(registers.vram_addr) =
                   (origin.row + scanline + (IF event >= Tiles THEN 1 ELSE 0))
                      % (2 * Rows * Fine)
      <3>1. /\ origin.row \in 0..AllRows - 1
            /\ Row(registers.vram_addr) = (origin.row + LinesDrawn) % AllRows
        BY <2>1, <2>2 DEF IInv, RowInv, RowDrawn
      <3>2. LinesDrawn = scanline + (IF event >= Tiles THEN 1 ELSE 0)
        BY <2>1 DEF LinesDrawn, PreRender
      <3>3. origin.row + LinesDrawn = origin.row + scanline + (IF event >= Tiles THEN 1 ELSE 0)
        BY <2>1, <3>1, <3>2, AllSizes
      <3> QED
        BY <3>1, <3>3 DEF AllRows
    <2>3. TilesFetched = CASE event <= Tiles -> event + 2
                           [] event \in Prefetch -> event - Tiles - 3
                           [] OTHER -> 0
      BY <2>1 DEF TilesFetched, Prefetch
    <2> QED
      BY <2>2, <2>3 DEF ScrollFollowsBeam, IInv, ColumnInv, AllColumns
  <1> QED
    BY <1>1, Inductive, PTL

\* PPUDATA never stops the program at an address that two writes of PPUADDR set, however far it
\* goes on from there (the panic of the memory bus beyond 14 bits).
THEOREM AddressedAccessIsSafe == Spec => AddressedDataIsSafe
  <1>1. IInv /\ [Next]_vars => [addressed.vram_addr => ~panicked']_vars
    <2> SUFFICES ASSUME IInv, Next, addressed.vram_addr
                 PROVE  ~panicked'
      OBVIOUS
    <2>1. Address(registers.vram_addr) < BusSize
      <3>1. registers.vram_addr \in Position /\ registers.vram_addr.fine_y < BusRows
        BY DEF IInv, TypeOK, AddressedInv
      <3> QED
        BY <3>1, AddressBounds, Sizes
    <2>2. Address(registers.vram_addr) \in Nat /\ BusSize \in Nat
      BY AddressBounds, Sizes DEF IInv, TypeOK
    <2> QED
      BY <2>1, <2>2 DEF Next, CpuAccess, AccessData, Dot, NextLine
  <1> QED
    BY <1>1, Inductive, PTL DEF Spec, AddressedDataIsSafe
=============================================================================
