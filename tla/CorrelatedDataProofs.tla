------------------------ MODULE CorrelatedDataProofs ------------------------
(***************************************************************************)
(* Theorems about CorrelatedData, for any number of antennas, channels and *)
(* blocks: the loops of read_correlated_data.py that name the rows, the    *)
(* index that takes the samples out of the file, and the phases agree on   *)
(* one order of the baselines.                                             *)
(*                                                                         *)
(* That order is PairOf, the inverse of a pair's place in the triangle of  *)
(* the antennas' matrix; InOrderIs says that nested loops go through it.   *)
(***************************************************************************)
EXTENDS CorrelatedData, SequenceTheorems, FiniteSetTheorems, FunctionTheorems, Induction, TLAPS

(* Division by a positive number. *)
LEMMA Division ==
    ASSUME NEW x \in Nat, NEW m \in Nat \ {0}
    PROVE  /\ x \div m \in Nat /\ x % m \in 0 .. m - 1
           /\ x = m * (x \div m) + (x % m)
OBVIOUS

(* Quotient and remainder are the only ones. *)
LEMMA Divided ==
    ASSUME NEW a \in Nat, NEW b \in Nat, NEW m \in Nat \ {0}, b < m
    PROVE  (m * a + b) \div m = a /\ (m * a + b) % m = b
<1>1. (m * a + b) \div m = a
  OBVIOUS
<1>2. (m * a + b) % m = b
  OBVIOUS
<1> QED BY <1>1, <1>2

(* The triangular numbers. *)
LEMMA TriangleIs ==
    ASSUME NEW n \in Nat
    PROVE  Triangle(n) \in Nat /\ 2 * Triangle(n) = n * (n + 1)
<1>1. PICK q \in Nat, r \in 0 .. 1 : n = 2 * q + r
  <2>1. n = 2 * (n \div 2) + (n % 2) /\ n \div 2 \in Nat /\ n % 2 \in 0 .. 1
    BY Division
  <2> QED BY <2>1
<1>2. CASE r = 0
  <2>1. n * (n + 1) = 2 * (q * (n + 1)) /\ q * (n + 1) \in Nat
    BY <1>1, <1>2
  <2> QED BY <2>1 DEF Triangle
<1>3. CASE r = 1
  <2>1. n + 1 = 2 * (q + 1)
    BY <1>1, <1>3
  <2>2. n * (2 * (q + 1)) = 2 * (n * (q + 1)) /\ n * (q + 1) \in Nat
    OBVIOUS
  <2>3. n * (n + 1) = 2 * (n * (q + 1))
    BY <2>1, <2>2
  <2>4. \A y \in Nat : (2 * y) \div 2 = y
    OBVIOUS
  <2> QED BY <2>2, <2>3, <2>4 DEF Triangle
<1> QED BY <1>1, <1>2, <1>3

(* The rows of a triangle come one after the other. *)
LEMMA TriangleRows ==
    ASSUME NEW i \in Nat, NEW j \in Nat, i < j
    PROVE  Triangle(i) + i < Triangle(j)
<1>1. /\ 2 * Triangle(i) = i * (i + 1) /\ 2 * Triangle(j) = j * (j + 1)
      /\ Triangle(i) \in Nat /\ Triangle(j) \in Nat
  BY TriangleIs
<1>2. (i + 1) * (i + 2) <= j * (j + 1)
  OBVIOUS
<1>3. (i + 1) * (i + 2) = i * (i + 1) + 2 * i + 2
  OBVIOUS
<1> QED BY <1>1, <1>2, <1>3

(* Pairs are compared by their place in the triangle. *)
LEMMA PlacesDiffer ==
    ASSUME NEW i \in Nat, NEW j \in Nat, NEW a \in Nat, NEW b \in Nat, j <= i, b <= a
    PROVE  (i < a \/ (i = a /\ j < b)) <=> Triangle(i) + j < Triangle(a) + b
<1>1. Triangle(i) \in Nat /\ Triangle(a) \in Nat
  BY TriangleIs
<1>2. i < a => Triangle(i) + i < Triangle(a)
  BY TriangleRows
<1>3. a < i => Triangle(a) + a < Triangle(i)
  BY TriangleRows
<1> QED BY <1>1, <1>2, <1>3

(* Every number is the place of a pair. *)
LEMMA PairAt ==
    ASSUME NEW k \in Nat
    PROVE  \E i \in 0 .. k : \E j \in 0 .. i : Triangle(i) + j = k
<1> DEFINE S == {i \in 0 .. k : Triangle(i) <= k}
<1>1. \A i \in Nat : Triangle(i) \in Nat
  BY TriangleIs
<1>2. 0 \in S
  BY TriangleIs
<1>3. PICK i \in S : \A m \in S : m <= i
  BY <1>2, GreatestNatural
<1>4. i \in 0 .. k /\ Triangle(i) <= k
  OBVIOUS
<1>5. Triangle(i + 1) = Triangle(i) + i + 1
  <2>1. 2 * Triangle(i) = i * (i + 1) /\ 2 * Triangle(i + 1) = (i + 1) * (i + 2)
    BY <1>4, TriangleIs
  <2> QED BY <1>1, <1>4, <2>1
<1>6. Triangle(i + 1) > k
  <2>1. CASE i + 1 \in 0 .. k
    <3>1. i + 1 \notin S
      BY <1>3, <1>4
    <3> QED BY <1>1, <1>4, <2>1, <3>1
  <2>2. CASE i + 1 \notin 0 .. k
    BY <1>1, <1>4, <1>5, <2>2
  <2> QED BY <2>1, <2>2
<1>7. k - Triangle(i) \in 0 .. i
  BY <1>1, <1>4, <1>5, <1>6
<1> QED BY <1>1, <1>4, <1>7

(* PairOf() is the inverse of the place in the triangle. *)
LEMMA PairOfIs ==
    ASSUME NEW k \in Nat
    PROVE  /\ PairOf(k) \in (0 .. k) \X (0 .. k)
           /\ PairOf(k)[2] <= PairOf(k)[1]
           /\ Triangle(PairOf(k)[1]) + PairOf(k)[2] = k
<1>1. PICK i \in 0 .. k, j \in 0 .. k : j <= i /\ Triangle(i) + j = k
  BY PairAt
<1>2. <<i, j>> \in (0 .. k) \X (0 .. k)
  OBVIOUS
<1> QED BY <1>1, <1>2 DEF PairOf

(* A pair is the one at its place. *)
LEMMA PairOfPlace ==
    ASSUME NEW i \in Nat, NEW j \in Nat, j <= i
    PROVE  PairOf(Triangle(i) + j) = <<i, j>>
<1> DEFINE k == Triangle(i) + j
<1>1. k \in Nat
  BY TriangleIs
<1> HIDE DEF k
<1>2. PICK a \in Nat, b \in Nat : b <= a /\ PairOf(k) = <<a, b>> /\ Triangle(a) + b = k
  BY <1>1, PairOfIs
<1>3. Triangle(a) + b = Triangle(i) + j
  BY <1>2 DEF k
<1>4. Triangle(a) \in Nat /\ Triangle(i) \in Nat
  BY TriangleIs
<1>5. a = i /\ b = j
  BY <1>2, <1>3, <1>4, PlacesDiffer
<1> QED BY <1>2, <1>5 DEF k

(* The pairs of a triangle with n rows. *)
Pairs(n) == {p \in (0 .. n - 1) \X (0 .. n - 1) : p[2] <= p[1]}

(* The pairs before a pair. *)
Before(pairs, p) == {q \in pairs : q[1] < p[1] \/ (q[1] = p[1] /\ q[2] < p[2])}

(* As many pairs are before a pair as its place says. *)
LEMMA BeforeCount ==
    ASSUME NEW n \in Nat, NEW p \in Pairs(n)
    PROVE  /\ Triangle(p[1]) + p[2] \in Nat
           /\ Cardinality(Before(Pairs(n), p)) = Triangle(p[1]) + p[2]
<1> DEFINE r == Triangle(p[1]) + p[2]
           f == [k \in 0 .. r - 1 |-> PairOf(k)]
           B == Before(Pairs(n), p)
<1>1. /\ p[1] \in 0 .. n - 1 /\ p[1] \in Nat /\ p[2] \in Nat /\ p[2] <= p[1]
      /\ p = <<p[1], p[2]>>
  BY DEF Pairs
<1>2. Triangle(p[1]) \in Nat /\ r \in Nat
  <2>1. Triangle(p[1]) \in Nat
    BY <1>1, TriangleIs
  <2> QED BY <1>1, <2>1
<1>3. \A k \in 0 .. r - 1 : f[k] \in B
  <2> SUFFICES ASSUME NEW k \in 0 .. r - 1 PROVE PairOf(k) \in B
      OBVIOUS
  <2>1. PICK i \in Nat, j \in Nat : j <= i /\ PairOf(k) = <<i, j>> /\ Triangle(i) + j = k
    BY <1>2, PairOfIs
  <2>2. i < p[1] \/ (i = p[1] /\ j < p[2])
    <3>1. Triangle(i) + j < Triangle(p[1]) + p[2]
      BY <1>2, <2>1
    <3> QED BY <1>1, <2>1, <3>1, PlacesDiffer
  <2>3. <<i, j>> \in Pairs(n)
    <3>1. i \in 0 .. n - 1 /\ j \in 0 .. n - 1
      BY <1>1, <2>1, <2>2
    <3> QED BY <2>1, <3>1 DEF Pairs
  <2> QED BY <2>1, <2>2, <2>3 DEF Before
<1>4. \A a, b \in 0 .. r - 1 : f[a] = f[b] => a = b
  <2> SUFFICES ASSUME NEW a \in 0 .. r - 1, NEW b \in 0 .. r - 1, PairOf(a) = PairOf(b)
               PROVE  a = b
      OBVIOUS
  <2> QED BY <1>2, PairOfIs
<1>5. \A q \in B : \E k \in 0 .. r - 1 : f[k] = q
  <2> SUFFICES ASSUME NEW q \in B PROVE \E k \in 0 .. r - 1 : PairOf(k) = q
      OBVIOUS
  <2>1. PICK i \in Nat, j \in Nat : j <= i /\ q = <<i, j>>
    BY DEF Before, Pairs
  <2>2. i < p[1] \/ (i = p[1] /\ j < p[2])
    BY <2>1 DEF Before
  <2>3. Triangle(i) + j < r
    BY <1>1, <2>1, <2>2, PlacesDiffer
  <2>5. Triangle(i) + j \in Nat
    BY TriangleIs
  <2>4. PairOf(Triangle(i) + j) = q
    BY <2>1, PairOfPlace
  <2> QED BY <1>2, <2>3, <2>4, <2>5
<1> HIDE DEF r, f, B
<1>6. f \in [0 .. r - 1 -> B]
  BY <1>3 DEF f
<1>7. f \in Bijection(0 .. r - 1, B)
  <2>1. f \in Surjection(0 .. r - 1, B)
    BY <1>5, <1>6, Fun_IsSurj
  <2> QED BY <1>4, <1>6, <2>1, Fun_IsBij
<1>8. IsFiniteSet(0 .. r - 1) /\ Cardinality(0 .. r - 1) = r
  <2>1. /\ IsFiniteSet(0 .. r - 1)
        /\ Cardinality(0 .. r - 1) = IF 0 > r - 1 THEN 0 ELSE r - 1 - 0 + 1
    <3>1. 0 \in Int /\ r - 1 \in Int
      BY <1>2
    <3> QED BY <3>1, FS_Interval
  <2> QED BY <1>2, <2>1
<1>9. Cardinality(B) = r
  <2>1. ExistsBijection(0 .. r - 1, B)
    BY <1>7 DEF ExistsBijection
  <2> QED BY <1>8, <2>1, FS_Bijection
<1> QED BY <1>2, <1>9 DEF r, B

(* The k-th pair of a triangle, of any size. *)
LEMMA InOrderIs ==
    ASSUME NEW n \in Nat, NEW k \in 0 .. Triangle(n) - 1
    PROVE  InOrder(Pairs(n), k) = PairOf(k)
<1>1. Triangle(n) \in Nat /\ k \in Nat
  BY TriangleIs
<1>2. PICK i \in Nat, j \in Nat : j <= i /\ PairOf(k) = <<i, j>> /\ Triangle(i) + j = k
  BY <1>1, PairOfIs
<1>3. PairOf(k) \in Pairs(n)
  <2>1. ~(n <= i)
    <3> SUFFICES ASSUME n <= i PROVE FALSE
        OBVIOUS
    <3>1. Triangle(i) \in Nat
      BY TriangleIs
    <3>2. Triangle(n) <= Triangle(i)
      BY <1>1, <3>1, TriangleRows
    <3> QED BY <1>1, <1>2, <3>1, <3>2
  <2> QED BY <1>2, <2>1 DEF Pairs
<1>4. Cardinality(Before(Pairs(n), PairOf(k))) = k
  BY <1>2, <1>3, BeforeCount
<1>5. ASSUME NEW p \in Pairs(n), Cardinality(Before(Pairs(n), p)) = k
      PROVE  p = PairOf(k)
  <2>1. PICK a \in Nat, b \in Nat : b <= a /\ p = <<a, b>>
    BY DEF Pairs
  <2>2. Triangle(a) + b = k
    BY <1>5, <2>1, BeforeCount
  <2> QED BY <2>1, <2>2, PairOfPlace
<1>6. InOrder(Pairs(n), k) = CHOOSE p \in Pairs(n) : Cardinality(Before(Pairs(n), p)) = k
  BY DEF InOrder, Before
<1> QED BY <1>3, <1>4, <1>5, <1>6
-----------------------------------------------------------------------------
(* The invariant. *)

(* What the program is given. *)
InputsOK ==
    /\ num_antennas \in 1 .. MaxAntennas
    /\ d_num_channels \in 1 .. MaxChannels
    /\ nbls \in Nat
    /\ file_size \in Nat
    /\ num_time_blocks <= MaxBlocks
    /\ {frequency_first, delays, correct_for_delay} \subseteq BOOLEAN

(* A file is only read phased when it was cut to whole blocks, and is read to *)
(* its end.                                                                  *)
PhaseInv ==
    /\ phase \in {"phase", "read", "done", "error"}
    /\ phased \in BOOLEAN
    /\ phased => Kept % BlockSize = 0
    /\ phase \in {"phase", "error"} => cur_block = 0 /\ ~phased
    /\ phase = "done" => cur_block = num_time_blocks

(* The blocks read so far are the rows filled so far. *)
ReadInv ==
    /\ cur_block \in 0 .. num_time_blocks
    /\ position = BlockSize * cur_block
    /\ time_array \in Seq(Nat)
    /\ Len(time_array) = num_baselines * cur_block
    /\ \A r \in 1 .. Len(time_array) : time_array[r] = (r - 1) \div num_baselines
    /\ uvw_array \in Seq((Nat \X Nat) \cup {None})
    /\ ~ToBePhased => Len(uvw_array) = nbls * cur_block
    /\ tmp_array = [r \in 0 .. Nblts - 1 |->
           IF r < num_baselines * cur_block
           THEN Spectrum(r \div num_baselines, r % num_baselines) ELSE None]

DataInv == InputsOK /\ PhaseInv /\ ReadInv

(* The sizes of rows and blocks. *)
LEMMA Sizes ==
    ASSUME InputsOK
    PROVE  /\ num_antennas \in Nat \ {0} /\ d_num_channels \in Nat \ {0}
           /\ num_baselines \in Nat \ {0} /\ BlockSize \in Nat \ {0}
           /\ num_time_blocks \in Nat /\ Nblts \in Nat
           /\ file_size = BlockSize * num_time_blocks + (file_size % BlockSize)
           /\ file_size % BlockSize \in 0 .. BlockSize - 1
<1>1. num_antennas \in Nat \ {0} /\ d_num_channels \in Nat \ {0} /\ file_size \in Nat
  BY BoundsAssumption DEF InputsOK
<1>2. num_baselines \in Nat \ {0}
  <2>1. Triangle(num_antennas) \in Nat
        /\ 2 * Triangle(num_antennas) = num_antennas * (num_antennas + 1)
    BY <1>1, TriangleIs
  <2>2. num_antennas * (num_antennas + 1) >= 2
    BY <1>1
  <2> QED BY <2>1, <2>2 DEF num_baselines
<1>3. BlockSize \in Nat \ {0}
  <2>1. num_baselines * d_num_channels \in Nat \ {0}
    BY <1>1, <1>2
  <2> QED BY <2>1 DEF BlockSize, NumPolSq, NumPols
<1>4. /\ num_time_blocks \in Nat /\ file_size % BlockSize \in 0 .. BlockSize - 1
      /\ file_size = BlockSize * num_time_blocks + (file_size % BlockSize)
  BY <1>1, <1>3, Division DEF num_time_blocks
<1>5. Nblts \in Nat
  BY <1>2, <1>4 DEF Nblts
<1> QED BY <1>1, <1>2, <1>3, <1>4, <1>5

(* What is phased without an error has all the whole blocks of the file. *)
LEMMA KeptBlocks ==
    ASSUME InputsOK, Kept % BlockSize = 0
    PROVE  /\ Kept \in 0 .. file_size
           /\ Kept = BlockSize * num_time_blocks
<1> DEFINE n == num_baselines * NumPols * d_num_channels
           q == file_size \div n
           r == file_size % n
<1>1. /\ num_baselines \in Nat \ {0} /\ d_num_channels \in Nat \ {0}
      /\ BlockSize \in Nat \ {0} /\ file_size \in Nat
  BY Sizes DEF InputsOK
<1>2. n \in Nat \ {0} /\ BlockSize = 2 * n
  <2>1. num_baselines * d_num_channels \in Nat \ {0}
    BY <1>1
  <2>2. n = 2 * (num_baselines * d_num_channels)
    BY <1>1 DEF NumPols
  <2>3. BlockSize = 4 * (num_baselines * d_num_channels)
    BY <1>1 DEF BlockSize, NumPolSq, NumPols
  <2> QED BY <2>1, <2>2, <2>3
<1> HIDE DEF n
<1>3. q \in Nat /\ r \in 0 .. n - 1 /\ file_size = n * q + r
  BY <1>1, <1>2, Division
<1>4. Kept = q * n
  BY DEF Kept, n
<1> HIDE DEF q, r
<1>5. q * n = n * q /\ n * q \in Nat
  BY <1>2, <1>3
<1>6. Kept \in Nat
  BY <1>4, <1>5
<1>7. PICK c \in Nat : Kept = BlockSize * c
  <2>1. Kept \div BlockSize \in Nat
        /\ Kept = BlockSize * (Kept \div BlockSize) + (Kept % BlockSize)
    BY <1>1, <1>6, Division
  <2>2. \A a, b \in Nat : a * b \in Nat
    OBVIOUS
  <2>3. BlockSize * (Kept \div BlockSize) = Kept
    BY <1>1, <1>6, <2>1, <2>2
  <2> QED BY <2>1, <2>3
<1>8. file_size = BlockSize * c + r /\ r \in Nat /\ r < BlockSize
  BY <1>2, <1>3, <1>4, <1>5, <1>7
<1>9. (BlockSize * c + r) \div BlockSize = c
  BY <1>1, <1>8, Divided
<1>10. num_time_blocks = c
  BY <1>8, <1>9 DEF num_time_blocks
<1> QED BY <1>1, <1>3, <1>4, <1>5, <1>7, <1>10

(* Every baseline's number is its place in the triangle, for the list that   *)
(* phasing goes through as for the antennas' arrays.                         *)
LEMMA BaselineIs ==
    ASSUME InputsOK, NEW k \in 0 .. num_baselines - 1
    PROVE  Baseline(k) = PairOf(k) /\ InOrder(RowPairs, k) = PairOf(k)
<1>1. num_antennas \in Nat
  BY Sizes
<1>2. RowPairs = Pairs(num_antennas)
  BY DEF RowPairs, Pairs, Antennas
<1>3. NamesUpTo = Pairs(num_antennas)
  BY <1>1 DEF NamesUpTo, Pairs, Antennas
<1>4. InOrder(Pairs(num_antennas), k) = PairOf(k)
  BY <1>1, InOrderIs DEF num_baselines
<1> QED BY <1>2, <1>3, <1>4 DEF Baseline

(* The index that reorders the samples takes each from its place in the file. *)
LEMMA IndexIs ==
    ASSUME InputsOK, NEW k \in 0 .. num_baselines - 1, NEW f \in 0 .. d_num_channels - 1,
           NEW i \in 0 .. NumPolSq - 1
    PROVE  /\ OriginalIndex(k, f, i) \div (num_baselines * NumPolSq) = f
           /\ (OriginalIndex(k, f, i) \div NumPolSq) % num_baselines = k
           /\ OriginalIndex(k, f, i) % NumPolSq = i
<1> DEFINE N == num_baselines
           s == OriginalIndex(k, f, i)
<1>1. N \in Nat \ {0} /\ k \in Nat /\ f \in Nat /\ i \in 0 .. 3 /\ k < N
  BY Sizes DEF NumPolSq, NumPols
<1> HIDE DEF N
<1>2. s = (N * 4) * f + k * 4 + i
  BY DEF OriginalIndex, NumPolSq, NumPols, N
<1>3. s \div (N * 4) = f
  <2>1. s = (N * 4) * f + (k * 4 + i) /\ N * 4 \in Nat \ {0} /\ k * 4 + i \in Nat
        /\ k * 4 + i < N * 4
    BY <1>1, <1>2
  <2> HIDE DEF s
  <2>2. ((N * 4) * f + (k * 4 + i)) \div (N * 4) = f
    BY <1>1, <2>1, Divided
  <2> QED BY <2>1, <2>2
<1>4. N * f + k \in Nat /\ s = 4 * (N * f + k) + i
  BY <1>1, <1>2
<1>5. s \div 4 = N * f + k /\ s % 4 = i
  <2>1. /\ (4 * (N * f + k) + i) \div 4 = N * f + k
        /\ (4 * (N * f + k) + i) % 4 = i
    BY <1>1, <1>4, Divided
  <2> QED BY <1>4, <2>1
<1>6. (N * f + k) % N = k
  BY <1>1, Divided
<1> QED BY <1>3, <1>5, <1>6 DEF NumPolSq, NumPols, N

(* What row k of a block holds.                                              *)
LEMMA SpectrumIs ==
    ASSUME InputsOK, phased \in BOOLEAN, NEW b \in Nat, NEW k \in 0 .. num_baselines - 1
    PROVE  /\ Spectrum(b, k) \in Rows(d_num_channels)
           /\ \A f \in 0 .. d_num_channels - 1, slot \in 1 .. NumPolSq :
                 LET x == Spectrum(b, k)[f][slot]
                 IN  /\ x.block = b
                     /\ frequency_first => x.chan = f /\ x.pair = PairOf(k)
                     /\ x.pols = Slots[slot]
                     /\ x.by = IF phased /\ PairOf(k)[1] # PairOf(k)[2]
                               THEN PairOf(k) ELSE None
<1>1. PairOf(k) \in Nat \X Nat
  <2>1. k \in Nat
    BY Sizes
  <2>2. PairOf(k) \in (0 .. k) \X (0 .. k)
    BY <2>1, PairOfIs
  <2> QED BY <2>1, <2>2
<1>2. ASSUME NEW f \in 0 .. d_num_channels - 1, NEW slot \in 1 .. NumPolSq
      PROVE  \E chan \in Nat, pair \in Nat \X Nat :
                 /\ Sample(b, OriginalIndex(k, f, AipsOrder[slot])) =
                        [block |-> b, chan |-> chan, pair |-> pair, pols |-> Slots[slot],
                         by |-> IF phased /\ PairOf(k)[1] # PairOf(k)[2]
                                THEN PairOf(k) ELSE None]
                 /\ frequency_first => chan = f /\ pair = PairOf(k)
  <2> DEFINE i == AipsOrder[slot]
             s == OriginalIndex(k, f, i)
             x == Recorded(b, s)
  <2>1. slot \in {1, 2, 3, 4}
    BY DEF NumPolSq, NumPols
  <2>2. i \in 0 .. NumPolSq - 1 /\ <<i \div NumPols, i % NumPols>> = Slots[slot]
    BY <2>1 DEF AipsOrder, Slots, NumPolSq, NumPols
  <2> HIDE DEF i
  <2>3. /\ s \div (num_baselines * NumPolSq) = f /\ s % NumPolSq = i
        /\ (s \div NumPolSq) % num_baselines = k
    BY <2>2, IndexIs
  <2>4. s \in Nat /\ s % NumPols = i % NumPols
    <3>1. s = OriginalIndex(k, f, i) /\ s \in Nat /\ i \in 0 .. 3
      BY <2>2, Sizes DEF OriginalIndex, NumPolSq, NumPols
    <3> HIDE DEF s
    <3>2. s % 4 = i
      BY <2>3 DEF NumPolSq, NumPols
    <3> QED BY <3>1, <3>2 DEF NumPols
  <2> HIDE DEF s
  <2> DEFINE y == IF frequency_first THEN f ELSE (s \div NumPolSq) % d_num_channels
             z == IF frequency_first THEN PairOf(k)
                  ELSE PairOf(s \div (d_num_channels * NumPolSq))
  <2>5. y \in Nat /\ z \in Nat \X Nat
    <3>1. f \in Nat /\ d_num_channels \in Nat \ {0} /\ d_num_channels * NumPolSq \in Nat \ {0}
      BY Sizes DEF NumPolSq, NumPols
    <3>2. s \div NumPolSq \in Nat
      BY <2>4, Division DEF NumPolSq, NumPols
    <3>3. (s \div NumPolSq) % d_num_channels \in Nat
      BY <3>1, <3>2, Division
    <3>4. s \div (d_num_channels * NumPolSq) \in Nat
      BY <2>4, <3>1, Division
    <3> DEFINE n == s \div (d_num_channels * NumPolSq)
    <3> HIDE DEF n
    <3>5. n \in Nat => PairOf(n) \in Nat \X Nat
      <4>1. n \in Nat => PairOf(n) \in (0 .. n) \X (0 .. n)
        BY PairOfIs
      <4> QED BY <4>1
    <3> QED BY <1>1, <3>1, <3>3, <3>4, <3>5 DEF n
  <2>6. x = [block |-> b, chan |-> y, pair |-> z, pols |-> Slots[slot], by |-> None]
    <3>1. CASE frequency_first
      BY <2>2, <2>3, <2>4, <3>1 DEF Recorded
    <3>2. CASE ~frequency_first
      BY <2>2, <2>3, <2>4, <3>2 DEF Recorded
    <3> QED BY <3>1, <3>2
  <2>7. frequency_first => y = f /\ z = PairOf(k)
    OBVIOUS
  <2> HIDE DEF x, y, z
  <2>8. Baseline(k) = PairOf(k)
    BY BaselineIs
  <2>9. Stopped(x, k) = IF PairOf(k)[1] = PairOf(k)[2] THEN x ELSE [x EXCEPT !.by = PairOf(k)]
    BY <2>8 DEF Stopped
  <2>10. Sample(b, s) = IF phased THEN Stopped(x, k) ELSE x
    BY <2>3 DEF Sample, x
  <2>11. Sample(b, s) = [block |-> b, chan |-> y, pair |-> z, pols |-> Slots[slot],
                         by |-> IF phased /\ PairOf(k)[1] # PairOf(k)[2]
                                THEN PairOf(k) ELSE None]
    BY <2>6, <2>9, <2>10
  <2> QED BY <2>5, <2>7, <2>11 DEF s, i
<1>3. \A slot \in 1 .. NumPolSq : Slots[slot] \in Nat \X Nat
  BY DEF Slots, NumPolSq, NumPols
<1>4. ASSUME NEW f \in 0 .. d_num_channels - 1, NEW slot \in 1 .. NumPolSq
      PROVE  Sample(b, OriginalIndex(k, f, AipsOrder[slot])) \in Values
  <2> DEFINE y == IF phased /\ PairOf(k)[1] # PairOf(k)[2] THEN PairOf(k) ELSE None
  <2>1. y \in (Nat \X Nat) \cup {None}
    BY <1>1
  <2>2. \E chan \in Nat, pair \in Nat \X Nat :
            Sample(b, OriginalIndex(k, f, AipsOrder[slot])) =
                [block |-> b, chan |-> chan, pair |-> pair, pols |-> Slots[slot], by |-> y]
    BY <1>2
  <2> HIDE DEF y
  <2>3. Slots[slot] \in Nat \X Nat
    BY <1>3
  <2> QED BY <2>1, <2>2, <2>3 DEF Values
<1>5. Spectrum(b, k) \in Rows(d_num_channels)
  BY <1>4 DEF Spectrum, Rows
<1>6. ASSUME NEW f \in 0 .. d_num_channels - 1, NEW slot \in 1 .. NumPolSq
      PROVE  Spectrum(b, k)[f][slot] = Sample(b, OriginalIndex(k, f, AipsOrder[slot]))
  BY DEF Spectrum
<1>7. ASSUME NEW f \in 0 .. d_num_channels - 1, NEW slot \in 1 .. NumPolSq
      PROVE  LET x == Spectrum(b, k)[f][slot]
             IN  /\ x.block = b
                 /\ frequency_first => x.chan = f /\ x.pair = PairOf(k)
                 /\ x.pols = Slots[slot]
                 /\ x.by = IF phased /\ PairOf(k)[1] # PairOf(k)[2]
                           THEN PairOf(k) ELSE None
  <2> DEFINE v == Sample(b, OriginalIndex(k, f, AipsOrder[slot]))
  <2>1. PICK chan \in Nat, pair \in Nat \X Nat :
          /\ v = [block |-> b, chan |-> chan, pair |-> pair, pols |-> Slots[slot],
                  by |-> IF phased /\ PairOf(k)[1] # PairOf(k)[2] THEN PairOf(k) ELSE None]
          /\ frequency_first => chan = f /\ pair = PairOf(k)
    BY <1>2
  <2>2. Spectrum(b, k)[f][slot] = v
    BY <1>6
  <2> HIDE DEF v
  <2> QED BY <2>1, <2>2
<1> QED BY <1>5, <1>7

(* The rows of a block that was read are none of those that are still empty. *)
LEMMA RowsAreFull ==
    ASSUME InputsOK, phased \in BOOLEAN, NEW b \in Nat, NEW k \in 0 .. num_baselines - 1
    PROVE  Spectrum(b, k) # None
<1>1. d_num_channels \in 1 .. MaxChannels
  BY DEF InputsOK
<1>2. Spectrum(b, k) \in Rows(d_num_channels)
  BY SpectrumIs
<1>3. None \notin Rows(d_num_channels)
  BY <1>1, NoneAssumption
<1> QED BY <1>2, <1>3

(* A row of the arrays is row k of a block b.                                *)
LEMMA RowIs ==
    ASSUME InputsOK, NEW r \in Nat
    PROVE  /\ r \div num_baselines \in Nat
           /\ r % num_baselines \in 0 .. num_baselines - 1
           /\ AntennasOfRow(r) = PairOf(r % num_baselines)
<1>1. num_baselines \in Nat \ {0}
  BY Sizes
<1>2. r \div num_baselines \in Nat /\ r % num_baselines \in 0 .. num_baselines - 1
  BY <1>1, Division
<1> QED BY <1>2, BaselineIs DEF AntennasOfRow

-----------------------------------------------------------------------------
(* The invariant holds. *)

(* At the start no block is read.                                            *)
LEMMA DataInit ==
    ASSUME Init PROVE DataInv
<1>1. num_antennas \in Nat \ {0} /\ d_num_channels \in Nat \ {0}
  BY BoundsAssumption DEF Init
<1>2. num_baselines \in Nat \ {0} /\ BlockSize \in Nat /\ BlockSize >= 4
  <2>1. Triangle(num_antennas) \in Nat
        /\ 2 * Triangle(num_antennas) = num_antennas * (num_antennas + 1)
    BY <1>1, TriangleIs
  <2>2. num_antennas * (num_antennas + 1) >= 2
    BY <1>1
  <2>3. num_baselines \in Nat \ {0}
    BY <2>1, <2>2 DEF num_baselines
  <2>4. num_baselines * d_num_channels \in Nat \ {0}
    BY <1>1, <2>3
  <2> QED BY <2>3, <2>4 DEF BlockSize, NumPolSq, NumPols
<1>3. file_size \in Nat /\ num_time_blocks <= MaxBlocks
  <2>1. PICK blocks \in 0 .. MaxBlocks, tail \in {0, 1, BlockSize \div 2, BlockSize - 1} :
            file_size = blocks * BlockSize + tail
    BY DEF Init
  <2>2. tail \in Nat /\ tail < BlockSize
    BY <1>2
  <2>3. blocks \in Nat /\ blocks * BlockSize = BlockSize * blocks
        /\ BlockSize * blocks \in Nat /\ BlockSize \in Nat \ {0}
    BY <1>2, BoundsAssumption
  <2>4. (BlockSize * blocks + tail) \div BlockSize = blocks
    BY <2>2, <2>3, Divided
  <2>5. file_size = BlockSize * blocks + tail
    BY <2>1, <2>3
  <2>6. num_time_blocks = blocks
    BY <2>4, <2>5 DEF num_time_blocks
  <2> QED BY <2>2, <2>3, <2>5, <2>6, BoundsAssumption
<1>4. InputsOK
  <2>1. nbls \in Nat
    BY <1>2, BoundsAssumption DEF Init
  <2> QED BY <1>3, <2>1 DEF Init, InputsOK
<1>5. PhaseInv
  BY DEF Init, PhaseInv
<1>6. ReadInv
  <2>1. num_time_blocks \in Nat /\ num_baselines \in Nat /\ BlockSize \in Nat
    BY <1>4, Sizes
  <2>2. time_array = <<>> /\ uvw_array = <<>> /\ cur_block = 0 /\ position = 0
        /\ tmp_array = [r \in 0 .. Nblts - 1 |-> None]
    BY DEF Init
  <2>3. num_baselines * cur_block = 0 /\ BlockSize * cur_block = 0 /\ nbls * cur_block = 0
    BY <1>4, <2>1, <2>2 DEF InputsOK
  <2>4. [r \in 0 .. Nblts - 1 |->
           IF r < num_baselines * cur_block
           THEN Spectrum(r \div num_baselines, r % num_baselines) ELSE None]
        = [r \in 0 .. Nblts - 1 |-> None]
    BY <2>3
  <2> QED BY <2>1, <2>2, <2>3, <2>4 DEF ReadInv
<1> QED BY <1>4, <1>5, <1>6 DEF DataInv

(* What the inputs decide stays as it is. *)
LEMMA InputsStay ==
    ASSUME UNCHANGED inputs
    PROVE  /\ InputsOK => InputsOK'
           /\ BlockSize' = BlockSize /\ num_baselines' = num_baselines
           /\ num_time_blocks' = num_time_blocks /\ Nblts' = Nblts /\ Kept' = Kept
           /\ nbls' = nbls /\ ToBePhased' = ToBePhased
<1>1. UNCHANGED <<num_antennas, nbls, d_num_channels, file_size, frequency_first, delays,
                  correct_for_delay>>
  BY DEF inputs
<1>2. BlockSize' = BlockSize /\ num_baselines' = num_baselines
  BY <1>1 DEF BlockSize, num_baselines
<1>3. num_time_blocks' = num_time_blocks /\ Nblts' = Nblts
  BY <1>1, <1>2 DEF num_time_blocks, Nblts
<1>4. Kept' = Kept
  BY <1>1, <1>2 DEF Kept
<1>5. ToBePhased' = ToBePhased
  BY <1>1 DEF ToBePhased
<1> QED BY <1>1, <1>2, <1>3, <1>4, <1>5 DEF InputsOK

(* A row stays what it is while the file is read.                            *)
LEMMA SpectrumStays ==
    ASSUME UNCHANGED <<inputs, phased>>
    PROVE  \A b, k : Spectrum(b, k)' = Spectrum(b, k)
BY DEF Spectrum, Sample, Recorded, Stopped, Baseline, InOrder, NamesUpTo, Antennas,
       OriginalIndex, num_baselines, inputs

(* Phasing reads no block.                                                   *)
LEMMA PhaseKeeps ==
    ASSUME DataInv, Phase PROVE DataInv'
<1>1. UNCHANGED <<inputs, position, cur_block, tmp_array, time_array>>
  BY DEF Phase
<1>2. InputsOK /\ InputsOK' /\ Kept' = Kept /\ Nblts' = Nblts /\ BlockSize' = BlockSize
      /\ num_baselines' = num_baselines /\ num_time_blocks' = num_time_blocks
      /\ nbls' = nbls /\ ToBePhased' = ToBePhased
  BY <1>1, InputsStay DEF DataInv
<1>3. cur_block = 0 /\ ~phased
  BY DEF DataInv, PhaseInv, Phase
<1>4. PhaseInv'
  <2>1. phased' \in BOOLEAN
    <3>1. phased' \in {phased, TRUE}
      BY DEF Phase
    <3> QED BY <3>1 DEF DataInv, PhaseInv
  <2>2. phase' \in {"read", "error"} /\ (phase' = "error" => ~phased')
    BY <1>3 DEF Phase
  <2>3. phased' => Kept % BlockSize = 0
    BY <1>3 DEF Phase, PhasingFails
  <2> QED BY <1>1, <1>2, <1>3, <2>1, <2>2, <2>3 DEF PhaseInv
<1>5. /\ uvw_array' \in Seq((Nat \X Nat) \cup {None})
      /\ ~ToBePhased => uvw_array' = uvw_array
  <2>1. uvw_array' \in {uvw_array, [r \in 1 .. Nblts |-> None]}
    BY DEF Phase
  <2>2. Nblts \in Nat
    BY <1>2, Sizes
  <2>3. [r \in 1 .. Nblts |-> None] \in Seq((Nat \X Nat) \cup {None})
    BY <2>2
  <2>4. ~ToBePhased => uvw_array' = uvw_array
    BY DEF Phase
  <2> QED BY <2>1, <2>3, <2>4 DEF DataInv, ReadInv
<1>6. ReadInv'
  <2>1. num_baselines \in Nat /\ num_baselines * cur_block = 0
    BY <1>2, <1>3, Sizes
  <2>2. \A r \in 0 .. Nblts - 1 : ~(r < num_baselines * cur_block)
    BY <2>1
  <2>3. tmp_array = [r \in 0 .. Nblts - 1 |-> None]
    BY <2>2 DEF DataInv, ReadInv
  <2>4. [r \in 0 .. Nblts - 1 |->
           IF r < num_baselines * cur_block
           THEN Spectrum(r \div num_baselines, r % num_baselines)' ELSE None]
        = [r \in 0 .. Nblts - 1 |-> None]
    BY <2>2
  <2> QED BY <1>1, <1>2, <1>5, <2>3, <2>4 DEF DataInv, ReadInv
<1> QED BY <1>2, <1>4, <1>6 DEF DataInv

(* The size that is read has exactly the whole blocks of the file.           *)
LEMMA SizeReadIs ==
    ASSUME InputsOK, PhaseInv
    PROVE  /\ SizeRead \in 0 .. file_size
           /\ \E rest \in 0 .. BlockSize - 1 : SizeRead = BlockSize * num_time_blocks + rest
<1>1. file_size \in Nat /\ BlockSize \in Nat \ {0}
  BY Sizes DEF InputsOK
<1>2. CASE phased
  <2>1. Kept \in 0 .. file_size /\ Kept = BlockSize * num_time_blocks
    BY <1>2, KeptBlocks DEF PhaseInv
  <2>2. SizeRead = Kept /\ Kept = BlockSize * num_time_blocks + 0 /\ 0 \in 0 .. BlockSize - 1
    BY <1>1, <1>2, <2>1 DEF SizeRead
  <2> QED BY <2>1, <2>2
<1>3. CASE ~phased
  BY <1>1, <1>3, Sizes DEF SizeRead
<1> QED BY <1>2, <1>3

(* The block that is read is one of the file's.                              *)
LEMMA NextBlock ==
    ASSUME DataInv, WholeBlockLeft PROVE cur_block < num_time_blocks
<1>1. /\ BlockSize \in Nat \ {0} /\ num_time_blocks \in Nat /\ cur_block \in Nat
      /\ position = BlockSize * cur_block /\ cur_block <= num_time_blocks
  BY Sizes DEF DataInv, ReadInv
<1>2. PICK rest \in 0 .. BlockSize - 1 : SizeRead = BlockSize * num_time_blocks + rest
  BY SizeReadIs DEF DataInv
<1> SUFFICES ASSUME cur_block = num_time_blocks PROVE FALSE
    BY <1>1
<1>3. SizeRead - position = rest
  <2>1. BlockSize * num_time_blocks \in Nat
    BY <1>1
  <2> QED BY <1>1, <1>2, <2>1
<1> QED BY <1>1, <1>3 DEF WholeBlockLeft

(* When no whole block is left, all were read.                               *)
LEMMA NoBlockLeft ==
    ASSUME DataInv, ~WholeBlockLeft PROVE cur_block = num_time_blocks
<1>1. /\ BlockSize \in Nat \ {0} /\ num_time_blocks \in Nat /\ cur_block \in Nat
      /\ position = BlockSize * cur_block /\ cur_block <= num_time_blocks
  BY Sizes DEF DataInv, ReadInv
<1>2. PICK rest \in 0 .. BlockSize - 1 : SizeRead = BlockSize * num_time_blocks + rest
  BY SizeReadIs DEF DataInv
<1> SUFFICES ASSUME cur_block < num_time_blocks PROVE FALSE
    BY <1>1
<1>3. BlockSize * num_time_blocks \in Nat /\ BlockSize * cur_block \in Nat
      /\ BlockSize * cur_block + BlockSize <= BlockSize * num_time_blocks
  <2>1. \A m, a, b \in Nat : a < b => m * a + m <= m * b
    OBVIOUS
  <2> QED BY <1>1, <2>1
<1>4. SizeRead - position >= BlockSize
  BY <1>1, <1>2, <1>3
<1> QED BY <1>4 DEF WholeBlockLeft

(* Reading a block fills its rows and no others, and names their time.       *)
LEMMA ReadKeeps ==
    ASSUME DataInv, ReadBlock PROVE DataInv'
<1> DEFINE N == num_baselines
           c == cur_block
<1>1. /\ UNCHANGED <<inputs, phase, phased>> /\ phase = "read"
      /\ cur_block' = c + 1 /\ position' = position + BlockSize
      /\ InputsOK /\ InputsOK' /\ PhaseInv /\ ReadInv
      /\ Kept' = Kept /\ Nblts' = Nblts /\ BlockSize' = BlockSize
      /\ num_baselines' = N /\ num_time_blocks' = num_time_blocks
      /\ nbls' = nbls /\ ToBePhased' = ToBePhased
  BY InputsStay DEF DataInv, ReadBlock
<1>2. /\ c < num_time_blocks /\ c \in Nat /\ num_time_blocks \in Nat
      /\ N \in Nat \ {0} /\ BlockSize \in Nat \ {0} /\ nbls \in Nat
      /\ position = BlockSize * c
  BY <1>1, NextBlock, Sizes DEF ReadBlock, DataInv, ReadInv, InputsOK
<1>3. N * (c + 1) = N * c + N /\ N * c \in Nat /\ BlockSize * (c + 1) = BlockSize * c + BlockSize
  BY <1>2
<1>4. PhaseInv'
  BY <1>1 DEF PhaseInv
<1>5. position \div BlockSize = c
  <2>1. (BlockSize * c + 0) \div BlockSize = c
    BY <1>2, Divided
  <2>2. BlockSize * c + 0 = position
    BY <1>2
  <2> QED BY <2>1, <2>2
<1>6. /\ time_array' \in Seq(Nat)
      /\ Len(time_array') = N * (c + 1)
      /\ \A r \in 1 .. Len(time_array') : time_array'[r] = (r - 1) \div N
  <2> DEFINE times == [k \in 1 .. N |-> c]
  <2>1. times \in Seq(Nat) /\ Len(times) = N /\ \A k \in 1 .. N : times[k] = c
    BY <1>2
  <2>2. time_array' = time_array \o times
    BY DEF ReadBlock
  <2>3. /\ time_array \in Seq(Nat) /\ Len(time_array) = N * c
        /\ \A r \in 1 .. Len(time_array) : time_array[r] = (r - 1) \div N
    BY <1>1 DEF ReadInv
  <2> HIDE DEF times, N, c
  <2>4. /\ time_array' \in Seq(Nat) /\ Len(time_array') = Len(time_array) + Len(times)
        /\ \A r \in 1 .. Len(time_array) + Len(times) :
              time_array'[r] = IF r <= Len(time_array) THEN time_array[r]
                               ELSE times[r - Len(time_array)]
    BY <2>1, <2>2, <2>3, ConcatProperties
  <2>5. ASSUME NEW r \in 1 .. Len(time_array') PROVE time_array'[r] = (r - 1) \div N
    <3>1. r \in 1 .. N * c + N
      BY <2>1, <2>3, <2>4
    <3>2. CASE r <= N * c
      <4>1. r \in 1 .. Len(time_array)
        BY <1>3, <2>3, <3>1, <3>2
      <4> QED BY <2>1, <2>3, <2>4, <3>1, <3>2, <4>1
    <3>3. CASE ~(r <= N * c)
      <4>1. r - N * c \in 1 .. N
        BY <1>2, <1>3, <3>1, <3>3
      <4>2. time_array'[r] = c
        BY <2>1, <2>3, <2>4, <3>1, <3>3, <4>1
      <4>3. r - N * c - 1 \in Nat /\ r - N * c - 1 < N
            /\ r - 1 = N * c + (r - N * c - 1)
        BY <1>2, <1>3, <3>1, <4>1
      <4>4. (N * c + (r - N * c - 1)) \div N = c
        BY <1>2, <4>3, Divided
      <4> QED BY <4>2, <4>3, <4>4
    <3> QED BY <3>2, <3>3
  <2> QED BY <1>3, <2>1, <2>3, <2>4, <2>5
<1>7. /\ uvw_array' \in Seq((Nat \X Nat) \cup {None})
      /\ ~ToBePhased => Len(uvw_array') = nbls * (c + 1)
  <2> DEFINE V == (Nat \X Nat) \cup {None}
             more == [k \in 1 .. nbls |-> BaselineVectors[k - 1]]
  <2>1. uvw_array \in Seq(V)
    BY <1>1 DEF ReadInv
  <2>2. \A k \in 1 .. nbls : BaselineVectors[k - 1] \in V
    <3>1. ASSUME NEW k \in 0 .. nbls - 1 PROVE BaselineVectors[k] \in V
      BY DEF BaselineVectors, Vector
    <3>2. \A k \in 1 .. nbls : k - 1 \in 0 .. nbls - 1
      BY <1>2
    <3> QED BY <3>1, <3>2
  <2>3. more \in Seq(V) /\ Len(more) = nbls
    BY <1>2, <2>2
  <2>4. /\ uvw_array' \in {uvw_array, uvw_array \o more}
        /\ ~ToBePhased => uvw_array' = uvw_array \o more
    BY DEF ReadBlock, ToBePhased
  <2> HIDE DEF V, more
  <2>5. uvw_array \o more \in Seq(V) /\ Len(uvw_array \o more) = Len(uvw_array) + nbls
    BY <2>1, <2>3, ConcatProperties
  <2>6. uvw_array' \in Seq(V)
    BY <2>1, <2>4, <2>5
  <2>7. ASSUME ~ToBePhased PROVE Len(uvw_array') = nbls * (c + 1)
    <3>1. Len(uvw_array') = nbls * c + nbls
      BY <1>1, <2>4, <2>5, <2>7 DEF ReadInv
    <3> QED BY <1>2, <3>1
  <2> QED BY <2>6, <2>7 DEF V
<1>8. tmp_array' = [r \in 0 .. Nblts - 1 |->
          IF r < N * (c + 1) THEN Spectrum(r \div N, r % N) ELSE None]
  <2>1. tmp_array = [r \in 0 .. Nblts - 1 |->
            IF r < N * c THEN Spectrum(r \div N, r % N) ELSE None]
    BY <1>1 DEF ReadInv
  <2>2. tmp_array' = [r \in 0 .. Nblts - 1 |->
            IF r - c * N \in 0 .. N - 1 THEN Spectrum(c, r - c * N) ELSE tmp_array[r]]
    BY <1>5, <2>1 DEF ReadBlock
  <2>3. ASSUME NEW r \in 0 .. Nblts - 1
        PROVE  (IF r - c * N \in 0 .. N - 1 THEN Spectrum(c, r - c * N) ELSE tmp_array[r])
               = IF r < N * (c + 1) THEN Spectrum(r \div N, r % N) ELSE None
    <3>1. r \in Nat /\ c * N = N * c
      BY <1>1, <1>2, Sizes
    <3>2. tmp_array[r] = IF r < N * c THEN Spectrum(r \div N, r % N) ELSE None
      BY <2>1
    <3> HIDE DEF N, c
    <3>3. CASE r < N * c
      BY <1>2, <1>3, <3>1, <3>2, <3>3
    <3>4. CASE N * c <= r /\ r < N * c + N
      <4>1. /\ r - N * c \in 0 .. N - 1 /\ r - N * c \in Nat /\ r = N * c + (r - N * c)
            /\ r - N * c < N
        BY <1>2, <1>3, <3>1, <3>4
      <4>2. /\ (N * c + (r - N * c)) \div N = c
            /\ (N * c + (r - N * c)) % N = r - N * c
        BY <1>2, <4>1, Divided
      <4>3. r \div N = c /\ r % N = r - N * c
        BY <4>1, <4>2
      <4> QED BY <1>3, <3>1, <3>4, <4>1, <4>3
    <3>5. CASE N * c + N <= r
      BY <1>2, <1>3, <3>1, <3>2, <3>5
    <3> QED BY <1>2, <1>3, <3>1, <3>3, <3>4, <3>5
  <2> QED BY <2>2, <2>3
<1>9. ReadInv'
  <2>1. cur_block' \in 0 .. num_time_blocks /\ position' = BlockSize * (c + 1)
    BY <1>1, <1>2, <1>3
  <2>2. \A b, k : Spectrum(b, k)' = Spectrum(b, k)
    BY <1>1, SpectrumStays
  <2>3. tmp_array' = [r \in 0 .. Nblts' - 1 |->
            IF r < num_baselines' * cur_block'
            THEN Spectrum(r \div num_baselines, r % num_baselines)' ELSE None]
    BY <1>1, <1>8, <2>2
  <2> HIDE DEF N, c
  <2> QED BY <1>1, <1>6, <1>7, <2>1, <2>3 DEF ReadInv
<1> QED BY <1>1, <1>4, <1>9 DEF DataInv

(* The end of the loop comes after the last whole block.                     *)
LEMMA EndKeeps ==
    ASSUME DataInv, EndOfBlocks PROVE DataInv'
<1>1. /\ UNCHANGED <<inputs, phased, position, cur_block, tmp_array, time_array, uvw_array>>
      /\ phase' = "done"
  BY DEF EndOfBlocks
<1>2. cur_block = num_time_blocks
  BY NoBlockLeft DEF EndOfBlocks
<1>3. InputsOK /\ InputsOK' /\ Kept' = Kept /\ Nblts' = Nblts /\ BlockSize' = BlockSize
      /\ num_baselines' = num_baselines /\ num_time_blocks' = num_time_blocks
      /\ \A b, k : Spectrum(b, k)' = Spectrum(b, k)
      /\ nbls' = nbls /\ ToBePhased' = ToBePhased
  BY <1>1, InputsStay, SpectrumStays DEF DataInv
<1>4. PhaseInv'
  BY <1>1, <1>2, <1>3 DEF DataInv, PhaseInv
<1>5. ReadInv'
  BY <1>1, <1>3 DEF DataInv, ReadInv
<1> QED BY <1>3, <1>4, <1>5 DEF DataInv

(* Nothing else changes what the invariant is about.                         *)
LEMMA DataStays ==
    ASSUME DataInv, UNCHANGED vars PROVE DataInv'
<1>1. UNCHANGED <<inputs, phase, phased, position, cur_block, tmp_array, time_array, uvw_array>>
  BY DEF vars
<1>2. InputsOK /\ InputsOK' /\ Kept' = Kept /\ Nblts' = Nblts /\ BlockSize' = BlockSize
      /\ num_baselines' = num_baselines /\ num_time_blocks' = num_time_blocks
      /\ \A b, k : Spectrum(b, k)' = Spectrum(b, k)
      /\ nbls' = nbls /\ ToBePhased' = ToBePhased
  BY <1>1, InputsStay, SpectrumStays DEF DataInv
<1>3. PhaseInv'
  BY <1>1, <1>2 DEF DataInv, PhaseInv
<1>4. ReadInv'
  BY <1>1, <1>2 DEF DataInv, ReadInv
<1> QED BY <1>2, <1>3, <1>4 DEF DataInv

(* The invariant holds throughout. *)
LEMMA DataInvariant == Spec => []DataInv
<1>1. Init => DataInv
  BY DataInit
<1>2. DataInv /\ [Next]_vars => DataInv'
  BY PhaseKeeps, ReadKeeps, EndKeeps, DataStays DEF Next
<1> QED BY <1>1, <1>2, PTL DEF Spec

-----------------------------------------------------------------------------
(* The theorems. *)

(* Whatever the file's size, every variable keeps its type: a row is empty   *)
(* or has all channels and products.                                         *)
THEOREM TypeCorrect == Spec => []TypeOK
<1>1. ASSUME DataInv PROVE TypeOK
  <2>1. InputsOK /\ PhaseInv /\ ReadInv
    BY <1>1 DEF DataInv
  <2>2. /\ num_baselines \in Nat \ {0} /\ BlockSize \in Nat \ {0} /\ num_time_blocks \in Nat
        /\ file_size \in Nat /\ cur_block \in Nat
    BY <2>1, Sizes DEF InputsOK, ReadInv
  <2>3. cur_block \in 0 .. MaxBlocks
    BY <2>1, <2>2, BoundsAssumption DEF InputsOK, ReadInv
  <2>4. position \in 0 .. file_size
    <3>1. cur_block <= num_time_blocks /\ position = BlockSize * cur_block
      BY <2>1 DEF ReadInv
    <3>2. \A m, a, b \in Nat : a <= b => m * a <= m * b /\ m * a \in Nat
      OBVIOUS
    <3>3. position \in Nat /\ position <= BlockSize * num_time_blocks
      BY <2>2, <3>1, <3>2
    <3>4. BlockSize * num_time_blocks <= file_size
      <4>1. /\ file_size = BlockSize * num_time_blocks + (file_size % BlockSize)
            /\ file_size % BlockSize \in 0 .. BlockSize - 1
        BY <2>1, Sizes
      <4>2. BlockSize * num_time_blocks \in Nat
        BY <2>2, <3>2
      <4> QED BY <2>2, <4>1, <4>2
    <3> QED BY <2>2, <3>3, <3>4
  <2>5. tmp_array \in [0 .. Nblts - 1 -> Rows(d_num_channels) \cup {None}]
    <3>1. ASSUME NEW r \in 0 .. Nblts - 1
          PROVE  Spectrum(r \div num_baselines, r % num_baselines) \in Rows(d_num_channels)
      <4>1. r \in Nat /\ phased \in BOOLEAN
        BY <2>1, Sizes DEF PhaseInv
      <4> QED BY <2>1, <4>1, RowIs, SpectrumIs
    <3> QED BY <2>1, <3>1 DEF ReadInv
  <2> QED BY <2>1, <2>2, <2>3, <2>4, <2>5 DEF TypeOK, InputsOK, PhaseInv, ReadInv
<1> QED BY <1>1, DataInvariant, PTL

(* A row that was filled, and what it was filled with. *)
LEMMA FullRow ==
    ASSUME DataInv, NEW r \in DOMAIN tmp_array, tmp_array[r] # None
    PROVE  /\ r \in Nat /\ r < num_baselines * cur_block
           /\ tmp_array[r] = Spectrum(r \div num_baselines, r % num_baselines)
           /\ DOMAIN tmp_array[r] = 0 .. d_num_channels - 1
           /\ time_array[r + 1] = r \div num_baselines
<1>1. InputsOK /\ PhaseInv /\ ReadInv
  BY DEF DataInv
<1>2. r \in 0 .. Nblts - 1 /\ r \in Nat
  BY <1>1, Sizes DEF ReadInv
<1>3. r < num_baselines * cur_block
      /\ tmp_array[r] = Spectrum(r \div num_baselines, r % num_baselines)
  BY <1>1, <1>2 DEF ReadInv
<1>4. DOMAIN tmp_array[r] = 0 .. d_num_channels - 1
  BY <1>3 DEF Spectrum
<1>5. time_array[r + 1] = r \div num_baselines
  <2>1. num_baselines * cur_block \in Nat
    BY <1>1, Sizes DEF ReadInv
  <2>2. r + 1 \in 1 .. num_baselines * cur_block /\ (r + 1) - 1 = r
    BY <1>2, <1>3, <2>1
  <2> QED BY <1>1, <2>2 DEF ReadInv
<1> QED BY <1>2, <1>3, <1>4, <1>5

(* Every whole block of the file, and nothing else, has become rows when the *)
(* loop ends, phased or not: the number of blocks that is computed from the  *)
(* length of the file (414), to which the arrays are sized, and the loop's   *)
(* test of what it could read (525) agree.  With a descriptor that has the   *)
(* right number of baselines, each row has a vector.                         *)
THEOREM AllBlocksOnce == Spec => []EveryBlockOnce
<1>1. ASSUME DataInv PROVE EveryBlockOnce
  <2> SUFFICES ASSUME phase = "done"
               PROVE  /\ cur_block = num_time_blocks
                      /\ Len(time_array) = Nblts
                      /\ \A r \in DOMAIN tmp_array : tmp_array[r] # None
                      /\ ~ToBePhased /\ nbls = num_baselines => Len(uvw_array) = Nblts
      BY DEF EveryBlockOnce
  <2>1. InputsOK /\ PhaseInv /\ ReadInv
    BY <1>1 DEF DataInv
  <2>2. cur_block = num_time_blocks
    BY <2>1 DEF PhaseInv
  <2>3. Nblts = num_baselines * cur_block
    BY <2>1, <2>2, Sizes DEF Nblts
  <2>4. ASSUME NEW r \in DOMAIN tmp_array PROVE tmp_array[r] # None
    <3>1. r \in 0 .. Nblts - 1 /\ Nblts \in Nat /\ phased \in BOOLEAN
      BY <2>1, Sizes DEF ReadInv, PhaseInv
    <3>2. tmp_array[r] = Spectrum(r \div num_baselines, r % num_baselines)
      BY <2>1, <2>3, <3>1 DEF ReadInv
    <3>3. /\ r \div num_baselines \in Nat
          /\ r % num_baselines \in 0 .. num_baselines - 1
      BY <2>1, <3>1, RowIs
    <3> QED BY <2>1, <3>1, <3>2, <3>3, RowsAreFull
  <2>5. ~ToBePhased /\ nbls = num_baselines => Len(uvw_array) = Nblts
    BY <2>1, <2>3 DEF ReadInv
  <2> QED BY <2>1, <2>2, <2>3, <2>4, <2>5 DEF ReadInv
<1> QED BY <1>1, DataInvariant, PTL

(* For any number of antennas and channels, every value is in the row, the   *)
(* channel and the slot whose labels describe it: the loops that name the    *)
(* rows (421-437) and the index that takes the samples out of another order, *)
(* by channel first (100-107), follow one order of the baselines, the one    *)
(* that a file by frequencies has.                                           *)
THEOREM RowsAreLabelled == Spec => []RowsLabelled
<1>1. ASSUME DataInv PROVE RowsLabelled
  <2> SUFFICES ASSUME frequency_first, NEW r \in DOMAIN tmp_array, tmp_array[r] # None,
                      NEW f \in DOMAIN tmp_array[r], NEW slot \in 1 .. NumPolSq
               PROVE  /\ tmp_array[r][f][slot].chan = f
                      /\ tmp_array[r][f][slot].pair = AntennasOfRow(r)
                      /\ tmp_array[r][f][slot].pols = Slots[slot]
                      /\ tmp_array[r][f][slot].block = time_array[r + 1]
      BY DEF RowsLabelled
  <2> DEFINE b == r \div num_baselines
             k == r % num_baselines
  <2>1. InputsOK /\ phased \in BOOLEAN
    BY <1>1 DEF DataInv, PhaseInv
  <2>2. r \in Nat /\ tmp_array[r] = Spectrum(b, k) /\ time_array[r + 1] = b
        /\ f \in 0 .. d_num_channels - 1
    BY <1>1, FullRow
  <2>3. b \in Nat /\ k \in 0 .. num_baselines - 1 /\ AntennasOfRow(r) = PairOf(k)
    BY <2>1, <2>2, RowIs
  <2> HIDE DEF b, k
  <2>4. /\ Spectrum(b, k)[f][slot].block = b
        /\ Spectrum(b, k)[f][slot].chan = f
        /\ Spectrum(b, k)[f][slot].pair = PairOf(k)
        /\ Spectrum(b, k)[f][slot].pols = Slots[slot]
    BY <2>1, <2>2, <2>3, SpectrumIs
  <2> QED BY <2>2, <2>3, <2>4
<1> QED BY <1>1, DataInvariant, PTL

(* A row of phased data was phased by the delays of its own two antennas:    *)
(* the list of baselines that the phasing goes through has the order of the  *)
(* file, whatever the number of antennas.                                    *)
THEOREM RowsArePhased == Spec => []PhasedByOwn
<1>1. ASSUME DataInv PROVE PhasedByOwn
  <2> SUFFICES ASSUME phased, NEW r \in DOMAIN tmp_array, tmp_array[r] # None,
                      NEW f \in DOMAIN tmp_array[r], NEW slot \in 1 .. NumPolSq
               PROVE  tmp_array[r][f][slot].by =
                          IF AntennasOfRow(r)[1] = AntennasOfRow(r)[2] THEN None
                          ELSE AntennasOfRow(r)
      BY DEF PhasedByOwn
  <2> DEFINE b == r \div num_baselines
             k == r % num_baselines
  <2>1. InputsOK /\ phased \in BOOLEAN
    BY <1>1 DEF DataInv, PhaseInv
  <2>2. r \in Nat /\ tmp_array[r] = Spectrum(b, k) /\ f \in 0 .. d_num_channels - 1
    BY <1>1, FullRow
  <2>3. b \in Nat /\ k \in 0 .. num_baselines - 1 /\ AntennasOfRow(r) = PairOf(k)
    BY <2>1, <2>2, RowIs
  <2> HIDE DEF b, k
  <2>4. Spectrum(b, k)[f][slot].by = IF phased /\ PairOf(k)[1] # PairOf(k)[2]
                                    THEN PairOf(k) ELSE None
    BY <2>1, <2>2, <2>3, SpectrumIs
  <2> QED BY <2>2, <2>3, <2>4
<1> QED BY <1>1, DataInvariant, PTL

=============================================================================
