--------------------------- MODULE CorrelatedData ---------------------------
(***************************************************************************)
(* From the file of the X-engine to UVFITS                                 *)
(* (apps/observation/read_correlated_data.py): the blocks of one recording *)
(* are read, phased if antenna delays are known, reordered and put into    *)
(* rows; the arrays beside them say which antennas, time and baseline      *)
(* vector a row belongs to.  They are built by different loops, which have *)
(* to agree with each other and with the order of the file.                *)
(*                                                                         *)
(* A sample of the file is abstracted to what it is: the product of two    *)
(* polarizations of two antennas in a channel and a block.                 *)
(***************************************************************************)
EXTENDS Integers, Sequences, FiniteSets

CONSTANTS MaxAntennas,       \* bound: antennas of an observation
          MaxChannels,       \* bound: its channels
          MaxBlocks,         \* bound: whole blocks in the file
          TemplateBaselines, \* num_baselines in observation_descriptor_template.json
          None               \* not phased, no file, no row yet

NumPols  == 2
NumPolSq == NumPols * NumPols

(* A value in a row: the block, the channel, the antennas and the            *)
(* polarizations that it is the product of, and the baseline it was phased by. *)
Values == [block : Nat, chan : Nat, pair : Nat \X Nat, pols : Nat \X Nat,
           by : (Nat \X Nat) \cup {None}]

(* A row of n channels: in each, the four products of the polarizations. *)
Rows(n) == [0 .. n - 1 -> [1 .. NumPolSq -> Values]]

ASSUME BoundsAssumption ==
    /\ MaxAntennas \in Nat \ {0} /\ MaxChannels \in Nat \ {0} /\ MaxBlocks \in Nat
    /\ TemplateBaselines \in Nat

ASSUME NoneAssumption ==
    /\ None \notin Nat \X Nat
    /\ \A n \in 1 .. MaxChannels : None \notin Rows(n)

VARIABLES
    num_antennas,     \* len(metadata['antenna_names'])
    nbls,             \* metadata['num_baselines']
    d_num_channels,
    file_size,        \* samples in the file
    frequency_first,  \* is a block of it in the order of frequencies? (see Recorded)
    delays,           \* are there antenna_delays?
    correct_for_delay,
    phase,            \* where the program is: "phase", "read", "done" or "error"
    phased,           \* is it the phased file that is read?
    position,         \* samples read from it
    cur_block,
    tmp_array,        \* the rows of data
    time_array,       \* the time of each row, in integrations since the start
    uvw_array         \* the baseline vector of each row

inputs == <<num_antennas, nbls, d_num_channels, file_size, frequency_first, delays,
            correct_for_delay>>
vars   == <<inputs, phase, phased, position, cur_block, tmp_array, time_array, uvw_array>>

-----------------------------------------------------------------------------
(* The orders. *)

Triangle(n) == (n * (n + 1)) \div 2

(* The X-engine writes the lower triangle of the antennas' matrix, row by    *)
(* row: entry i * (i + 1) / 2 + j is that of antennas i and j.               *)
PairOf(k) == CHOOSE p \in (0 .. k) \X (0 .. k) : p[2] <= p[1] /\ Triangle(p[1]) + p[2] = k

num_baselines == Triangle(num_antennas)
BlockSize     == num_baselines * d_num_channels * NumPolSq

(* What two nested loops append, k-th from zero: pairs in lexicographic order. *)
InOrder(pairs, k) ==
    CHOOSE p \in pairs :
        Cardinality({q \in pairs : q[1] < p[1] \/ (q[1] = p[1] /\ q[2] < p[2])}) = k

Antennas == 0 .. num_antennas - 1

(* ant_1_array and ant_2_array, once for each block: a2 <= a1. *)
RowPairs == {p \in Antennas \X Antennas : p[2] <= p[1]}

AntennasOfRow(row) == InOrder(RowPairs, row % num_baselines)

(* mutant: the names from a on *)
NamesFrom == {p \in Antennas \X Antennas : p[2] \in p[1] .. num_antennas - 1}

(* The list of baselines that phasing goes through: the names up to a. *)
NamesUpTo == {p \in Antennas \X Antennas : p[2] \in 0 .. p[1]}

Baseline(k) == InOrder(NamesUpTo, k)

(* Sample s of block b as the X-engine wrote it, which is not part of this   *)
(* repository.  The documents disagree about it: a block is                  *)
(* [frequency][baseline][npol^2] to the reader (94, 479) and to the sample   *)
(* in README.md (148), [baseline][frequency][npol^2] to its text (103).      *)
Recorded(b, s) ==
    [block |-> b,
     chan  |-> IF frequency_first THEN s \div (num_baselines * NumPolSq)
               ELSE (s \div NumPolSq) % d_num_channels,
     pair  |-> PairOf(IF frequency_first THEN (s \div NumPolSq) % num_baselines
                      ELSE s \div (d_num_channels * NumPolSq)),
     pols  |-> <<(s % NumPolSq) \div NumPols, s % NumPols>>,
     by    |-> None]

(* stop_baseline() on every baseline but the autocorrelations, by number.    *)
Stopped(x, k) ==
    IF Baseline(k)[1] = Baseline(k)[2] THEN x ELSE [x EXCEPT !.by = Baseline(k)]

Sample(b, s) ==
    IF phased THEN Stopped(Recorded(b, s), (s \div NumPolSq) % num_baselines)
    ELSE Recorded(b, s)

(* reorderFreqPerBaseline(): [channel][baseline] becomes [baseline][channel]. *)
(* mutant: the matrix is read by rows, as it is written *)
SameOrder(k, f, i) == (d_num_channels * NumPolSq) * k + f * NumPolSq + i

OriginalIndex(k, f, i) == (num_baselines * NumPolSq) * f + k * NumPolSq + i

(* XX, YY, XY, YX from XX, XY, YX, YY. *)
AipsOrder == <<0, 3, 1, 2>>

(* The four products of row k in channel f, for the block that is read. *)
Spectrum(b, k) ==
    [f \in 0 .. d_num_channels - 1 |->
        [slot \in 1 .. NumPolSq |-> Sample(b, OriginalIndex(k, f, AipsOrder[slot]))]]

(* The difference of two antennas' coordinates stands for itself. *)
Vector(p) == IF p[1] = p[2] THEN None ELSE p

(* baseline_vectors: current_index stays 0, so that row 0 is overwritten by  *)
(* every pair and the others stay zero.                                      *)
BaselineVectors ==
    [k \in 0 .. nbls - 1 |->
        IF k = 0 THEN Vector(<<num_antennas - 1, num_antennas - 1>>) ELSE None]

-----------------------------------------------------------------------------
num_time_blocks == file_size \div BlockSize
Nblts           == num_time_blocks * num_baselines

(* create_observation_descriptor.py puts the number of baselines under       *)
(* another key, so that the template's number stays; a descriptor that is    *)
(* written by hand has the right one.                                        *)
Init ==
    /\ num_antennas \in 1 .. MaxAntennas
    /\ nbls \in {num_baselines, TemplateBaselines}
    /\ d_num_channels \in 1 .. MaxChannels
    /\ \E blocks \in 0 .. MaxBlocks, tail \in {0, 1, BlockSize \div 2, BlockSize - 1} :
           file_size = blocks * BlockSize + tail
    /\ frequency_first \in BOOLEAN
    /\ delays \in BOOLEAN
    /\ correct_for_delay \in BOOLEAN
    /\ phase = "phase"
    /\ phased = FALSE
    /\ position = 0
    /\ cur_block = 0
    /\ tmp_array = [r \in 0 .. Nblts - 1 |-> None]
    /\ time_array = <<>>
    /\ uvw_array = <<>>

(* What numpy keeps of the samples before it reshapes them to whole blocks:  *)
(* multiples of n, which has one factor of d_npol only.                      *)
Kept == LET n == num_baselines * NumPols * d_num_channels IN (file_size \div n) * n

(* The telescope is the ATA: its data are phased also when there are no      *)
(* delays and none are to be corrected, but stop_baseline() needs them.      *)
ToBePhased == delays \/ ~correct_for_delay

(* A file that ends in more than half a block cannot be reshaped; no one     *)
(* catches that.                                                             *)
PhasingFails == Kept % BlockSize # 0 \/ (~delays /\ num_antennas > 1)

(* The uvw_array of a phased file is zero: the vectors stop_baseline()       *)
(* returns are not used.                                                     *)
Phase ==
    /\ phase = "phase"
    /\ \/ /\ ~ToBePhased
          /\ phase' = "read"
          /\ UNCHANGED <<phased, uvw_array>>
       \/ /\ ToBePhased /\ PhasingFails
          /\ phase' = "error"
          /\ UNCHANGED <<phased, uvw_array>>
       \/ /\ ToBePhased /\ ~PhasingFails
          /\ phase' = "read"
          /\ phased' = TRUE
          /\ uvw_array' = [r \in 1 .. Nblts |-> None]
    /\ UNCHANGED <<inputs, position, cur_block, tmp_array, time_array>>

SizeRead == IF phased THEN Kept ELSE file_size

(* mutant: a block that has only begun counts *)
SomeLeft == position < SizeRead

WholeBlockLeft == SizeRead - position >= BlockSize

ReadBlock ==
    /\ phase = "read"
    /\ WholeBlockLeft
    /\ position' = position + BlockSize
    /\ tmp_array' = [r \in DOMAIN tmp_array |->
           LET k == r - cur_block * num_baselines
           IN  IF k \in 0 .. num_baselines - 1
               THEN Spectrum(position \div BlockSize, k) ELSE tmp_array[r]]
    /\ time_array' = time_array \o [k \in 1 .. num_baselines |-> cur_block]
    /\ uvw_array' = IF delays THEN uvw_array
                    ELSE uvw_array \o [k \in 1 .. nbls |-> BaselineVectors[k - 1]]
    /\ cur_block' = cur_block + 1
    /\ UNCHANGED <<inputs, phase, phased>>

EndOfBlocks ==
    /\ phase = "read"
    /\ ~WholeBlockLeft
    /\ phase' = "done"
    /\ UNCHANGED <<inputs, phased, position, cur_block, tmp_array, time_array, uvw_array>>

Next == Phase \/ ReadBlock \/ EndOfBlocks

Spec == Init /\ [][Next]_vars
-----------------------------------------------------------------------------
(* Properties. *)

TypeOK ==
    /\ num_antennas \in 1 .. MaxAntennas
    /\ d_num_channels \in 1 .. MaxChannels
    /\ phase \in {"phase", "read", "done", "error"}
    /\ {frequency_first, delays, correct_for_delay, phased} \subseteq BOOLEAN
    /\ cur_block \in 0 .. MaxBlocks
    /\ file_size \in Nat
    /\ position \in 0 .. file_size
    /\ tmp_array \in [0 .. Nblts - 1 -> Rows(d_num_channels) \cup {None}]
    /\ time_array \in Seq(Nat)
    /\ uvw_array \in Seq((Nat \X Nat) \cup {None})

(* Every block the file has whole becomes rows, and a block it has in part   *)
(* none (418, 517-530): the loop that reads and the arrays that were sized   *)
(* from the length of the file end together, phased or not.  Where the       *)
(* baseline vectors are computed there is one for each row, but only if the  *)
(* descriptor has the number of baselines, and not its template's.           *)
EveryBlockOnce ==
    phase = "done" =>
        /\ cur_block = num_time_blocks
        /\ Len(time_array) = Nblts
        /\ \A r \in DOMAIN tmp_array : tmp_array[r] # None
        /\ ~ToBePhased /\ nbls = num_baselines => Len(uvw_array) = Nblts

(* A row holds, in each channel and slot, the product of the antennas and    *)
(* the time that ant_1_array, ant_2_array and time_array say, and of the     *)
(* polarizations of polarization_array (-5 to -8: XX, YY, XY, YX): of a file *)
(* in the order that reorderFreqPerBaseline() supposes (93-97).  Of one in   *)
(* the order of README.md 103 it does not, and nothing tells.                *)
Slots == <<<<0, 0>>, <<1, 1>>, <<0, 1>>, <<1, 0>>>>

RowsLabelled ==
    frequency_first => \A r \in DOMAIN tmp_array : tmp_array[r] # None =>
        \A f \in DOMAIN tmp_array[r], slot \in 1 .. NumPolSq :
            LET x == tmp_array[r][f][slot]
            IN  /\ x.chan = f
                /\ x.pair = AntennasOfRow(r)
                /\ x.pols = Slots[slot]
                /\ x.block = time_array[r + 1]

(* A row of a phased file was phased by its own antennas' baseline, and the  *)
(* rows of one antenna were not.                                             *)
PhasedByOwn ==
    phased => \A r \in DOMAIN tmp_array : tmp_array[r] # None =>
        \A f \in DOMAIN tmp_array[r], slot \in 1 .. NumPolSq :
            LET a == AntennasOfRow(r)
            IN  tmp_array[r][f][slot].by = IF a[1] = a[2] THEN None ELSE a
=============================================================================
