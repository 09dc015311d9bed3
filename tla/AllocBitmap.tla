---------------------------- MODULE AllocBitmap ----------------------------
(***************************************************************************)
(* The allocation bitmap (alloc.go: BlockAllocated, walkFreeRuns,          *)
(* FreeBlockCount, readBitmapAt) and the tasks carving makes of its free   *)
(* runs (workers.go: splitBlockRuns).  Operators only: Recovery calls them.*)
(*                                                                         *)
(* A bitmap: total, the volume's TotalBlocks; used, the bits that are set, *)
(* those after the last block included; lost, its bytes that cannot be     *)
(* read.                                                                   *)
(***************************************************************************)
EXTENDS Integers, Sequences, FiniteSets, SequencesExt, FiniteSetsExt

CONSTANTS BitsPerByte,  \* 8 in the code
          BatchSize     \* carveBlockBatch

ASSUME BitmapAssumption == {BitsPerByte, BatchSize} \subseteq Nat \ {0}

ByteOf(block) == block \div BitsPerByte

\* BlockAllocated reads the byte of the bit, and nothing beyond the volume.
CanTell(b, block)        == block < b.total /\ ByteOf(block) \notin b.lost
BlockAllocated(b, block) == block \in b.used

\* The bytes the walk goes through.
Size(b) == (b.total + BitsPerByte - 1) \div BitsPerByte

(***************************************************************************)
(* The walk: runs, those the callback was given; start and len, the run    *)
(* under way.                                                              *)
(***************************************************************************)
NoRun == [runs |-> <<>>, start |-> 0, len |-> 0]

Flush(w) == IF w.len = 0 THEN w
            ELSE [w EXCEPT !.runs = Append(@, [start |-> w.start, count |-> w.len]), !.len = 0]

Free(w, block) == [w EXCEPT !.start = IF w.len = 0 THEN block ELSE @, !.len = @ + 1]

\* One bit; those after the last block are not looked at.
Bit(b, w, block) ==
    CASE block >= b.total                     -> w
      [] block < b.total /\ block \in b.used  -> Flush(w)
      [] OTHER                                -> Free(w, block)

BitsOf(byte) == byte * BitsPerByte .. byte * BitsPerByte + BitsPerByte - 1

\* Bit by bit from the first of a byte.
Bits(b, w, byte) ==
    LET upTo[i \in 0..BitsPerByte] ==
            IF i = 0 THEN w ELSE Bit(b, upTo[i-1], byte * BitsPerByte + i - 1)
    IN  upTo[BitsPerByte]

\* Mutant: a full byte does not end the run.
FullByte_Skipped(w) == w

\* The shortcut for a byte all of whose bits are set.
FullByte(w) == Flush(w)

Byte(b, w, byte) == IF BitsOf(byte) \subseteq b.used THEN FullByte(w) ELSE Bits(b, w, byte)

\* FreeBlockCount, of the runs of a whole walk.
FreeBlockCount(runs) ==
    LET upTo[i \in 0..Len(runs)] == IF i = 0 THEN 0 ELSE upTo[i-1] + runs[i].count
    IN  upTo[Len(runs)]

---------------------------------------------------------------------------
BatchLength(r, off) == Min({BatchSize, r.count - off})

\* The batches of one run, off stepping by BatchSize.  The code adds in 32 bits,
\* which this leaves out: a run must end BatchSize blocks short of 2^32.
Batches(r) ==
    [i \in 1..((r.count + BatchSize - 1) \div BatchSize) |->
        LET off == (i - 1) * BatchSize
        IN  [start |-> r.start + off, count |-> BatchLength(r, off)]]

\* splitBlockRuns.
SplitBlockRuns(runs) == FlattenSeq([i \in DOMAIN runs |-> Batches(runs[i])])

\* The blocks of a run or a batch, in order.
BlocksIn(r) == [i \in 1..r.count |-> r.start + i - 1]
============================================================================
