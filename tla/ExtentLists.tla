---------------------------- MODULE ExtentLists ----------------------------
(***************************************************************************)
(* Lists of extents (extents.go): the blocks they span.  An extent is      *)
(* [start, count], in allocation blocks.  Operators only: ForkExtents and  *)
(* FileRead call them.                                                     *)
(***************************************************************************)
EXTENDS Integers, Sequences

CONSTANT Width    \* 2^32 in the code: what a count can be, and where sums of counts wrap

ASSUME ExtentListsAssumption == Width \in Nat \ {0}

Extent == [start : Nat, count : 0 .. Width - 1]

\* Blocks in the first i extents, for every i.
UpTo(exts) ==
    LET blocks[i \in 0 .. Len(exts)] == IF i = 0 THEN 0 ELSE blocks[i-1] + exts[i].count IN blocks

\* In all of them; before the i-th.
Covered(exts)   == UpTo(exts)[Len(exts)]
Before(exts, i) == UpTo(exts)[i-1]

\* extentBlockCount.
Count(exts) == Covered(exts) % Width

---------------------------------------------------------------------------
(* compactExtents *)

\* The list ends at the first unused descriptor.
Used(exts) ==
    LET unused == {i \in DOMAIN exts : exts[i].start = 0 /\ exts[i].count = 0}
    IN  IF unused = {} THEN exts
        ELSE SubSeq(exts, 1, (CHOOSE i \in unused : \A j \in unused : i <= j) - 1)

\* Mutant: an extent without blocks is kept.
Compact_KeepsEmpty(exts) == Used(exts)

\* One that has a start but no blocks is left out.
Compact(exts) ==
    LET used == Used(exts)
        kept[i \in 0 .. Len(used)] ==
            IF i = 0 THEN <<>>
            ELSE IF used[i].count # 0 THEN Append(kept[i-1], used[i]) ELSE kept[i-1]
    IN  kept[Len(used)]

---------------------------------------------------------------------------
(* trimExtentsToBlocks *)

\* Mutant: the last extent is kept whole.
Cut_Whole(e, left) == e

\* The first blocks of an extent that is too long are kept.
Cut(e, left) == [e EXCEPT !.count = IF @ <= left THEN @ ELSE left]

Trim(exts, blocks) ==
    LET kept == {i \in DOMAIN exts : Before(exts, i) < blocks}
    IN  [i \in kept |-> Cut(exts[i], blocks - Before(exts, i))]
============================================================================
