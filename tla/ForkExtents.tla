---------------------------- MODULE ForkExtents ----------------------------
(***************************************************************************)
(* The extent list of a fork (extents.go: resolveForkExtents,              *)
(* resolveForkExtentsFromFork, compactExtents, extentBlockCount,           *)
(* trimExtentsToBlocks): the extents of the catalog record, then those of  *)
(* the overflow records, one record per round, until TotalBlocks blocks are*)
(* covered.  Block counts are unsigned numbers of a fixed width.           *)
(***************************************************************************)
EXTENDS ExtentLists, FiniteSets, SequencesExt, FiniteSetsExt

CONSTANTS Cnids,   \* the CNIDs a fork may be asked for by
          MaxRecord \* extents in one record: 8, or 3 on classic HFS

ASSUME ForkExtentsAssumption == MaxRecord \in Nat \ {0}

(***************************************************************************)
(* A fork: cnid, the CNID its overflow records are keyed by; total, its    *)
(* TotalBlocks; inline, the extents of the catalog record, unused ones     *)
(* [0, 0]; overflow, from the logical block an overflow record starts at to*)
(* its extents; size, its logical size, and kind, what it is the fork of   *)
(* (OpenFork); for the properties, whether the fork is sound, and laid, the*)
(* extents it was laid out in.                                             *)
(* A fork that is asked for by another CNID is reached through a hard link.*)
(***************************************************************************)
VARIABLES fork, cnid,
          phase,     \* "inline", "collect", "append", "done"
          out,       \* the list so far
          overflow,  \* the overflow records the walk found
          result     \* "none", "ok", "missing", "corrupt" or "failed"

resolveVars == <<fork, cnid, phase, out, overflow, result>>

Record == {exts \in Seq(Extent) : Len(exts) <= MaxRecord}

IsFork(f) ==
    /\ f.total \in 0 .. Width - 1 /\ f.inline \in Record
    /\ \A b \in DOMAIN f.overflow : f.overflow[b] \in Record

\* A sound fork: the records hold the extents it was laid out in, each record
\* those that follow the record before it, until the fork is covered.
Continues(f, i) == UpTo(f.laid)[i] >= f.total \/ UpTo(f.laid)[i] \in DOMAIN f.overflow

IsLaid(f) ==
    LET exts == f.laid IN
    /\ exts \in Seq(Extent) /\ \A i \in DOMAIN exts : exts[i].count # 0
    /\ Covered(exts) \in f.total .. Width - 1 /\ (f.total = 0 => exts = <<>>)
    /\ \E i \in 0..Len(exts) : Compact(f.inline) = SubSeq(exts, 1, i) /\ Continues(f, i)
    /\ \A b \in DOMAIN f.overflow : \E i \in 0..Len(exts) : \E j \in (i + 1)..Len(exts) :
           b = UpTo(exts)[i] /\ Compact(f.overflow[b]) = SubSeq(exts, i + 1, j) /\ Continues(f, j)

ResolveInit ==
    /\ cnid \in Cnids
    /\ phase = "inline" /\ out = <<>> /\ overflow = <<>> /\ result = "none"

Give(r, exts) == phase' = "done" /\ result' = r /\ out' = exts

\* The extents of the catalog record alone may do.
Inline ==
    /\ phase = "inline"
    /\ LET exts == Compact(fork.inline) IN
       CASE fork.total = 0            -> Give("ok", exts)
         [] Count(exts) >= fork.total /\ fork.total > 0 -> Give("ok", Trim(exts, fork.total))
         [] OTHER -> phase' = "collect" /\ out' = exts /\ UNCHANGED result
    /\ UNCHANGED <<fork, cnid, overflow>>

\* walkExtentsForFork collects the overflow records keyed by the CNID that
\* was passed in; the walk may fail.
Collect ==
    /\ phase = "collect"
    /\ \/ Give("failed", <<>>) /\ UNCHANGED overflow
       \/ /\ phase' = "append"
          /\ overflow' = IF cnid # fork.cnid THEN <<>>
                         ELSE [b \in DOMAIN fork.overflow |-> Compact(fork.overflow[b])]
          /\ UNCHANGED <<out, result>>
    /\ UNCHANGED <<fork, cnid>>

\* Mutant: overflow records are keyed by the extents before them.
NextKey_Extents(exts) == Len(exts)

\* The overflow record that continues a list starts at the block after it.
NextKey(exts) == Count(exts)

\* A round that covered no more than before means a wrapped block count.
Stuck(before, after) == after <= before

\* One round of the loop.
AppendRecord ==
    /\ phase = "append"
    /\ LET covered == Count(out) IN
       IF covered >= fork.total THEN Give("ok", Trim(out, fork.total)) ELSE
       LET next == NextKey(out) IN
       IF next \notin DOMAIN overflow \/ overflow[next] = <<>> THEN Give("missing", <<>>) ELSE
       LET longer == out \o overflow[next] IN
       IF Stuck(covered, Count(longer)) THEN Give("corrupt", <<>>)
                                        ELSE out' = longer /\ UNCHANGED <<phase, result>>
    /\ UNCHANGED <<fork, cnid, overflow>>

ResolveNext == Inline \/ Collect \/ AppendRecord

---------------------------------------------------------------------------
(* Properties *)

\* The blocks an extent list stands for, in order.
BlocksOf(exts) ==
    FlattenSeq([i \in DOMAIN exts |-> [j \in 1..exts[i].count |-> exts[i].start + j - 1]])

\* The blocks a sound fork was written to.
WrittenTo(f) == SubSeq(BlocksOf(f.laid), 1, f.total)

\* The list never holds an extent without blocks, and an error returns none.  No
\* set of overflow records keeps the loop going: each round covers at least one
\* more block, so a cycle of wrapped counts is refused (extents.go:148-155).
ResolveTypeOK ==
    /\ phase \in {"inline", "collect", "append", "done"}
    /\ result \in {"none", "ok", "missing", "corrupt", "failed"}
    /\ (phase = "done") <=> (result # "none")
    /\ \A i \in 1..Len(out) : out[i].count \in 1..(Width - 1)
    /\ Len(out) <= MaxRecord * (fork.total + 1)
    /\ result \in {"missing", "corrupt", "failed"} => out = <<>>

\* A well-formed fork, however fragmented and wherever its records split, comes
\* back as the blocks it was written to, in order (extents.go:120-159).
SoundForkExact ==
    fork.sound /\ cnid = fork.cnid /\ phase = "done" /\ result # "failed" =>
        result = "ok" /\ BlocksOf(out) = WrittenTo(fork)

\* Whatever the records hold and however counts wrap, a list that is returned
\* covers TotalBlocks exactly: a reader never sees blocks past the fork, nor a
\* fork silently short.
CoversTotal == result = "ok" /\ fork.total > 0 => Covered(out) = fork.total

\* "It resolves a hard link to its target inode before reading the fork, so the
\* ranges belong to the content rather than to the link" (ranges.go:154-156):
\* the CNID of the link gives what the CNID of the inode gives.
LinkGivesContent == fork.sound /\ phase = "done" /\ result # "failed" => BlocksOf(out) = WrittenTo(fork)
============================================================================
