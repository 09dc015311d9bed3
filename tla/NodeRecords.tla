---------------------------- MODULE NodeRecords ----------------------------
(***************************************************************************)
(* The records of a B-tree node, byte by byte (btree.go:                   *)
(* parseNodeRecordOffsets; btree_walk.go: extractNodeRecords; deleted.go:  *)
(* nodeSlackRegion, carveRecords).  Operators only: Recovery calls them.   *)
(*                                                                         *)
(* A node: leaf, whether its descriptor says so; offs, the words of its    *)
(* offset array, one for every record and one for the free space; held,    *)
(* what begins at which byte; fwd, its forward link.  Only bytes that      *)
(* decode as a record are held, each with its length: those of the records *)
(* and those that earlier ones left behind.                                *)
(***************************************************************************)
EXTENDS Integers, Sequences, FiniteSets

CONSTANTS NodeSize, \* in bytes
          DescSize  \* 14 in the code: the node descriptor

ASSUME NodeAssumption == NodeSize \in Nat /\ DescSize \in Nat \ {0}

NumRecords(node) == Len(node.offs) - 1
FreeOffset(node) == node.offs[Len(node.offs)]
ArrayStart(node) == NodeSize - 2 * Len(node.offs)

\* parseNodeRecordOffsets: one offset beyond the node spoils them all.
Parses(node) == ArrayStart(node) >= 0 /\ \A i \in DOMAIN node.offs : node.offs[i] <= NodeSize

---------------------------------------------------------------------------
(* extractNodeRecords *)

\* Mutant: free space is not told from records.
Limit_Whole(node) == NodeSize

\* Where records end: a free-space offset inside the descriptor is ignored.
Limit(node) == IF FreeOffset(node) >= DescSize THEN FreeOffset(node) ELSE NodeSize

\* Repeated offsets count once.
Starts(node) == {node.offs[i] : i \in 1..NumRecords(node)} \cap (DescSize .. Limit(node) - 1)

\* A record takes the bytes from its start to the next start, or to the limit.
Spans(node) ==
    IF ~Parses(node) THEN {}
    ELSE {sp \in [start : Starts(node), end : Starts(node) \union {Limit(node)}] :
             sp.start < sp.end /\ \A s \in Starts(node) : ~(sp.start < s /\ s < sp.end)}

\* What decodes at the start of a span, and fits in it.
Decodes(node, sp) == sp.start \in DOMAIN node.held /\ sp.start + node.held[sp.start].len <= sp.end

\* The records the node lists, and where they are.
ListedAt(node) == {sp.start : sp \in {x \in Spans(node) : Decodes(node, x)}}
Listed(node)   == {node.held[b] : b \in ListedAt(node)}

\* Offsets in the order of the node, as they are sorted before use.
Ascending(S) == CHOOSE s \in [1..Cardinality(S) -> S] : \A i, j \in DOMAIN s : i < j => s[i] < s[j]

---------------------------------------------------------------------------
(* nodeSlackRegion and carveRecords *)

\* Free space, from the last record to the offset array; none if the node is
\* damaged.
HasSlack(node) == /\ Parses(node) /\ DescSize <= FreeOffset(node)
                  /\ FreeOffset(node) < ArrayStart(node)

\* carveRecords looks at every second byte of it, and decodes what fits.  (It
\* wants eight bytes; no record is as short.)
CarvesAt(node, off) == off \in DOMAIN node.held /\ off + node.held[off].len <= ArrayStart(node)
============================================================================
