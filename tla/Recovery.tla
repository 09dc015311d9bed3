------------------------------ MODULE Recovery ------------------------------
(***************************************************************************)
(* Recovery of deleted records (deleted.go: WalkDeletedContext,            *)
(* liveRecordKeys, the three scans, carveOneRecord, gradeRecovered).  A    *)
(* pass over the leaf chain collects the live identities; then the scans   *)
(* come upon records, and those that pass the checks are graded against    *)
(* the volume and emitted.  Node slack and free nodes are scanned on the   *)
(* caller's goroutine; unallocated blocks are carved by parallelMap        *)
(* (WorkerPool), here as tasks that advance in any order, and emitted after*)
(* all of them.  NodeRecords says where in a node records are, AllocBitmap *)
(* which blocks are free and how they become tasks.                        *)
(*                                                                         *)
(* A record: its identity key, its len in bytes, whether it is an entry (a *)
(* file or a folder), whether carveOneRecord finds it plausible, and what  *)
(* gradeRecovered goes by: whether its parent is found, a live folder;     *)
(* whether its CNID is below the next to be assigned; whether the bits of  *)
(* its blocks are told, or the first it needs cannot be read; the extents. *)
(* A node or block is Bad if it can never be read; and a node of the tree  *)
(* may fail to be read whenever it is.  (A block is read once.)            *)
(***************************************************************************)
EXTENDS AllocBitmap, NodeRecords

CONSTANTS Volumes,  \* [nodes, first, map, content, bitmap]: the catalog's nodes from 1
                    \* on, its first leaf, the header's node map [bits, used], the nodes
                    \* that lie in each block, and the allocation bitmap
          Options,  \* [scan, stale, min]: the scans asked for, IncludeStaleCopies
                    \* and MinConfidence
          Width,    \* 2^32 in the code: block numbers wrap here
          Bad

\* Chains of links end at 0, which is the header node's number.  What an extent
\* says is any number that fits.  What decodes as a record takes bytes.
Extents == Seq([start : 0 .. Width - 1, count : 0 .. Width - 1])

IsNode(node) ==
    /\ node.offs \in Seq(Nat) /\ node.offs # <<>>
    /\ \A b \in DOMAIN node.held :
          b \in Nat /\ node.held[b].len \in Nat \ {0} /\ node.held[b].exts \in Extents

ASSUME RecoveryAssumption ==
    /\ Width \in Nat \ {0}
    /\ \A v \in Volumes :
          /\ 0 \notin DOMAIN v.nodes
          /\ \A n \in DOMAIN v.nodes : v.nodes[n] # Bad => IsNode(v.nodes[n])
          /\ \A block \in DOMAIN v.content : v.content[block] # Bad =>
                v.content[block] \in Seq({node \in Range(v.content[block]) : IsNode(node)})
          /\ v.bitmap.total \in 0 .. Width - 1

Low == 0
Medium == 1
High == 2

VARIABLES job, opts,
          phase,     \* "start", "live", "slack", "free", "runs", "carve", "emit", "done"
          num,       \* the node, byte of the bitmap, or batch the phase is at
          off,       \* where in the node, or in the batch; 0 before it is opened
          visited,   \* the nodes of the chain the phase has been to
          unread,    \* the node the scan of node slack ended at, unable to read it
                     \* again, 0 if none; history
          live,      \* the identities found by the first pass
          walk,      \* the walk of the bitmap: the free runs so far
          tasks,     \* the batches of free blocks to carve
          task,      \* task[t]: blocks of batch t carved so far
          found,     \* found[t]: what they held, graded
          seen,      \* the confidence each identity was last emitted with
          emitted,   \* what the callback was given, in order
          ctxDone, result

fixed  == <<job, opts>>
place  == <<num, off, visited, unread>>
carved == <<tasks, task, found>>
vars   == <<fixed, phase, place, live, walk, carved, seen, emitted, ctxDone, result>>

Tasks == DOMAIN tasks
Nodes == DOMAIN job.nodes

---------------------------------------------------------------------------
(* gradeRecovered *)

\* Where an extent ends, in the arithmetic of the code.
End(e) == (e.start + e.count) % Width

Outside(e) == e.start >= job.bitmap.total \/ End(e) > job.bitmap.total

\* Mutant: a bit that cannot be read passes for free.
NotFree_IfRead(e) == {block \in e.start .. End(e) - 1 :
                         CanTell(job.bitmap, block) /\ BlockAllocated(job.bitmap, block)}

\* The blocks of an extent are looked at in order, up to the first that is in
\* use or whose bit cannot be read.
NotFree(e) == {block \in e.start .. End(e) - 1 :
                  ~CanTell(job.bitmap, block) \/ BlockAllocated(job.bitmap, block)}

Fate(e) == CASE Outside(e) -> "outside"
             [] ~Outside(e) /\ NotFree(e) = {} -> "free"
             [] OTHER -> IF CanTell(job.bitmap, Min(NotFree(e))) THEN "used" ELSE "outside"

\* The extents likewise: the first that is not free decides.
Fates(exts) == LET stop == {i \in DOMAIN exts : Fate(exts[i]) # "free"}
               IN  IF stop = {} THEN "free" ELSE Fate(exts[Min(stop)])

Verdict(c) == IF c.told THEN Fates(c.exts) ELSE "outside"

Overwritten(c) == Verdict(c) = "used"

Confidence(c) ==
    CASE c.parentLive /\ c.exts # <<>> /\ Verdict(c) = "free" -> High
      [] c.parentLive \/ c.known -> Medium
      [] OTHER -> Low

\* carveOneRecord: what it makes of a record, and where it says it was.
Graded(c, node, byte) ==
    [key |-> c.key, conf |-> Confidence(c), over |-> Overwritten(c), exts |-> c.exts,
     node |-> node, byte |-> byte]

\* What the callback is given of it.
Reported(f, source) ==
    [key |-> f.key, conf |-> f.conf, over |-> f.over, exts |-> f.exts,
     node |-> f.node, byte |-> f.byte, source |-> source, stale |-> f.key \in live]

---------------------------------------------------------------------------
Init ==
    /\ job \in Volumes /\ opts \in Options
    /\ phase = "start" /\ num = job.first /\ off = 0 /\ visited = {} /\ unread = 0
    /\ live = {}
    /\ walk = NoRun /\ tasks = <<>> /\ task = <<>> /\ found = <<>>
    /\ seen = <<>> /\ emitted = <<>> /\ ctxDone = FALSE /\ result = "none"

Cancel ==
    /\ ~ctxDone /\ result = "none" /\ ctxDone' = TRUE
    /\ UNCHANGED <<fixed, phase, place, live, walk, carved, seen, emitted, result>>

End_(r) == phase' = "done" /\ result' = r

\* The context is looked at once; then the header is read, which may fail.
Begin ==
    /\ phase = "start"
    /\ IF ctxDone THEN End_("canceled")
                  ELSE \/ phase' = "live" /\ UNCHANGED result
                       \/ End_("failed")
    /\ UNCHANGED <<fixed, place, live, walk, carved, seen, emitted, ctxDone>>

\* Where the chain of forward links is over: at zero, or at a node it came by.
ChainOver == num = 0 \/ num \in visited

\* A node the tree has, and that can be read.
HasNode(n) == n \in {x \in Nodes : job.nodes[x] # Bad}

\* Of files and folders, plausible to carveOneRecord or not.
Identities(node) == {c.key : c \in {x \in Listed(node) : x.entry}}

\* liveRecordKeys, node by node of the leaf chain; one that is not read, or that
\* the tree does not have, fails the recovery.
LiveNode ==
    /\ phase = "live"
    /\ \/ /\ ChainOver
          /\ phase' = "slack" /\ num' = job.first /\ visited' = {}
          /\ UNCHANGED <<live, result>>
       \/ ~ChainOver /\ End_("failed") /\ UNCHANGED <<num, visited, live>>
       \/ /\ ~ChainOver /\ HasNode(num)
          /\ visited' = visited \union {num} /\ num' = job.nodes[num].fwd
          /\ live' = live \union Identities(job.nodes[num])
          /\ UNCHANGED <<phase, result>>
    /\ UNCHANGED <<fixed, off, unread, walk, carved, seen, emitted, ctxDone>>

\* Mutant: an identity is emitted once, however weak.
Known_Any(f) == f.key \in DOMAIN seen

\* An identity was already emitted with as much confidence.
Known(f) == f.key \in DOMAIN seen /\ seen[f.key] >= f.conf

Wanted(f) == f.conf >= opts.min /\ (f.key \in live => opts.stale) /\ ~Known(f)

\* emit, which may stop the walk, for what carveOneRecord lets through.
Emit(f, source) ==
    \/ ~Wanted(f) /\ UNCHANGED <<phase, seen, emitted, result>>
    \/ /\ Wanted(f)
       /\ seen' = [k \in DOMAIN seen \union {f.key} |-> IF k = f.key THEN f.conf ELSE seen[k]]
       /\ emitted' = Append(emitted, Reported(f, source))
       /\ \/ UNCHANGED <<phase, result>>
          \/ End_("stopped")

CarveOne(c, source, node, byte) ==
    \/ c.plausible /\ Emit(Graded(c, node, byte), source)
    \/ ~c.plausible /\ UNCHANGED <<phase, seen, emitted, result>>

First(b, bytes) == b \in bytes /\ \A x \in bytes : b <= x

---------------------------------------------------------------------------
(* scanNodeSlack *)

\* The next node of the chain.  The first pass has read it; the second time it may
\* fail to be read, which ends the scan and not the recovery.
SlackNode ==
    /\ phase = "slack" /\ off = 0
    /\ \/ /\ "slack" \notin opts.scan \/ ChainOver
          /\ phase' = "free" /\ num' = 1
          /\ UNCHANGED <<off, visited, unread>>
       \/ /\ "slack" \in opts.scan /\ ~ChainOver
          /\ visited' = visited \union {num} /\ unread' = num
          /\ phase' = "free" /\ num' = 1 /\ UNCHANGED off
       \/ /\ "slack" \in opts.scan /\ ~ChainOver
          /\ visited' = visited \union {num}
          /\ IF HasSlack(job.nodes[num])
             THEN off' = FreeOffset(job.nodes[num]) /\ UNCHANGED num
             ELSE num' = job.nodes[num].fwd /\ UNCHANGED off
          /\ UNCHANGED <<phase, unread>>
    /\ UNCHANGED <<fixed, live, walk, carved, seen, emitted, ctxDone, result>>

\* carveRecords: the next of its bytes where a record decodes.
SlackBytes ==
    /\ phase = "slack" /\ off # 0
    /\ LET node == job.nodes[num]
           rest == {b \in DOMAIN node.held : b >= off /\ (b - off) % 2 = 0 /\ CarvesAt(node, b)}
       IN \/ \E b \in rest : /\ First(b, rest)
                             /\ off' = b + 2 /\ UNCHANGED num
                             /\ CarveOne(node.held[b], "slack", num, b)
          \/ /\ rest = {} /\ off' = 0 /\ num' = node.fwd
             /\ UNCHANGED <<phase, seen, emitted, result>>
    /\ UNCHANGED <<fixed, visited, unread, live, walk, carved, ctxDone>>

(* scanFreeNodes *)

\* A leaf that still says so and holds records.
FormerLeaf(node) == node.leaf /\ NumRecords(node) > 0

Unused(n) == n \notin job.map.used

\* The next node the map has a clear bit for; one that is not read is skipped.
\* Without the map, which is read at the start, there is no scan.
FreeNode ==
    /\ phase = "free" /\ off = 0
    /\ \/ /\ "free" \notin opts.scan \/ num \notin Nodes \/ num >= job.map.bits \/ num = 1
          /\ phase' = "runs" /\ num' = 0 /\ UNCHANGED off
       \/ /\ "free" \in opts.scan /\ num \in Nodes /\ num < job.map.bits
          /\ \/ /\ Unused(num) /\ HasNode(num) /\ FormerLeaf(job.nodes[num])
                /\ off' = 1 /\ UNCHANGED num
             \/ num' = num + 1 /\ UNCHANGED off
          /\ UNCHANGED phase
    /\ UNCHANGED <<fixed, visited, unread, live, walk, carved, seen, emitted, ctxDone, result>>

\* The next record it lists; where in the node is not reported.
FreeRecords ==
    /\ phase = "free" /\ off # 0
    /\ LET node == job.nodes[num]
           rest == {b \in ListedAt(node) : b >= off}
       IN \/ \E b \in rest : /\ First(b, rest)
                             /\ off' = b + 1 /\ UNCHANGED num
                             /\ CarveOne(node.held[b], "free", num, 0)
          \/ /\ rest = {} /\ off' = 0 /\ num' = num + 1
             /\ UNCHANGED <<phase, seen, emitted, result>>
    /\ UNCHANGED <<fixed, visited, unread, live, walk, carved, ctxDone>>

---------------------------------------------------------------------------
(* scanUnallocatedNodes *)

\* Collecting the free runs, byte by byte of the bitmap; one that cannot be read
\* fails the recovery.
WalkBitmap ==
    /\ phase = "runs" /\ "blocks" \in opts.scan /\ num < Size(job.bitmap)
    /\ \/ /\ num \notin job.bitmap.lost
          /\ walk' = Byte(job.bitmap, walk, num) /\ num' = num + 1
          /\ UNCHANGED <<phase, result>>
       \/ End_("failed") /\ UNCHANGED <<walk, num>>
    /\ UNCHANGED <<fixed, off, visited, unread, live, carved, seen, emitted, ctxDone>>

\* The runs are split into tasks; without a task the pool is not started.
SplitRuns ==
    /\ phase = "runs" /\ "blocks" \in opts.scan /\ num = Size(job.bitmap)
    /\ walk' = Flush(walk) /\ tasks' = SplitBlockRuns(walk'.runs)
    /\ task' = [t \in DOMAIN tasks' |-> 0] /\ found' = [t \in DOMAIN tasks' |-> <<>>]
    /\ phase' = IF tasks' = <<>> THEN "emit" ELSE "carve"
    /\ num' = 1 /\ off' = 1
    /\ UNCHANGED <<fixed, visited, unread, live, seen, emitted, ctxDone, result>>

NoBlocks ==
    /\ phase = "runs" /\ "blocks" \notin opts.scan
    /\ End_("ok")
    /\ UNCHANGED <<fixed, place, live, walk, carved, seen, emitted, ctxDone>>

\* What carveOneRecord makes of a block's leaves.  It is told the place of the
\* node, here its block.
CarvedNode(node, block) ==
    LET at == Ascending({b \in ListedAt(node) : node.held[b].plausible})
    IN  IF ~FormerLeaf(node) THEN <<>>
        ELSE [i \in DOMAIN at |-> Graded(node.held[at[i]], 0, block)]

\* A block that cannot be read yields nothing.
CarvedBlock(block) ==
    IF block \notin DOMAIN job.content \/ job.content[block] = Bad THEN <<>>
    ELSE FlattenSeq([i \in DOMAIN job.content[block] |-> CarvedNode(job.content[block][i], block)])

\* carveBlockRange: one block of a task, the context having been checked.
CarveBlock(t) ==
    /\ phase = "carve" /\ ~ctxDone /\ task[t] < tasks[t].count
    /\ task' = [task EXCEPT ![t] = @ + 1]
    /\ found' = [found EXCEPT ![t] = @ \o CarvedBlock(tasks[t].start + task[t])]
    /\ UNCHANGED <<fixed, phase, place, live, walk, tasks, seen, emitted, ctxDone, result>>

\* Mutant: one finished task is enough.
AllCarved_Some == \E t \in Tasks : task[t] = tasks[t].count

AllCarved == \A t \in Tasks : task[t] = tasks[t].count

\* parallelMap returns every batch, in task order.
Join ==
    /\ phase = "carve" /\ AllCarved
    /\ phase' = "emit"
    /\ UNCHANGED <<fixed, place, live, walk, carved, seen, emitted, ctxDone, result>>

\* Mutant: the context is also looked at while the batches are emitted.
Cancellable_Emit == phase \in {"carve", "emit"}

\* Where a cancelled context ends the call.
Cancellable == phase = "carve"

CancelSeen ==
    /\ Cancellable /\ ctxDone
    /\ End_("canceled")
    /\ UNCHANGED <<fixed, place, live, walk, carved, seen, emitted, ctxDone>>

\* The batches are emitted in order.
EmitBatch ==
    /\ phase = "emit" /\ num \in Tasks
    /\ IF off \in DOMAIN found[num]
       THEN off' = off + 1 /\ UNCHANGED num /\ Emit(found[num][off], "blocks")
       ELSE num' = num + 1 /\ off' = 1 /\ UNCHANGED <<phase, seen, emitted, result>>
    /\ UNCHANGED <<fixed, visited, unread, live, walk, carved, ctxDone>>

Finish ==
    /\ phase = "emit" /\ num \notin Tasks
    /\ End_("ok")
    /\ UNCHANGED <<fixed, place, live, walk, carved, seen, emitted, ctxDone>>

Next ==
    \/ Cancel \/ Begin \/ LiveNode \/ SlackNode \/ SlackBytes \/ FreeNode \/ FreeRecords
    \/ WalkBitmap \/ SplitRuns \/ NoBlocks \/ Join \/ CancelSeen \/ EmitBatch \/ Finish
    \/ \E t \in Tasks : CarveBlock(t)

Spec == Init /\ [][Next]_vars

---------------------------------------------------------------------------
(* Properties *)

\* What the volume holds, from the layout of its nodes and not from their
\* offsets: the nodes the chain reaches, all or without going through the node
\* stop, and the identities they list.
Closed(S, stop) ==
    LET on(n) == {n} \cap (Nodes \ {stop})
    IN  /\ on(job.first) \subseteq S
        /\ \A n \in S : HasNode(n) => on(job.nodes[n].fwd) \subseteq S

ChainTo(stop) == {n \in Nodes : \A S \in SUBSET Nodes : Closed(S, stop) => n \in S}
Chain         == ChainTo(0)
LiveKeys      == UNION {Identities(job.nodes[n]) : n \in {x \in Chain : HasNode(x)}}

\* A node nothing has damaged: each offset is where the record before it ends.
Undamaged(node) ==
    /\ node.offs[1] = DescSize /\ FreeOffset(node) <= ArrayStart(node)
    /\ \A i \in 1..NumRecords(node) : /\ node.offs[i] \in DOMAIN node.held
                                      /\ node.offs[i] + node.held[node.offs[i]].len = node.offs[i+1]

\* Its dead records: whole, after the live ones, at an even distance.
Dead(node) == {b \in DOMAIN node.held : /\ b >= FreeOffset(node) /\ (b - FreeOffset(node)) % 2 = 0
                                        /\ b + node.held[b].len <= ArrayStart(node)}

\* "It would tell an examiner a file was removed when it never was" (deleted.go:
\* 118-123).  A record is flagged stale just when the catalog still lists its
\* identity; one from node slack is at the byte it names, where no live record of
\* the node and none of its offsets lie; one from a free node comes from a node
\* that is not in use (SameAsSequential says so of blocks).
OnlyTheDead ==
    \A i \in DOMAIN emitted :
        LET e == emitted[i]
            c == job.nodes[e.node].held[e.byte]
        IN  /\ e.stale <=> e.key \in LiveKeys
            /\ e.source = "slack" =>
                  /\ e.byte \in DOMAIN job.nodes[e.node].held /\ c.key = e.key
                  /\ e.byte + c.len <= ArrayStart(job.nodes[e.node])
                  /\ \A sp \in Spans(job.nodes[e.node]) :
                        sp.end <= e.byte \/ e.byte + c.len <= sp.start
            /\ e.source = "free" => e.node \notin job.map.used

\* "Silently discarding evidence is worse than reporting it with a grade attached"
\* (deleted.go:140-142).  A complete recovery has emitted, with its grade or a
\* better one, every dead record of an undamaged node of the chain: of the whole
\* chain, or up to the node at which the scan ended because it could not be read
\* again (deleted.go:362-364: what lies behind it is given up without an error).
NothingMissed ==
    result = "ok" /\ "slack" \in opts.scan =>
        \A n \in ChainTo(unread) : Undamaged(job.nodes[n]) =>
            \A b \in Dead(job.nodes[n]) :
                LET c == job.nodes[n].held[b]
                IN  c.plausible /\ Confidence(c) >= opts.min /\ (opts.stale \/ c.key \notin LiveKeys) =>
                       \E i \in DOMAIN emitted : emitted[i].key = c.key /\ emitted[i].conf >= Confidence(c)

\* What one goroutine would come upon in the free blocks, in order.
FreeBlocks == {block \in 0 .. job.bitmap.total - 1 : block \notin job.bitmap.used}
InOrder    == Ascending(FreeBlocks)
Carved     == FlattenSeq([i \in DOMAIN InOrder |-> CarvedBlock(InOrder[i])])

\* What was emitted of the tree, and after that of blocks.
TreeCount  == Cardinality({i \in DOMAIN emitted : emitted[i].source # "blocks"})
FromTree   == SubSeq(emitted, 1, TreeCount)
FromBlocks == SubSeq(emitted, TreeCount + 1, Len(emitted))

\* Of these, the ones to emit: those that beat what the tree gave and every
\* earlier one of their identity.
Best(fs) ==
    LET ok(i)   == fs[i].conf >= opts.min /\ (fs[i].key \in live => opts.stale)
        beats(e, i) == e.key = fs[i].key => e.conf < fs[i].conf
        best(i) == /\ \A j \in DOMAIN FromTree : beats(FromTree[j], i)
                   /\ \A j \in 1..i-1 : ok(j) => beats(fs[j], i)
        at == Ascending({i \in DOMAIN fs : ok(i) /\ best(i)})
    IN  [i \in DOMAIN at |-> Reported(fs[at[i]], "blocks")]

\* The callback sees what one goroutine would find, in that order, however the
\* tasks interleave: "parallelism does not change what is found"
\* (deleted.go:460-463).
SameAsSequential ==
    phase = "done" =>
        /\ IsPrefix(FromBlocks, Best(Carved))
        /\ result = "ok" /\ "blocks" \in opts.scan => FromBlocks = Best(Carved)

\* A cancelled recovery has emitted nothing that was carved: carving is all or
\* nothing to the callback, and only a caller's cancellation cancels.
CancelIsClean ==
    result = "canceled" => ctxDone /\ \A i \in DOMAIN emitted : emitted[i].source # "blocks"

\* "ConfidenceHigh means the parent resolves to a live folder, the fork extents
\* fall inside the volume, and those blocks are currently unallocated"
\* (deleted.go:57-60).
Covers(e) == e.start .. e.start + e.count - 1

Intact(f) == \A i \in DOMAIN f.exts : Covers(f.exts[i]) \subseteq FreeBlocks

Wraps(f) == \E i \in DOMAIN f.exts : f.exts[i].start + f.exts[i].count >= Width

HighIsIntact == \A i \in DOMAIN emitted :
                    emitted[i].conf = High /\ ~Wraps(emitted[i]) => Intact(emitted[i])

\* The tasks are the free blocks of the volume, each once, in order, whatever the
\* bitmap says beyond the last block; they are never longer than a batch, and a
\* run that needs no splitting is not split (alloc.go:34-35 "each maximal run of
\* consecutive free blocks, in ascending block order").
CarvesExactlyFree ==
    phase \in {"carve", "emit"} =>
        /\ FlattenSeq([t \in Tasks |-> BlocksIn(tasks[t])]) = InOrder
        /\ FreeBlockCount(walk.runs) = Cardinality(FreeBlocks)
        /\ \A t \in Tasks : tasks[t].count \in 1..BatchSize
        /\ \A t \in Tasks : t > 1 /\ tasks[t].start = tasks[t-1].start + tasks[t-1].count
                => tasks[t-1].count = BatchSize
=============================================================================
