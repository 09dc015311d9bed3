--------------------------- MODULE RecoveryProofs ---------------------------
(***************************************************************************)
(* For every volume: the live identities are collected by following the    *)
(* leaf chain and so are those the chain holds (ChainInv, LiveIsExact);    *)
(* hence what is flagged stale is what is live, and what comes from node   *)
(* slack lies clear of every record of its node (SlackIsClear); a          *)
(* cancelled recovery has emitted nothing that was carved; a record        *)
(* emitted with high confidence is intact (HighGradeIsSound, Grades); and  *)
(* a scan of node slack comes upon all that lies there (DeadIsCarved) and  *)
(* passes nothing that is not emitted (SlackInv).  The tasks are the free  *)
(* blocks in order: the walk of the bitmap holds at every bit what is free *)
(* behind it (WalkAt), and splitting keeps that (SplitTiles).  What they   *)
(* find, put together in their order, is what one goroutine comes upon     *)
(* (CarvedIsFound), and what of it the callback was given is, at every     *)
(* record, what that goroutine would have emitted so far (Dealt).          *)
(***************************************************************************)
EXTENDS Recovery, WellFoundedInduction, FiniteSetTheorems, TLAPS

IsSeq(s) == \E S : s \in Seq(S)

LEMMA AppendIsSeq ==
    ASSUME NEW s, IsSeq(s), NEW x
    PROVE  /\ IsSeq(Append(s, x)) /\ Len(s) \in Nat /\ DOMAIN s = 1..Len(s)
           /\ DOMAIN Append(s, x) = 1..(Len(s) + 1) /\ Append(s, x)[Len(s) + 1] = x
           /\ \A i \in DOMAIN s : Append(s, x)[i] = s[i]
<1>1. PICK S : s \in Seq(S)
  BY DEF IsSeq
<1>2. s \in Seq(S \union {x})
  BY <1>1
<1>3. Append(s, x) \in Seq(S \union {x})
  BY <1>2
<1>. QED BY <1>2, <1>3 DEF IsSeq

---------------------------------------------------------------------------
(* The layout of a node. *)

\* A record's span ends where free space starts, if the node has any; so a record
\* found in free space lies behind all of them.
LEMMA SlackIsClear ==
    ASSUME NEW node, IsNode(node), HasSlack(node),
           NEW b \in Nat, FreeOffset(node) <= b, NEW sp \in Spans(node)
    PROVE  sp.end <= b
<1>1. FreeOffset(node) \in Nat
  BY DEF IsNode, FreeOffset
<1>2. Limit(node) = FreeOffset(node)
  BY <1>1, NodeAssumption DEF Limit, HasSlack
<1>3. sp.end \in Starts(node) \union {Limit(node)}
  BY DEF Spans
<1>4. \A s \in Starts(node) : s \in Int /\ s <= Limit(node)
  BY <1>1, <1>2, NodeAssumption DEF Starts
<1>. QED BY <1>1, <1>2, <1>3, <1>4

---------------------------------------------------------------------------
(* The first pass. *)

\* Visited nodes are of the chain, and lead to visited ones or to where the pass is.
ChainInv ==
    /\ visited \subseteq Chain /\ (num \in Nodes => num \in Chain)
    /\ job.first \in visited \union {num}
    /\ \A n \in visited : HasNode(n) /\ job.nodes[n].fwd \in visited \union {num}
    /\ live = UNION {Identities(job.nodes[n]) : n \in visited}

\* What the first pass has made sure of when it is over.
LiveIsExact ==
    /\ live = LiveKeys /\ job.first \in Chain \union {0}
    /\ \A n \in Chain : HasNode(n) /\ job.nodes[n].fwd \in Chain \union {0}

LEMMA ChainStarts ==
    ASSUME job \in Volumes PROVE job.first \in Nodes => job.first \in Chain
BY RecoveryAssumption DEF Chain, ChainTo, Closed, Nodes

\* The successor of a node of the chain is of the chain.
LEMMA ChainGoesOn ==
    ASSUME job \in Volumes, NEW n \in Chain, HasNode(n), job.nodes[n].fwd \in Nodes
    PROVE  job.nodes[n].fwd \in Chain
<1>1. \A S \in SUBSET Nodes : Closed(S, 0) => n \in S
  BY DEF Chain, ChainTo
<1>2. job.nodes[n].fwd # 0
  BY RecoveryAssumption DEF Nodes
<1>3. \A S \in SUBSET Nodes : Closed(S, 0) => job.nodes[n].fwd \in S
  BY <1>1, <1>2 DEF Closed
<1>. QED BY <1>3 DEF Chain, ChainTo

\* When the pass is back at a visited node or at the end, it has seen the chain.
LEMMA PassIsComplete ==
    ASSUME job \in Volumes, ChainInv, ChainOver
    PROVE  LiveIsExact
<1>1. 0 \notin Nodes
  BY RecoveryAssumption DEF Nodes
<1>2. num \in visited \union {0}
  BY DEF ChainOver
<1>3. visited \subseteq Nodes
  BY DEF ChainInv, Chain, ChainTo
<1>4. Closed(visited, 0)
  BY <1>1, <1>2 DEF Closed, ChainInv
<1>5. Chain = visited
  BY <1>3, <1>4 DEF Chain, ChainTo, ChainInv
<1>6. {n \in Chain : HasNode(n)} = visited
  BY <1>5 DEF ChainInv
<1>7. live = LiveKeys
  BY <1>6 DEF ChainInv, LiveKeys
<1>. QED BY <1>2, <1>5, <1>7 DEF LiveIsExact, ChainInv
---------------------------------------------------------------------------
(* The whole recovery. *)

\* What OnlyTheDead asks of one record.
DeadOnly(e) ==
    /\ e.stale <=> e.key \in LiveKeys
    /\ e.source = "slack" =>
          LET node == job.nodes[e.node]
              c    == node.held[e.byte]
          IN  /\ e.byte \in DOMAIN node.held /\ c.key = e.key /\ e.byte + c.len <= ArrayStart(node)
              /\ \A sp \in Spans(node) : sp.end <= e.byte \/ e.byte + c.len <= sp.start
    /\ e.source = "free" => e.node \notin job.map.used

Scanning == phase \in {"slack", "free", "runs", "carve", "emit"}

\* Where each phase is, and what may have been emitted by then.
Places ==
    /\ job \in Volumes
    /\ phase \in {"start", "live", "slack", "free", "runs", "carve", "emit", "done"}
    /\ phase = "start" => num = job.first /\ visited = {} /\ live = {}
    /\ phase \in {"start", "live"} => off = 0
    /\ phase = "live" => ChainInv
    /\ Scanning => LiveIsExact
    /\ phase = "slack" =>
          /\ num \in Chain \union {0}
          /\ off # 0 => /\ num \in Chain /\ HasSlack(job.nodes[num])
                        /\ off \in Nat /\ FreeOffset(job.nodes[num]) <= off
    /\ phase = "free" /\ off # 0 => Unused(num)

Emissions ==
    /\ IsSeq(emitted) /\ \A i \in DOMAIN emitted : DeadOnly(emitted[i])
    /\ phase \notin {"emit", "done"} => \A i \in DOMAIN emitted : emitted[i].source # "blocks"
    /\ (phase = "done") <=> (result # "none")
    /\ CancelIsClean

RecInv == Places /\ Emissions

LEMMA RecInit == Init => RecInv
<1>. SUFFICES ASSUME Init PROVE RecInv
  OBVIOUS
<1>1. emitted = <<>> /\ DOMAIN emitted = {} /\ IsSeq(emitted)
  BY DEF Init, IsSeq
<1>2. Places
  BY DEF Init, Places, Scanning
<1>3. Emissions
  BY <1>1 DEF Init, Emissions, CancelIsClean
<1>. QED BY <1>2, <1>3 DEF RecInv

\* What depends on the volume alone stays.
LEMMA VolumeStays ==
    ASSUME UNCHANGED fixed
    PROVE  /\ job' = job /\ opts' = opts /\ Nodes' = Nodes /\ Chain' = Chain /\ LiveKeys' = LiveKeys
           /\ \A stop : ChainTo(stop)' = ChainTo(stop)
           /\ \A n : HasNode(n)' <=> HasNode(n)
           /\ \A n : Unused(n)' <=> Unused(n)
           /\ \A e : DeadOnly(e)' <=> DeadOnly(e)
<1>1. job' = job /\ opts' = opts
  BY DEF fixed
<1>2. Nodes' = Nodes
  BY <1>1 DEF Nodes
<1>3. \A n : HasNode(n)' <=> HasNode(n)
  BY <1>1, <1>2 DEF HasNode
<1>4. \A S, stop : Closed(S, stop)' <=> Closed(S, stop)
  BY <1>1, <1>2, <1>3 DEF Closed
<1>5. Chain' = Chain /\ \A stop : ChainTo(stop)' = ChainTo(stop)
  BY <1>2, <1>4 DEF Chain, ChainTo
<1>6. LiveKeys' = LiveKeys
  BY <1>1, <1>3, <1>5 DEF LiveKeys
<1>. QED BY <1>1, <1>2, <1>3, <1>5, <1>6 DEF Unused, DeadOnly

\* A step that emits nothing and does not end the recovery in a cancellation.
LEMMA NothingEmitted ==
    ASSUME Emissions, UNCHANGED <<fixed, emitted>>,
           phase \in {"emit", "done"} => phase' \in {"emit", "done"},
           (phase' = "done") <=> (result' # "none"), ctxDone => ctxDone',
           result' = "canceled" => result = "canceled"
    PROVE  Emissions'
<1>1. \A e : DeadOnly(e)' <=> DeadOnly(e)
  BY VolumeStays
<1>. QED BY <1>1 DEF Emissions, CancelIsClean, IsSeq

\* A step that may emit one record.
LEMMA EmitStep ==
    ASSUME RecInv, Scanning, UNCHANGED <<fixed, live, ctxDone>>, NEW f, NEW source, Emit(f, source),
           source = "blocks" => phase = "emit", DeadOnly(Reported(f, source))
    PROVE  Emissions'
<1>. DEFINE e == Reported(f, source)
            t == Append(emitted, e)
<1>0. \A x : DeadOnly(x)' <=> DeadOnly(x)
  BY VolumeStays
<1>1. result = "none" /\ phase # "done"
  BY DEF RecInv, Emissions, Scanning
<1>2. CASE ~Wanted(f)
  <2>1. UNCHANGED <<phase, emitted, result>>
    BY <1>2 DEF Emit
  <2>. QED BY <2>1, <1>1, NothingEmitted DEF RecInv, Emissions
<1>3. CASE Wanted(f)
  <2>1. emitted' = t /\ (UNCHANGED <<phase, result>> \/ (phase' = "done" /\ result' = "stopped"))
    BY <1>3 DEF Emit, End_
  <2>2. /\ IsSeq(t) /\ DOMAIN t = 1..(Len(emitted) + 1) /\ t[Len(emitted) + 1] = e
        /\ Len(emitted) \in Nat /\ DOMAIN emitted = 1..Len(emitted)
        /\ \A i \in DOMAIN emitted : t[i] = emitted[i]
    BY AppendIsSeq DEF RecInv, Emissions
  <2>3. e.source = source
    BY DEF Reported
  <2>. HIDE DEF e, t
  <2>4. \A i \in DOMAIN t : i \in DOMAIN emitted \/ i = Len(emitted) + 1
    BY <2>2
  <2>5. \A i \in DOMAIN t : DeadOnly(t[i])
    BY <2>2, <2>4 DEF RecInv, Emissions, e
  <2>6. phase # "emit" => \A i \in DOMAIN t : t[i].source # "blocks"
    BY <1>1, <2>2, <2>3, <2>4 DEF RecInv, Emissions
  <2>. QED BY <1>0, <1>1, <2>1, <2>2, <2>5, <2>6 DEF Emissions, CancelIsClean, IsSeq
<1>. QED BY <1>2, <1>3
LEMMA LiveNodeStep == ASSUME RecInv, LiveNode PROVE RecInv'
<1>1. UNCHANGED <<fixed, off, emitted, ctxDone>> /\ phase = "live" /\ ChainInv /\ off = 0 /\ result = "none"
  BY DEF LiveNode, RecInv, Places, Emissions
<1>2. /\ job' = job /\ Nodes' = Nodes /\ Chain' = Chain /\ LiveKeys' = LiveKeys
      /\ \A n : HasNode(n)' <=> HasNode(n)
  BY <1>1, VolumeStays
<1>3. CASE ChainOver /\ phase' = "slack" /\ num' = job.first /\ UNCHANGED <<live, result>>
  <2>1. LiveIsExact
    BY <1>1, <1>3, PassIsComplete DEF RecInv, Places
  <2>2. LiveIsExact'
    BY <1>2, <1>3, <2>1 DEF LiveIsExact
  <2>3. Places'
    BY <1>1, <1>2, <1>3, <2>1, <2>2 DEF Places, RecInv, Scanning, LiveIsExact
  <2>. QED BY <1>1, <1>3, <2>3, NothingEmitted DEF RecInv
<1>4. CASE End_("failed") /\ UNCHANGED <<num, visited, live>>
  <2>1. Places'
    BY <1>1, <1>4 DEF Places, RecInv, Scanning, End_, fixed
  <2>. QED BY <1>1, <1>4, <2>1, NothingEmitted DEF RecInv, End_
<1>5. CASE /\ ~ChainOver /\ HasNode(num) /\ UNCHANGED <<phase, result>>
           /\ visited' = visited \union {num} /\ num' = job.nodes[num].fwd
           /\ live' = live \union Identities(job.nodes[num])
  <2>1. num \in Chain /\ num \in Nodes
    BY <1>1, <1>5 DEF ChainInv, HasNode
  <2>2. num' \in Nodes => num' \in Chain
    BY <1>5, <2>1, ChainGoesOn DEF RecInv, Places
  <2>3. live' = UNION {Identities(job.nodes[n]) : n \in visited'}
    BY <1>1, <1>5 DEF ChainInv
  <2>4. ChainInv'
    BY <1>1, <1>2, <1>5, <2>1, <2>2, <2>3 DEF ChainInv
  <2>5. Places'
    BY <1>1, <1>2, <1>5, <2>4 DEF Places, RecInv, Scanning
  <2>. QED BY <1>1, <1>5, <2>5, NothingEmitted DEF RecInv, Emissions
<1>. QED BY <1>3, <1>4, <1>5 DEF LiveNode

\* Every phase after the first pass leaves the live identities alone.
LEMMA LiveStays ==
    ASSUME LiveIsExact, UNCHANGED <<fixed, live>> PROVE LiveIsExact'
BY VolumeStays DEF LiveIsExact

LEMMA SlackNodeStep == ASSUME RecInv, SlackNode PROVE RecInv'
<1>1. /\ UNCHANGED <<fixed, live, emitted, ctxDone, result>> /\ phase = "slack" /\ off = 0
      /\ phase' \in {"slack", "free"}
  BY DEF SlackNode
<1>2. LiveIsExact /\ LiveIsExact' /\ num \in Chain \union {0}
  BY <1>1, LiveStays DEF RecInv, Places, Scanning
<1>3. job' = job /\ job \in Volumes /\ Chain' = Chain
  BY <1>1, VolumeStays DEF RecInv, Places
<1>4. Emissions'
  BY <1>1, NothingEmitted DEF RecInv, Emissions
<1>5. CASE phase' = "free" /\ UNCHANGED off
  BY <1>1, <1>2, <1>3, <1>4, <1>5 DEF RecInv, Places, Scanning
<1>6. CASE UNCHANGED phase /\ ~ChainOver
  <2>1. num \in Chain /\ HasNode(num) /\ job.nodes[num].fwd \in Chain \union {0}
    BY <1>2, <1>6 DEF ChainOver, LiveIsExact
  <2>2. FreeOffset(job.nodes[num]) \in Nat
    BY <1>3, <2>1, RecoveryAssumption DEF HasNode, Nodes, IsNode, FreeOffset
  <2>3. CASE HasSlack(job.nodes[num]) /\ off' = FreeOffset(job.nodes[num]) /\ UNCHANGED num
    BY <1>1, <1>2, <1>3, <1>4, <1>6, <2>1, <2>2, <2>3 DEF RecInv, Places, Scanning
  <2>4. CASE num' = job.nodes[num].fwd /\ UNCHANGED off
    BY <1>1, <1>2, <1>3, <1>4, <1>6, <2>1, <2>4 DEF RecInv, Places, Scanning
  <2>. QED BY <1>6, <2>3, <2>4, <1>1 DEF SlackNode
<1>. QED BY <1>1, <1>5, <1>6 DEF SlackNode

\* What a step of a scan that may emit leaves to show.
LEMMA CarveStep ==
    ASSUME RecInv, Scanning, UNCHANGED <<fixed, live, ctxDone>>,
           NEW c, NEW source, NEW node, NEW byte, CarveOne(c, source, node, byte),
           source # "blocks", DeadOnly(Reported(Graded(c, node, byte), source))
    PROVE  Emissions' /\ (phase' = phase \/ phase' = "done")
<1>1. CASE c.plausible
  <2>1. Emit(Graded(c, node, byte), source)
    BY <1>1 DEF CarveOne
  <2>. QED BY <2>1, EmitStep DEF Emit, End_
<1>2. CASE ~c.plausible
  BY <1>2, NothingEmitted DEF CarveOne, RecInv, Emissions
<1>. QED BY <1>1, <1>2

LEMMA SlackBytesStep == ASSUME RecInv, SlackBytes PROVE RecInv'
<1>. DEFINE node == job.nodes[num]
<1>1. /\ UNCHANGED <<fixed, visited, live, ctxDone>> /\ phase = "slack" /\ off # 0 /\ Scanning
      /\ job \in Volumes /\ num \in Chain /\ HasSlack(node) /\ off \in Nat /\ FreeOffset(node) <= off
      /\ LiveIsExact
  BY DEF SlackBytes, Scanning, RecInv, Places
<1>2. job' = job /\ Chain' = Chain /\ LiveIsExact'
  BY <1>1, VolumeStays, LiveStays
<1>3. HasNode(num) /\ node.fwd \in Chain \union {0} /\ live = LiveKeys
  BY <1>1 DEF LiveIsExact
<1>4. IsNode(node)
  BY <1>1, <1>3, RecoveryAssumption DEF HasNode, Nodes
<1>5. ASSUME NEW b \in DOMAIN node.held, b >= off, CarvesAt(node, b),
             off' = b + 2, UNCHANGED num, CarveOne(node.held[b], "slack", num, b)
      PROVE  RecInv'
  <2>. DEFINE f == Graded(node.held[b], num, b)
              e == Reported(f, "slack")
  <2>1. b \in Nat /\ FreeOffset(node) <= b /\ FreeOffset(node) \in Nat
    <3>. HIDE DEF node
    <3>1. b \in Nat
      BY <1>4, <1>5 DEF IsNode
    <3>2. FreeOffset(node) \in Nat
      BY <1>4 DEF IsNode, FreeOffset
    <3>. QED BY <1>1, <1>5, <3>1, <3>2
  <2>2. /\ e.key = node.held[b].key /\ e.node = num /\ e.byte = b /\ e.source = "slack"
        /\ e.stale = (e.key \in live)
    BY DEF Graded, Reported
  <2>3. b + node.held[b].len <= ArrayStart(node)
    BY <1>5 DEF CarvesAt
  <2>4. \A sp \in Spans(node) : sp.end <= b
    BY <1>1, <1>4, <2>1, SlackIsClear
  <2>5. DeadOnly(e)
    <3>. HIDE DEF e
    <3>. QED BY <1>3, <1>5, <2>2, <2>3, <2>4 DEF DeadOnly
  <2>6. Emissions' /\ (phase' = phase \/ phase' = "done")
    <3>. HIDE DEF node
    <3>. QED BY <1>1, <1>5, <2>5, CarveStep
  <2>7. Places'
    BY <1>1, <1>2, <1>5, <2>1, <2>6 DEF Places, Scanning
  <2>. QED BY <2>6, <2>7 DEF RecInv
<1>6. CASE off' = 0 /\ num' = node.fwd /\ UNCHANGED <<phase, emitted, result>>
  <2>1. Emissions'
    BY <1>1, <1>6, NothingEmitted DEF RecInv, Emissions
  <2>. QED BY <1>1, <1>2, <1>3, <1>6, <2>1 DEF RecInv, Places, Scanning
<1>. QED BY <1>5, <1>6 DEF SlackBytes

LEMMA FreeNodeStep == ASSUME RecInv, FreeNode PROVE RecInv'
<1>1. /\ UNCHANGED <<fixed, live, emitted, ctxDone, result>> /\ phase = "free" /\ off = 0
      /\ phase' \in {"free", "runs"} /\ (off' = 0 \/ (Unused(num) /\ UNCHANGED num))
  BY DEF FreeNode
<1>2. job' = job /\ LiveIsExact' /\ (Unused(num)' <=> num' \notin job.map.used)
  BY <1>1, VolumeStays, LiveStays DEF RecInv, Places, Scanning, Unused
<1>3. Emissions'
  BY <1>1, NothingEmitted DEF RecInv, Emissions
<1>. QED BY <1>1, <1>2, <1>3 DEF RecInv, Places, Scanning, Unused

LEMMA FreeRecordsStep == ASSUME RecInv, FreeRecords PROVE RecInv'
<1>. DEFINE node == job.nodes[num]
<1>1. /\ UNCHANGED <<fixed, live, ctxDone>> /\ phase = "free" /\ off # 0 /\ Scanning
      /\ job \in Volumes /\ Unused(num) /\ LiveIsExact
  BY DEF FreeRecords, Scanning, RecInv, Places
<1>2. job' = job /\ LiveIsExact' /\ live = LiveKeys
  BY <1>1, VolumeStays, LiveStays DEF LiveIsExact
<1>3. ASSUME NEW b, UNCHANGED num, CarveOne(node.held[b], "free", num, 0)
      PROVE  RecInv'
  <2>. DEFINE e == Reported(Graded(node.held[b], num, 0), "free")
  <2>1. e.node = num /\ e.source = "free" /\ e.stale = (e.key \in live)
    BY DEF Graded, Reported
  <2>2. DeadOnly(e)
    <3>. HIDE DEF e
    <3>. QED BY <1>1, <1>2, <2>1 DEF DeadOnly, Unused
  <2>3. Emissions' /\ (phase' = phase \/ phase' = "done")
    <3>. HIDE DEF node
    <3>. QED BY <1>1, <1>3, <2>2, CarveStep
  <2>4. Places'
    BY <1>1, <1>2, <1>3, <2>3 DEF Places, Scanning, Unused
  <2>. QED BY <2>3, <2>4 DEF RecInv
<1>4. CASE off' = 0 /\ UNCHANGED <<phase, emitted, result>>
  <2>1. Emissions'
    BY <1>1, <1>4, NothingEmitted DEF RecInv, Emissions
  <2>. QED BY <1>1, <1>2, <1>4, <2>1 DEF RecInv, Places, Scanning
<1>. QED BY <1>3, <1>4 DEF FreeRecords

\* The steps from the end of the tree's scans on, and those that move no scan.
LEMMA BlocksStep ==
    ASSUME RecInv,
           \/ WalkBitmap \/ SplitRuns \/ NoBlocks \/ Join \/ CancelSeen \/ Finish
           \/ \E t \in Tasks : CarveBlock(t)
    PROVE  RecInv'
<1>1. /\ UNCHANGED <<fixed, live, emitted, ctxDone>> /\ phase \in {"runs", "carve", "emit"}
      /\ phase' \in {"runs", "carve", "emit", "done"} /\ (phase = "emit" => phase' \in {"emit", "done"})
      /\ \/ phase' = "done" /\ result' \in {"ok", "failed"}
         \/ phase' = "done" /\ result' = "canceled" /\ ctxDone /\ phase = "carve"
         \/ phase' # "done" /\ UNCHANGED result
  BY DEF WalkBitmap, SplitRuns, NoBlocks, Join, CancelSeen, Finish, CarveBlock, Cancellable, End_
<1>2. job' = job /\ LiveIsExact' /\ result = "none"
  BY <1>1, VolumeStays, LiveStays DEF RecInv, Places, Emissions, Scanning
<1>3. Places'
  BY <1>1, <1>2 DEF RecInv, Places, Scanning
<1>4. \A e : DeadOnly(e)' <=> DeadOnly(e)
  BY <1>1, VolumeStays
<1>5. CancelIsClean'
  BY <1>1, <1>2 DEF RecInv, Emissions, CancelIsClean
<1>. QED BY <1>1, <1>2, <1>3, <1>4, <1>5 DEF RecInv, Emissions, IsSeq

LEMMA EmitBatchStep == ASSUME RecInv, EmitBatch PROVE RecInv'
<1>1. /\ UNCHANGED <<fixed, live, ctxDone>> /\ phase = "emit" /\ Scanning /\ job \in Volumes /\ LiveIsExact
  BY DEF EmitBatch, Scanning, RecInv, Places
<1>2. job' = job /\ LiveIsExact' /\ live = LiveKeys
  BY <1>1, VolumeStays, LiveStays DEF LiveIsExact
<1>3. ASSUME NEW f, Emit(f, "blocks") PROVE RecInv'
  <2>1. LET e == Reported(f, "blocks") IN e.source = "blocks" /\ e.stale = (e.key \in live)
    BY DEF Reported
  <2>2. DeadOnly(Reported(f, "blocks"))
    BY <1>2, <2>1 DEF DeadOnly
  <2>3. Emissions' /\ (phase' = phase \/ phase' = "done")
    BY <1>1, <1>3, <2>2, EmitStep DEF Emit, End_
  <2>. QED BY <1>1, <1>2, <2>3 DEF RecInv, Places, Scanning
<1>4. CASE UNCHANGED <<phase, emitted, result>>
  <2>1. Emissions'
    BY <1>1, <1>4, NothingEmitted DEF RecInv, Emissions
  <2>. QED BY <1>1, <1>2, <1>4, <2>1 DEF RecInv, Places, Scanning
<1>. QED BY <1>3, <1>4 DEF EmitBatch

LEMMA BeginStep == ASSUME RecInv, Begin PROVE RecInv'
<1>1. /\ UNCHANGED <<fixed, place, live, emitted, ctxDone>> /\ phase = "start" /\ job \in Volumes
      /\ num = job.first /\ visited = {} /\ live = {} /\ off = 0 /\ result = "none"
  BY DEF Begin, RecInv, Places, Emissions
<1>2. job' = job /\ Nodes' = Nodes /\ Chain' = Chain /\ \A e : DeadOnly(e)' <=> DeadOnly(e)
  BY <1>1, VolumeStays
<1>3. ChainInv'
  BY <1>1, <1>2, ChainStarts DEF ChainInv, place
<1>4. CASE phase' = "live" /\ UNCHANGED result
  <2>1. Emissions'
    BY <1>1, <1>4, NothingEmitted DEF RecInv
  <2>. QED BY <1>1, <1>2, <1>3, <1>4, <2>1 DEF RecInv, Places, Scanning, place
<1>5. CASE phase' = "done" /\ result' \in {"canceled", "failed"} /\ (result' = "canceled" => ctxDone)
  <2>1. CancelIsClean'
    BY <1>1, <1>5 DEF RecInv, Emissions, CancelIsClean
  <2>. QED BY <1>1, <1>2, <1>5, <2>1 DEF RecInv, Places, Emissions, Scanning, IsSeq
<1>. QED BY <1>4, <1>5 DEF Begin, End_

LEMMA RecStep == ASSUME RecInv, [Next]_vars PROVE RecInv'
<1>1. CASE UNCHANGED vars \/ Cancel
  <2>1. UNCHANGED <<fixed, phase, place, live, emitted, result>> /\ (ctxDone => ctxDone')
    BY <1>1 DEF vars, Cancel
  <2>2. /\ job' = job /\ Nodes' = Nodes /\ Chain' = Chain /\ \A n : HasNode(n)' <=> HasNode(n)
        /\ \A n : Unused(n)' <=> Unused(n)
    BY <2>1, VolumeStays
  <2>3. Emissions'
    BY <2>1, NothingEmitted DEF RecInv, Emissions
  <2>4. ChainInv => ChainInv'
    BY <2>1, <2>2 DEF ChainInv, place
  <2>5. LiveIsExact => LiveIsExact'
    BY <2>1, LiveStays
  <2>. QED BY <2>1, <2>2, <2>3, <2>4, <2>5 DEF RecInv, Places, Scanning, place, Unused
<1>. QED BY <1>1, BeginStep, LiveNodeStep, SlackNodeStep, SlackBytesStep, FreeNodeStep, FreeRecordsStep,
            BlocksStep, EmitBatchStep DEF Next

\* Whatever the nodes hold and however the chain runs, a record is flagged stale
\* just when the catalog lists its identity, and one from node slack overlaps no
\* record of its node (WalkDeletedContext, liveRecordKeys, scanNodeSlack,
\* deleted.go:196-393).
THEOREM OnlyTheDeadIsReported == Spec => []OnlyTheDead
<1>1. RecInv => OnlyTheDead
  BY DEF RecInv, Emissions, DeadOnly, OnlyTheDead
<1>. QED BY RecInit, RecStep, <1>1, PTL DEF Spec

\* Only a caller's cancellation cancels, and then nothing carved has been emitted
\* (scanUnallocatedNodes, deleted.go:466-512).
THEOREM CancellationIsClean == Spec => []CancelIsClean
<1>1. RecInv => CancelIsClean
  BY DEF RecInv, Emissions
<1>. QED BY RecInit, RecStep, <1>1, PTL DEF Spec

---------------------------------------------------------------------------
(* Sequences of what was carved. *)

LEMMA Least ==
    ASSUME NEW T \in SUBSET Nat, T # {}
    PROVE  \E x \in T : \A y \in T : x <= y
<1>1. PICK x \in T : \A y \in T : ~ (<<y, x>> \in OpToRel(<,Nat))
  BY NatLessThanWellFounded, WFMin
<1>2. ASSUME NEW y \in T, y < x PROVE FALSE
  <2>1. <<y, x>> \in OpToRel(<,Nat)
    BY <1>2 DEF OpToRel
  <2>. QED BY <1>1, <2>1
<1>. QED BY <1>2

LEMMA SeqFacts ==
    ASSUME NEW s, IsSeq(s)
    PROVE  Len(s) \in Nat /\ DOMAIN s = 1..Len(s) /\ s = [i \in 1..Len(s) |-> s[i]]
BY DEF IsSeq

LEMMA JoinFacts ==
    ASSUME NEW s, NEW t, IsSeq(s), IsSeq(t)
    PROVE  /\ IsSeq(s \o t) /\ Len(s \o t) = Len(s) + Len(t)
           /\ \A i \in 1..Len(s) : (s \o t)[i] = s[i]
           /\ \A i \in 1..Len(t) : (s \o t)[Len(s) + i] = t[i]
           /\ \A i \in 1..Len(s \o t) : i \in 1..Len(s) \/ (i - Len(s) \in 1..Len(t) /\ (s \o t)[i] = t[i - Len(s)])
<1>1. PICK S : s \in Seq(S)
  BY DEF IsSeq
<1>2. PICK T : t \in Seq(T)
  BY DEF IsSeq
<1>. DEFINE U == S \union T
<1>3. s \in Seq(U) /\ t \in Seq(U)
  BY <1>1, <1>2
<1>. HIDE DEF U
<1>4. s \o t \in Seq(U) /\ Len(s \o t) = Len(s) + Len(t) /\ Len(s) \in Nat /\ Len(t) \in Nat
  BY <1>3
<1>5. \A i \in 1..Len(s) + Len(t) : (s \o t)[i] = IF i <= Len(s) THEN s[i] ELSE t[i - Len(s)]
  BY <1>3
<1>. QED BY <1>4, <1>5 DEF IsSeq

\* A function on 1..n is a sequence.
LEMMA MakesSeq ==
    ASSUME NEW n \in Nat, NEW s, s = [i \in 1..n |-> s[i]]
    PROVE  IsSeq(s) /\ Len(s) = n
<1>1. PICK R : R = {s[i] : i \in 1..n}
  OBVIOUS
<1>2. s \in [1..n -> R]
  BY <1>1
<1>3. s \in Seq(R) /\ Len(s) = n
  BY <1>2
<1>. QED BY <1>3 DEF IsSeq

LEMMA EmptyJoin ==
    ASSUME NEW s, IsSeq(s) PROVE <<>> \o s = s /\ s \o <<>> = s
<1>1. PICK S : s \in Seq(S)
  BY DEF IsSeq
<1>. QED BY <1>1

\* The same up to its length, and no other length.
LEMMA SameSeq ==
    ASSUME NEW s, NEW t, IsSeq(s), IsSeq(t), Len(s) = Len(t), \A i \in 1..Len(s) : s[i] = t[i]
    PROVE  s = t
BY SeqFacts

\* Putting pieces together one by one.
Glued(f, ss, n) == f[0] = <<>> /\ \A i \in 1..n : f[i] = f[i-1] \o ss[i]

Pieces(ss, n) == n \in Nat /\ Len(ss) = n /\ DOMAIN ss = 1..n /\ \A i \in 1..n : IsSeq(ss[i])

LEMMA GluedIsSeq ==
    ASSUME NEW n \in Nat, NEW ss, \A i \in 1..n : IsSeq(ss[i]), NEW f, Glued(f, ss, n)
    PROVE  /\ \A i \in 0..n : IsSeq(f[i])
           /\ \A i \in 1..n : Len(f[i]) = Len(f[i-1]) + Len(ss[i])
<1>1. \A i \in 0..n : IsSeq(f[i])
  <2>. DEFINE T == {i \in 0..n : ~IsSeq(f[i])}
  <2>. SUFFICES ASSUME T # {} PROVE FALSE
    OBVIOUS
  <2>1. PICK k \in T : \A y \in T : k <= y
    <3>1. T \in SUBSET Nat
      OBVIOUS
    <3>. QED BY <3>1, Least
  <2>2. IsSeq(<<>>)
    BY DEF IsSeq
  <2>3. k \in 1..n /\ k - 1 \in 0..n /\ k - 1 \notin T
    BY <2>1, <2>2 DEF Glued
  <2>4. IsSeq(f[k-1]) /\ IsSeq(ss[k]) /\ f[k] = f[k-1] \o ss[k]
    BY <2>3 DEF Glued
  <2>5. IsSeq(f[k-1] \o ss[k])
    BY ONLY <2>4, JoinFacts
  <2>. QED BY <2>1, <2>4, <2>5
<1>2. ASSUME NEW i \in 1..n PROVE Len(f[i]) = Len(f[i-1]) + Len(ss[i])
  <2>1. i - 1 \in 0..n
    OBVIOUS
  <2>2. IsSeq(f[i-1]) /\ IsSeq(ss[i]) /\ f[i] = f[i-1] \o ss[i]
    BY <1>1, <2>1 DEF Glued
  <2>. QED BY ONLY <2>2, JoinFacts
<1>. QED BY <1>1, <1>2

\* A finite set of offsets can be put in order: the least first, the rest behind it.
LEMMA AscendingExists ==
    ASSUME NEW S \in SUBSET Nat, IsFiniteSet(S)
    PROVE  /\ Ascending(S) \in [1..Cardinality(S) -> S]
           /\ \A i, j \in 1..Cardinality(S) : i < j => Ascending(S)[i] < Ascending(S)[j]
<1>. DEFINE Orders(X) == {s \in [1..Cardinality(X) -> X] : \A i, j \in DOMAIN s : i < j => s[i] < s[j]}
            NoOrder   == {k \in Nat : \E X \in SUBSET Nat : IsFiniteSet(X) /\ Cardinality(X) = k /\ Orders(X) = {}}
<1>1. NoOrder = {}
  <2>. SUFFICES ASSUME NoOrder # {} PROVE FALSE
    OBVIOUS
  <2>1. PICK k \in NoOrder : \A y \in NoOrder : k <= y
    <3>. HIDE DEF Orders
    <3>1. NoOrder \in SUBSET Nat
      OBVIOUS
    <3>. QED BY <3>1, Least
  <2>2. PICK X \in SUBSET Nat : IsFiniteSet(X) /\ Cardinality(X) = k /\ Orders(X) = {}
    BY <2>1
  <2>3. X # {}
    <3>. SUFFICES ASSUME X = {} PROVE FALSE
      OBVIOUS
    <3>1. Cardinality(X) = 0 /\ 1..0 = {}
      BY FS_EmptySet
    <3>2. [x \in {} |-> 0] \in Orders(X)
      BY <3>1
    <3>. QED BY <2>2, <3>2
  <2>4. PICK m \in X : \A y \in X : m <= y
    BY <2>3, Least
  <2>5. IsFiniteSet(X \ {m}) /\ Cardinality(X \ {m}) = k - 1 /\ k \in Nat \ {0}
    BY <2>2, <2>3, FS_RemoveElement, FS_EmptySet, FS_CardinalityType
  <2>6. Orders(X \ {m}) # {}
    <3>. SUFFICES ASSUME Orders(X \ {m}) = {} PROVE FALSE
      OBVIOUS
    <3>. HIDE DEF Orders
    <3>1. k - 1 \in NoOrder
      BY <2>5
    <3>. QED BY <2>1, <2>5, <3>1
  <2>7. PICK s : s \in Orders(X \ {m})
    <3>. HIDE DEF Orders
    <3>. QED BY <2>6
  <2>. DEFINE t == [i \in 1..k |-> IF i = 1 THEN m ELSE s[i-1]]
  <2>8. s \in [1..k-1 -> X \ {m}] /\ \A i, j \in 1..k-1 : i < j => s[i] < s[j]
    BY <2>5, <2>7
  <2>9. ASSUME NEW i \in 2..k PROVE s[i-1] \in X /\ m < s[i-1]
    <3>1. i - 1 \in 1..k-1
      BY <2>5
    <3>2. s[i-1] \in X /\ s[i-1] # m
      BY <2>8, <3>1
    <3>3. m \in Nat /\ s[i-1] \in Nat /\ m <= s[i-1]
      BY <2>4, <3>2
    <3>. QED BY <3>2, <3>3
  <2>10. t \in [1..k -> X]
    BY <2>5, <2>9
  <2>11. ASSUME NEW i \in 1..k, NEW j \in 1..k, i < j PROVE t[i] < t[j]
    BY <2>5, <2>8, <2>9, <2>11
  <2>12. t \in Orders(X)
    <3>. HIDE DEF t
    <3>. QED BY <2>2, <2>10, <2>11
  <2>. QED BY <2>2, <2>12
<1>2. Orders(S) # {}
  <2>. HIDE DEF Orders
  <2>. QED BY <1>1, FS_CardinalityType
<1>3. Ascending(S) \in Orders(S)
  <2>1. Ascending(S) = CHOOSE s : s \in Orders(S)
    BY DEF Ascending
  <2>. HIDE DEF Orders
  <2>. QED BY <1>2, <2>1
<1>. QED BY <1>3

---------------------------------------------------------------------------
(* Grades *)

\* A record with a grade that HighIsIntact allows.
Sound(f) == f.conf \in Nat /\ (f.conf = High /\ ~Wraps(f) => Intact(f))

\* A sequence of such records.
SoundSeq(fs) == IsSeq(fs) /\ \A i \in DOMAIN fs : Sound(fs[i])

LEMMA EmptySound == SoundSeq(<<>>)
BY DEF SoundSeq, IsSeq

LEMMA AppendedSound ==
    ASSUME NEW s, NEW t, SoundSeq(s), SoundSeq(t) PROVE SoundSeq(s \o t)
<1>1. PICK S : s \in Seq(S)
  BY DEF SoundSeq, IsSeq
<1>2. PICK T : t \in Seq(T)
  BY DEF SoundSeq, IsSeq
<1>3. s \in Seq(S \union T) /\ t \in Seq(S \union T)
  BY <1>1, <1>2
<1>4. s \o t \in Seq(S \union T)
  BY <1>3
<1>5. ASSUME NEW i \in DOMAIN (s \o t) PROVE Sound((s \o t)[i])
  <2>1. \/ i \in DOMAIN s /\ (s \o t)[i] = s[i]
        \/ i - Len(s) \in DOMAIN t /\ (s \o t)[i] = t[i - Len(s)]
    BY <1>3, <1>5
  <2>. QED BY <2>1 DEF SoundSeq
<1>. QED BY <1>4, <1>5 DEF SoundSeq, IsSeq

\* FlattenSeq is what comes of it.
LEMMA Flattened ==
    ASSUME NEW n, NEW ss, Pieces(ss, n)
    PROVE  \E f : Glued(f, ss, n) /\ FlattenSeq(ss) = f[n]
<1>0. n \in Nat
  BY DEF Pieces
<1>. DEFINE IsFlat(f, k) == f = [i \in 1..k |-> IF i = 1 THEN ss[i] ELSE f[i-1] \o ss[i]]
            NoFlat == {k \in 0..n : \A f : ~IsFlat(f, k)}
<1>1. NoFlat = {}
  <2>. SUFFICES ASSUME NoFlat # {} PROVE FALSE
    OBVIOUS
  <2>1. PICK k \in NoFlat : \A y \in NoFlat : k <= y
    <3>. HIDE DEF IsFlat
    <3>1. NoFlat \in SUBSET Nat
      OBVIOUS
    <3>. QED BY <3>1, Least
  <2>2. k # 0
    <3>. SUFFICES ASSUME k = 0 PROVE FALSE
      OBVIOUS
    <3>. DEFINE e == [i \in {} |-> 0]
    <3>1. IsFlat(e, k)
      <4>1. 1..k = {}
        OBVIOUS
      <4>. QED BY <4>1
    <3>. QED BY <2>1, <3>1
  <2>3. k - 1 \in 0..n /\ k - 1 \notin NoFlat
    <3>. HIDE DEF IsFlat
    <3>1. k \in 0..n /\ k - 1 \in 0..n
      BY <1>0, <2>2
    <3>. QED BY <2>1, <3>1
  <2>4. PICK f : IsFlat(f, k - 1)
    BY <2>3
  <2>. DEFINE g == [i \in 1..k |-> IF i = k THEN IF k = 1 THEN ss[k] ELSE f[k-1] \o ss[k] ELSE f[i]]
  <2>5. \A i \in 1..k-1 : g[i] = f[i]
    BY <2>3
  <2>6. ASSUME NEW i \in 1..k PROVE g[i] = IF i = 1 THEN ss[i] ELSE g[i-1] \o ss[i]
    <3>1. CASE i = k
      BY <2>2, <2>3, <2>5, <3>1
    <3>2. CASE i # k
      <4>1. i \in 1..k-1 /\ g[i] = f[i]
        BY <2>3, <2>5, <3>2
      <4>2. f[i] = IF i = 1 THEN ss[i] ELSE f[i-1] \o ss[i]
        BY <2>4, <4>1
      <4>3. i # 1 => i - 1 \in 1..k-1 /\ g[i-1] = f[i-1]
        BY <2>5, <4>1
      <4>. QED BY <4>1, <4>2, <4>3
    <3>. QED BY <3>1, <3>2
  <2>7. IsFlat(g, k)
    BY <2>6
  <2>. QED BY <2>1, <2>7
<1>. DEFINE flat[i \in 1..n] == IF i = 1 THEN ss[i] ELSE flat[i-1] \o ss[i]
<1>2. IsFlat(flat, n)
  <2>1. \E f : IsFlat(f, n)
    <3>1. n \notin NoFlat
      <4>. HIDE DEF NoFlat
      <4>. QED BY <1>1
    <3>2. n \in 0..n
      BY <1>0
    <3>. HIDE DEF IsFlat, flat
    <3>. QED BY <3>1, <3>2
  <2>. QED BY <2>1
<1>. DEFINE f == [i \in 0..n |-> IF i = 0 THEN <<>> ELSE flat[i]]
<1>. HIDE DEF flat
<1>3. \A i \in 1..n : flat[i] = IF i = 1 THEN ss[i] ELSE flat[i-1] \o ss[i]
  BY <1>2
<1>4. f[0] = <<>> /\ \A i \in 1..n : f[i] = flat[i]
  BY <1>0
<1>. HIDE DEF f
<1>5. ASSUME NEW i \in 1..n PROVE f[i] = f[i-1] \o ss[i]
  <2>1. CASE i = 1
    <3>1. f[i-1] = <<>> /\ f[i] = ss[i] /\ IsSeq(ss[i])
      BY <1>3, <1>4, <2>1 DEF Pieces
    <3>. QED BY <3>1, EmptyJoin
  <2>2. CASE i # 1
    <3>1. i - 1 \in 1..n
      BY <1>0, <2>2
    <3>2. f[i-1] = flat[i-1] /\ f[i] = flat[i-1] \o ss[i]
      BY <1>3, <1>4, <2>2, <3>1
    <3>. QED BY <3>2
  <2>. QED BY <2>1, <2>2
<1>6. FlattenSeq(ss) = f[n]
  <2>1. CASE n = 0
    <3>1. f[n] = <<>> /\ FlattenSeq(ss) = ss
      BY <1>4, <2>1 DEF FlattenSeq, Pieces
    <3>2. ss = <<>>
      BY <2>1 DEF Pieces
    <3>. QED BY <3>1, <3>2
  <2>2. CASE n # 0
    <3>1. FlattenSeq(ss) = flat[n]
      BY <2>2 DEF FlattenSeq, Pieces, flat
    <3>2. f[n] = flat[n]
      BY <1>0, <1>4, <2>2
    <3>. QED BY <3>1, <3>2
  <2>. QED BY <2>1, <2>2
<1>. QED BY <1>4, <1>5, <1>6 DEF Glued

\* Pieces of such sequences, one after another.
LEMMA FlattenedSound ==
    ASSUME NEW n \in Nat, NEW ss, Len(ss) = n, DOMAIN ss = 1..n, \A i \in 1..n : SoundSeq(ss[i])
    PROVE  SoundSeq(FlattenSeq(ss))
<1>1. Pieces(ss, n)
  BY DEF Pieces, SoundSeq
<1>2. PICK f : Glued(f, ss, n) /\ FlattenSeq(ss) = f[n]
  BY <1>1, Flattened
<1>. DEFINE Off == {i \in 0..n : ~SoundSeq(f[i])}
<1>. SUFFICES ASSUME Off # {} PROVE FALSE
  BY <1>2
<1>3. PICK k \in Off : \A y \in Off : k <= y
  <2>1. Off \in SUBSET Nat
    OBVIOUS
  <2>. QED BY <2>1, Least
<1>4. f[0] = <<>> /\ \A i \in 1..n : f[i] = f[i-1] \o ss[i]
  BY <1>2 DEF Glued
<1>5. k # 0
  BY <1>3, <1>4, EmptySound
<1>6. k \in 1..n /\ k - 1 \in 0..n /\ k - 1 \notin Off
  BY <1>3, <1>5
<1>7. SoundSeq(f[k-1]) /\ SoundSeq(ss[k]) /\ f[k] = f[k-1] \o ss[k]
  BY <1>4, <1>6
<1>. QED BY <1>3, <1>7, AppendedSound

---------------------------------------------------------------------------
(* gradeRecovered *)

LEMMA LeastIn ==
    ASSUME NEW T \in SUBSET Nat, T # {} PROVE Min(T) \in T
<1>1. \E x \in T : \A y \in T : x <= y
  BY Least
<1>. QED BY <1>1 DEF Min

LEMMA ConfidenceIsNat == ASSUME NEW c PROVE Confidence(c) \in Nat
BY DEF Confidence, High, Medium, Low

\* The grade is High only if every block of every extent was looked at and is free;
\* unless the end of an extent has wrapped, these are all its blocks.
LEMMA HighGradeIsSound ==
    ASSUME job \in Volumes, NEW c, c.exts \in Extents, NEW node, NEW byte
    PROVE  Sound(Graded(c, node, byte))
<1>. DEFINE f == Graded(c, node, byte)
            total == job.bitmap.total
<1>1. f.conf = Confidence(c) /\ f.exts = c.exts
  BY DEF Graded
<1>. SUFFICES Sound(f)
  OBVIOUS
<1>. HIDE DEF f
<1>. SUFFICES ASSUME Confidence(c) = High, ~Wraps(f)
              PROVE  \A i \in DOMAIN c.exts : Covers(c.exts[i]) \subseteq FreeBlocks
  BY <1>1, ConfidenceIsNat DEF Sound, Intact
<1>. TAKE i \in DOMAIN c.exts
<1>. DEFINE e == c.exts[i]
<1>2. /\ total \in 0 .. Width - 1 /\ Width \in Nat \ {0}
      /\ e.start \in 0 .. Width - 1 /\ e.count \in 0 .. Width - 1
      /\ DOMAIN c.exts \in SUBSET Nat
  <2>. DEFINE E == [start : 0 .. Width - 1, count : 0 .. Width - 1]
  <2>1. DOMAIN c.exts \in SUBSET Nat /\ e \in E
    <3>1. c.exts \in Seq(E)
      BY DEF Extents
    <3>. HIDE DEF E
    <3>. QED BY <3>1
  <2>2. e.start \in 0 .. Width - 1 /\ e.count \in 0 .. Width - 1
    BY <2>1
  <2>3. total \in 0 .. Width - 1 /\ Width \in Nat \ {0}
    BY RecoveryAssumption
  <2>. QED BY <2>1, <2>2, <2>3
<1>3. Fates(c.exts) = "free"
  BY DEF Confidence, Verdict, High, Medium, Low
<1>4. Fate(e) = "free"
  <2>. DEFINE stop == {j \in DOMAIN c.exts : Fate(c.exts[j]) # "free"}
  <2>. SUFFICES ASSUME stop # {} PROVE FALSE
    OBVIOUS
  <2>1. Min(stop) \in stop
    BY <1>2, LeastIn
  <2>. QED BY <1>3, <2>1 DEF Fates
<1>5. End(e) = e.start + e.count
  <2>1. e.start + e.count < Width
    BY <1>1, <1>2 DEF Wraps
  <2>. QED BY <1>2, <2>1 DEF End
<1>6. ~Outside(e) /\ NotFree(e) = {}
  BY <1>4 DEF Fate
<1>7. ASSUME NEW block \in Covers(e) PROVE block \in FreeBlocks
  <2>1. block \in Nat /\ e.start <= block /\ block <= e.start + e.count - 1
    BY <1>2, <1>7 DEF Covers
  <2>2. block \in e.start .. End(e) - 1
    BY <1>2, <1>5, <2>1
  <2>3. ~BlockAllocated(job.bitmap, block)
    BY <1>6, <2>2 DEF NotFree
  <2>4. block \in 0 .. total - 1
    BY <1>2, <1>5, <1>6, <2>1 DEF Outside
  <2>. QED BY <2>3, <2>4 DEF FreeBlocks, BlockAllocated
<1>. QED BY <1>7

\* So is everything a task comes upon in a block.
LEMMA ListedIsTyped ==
    ASSUME NEW node, IsNode(node)
    PROVE  /\ ListedAt(node) \in SUBSET Nat /\ IsFiniteSet(ListedAt(node))
           /\ \A b \in ListedAt(node) : node.held[b].exts \in Extents
<1>1. FreeOffset(node) \in Nat
  BY DEF IsNode, FreeOffset
<1>2. DescSize \in Nat /\ Limit(node) \in Nat
  BY <1>1, NodeAssumption DEF Limit
<1>3. ListedAt(node) \subseteq DescSize .. Limit(node) - 1
  BY DEF ListedAt, Spans, Starts
<1>4. IsFiniteSet(DescSize .. Limit(node) - 1)
  BY <1>2, FS_Interval
<1>5. ListedAt(node) \subseteq DOMAIN node.held
  BY DEF ListedAt, Decodes
<1>6. IsFiniteSet(ListedAt(node))
  BY <1>3, <1>4, FS_Subset
<1>. QED BY <1>2, <1>3, <1>5, <1>6 DEF IsNode

LEMMA CarvedNodeSound ==
    ASSUME job \in Volumes, NEW node, IsNode(node), NEW block
    PROVE  SoundSeq(CarvedNode(node, block))
<1>1. CASE ~FormerLeaf(node)
  BY <1>1, EmptySound DEF CarvedNode
<1>2. CASE FormerLeaf(node)
  <2>. DEFINE S  == {b \in ListedAt(node) : node.held[b].plausible}
              at == Ascending(S)
              g  == [i \in DOMAIN at |-> Graded(node.held[at[i]], 0, block)]
  <2>1. S \in SUBSET Nat /\ IsFiniteSet(S) /\ \A b \in S : node.held[b].exts \in Extents
    BY ListedIsTyped, FS_Subset
  <2>. HIDE DEF S
  <2>2. at \in [1..Cardinality(S) -> S] /\ Cardinality(S) \in Nat
    BY <2>1, AscendingExists, FS_CardinalityType
  <2>. HIDE DEF at
  <2>3. \A i \in DOMAIN at : Sound(Graded(node.held[at[i]], 0, block))
    BY <2>1, <2>2, HighGradeIsSound
  <2>4. DOMAIN g = 1..Cardinality(S) /\ \A i \in DOMAIN g : Sound(g[i])
    BY <2>2, <2>3
  <2>5. IsSeq(g)
    <3>. DEFINE T == {Graded(node.held[at[i]], 0, block) : i \in DOMAIN at}
    <3>1. g \in [1..Cardinality(S) -> T]
      BY <2>2
    <3>2. g \in Seq(T)
      <4>. HIDE DEF g, T
      <4>. QED BY <2>2, <3>1
    <3>. QED BY <3>2 DEF IsSeq
  <2>6. CarvedNode(node, block) = g
    BY <1>2 DEF CarvedNode, S, at
  <2>. HIDE DEF g
  <2>. QED BY <2>4, <2>5, <2>6 DEF SoundSeq
<1>. QED BY <1>1, <1>2

LEMMA CarvedBlockSound ==
    ASSUME job \in Volumes, NEW block PROVE SoundSeq(CarvedBlock(block))
<1>1. CASE block \notin DOMAIN job.content \/ job.content[block] = Bad
  BY <1>1, EmptySound DEF CarvedBlock
<1>2. CASE block \in DOMAIN job.content /\ job.content[block] # Bad
  <2>. DEFINE nodes == job.content[block]
              ss    == [i \in DOMAIN nodes |-> CarvedNode(nodes[i], block)]
  <2>1. nodes \in Seq({node \in Range(nodes) : IsNode(node)})
    BY <1>2, RecoveryAssumption
  <2>. HIDE DEF nodes
  <2>2. Len(nodes) \in Nat /\ DOMAIN nodes = 1..Len(nodes) /\ \A i \in DOMAIN nodes : IsNode(nodes[i])
    BY <2>1
  <2>3. DOMAIN ss = 1..Len(nodes) /\ \A i \in 1..Len(nodes) : SoundSeq(ss[i])
    BY <2>2, CarvedNodeSound
  <2>4. Len(ss) = Len(nodes)
    <3>. HIDE DEF ss
    <3>. QED BY <2>2, <2>3
  <2>5. CarvedBlock(block) = FlattenSeq(ss)
    BY <1>2 DEF CarvedBlock, nodes
  <2>. HIDE DEF ss
  <2>. QED BY <2>2, <2>3, <2>4, <2>5, FlattenedSound
<1>. QED BY <1>1, <1>2

---------------------------------------------------------------------------
(* The grades of the whole recovery. *)

Grades ==
    /\ \A i \in DOMAIN emitted : Sound(emitted[i])
    /\ DOMAIN found = DOMAIN tasks /\ \A t \in DOMAIN found : SoundSeq(found[t])
    /\ phase = "free" /\ off # 0 => HasNode(num)

GradeInv == RecInv /\ Grades

LEMMA GradesStay ==
    ASSUME UNCHANGED fixed
    PROVE  /\ \A f : Sound(f)' <=> Sound(f)
           /\ \A fs : SoundSeq(fs)' <=> SoundSeq(fs)
           /\ \A n : HasNode(n)' <=> HasNode(n)
<1>1. job' = job /\ FreeBlocks' = FreeBlocks
  BY VolumeStays DEF FreeBlocks
<1>2. \A f : Sound(f)' <=> Sound(f)
  BY <1>1 DEF Sound, Intact, Wraps
<1>. QED BY <1>2, VolumeStays DEF SoundSeq, IsSeq

\* A step that may emit one record.
LEMMA EmitKeepsGrades ==
    ASSUME GradeInv, UNCHANGED <<fixed, tasks, found>>, NEW f, NEW source, Emit(f, source), Sound(f),
           phase = "free" => off # 0 /\ UNCHANGED num
    PROVE  Grades'
<1>. DEFINE e == Reported(f, source)
<1>1. UNCHANGED emitted \/ emitted' = Append(emitted, e)
  BY DEF Emit
<1>2. Sound(e)
  BY DEF Reported, Sound, Wraps, Intact
<1>. HIDE DEF e
<1>3. \A i \in DOMAIN emitted' : Sound(emitted'[i])
  <2>1. CASE UNCHANGED emitted
    BY <2>1 DEF GradeInv, Grades
  <2>2. CASE emitted' = Append(emitted, e)
    <3>1. /\ Len(emitted) \in Nat /\ DOMAIN emitted = 1..Len(emitted)
          /\ DOMAIN emitted' = 1..(Len(emitted) + 1) /\ emitted'[Len(emitted) + 1] = e
          /\ \A i \in DOMAIN emitted : emitted'[i] = emitted[i]
      BY <2>2, AppendIsSeq DEF GradeInv, RecInv, Emissions
    <3>2. \A i \in DOMAIN emitted' : i \in DOMAIN emitted \/ i = Len(emitted) + 1
      BY <3>1
    <3>. QED BY <1>2, <3>1, <3>2 DEF GradeInv, Grades
  <2>. QED BY <1>1, <2>1, <2>2
<1>4. phase' = phase \/ phase' = "done"
  BY DEF Emit, End_
<1>5. phase' = "free" => HasNode(num')
  BY <1>4 DEF GradeInv, Grades
<1>. QED BY <1>3, <1>4, <1>5, GradesStay DEF GradeInv, Grades

LEMMA CarveKeepsGrades ==
    ASSUME GradeInv, UNCHANGED <<fixed, tasks, found>>,
           NEW c, NEW source, NEW node, NEW byte, CarveOne(c, source, node, byte), c.exts \in Extents,
           phase = "free" => off # 0 /\ UNCHANGED num
    PROVE  Grades'
<1>1. CASE c.plausible
  <2>1. Emit(Graded(c, node, byte), source)
    BY <1>1 DEF CarveOne
  <2>2. Sound(Graded(c, node, byte))
    BY HighGradeIsSound DEF GradeInv, RecInv, Places
  <2>. QED BY <2>1, <2>2, EmitKeepsGrades
<1>2. CASE ~c.plausible
  <2>1. UNCHANGED <<phase, emitted>>
    BY <1>2 DEF CarveOne
  <2>. QED BY <2>1, GradesStay DEF GradeInv, Grades
<1>. QED BY <1>1, <1>2

LEMMA SlackBytesGrades == ASSUME GradeInv, SlackBytes PROVE Grades'
<1>. DEFINE node == job.nodes[num]
<1>1. /\ UNCHANGED <<fixed, tasks, found>> /\ phase = "slack" /\ off # 0 /\ job \in Volumes
      /\ num \in Chain /\ LiveIsExact
  BY DEF SlackBytes, carved, GradeInv, RecInv, Places, Scanning
<1>2. IsNode(node)
  BY <1>1, RecoveryAssumption DEF LiveIsExact, HasNode, Nodes
<1>3. ASSUME NEW b \in DOMAIN node.held, CarveOne(node.held[b], "slack", num, b) PROVE Grades'
  <2>1. node.held[b].exts \in Extents
    BY <1>2, <1>3 DEF IsNode
  <2>. HIDE DEF node
  <2>. QED BY <1>1, <1>3, <2>1, CarveKeepsGrades
<1>4. CASE UNCHANGED <<phase, emitted>>
  BY <1>1, <1>4, GradesStay DEF GradeInv, Grades
<1>. QED BY <1>3, <1>4 DEF SlackBytes

LEMMA FreeRecordsGrades == ASSUME GradeInv, FreeRecords PROVE Grades'
<1>. DEFINE node == job.nodes[num]
<1>1. UNCHANGED <<fixed, tasks, found>> /\ phase = "free" /\ off # 0 /\ job \in Volumes /\ HasNode(num)
  BY DEF FreeRecords, carved, GradeInv, Grades, RecInv, Places
<1>2. IsNode(node)
  BY <1>1, RecoveryAssumption DEF HasNode, Nodes
<1>3. ASSUME NEW b \in ListedAt(node), UNCHANGED num, CarveOne(node.held[b], "free", num, 0) PROVE Grades'
  <2>1. node.held[b].exts \in Extents
    BY <1>2, <1>3, ListedIsTyped
  <2>. HIDE DEF node
  <2>. QED BY <1>1, <1>3, <2>1, CarveKeepsGrades
<1>4. CASE off' = 0 /\ UNCHANGED <<phase, emitted>>
  BY <1>1, <1>4, GradesStay DEF GradeInv, Grades
<1>. QED BY <1>3, <1>4 DEF FreeRecords

\* The steps that carve, and those that emit what was carved.
LEMMA BlockGrades ==
    ASSUME GradeInv, SplitRuns \/ EmitBatch \/ \E t \in Tasks : CarveBlock(t)
    PROVE  Grades'
<1>1. CASE SplitRuns
  <2>1. /\ UNCHANGED <<fixed, emitted>> /\ phase' # "free"
        /\ found' = [t \in DOMAIN tasks' |-> <<>>]
    BY <1>1 DEF SplitRuns
  <2>. QED BY <2>1, GradesStay, EmptySound DEF GradeInv, Grades
<1>2. CASE EmitBatch
  <2>1. UNCHANGED <<fixed, tasks, found>> /\ phase = "emit" /\ num \in DOMAIN found
    BY <1>2 DEF EmitBatch, carved, GradeInv, Grades, Tasks
  <2>2. CASE off \in DOMAIN found[num] /\ Emit(found[num][off], "blocks")
    <3>1. Sound(found[num][off])
      BY <2>1, <2>2 DEF GradeInv, Grades, SoundSeq
    <3>. QED BY <2>1, <2>2, <3>1, EmitKeepsGrades
  <2>3. CASE UNCHANGED <<phase, emitted>>
    BY <2>1, <2>3, GradesStay DEF GradeInv, Grades
  <2>. QED BY <1>2, <2>2, <2>3 DEF EmitBatch
<1>3. ASSUME NEW t \in Tasks, CarveBlock(t) PROVE Grades'
  <2>. DEFINE more == CarvedBlock(tasks[t].start + task[t])
  <2>1. /\ UNCHANGED <<fixed, tasks, emitted, phase>> /\ phase = "carve" /\ job \in Volumes
        /\ found' = [found EXCEPT ![t] = @ \o more]
    BY <1>3 DEF CarveBlock, GradeInv, RecInv, Places
  <2>2. SoundSeq(more)
    BY <2>1, CarvedBlockSound
  <2>. HIDE DEF more
  <2>3. DOMAIN found' = DOMAIN tasks /\ \A u \in DOMAIN found' : SoundSeq(found'[u])
    <3>1. DOMAIN found' = DOMAIN found /\ DOMAIN found = DOMAIN tasks
      BY <2>1 DEF GradeInv, Grades
    <3>2. ASSUME NEW u \in DOMAIN found PROVE SoundSeq(found'[u])
      <4>1. SoundSeq(found[u])
        BY DEF GradeInv, Grades
      <4>2. SoundSeq(found[u] \o more)
        BY <2>2, <4>1, AppendedSound
      <4>3. found'[u] = found[u] \/ found'[u] = found[u] \o more
        BY <2>1
      <4>. QED BY <4>1, <4>2, <4>3
    <3>. QED BY <3>1, <3>2
  <2>. QED BY <2>1, <2>3, GradesStay DEF GradeInv, Grades
<1>. QED BY <1>1, <1>2, <1>3

LEMMA GradeStep == ASSUME GradeInv, [Next]_vars PROVE GradeInv'
<1>1. RecInv'
  BY RecStep DEF GradeInv
<1>2. CASE \/ UNCHANGED vars \/ Cancel \/ Begin \/ LiveNode \/ SlackNode \/ FreeNode
           \/ WalkBitmap \/ NoBlocks \/ Join \/ CancelSeen \/ Finish
  <2>1. UNCHANGED <<fixed, tasks, found, emitted>>
    BY <1>2 DEF vars, carved, place, Cancel, Begin, LiveNode, SlackNode, FreeNode, WalkBitmap, NoBlocks,
                Join, CancelSeen, Finish
  <2>2. phase' = "free" /\ off' # 0 => HasNode(num')
    <3>1. CASE UNCHANGED <<phase, place>>
      BY <3>1 DEF place, GradeInv, Grades
    <3>2. CASE FreeNode
      BY <3>2 DEF FreeNode
    <3>3. CASE phase' # "free" \/ off' = 0
      BY <3>3
    <3>. QED BY <1>2, <3>1, <3>2, <3>3
             DEF vars, Cancel, Begin, LiveNode, SlackNode, WalkBitmap, NoBlocks, Join, CancelSeen,
                 Finish, End_, GradeInv, RecInv, Places
  <2>. QED BY <1>1, <2>1, <2>2, GradesStay DEF GradeInv, Grades
<1>3. CASE \/ SlackBytes \/ FreeRecords \/ SplitRuns \/ EmitBatch \/ \E t \in Tasks : CarveBlock(t)
  BY <1>1, <1>3, SlackBytesGrades, FreeRecordsGrades, BlockGrades DEF GradeInv
<1>. QED BY <1>2, <1>3 DEF Next

\* A record emitted with high confidence, from the tree or from a block, has all of
\* its blocks in the volume and free, unless an extent ends beyond 2^32
\* (gradeRecovered, deleted.go:611-654).
THEOREM HighConfidenceIsIntact == Spec => []HighIsIntact
<1>1. Init => GradeInv
  <2>. SUFFICES ASSUME Init PROVE GradeInv
    OBVIOUS
  <2>1. RecInv
    BY RecInit
  <2>2. emitted = <<>> /\ found = <<>> /\ tasks = <<>> /\ phase = "start"
    BY DEF Init
  <2>. QED BY <2>1, <2>2 DEF GradeInv, Grades
<1>2. GradeInv => HighIsIntact
  BY DEF GradeInv, Grades, Sound, HighIsIntact
<1>. QED BY <1>1, <1>2, GradeStep, PTL DEF Spec

---------------------------------------------------------------------------
(* What node slack holds is emitted. *)

LEMMA StepsAscend ==
    ASSUME NEW n \in Nat \ {0}, NEW f, \A i \in 1..n : f[i] \in Nat,
           \A i \in 1..n : i # n => f[i] <= f[i+1]
    PROVE  \A i \in 1..n : f[i] <= f[n]
<1>. DEFINE T == {k \in 0..n-1 : ~(f[n - k] <= f[n])}
<1>1. T = {}
  <2>. SUFFICES ASSUME T # {} PROVE FALSE
    OBVIOUS
  <2>1. PICK k \in T : \A x \in T : k <= x
    <3>1. T \in SUBSET Nat
      OBVIOUS
    <3>. QED BY <3>1, Least
  <2>2. k # 0
    BY <2>1
  <2>3. k - 1 \notin T /\ k - 1 \in 0..n-1
    BY <2>1, <2>2
  <2>4. n - k \in 1..n /\ n - k # n /\ n - (k - 1) = (n - k) + 1 /\ (n - k) + 1 \in 1..n
    BY <2>1, <2>2
  <2>5. f[n - k] <= f[(n - k) + 1]
    BY <2>4
  <2>6. f[(n - k) + 1] <= f[n]
    BY <2>3, <2>4
  <2>7. f[n - k] \in Nat /\ f[(n - k) + 1] \in Nat /\ f[n] \in Nat
    BY <2>4
  <2>. QED BY <2>1, <2>5, <2>6, <2>7
<1>. TAKE i \in 1..n
<1>2. n - i \in 0..n-1 /\ n - (n - i) = i
  OBVIOUS
<1>. QED BY <1>1, <1>2

\* In a node nothing has damaged, no offset lies behind the free space.
LEMMA OffsetsAscend ==
    ASSUME NEW node, IsNode(node), Undamaged(node)
    PROVE  \A i \in DOMAIN node.offs : node.offs[i] <= FreeOffset(node)
<1>1. /\ Len(node.offs) \in Nat \ {0} /\ DOMAIN node.offs = 1..Len(node.offs)
      /\ \A i \in 1..Len(node.offs) : node.offs[i] \in Nat
  BY DEF IsNode
<1>2. ASSUME NEW i \in 1..Len(node.offs), i # Len(node.offs) PROVE node.offs[i] <= node.offs[i+1]
  <2>1. i \in 1..NumRecords(node) /\ i + 1 \in 1..Len(node.offs)
    BY <1>1, <1>2 DEF NumRecords
  <2>2. /\ node.offs[i] \in DOMAIN node.held
        /\ node.offs[i] + node.held[node.offs[i]].len = node.offs[i+1]
    BY <2>1 DEF Undamaged
  <2>3. node.held[node.offs[i]].len \in Nat
    BY <2>2 DEF IsNode
  <2>. QED BY <1>1, <2>1, <2>2, <2>3
<1>3. \A i \in 1..Len(node.offs) : node.offs[i] <= node.offs[Len(node.offs)]
  BY <1>1, <1>2, StepsAscend
<1>. QED BY <1>1, <1>3 DEF FreeOffset

\* So its dead records lie where the slack is looked at, and decode there.
LEMMA DeadIsCarved ==
    ASSUME NEW node, IsNode(node), Undamaged(node), NEW b \in Dead(node)
    PROVE  /\ HasSlack(node) /\ CarvesAt(node, b) /\ b \in DOMAIN node.held
           /\ b \in Nat /\ FreeOffset(node) \in Nat /\ FreeOffset(node) <= b
           /\ (b - FreeOffset(node)) % 2 = 0
<1>1. /\ Len(node.offs) \in Nat \ {0} /\ DOMAIN node.offs = 1..Len(node.offs)
      /\ \A i \in DOMAIN node.offs : node.offs[i] \in Nat
      /\ FreeOffset(node) \in Nat
  BY DEF IsNode, FreeOffset
<1>2. /\ b \in DOMAIN node.held /\ b \in Nat /\ node.held[b].len \in Nat \ {0} /\ FreeOffset(node) <= b
      /\ (b - FreeOffset(node)) % 2 = 0 /\ b + node.held[b].len <= ArrayStart(node)
  BY DEF IsNode, Dead
<1>3. node.offs[1] = DescSize /\ FreeOffset(node) <= ArrayStart(node)
  BY DEF Undamaged
<1>4. DescSize <= FreeOffset(node)
  BY <1>1, <1>3, OffsetsAscend
<1>5. ArrayStart(node) = NodeSize - 2 * Len(node.offs) /\ NodeSize \in Nat
  BY NodeAssumption DEF ArrayStart
<1>6. Parses(node)
  <2>1. ASSUME NEW i \in DOMAIN node.offs PROVE node.offs[i] <= NodeSize
    <3>1. node.offs[i] <= FreeOffset(node) /\ node.offs[i] \in Nat
      BY <1>1, OffsetsAscend
    <3>. QED BY <1>1, <1>3, <1>5, <3>1
  <2>. QED BY <1>1, <1>3, <1>5, <2>1 DEF Parses
<1>7. FreeOffset(node) < ArrayStart(node)
  BY <1>1, <1>2, <1>5
<1>. QED BY <1>1, <1>2, <1>4, <1>6, <1>7 DEF HasSlack, CarvesAt

\* A record to emit, and one whose identity was emitted with as good a grade.
Wants(c)   == c.plausible /\ Confidence(c) >= opts.min /\ (opts.stale \/ c.key \notin LiveKeys)
Emitted(c) == \E i \in DOMAIN emitted : emitted[i].key = c.key /\ emitted[i].conf >= Confidence(c)

\* No dead record of node n is missing; none that begins before byte lim.
NoneMissed(n) ==
    Undamaged(job.nodes[n]) =>
        \A b \in Dead(job.nodes[n]) : Wants(job.nodes[n].held[b]) => Emitted(job.nodes[n].held[b])
NoneMissedBefore(n, lim) ==
    Undamaged(job.nodes[n]) =>
        \A b \in Dead(job.nodes[n]) :
            b < lim /\ Wants(job.nodes[n].held[b]) => Emitted(job.nodes[n].held[b])

\* What is done with: the nodes passed, and of the node the phase is in the bytes passed.
SlackInv ==
    /\ phase = "slack" /\ off = 0 =>
          /\ job.first \in visited \union {num}
          /\ \A n \in visited : job.nodes[n].fwd \in visited \union {num} /\ NoneMissed(n)
    /\ phase = "slack" /\ off # 0 =>
          /\ job.first \in visited /\ num \in visited
          /\ \A n \in visited \ {num} : job.nodes[n].fwd \in visited /\ NoneMissed(n)
          /\ (off - FreeOffset(job.nodes[num])) % 2 = 0 /\ NoneMissedBefore(num, off)
    /\ phase \in {"start", "live", "slack"} => unread = 0
    /\ phase \in {"free", "runs", "carve", "emit"} \/ result = "ok" =>
          \A n \in ChainTo(unread) : NoneMissed(n)

SeenInv == \A k \in DOMAIN seen : \E i \in DOMAIN emitted : emitted[i].key = k /\ emitted[i].conf = seen[k]

MissInv == RecInv /\ SeenInv /\ ("slack" \in opts.scan => SlackInv)

\* What was emitted is not taken back.
LEMMA EmittedStays ==
    ASSUME UNCHANGED fixed, IsSeq(emitted), UNCHANGED emitted \/ \E e : emitted' = Append(emitted, e)
    PROVE  /\ \A c : Confidence(c)' = Confidence(c) /\ (Wants(c)' <=> Wants(c)) /\ (Emitted(c) => Emitted(c)')
           /\ \A n : NoneMissed(n) => NoneMissed(n)'
<1>1. job' = job /\ opts' = opts /\ LiveKeys' = LiveKeys
  BY VolumeStays
<1>2. \A c : Confidence(c)' = Confidence(c)
  BY <1>1 DEF Confidence, Verdict, Fates, Fate, Outside, NotFree, End, CanTell, BlockAllocated
<1>3. \A c : Wants(c)' <=> Wants(c)
  BY <1>1, <1>2 DEF Wants
<1>4. \A i \in DOMAIN emitted : i \in DOMAIN emitted' /\ emitted'[i] = emitted[i]
  <2>1. ASSUME NEW e, emitted' = Append(emitted, e)
        PROVE  \A i \in DOMAIN emitted : i \in DOMAIN emitted' /\ emitted'[i] = emitted[i]
    BY <2>1, AppendIsSeq
  <2>. QED BY <2>1
<1>5. \A c : Emitted(c) => Emitted(c)'
  BY <1>2, <1>4 DEF Emitted
<1>. QED BY <1>1, <1>2, <1>3, <1>5 DEF NoneMissed, Undamaged, Dead

\* What is emitted is remembered with its grade, or as good a one was before.
LEMMA EmitSees ==
    ASSUME RecInv, SeenInv, NEW f, NEW source, Emit(f, source)
    PROVE  /\ UNCHANGED emitted \/ \E e : emitted' = Append(emitted, e)
           /\ UNCHANGED <<phase, result>> \/ (phase' = "done" /\ result' = "stopped")
           /\ SeenInv'
           /\ f.conf >= opts.min /\ (f.key \in live => opts.stale) =>
                 f.key \in DOMAIN seen' /\ (seen'[f.key] = f.conf \/ seen'[f.key] >= f.conf)
<1>. DEFINE e == Reported(f, source)
<1>1. e.key = f.key /\ e.conf = f.conf
  BY DEF Reported
<1>2. CASE ~Wanted(f)
  <2>1. UNCHANGED <<phase, seen, emitted, result>>
    BY <1>2 DEF Emit
  <2>. QED BY <1>2, <2>1 DEF SeenInv, Wanted, Known
<1>3. CASE Wanted(f)
  <2>1. /\ seen' = [k \in DOMAIN seen \union {f.key} |-> IF k = f.key THEN f.conf ELSE seen[k]]
        /\ emitted' = Append(emitted, e) /\ (UNCHANGED <<phase, result>> \/ End_("stopped"))
    BY <1>3 DEF Emit
  <2>. HIDE DEF e
  <2>2. /\ Len(emitted) + 1 \in DOMAIN emitted' /\ emitted'[Len(emitted) + 1] = e
        /\ \A i \in DOMAIN emitted : i \in DOMAIN emitted' /\ emitted'[i] = emitted[i]
    <3>1. /\ Len(emitted) \in Nat /\ DOMAIN emitted = 1..Len(emitted)
          /\ DOMAIN emitted' = 1..(Len(emitted) + 1) /\ emitted'[Len(emitted) + 1] = e
          /\ \A i \in DOMAIN emitted : emitted'[i] = emitted[i]
      BY <2>1, AppendIsSeq DEF RecInv, Emissions
    <3>. QED BY <3>1
  <2>3. SeenInv'
    <3>. SUFFICES ASSUME NEW k \in DOMAIN seen'
                  PROVE  \E i \in DOMAIN emitted' : emitted'[i].key = k /\ emitted'[i].conf = seen'[k]
      BY DEF SeenInv
    <3>1. CASE k = f.key
      <4>1. seen'[k] = e.conf
        BY <1>1, <2>1, <3>1
      <4>. QED BY <1>1, <2>2, <3>1, <4>1
    <3>2. CASE k # f.key
      <4>1. k \in DOMAIN seen /\ seen'[k] = seen[k]
        BY <2>1, <3>2
      <4>2. PICK i \in DOMAIN emitted : emitted[i].key = k /\ emitted[i].conf = seen[k]
        BY <4>1 DEF SeenInv
      <4>. QED BY <2>2, <4>1, <4>2
    <3>. QED BY <3>1, <3>2
  <2>. QED BY <2>1, <2>3 DEF End_
<1>. QED BY <1>2, <1>3

\* So a record a scan comes upon is emitted now, or its identity was with as good a grade.
LEMMA CarveTells ==
    ASSUME RecInv, SeenInv, Scanning, UNCHANGED fixed,
           NEW c, NEW source, NEW node, NEW byte, CarveOne(c, source, node, byte)
    PROVE  /\ UNCHANGED emitted \/ \E e : emitted' = Append(emitted, e)
           /\ UNCHANGED <<phase, result>> \/ (phase' = "done" /\ result' = "stopped")
           /\ SeenInv' /\ (Wants(c) => Emitted(c)')
<1>. DEFINE f == Graded(c, node, byte)
<1>1. f.key = c.key /\ f.conf = Confidence(c)
  BY DEF Graded
<1>. HIDE DEF f
<1>2. live = LiveKeys /\ IsSeq(emitted)
  BY DEF RecInv, Places, Emissions, LiveIsExact
<1>3. CASE c.plausible /\ Emit(f, source)
  <2>1. /\ UNCHANGED emitted \/ \E e : emitted' = Append(emitted, e)
        /\ UNCHANGED <<phase, result>> \/ (phase' = "done" /\ result' = "stopped")
        /\ SeenInv'
        /\ f.conf >= opts.min /\ (f.key \in live => opts.stale) =>
              f.key \in DOMAIN seen' /\ (seen'[f.key] = f.conf \/ seen'[f.key] >= f.conf)
    BY <1>3, EmitSees
  <2>2. ASSUME Wants(c) PROVE Emitted(c)'
    <3>1. Confidence(c)' = Confidence(c) /\ Confidence(c) \in Nat
      BY <1>2, <2>1, EmittedStays, ConfidenceIsNat
    <3>2. c.key \in DOMAIN seen' /\ seen'[c.key] >= Confidence(c)
      BY <1>1, <1>2, <2>1, <2>2, <3>1 DEF Wants
    <3>3. PICK i \in DOMAIN emitted' : emitted'[i].key = c.key /\ emitted'[i].conf = seen'[c.key]
      BY <2>1, <3>2 DEF SeenInv
    <3>. QED BY <3>1, <3>2, <3>3 DEF Emitted
  <2>. QED BY <2>1, <2>2
<1>4. CASE ~c.plausible /\ UNCHANGED <<phase, seen, emitted, result>>
  BY <1>4 DEF SeenInv, Wants
<1>. QED BY <1>3, <1>4 DEF CarveOne, f

LEMMA SlackNodeMiss == ASSUME MissInv, SlackNode, "slack" \in opts.scan PROVE SlackInv'
<1>. DEFINE node == job.nodes[num]
<1>1. /\ UNCHANGED <<fixed, emitted, result>> /\ phase = "slack" /\ off = 0 /\ result = "none"
      /\ job \in Volumes /\ LiveIsExact /\ num \in Chain \union {0} /\ IsSeq(emitted) /\ SlackInv
  BY DEF SlackNode, MissInv, RecInv, Places, Emissions, Scanning
<1>2. /\ job' = job /\ opts' = opts /\ \A stop : ChainTo(stop)' = ChainTo(stop)
      /\ \A n : NoneMissed(n) => NoneMissed(n)'
  BY <1>1, VolumeStays, EmittedStays
<1>3. /\ job.first \in visited \union {num}
      /\ \A n \in visited : job.nodes[n].fwd \in visited \union {num} /\ NoneMissed(n)
  BY <1>1 DEF SlackInv
<1>4. CASE ChainOver /\ phase' = "free" /\ UNCHANGED unread
  <2>1. Closed(visited \cap Nodes, 0)
    <3>1. 0 \notin Nodes
      BY <1>1, RecoveryAssumption DEF Nodes
    <3>2. num \in visited \union {0}
      BY <1>4 DEF ChainOver
    <3>. QED BY <1>3, <3>1, <3>2 DEF Closed
  <2>2. ChainTo(0) \subseteq visited /\ unread' = 0
    BY <1>1, <1>4, <2>1 DEF ChainTo, SlackInv
  <2>. QED BY <1>1, <1>2, <1>3, <1>4, <2>2 DEF SlackInv
<1>6. CASE phase' = "free" /\ unread' = num
  <2>1. Closed(visited \cap Nodes, num)
    BY <1>3 DEF Closed
  <2>2. ChainTo(num) \subseteq visited
    BY <2>1 DEF ChainTo
  <2>. QED BY <1>1, <1>2, <1>3, <1>6, <2>2 DEF SlackInv
<1>5. CASE ~ChainOver /\ visited' = visited \union {num} /\ UNCHANGED <<phase, unread>>
  <2>1. num \in Chain /\ HasNode(num) /\ IsNode(node)
    <3>1. num \in Chain /\ HasNode(num)
      BY <1>1, <1>5 DEF ChainOver, LiveIsExact
    <3>. QED BY <1>1, <3>1, RecoveryAssumption DEF HasNode, Nodes
  <2>2. CASE HasSlack(node) /\ off' = FreeOffset(node) /\ UNCHANGED num
    <3>1. FreeOffset(node) \in Nat /\ off' # 0
      <4>. HIDE DEF node
      <4>. QED BY <2>1, <2>2, NodeAssumption DEF IsNode, FreeOffset, HasSlack
    <3>2. (off' - FreeOffset(node)) % 2 = 0
      <4>. HIDE DEF node
      <4>. QED BY <2>2, <3>1
    <3>3. NoneMissedBefore(num, off)'
      <4>1. ASSUME Undamaged(node), NEW b \in Dead(node) PROVE ~(b < off')
        <5>. HIDE DEF node
        <5>. QED BY <2>1, <2>2, <3>1, <4>1, DeadIsCarved
      <4>. QED BY <1>2, <2>2, <4>1 DEF NoneMissedBefore, Undamaged, Dead
    <3>. QED BY <1>1, <1>2, <1>3, <1>5, <2>2, <3>1, <3>2, <3>3 DEF SlackInv
  <2>3. CASE ~HasSlack(node) /\ num' = node.fwd /\ UNCHANGED off
    <3>1. NoneMissed(num)
      <4>1. ASSUME Undamaged(node), NEW b \in Dead(node) PROVE FALSE
        <5>. HIDE DEF node
        <5>. QED BY <2>1, <2>3, <4>1, DeadIsCarved
      <4>. QED BY <4>1 DEF NoneMissed
    <3>. QED BY <1>1, <1>2, <1>3, <1>5, <2>3, <3>1 DEF SlackInv
  <2>. QED BY <1>1, <1>5, <2>2, <2>3 DEF SlackNode
<1>. QED BY <1>1, <1>4, <1>5, <1>6 DEF SlackNode

\* Bytes an even distance from the same place are an even distance apart.
LEMMA SameParity ==
    ASSUME NEW a \in Int, NEW b \in Int, NEW c \in Int, (a - c) % 2 = 0, (b - c) % 2 = 0
    PROVE  (a - b) % 2 = 0 /\ (a + 2 - c) % 2 = 0 /\ a # b + 1
OBVIOUS

LEMMA ParityAdds ==
    ASSUME NEW a \in Int, NEW b \in Int, NEW c \in Int, (a - b) % 2 = 0, (b - c) % 2 = 0
    PROVE  (a - c) % 2 = 0
OBVIOUS

LEMMA SlackBytesMiss ==
    ASSUME MissInv, SlackBytes
    PROVE  SeenInv' /\ ("slack" \in opts.scan => SlackInv')
<1>. DEFINE node == job.nodes[num]
            rest == {b \in DOMAIN node.held : b >= off /\ (b - off) % 2 = 0 /\ CarvesAt(node, b)}
<1>1. /\ UNCHANGED <<fixed, visited, unread>> /\ phase = "slack" /\ off # 0 /\ result = "none"
      /\ job \in Volumes /\ LiveIsExact /\ num \in Chain /\ IsSeq(emitted) /\ Scanning
      /\ off \in Nat /\ FreeOffset(node) <= off
  BY DEF SlackBytes, MissInv, RecInv, Places, Emissions, Scanning
<1>2. IsNode(node)
  BY <1>1, RecoveryAssumption DEF LiveIsExact, HasNode, Nodes
<1>3. job' = job /\ opts' = opts /\ Chain' = Chain
  BY <1>1, VolumeStays
<1>4. "slack" \in opts.scan =>
          /\ job.first \in visited /\ num \in visited
          /\ \A n \in visited \ {num} : job.nodes[n].fwd \in visited /\ NoneMissed(n)
          /\ (off - FreeOffset(node)) % 2 = 0 /\ NoneMissedBefore(num, off) /\ unread = 0
  BY <1>1 DEF MissInv, SlackInv
<1>5. ASSUME "slack" \in opts.scan, Undamaged(node), NEW x \in Dead(node)
      PROVE  x < off \/ x \in rest
  <2>1. /\ CarvesAt(node, x) /\ x \in DOMAIN node.held /\ x \in Nat /\ FreeOffset(node) \in Nat
        /\ (x - FreeOffset(node)) % 2 = 0
    <3>. HIDE DEF node
    <3>. QED BY <1>2, <1>5, DeadIsCarved
  <2>2. (x - off) % 2 = 0
    <3>. HIDE DEF node
    <3>. QED BY <1>1, <1>4, <1>5, <2>1, SameParity
  <2>. QED BY <1>1, <2>1, <2>2
<1>6. ASSUME NEW b \in rest, First(b, rest), off' = b + 2, UNCHANGED num,
             CarveOne(node.held[b], "slack", num, b)
      PROVE  SeenInv' /\ ("slack" \in opts.scan => SlackInv')
  <2>0. PICK c : c = node.held[b]
    OBVIOUS
  <2>1. /\ UNCHANGED emitted \/ \E e : emitted' = Append(emitted, e)
        /\ UNCHANGED <<phase, result>> \/ (phase' = "done" /\ result' = "stopped")
        /\ SeenInv' /\ (Wants(c) => Emitted(c)')
    BY <1>1, <1>6, <2>0, CarveTells DEF MissInv
  <2>2. /\ \A d : (Wants(d)' <=> Wants(d)) /\ (Emitted(d) => Emitted(d)')
        /\ \A n : NoneMissed(n) => NoneMissed(n)'
    BY <1>1, <2>1, EmittedStays
  <2>3. ASSUME "slack" \in opts.scan PROVE SlackInv'
    <3>1. CASE phase' = "done"
      BY <1>1, <2>1, <3>1 DEF SlackInv
    <3>2. CASE UNCHANGED <<phase, result>>
      <4>1. b \in Nat /\ FreeOffset(node) \in Nat
        <5>. HIDE DEF node
        <5>. QED BY <1>2, <1>6 DEF IsNode, FreeOffset
      <4>2. off' # 0 /\ (off' - FreeOffset(node)) % 2 = 0
        <5>1. (b - off) % 2 = 0
          BY <1>6
        <5>2. (b - FreeOffset(node)) % 2 = 0
          <6>1. (off - FreeOffset(node)) % 2 = 0
            BY <1>4, <2>3
          <6>. HIDE DEF node, rest
          <6>. QED BY <1>1, <4>1, <5>1, <6>1, ParityAdds
        <5>. HIDE DEF node, rest
        <5>. QED BY <1>6, <4>1, <5>2, SameParity
      <4>3. ASSUME Undamaged(node), NEW x \in Dead(node), x < b + 2,
                   NEW d, d = node.held[x], Wants(d)
            PROVE  Emitted(d)'
        <5>1. CASE x < off
          <6>1. Emitted(d)
            BY <1>4, <2>3, <4>3, <5>1 DEF NoneMissedBefore
          <6>. QED BY <2>2, <6>1
        <5>2. CASE x = b
          BY <2>0, <2>1, <4>3, <5>2
        <5>3. CASE ~(x < off) /\ x # b
          <6>1. x \in rest
            BY <1>5, <2>3, <4>3, <5>3
          <6>2. b <= x /\ (x - off) % 2 = 0 /\ (b - off) % 2 = 0 /\ x \in Nat
            <7>1. x \in Nat
              <8>. HIDE DEF node, rest
              <8>. QED BY <1>2, <4>3, DeadIsCarved
            <7>2. b <= x
              <8>. HIDE DEF rest
              <8>. QED BY <1>6, <6>1 DEF First
            <7>. QED BY <1>6, <6>1, <7>1, <7>2
          <6>. HIDE DEF node, rest
          <6>3. x # b + 1
            BY <1>1, <4>1, <6>2, SameParity
          <6>. QED BY <4>1, <4>3, <5>3, <6>2, <6>3
        <5>. QED BY <5>1, <5>2, <5>3
      <4>4. NoneMissedBefore(num, off)'
        BY <1>3, <1>6, <2>2, <4>3 DEF NoneMissedBefore, Undamaged, Dead
      <4>5. /\ job'.first \in visited' /\ num' \in visited' /\ phase' = "slack" /\ result' = "none"
            /\ unread' = 0
            /\ (off' - FreeOffset(job'.nodes[num'])) % 2 = 0
        BY <1>1, <1>3, <1>4, <1>6, <2>3, <3>2, <4>2
      <4>6. \A n \in visited' \ {num'} : job'.nodes[n].fwd \in visited' /\ NoneMissed(n)'
        BY <1>1, <1>3, <1>4, <1>6, <2>2, <2>3
      <4>. QED BY <4>2, <4>4, <4>5, <4>6 DEF SlackInv
    <3>. QED BY <2>1, <3>1, <3>2
  <2>. QED BY <2>1, <2>3
<1>7. CASE rest = {} /\ off' = 0 /\ num' = node.fwd /\ UNCHANGED <<phase, seen, emitted, result>>
  <2>1. SeenInv'
    BY <1>7 DEF MissInv, SeenInv
  <2>2. ASSUME "slack" \in opts.scan PROVE SlackInv'
    <3>1. NoneMissed(num)
      <4>. HIDE DEF rest
      <4>. QED BY <1>4, <1>5, <1>7, <2>2 DEF NoneMissed, NoneMissedBefore
    <3>2. \A n : NoneMissed(n) => NoneMissed(n)'
      BY <1>1, <1>7, EmittedStays
    <3>. QED BY <1>1, <1>3, <1>4, <1>7, <2>2, <3>1, <3>2 DEF SlackInv
  <2>. QED BY <2>1, <2>2
<1>. QED BY <1>6, <1>7 DEF SlackBytes

\* What the later scans do, and what ends the recovery, leaves it so.
LEMMA MissStays ==
    ASSUME MissInv, UNCHANGED <<fixed, unread>>, UNCHANGED emitted \/ \E e : emitted' = Append(emitted, e),
           phase' \notin {"start", "live", "slack"},
           phase' \in {"free", "runs", "carve", "emit"} \/ result' = "ok" =>
              phase \in {"free", "runs", "carve", "emit"} \/ result = "ok"
    PROVE  "slack" \in opts'.scan => SlackInv'
<1>1. \A n : NoneMissed(n) => NoneMissed(n)'
  BY EmittedStays DEF MissInv, RecInv, Emissions
<1>2. (\A stop : ChainTo(stop)' = ChainTo(stop)) /\ opts' = opts
  BY VolumeStays
<1>. QED BY <1>1, <1>2 DEF MissInv, SlackInv

LEMMA MissStep == ASSUME MissInv, [Next]_vars PROVE MissInv'
<1>. DEFINE after == {"free", "runs", "carve", "emit"}
<1>1. RecInv'
  BY RecStep DEF MissInv
<1>2. CASE UNCHANGED vars \/ Cancel \/ Begin \/ LiveNode
  <2>1. UNCHANGED <<fixed, emitted, seen, unread>>
    BY <1>2 DEF vars, place, Cancel, Begin, LiveNode
  <2>2. SeenInv'
    BY <2>1 DEF MissInv, SeenInv
  <2>3. \A n : NoneMissed(n) => NoneMissed(n)'
    BY <2>1, EmittedStays DEF MissInv, RecInv, Emissions
  <2>4. job' = job /\ opts' = opts /\ \A stop : ChainTo(stop)' = ChainTo(stop)
    BY <2>1, VolumeStays
  <2>5. CASE UNCHANGED <<phase, place, result>>
    <3>1. NoneMissedBefore(num, off) => NoneMissedBefore(num, off)'
      <4>1. \A c : (Wants(c)' <=> Wants(c)) /\ (Emitted(c) => Emitted(c)')
        BY <2>1, EmittedStays DEF MissInv, RecInv, Emissions
      <4>2. num' = num /\ off' = off
        BY <2>5 DEF place
      <4>. QED BY <2>4, <4>1, <4>2 DEF NoneMissedBefore, Undamaged, Dead
    <3>. QED BY <1>1, <2>2, <2>3, <2>4, <2>5, <3>1 DEF MissInv, SlackInv, place
  <2>6. CASE phase \in {"start", "live"} /\ phase' \in {"live", "done"} /\ result' # "ok"
    BY <1>1, <2>1, <2>2, <2>4, <2>6 DEF MissInv, SlackInv
  <2>7. CASE phase = "live" /\ phase' = "slack" /\ num' = job.first /\ visited' = {} /\ off' = 0 /\ result' # "ok"
    BY <1>1, <2>1, <2>2, <2>4, <2>7 DEF MissInv, SlackInv
  <2>8. result = "none" \/ phase = "done"
    BY DEF MissInv, RecInv, Emissions
  <2>9. phase \in {"start", "live"} => off = 0
    BY DEF MissInv, RecInv, Places
  <2>. QED BY <1>2, <2>5, <2>6, <2>7, <2>8, <2>9 DEF vars, place, Cancel, Begin, LiveNode, End_
<1>3. CASE SlackNode
  <2>1. SeenInv' /\ opts' = opts
    BY <1>3, VolumeStays DEF SlackNode, MissInv, SeenInv
  <2>. QED BY <1>1, <1>3, <2>1, SlackNodeMiss DEF MissInv
<1>4. CASE SlackBytes
  <2>1. opts' = opts
    BY <1>4, VolumeStays DEF SlackBytes
  <2>. QED BY <1>1, <1>4, <2>1, SlackBytesMiss DEF MissInv
<1>5. CASE /\ SeenInv' /\ UNCHANGED <<fixed, unread>> /\ phase' \notin {"start", "live", "slack"}
           /\ UNCHANGED emitted \/ \E e : emitted' = Append(emitted, e)
           /\ phase' \in after \/ result' = "ok" => phase \in after \/ result = "ok"
  <2>1. "slack" \in opts'.scan => SlackInv'
    BY <1>5, MissStays
  <2>. QED BY <1>1, <1>5, <2>1 DEF MissInv
<1>6. CASE FreeNode \/ WalkBitmap \/ SplitRuns \/ NoBlocks \/ Join \/ CancelSeen \/ Finish
           \/ \E t \in Tasks : CarveBlock(t)
  <2>1. /\ UNCHANGED <<fixed, emitted, seen, unread>> /\ phase \in after
        /\ phase' \notin {"start", "live", "slack"}
    BY <1>6 DEF place, FreeNode, WalkBitmap, SplitRuns, NoBlocks, Join, CancelSeen, Finish, CarveBlock,
                Cancellable, End_
  <2>2. SeenInv'
    BY <2>1 DEF MissInv, SeenInv
  <2>. QED BY <1>5, <2>1, <2>2
<1>7. CASE FreeRecords \/ EmitBatch
  <2>1. /\ UNCHANGED <<fixed, unread>> /\ phase \in after /\ Scanning
    BY <1>7 DEF FreeRecords, EmitBatch, Scanning
  <2>2. CASE UNCHANGED <<phase, seen, emitted, result>>
    BY <1>5, <2>1, <2>2 DEF MissInv, SeenInv
  <2>3. CASE /\ UNCHANGED emitted \/ \E e : emitted' = Append(emitted, e)
             /\ UNCHANGED <<phase, result>> \/ (phase' = "done" /\ result' = "stopped")
             /\ SeenInv'
    BY <1>5, <2>1, <2>3
  <2>4. ASSUME NEW f, Emit(f, "blocks") PROVE MissInv'
    BY <2>3, <2>4, EmitSees DEF MissInv
  <2>5. ASSUME NEW c, CarveOne(c, "free", num, 0) PROVE MissInv'
    BY <2>1, <2>3, <2>5, CarveTells DEF MissInv
  <2>. QED BY <1>7, <2>2, <2>4, <2>5 DEF FreeRecords, EmitBatch
<1>. QED BY <1>2, <1>3, <1>4, <1>6, <1>7 DEF Next

\* A recovery that ends well and was asked to scan node slack has emitted every
\* record that lies there whole in a node nothing has damaged, of the whole leaf
\* chain or up to the one node it could not read again, with its grade or a better
\* one (scanNodeSlack, nodeSlackRegion, carveRecords, deleted.go:352-396,
\* 560-571).
THEOREM NothingIsMissed == Spec => []NothingMissed
<1>1. Init => MissInv
  <2>. SUFFICES ASSUME Init PROVE MissInv
    OBVIOUS
  <2>1. RecInv
    BY RecInit
  <2>2. seen = <<>> /\ DOMAIN seen = {} /\ phase = "start" /\ result = "none" /\ unread = 0
    BY DEF Init
  <2>. QED BY <2>1, <2>2 DEF MissInv, SeenInv, SlackInv
<1>2. MissInv => NothingMissed
  <2>. SUFFICES ASSUME MissInv, result = "ok", "slack" \in opts.scan,
                       NEW n \in ChainTo(unread), Undamaged(job.nodes[n]), NEW b \in Dead(job.nodes[n]),
                       Wants(job.nodes[n].held[b])
                PROVE  Emitted(job.nodes[n].held[b])
    BY DEF NothingMissed, Wants, Emitted
  <2>1. NoneMissed(n)
    BY DEF MissInv, SlackInv
  <2>. QED BY <2>1 DEF NoneMissed
<1>. QED BY <1>1, <1>2, MissStep, PTL DEF Spec

---------------------------------------------------------------------------
(* Enumerations. *)

\* s holds the members of S, each once, in order.
Enumerates(s, S) ==
    /\ IsSeq(s) /\ \A i \in 1..Len(s) : s[i] \in S
    /\ \A x \in S : \E i \in 1..Len(s) : s[i] = x
    /\ \A i, j \in 1..Len(s) : i < j => s[i] < s[j]

\* One of the first members of a set is the front of one of them all.
LEMMA FrontOf ==
    ASSUME NEW S \in SUBSET Nat, NEW T \in SUBSET S, NEW s, NEW t, Enumerates(s, S), Enumerates(t, T),
           \A x \in T, y \in S \ T : x < y
    PROVE  Len(t) <= Len(s) /\ \A i \in 1..Len(t) : i \in 1..Len(s) /\ t[i] = s[i]
<1>. DEFINE Off == {i \in 1..Len(t) : ~(i \in 1..Len(s) /\ t[i] = s[i])}
<1>1. Len(s) \in Nat /\ Len(t) \in Nat
  BY SeqFacts DEF Enumerates
<1>2. Off = {}
  <2>. SUFFICES ASSUME Off # {} PROVE FALSE
    OBVIOUS
  <2>1. PICK k \in Off : \A y \in Off : k <= y
    <3>1. Off \in SUBSET Nat
      BY <1>1
    <3>. QED BY <3>1, Least
  <2>2. \A i \in 1..Len(t) : i < k => i \in 1..Len(s) /\ t[i] = s[i]
    BY <1>1, <2>1
  <2>3. k \in 1..Len(t) /\ ~(k \in 1..Len(s) /\ t[k] = s[k])
    BY <2>1
  <2>. HIDE DEF Off
  <2>4. t[k] \in T /\ t[k] \in S /\ t[k] \in Nat
    BY <2>3 DEF Enumerates
  <2>5. PICK j \in 1..Len(s) : s[j] = t[k]
    BY <2>4 DEF Enumerates
  <2>6. ~(j < k)
    <3>. SUFFICES ASSUME j < k PROVE FALSE
      OBVIOUS
    <3>1. j \in 1..Len(t)
      BY <1>1, <2>3, <2>5
    <3>2. t[j] = t[k] /\ t[j] < t[k]
      BY <2>2, <2>3, <2>5, <3>1 DEF Enumerates
    <3>. QED BY <2>4, <3>2
  <2>7. k \in 1..Len(s)
    BY <1>1, <2>3, <2>5, <2>6
  <2>8. s[k] \in S /\ s[k] \in Nat
    BY <2>7 DEF Enumerates
  <2>9. s[k] < t[k]
    <3>1. s[k] <= s[j]
      <4>1. CASE k = j
        BY <2>8, <4>1
      <4>2. CASE k # j
        <5>1. k < j
          BY <1>1, <2>3, <2>5, <2>6, <4>2
        <5>. QED BY <2>4, <2>5, <2>7, <2>8, <5>1 DEF Enumerates
      <4>. QED BY <4>1, <4>2
    <3>. QED BY <2>3, <2>4, <2>5, <2>7, <2>8, <3>1
  <2>10. s[k] \in T
    BY <2>4, <2>8, <2>9
  <2>11. PICK l \in 1..Len(t) : t[l] = s[k]
    BY <2>10 DEF Enumerates
  <2>12. l < k
    <3>. SUFFICES ASSUME ~(l < k) PROVE FALSE
      OBVIOUS
    <3>1. l = k \/ k < l
      BY <1>1, <2>3, <2>11
    <3>2. t[k] = t[l] \/ t[k] < t[l]
      BY <2>3, <2>11, <3>1 DEF Enumerates
    <3>. QED BY <2>4, <2>8, <2>9, <2>11, <3>2
  <2>13. l \in 1..Len(s) /\ s[l] = s[k] /\ s[l] < s[k]
    BY <2>2, <2>7, <2>11, <2>12 DEF Enumerates
  <2>. QED BY <2>8, <2>13
<1>3. Len(t) <= Len(s)
  <2>1. CASE Len(t) = 0
    BY <1>1, <2>1
  <2>2. CASE Len(t) # 0
    <3>1. Len(t) \in 1..Len(t) /\ Len(t) \notin Off
      BY <1>1, <1>2, <2>2
    <3>. QED BY <1>1, <3>1
  <2>. QED BY <2>1, <2>2
<1>. QED BY <1>2, <1>3

LEMMA EnumerationUnique ==
    ASSUME NEW S \in SUBSET Nat, NEW s, NEW t, Enumerates(s, S), Enumerates(t, S)
    PROVE  s = t
<1>1. Len(s) <= Len(t) /\ \A i \in 1..Len(s) : s[i] = t[i]
  BY FrontOf
<1>2. Len(t) <= Len(s)
  BY FrontOf
<1>3. IsSeq(s) /\ IsSeq(t)
  BY DEF Enumerates
<1>4. Len(s) = Len(t)
  BY <1>1, <1>2, <1>3, SeqFacts
<1>. QED BY <1>1, <1>3, <1>4, SameSeq

LEMMA AscendingEnumerates ==
    ASSUME NEW S \in SUBSET Nat, IsFiniteSet(S)
    PROVE  Enumerates(Ascending(S), S) /\ Len(Ascending(S)) = Cardinality(S)
<1>. DEFINE s == Ascending(S)
            n == Cardinality(S)
<1>1. n \in Nat /\ s \in [1..n -> S] /\ \A i, j \in 1..n : i < j => s[i] < s[j]
  BY AscendingExists, FS_CardinalityType
<1>. HIDE DEF s, n
<1>2. \A i, j \in 1..n : i # j => s[i] # s[j]
  <2>. SUFFICES ASSUME NEW i \in 1..n, NEW j \in 1..n, i # j PROVE s[i] # s[j]
    OBVIOUS
  <2>1. i < j \/ j < i
    BY <1>1
  <2>2. s[i] \in Nat /\ s[j] \in Nat
    BY <1>1
  <2>. QED BY <1>1, <2>1, <2>2
<1>3. s \in Injection(1..n, S)
  BY <1>1, <1>2 DEF Injection, IsInjective
<1>4. Cardinality(1..n) = n
  BY <1>1, FS_Interval
<1>5. s \in Surjection(1..n, S)
  BY <1>3, <1>4, FS_Injection DEF n
<1>6. \A x \in S : \E i \in 1..n : s[i] = x
  BY <1>5 DEF Surjection
<1>7. s = [i \in 1..n |-> s[i]]
  BY <1>1
<1>8. IsSeq(s) /\ Len(s) = n
  BY <1>1, <1>7, MakesSeq
<1>9. Enumerates(s, S)
  BY <1>1, <1>6, <1>8 DEF Enumerates
<1>. QED BY <1>8, <1>9 DEF s, n

LEMMA EnumerationCounts ==
    ASSUME NEW S \in SUBSET Nat, NEW s, Enumerates(s, S)
    PROVE  IsFiniteSet(S) /\ s = Ascending(S) /\ Len(s) = Cardinality(S)
<1>1. Len(s) \in Nat /\ s = [i \in 1..Len(s) |-> s[i]]
  BY SeqFacts DEF Enumerates
<1>2. s \in Surjection(1..Len(s), S)
  <2>1. s \in [1..Len(s) -> S]
    BY <1>1 DEF Enumerates
  <2>. QED BY <2>1 DEF Surjection, Enumerates
<1>3. IsFiniteSet(1..Len(s))
  <2>1. Len(s) \in Int /\ 1 \in Int
    BY <1>1
  <2>. QED BY ONLY <2>1, FS_Interval
<1>4. IsFiniteSet(S)
  BY <1>2, <1>3, FS_Surjection
<1>5. s = Ascending(S)
  BY <1>4, AscendingEnumerates, EnumerationUnique
<1>. QED BY <1>4, <1>5, AscendingEnumerates

\* One after another, when the one's members come before the other's.
LEMMA EnumerationsJoin ==
    ASSUME NEW S \in SUBSET Nat, NEW T \in SUBSET Nat, NEW s, NEW t, Enumerates(s, S), Enumerates(t, T),
           \A x \in S, y \in T : x < y
    PROVE  Enumerates(s \o t, S \union T)
<1>. DEFINE u == s \o t
<1>1. IsSeq(s) /\ IsSeq(t) /\ Len(s) \in Nat /\ Len(t) \in Nat
  BY SeqFacts DEF Enumerates
<1>2. /\ IsSeq(u) /\ Len(u) = Len(s) + Len(t)
      /\ \A i \in 1..Len(s) : u[i] = s[i]
      /\ \A i \in 1..Len(t) : u[Len(s) + i] = t[i]
      /\ \A i \in 1..Len(u) : i \in 1..Len(s) \/ (i - Len(s) \in 1..Len(t) /\ u[i] = t[i - Len(s)])
  BY ONLY <1>1, JoinFacts
<1>. HIDE DEF u
<1>3. \A i \in 1..Len(u) : u[i] \in S \union T
  BY <1>2 DEF Enumerates
<1>4. ASSUME NEW x \in S \union T PROVE \E i \in 1..Len(u) : u[i] = x
  <2>1. CASE x \in S
    <3>1. PICK i \in 1..Len(s) : s[i] = x
      BY <2>1 DEF Enumerates
    <3>2. i \in 1..Len(u) /\ u[i] = x
      BY <1>1, <1>2, <3>1
    <3>. QED BY <3>2
  <2>2. CASE x \in T
    <3>1. PICK i \in 1..Len(t) : t[i] = x
      BY <2>2 DEF Enumerates
    <3>2. Len(s) + i \in 1..Len(u) /\ u[Len(s) + i] = x
      BY <1>1, <1>2, <3>1
    <3>. QED BY <3>2
  <2>. QED BY <2>1, <2>2
<1>5. ASSUME NEW i \in 1..Len(u), NEW j \in 1..Len(u), i < j PROVE u[i] < u[j]
  <2>1. CASE i \in 1..Len(s) /\ j \in 1..Len(s)
    <3>1. u[i] = s[i] /\ u[j] = s[j] /\ s[i] < s[j]
      BY <1>2, <1>5, <2>1 DEF Enumerates
    <3>. QED BY <3>1
  <2>2. CASE i \in 1..Len(s) /\ j - Len(s) \in 1..Len(t) /\ u[j] = t[j - Len(s)]
    <3>1. u[i] \in S /\ u[j] \in T
      BY <1>2, <2>2 DEF Enumerates
    <3>. QED BY <3>1
  <2>3. CASE /\ i - Len(s) \in 1..Len(t) /\ u[i] = t[i - Len(s)]
             /\ j - Len(s) \in 1..Len(t) /\ u[j] = t[j - Len(s)]
    <3>1. i - Len(s) < j - Len(s)
      BY <1>1, <1>2, <1>5
    <3>2. t[i - Len(s)] < t[j - Len(s)]
      BY <2>3, <3>1 DEF Enumerates
    <3>. QED BY <2>3, <3>2
  <2>4. CASE ~(i \in 1..Len(s)) /\ j \in 1..Len(s)
    BY <1>1, <1>2, <1>5, <2>4
  <2>. QED BY <1>2, <2>1, <2>2, <2>3, <2>4
<1>. QED BY <1>2, <1>3, <1>4, <1>5 DEF Enumerates, u

\* What the first k of these sets hold.
UpTo(T, k) == UNION {T[i] : i \in 1..k}

Apart(T, n) == \A i, j \in 1..n : i < j => \A x \in T[i], y \in T[j] : x < y

LEMMA FlattenedEnumerates ==
    ASSUME NEW n, NEW ss, Pieces(ss, n), NEW T \in [1..n -> SUBSET Nat], Apart(T, n),
           \A i \in 1..n : Enumerates(ss[i], T[i])
    PROVE  Enumerates(FlattenSeq(ss), UpTo(T, n))
<1>0. n \in Nat
  BY DEF Pieces
<1>1. PICK f : Glued(f, ss, n) /\ FlattenSeq(ss) = f[n]
  BY Flattened
<1>2. f[0] = <<>> /\ \A i \in 1..n : f[i] = f[i-1] \o ss[i]
  BY <1>1 DEF Glued
<1>. DEFINE Off == {k \in 0..n : ~Enumerates(f[k], UpTo(T, k))}
<1>. SUFFICES ASSUME Off # {} PROVE FALSE
  BY <1>0, <1>1
<1>3. PICK k \in Off : \A y \in Off : k <= y
  <2>1. Off \in SUBSET Nat
    OBVIOUS
  <2>. QED BY <2>1, Least
<1>4. k # 0
  <2>1. IsSeq(<<>>) /\ Len(<<>>) = 0
    BY DEF IsSeq
  <2>2. 1..0 = {}
    OBVIOUS
  <2>3. UpTo(T, 0) = {}
    BY <2>2 DEF UpTo
  <2>4. Enumerates(f[0], UpTo(T, 0))
    BY <1>2, <2>1, <2>2, <2>3 DEF Enumerates
  <2>. QED BY <1>3, <2>4
<1>5. k \in 1..n /\ k - 1 \in 0..n /\ k - 1 \notin Off
  BY <1>0, <1>3, <1>4
<1>6. Enumerates(f[k-1], UpTo(T, k - 1)) /\ Enumerates(ss[k], T[k]) /\ f[k] = f[k-1] \o ss[k]
  BY <1>2, <1>5
<1>7. UpTo(T, k) = UpTo(T, k - 1) \union T[k]
  <2>1. 1..k = 1..k-1 \union {k}
    BY <1>5
  <2>. QED BY <2>1 DEF UpTo
<1>8. UpTo(T, k - 1) \in SUBSET Nat /\ T[k] \in SUBSET Nat
  <2>1. 1..k-1 \subseteq 1..n
    BY <1>0, <1>5
  <2>. QED BY <1>5, <2>1 DEF UpTo
<1>9. \A x \in UpTo(T, k - 1), y \in T[k] : x < y
  <2>1. \A i \in 1..k-1 : i \in 1..n /\ i < k
    BY <1>0, <1>5
  <2>. QED BY <1>5, <2>1 DEF UpTo, Apart
<1>10. Enumerates(f[k-1] \o ss[k], UpTo(T, k - 1) \union T[k])
  BY ONLY <1>6, <1>8, <1>9, EnumerationsJoin
<1>. QED BY <1>3, <1>6, <1>7, <1>10

---------------------------------------------------------------------------
(* Runs and batches of blocks. *)

IsRun(r)  == r.start \in Nat /\ r.count \in Nat \ {0}
RunEnd(r) == r.start + r.count

\* Runs in order that cover S between them; with a gap after each; or in pieces
\* none of which is cut short of a batch.
Laid(rs, S) ==
    /\ IsSeq(rs) /\ \A i \in 1..Len(rs) : IsRun(rs[i])
    /\ \A i, j \in 1..Len(rs) : i < j => RunEnd(rs[i]) <= rs[j].start
    /\ S = UNION {Covers(rs[i]) : i \in 1..Len(rs)}

Gapped(rs, S) == Laid(rs, S) /\ \A i, j \in 1..Len(rs) : i < j => RunEnd(rs[i]) < rs[j].start

Tiled(rs, S) ==
    /\ Laid(rs, S) /\ \A i \in 1..Len(rs) : rs[i].count <= BatchSize
    /\ \A i \in 1..Len(rs) : i > 1 /\ rs[i].start = RunEnd(rs[i-1]) => rs[i-1].count = BatchSize

LEMMA RunFacts ==
    ASSUME NEW r, IsRun(r)
    PROVE  /\ Covers(r) \in SUBSET Nat /\ r.start \in Covers(r) /\ RunEnd(r) - 1 \in Covers(r)
           /\ RunEnd(r) \in Nat /\ r.start < RunEnd(r)
           /\ \A x \in Covers(r) : r.start <= x /\ x < RunEnd(r)
BY DEF IsRun, RunEnd, Covers

LEMMA LaidFacts ==
    ASSUME NEW rs, NEW S, Laid(rs, S)
    PROVE  /\ S \in SUBSET Nat /\ Len(rs) \in Nat /\ \A i \in 1..Len(rs) : Covers(rs[i]) \subseteq S
<1>1. \A i \in 1..Len(rs) : Covers(rs[i]) \in SUBSET Nat
  BY RunFacts DEF Laid
<1>. QED BY <1>1, SeqFacts DEF Laid

LEMMA NothingLaid == Laid(<<>>, {}) /\ Gapped(<<>>, {}) /\ Tiled(<<>>, {})
<1>1. IsSeq(<<>>) /\ Len(<<>>) = 0 /\ 1..0 = {}
  BY DEF IsSeq
<1>. QED BY <1>1 DEF Laid, Gapped, Tiled

LEMMA LaidJoin ==
    ASSUME NEW rs, NEW qs, NEW S, NEW T, Laid(rs, S), Laid(qs, T), \A x \in S, y \in T : x < y
    PROVE  Laid(rs \o qs, S \union T)
<1>. DEFINE u == rs \o qs
<1>1. IsSeq(rs) /\ IsSeq(qs) /\ Len(rs) \in Nat /\ Len(qs) \in Nat
  BY SeqFacts DEF Laid
<1>2. /\ IsSeq(u) /\ Len(u) = Len(rs) + Len(qs)
      /\ \A i \in 1..Len(rs) : u[i] = rs[i]
      /\ \A i \in 1..Len(qs) : u[Len(rs) + i] = qs[i]
      /\ \A i \in 1..Len(u) : i \in 1..Len(rs) \/ (i - Len(rs) \in 1..Len(qs) /\ u[i] = qs[i - Len(rs)])
  BY ONLY <1>1, JoinFacts
<1>. HIDE DEF u
<1>3. \A i \in 1..Len(u) : IsRun(u[i])
  BY <1>2 DEF Laid
<1>4. ASSUME NEW i \in 1..Len(u), NEW j \in 1..Len(u), i < j PROVE RunEnd(u[i]) <= u[j].start
  <2>1. CASE i \in 1..Len(rs) /\ j \in 1..Len(rs)
    <3>1. u[i] = rs[i] /\ u[j] = rs[j] /\ RunEnd(rs[i]) <= rs[j].start
      BY <1>2, <1>4, <2>1 DEF Laid
    <3>. QED BY <3>1
  <2>2. CASE i \in 1..Len(rs) /\ j - Len(rs) \in 1..Len(qs) /\ u[j] = qs[j - Len(rs)]
    <3>1. Covers(u[i]) \subseteq S /\ Covers(u[j]) \subseteq T
      BY <1>2, <2>2, LaidFacts
    <3>2. RunEnd(u[i]) - 1 \in S /\ u[j].start \in T /\ RunEnd(u[i]) \in Nat /\ u[j].start \in Nat
      BY <1>3, <3>1, RunFacts DEF IsRun
    <3>3. RunEnd(u[i]) - 1 < u[j].start
      BY <3>2
    <3>. QED BY <3>2, <3>3
  <2>3. CASE /\ i - Len(rs) \in 1..Len(qs) /\ u[i] = qs[i - Len(rs)]
             /\ j - Len(rs) \in 1..Len(qs) /\ u[j] = qs[j - Len(rs)]
    <3>1. i - Len(rs) < j - Len(rs)
      BY <1>1, <1>2, <1>4
    <3>2. RunEnd(qs[i - Len(rs)]) <= qs[j - Len(rs)].start
      BY <2>3, <3>1 DEF Laid
    <3>. QED BY <2>3, <3>2
  <2>4. CASE ~(i \in 1..Len(rs)) /\ j \in 1..Len(rs)
    BY <1>1, <1>2, <1>4, <2>4
  <2>. QED BY <1>2, <2>1, <2>2, <2>3, <2>4
<1>5. S \union T = UNION {Covers(u[i]) : i \in 1..Len(u)}
  <2>1. ASSUME NEW x \in S \union T PROVE \E i \in 1..Len(u) : x \in Covers(u[i])
    <3>1. CASE x \in S
      <4>1. PICK i \in 1..Len(rs) : x \in Covers(rs[i])
        BY <3>1 DEF Laid
      <4>2. i \in 1..Len(u) /\ u[i] = rs[i]
        BY <1>1, <1>2, <4>1
      <4>. QED BY <4>1, <4>2
    <3>2. CASE x \in T
      <4>1. PICK i \in 1..Len(qs) : x \in Covers(qs[i])
        BY <3>2 DEF Laid
      <4>2. Len(rs) + i \in 1..Len(u) /\ u[Len(rs) + i] = qs[i]
        BY <1>1, <1>2, <4>1
      <4>. QED BY <4>1, <4>2
    <3>. QED BY <3>1, <3>2
  <2>2. ASSUME NEW i \in 1..Len(u) PROVE Covers(u[i]) \subseteq S \union T
    BY <1>2, LaidFacts
  <2>. QED BY <2>1, <2>2
<1>. QED BY <1>2, <1>3, <1>4, <1>5 DEF Laid, u

\* A run more, after a gap.
LEMMA GappedAppend ==
    ASSUME NEW rs, NEW S, NEW r, Gapped(rs, S), IsRun(r), \A x \in S : x + 1 < r.start
    PROVE  Gapped(Append(rs, r), S \union Covers(r))
<1>. DEFINE q == <<r>>
            u == Append(rs, r)
<1>0. IsSeq(q) /\ Len(q) = 1 /\ q[1] = r /\ 1..1 = {1}
  <2>1. q \in Seq({r}) /\ Len(q) = 1 /\ q[1] = r /\ 1..1 = {1}
    OBVIOUS
  <2>. HIDE DEF q
  <2>. QED BY <2>1 DEF IsSeq
<1>1. Laid(q, Covers(r))
  <2>. HIDE DEF q
  <2>. QED BY <1>0 DEF Laid
<1>2. Laid(rs, S) /\ IsSeq(rs) /\ Len(rs) \in Nat /\ S \in SUBSET Nat
  BY LaidFacts DEF Gapped, Laid
<1>3. u = rs \o q
  BY <1>2 DEF IsSeq
<1>4. \A x \in S, y \in Covers(r) : x < y
  <2>1. \A y \in Covers(r) : r.start <= y /\ y \in Nat
    BY RunFacts
  <2>2. r.start \in Nat
    BY DEF IsRun
  <2>. QED BY <1>2, <2>1, <2>2
<1>5. Laid(u, S \union Covers(r))
  <2>. HIDE DEF q, u
  <2>. QED BY ONLY <1>1, <1>2, <1>3, <1>4, LaidJoin
<1>6. DOMAIN rs = 1..Len(rs) /\ DOMAIN u = 1..(Len(rs) + 1) /\ u[Len(rs) + 1] = r /\ \A i \in DOMAIN rs : u[i] = rs[i]
  BY <1>2, AppendIsSeq
<1>7. Len(u) = Len(rs) + 1
  BY <1>2, <1>5, <1>6, SeqFacts DEF Laid
<1>. HIDE DEF u
<1>8. ASSUME NEW i \in 1..Len(u), NEW j \in 1..Len(u), i < j PROVE RunEnd(u[i]) < u[j].start
  <2>1. i \in 1..Len(rs) /\ u[i] = rs[i]
    BY <1>2, <1>6, <1>7, <1>8
  <2>2. CASE j \in 1..Len(rs)
    BY <1>6, <1>8, <2>1, <2>2 DEF Gapped
  <2>3. CASE j = Len(rs) + 1
    <3>1. RunEnd(rs[i]) - 1 \in S /\ RunEnd(rs[i]) \in Nat
      BY <1>2, <2>1, LaidFacts, RunFacts DEF Laid
    <3>2. RunEnd(rs[i]) - 1 + 1 < r.start
      BY <3>1
    <3>. QED BY <1>6, <2>1, <2>3, <3>1, <3>2
  <2>. QED BY <1>2, <1>7, <2>2, <2>3
<1>. QED BY <1>5, <1>8 DEF Gapped, u

LEMMA TiledJoin ==
    ASSUME NEW rs, NEW qs, NEW S, NEW T, Tiled(rs, S), Tiled(qs, T), \A x \in S, y \in T : x + 1 < y
    PROVE  Tiled(rs \o qs, S \union T)
<1>. DEFINE u == rs \o qs
<1>1. /\ Laid(rs, S) /\ Laid(qs, T) /\ IsSeq(rs) /\ IsSeq(qs) /\ Len(rs) \in Nat /\ Len(qs) \in Nat
      /\ S \in SUBSET Nat /\ T \in SUBSET Nat
  BY SeqFacts, LaidFacts DEF Tiled, Laid
<1>2. /\ Len(u) = Len(rs) + Len(qs)
      /\ \A i \in 1..Len(rs) : u[i] = rs[i]
      /\ \A i \in 1..Len(u) : i \in 1..Len(rs) \/ (i - Len(rs) \in 1..Len(qs) /\ u[i] = qs[i - Len(rs)])
  BY ONLY <1>1, JoinFacts
<1>3. Laid(u, S \union T)
  <2>1. \A x \in S, y \in T : x < y
    BY <1>1
  <2>. QED BY <1>1, <2>1, LaidJoin
<1>. HIDE DEF u
<1>4. \A i \in 1..Len(u) : u[i].count <= BatchSize
  BY <1>2 DEF Tiled
<1>5. ASSUME NEW i \in 1..Len(u), i > 1, u[i].start = RunEnd(u[i-1]) PROVE u[i-1].count = BatchSize
  <2>0. i - 1 \in 1..Len(u)
    BY <1>1, <1>2, <1>5
  <2>1. CASE i \in 1..Len(rs)
    <3>1. i - 1 \in 1..Len(rs)
      BY <1>1, <1>5, <2>1
    <3>2. u[i] = rs[i] /\ u[i-1] = rs[i-1]
      BY <1>2, <2>1, <3>1
    <3>. QED BY <1>5, <2>1, <3>2 DEF Tiled
  <2>2. CASE i = Len(rs) + 1
    <3>1. i - 1 \in 1..Len(rs) /\ 1 \in 1..Len(qs) /\ u[i-1] = rs[i-1] /\ u[i] = qs[1]
      BY <1>1, <1>2, <1>5, <2>2
    <3>2. RunEnd(u[i-1]) - 1 \in S /\ u[i].start \in T /\ RunEnd(u[i-1]) \in Nat /\ u[i].start \in Nat
      <4>1. IsRun(u[i-1]) /\ IsRun(u[i]) /\ Covers(u[i-1]) \subseteq S /\ Covers(u[i]) \subseteq T
        BY <1>1, <3>1, LaidFacts DEF Laid
      <4>. QED BY <4>1, RunFacts DEF IsRun
    <3>3. RunEnd(u[i-1]) - 1 + 1 < u[i].start
      BY <3>2
    <3>. QED BY <1>5, <3>2, <3>3
  <2>3. CASE i > Len(rs) + 1
    <3>. DEFINE j == i - Len(rs)
    <3>1. j \in 1..Len(qs) /\ j > 1 /\ u[i] = qs[j]
      BY <1>1, <1>2, <2>3
    <3>2. i - 1 - Len(rs) = j - 1 /\ u[i-1] = qs[j-1]
      <4>1. ~(i - 1 \in 1..Len(rs)) /\ i - 1 - Len(rs) = j - 1
        BY <1>1, <1>2, <2>3
      <4>2. u[i-1] = qs[i - 1 - Len(rs)]
        BY <1>2, <2>0, <4>1
      <4>. QED BY <4>1, <4>2
    <3>. QED BY <1>5, <3>1, <3>2 DEF Tiled
  <2>. QED BY <1>1, <1>2, <2>1, <2>2, <2>3
<1>. QED BY <1>3, <1>4, <1>5 DEF Tiled, u

FarApart(T, n) == \A i, j \in 1..n : i < j => \A x \in T[i], y \in T[j] : x + 1 < y

LEMMA FlattenedTiled ==
    ASSUME NEW n, NEW ss, Pieces(ss, n), NEW T, FarApart(T, n),
           \A i \in 1..n : Tiled(ss[i], T[i])
    PROVE  Tiled(FlattenSeq(ss), UpTo(T, n))
<1>0. n \in Nat
  BY DEF Pieces
<1>1. PICK f : Glued(f, ss, n) /\ FlattenSeq(ss) = f[n]
  BY Flattened
<1>2. f[0] = <<>> /\ \A i \in 1..n : f[i] = f[i-1] \o ss[i]
  BY <1>1 DEF Glued
<1>. DEFINE Off == {k \in 0..n : ~Tiled(f[k], UpTo(T, k))}
<1>. SUFFICES ASSUME Off # {} PROVE FALSE
  BY <1>0, <1>1
<1>3. PICK k \in Off : \A y \in Off : k <= y
  <2>1. Off \in SUBSET Nat
    OBVIOUS
  <2>. QED BY <2>1, Least
<1>4. k # 0
  <2>1. 1..0 = {}
    OBVIOUS
  <2>2. UpTo(T, 0) = {}
    BY <2>1 DEF UpTo
  <2>. QED BY <1>2, <1>3, <2>2, NothingLaid
<1>5. k \in 1..n /\ k - 1 \in 0..n /\ k - 1 \notin Off
  BY <1>0, <1>3, <1>4
<1>6. Tiled(f[k-1], UpTo(T, k - 1)) /\ Tiled(ss[k], T[k]) /\ f[k] = f[k-1] \o ss[k]
  BY <1>2, <1>5
<1>7. UpTo(T, k) = UpTo(T, k - 1) \union T[k]
  <2>1. 1..k = 1..k-1 \union {k}
    BY <1>5
  <2>. QED BY <2>1 DEF UpTo
<1>8. \A x \in UpTo(T, k - 1), y \in T[k] : x + 1 < y
  <2>1. \A i \in 1..k-1 : i \in 1..n /\ i < k
    BY <1>0, <1>5
  <2>. QED BY <1>5, <2>1 DEF UpTo, FarApart
<1>9. Tiled(f[k-1] \o ss[k], UpTo(T, k - 1) \union T[k])
  BY ONLY <1>6, <1>8, TiledJoin
<1>. QED BY <1>3, <1>6, <1>7, <1>9

---------------------------------------------------------------------------
(* The batches of a run. *)

LEMMA MinOfTwo ==
    ASSUME NEW a \in Int, NEW b \in Int
    PROVE  Min({a, b}) = IF a <= b THEN a ELSE b
<1>. DEFINE m == IF a <= b THEN a ELSE b
            Least2(x) == \A y \in {a, b} : x <= y
<1>1. m \in {a, b} /\ Least2(m)
  OBVIOUS
<1>2. Min({a, b}) \in {a, b} /\ Least2(Min({a, b}))
  <2>1. Min({a, b}) = CHOOSE x \in {a, b} : Least2(x)
    BY DEF Min
  <2>. HIDE DEF Least2, m
  <2>. QED BY <1>1, <2>1
<1>. QED BY <1>2

Times(x, b) == x * b

\* What multiplying by a size keeps.
LEMMA TimesFacts ==
    ASSUME NEW b \in Nat
    PROVE  /\ \A x \in Nat : Times(x, b) \in Nat
           /\ \A x \in Nat, y \in Nat : Times(x + y, b) = Times(x, b) + Times(y, b)
           /\ \A x \in Nat, y \in Nat : x <= y => Times(x, b) <= Times(y, b)
<1>1. \A x \in Nat : x * b \in Nat
  OBVIOUS
<1>2. \A x \in Nat, y \in Nat : (x + y) * b = x * b + y * b
  OBVIOUS
<1>3. ASSUME NEW x \in Nat, NEW y \in Nat, x <= y PROVE x * b <= y * b
  <2>1. y - x \in Nat /\ y = x + (y - x)
    BY <1>3
  <2>2. y * b = x * b + (y - x) * b /\ (y - x) * b \in Nat /\ x * b \in Nat
    BY <1>1, <1>2, <2>1
  <2>. QED BY <2>2
<1>. QED BY <1>1, <1>2, <1>3 DEF Times

LEMMA TimesStep ==
    ASSUME NEW b \in Nat, NEW m \in Nat \ {0}
    PROVE  Times(m, b) = Times(m - 1, b) + b /\ Times(m - 1, b) \in Nat /\ Times(m, b) \in Nat
<1>1. (m - 1) * b = m * b - b /\ m * b \in Nat
  OBVIOUS
<1>2. (m - 1) * b \in Nat
  OBVIOUS
<1>. QED BY <1>1, <1>2 DEF Times

\* Where a number lies among multiples.
LEMMA Divided ==
    ASSUME NEW x \in Nat, NEW b \in Nat \ {0}
    PROVE  /\ x \div b \in Nat /\ x % b \in Nat /\ x % b < b
           /\ x = Times(x \div b, b) + (x % b)
           /\ \A n \in Nat : x < Times(n, b) => x \div b < n
<1>. DEFINE q == x \div b
            r == x % b
<1>1. q \in Nat /\ r \in Nat /\ r < b /\ x = q * b + r
  OBVIOUS
<1>. HIDE DEF q, r
<1>2. ASSUME NEW n \in Nat, x < n * b PROVE q < n
  <2>. SUFFICES ASSUME n <= q PROVE FALSE
    BY <1>1
  <2>1. n * b <= q * b
    BY <1>1, TimesFacts DEF Times
  <2>2. n * b \in Nat /\ q * b \in Nat
    BY <1>1
  <2>. HIDE DEF Times
  <2>. QED BY <1>1, <1>2, <2>1, <2>2
<1>3. x = Times(q, b) + r /\ \A n \in Nat : x < Times(n, b) => q < n
  BY <1>1, <1>2 DEF Times
<1>. HIDE DEF Times
<1>. QED BY ONLY <1>1, <1>3, Zenon DEF q, r

\* Laid runs list their blocks in order, and count them.
LEMMA LaidEnumerates ==
    ASSUME NEW rs, NEW S, Laid(rs, S)
    PROVE  LET blocks == FlattenSeq([i \in 1..Len(rs) |-> BlocksIn(rs[i])])
           IN  Enumerates(blocks, S) /\ FreeBlockCount(rs) = Len(blocks)
<1>. DEFINE n  == Len(rs)
            ss == [i \in 1..n |-> BlocksIn(rs[i])]
            T  == [i \in 1..n |-> Covers(rs[i])]
<1>1. n \in Nat /\ DOMAIN rs = 1..n /\ \A i \in 1..n : IsRun(rs[i])
  BY SeqFacts DEF Laid
<1>2. \A i \in 1..n : ss[i] = BlocksIn(rs[i]) /\ T[i] = Covers(rs[i])
  OBVIOUS
<1>3. ss = [i \in 1..n |-> ss[i]] /\ DOMAIN ss = 1..n
  OBVIOUS
<1>4. T \in [1..n -> SUBSET Nat]
  BY <1>1, RunFacts
<1>5. UpTo(T, n) = S
  BY <1>2 DEF UpTo, Laid
<1>6. Apart(T, n)
  <2>. SUFFICES ASSUME NEW i \in 1..n, NEW j \in 1..n, i < j, NEW x \in Covers(rs[i]), NEW y \in Covers(rs[j])
                PROVE  x < y
    BY <1>2 DEF Apart
  <2>1. RunEnd(rs[i]) <= rs[j].start
    BY DEF Laid
  <2>2. x < RunEnd(rs[i]) /\ rs[j].start <= y /\ x \in Nat /\ y \in Nat /\ RunEnd(rs[i]) \in Nat
    BY <1>1, RunFacts
  <2>3. rs[j].start \in Nat
    BY <1>1 DEF IsRun
  <2>. QED BY <2>1, <2>2, <2>3
<1>. HIDE DEF n, ss, T
<1>7. ASSUME NEW i \in 1..n
      PROVE  Enumerates(ss[i], T[i]) /\ IsSeq(ss[i]) /\ Len(ss[i]) = rs[i].count
  <2>. DEFINE r == rs[i]
              b == BlocksIn(r)
  <2>1. r.start \in Nat /\ r.count \in Nat
    BY <1>1 DEF IsRun
  <2>2. b = [k \in 1..r.count |-> r.start + k - 1]
    BY DEF BlocksIn
  <2>. HIDE DEF b, r
  <2>3. IsSeq(b) /\ Len(b) = r.count
    <3>1. b = [k \in 1..r.count |-> b[k]]
      BY <2>2
    <3>. QED BY ONLY <2>1, <3>1, MakesSeq
  <2>4. Enumerates(b, Covers(r))
    <3>1. \A k \in 1..r.count : b[k] = r.start + k - 1
      BY <2>2
    <3>2. \A x \in Covers(r) : x - r.start + 1 \in 1..r.count /\ b[x - r.start + 1] = x
      BY <2>1, <3>1 DEF Covers
    <3>3. \A k \in 1..r.count : b[k] \in Covers(r)
      BY <2>1, <3>1 DEF Covers
    <3>4. \A k, l \in 1..r.count : k < l => b[k] < b[l]
      BY <2>1, <3>1
    <3>. QED BY <2>3, <3>2, <3>3, <3>4 DEF Enumerates
  <2>. QED BY <1>2, <2>3, <2>4 DEF r, b
<1>8. Pieces(ss, n)
  <2>1. Len(ss) = n
    BY ONLY <1>1, <1>3, MakesSeq
  <2>. QED BY <1>1, <1>3, <1>7, <2>1 DEF Pieces
<1>9. Enumerates(FlattenSeq(ss), S)
  <2>1. Enumerates(FlattenSeq(ss), UpTo(T, n))
    BY <1>4, <1>6, <1>7, <1>8, FlattenedEnumerates
  <2>. QED BY <1>5, <2>1
<1>10. FreeBlockCount(rs) = Len(FlattenSeq(ss))
  <2>1. PICK f : Glued(f, ss, n) /\ FlattenSeq(ss) = f[n]
    BY <1>8, Flattened
  <2>2. \A i \in 1..n : Len(f[i]) = Len(f[i-1]) + rs[i].count
    <3>1. n \in Nat /\ \A i \in 1..n : IsSeq(ss[i])
      BY <1>1, <1>7
    <3>2. \A i \in 1..n : Len(f[i]) = Len(f[i-1]) + Len(ss[i])
      BY ONLY <2>1, <3>1, GluedIsSeq
    <3>. QED BY <1>7, <3>2
  <2>3. f[0] = <<>> /\ Len(<<>>) = 0
    BY <2>1 DEF Glued
  <2>. DEFINE F(g) == [i \in 0..n |-> IF i = 0 THEN 0 ELSE g[i-1] + rs[i].count]
              len  == [i \in 0..n |-> Len(f[i])]
              sum  == CHOOSE g : g = F(g)
  <2>4. len = F(len)
    <3>1. \A i \in 0..n : len[i] = IF i = 0 THEN 0 ELSE len[i-1] + rs[i].count
      <4>. SUFFICES ASSUME NEW i \in 0..n PROVE len[i] = IF i = 0 THEN 0 ELSE len[i-1] + rs[i].count
        OBVIOUS
      <4>1. CASE i = 0
        BY <2>3, <4>1
      <4>2. CASE i # 0
        <5>1. i \in 1..n /\ i - 1 \in 0..n
          BY <1>1, <4>2
        <5>2. len[i] = Len(f[i]) /\ len[i-1] = Len(f[i-1])
          BY <5>1
        <5>. QED BY <2>2, <4>2, <5>1, <5>2
      <4>. QED BY <4>1, <4>2
    <3>2. len = [i \in 0..n |-> len[i]]
      OBVIOUS
    <3>. HIDE DEF len
    <3>. QED BY <3>1, <3>2
  <2>5. sum = F(sum)
    <3>. HIDE DEF F, len
    <3>. QED BY <2>4
  <2>6. len[0] = 0 /\ sum[0] = 0
    <3>. HIDE DEF len, sum
    <3>. QED BY <1>1, <2>4, <2>5
  <2>7. \A i \in 1..n : len[i] = len[i-1] + rs[i].count /\ sum[i] = sum[i-1] + rs[i].count
    <3>. HIDE DEF len, sum
    <3>. QED BY <1>1, <2>4, <2>5
  <2>8. sum[n] = len[n]
    <3>. HIDE DEF F, len, sum
    <3>. DEFINE Off == {i \in 0..n : sum[i] # len[i]}
    <3>. SUFFICES ASSUME Off # {} PROVE FALSE
      BY <1>1
    <3>1. PICK k \in Off : \A y \in Off : k <= y
      <4>1. Off \in SUBSET Nat
        OBVIOUS
      <4>. QED BY <4>1, Least
    <3>2. k \in 1..n /\ k - 1 \in 0..n /\ k - 1 \notin Off
      BY <1>1, <2>6, <3>1
    <3>. QED BY <2>7, <3>1, <3>2
  <2>9. FreeBlockCount(rs) = sum[n]
    BY DEF FreeBlockCount, n
  <2>10. len[n] = Len(f[n])
    BY <1>1
  <2>. QED BY <2>1, <2>8, <2>9, <2>10
<1>. QED BY <1>9, <1>10 DEF ss, n

LEMMA BatchesTiled ==
    ASSUME NEW r, IsRun(r) PROVE Tiled(Batches(r), Covers(r))
<1>. DEFINE B == BatchSize
            c == r.count
            n == (c + B - 1) \div B
            at(i) == Times(i - 1, B)
            bs == Batches(r)
<1>1. B \in Nat \ {0} /\ c \in Nat \ {0} /\ r.start \in Nat
  BY BitmapAssumption DEF IsRun
<1>2. bs = [i \in 1..n |-> [start |-> r.start + at(i), count |-> BatchLength(r, at(i))]]
  BY DEF Batches, Times
<1>. HIDE DEF bs
<1>3. n \in Nat \ {0} /\ c <= Times(n, B) /\ at(n) < c /\ Times(n, B) = at(n) + B
  <2>1. c + B - 1 \in Nat
    BY <1>1
  <2>2. PICK x : x = c + B - 1
    OBVIOUS
  <2>3. n \in Nat /\ x % B \in Nat /\ x % B < B /\ x = Times(n, B) + (x % B)
    BY <1>1, <2>1, <2>2, Divided
  <2>4. PICK m : m = n
    OBVIOUS
  <2>5. PICK y : y = x % B
    OBVIOUS
  <2>6. m \in Nat /\ y \in Nat /\ y < B /\ x = Times(m, B) + y /\ Times(m, B) \in Nat
    BY <1>1, <2>3, <2>4, <2>5, TimesFacts
  <2>7. m # 0
    <3>. SUFFICES ASSUME m = 0 PROVE FALSE
      OBVIOUS
    <3>1. Times(m, B) = 0
      BY <1>1 DEF Times
    <3>. HIDE DEF B, c
    <3>. QED BY <1>1, <2>2, <2>6, <3>1
  <2>9. Times(m, B) = Times(m - 1, B) + B /\ Times(m - 1, B) \in Nat
    <3>1. m \in Nat \ {0} /\ B \in Nat
      BY <1>1, <2>6, <2>7
    <3>. QED BY ONLY <3>1, TimesStep
  <2>11. c <= Times(m, B) /\ Times(m - 1, B) < c /\ Times(m, B) = Times(m - 1, B) + B
    <3>. HIDE DEF B, c
    <3>. QED BY <1>1, <2>2, <2>6, <2>9
  <2>. QED BY <2>4, <2>6, <2>7, <2>11
<1>. HIDE DEF B, n, c
<1>4. ASSUME NEW i \in 1..n
      PROVE  /\ at(i) \in Nat /\ at(i) < c /\ Times(i, B) = at(i) + B
             /\ bs[i].start = r.start + at(i)
             /\ bs[i].count = IF B <= c - at(i) THEN B ELSE c - at(i)
  <2>1. i - 1 \in Nat /\ n - 1 \in Nat /\ i - 1 <= n - 1 /\ i \in Nat \ {0} /\ n \in Nat \ {0} /\ B \in Nat
    BY <1>1, <1>3
  <2>2. at(i) \in Nat /\ Times(i, B) = at(i) + B
    BY ONLY <2>1, TimesStep
  <2>3. at(n) \in Nat /\ at(i) <= at(n)
    BY ONLY <2>1, TimesFacts
  <2>4. at(i) < c
    <3>. HIDE DEF at
    <3>. QED BY <1>1, <1>3, <2>2, <2>3
  <2>5. bs[i] = [start |-> r.start + at(i), count |-> BatchLength(r, at(i))]
    <3>. HIDE DEF at
    <3>. QED BY <1>2
  <2>. HIDE DEF at
  <2>6. c - at(i) \in Int /\ B \in Int
    BY <1>1, <2>2
  <2>7. BatchLength(r, at(i)) = IF B <= c - at(i) THEN B ELSE c - at(i)
    <3>1. BatchLength(r, at(i)) = Min({B, c - at(i)})
      BY DEF BatchLength, B, c
    <3>. QED BY <2>6, <3>1, MinOfTwo
  <2>. QED BY <2>2, <2>4, <2>5, <2>7
<1>5. ASSUME NEW i \in 1..n, NEW j \in 1..n, i < j PROVE at(i) + B <= at(j)
  <2>1. i \in Nat /\ j - 1 \in Nat /\ i <= j - 1 /\ B \in Nat
    BY <1>1, <1>3, <1>5
  <2>2. Times(i, B) <= Times(j - 1, B)
    BY <2>1, TimesFacts
  <2>. QED BY <1>4, <2>2
<1>6. ASSUME NEW y \in Nat, y < c PROVE \E i \in 1..n : at(i) <= y /\ y < at(i) + B
  <2>1. PICK q : q = y \div B
    OBVIOUS
  <2>2. PICK m : m = y % B
    OBVIOUS
  <2>3. y < Times(n, B) /\ n \in Nat
    <3>1. Times(n, B) \in Nat
      BY <1>1, <1>3, TimesFacts
    <3>. QED BY <1>1, <1>3, <1>6, <3>1
  <2>4. q \in Nat /\ m \in Nat /\ m < B /\ y = Times(q, B) + m /\ q < n /\ Times(q, B) \in Nat
    BY <1>1, <2>1, <2>2, <2>3, Divided, TimesFacts
  <2>5. q + 1 \in 1..n /\ at(q + 1) = Times(q, B)
    BY <1>3, <2>4
  <2>6. Times(q, B) <= y /\ y < Times(q, B) + B
    BY <1>1, <2>4
  <2>. QED BY <2>5, <2>6
<1>. HIDE DEF at
<1>7. IsSeq(bs) /\ Len(bs) = n
  <2>1. bs = [i \in 1..n |-> bs[i]] /\ n \in Nat
    BY <1>2, <1>3
  <2>. QED BY ONLY <2>1, MakesSeq
<1>8. ASSUME NEW i \in 1..n
      PROVE  IsRun(bs[i]) /\ bs[i].count <= B /\ RunEnd(bs[i]) <= r.start + c /\ RunEnd(bs[i]) <= r.start + at(i) + B
  BY <1>1, <1>4 DEF IsRun, RunEnd
<1>9. ASSUME NEW i \in 1..n, NEW j \in 1..n, i < j
      PROVE  RunEnd(bs[i]) <= bs[j].start /\ bs[i].count = B
  BY <1>1, <1>4, <1>5, <1>9 DEF RunEnd
<1>10. Covers(r) = UNION {Covers(bs[i]) : i \in 1..n}
  <2>1. ASSUME NEW x \in Covers(r) PROVE \E i \in 1..n : x \in Covers(bs[i])
    <3>1. x - r.start \in Nat /\ x - r.start < c /\ x \in Nat
      BY <1>1 DEF Covers, c
    <3>2. PICK i \in 1..n : at(i) <= x - r.start /\ x - r.start < at(i) + B
      BY <1>6, <3>1
    <3>3. x \in Covers(bs[i])
      BY <1>1, <1>4, <3>1, <3>2 DEF Covers
    <3>. QED BY <3>3
  <2>2. ASSUME NEW i \in 1..n, NEW x \in Covers(bs[i]) PROVE x \in Covers(r)
    <3>1. x \in Nat /\ bs[i].start <= x /\ x < RunEnd(bs[i]) /\ RunEnd(bs[i]) \in Nat
      BY <1>8, RunFacts
    <3>2. r.start <= bs[i].start /\ RunEnd(bs[i]) <= r.start + c
      BY <1>1, <1>4, <1>8
    <3>3. bs[i].start \in Nat
      BY <1>8 DEF IsRun
    <3>4. r.start <= x /\ x <= r.start + c - 1
      BY <1>1, <3>1, <3>2, <3>3
    <3>. QED BY <1>1, <3>1, <3>4 DEF Covers, c
  <2>. QED BY <2>1, <2>2
<1>11. Laid(bs, Covers(r))
  BY <1>7, <1>8, <1>9, <1>10 DEF Laid
<1>12. ASSUME NEW i \in 1..n, i > 1 PROVE bs[i-1].count = B
  <2>1. i - 1 \in 1..n /\ i - 1 < i
    BY <1>3, <1>12
  <2>. QED BY <1>9, <2>1
<1>. QED BY <1>7, <1>8, <1>11, <1>12 DEF Tiled, bs, B

\* splitBlockRuns: the batches of runs that have gaps between them.
LEMMA SplitTiles ==
    ASSUME NEW runs, NEW S, Gapped(runs, S)
    PROVE  Tiled(SplitBlockRuns(runs), S)
<1>. DEFINE n  == Len(runs)
            ss == [i \in 1..n |-> Batches(runs[i])]
            T  == [i \in 1..n |-> Covers(runs[i])]
<1>1. n \in Nat /\ DOMAIN runs = 1..n /\ \A i \in 1..n : IsRun(runs[i])
  BY SeqFacts DEF Gapped, Laid
<1>2. /\ \A i \in 1..n : ss[i] = Batches(runs[i]) /\ T[i] = Covers(runs[i])
      /\ ss = [i \in 1..n |-> ss[i]] /\ DOMAIN ss = 1..n
  OBVIOUS
<1>3. SplitBlockRuns(runs) = FlattenSeq(ss)
  BY <1>1 DEF SplitBlockRuns
<1>. HIDE DEF ss, T
<1>4. \A i \in 1..n : Tiled(ss[i], T[i])
  BY <1>1, <1>2, BatchesTiled
<1>5. Pieces(ss, n)
  <2>1. Len(ss) = n
    BY ONLY <1>1, <1>2, MakesSeq
  <2>. QED BY <1>1, <1>2, <1>4, <2>1 DEF Pieces, Tiled, Laid
<1>6. FarApart(T, n)
  <2>. SUFFICES ASSUME NEW i \in 1..n, NEW j \in 1..n, i < j, NEW x \in Covers(runs[i]), NEW y \in Covers(runs[j])
                PROVE  x + 1 < y
    BY <1>2 DEF FarApart
  <2>1. RunEnd(runs[i]) < runs[j].start
    BY DEF Gapped
  <2>2. x < RunEnd(runs[i]) /\ runs[j].start <= y /\ x \in Nat /\ y \in Nat /\ RunEnd(runs[i]) \in Nat
    BY <1>1, RunFacts
  <2>3. runs[j].start \in Nat
    BY <1>1 DEF IsRun
  <2>. QED BY <2>1, <2>2, <2>3
<1>7. UpTo(T, n) = S
  BY <1>2 DEF UpTo, Gapped, Laid
<1>8. Tiled(FlattenSeq(ss), UpTo(T, n))
  BY ONLY <1>4, <1>5, <1>6, FlattenedTiled
<1>. QED BY <1>3, <1>7, <1>8

---------------------------------------------------------------------------
(* The walk of the bitmap. *)

\* What a recursive definition with these steps defines.
Unfolds(f, n, base, step) == f[0] = base /\ \A i \in 1..n : f[i] = step[i][f[i-1]]

\* There is such a function.
LEMMA RecursionExists ==
    ASSUME NEW n \in Nat, NEW S, NEW base \in S, NEW step \in [1..n -> [S -> S]]
    PROVE  \E f \in [0..n -> S] : Unfolds(f, n, base, step)
<1>. DEFINE Good(k) == \E f \in [0..k -> S] : Unfolds(f, k, base, step)
            T == {k \in 0..n : ~Good(k)}
<1>. SUFFICES ASSUME T # {} PROVE FALSE
  <2>. HIDE DEF Good
  <2>1. n \in 0..n /\ n \notin T => Good(n)
    OBVIOUS
  <2>. QED BY <2>1 DEF Good
<1>1. PICK k \in T : \A y \in T : k <= y
  <2>. HIDE DEF Good
  <2>1. T \in SUBSET Nat
    OBVIOUS
  <2>. QED BY <2>1, Least
<1>2. k # 0
  <2>1. [i \in 0..0 |-> base] \in [0..0 -> S] /\ Unfolds([i \in 0..0 |-> base], 0, base, step)
    BY DEF Unfolds
  <2>2. Good(0)
    BY <2>1
  <2>. HIDE DEF Good
  <2>. QED BY <1>1, <2>2
<1>3. k \in 1..n /\ Good(k - 1)
  <2>. HIDE DEF Good
  <2>1. k \in 0..n /\ k - 1 \in 0..n
    BY <1>1, <1>2
  <2>2. k - 1 \notin T
    BY <1>1, <2>1
  <2>. QED BY <1>2, <2>1, <2>2
<1>4. PICK f \in [0..(k-1) -> S] : Unfolds(f, k - 1, base, step)
  BY <1>3
<1>. DEFINE x == step[k][f[k-1]]
            g == [i \in 0..k |-> IF i = k THEN x ELSE f[i]]
<1>5. f[k-1] \in S /\ x \in S
  <2>1. f[k-1] \in S
    BY <1>3
  <2>. QED BY <1>3, <2>1
<1>6. g \in [0..k -> S]
  BY <1>3, <1>5
<1>7. Unfolds(g, k, base, step)
  <2>1. g[0] = base
    BY <1>3, <1>4 DEF Unfolds
  <2>2. ASSUME NEW i \in 1..k PROVE g[i] = step[i][g[i-1]]
    <3>1. CASE i = k
      <4>1. g[i-1] = f[k-1]
        BY <1>3, <3>1
      <4>. QED BY <1>3, <3>1, <4>1
    <3>2. CASE i # k
      <4>1. i \in 1..k-1 /\ g[i] = f[i] /\ g[i-1] = f[i-1]
        BY <1>3, <3>2
      <4>. QED BY <1>4, <4>1 DEF Unfolds
    <3>. QED BY <3>1, <3>2
  <2>. QED BY <2>1, <2>2 DEF Unfolds
<1>8. Good(k)
  BY <1>6, <1>7
<1>. HIDE DEF Good
<1>. QED BY <1>1, <1>8


FreeOf(b) == {x \in 0 .. b.total - 1 : x \notin b.used}

Lim(b, m) == IF m < b.total THEN m ELSE b.total

Walks == [runs : Seq([start : Nat, count : Nat]), start : Nat, len : Nat]

\* The runs found among the blocks below m, and the run under way, which starts
\* where one does and goes on to m.
Behind(b, w, m) == {x \in FreeOf(b) : x < m /\ (w.len > 0 => x < w.start)}

WalkAt(b, w, m) ==
    /\ w \in Walks /\ Gapped(w.runs, Behind(b, w, m))
    /\ w.len > 0 => /\ w.start + w.len = Lim(b, m) /\ w.start .. Lim(b, m) - 1 \subseteq FreeOf(b)
                    /\ w.start - 1 \notin FreeOf(b)
    /\ w.len = 0 => m - 1 \notin FreeOf(b)

LEMMA WalkTypes ==
    ASSUME NEW w \in Walks
    PROVE  w.start \in Nat /\ w.len \in Nat /\ w.runs \in Seq([start : Nat, count : Nat])
BY DEF Walks

\* What ending a run and going on with one make of a walk.
LEMMA WalkMoves ==
    ASSUME NEW w \in Walks, NEW m \in Nat
    PROVE  /\ w.len = 0 => Flush(w) = w
           /\ w.len # 0 => /\ Flush(w).runs = Append(w.runs, [start |-> w.start, count |-> w.len])
                           /\ Flush(w).len = 0
           /\ Free(w, m).runs = w.runs /\ Free(w, m).len = w.len + 1
           /\ Free(w, m).start = IF w.len = 0 THEN m ELSE w.start
           /\ Flush(w) \in Walks /\ Free(w, m) \in Walks
<1>. DEFINE runs == Append(w.runs, [start |-> w.start, count |-> w.len])
            start == IF w.len = 0 THEN m ELSE w.start
            len == w.len + 1
<1>1. runs \in Seq([start : Nat, count : Nat]) /\ start \in Nat /\ len \in Nat
  BY WalkTypes
<1>2. /\ Flush(w) = IF w.len = 0 THEN w ELSE [w EXCEPT !.runs = runs, !.len = 0]
      /\ Free(w, m) = [w EXCEPT !.start = start, !.len = len]
  BY DEF Flush, Free
<1>. HIDE DEF runs, start, len
<1>3. [w EXCEPT !.runs = runs, !.len = 0] \in Walks /\ [w EXCEPT !.start = start, !.len = len] \in Walks
  BY <1>1 DEF Walks
<1>4. /\ [w EXCEPT !.runs = runs, !.len = 0].runs = runs /\ [w EXCEPT !.runs = runs, !.len = 0].len = 0
      /\ [w EXCEPT !.start = start, !.len = len].start = start
      /\ [w EXCEPT !.start = start, !.len = len].len = len
      /\ [w EXCEPT !.start = start, !.len = len].runs = w.runs
  BY DEF Walks
<1>. QED BY <1>2, <1>3, <1>4 DEF runs, start, len

LEMMA FlushFacts ==
    ASSUME NEW b, b.total \in Nat, NEW m \in Nat, NEW w, WalkAt(b, w, m)
    PROVE  Flush(w) \in Walks /\ Flush(w).len = 0 /\ Gapped(Flush(w).runs, {x \in FreeOf(b) : x < m})
<1>1. w \in Walks /\ w.start \in Nat /\ w.len \in Nat /\ w.runs \in Seq([start : Nat, count : Nat])
  BY WalkTypes DEF WalkAt
<1>2. CASE w.len = 0
  <2>1. Flush(w) = w /\ Behind(b, w, m) = {x \in FreeOf(b) : x < m}
    BY <1>2 DEF Flush, Behind
  <2>. QED BY <1>1, <1>2, <2>1 DEF WalkAt
<1>3. CASE w.len # 0
  <2>. DEFINE r == [start |-> w.start, count |-> w.len]
              S == Behind(b, w, m)
  <2>1. Flush(w).runs = Append(w.runs, r) /\ Flush(w).len = 0 /\ Flush(w) \in Walks
    <3>1. m \in Nat /\ w \in Walks
      BY <1>1
    <3>. QED BY <1>3, <3>1, WalkMoves
  <2>2. r \in [start : Nat, count : Nat] /\ IsRun(r) /\ r.start = w.start /\ r.count = w.len
    BY <1>1, <1>3 DEF IsRun
  <2>. HIDE DEF r
  <2>5. /\ w.start + w.len = Lim(b, m) /\ w.start .. Lim(b, m) - 1 \subseteq FreeOf(b)
        /\ w.start - 1 \notin FreeOf(b) /\ Gapped(w.runs, S)
    BY <1>1, <1>3 DEF WalkAt
  <2>6. FreeOf(b) \in SUBSET Nat /\ \A x \in FreeOf(b) : x < b.total
    BY DEF FreeOf
  <2>7. \A x \in S : x + 1 < r.start
    <3>. SUFFICES ASSUME NEW x \in S PROVE x + 1 < w.start
      BY <2>2
    <3>1. x < w.start /\ x \in FreeOf(b) /\ x \in Nat
      BY <1>1, <1>3, <2>6 DEF Behind
    <3>2. x # w.start - 1
      BY <2>5, <3>1
    <3>. QED BY <1>1, <3>1, <3>2
  <2>8. Covers(r) = w.start .. Lim(b, m) - 1
    BY <2>2, <2>5 DEF Covers
  <2>9. S \union Covers(r) = {x \in FreeOf(b) : x < m}
    <3>1. ASSUME NEW x \in FreeOf(b), x < m PROVE x \in S \/ x \in w.start .. Lim(b, m) - 1
      <4>1. x \in Nat /\ x < b.total
        BY <2>6
      <4>2. x < Lim(b, m) /\ Lim(b, m) \in Nat
        BY <3>1, <4>1 DEF Lim
      <4>. QED BY <1>1, <1>3, <3>1, <4>1, <4>2 DEF Behind
    <3>2. ASSUME NEW x \in w.start .. Lim(b, m) - 1 PROVE x \in FreeOf(b) /\ x < m
      <4>1. Lim(b, m) \in Nat /\ Lim(b, m) <= m
        BY DEF Lim
      <4>2. x < m
        BY <1>1, <4>1
      <4>. QED BY <2>5, <4>2
    <3>3. S \subseteq {x \in FreeOf(b) : x < m}
      BY DEF Behind
    <3>. HIDE DEF S
    <3>. QED BY <2>8, <3>1, <3>2, <3>3
  <2>10. Gapped(Append(w.runs, r), S \union Covers(r))
    <3>. HIDE DEF S
    <3>. QED BY <2>2, <2>5, <2>7, GappedAppend
  <2>. QED BY <2>1, <2>9, <2>10
<1>. QED BY <1>2, <1>3

\* When nothing up to the next place is free.
LEMMA FlushStep ==
    ASSUME NEW b, b.total \in Nat, NEW m \in Nat, NEW w, WalkAt(b, w, m),
           NEW k \in Nat, m <= k, \A x \in FreeOf(b) : x < k => x < m, k - 1 \notin FreeOf(b)
    PROVE  WalkAt(b, Flush(w), k)
<1>1. Flush(w) \in Walks /\ Flush(w).len = 0 /\ Gapped(Flush(w).runs, {x \in FreeOf(b) : x < m})
  BY FlushFacts
<1>2. FreeOf(b) \in SUBSET Nat
  BY DEF FreeOf
<1>3. Behind(b, Flush(w), k) = {x \in FreeOf(b) : x < m}
  BY <1>1, <1>2 DEF Behind
<1>. QED BY <1>1, <1>3 DEF WalkAt

LEMMA BitStep ==
    ASSUME NEW b, b.total \in Nat, NEW m \in Nat, NEW w, WalkAt(b, w, m)
    PROVE  WalkAt(b, Bit(b, w, m), m + 1)
<1>1. w \in Walks /\ w.start \in Nat /\ w.len \in Nat /\ w.runs \in Seq([start : Nat, count : Nat])
  BY WalkTypes DEF WalkAt
<1>2. FreeOf(b) \in SUBSET Nat /\ \A x \in FreeOf(b) : x < b.total
  BY DEF FreeOf
<1>3. CASE m >= b.total
  <2>1. Bit(b, w, m) = w
    BY <1>3 DEF Bit
  <2>2. Lim(b, m + 1) = Lim(b, m) /\ m \notin FreeOf(b)
    BY <1>2, <1>3 DEF Lim
  <2>3. Behind(b, w, m + 1) = Behind(b, w, m)
    BY <1>2, <1>3 DEF Behind
  <2>4. m + 1 - 1 = m
    OBVIOUS
  <2>. QED BY <2>1, <2>2, <2>3, <2>4 DEF WalkAt
<1>4. CASE m < b.total /\ m \in b.used
  <2>1. Bit(b, w, m) = Flush(w)
    BY <1>4 DEF Bit
  <2>2. m \notin FreeOf(b) /\ m + 1 - 1 = m
    BY <1>4 DEF FreeOf
  <2>3. \A x \in FreeOf(b) : x < m + 1 => x < m
    BY <1>2, <2>2
  <2>4. m + 1 \in Nat /\ m <= m + 1 /\ m + 1 - 1 \notin FreeOf(b)
    BY <2>2
  <2>5. WalkAt(b, Flush(w), m + 1)
    BY <2>3, <2>4, FlushStep
  <2>. QED BY <2>1, <2>5
<1>5. CASE m < b.total /\ m \notin b.used
  <2>. DEFINE v == Free(w, m)
  <2>1. Bit(b, w, m) = v
    BY <1>5 DEF Bit
  <2>2. /\ v.runs = w.runs /\ v.len = w.len + 1 /\ v.start = IF w.len = 0 THEN m ELSE w.start
        /\ v \in Walks
    BY <1>1, WalkMoves
  <2>. HIDE DEF v
  <2>3. v \in Walks /\ v.len > 0 /\ v.runs = w.runs
    BY <1>1, <2>2
  <2>4. m \in FreeOf(b) /\ Lim(b, m) = m /\ Lim(b, m + 1) = m + 1
    BY <1>5 DEF FreeOf, Lim
  <2>5. Behind(b, v, m + 1) = Behind(b, w, m)
    <3>1. CASE w.len = 0
      <4>1. v.start = m
        BY <2>2, <3>1
      <4>. QED BY <1>2, <2>3, <3>1, <4>1 DEF Behind
    <3>2. CASE w.len # 0
      <4>1. v.start = w.start /\ w.start + w.len = m /\ w.len > 0
        BY <1>1, <2>2, <2>4, <3>2 DEF WalkAt
      <4>. QED BY <1>1, <1>2, <2>3, <4>1 DEF Behind
    <3>. QED BY <3>1, <3>2
  <2>6. /\ v.start + v.len = m + 1 /\ v.start .. m \subseteq FreeOf(b)
        /\ v.start - 1 \notin FreeOf(b)
    <3>1. CASE w.len = 0
      <4>1. v.start = m /\ v.len = 1 /\ m - 1 \notin FreeOf(b) /\ m..m = {m}
        BY <2>2, <3>1 DEF WalkAt
      <4>. QED BY <2>4, <4>1
    <3>2. CASE w.len # 0
      <4>1. /\ v.start = w.start /\ v.len = w.len + 1 /\ w.start + w.len = m
            /\ w.start .. m - 1 \subseteq FreeOf(b) /\ w.start - 1 \notin FreeOf(b)
        BY <1>1, <2>2, <2>4, <3>2 DEF WalkAt
      <4>2. w.start .. m \subseteq FreeOf(b)
        <5>1. \A x \in w.start .. m : x \in w.start .. m - 1 \/ x = m
          BY <1>1
        <5>. QED BY <2>4, <4>1, <5>1
      <4>3. v.start + v.len = m + 1
        BY <1>1, <4>1
      <4>. QED BY <4>1, <4>2, <4>3
    <3>. QED BY <3>1, <3>2
  <2>7. Gapped(v.runs, Behind(b, v, m + 1))
    BY <2>3, <2>5 DEF WalkAt
  <2>8. v.start .. Lim(b, m + 1) - 1 \subseteq FreeOf(b) /\ v.start + v.len = Lim(b, m + 1)
    BY <2>4, <2>6
  <2>9. WalkAt(b, v, m + 1)
    BY <2>3, <2>6, <2>7, <2>8 DEF WalkAt
  <2>. QED BY <2>1, <2>9
<1>. QED BY <1>3, <1>4, <1>5

LEMMA BitIsWalk ==
    ASSUME NEW b, NEW m \in Nat, NEW w \in Walks PROVE Bit(b, w, m) \in Walks
BY WalkMoves DEF Bit

\* The bits of a byte, one after another.
LEMMA BitsStep ==
    ASSUME NEW b, b.total \in Nat, NEW byte \in Nat, NEW w, WalkAt(b, w, byte * BitsPerByte)
    PROVE  WalkAt(b, Bits(b, w, byte), byte * BitsPerByte + BitsPerByte)
<1>. DEFINE n    == BitsPerByte
            m    == byte * BitsPerByte
            F(f) == [i \in 0..n |-> IF i = 0 THEN w ELSE Bit(b, f[i-1], m + i - 1)]
            step == [i \in 1..n |-> [x \in Walks |-> Bit(b, x, m + i - 1)]]
            upTo == CHOOSE f : f = F(f)
<1>1. n \in Nat /\ m \in Nat
  BY BitmapAssumption
<1>2. w \in Walks /\ WalkAt(b, w, m)
  BY DEF WalkAt
<1>3. Bits(b, w, byte) = upTo[n]
  BY DEF Bits
<1>. HIDE DEF n, m
<1>4. \A i \in 1..n : m + i - 1 \in Nat /\ m + i - 1 = m + (i - 1)
  BY <1>1
<1>5. step \in [1..n -> [Walks -> Walks]]
  BY <1>4, BitIsWalk
<1>6. PICK f \in [0..n -> Walks] : Unfolds(f, n, w, step)
  <2>. HIDE DEF step
  <2>. QED BY ONLY <1>1, <1>2, <1>5, RecursionExists
<1>7. f[0] = w /\ \A i \in 1..n : f[i] = Bit(b, f[i-1], m + i - 1)
  <2>1. \A i \in 1..n : f[i-1] \in Walks
    BY <1>1
  <2>2. ASSUME NEW i \in 1..n PROVE step[i][f[i-1]] = Bit(b, f[i-1], m + i - 1)
    BY <2>1
  <2>. QED BY <1>6, <2>2 DEF Unfolds
<1>8. f = F(f)
  <2>1. \A i \in 0..n : f[i] = IF i = 0 THEN w ELSE Bit(b, f[i-1], m + i - 1)
    BY <1>1, <1>7
  <2>. QED BY <2>1
<1>9. upTo = F(upTo)
  <2>. HIDE DEF F
  <2>. QED BY <1>8
<1>. HIDE DEF upTo
<1>10. upTo[0] = w /\ \A i \in 1..n : upTo[i] = Bit(b, upTo[i-1], m + i - 1)
  BY <1>1, <1>9
<1>. HIDE DEF F, step
<1>. DEFINE Off == {i \in 0..n : ~WalkAt(b, upTo[i], m + i)}
<1>11. Off = {}
  <2>. SUFFICES ASSUME Off # {} PROVE FALSE
    OBVIOUS
  <2>1. PICK k \in Off : \A y \in Off : k <= y
    <3>1. Off \in SUBSET Nat
      OBVIOUS
    <3>. QED BY <3>1, Least
  <2>2. k # 0
    <3>. SUFFICES ASSUME k = 0 PROVE FALSE
      OBVIOUS
    <3>1. m + k = m /\ upTo[k] = w
      BY <1>1, <1>10
    <3>. QED BY <1>2, <2>1, <3>1
  <2>3. k \in 1..n /\ k - 1 \in 0..n /\ k - 1 \notin Off
    BY <1>1, <2>1, <2>2
  <2>4. WalkAt(b, upTo[k-1], m + (k - 1)) /\ m + (k - 1) \in Nat
    BY <1>1, <2>3
  <2>5. WalkAt(b, Bit(b, upTo[k-1], m + (k - 1)), m + (k - 1) + 1)
    BY ONLY <2>4, b.total \in Nat, BitStep
  <2>6. m + (k - 1) + 1 = m + k /\ m + k - 1 = m + (k - 1)
    BY <1>1, <2>3
  <2>7. upTo[k] = Bit(b, upTo[k-1], m + (k - 1))
    BY <1>10, <2>3, <2>6
  <2>. QED BY <2>1, <2>5, <2>6, <2>7
<1>12. WalkAt(b, upTo[n], m + n)
  BY <1>1, <1>11
<1>. QED BY <1>3, <1>12 DEF n, m

LEMMA ByteStep ==
    ASSUME NEW b, b.total \in Nat, NEW byte \in Nat, NEW w, WalkAt(b, w, Times(byte, BitsPerByte))
    PROVE  WalkAt(b, Byte(b, w, byte), Times(byte + 1, BitsPerByte))
<1>. DEFINE m == Times(byte, BitsPerByte)
            n == BitsPerByte
<1>1. n \in Nat \ {0} /\ m \in Nat /\ Times(byte + 1, n) = m + n
  <2>1. n \in Nat \ {0}
    BY BitmapAssumption
  <2>2. byte + 1 \in Nat \ {0} /\ byte + 1 - 1 = byte /\ n \in Nat
    BY <2>1
  <2>. HIDE DEF n
  <2>3. Times(byte + 1, n) = Times(byte + 1 - 1, n) + n /\ Times(byte + 1 - 1, n) \in Nat
    BY ONLY <2>2, TimesStep
  <2>. QED BY <2>1, <2>2, <2>3 DEF n
<1>2. m = byte * BitsPerByte
  BY DEF Times
<1>3. CASE ~(BitsOf(byte) \subseteq b.used)
  <2>1. Byte(b, w, byte) = Bits(b, w, byte)
    BY <1>3 DEF Byte
  <2>2. WalkAt(b, Bits(b, w, byte), byte * BitsPerByte + BitsPerByte)
    BY <1>2, BitsStep
  <2>. QED BY <1>1, <1>2, <2>1, <2>2
<1>4. CASE BitsOf(byte) \subseteq b.used
  <2>1. Byte(b, w, byte) = Flush(w)
    BY <1>4 DEF Byte, FullByte
  <2>2. BitsOf(byte) = m .. m + n - 1
    BY <1>2 DEF BitsOf
  <2>. HIDE DEF m, n
  <2>3. PICK k \in Nat : k = m + n
    BY <1>1
  <2>4. m < k /\ \A x \in m .. k - 1 : x \notin FreeOf(b)
    <3>1. \A x \in m .. m + n - 1 : x \notin FreeOf(b)
      BY <1>4, <2>2 DEF FreeOf
    <3>2. m < k /\ m .. m + n - 1 = m .. k - 1
      BY <1>1, <2>3
    <3>. QED BY <3>1, <3>2
  <2>5. m <= k /\ k - 1 \notin FreeOf(b)
    BY <1>1, <2>4
  <2>6. \A x \in FreeOf(b) : x < k => x < m
    <3>1. FreeOf(b) \in SUBSET Nat
      BY DEF FreeOf
    <3>. QED BY <1>1, <2>4, <3>1
  <2>8. WalkAt(b, w, m) /\ m \in Nat /\ b.total \in Nat
    BY <1>1 DEF m
  <2>9. WalkAt(b, Flush(w), k)
    BY ONLY <2>3, <2>5, <2>6, <2>8, FlushStep
  <2>. QED BY <1>1, <2>1, <2>3, <2>9 DEF n
<1>. QED BY <1>3, <1>4

LEMMA WalkStarts == ASSUME NEW b PROVE WalkAt(b, NoRun, 0)
<1>1. NoRun \in Walks /\ NoRun.len = 0 /\ NoRun.runs = <<>>
  BY DEF NoRun, Walks
<1>2. Behind(b, NoRun, 0) = {} /\ 0 - 1 \notin FreeOf(b)
  BY DEF Behind, FreeOf
<1>. QED BY <1>1, <1>2, NothingLaid DEF WalkAt

\* After the last byte the walk has been to every block.
LEMMA WalkEnds ==
    ASSUME NEW b, b.total \in Nat, NEW w, WalkAt(b, w, Times(Size(b), BitsPerByte))
    PROVE  Gapped(Flush(w).runs, FreeOf(b)) /\ Size(b) \in Nat
<1>. DEFINE n == BitsPerByte
            x == b.total + n - 1
<1>1. n \in Nat \ {0} /\ x \in Nat
  BY BitmapAssumption
<1>2. Size(b) = x \div n
  BY DEF Size
<1>. HIDE DEF n, x
<1>3. x \div n \in Nat /\ x % n \in Nat /\ x % n < n /\ x = Times(x \div n, n) + (x % n)
  BY ONLY <1>1, Divided
<1>4. PICK q : q = x \div n
  OBVIOUS
<1>5. PICK y : y = x % n
  OBVIOUS
<1>6. q \in Nat /\ y \in Nat /\ y < n /\ x = Times(q, n) + y /\ Size(b) = q
  BY <1>2, <1>3, <1>4, <1>5
<1>7. Times(q, n) \in Nat
  <2>1. n \in Nat /\ q \in Nat
    BY <1>1, <1>6
  <2>. QED BY ONLY <2>1, TimesFacts
<1>8. b.total <= Times(q, n)
  <2>1. x = b.total + n - 1
    BY DEF x
  <2>. QED BY <1>1, <1>6, <1>7, <2>1
<1>9. Gapped(Flush(w).runs, {z \in FreeOf(b) : z < Times(q, n)})
  BY <1>6, <1>7, FlushFacts DEF n
<1>10. {z \in FreeOf(b) : z < Times(q, n)} = FreeOf(b)
  BY <1>7, <1>8 DEF FreeOf
<1>. QED BY <1>6, <1>9, <1>10

---------------------------------------------------------------------------
(* The tasks of the recovery. *)

TasksInv ==
    /\ phase \in {"start", "live", "slack", "free"} => walk = NoRun
    /\ phase = "runs" => /\ num \in 0 .. Size(job.bitmap)
                         /\ WalkAt(job.bitmap, walk, Times(num, BitsPerByte))
    /\ phase \in {"carve", "emit"} => Gapped(walk.runs, FreeBlocks) /\ Tiled(tasks, FreeBlocks)

CarveInv == RecInv /\ TasksInv

LEMMA BitmapFacts ==
    ASSUME job \in Volumes
    PROVE  job.bitmap.total \in Nat /\ FreeBlocks = FreeOf(job.bitmap) /\ FreeBlocks \in SUBSET Nat
BY RecoveryAssumption DEF FreeBlocks, FreeOf

LEMMA SizeIsNat == ASSUME NEW b, b.total \in Nat PROVE Size(b) \in Nat
BY BitmapAssumption DEF Size

LEMMA WalkBitmapTasks == ASSUME CarveInv, WalkBitmap PROVE TasksInv'
<1>. DEFINE b == job.bitmap
<1>1. /\ UNCHANGED fixed /\ phase = "runs" /\ num < Size(b) /\ num \in 0 .. Size(b)
      /\ WalkAt(b, walk, Times(num, BitsPerByte)) /\ job \in Volumes
  BY DEF WalkBitmap, CarveInv, TasksInv, RecInv, Places
<1>2. job' = job
  BY <1>1, VolumeStays
<1>3. CASE walk' = Byte(b, walk, num) /\ num' = num + 1 /\ UNCHANGED phase
  <2>1. b.total \in Nat
    BY <1>1, BitmapFacts
  <2>. HIDE DEF b
  <2>2. num \in Nat
    BY <1>1
  <2>3. WalkAt(b, Byte(b, walk, num), Times(num + 1, BitsPerByte))
    BY <1>1, <2>1, <2>2, ByteStep
  <2>4. num + 1 \in 0 .. Size(b)
    BY <1>1, <2>1, SizeIsNat
  <2>. QED BY <1>1, <1>2, <1>3, <2>3, <2>4 DEF TasksInv, b
<1>4. CASE End_("failed")
  BY <1>4 DEF End_, TasksInv
<1>. QED BY <1>3, <1>4 DEF WalkBitmap

LEMMA SplitRunsTasks == ASSUME CarveInv, SplitRuns PROVE TasksInv'
<1>. DEFINE b == job.bitmap
<1>1. /\ UNCHANGED fixed /\ phase = "runs" /\ num = Size(b) /\ job \in Volumes
      /\ WalkAt(b, walk, Times(num, BitsPerByte))
      /\ walk' = Flush(walk) /\ tasks' = SplitBlockRuns(walk'.runs) /\ phase' \in {"carve", "emit"}
  BY DEF SplitRuns, CarveInv, TasksInv, RecInv, Places
<1>2. FreeBlocks' = FreeBlocks
  BY <1>1, VolumeStays DEF FreeBlocks
<1>3. b.total \in Nat /\ FreeBlocks = FreeOf(b)
  BY <1>1, BitmapFacts
<1>. HIDE DEF b
<1>4. Gapped(Flush(walk).runs, FreeBlocks)
  BY <1>1, <1>3, WalkEnds
<1>5. Tiled(SplitBlockRuns(Flush(walk).runs), FreeBlocks)
  BY <1>4, SplitTiles
<1>. QED BY <1>1, <1>2, <1>4, <1>5 DEF TasksInv

\* A step that leaves the walk and the tasks alone.
LEMMA TasksStay ==
    ASSUME CarveInv, UNCHANGED <<fixed, walk, tasks>>,
           \/ phase' = phase /\ UNCHANGED num
           \/ phase' = phase /\ phase # "runs"
           \/ phase \in {"start", "live", "slack"} /\ phase' \in {"live", "slack", "free"}
           \/ phase = "free" /\ phase' = "runs" /\ num' = 0
           \/ phase = "carve" /\ phase' = "emit"
           \/ phase' = "done"
    PROVE  TasksInv'
<1>1. job' = job /\ FreeBlocks' = FreeBlocks /\ job \in Volumes
  BY VolumeStays DEF FreeBlocks, CarveInv, RecInv, Places
<1>2. CASE phase = "free" /\ phase' = "runs" /\ num' = 0
  <2>1. Times(0, BitsPerByte) = 0
    BY BitmapAssumption DEF Times
  <2>2. Size(job.bitmap) \in Nat
    BY <1>1, SizeIsNat, BitmapFacts
  <2>3. 0 \in 0 .. Size(job.bitmap)
    BY <2>2
  <2>. QED BY <1>1, <1>2, <2>1, <2>3, WalkStarts DEF TasksInv, CarveInv
<1>. QED BY <1>1, <1>2 DEF TasksInv, CarveInv

LEMMA CarveInvStep == ASSUME CarveInv, [Next]_vars PROVE CarveInv'
<1>1. RecInv'
  BY RecStep DEF CarveInv
<1>2. CASE UNCHANGED vars \/ Cancel \/ Begin \/ LiveNode \/ SlackNode \/ NoBlocks \/ Join \/ CancelSeen \/ Finish
  <2>1. UNCHANGED <<fixed, walk, tasks>>
    BY <1>2 DEF vars, carved, Cancel, Begin, LiveNode, SlackNode, NoBlocks, Join, CancelSeen, Finish
  <2>2. \/ phase' = phase /\ UNCHANGED num
        \/ phase' = phase /\ phase # "runs"
        \/ phase \in {"start", "live", "slack"} /\ phase' \in {"live", "slack", "free"}
        \/ phase = "carve" /\ phase' = "emit"
        \/ phase' = "done"
    BY <1>2 DEF vars, place, Cancel, Begin, LiveNode, SlackNode, NoBlocks, Join, CancelSeen, Finish, End_
  <2>. QED BY <1>1, <2>1, <2>2, TasksStay DEF CarveInv
<1>3. CASE FreeNode
  BY <1>1, <1>3, TasksStay DEF FreeNode, CarveInv, carved
<1>4. CASE WalkBitmap
  BY <1>1, <1>4, WalkBitmapTasks DEF CarveInv
<1>5. CASE SplitRuns
  BY <1>1, <1>5, SplitRunsTasks DEF CarveInv
<1>6. CASE SlackBytes \/ FreeRecords \/ EmitBatch
  <2>1. /\ UNCHANGED <<fixed, walk, tasks>> /\ phase # "runs"
        /\ phase' = phase \/ phase' = "done"
    BY <1>6 DEF SlackBytes, FreeRecords, EmitBatch, CarveOne, Emit, End_, carved
  <2>. QED BY <1>1, <2>1, TasksStay DEF CarveInv
<1>7. CASE \E t \in Tasks : CarveBlock(t)
  BY <1>1, <1>7, TasksStay DEF CarveBlock, place, CarveInv
<1>. QED BY <1>2, <1>3, <1>4, <1>5, <1>6, <1>7 DEF Next

\* The tasks of the parallel carve are the free blocks of the volume, each once, in
\* ascending order, in batches that are full unless their run ends, whatever the
\* bitmap holds (walkFreeRuns, alloc.go:47-105; splitBlockRuns, workers.go).
THEOREM TasksAreTheFreeBlocks == Spec => []CarvesExactlyFree
<1>1. Init => CarveInv
  BY RecInit DEF Init, CarveInv, TasksInv
<1>2. CarveInv => CarvesExactlyFree
  <2>. SUFFICES ASSUME CarveInv, phase \in {"carve", "emit"}
                PROVE  /\ FlattenSeq([t \in Tasks |-> BlocksIn(tasks[t])]) = InOrder
                       /\ FreeBlockCount(walk.runs) = Cardinality(FreeBlocks)
                       /\ \A t \in Tasks : tasks[t].count \in 1..BatchSize
                       /\ \A t \in Tasks : t > 1 /\ tasks[t].start = tasks[t-1].start + tasks[t-1].count
                               => tasks[t-1].count = BatchSize
    BY DEF CarvesExactlyFree
  <2>1. Gapped(walk.runs, FreeBlocks) /\ Tiled(tasks, FreeBlocks) /\ FreeBlocks \in SUBSET Nat
    BY BitmapFacts DEF CarveInv, TasksInv, RecInv, Places
  <2>2. Laid(walk.runs, FreeBlocks) /\ Laid(tasks, FreeBlocks)
    BY <2>1 DEF Gapped, Tiled
  <2>3. Tasks = 1..Len(tasks)
    BY <2>2, SeqFacts DEF Laid, Tasks
  <2>4. FlattenSeq([t \in Tasks |-> BlocksIn(tasks[t])]) = InOrder
    BY <2>1, <2>2, <2>3, LaidEnumerates, EnumerationCounts DEF InOrder
  <2>5. FreeBlockCount(walk.runs) = Cardinality(FreeBlocks)
    BY <2>1, <2>2, LaidEnumerates, EnumerationCounts
  <2>6. \A t \in Tasks : tasks[t].count \in 1..BatchSize
    BY <2>1, <2>2, <2>3, BitmapAssumption DEF Tiled, Laid, IsRun
  <2>7. \A t \in Tasks : t > 1 /\ tasks[t].start = tasks[t-1].start + tasks[t-1].count
            => tasks[t-1].count = BatchSize
    BY <2>1, <2>3 DEF Tiled, RunEnd
  <2>. QED BY <2>4, <2>5, <2>6, <2>7
<1>. QED BY <1>1, <1>2, CarveInvStep, PTL DEF Spec

---------------------------------------------------------------------------
(* The first pieces of a sequence of sequences, put together. *)

Together(ss, k) == FlattenSeq([i \in 1..k |-> ss[i]])

AreSeqs(ss, n) == n \in Nat /\ \A i \in 1..n : IsSeq(ss[i])

LEMMA GluedUnique ==
    ASSUME NEW n \in Nat, NEW ss, NEW f, NEW g, Glued(f, ss, n), Glued(g, ss, n)
    PROVE  f[n] = g[n]
<1>. DEFINE Off == {i \in 0..n : f[i] # g[i]}
<1>. SUFFICES ASSUME Off # {} PROVE FALSE
  OBVIOUS
<1>1. PICK k \in Off : \A y \in Off : k <= y
  <2>1. Off \in SUBSET Nat
    OBVIOUS
  <2>. QED BY <2>1, Least
<1>2. k \in 1..n /\ k - 1 \in 0..n /\ k - 1 \notin Off
  BY <1>1 DEF Glued
<1>3. f[k-1] = g[k-1] /\ f[k] = f[k-1] \o ss[k] /\ g[k] = g[k-1] \o ss[k]
  BY <1>2 DEF Glued
<1>. QED BY <1>1, <1>3

LEMMA FirstPieces ==
    ASSUME NEW n, NEW ss, AreSeqs(ss, n)
    PROVE  Pieces([i \in 1..n |-> ss[i]], n)
<1>. DEFINE s == [i \in 1..n |-> ss[i]]
<1>1. n \in Nat /\ s = [i \in 1..n |-> s[i]] /\ DOMAIN s = 1..n /\ \A i \in 1..n : IsSeq(s[i])
  BY DEF AreSeqs
<1>. HIDE DEF s
<1>2. Len(s) = n
  BY ONLY <1>1, MakesSeq
<1>3. Pieces(s, n)
  BY <1>1, <1>2 DEF Pieces
<1>. QED BY <1>3 DEF s

LEMMA TogetherIs ==
    ASSUME NEW n, NEW ss, AreSeqs(ss, n), NEW f, Glued(f, ss, n), NEW k \in 0..n
    PROVE  Together(ss, k) = f[k]
<1>. DEFINE s == [i \in 1..k |-> ss[i]]
<1>1. k \in Nat /\ 1..k \subseteq 1..n
  BY DEF AreSeqs
<1>2. AreSeqs(ss, k)
  BY <1>1 DEF AreSeqs
<1>3. Pieces(s, k)
  BY <1>2, FirstPieces
<1>4. \A i \in 1..k : s[i] = ss[i]
  OBVIOUS
<1>. HIDE DEF s
<1>5. PICK g : Glued(g, s, k) /\ FlattenSeq(s) = g[k]
  BY <1>3, Flattened
<1>6. Glued(f, s, k)
  BY <1>1, <1>4 DEF Glued
<1>7. f[k] = g[k]
  BY <1>1, <1>5, <1>6, GluedUnique
<1>. QED BY <1>5, <1>7 DEF Together, s

LEMMA TogetherFacts ==
    ASSUME NEW n, NEW ss, AreSeqs(ss, n)
    PROVE  /\ Together(ss, 0) = <<>> /\ \A k \in 0..n : IsSeq(Together(ss, k))
           /\ \A k \in 1..n : /\ Together(ss, k) = Together(ss, k - 1) \o ss[k]
                              /\ Len(Together(ss, k)) = Len(Together(ss, k - 1)) + Len(ss[k])
<1>0. n \in Nat /\ \A i \in 1..n : IsSeq(ss[i])
  BY DEF AreSeqs
<1>. DEFINE s == [i \in 1..n |-> ss[i]]
<1>1. Pieces(s, n) /\ \A i \in 1..n : s[i] = ss[i]
  BY FirstPieces
<1>. HIDE DEF s
<1>2. PICK f : Glued(f, s, n)
  BY <1>1, Flattened
<1>3. Glued(f, ss, n)
  BY <1>1, <1>2 DEF Glued
<1>4. \A k \in 0..n : Together(ss, k) = f[k]
  BY <1>3, TogetherIs
<1>5. /\ \A i \in 0..n : IsSeq(f[i])
      /\ \A i \in 1..n : Len(f[i]) = Len(f[i-1]) + Len(ss[i])
  BY ONLY <1>0, <1>3, GluedIsSeq
<1>6. f[0] = <<>> /\ \A i \in 1..n : f[i] = f[i-1] \o ss[i]
  BY <1>3 DEF Glued
<1>7. \A k \in 1..n : k \in 0..n /\ k - 1 \in 0..n
  BY <1>0
<1>8. 0 \in 0..n
  BY <1>0
<1>. QED BY <1>4, <1>5, <1>6, <1>7, <1>8

\* They are a front of what more of them make.
LEMMA TogetherFront ==
    ASSUME NEW n, NEW ss, AreSeqs(ss, n), NEW k \in 0..n, NEW m \in k..n
    PROVE  /\ Len(Together(ss, k)) <= Len(Together(ss, m))
           /\ \A i \in 1..Len(Together(ss, k)) : Together(ss, m)[i] = Together(ss, k)[i]
<1>. DEFINE Fits(l) == /\ Len(Together(ss, k)) <= Len(Together(ss, l))
                       /\ \A i \in 1..Len(Together(ss, k)) : Together(ss, l)[i] = Together(ss, k)[i]
            Off == {l \in k..n : ~Fits(l)}
<1>0. n \in Nat
  BY DEF AreSeqs
<1>. SUFFICES ASSUME Off # {} PROVE FALSE
  <2>1. m \notin Off
    OBVIOUS
  <2>2. Fits(m)
    BY <2>1
  <2>. QED BY <2>2
<1>. HIDE DEF Fits
<1>1. PICK l \in Off : \A y \in Off : l <= y
  <2>1. Off \in SUBSET Nat
    BY <1>0
  <2>. QED BY <2>1, Least
<1>2. Len(Together(ss, k)) \in Nat
  BY TogetherFacts, SeqFacts
<1>3. Fits(k)
  BY <1>2 DEF Fits
<1>4. l \in 1..n /\ l - 1 \in k..n /\ l - 1 \in 0..n /\ l - 1 \notin Off
  BY <1>0, <1>1, <1>3
<1>5. Fits(l - 1)
  BY <1>4
<1>6. IsSeq(Together(ss, l - 1)) /\ IsSeq(ss[l]) /\ Together(ss, l) = Together(ss, l - 1) \o ss[l]
  BY <1>4, TogetherFacts DEF AreSeqs
<1>. DEFINE a == Together(ss, l - 1)
            b == Together(ss, k)
<1>7. Len(a) \in Nat /\ Len(ss[l]) \in Nat
  BY <1>6, SeqFacts
<1>8. Len(a \o ss[l]) = Len(a) + Len(ss[l]) /\ \A i \in 1..Len(a) : (a \o ss[l])[i] = a[i]
  BY ONLY <1>6, JoinFacts
<1>9. Len(b) <= Len(a) /\ \A i \in 1..Len(b) : a[i] = b[i]
  BY <1>5 DEF Fits
<1>. HIDE DEF a, b
<1>10. Len(b) <= Len(a \o ss[l]) /\ \A i \in 1..Len(b) : (a \o ss[l])[i] = b[i]
  <2>1. Len(b) \in Nat
    BY <1>2 DEF b
  <2>2. \A i \in 1..Len(b) : i \in 1..Len(a)
    BY <1>7, <1>9, <2>1
  <2>. QED BY <1>7, <1>8, <1>9, <2>1, <2>2
<1>11. Fits(l)
  BY <1>6, <1>10 DEF Fits, a, b
<1>. QED BY <1>1, <1>11

\* Where the members of a piece come to lie.
LEMMA TogetherPlace ==
    ASSUME NEW n, NEW ss, AreSeqs(ss, n), NEW k \in 1..n, NEW j \in 1..Len(ss[k])
    PROVE  /\ Len(Together(ss, k - 1)) + j \in 1..Len(Together(ss, n))
           /\ Together(ss, n)[Len(Together(ss, k - 1)) + j] = ss[k][j]
<1>. DEFINE a == Together(ss, k - 1)
            b == Together(ss, k)
            p == Len(a) + j
<1>0. n \in Nat /\ k - 1 \in 0..n /\ k \in 0..n /\ n \in k..n
  BY DEF AreSeqs
<1>1. IsSeq(a) /\ IsSeq(ss[k]) /\ b = a \o ss[k] /\ Len(b) = Len(a) + Len(ss[k])
  BY <1>0, TogetherFacts DEF AreSeqs
<1>2. Len(a) \in Nat /\ Len(ss[k]) \in Nat
  BY <1>1, SeqFacts
<1>3. p \in 1..Len(b)
  BY <1>1, <1>2
<1>4. b[p] = ss[k][j]
  <2>1. \A i \in 1..Len(ss[k]) : (a \o ss[k])[Len(a) + i] = ss[k][i]
    BY ONLY <1>1, JoinFacts
  <2>. QED BY <1>1, <2>1
<1>5. /\ Len(b) <= Len(Together(ss, n))
      /\ \A i \in 1..Len(b) : Together(ss, n)[i] = b[i]
  BY <1>0, TogetherFront
<1>6. Len(Together(ss, n)) \in Nat
  <2>1. n \in 0..n
    BY <1>0
  <2>2. IsSeq(Together(ss, n))
    BY ONLY AreSeqs(ss, n), <2>1, TogetherFacts
  <2>. QED BY <2>2, SeqFacts
<1>7. Together(ss, n)[p] = ss[k][j]
  BY <1>3, <1>4, <1>5
<1>8. p \in 1..Len(Together(ss, n))
  <2>. DEFINE whole == Len(Together(ss, n))
              part == Len(b)
  <2>1. part \in Nat
    <3>1. IsSeq(b)
      BY ONLY AreSeqs(ss, n), <1>0, TogetherFacts
    <3>. QED BY <3>1, SeqFacts
  <2>2. whole \in Nat /\ part <= whole /\ p \in 1..part
    BY <1>3, <1>5, <1>6
  <2>. HIDE DEF whole, part, p
  <2>3. p \in 1..whole
    BY ONLY <2>1, <2>2
  <2>. QED BY <2>3 DEF whole
<1>. QED BY <1>7, <1>8

\* All that lies there is of some piece.
LEMMA TogetherWhere ==
    ASSUME NEW n, NEW ss, AreSeqs(ss, n), NEW p \in 1..Len(Together(ss, n))
    PROVE  \E k \in 1..n : \E j \in 1..Len(ss[k]) : Together(ss, n)[p] = ss[k][j]
<1>. DEFINE From(s, i) == \E k \in 1..n : \E j \in 1..Len(ss[k]) : s[i] = ss[k][j]
            Off == {l \in 0..n : \E i \in 1..Len(Together(ss, l)) : ~From(Together(ss, l), i)}
<1>0. n \in Nat
  BY DEF AreSeqs
<1>. SUFFICES ASSUME Off # {} PROVE FALSE
  <2>1. n \notin Off /\ n \in 0..n
    BY <1>0
  <2>2. From(Together(ss, n), p)
    BY <2>1
  <2>. QED BY <2>2
<1>. HIDE DEF From
<1>1. PICK l \in Off : \A y \in Off : l <= y
  <2>1. Off \in SUBSET Nat
    OBVIOUS
  <2>. QED BY <2>1, Least
<1>2. l # 0
  <2>1. Together(ss, 0) = <<>>
    BY TogetherFacts
  <2>2. 1..Len(<<>>) = {}
    OBVIOUS
  <2>. QED BY <1>1, <2>1, <2>2
<1>3. l \in 1..n /\ l - 1 \in 0..n /\ l - 1 \notin Off
  BY <1>0, <1>1, <1>2
<1>. DEFINE a == Together(ss, l - 1)
<1>4. IsSeq(a) /\ IsSeq(ss[l]) /\ Together(ss, l) = a \o ss[l] /\ \A i \in 1..Len(a) : From(a, i)
  BY <1>3, TogetherFacts DEF AreSeqs
<1>. HIDE DEF a
<1>5. /\ \A i \in 1..Len(a) : (a \o ss[l])[i] = a[i]
      /\ \A i \in 1..Len(a \o ss[l]) : i \in 1..Len(a) \/ (i - Len(a) \in 1..Len(ss[l]) /\ (a \o ss[l])[i] = ss[l][i - Len(a)])
  BY ONLY <1>4, JoinFacts
<1>6. ASSUME NEW i \in 1..Len(a \o ss[l]) PROVE From(a \o ss[l], i)
  <2>1. CASE i \in 1..Len(a)
    BY <1>4, <1>5, <2>1 DEF From
  <2>2. CASE i - Len(a) \in 1..Len(ss[l]) /\ (a \o ss[l])[i] = ss[l][i - Len(a)]
    BY <1>3, <2>2 DEF From
  <2>. QED BY <1>5, <2>1, <2>2
<1>. QED BY <1>1, <1>4, <1>6

LEMMA JoinThree ==
    ASSUME NEW s, NEW t, NEW u, IsSeq(s), IsSeq(t), IsSeq(u)
    PROVE  (s \o t) \o u = s \o (t \o u)
<1>1. PICK R : s \in Seq(R)
  BY DEF IsSeq
<1>2. PICK S : t \in Seq(S)
  BY DEF IsSeq
<1>3. PICK T : u \in Seq(T)
  BY DEF IsSeq
<1>. DEFINE V == R \union S \union T
<1>4. s \in Seq(V) /\ t \in Seq(V) /\ u \in Seq(V)
  BY <1>1, <1>2, <1>3
<1>. HIDE DEF V
<1>. QED BY <1>4

\* More of the pieces, put together apart.
LEMMA Extended ==
    ASSUME NEW m, NEW D, AreSeqs(D, m), NEW p \in 0..m, NEW c \in Nat, p + c <= m,
           NEW C, AreSeqs(C, c), \A j \in 1..c : C[j] = D[p + j]
    PROVE  Together(D, p + c) = Together(D, p) \o Together(C, c)
<1>. DEFINE P(j) == Together(D, p + j) = Together(D, p) \o Together(C, j)
            Off  == {j \in 0..c : ~P(j)}
<1>0. m \in Nat /\ p \in Nat
  BY DEF AreSeqs
<1>. HIDE DEF P
<1>. SUFFICES ASSUME Off # {} PROVE FALSE
  <2>1. c \notin Off /\ c \in 0..c
    OBVIOUS
  <2>2. P(c)
    BY <2>1
  <2>. QED BY <2>2 DEF P
<1>1. PICK j \in Off : \A y \in Off : j <= y
  <2>1. Off \in SUBSET Nat
    OBVIOUS
  <2>. QED BY <2>1, Least
<1>2. P(0)
  <2>1. IsSeq(Together(D, p))
    BY ONLY AreSeqs(D, m), p \in 0..m, TogetherFacts
  <2>2. Together(C, 0) = <<>>
    BY ONLY AreSeqs(C, c), TogetherFacts
  <2>3. p + 0 = p
    BY <1>0
  <2>. QED BY <2>1, <2>2, <2>3, EmptyJoin DEF P
<1>3. j \in 1..c /\ j - 1 \in 0..c /\ j - 1 \notin Off
  BY <1>1, <1>2
<1>4. P(j - 1)
  BY <1>3
<1>5. PICK q : q = p + j
  OBVIOUS
<1>6. q \in 1..m /\ q - 1 = p + (j - 1)
  BY <1>0, <1>3, <1>5
<1>7. Together(D, q) = Together(D, q - 1) \o D[q]
  BY ONLY AreSeqs(D, m), <1>6, TogetherFacts
<1>8. Together(C, j) = Together(C, j - 1) \o C[j] /\ IsSeq(Together(C, j - 1)) /\ IsSeq(C[j])
  <2>1. Together(C, j) = Together(C, j - 1) \o C[j] /\ IsSeq(Together(C, j - 1))
    BY ONLY AreSeqs(C, c), <1>3, TogetherFacts
  <2>. QED BY <1>3, <2>1 DEF AreSeqs
<1>9. IsSeq(Together(D, p))
  BY ONLY AreSeqs(D, m), p \in 0..m, TogetherFacts
<1>10. (Together(D, p) \o Together(C, j - 1)) \o C[j] = Together(D, p) \o (Together(C, j - 1) \o C[j])
  <2>1. PICK x, y, z : x = Together(D, p) /\ y = Together(C, j - 1) /\ z = C[j]
    OBVIOUS
  <2>2. IsSeq(x) /\ IsSeq(y) /\ IsSeq(z)
    BY <1>8, <1>9, <2>1
  <2>3. (x \o y) \o z = x \o (y \o z)
    BY ONLY <2>2, JoinThree
  <2>. QED BY <2>1, <2>3
<1>11. Together(D, q - 1) = Together(D, p) \o Together(C, j - 1)
  BY <1>4, <1>6 DEF P
<1>12. D[q] = C[j]
  BY <1>3, <1>5
<1>13. P(j)
  BY <1>5, <1>7, <1>8, <1>10, <1>11, <1>12 DEF P
<1>. QED BY <1>1, <1>13

\* F[k] is what D has for the members of B[k].
Regroups(F, B, D, k) ==
    \E C : /\ AreSeqs(C, Len(B[k])) /\ F[k] = Together(C, Len(B[k]))
           /\ \A j \in 1..Len(B[k]) : C[j] = D[Len(Together(B, k - 1)) + j]

LEMMA Regrouped ==
    ASSUME NEW n, NEW m, NEW F, NEW B, NEW D, AreSeqs(B, n), AreSeqs(F, n), AreSeqs(D, m),
           m = Len(Together(B, n)), \A k \in 1..n : Regroups(F, B, D, k)
    PROVE  Together(F, n) = Together(D, m)
<1>. DEFINE L(k) == Len(Together(B, k))
            P(k) == Together(F, k) = Together(D, L(k))
            Off  == {k \in 0..n : ~P(k)}
<1>0. n \in Nat /\ m \in Nat
  BY DEF AreSeqs
<1>. HIDE DEF P
<1>. SUFFICES ASSUME Off # {} PROVE FALSE
  <2>1. n \notin Off /\ n \in 0..n
    BY <1>0
  <2>2. P(n)
    BY <2>1
  <2>. QED BY <2>2 DEF P
<1>. HIDE DEF L
<1>1. PICK k \in Off : \A y \in Off : k <= y
  <2>1. Off \in SUBSET Nat
    OBVIOUS
  <2>. QED BY <2>1, Least
<1>2. P(0)
  <2>1. Together(F, 0) = <<>> /\ Together(B, 0) = <<>> /\ Together(D, 0) = <<>> /\ Len(<<>>) = 0
    <3>1. Together(F, 0) = <<>> /\ Together(B, 0) = <<>> /\ Together(D, 0) = <<>>
      BY TogetherFacts
    <3>. QED BY <3>1
  <2>. QED BY <2>1 DEF P, L
<1>3. k \in 1..n /\ k - 1 \in 0..n /\ k - 1 \notin Off /\ k \in 0..n
  BY <1>0, <1>1, <1>2
<1>4. P(k - 1)
  BY <1>3
<1>5. PICK p, c : p = L(k - 1) /\ c = Len(B[k])
  OBVIOUS
<1>6. p \in Nat /\ c \in Nat /\ L(k) = p + c
  <2>1. IsSeq(Together(B, k - 1)) /\ Len(Together(B, k)) = Len(Together(B, k - 1)) + Len(B[k])
    BY ONLY AreSeqs(B, n), <1>3, TogetherFacts
  <2>2. IsSeq(B[k])
    BY <1>3 DEF AreSeqs
  <2>. QED BY <1>5, <2>1, <2>2, SeqFacts DEF L
<1>7. L(k) <= m
  <2>1. n \in k..n
    BY <1>0, <1>3
  <2>2. Len(Together(B, k)) <= Len(Together(B, n))
    BY ONLY AreSeqs(B, n), <1>3, <2>1, TogetherFront
  <2>. QED BY <2>2 DEF L
<1>8. PICK C : AreSeqs(C, c) /\ F[k] = Together(C, c) /\ \A j \in 1..c : C[j] = D[p + j]
  BY <1>3, <1>5 DEF Regroups, L
<1>9. p \in 0..m /\ p + c <= m
  BY <1>0, <1>6, <1>7
<1>10. Together(D, p + c) = Together(D, p) \o Together(C, c)
  BY ONLY AreSeqs(D, m), <1>6, <1>8, <1>9, Extended
<1>11. Together(F, k) = Together(F, k - 1) \o F[k]
  BY ONLY AreSeqs(F, n), <1>3, TogetherFacts
<1>12. P(k)
  BY <1>4, <1>5, <1>6, <1>8, <1>10, <1>11 DEF P
<1>. QED BY <1>1, <1>12

---------------------------------------------------------------------------
(* What the tasks find. *)

\* What the blocks of a batch hold, block by block.
CarvedAt(r) == [i \in 1..r.count |-> CarvedBlock(r.start + i - 1)]

\* A task has found what the blocks it has carved hold, and no task moves while the
\* batches are emitted.
FoundInv ==
    /\ phase \in {"carve", "emit"} =>
          /\ DOMAIN task = Tasks
          /\ \A t \in Tasks : /\ task[t] \in 0..tasks[t].count
                              /\ found[t] = Together(CarvedAt(tasks[t]), task[t])
    /\ phase = "emit" => \A t \in Tasks : task[t] = tasks[t].count
    /\ phase = "carve" => num = 1 /\ off = 1

TaskInv == GradeInv /\ CarveInv /\ FoundInv

LEMMA CarvedStays ==
    ASSUME UNCHANGED fixed
    PROVE  /\ \A block : CarvedBlock(block)' = CarvedBlock(block)
           /\ \A r : CarvedAt(r)' = CarvedAt(r)
           /\ Carved' = Carved
<1>1. job' = job /\ FreeBlocks' = FreeBlocks
  BY VolumeStays DEF FreeBlocks
<1>2. \A exts : Fates(exts)' = Fates(exts)
  BY <1>1 DEF Fates, Fate, Outside, NotFree, End, CanTell, BlockAllocated
<1>3. \A c, node, byte : Graded(c, node, byte)' = Graded(c, node, byte)
  BY <1>2 DEF Graded, Confidence, Verdict, Overwritten
<1>4. \A node, block : CarvedNode(node, block)' = CarvedNode(node, block)
  BY <1>3 DEF CarvedNode
<1>5. \A block : CarvedBlock(block)' = CarvedBlock(block)
  BY <1>1, <1>4 DEF CarvedBlock
<1>6. \A r : CarvedAt(r)' = CarvedAt(r)
  BY <1>5 DEF CarvedAt
<1>7. InOrder' = InOrder
  BY <1>1 DEF InOrder
<1>8. Carved' = Carved
  BY <1>5, <1>7 DEF Carved
<1>. QED BY <1>5, <1>6, <1>8

LEMMA CarvedAtIsSeqs ==
    ASSUME job \in Volumes, NEW r, r.count \in Nat PROVE AreSeqs(CarvedAt(r), r.count)
<1>1. \A block : IsSeq(CarvedBlock(block))
  BY CarvedBlockSound DEF SoundSeq
<1>. QED BY <1>1 DEF AreSeqs, CarvedAt

\* A step that leaves the tasks alone.
LEMMA FoundStays ==
    ASSUME FoundInv, UNCHANGED <<fixed, carved>>,
           \/ phase' = "done" \/ phase' \in {"start", "live", "slack", "free", "runs"}
           \/ phase' = phase /\ phase = "emit"
           \/ phase' = phase /\ UNCHANGED <<num, off>>
           \/ phase = "carve" /\ phase' = "emit" /\ AllCarved
    PROVE  FoundInv'
<1>1. \A r : CarvedAt(r)' = CarvedAt(r)
  BY CarvedStays
<1>2. task' = task /\ tasks' = tasks /\ found' = found /\ Tasks' = Tasks
  BY DEF carved, Tasks
<1>3. \A t : CarvedAt(tasks[t])' = CarvedAt(tasks[t])
  BY <1>1, <1>2
<1>. QED BY <1>2, <1>3 DEF FoundInv, AllCarved, Together

LEMMA CarveBlockFound ==
    ASSUME TaskInv, NEW t \in Tasks, CarveBlock(t) PROVE FoundInv'
<1>. DEFINE r == tasks[t]
            k == task[t]
            more == CarvedBlock(r.start + k)
<1>1. /\ UNCHANGED <<fixed, tasks, phase, num, off>> /\ phase = "carve" /\ job \in Volumes
      /\ task' = [task EXCEPT ![t] = @ + 1] /\ found' = [found EXCEPT ![t] = @ \o more]
      /\ k < r.count
  BY DEF CarveBlock, place, TaskInv, CarveInv, RecInv, Places
<1>2. /\ DOMAIN task = Tasks /\ DOMAIN found = Tasks /\ Tasks' = Tasks
      /\ \A u \in Tasks : /\ task[u] \in 0..tasks[u].count
                          /\ found[u] = Together(CarvedAt(tasks[u]), task[u])
      /\ num = 1 /\ off = 1
  BY <1>1 DEF TaskInv, FoundInv, GradeInv, Grades, Tasks
<1>3. \A x : CarvedAt(x)' = CarvedAt(x)
  BY <1>1, CarvedStays
<1>4. r.count \in Nat
  <2>1. Laid(tasks, FreeBlocks)
    BY <1>1 DEF TaskInv, CarveInv, TasksInv, Tiled
  <2>2. t \in 1..Len(tasks)
    BY <2>1, SeqFacts DEF Laid, Tasks
  <2>. QED BY <2>1, <2>2 DEF Laid, IsRun
<1>5. AreSeqs(CarvedAt(r), r.count)
  BY <1>1, <1>4, CarvedAtIsSeqs
<1>6. k + 1 \in 1..r.count /\ k + 1 \in 0..r.count /\ (k + 1) - 1 = k /\ k \in Nat
  BY <1>1, <1>2, <1>4
<1>7. Together(CarvedAt(r), k + 1) = Together(CarvedAt(r), k) \o CarvedAt(r)[k + 1]
  <2>1. PICK q : q = k + 1
    OBVIOUS
  <2>2. q \in 1..r.count /\ q - 1 = k
    BY <1>6, <2>1
  <2>3. Together(CarvedAt(r), q) = Together(CarvedAt(r), q - 1) \o CarvedAt(r)[q]
    BY ONLY <1>5, <2>2, TogetherFacts
  <2>. QED BY <2>1, <2>2, <2>3
<1>8. CarvedAt(r)[k + 1] = CarvedBlock(r.start + (k + 1) - 1)
  BY <1>6 DEF CarvedAt
<1>9. more = CarvedAt(r)[k + 1]
  <2>1. r.start \in Nat
    <3>1. Laid(tasks, FreeBlocks)
      BY <1>1 DEF TaskInv, CarveInv, TasksInv, Tiled
    <3>2. t \in 1..Len(tasks)
      BY <3>1, SeqFacts DEF Laid, Tasks
    <3>. QED BY <3>1, <3>2 DEF Laid, IsRun
  <2>2. r.start + (k + 1) - 1 = r.start + k
    BY <1>6, <2>1
  <2>. QED BY <1>8, <2>2
<1>10. ASSUME NEW u \in Tasks
       PROVE  /\ task'[u] \in 0..tasks[u].count
              /\ found'[u] = Together(CarvedAt(tasks[u]), task'[u])
  <2>. HIDE DEF more
  <2>1. CASE u = t
    <3>1. task'[u] = k + 1 /\ found'[u] = found[t] \o more
      BY <1>1, <1>2, <2>1
    <3>. QED BY <1>2, <1>6, <1>7, <1>9, <2>1, <3>1
  <2>2. CASE u # t
    <3>1. task'[u] = task[u] /\ found'[u] = found[u]
      BY <1>1, <1>2, <2>2
    <3>. QED BY <1>2, <3>1
  <2>. QED BY <2>1, <2>2
<1>11. DOMAIN task' = Tasks
  BY <1>1, <1>2
<1>12. \A u \in Tasks : Together(CarvedAt(tasks[u]), task[u])' = Together(CarvedAt(tasks[u]), task'[u])
  BY <1>1, <1>3 DEF Together
<1>. QED BY <1>1, <1>2, <1>10, <1>11, <1>12 DEF FoundInv

LEMMA SplitRunsFound == ASSUME TaskInv, SplitRuns PROVE FoundInv'
<1>1. /\ UNCHANGED fixed /\ job \in Volumes /\ num' = 1 /\ off' = 1
      /\ task' = [t \in DOMAIN tasks' |-> 0] /\ found' = [t \in DOMAIN tasks' |-> <<>>]
      /\ phase' = IF tasks' = <<>> THEN "emit" ELSE "carve"
  BY DEF SplitRuns, TaskInv, CarveInv, RecInv, Places
<1>2. TasksInv'
  BY SplitRunsTasks DEF TaskInv
<1>3. Laid(tasks', FreeBlocks') /\ Tasks' = 1..Len(tasks')
  <2>1. Laid(tasks', FreeBlocks')
    BY <1>1, <1>2 DEF TasksInv, Tiled, Laid, IsSeq, IsRun, RunEnd, Covers
  <2>. QED BY <2>1, SeqFacts DEF Laid, Tasks
<1>4. job' \in Volumes
  BY <1>1, VolumeStays
<1>5. ASSUME NEW t \in Tasks' PROVE tasks'[t].count \in Nat /\ Together(CarvedAt(tasks[t])', 0) = <<>>
  <2>1. tasks'[t].count \in Nat
    BY <1>3 DEF Laid, IsRun
  <2>2. AreSeqs(CarvedAt(tasks'[t]), tasks'[t].count)
    BY <1>1, <2>1, CarvedAtIsSeqs
  <2>3. Together(CarvedAt(tasks'[t]), 0) = <<>>
    BY <2>2, TogetherFacts
  <2>4. CarvedAt(tasks[t])' = CarvedAt(tasks'[t])
    BY <1>1, CarvedStays DEF CarvedAt
  <2>. QED BY <2>1, <2>3, <2>4
<1>6. tasks' = <<>> => Tasks' = {}
  BY DEF Tasks
<1>. QED BY <1>1, <1>5, <1>6 DEF FoundInv, Tasks, Together

LEMMA TaskStep == ASSUME TaskInv, [Next]_vars PROVE TaskInv'
<1>1. GradeInv' /\ CarveInv'
  BY GradeStep, CarveInvStep DEF TaskInv
<1>2. FoundInv
  BY DEF TaskInv
<1>3. CASE UNCHANGED vars \/ Cancel \/ Begin \/ LiveNode \/ SlackNode \/ FreeNode \/ WalkBitmap
           \/ NoBlocks \/ CancelSeen \/ Finish
  <2>1. UNCHANGED <<fixed, carved>>
    BY <1>3 DEF vars, Cancel, Begin, LiveNode, SlackNode, FreeNode, WalkBitmap, NoBlocks, CancelSeen, Finish
  <2>2. \/ phase' \in {"done", "start", "live", "slack", "free", "runs"}
        \/ phase' = phase /\ UNCHANGED <<num, off>>
    BY <1>3 DEF vars, place, Cancel, Begin, LiveNode, SlackNode, FreeNode, WalkBitmap, NoBlocks, CancelSeen,
                Finish, End_
  <2>. QED BY <1>1, <1>2, <2>1, <2>2, FoundStays DEF TaskInv
<1>4. CASE Join
  <2>1. UNCHANGED <<fixed, carved>> /\ phase = "carve" /\ phase' = "emit" /\ AllCarved
    BY <1>4 DEF Join
  <2>. QED BY <1>1, <1>2, <2>1, FoundStays DEF TaskInv
<1>5. CASE SplitRuns
  BY <1>1, <1>5, SplitRunsFound DEF TaskInv
<1>6. CASE SlackBytes \/ FreeRecords \/ EmitBatch
  <2>1. /\ UNCHANGED <<fixed, carved>> /\ phase \in {"slack", "free", "emit"}
        /\ phase' = phase \/ phase' = "done"
    BY <1>6 DEF SlackBytes, FreeRecords, EmitBatch, CarveOne, Emit, End_
  <2>. QED BY <1>1, <1>2, <2>1, FoundStays DEF TaskInv
<1>7. CASE \E t \in Tasks : CarveBlock(t)
  BY <1>1, <1>7, CarveBlockFound DEF TaskInv
<1>. QED BY <1>3, <1>4, <1>5, <1>6, <1>7 DEF Next

LEMMA TaskInit == Init => TaskInv
<1>. SUFFICES ASSUME Init PROVE TaskInv
  OBVIOUS
<1>1. RecInv
  BY RecInit
<1>2. emitted = <<>> /\ found = <<>> /\ tasks = <<>> /\ phase = "start" /\ walk = NoRun
  BY DEF Init
<1>. QED BY <1>1, <1>2 DEF TaskInv, GradeInv, Grades, CarveInv, TasksInv, FoundInv

\* The batches hold, one after the other, what one goroutine comes upon.
Batched == AreSeqs(found, Len(tasks)) /\ Tasks = 1..Len(tasks) /\ Carved = Together(found, Len(tasks))

LEMMA CarvedIsFound ==
    ASSUME TaskInv, phase = "emit"
    PROVE  Batched
<1>. DEFINE n == Len(tasks)
            B == [t \in 1..n |-> BlocksIn(tasks[t])]
            m == Len(InOrder)
            D == [i \in 1..m |-> CarvedBlock(InOrder[i])]
<1>1. /\ job \in Volumes /\ Laid(tasks, FreeBlocks) /\ FreeBlocks \in SUBSET Nat
      /\ DOMAIN found = Tasks /\ \A t \in Tasks : IsSeq(found[t])
      /\ \A t \in Tasks : found[t] = Together(CarvedAt(tasks[t]), tasks[t].count)
  <2>1. job \in Volumes
    BY DEF TaskInv, CarveInv, RecInv, Places
  <2>2. Laid(tasks, FreeBlocks)
    BY DEF TaskInv, CarveInv, TasksInv, Tiled
  <2>3. DOMAIN found = Tasks /\ \A t \in Tasks : IsSeq(found[t])
    BY DEF TaskInv, GradeInv, Grades, SoundSeq, Tasks
  <2>4. \A t \in Tasks : found[t] = Together(CarvedAt(tasks[t]), tasks[t].count)
    BY DEF TaskInv, FoundInv
  <2>. QED BY <2>1, <2>2, <2>3, <2>4, BitmapFacts
<1>2. n \in Nat /\ Tasks = 1..n /\ \A t \in 1..n : tasks[t].start \in Nat /\ tasks[t].count \in Nat \ {0}
  BY <1>1, SeqFacts DEF Laid, Tasks, IsRun
<1>3. FlattenSeq(B) = InOrder
  BY <1>1, LaidEnumerates, EnumerationCounts DEF InOrder
<1>4. IsSeq(InOrder)
  BY <1>1, <1>3, LaidEnumerates DEF Enumerates
<1>5. m \in Nat /\ DOMAIN InOrder = 1..m
  BY <1>4, SeqFacts
<1>6. ASSUME NEW t \in 1..n
      PROVE  /\ IsSeq(B[t]) /\ Len(B[t]) = tasks[t].count
             /\ \A j \in 1..tasks[t].count : B[t][j] = tasks[t].start + j - 1
  <2>. DEFINE s == BlocksIn(tasks[t])
              c == tasks[t].count
  <2>1. c \in Nat /\ s = [j \in 1..c |-> s[j]] /\ \A j \in 1..c : s[j] = tasks[t].start + j - 1
    BY <1>2 DEF BlocksIn
  <2>2. B[t] = s
    OBVIOUS
  <2>. HIDE DEF s
  <2>3. IsSeq(s) /\ Len(s) = c
    BY <2>1, MakesSeq
  <2>. QED BY <2>1, <2>2, <2>3
<1>7. Together(B, n) = InOrder
  <2>1. [i \in 1..n |-> B[i]] = B
    OBVIOUS
  <2>. QED BY <1>3, <2>1 DEF Together
<1>8. Carved = Together(D, m)
  <2>1. [i \in 1..m |-> D[i]] = D
    OBVIOUS
  <2>2. Carved = FlattenSeq(D)
    BY <1>5 DEF Carved
  <2>. QED BY <2>1, <2>2 DEF Together
<1>9. AreSeqs(B, n) /\ AreSeqs(found, n)
  BY <1>1, <1>2, <1>6 DEF AreSeqs
<1>10. AreSeqs(D, m)
  BY <1>1, <1>5, CarvedBlockSound DEF AreSeqs, SoundSeq
<1>11. ASSUME NEW k \in 1..n PROVE Regroups(found, B, D, k)
  <2>. DEFINE C == CarvedAt(tasks[k])
              p == Len(Together(B, k - 1))
  <2>1. Len(B[k]) = tasks[k].count /\ tasks[k].count \in Nat /\ tasks[k].start \in Nat
    BY <1>2, <1>6
  <2>2. AreSeqs(C, Len(B[k])) /\ found[k] = Together(C, Len(B[k]))
    BY <1>1, <1>2, <2>1, CarvedAtIsSeqs
  <2>3. ASSUME NEW j \in 1..Len(B[k]) PROVE C[j] = D[p + j]
    <3>. HIDE DEF B, D
    <3>1. p + j \in 1..Len(Together(B, n)) /\ Together(B, n)[p + j] = B[k][j]
      BY <1>9, TogetherPlace
    <3>2. p + j \in 1..m /\ InOrder[p + j] = tasks[k].start + j - 1
      BY <1>6, <1>7, <2>1, <3>1
    <3>3. D[p + j] = CarvedBlock(InOrder[p + j])
      BY <3>2 DEF D
    <3>4. C[j] = CarvedBlock(tasks[k].start + j - 1)
      BY <2>1 DEF CarvedAt
    <3>. QED BY <3>2, <3>3, <3>4
  <2>. HIDE DEF C, B, D
  <2>. QED BY <2>2, <2>3 DEF Regroups
<1>12. Together(found, n) = Together(D, m)
  <2>. HIDE DEF B, D
  <2>1. m = Len(Together(B, n))
    BY <1>7
  <2>. QED BY <1>9, <1>10, <1>11, <2>1, Regrouped
<1>. QED BY <1>2, <1>8, <1>9, <1>12 DEF Batched

---------------------------------------------------------------------------
(* What is emitted of the batches. *)

\* Every record emitted is remembered, with its grade or a better one.
Remembered == \A i \in DOMAIN emitted : emitted[i].key \in DOMAIN seen /\ emitted[i].conf <= seen[emitted[i].key]

Beats(e, f) == e.key = f.key => e.conf < f.conf
Ok(f)       == f.conf >= opts.min /\ (f.key \in live => opts.stale)

\* Of the first p records carved, those to emit, after c records of the tree.
Chosen(p, c) ==
    {i \in 1..p : /\ Ok(Carved[i])
                  /\ \A j \in 1..c : Beats(emitted[j], Carved[i])
                  /\ \A j \in 1..i-1 : Ok(Carved[j]) => Beats(Carved[j], Carved[i])}

\* The first p records carved have been dealt with, and those at q were emitted.
Dealt(p, c, q) ==
    /\ p \in 0..Len(Carved) /\ c \in 0..Len(emitted)
    /\ \A i \in 1..Len(emitted) : emitted[i].source # "blocks" <=> i <= c
    /\ Enumerates(q, Chosen(p, c)) /\ Len(emitted) = c + Len(q)
    /\ \A i \in 1..Len(q) : emitted[c + i] = Reported(Carved[q[i]], "blocks")
    /\ \A j \in 1..p : Ok(Carved[j]) =>
          \E i \in 1..Len(emitted) : emitted[i].key = Carved[j].key /\ Carved[j].conf <= emitted[i].conf

\* Sequences of records that can be compared.
Comparable ==
    /\ IsSeq(emitted) /\ \A i \in DOMAIN emitted : emitted[i].conf \in Nat
    /\ IsSeq(Carved) /\ \A i \in DOMAIN Carved : Carved[i].conf \in Nat

\* The grade of a carved record is that of the block it is from.
LEMMA CarvedIsGraded ==
    ASSUME job \in Volumes PROVE IsSeq(Carved) /\ \A i \in DOMAIN Carved : Carved[i].conf \in Nat
<1>. DEFINE m == Len(InOrder)
            D == [i \in 1..m |-> CarvedBlock(InOrder[i])]
<1>1. FreeBlocks \in SUBSET Nat /\ IsFiniteSet(FreeBlocks)
  <2>1. job.bitmap.total \in Nat
    BY BitmapFacts
  <2>2. IsFiniteSet(0 .. job.bitmap.total - 1)
    BY <2>1, FS_Interval
  <2>. QED BY <2>2, BitmapFacts, FS_Subset DEF FreeBlocks
<1>2. IsSeq(InOrder)
  BY <1>1, AscendingEnumerates DEF InOrder, Enumerates
<1>3. m \in Nat /\ DOMAIN InOrder = 1..m
  BY <1>2, SeqFacts
<1>4. Carved = Together(D, m)
  <2>1. [i \in 1..m |-> D[i]] = D
    OBVIOUS
  <2>2. Carved = FlattenSeq(D)
    BY <1>3 DEF Carved
  <2>. QED BY <2>1, <2>2 DEF Together
<1>5. AreSeqs(D, m) /\ \A k \in 1..m : \A j \in DOMAIN D[k] : D[k][j].conf \in Nat
  BY <1>3, CarvedBlockSound DEF AreSeqs, SoundSeq, Sound
<1>. HIDE DEF D
<1>6. IsSeq(Together(D, m))
  <2>1. m \in 0..m
    BY <1>3
  <2>. QED BY ONLY <1>5, <2>1, TogetherFacts
<1>7. ASSUME NEW i \in DOMAIN Carved PROVE Carved[i].conf \in Nat
  <2>1. i \in 1..Len(Together(D, m))
    BY <1>4, <1>6, SeqFacts
  <2>2. PICK k \in 1..m : \E j \in 1..Len(D[k]) : Together(D, m)[i] = D[k][j]
    BY ONLY <1>3, <1>5, <2>1, TogetherWhere
  <2>3. PICK j \in 1..Len(D[k]) : Together(D, m)[i] = D[k][j]
    BY <2>2
  <2>4. j \in DOMAIN D[k]
    BY <1>5, SeqFacts DEF AreSeqs
  <2>. QED BY <1>4, <1>5, <2>3, <2>4
<1>. QED BY <1>4, <1>6, <1>7

\* A record is known if one emitted is as good, and only then.
LEMMA KnownIs ==
    ASSUME SeenInv, Remembered, Comparable, NEW f, f.conf \in Nat
    PROVE  Known(f) <=> \E i \in 1..Len(emitted) : emitted[i].key = f.key /\ f.conf <= emitted[i].conf
<1>0. DOMAIN emitted = 1..Len(emitted)
  BY SeqFacts DEF Comparable
<1>1. ASSUME Known(f)
      PROVE  \E i \in 1..Len(emitted) : emitted[i].key = f.key /\ f.conf <= emitted[i].conf
  <2>1. PICK i \in DOMAIN emitted : emitted[i].key = f.key /\ emitted[i].conf = seen[f.key]
    BY <1>1 DEF SeenInv, Known
  <2>2. emitted[i].conf \in Nat /\ seen[f.key] >= f.conf
    BY <1>1 DEF Comparable, Known
  <2>. QED BY <1>0, <2>1, <2>2
<1>2. ASSUME NEW i \in 1..Len(emitted), emitted[i].key = f.key, f.conf <= emitted[i].conf
      PROVE  Known(f)
  <2>1. f.key \in DOMAIN seen /\ emitted[i].conf <= seen[f.key] /\ emitted[i].conf \in Nat
    BY <1>0, <1>2 DEF Remembered, Comparable
  <2>2. seen[f.key] \in Nat
    <3>1. PICK j \in DOMAIN emitted : emitted[j].key = f.key /\ emitted[j].conf = seen[f.key]
      BY <2>1 DEF SeenInv
    <3>. QED BY <3>1 DEF Comparable
  <2>. QED BY <1>2, <2>1, <2>2 DEF Known
<1>. QED BY <1>1, <1>2

\* The next record is wanted if it is to be emitted, and only then.
LEMMA WantedIsChosen ==
    ASSUME SeenInv, Remembered, Comparable, NEW p, NEW c, NEW q, Dealt(p, c, q),
           p + 1 \in 1..Len(Carved)
    PROVE  /\ Wanted(Carved[p + 1]) <=> p + 1 \in Chosen(p + 1, c)
           /\ p \in Nat /\ \A x \in Chosen(p, c) : x \in 1..p
           /\ \A x \in 1..p : x \in Chosen(p + 1, c) <=> x \in Chosen(p, c)
<1>. DEFINE f == Carved[p + 1]
<1>0. /\ p \in Nat /\ c \in Nat /\ c <= Len(emitted) /\ Len(emitted) \in Nat /\ DOMAIN emitted = 1..Len(emitted)
      /\ DOMAIN Carved = 1..Len(Carved) /\ Len(Carved) \in Nat /\ p \in 0..Len(Carved)
  BY SeqFacts DEF Comparable, Dealt
<1>1. f.conf \in Nat
  BY <1>0 DEF Comparable
<1>2. Wanted(f) <=> Ok(f) /\ ~Known(f)
  BY DEF Wanted, Ok
<1>3. ASSUME Ok(f), ~Known(f) PROVE p + 1 \in Chosen(p + 1, c)
  <2>1. \A i \in 1..Len(emitted) : Beats(emitted[i], f)
    BY <1>0, <1>1, <1>3, KnownIs DEF Beats, Comparable
  <2>2. \A j \in 1..c : Beats(emitted[j], f)
    BY <1>0, <2>1
  <2>3. ASSUME NEW j \in 1..(p + 1) - 1, Ok(Carved[j]) PROVE Beats(Carved[j], f)
    <3>0. j \in 1..p /\ j \in 1..Len(Carved)
      BY <1>0
    <3>1. PICK i \in 1..Len(emitted) : emitted[i].key = Carved[j].key /\ Carved[j].conf <= emitted[i].conf
      BY <2>3, <3>0 DEF Dealt
    <3>2. Carved[j].conf \in Nat /\ emitted[i].conf \in Nat
      BY <1>0, <3>0 DEF Comparable
    <3>3. Beats(emitted[i], f)
      BY <2>1
    <3>. HIDE DEF f
    <3>. QED BY <1>1, <3>1, <3>2, <3>3 DEF Beats
  <2>4. p + 1 \in 1..p + 1
    BY <1>0
  <2>. QED BY <1>3, <2>2, <2>3, <2>4 DEF Chosen
<1>4. ASSUME p + 1 \in Chosen(p + 1, c) PROVE Ok(f) /\ ~Known(f)
  <2>1. /\ Ok(f) /\ \A j \in 1..c : Beats(emitted[j], f)
        /\ \A j \in 1..p : Ok(Carved[j]) => Beats(Carved[j], f)
    BY <1>0, <1>4 DEF Chosen
  <2>2. ASSUME NEW i \in 1..Len(emitted), emitted[i].key = f.key, f.conf <= emitted[i].conf PROVE FALSE
    <3>0. emitted[i].conf \in Nat
      BY <1>0 DEF Comparable
    <3>1. CASE i <= c
      <4>1. i \in 1..c
        BY <1>0, <3>1
      <4>2. Beats(emitted[i], f)
        BY <2>1, <4>1
      <4>. HIDE DEF f
      <4>. QED BY <1>1, <2>2, <3>0, <4>2 DEF Beats
    <3>2. CASE ~(i <= c)
      <4>0. Len(emitted) = c + Len(q) /\ IsSeq(q) /\ \A k \in 1..Len(q) : q[k] \in Chosen(p, c)
        BY DEF Dealt, Enumerates
      <4>1. PICK k : k = i - c
        OBVIOUS
      <4>2. Len(q) \in Nat
        BY <4>0, SeqFacts
      <4>3. k \in 1..Len(q) /\ i = c + k
        BY ONLY <1>0, i \in 1..Len(emitted), <3>2, <4>0, <4>1, <4>2
      <4>4. emitted[i] = Reported(Carved[q[k]], "blocks") /\ q[k] \in Chosen(p, c)
        BY <4>0, <4>3 DEF Dealt
      <4>5. emitted[i].key = Carved[q[k]].key /\ emitted[i].conf = Carved[q[k]].conf
        BY <4>4 DEF Reported
      <4>6. q[k] \in 1..p /\ Ok(Carved[q[k]])
        BY <4>4 DEF Chosen
      <4>7. Beats(Carved[q[k]], f)
        BY <2>1, <4>6
      <4>. HIDE DEF f
      <4>. QED BY <1>1, <2>2, <3>0, <4>5, <4>7 DEF Beats
    <3>. QED BY <3>1, <3>2
  <2>3. ~Known(f)
    BY <1>1, <2>2, KnownIs
  <2>. QED BY <2>1, <2>3
<1>5. \A x \in Chosen(p, c) : x \in 1..p
  BY DEF Chosen
<1>6. \A x \in 1..p : x \in Chosen(p + 1, c) <=> x \in Chosen(p, c)
  <2>1. \A x \in 1..p : x \in 1..p + 1
    BY <1>0
  <2>. QED BY <2>1 DEF Chosen
<1>. QED BY <1>0, <1>2, <1>3, <1>4, <1>5, <1>6

\* Nothing of it changes when nothing is emitted.
LEMMA DealtStays ==
    ASSUME UNCHANGED <<fixed, live, emitted>>, NEW p, NEW c, NEW q, Dealt(p, c, q)
    PROVE  Dealt(p, c, q)'
<1>1. Carved' = Carved
  BY CarvedStays
<1>2. opts' = opts /\ live' = live /\ emitted' = emitted
  BY DEF fixed
<1>3. \A f : Ok(f)' <=> Ok(f)
  BY <1>2 DEF Ok
<1>4. Chosen(p, c)' = Chosen(p, c)
  BY <1>1, <1>2, <1>3 DEF Chosen
<1>5. \A f, s : Reported(f, s)' = Reported(f, s)
  BY <1>2 DEF Reported
<1>. QED BY <1>1, <1>2, <1>3, <1>4, <1>5 DEF Dealt

\* The next record carved is not wanted.
LEMMA DealtPasses ==
    ASSUME SeenInv, Remembered, Comparable, NEW p, NEW c, NEW q, Dealt(p, c, q),
           p + 1 \in 1..Len(Carved), ~Wanted(Carved[p + 1])
    PROVE  Dealt(p + 1, c, q)
<1>1. /\ p + 1 \notin Chosen(p + 1, c) /\ p \in Nat
      /\ \A x \in 1..p : x \in Chosen(p + 1, c) <=> x \in Chosen(p, c)
  BY WantedIsChosen
<1>2. Len(Carved) \in Nat /\ DOMAIN Carved = 1..Len(Carved)
  BY SeqFacts DEF Comparable
<1>3. \A x \in 1..p + 1 : x \in 1..p \/ x = p + 1
  BY <1>1
<1>4. Chosen(p + 1, c) = Chosen(p, c)
  <2>1. \A x \in Chosen(p + 1, c) : x \in 1..p + 1
    BY DEF Chosen
  <2>2. \A x \in Chosen(p, c) : x \in 1..p
    BY DEF Chosen
  <2>. QED BY <1>1, <1>3, <2>1, <2>2
<1>5. ASSUME NEW j \in 1..p + 1, Ok(Carved[j])
      PROVE  \E i \in 1..Len(emitted) : emitted[i].key = Carved[j].key /\ Carved[j].conf <= emitted[i].conf
  <2>1. CASE j \in 1..p
    BY <1>5, <2>1 DEF Dealt
  <2>2. CASE j = p + 1
    <3>1. Known(Carved[p + 1])
      BY <1>5, <2>2 DEF Wanted, Ok
    <3>2. Carved[p + 1].conf \in Nat
      BY <1>2 DEF Comparable
    <3>. QED BY <2>2, <3>1, <3>2, KnownIs
  <2>. QED BY <1>3, <2>1, <2>2
<1>6. p + 1 \in 0..Len(Carved)
  BY <1>2
<1>. QED BY <1>4, <1>5, <1>6 DEF Dealt

\* The next record carved is emitted.
LEMMA DealtEmits ==
    ASSUME SeenInv, Remembered, Comparable, UNCHANGED <<fixed, live>>, NEW p, NEW c, NEW q, Dealt(p, c, q),
           p + 1 \in 1..Len(Carved), Wanted(Carved[p + 1]),
           emitted' = Append(emitted, Reported(Carved[p + 1], "blocks"))
    PROVE  Dealt(p + 1, c, Append(q, p + 1))'
<1>. DEFINE f == Carved[p + 1]
            e == Reported(f, "blocks")
            n == Len(emitted)
            r == Append(q, p + 1)
<1>1. /\ p + 1 \in Chosen(p + 1, c) /\ p \in Nat /\ \A x \in Chosen(p, c) : x \in 1..p
      /\ \A x \in 1..p : x \in Chosen(p + 1, c) <=> x \in Chosen(p, c)
  BY WantedIsChosen
<1>2. /\ Len(Carved) \in Nat /\ n \in Nat /\ IsSeq(emitted) /\ IsSeq(q) /\ c \in 0..n /\ n = c + Len(q)
      /\ p + 1 \in 0..Len(Carved) /\ Len(q) \in Nat
  BY SeqFacts DEF Comparable, Dealt, Enumerates
<1>3. Carved' = Carved /\ opts' = opts /\ live' = live
  BY CarvedStays DEF fixed
<1>4. (\A g : Ok(g)' <=> Ok(g)) /\ (\A g, s : Reported(g, s)' = Reported(g, s))
  BY <1>3 DEF Ok, Reported
<1>5. /\ e.source = "blocks" /\ e.key = f.key /\ e.conf = f.conf
  BY DEF Reported
<1>. HIDE DEF e
<1>6. IsSeq(emitted') /\ Len(emitted') = n + 1 /\ emitted'[n + 1] = e /\ \A i \in 1..n : emitted'[i] = emitted[i]
  <2>1. emitted' = Append(emitted, e)
    BY DEF e
  <2>2. PICK S : emitted \in Seq(S)
    BY <1>2 DEF IsSeq
  <2>3. emitted \in Seq(S \union {e})
    BY <2>2
  <2>. QED BY <2>1, <2>3 DEF IsSeq
<1>7. IsSeq(r) /\ Len(r) = Len(q) + 1 /\ r[Len(q) + 1] = p + 1 /\ \A i \in 1..Len(q) : r[i] = q[i]
  <2>1. PICK S : q \in Seq(S)
    BY <1>2 DEF IsSeq
  <2>2. q \in Seq(S \union {p + 1})
    BY <2>1
  <2>. QED BY <2>2 DEF IsSeq
<1>. HIDE DEF r, n
<1>8. \A i \in 1..Len(q) + 1 : i \in 1..Len(q) \/ i = Len(q) + 1
  BY <1>2
<1>9. Chosen(p + 1, c)' = Chosen(p + 1, c)
  <2>1. \A j \in 1..c : emitted'[j] = emitted[j]
    BY <1>2, <1>6
  <2>. QED BY <1>3, <1>4, <2>1 DEF Chosen
<1>10. Enumerates(r, Chosen(p + 1, c))
  <2>1. \A x \in Chosen(p, c) : x \in Chosen(p + 1, c)
    BY <1>1
  <2>2. \A x \in Chosen(p + 1, c) : x \in Chosen(p, c) \/ x = p + 1
    <3>1. \A x \in Chosen(p + 1, c) : x \in 1..p \/ x = p + 1
      BY <1>1 DEF Chosen
    <3>. QED BY <1>1, <3>1
  <2>3. /\ \A i \in 1..Len(q) : q[i] \in Chosen(p, c)
        /\ \A x \in Chosen(p, c) : \E i \in 1..Len(q) : q[i] = x
        /\ \A i, j \in 1..Len(q) : i < j => q[i] < q[j]
    BY DEF Dealt, Enumerates
  <2>4. \A i \in 1..Len(r) : r[i] \in Chosen(p + 1, c)
    BY <1>1, <1>7, <1>8, <2>1, <2>3
  <2>5. ASSUME NEW x \in Chosen(p + 1, c) PROVE \E i \in 1..Len(r) : r[i] = x
    <3>1. \A i \in 1..Len(q) : i \in 1..Len(r)
      BY <1>2, <1>7
    <3>2. Len(q) + 1 \in 1..Len(r)
      BY <1>2, <1>7
    <3>. QED BY <1>7, <2>2, <2>3, <3>1, <3>2
  <2>6. ASSUME NEW i \in 1..Len(r), NEW j \in 1..Len(r), i < j PROVE r[i] < r[j]
    <3>1. i \in 1..Len(q)
      BY <1>2, <1>7, <2>6
    <3>2. CASE j \in 1..Len(q)
      BY <1>7, <2>3, <2>6, <3>1, <3>2
    <3>3. CASE j = Len(q) + 1
      <4>1. r[i] \in 1..p
        BY <1>1, <1>7, <2>3, <3>1
      <4>2. r[j] = p + 1
        BY <1>7, <3>3
      <4>. QED BY <1>1, <4>1, <4>2
    <3>. QED BY <1>7, <1>8, <3>2, <3>3
  <2>. QED BY <1>7, <2>4, <2>5, <2>6 DEF Enumerates
<1>11. ASSUME NEW i \in 1..Len(emitted') PROVE emitted'[i].source # "blocks" <=> i <= c
  <2>1. CASE i \in 1..n
    BY <1>6, <2>1 DEF Dealt, n
  <2>2. CASE i = n + 1
    BY <1>2, <1>5, <1>6, <2>2
  <2>. QED BY <1>2, <1>6, <2>1, <2>2
<1>12. ASSUME NEW i \in 1..Len(r) PROVE emitted'[c + i] = Reported(Carved[r[i]], "blocks")
  <2>1. CASE i \in 1..Len(q)
    <3>1. c + i \in 1..n
      BY <1>2, <2>1
    <3>2. emitted[c + i] = Reported(Carved[q[i]], "blocks")
      BY <2>1 DEF Dealt
    <3>. QED BY <1>6, <1>7, <2>1, <3>1, <3>2
  <2>2. CASE i = Len(q) + 1
    <3>1. c + i = n + 1
      BY <1>2, <2>2
    <3>. QED BY <1>6, <1>7, <2>2, <3>1 DEF e
  <2>. QED BY <1>7, <1>8, <2>1, <2>2
<1>13. ASSUME NEW j \in 1..p + 1, Ok(Carved[j])
       PROVE  \E i \in 1..Len(emitted') : emitted'[i].key = Carved[j].key /\ Carved[j].conf <= emitted'[i].conf
  <2>1. CASE j \in 1..p
    <3>1. PICK i \in 1..n : emitted[i].key = Carved[j].key /\ Carved[j].conf <= emitted[i].conf
      BY <1>13, <2>1 DEF Dealt, n
    <3>2. i \in 1..Len(emitted')
      BY <1>2, <1>6
    <3>. QED BY <1>6, <3>1, <3>2
  <2>2. CASE j = p + 1
    <3>1. n + 1 \in 1..Len(emitted')
      BY <1>2, <1>6
    <3>2. f.conf \in Nat
      BY SeqFacts DEF Comparable
    <3>. QED BY <1>5, <1>6, <2>2, <3>1, <3>2
  <2>. QED BY <1>1, <2>1, <2>2
<1>14. c \in 0..Len(emitted') /\ Len(emitted') = c + Len(r)
  BY <1>2, <1>6, <1>7
<1>15. \A i \in 1..Len(r) : emitted'[c + i] = Reported(Carved[r[i]], "blocks")'
  BY <1>3, <1>4, <1>12
<1>. QED BY <1>2, <1>3, <1>4, <1>9, <1>10, <1>11, <1>13, <1>14, <1>15 DEF Dealt, r

\* Before the batches none of it has been dealt with.
LEMMA DealtStarts ==
    ASSUME Comparable, \A i \in DOMAIN emitted : emitted[i].source # "blocks"
    PROVE  Dealt(0, Len(emitted), <<>>)
<1>1. Len(emitted) \in Nat /\ DOMAIN emitted = 1..Len(emitted) /\ Len(Carved) \in Nat
  BY SeqFacts DEF Comparable
<1>2. Chosen(0, Len(emitted)) = {}
  BY DEF Chosen
<1>3. Enumerates(<<>>, {})
  BY DEF Enumerates, IsSeq
<1>4. 0 \in 0..Len(Carved) /\ Len(emitted) \in 0..Len(emitted) /\ Len(emitted) = Len(emitted) + Len(<<>>)
  BY <1>1
<1>5. \A i \in 1..Len(emitted) : emitted[i].source # "blocks" <=> i <= Len(emitted)
  BY <1>1
<1>6. Len(<<>>) = 0 /\ 1..0 = {}
  OBVIOUS
<1>. QED BY <1>2, <1>3, <1>4, <1>5, <1>6 DEF Dealt

LEMMA PartFacts ==
    ASSUME NEW s, IsSeq(s), NEW a \in Nat, NEW n \in Nat, a + n <= Len(s)
    PROVE  LET t == SubSeq(s, a + 1, a + n)
           IN  IsSeq(t) /\ Len(t) = n /\ \A i \in 1..n : t[i] = s[a + i]
<1>1. PICK S : s \in Seq(S)
  BY DEF IsSeq
<1>2. Len(s) \in Nat /\ \A i \in 1..n : a + i \in 1..Len(s)
  BY <1>1
<1>3. PICK x, y : x = a + 1 /\ y = a + n
  OBVIOUS
<1>4. x \in 1..Len(s)+1 /\ y \in x-1..Len(s)
  BY <1>2, <1>3
<1>5. SubSeq(s, x, y) \in Seq(S) /\ Len(SubSeq(s, x, y)) = y - x + 1
  BY <1>1, <1>2, <1>4
<1>6. y - x + 1 = n
  BY <1>3
<1>7. ASSUME NEW i \in 1..n PROVE SubSeq(s, x, y)[i] = s[a + i]
  <2>1. i \in 1..(y - x + 1) /\ x + i - 1 = a + i
    BY <1>3, <1>6
  <2>2. SubSeq(s, x, y)[i] = s[x + i - 1]
    BY <1>1, <1>2, <1>4, <2>1
  <2>. QED BY <2>1, <2>2
<1>. QED BY <1>3, <1>5, <1>6, <1>7 DEF IsSeq

LEMMA FirstFacts ==
    ASSUME NEW s, IsSeq(s), NEW n \in Nat, n <= Len(s)
    PROVE  IsSeq(SubSeq(s, 1, n)) /\ Len(SubSeq(s, 1, n)) = n /\ \A i \in 1..n : SubSeq(s, 1, n)[i] = s[i]
<1>1. PICK S : s \in Seq(S)
  BY DEF IsSeq
<1>2. SubSeq(s, 1, n) \in Seq(S) /\ Len(SubSeq(s, 1, n)) = n
  BY <1>1
<1>3. \A i \in 1..n : SubSeq(s, 1, n)[i] = s[i]
  BY <1>1
<1>. QED BY <1>2, <1>3 DEF IsSeq

\* What was emitted of the batches is the first of the best, and all of them when all
\* has been dealt with.
LEMMA DealtIsBest ==
    ASSUME Comparable, NEW p, NEW c, NEW q, Dealt(p, c, q)
    PROVE  IsPrefix(FromBlocks, Best(Carved)) /\ (p = Len(Carved) => FromBlocks = Best(Carved))
<1>. DEFINE n == Len(emitted)
            m == Len(Carved)
            S == Chosen(m, c)
            at == Ascending(S)
            best == [i \in DOMAIN at |-> Reported(Carved[at[i]], "blocks")]
<1>1. /\ n \in Nat /\ DOMAIN emitted = 1..n /\ m \in Nat /\ DOMAIN Carved = 1..m /\ IsSeq(emitted)
      /\ c \in 0..n /\ n = c + Len(q) /\ p \in 0..m /\ IsSeq(q) /\ Len(q) \in Nat /\ Enumerates(q, Chosen(p, c))
  BY SeqFacts DEF Comparable, Dealt, Enumerates
<1>2. TreeCount = c
  <2>1. {i \in DOMAIN emitted : emitted[i].source # "blocks"} = 1..c
    BY <1>1 DEF Dealt
  <2>2. Cardinality(1..c) = c
    BY <1>1, FS_Interval
  <2>. QED BY <2>1, <2>2 DEF TreeCount
<1>3. DOMAIN FromTree = 1..c /\ \A j \in 1..c : FromTree[j] = emitted[j]
  <2>1. c \in Nat /\ c <= Len(emitted)
    BY <1>1
  <2>2. IsSeq(FromTree) /\ Len(FromTree) = c /\ \A i \in 1..c : FromTree[i] = emitted[i]
    BY <1>1, <1>2, <2>1, FirstFacts DEF FromTree
  <2>. QED BY <2>2, SeqFacts
<1>4. IsSeq(FromBlocks) /\ Len(FromBlocks) = Len(q) /\ \A i \in 1..Len(q) : FromBlocks[i] = emitted[c + i]
  <2>1. c \in Nat /\ c + Len(q) <= n
    BY <1>1
  <2>2. LET t == SubSeq(emitted, c + 1, c + Len(q))
        IN  IsSeq(t) /\ Len(t) = Len(q) /\ \A i \in 1..Len(q) : t[i] = emitted[c + i]
    BY <1>1, <2>1, PartFacts
  <2>. QED BY <1>1, <1>2, <2>2 DEF FromBlocks
<1>5. S \in SUBSET Nat /\ IsFiniteSet(S) /\ \A x \in S : x \in 1..m
  <2>1. \A x \in S : x \in 1..m
    BY DEF Chosen
  <2>2. IsFiniteSet(1..m)
    BY <1>1, FS_Interval
  <2>. HIDE DEF S
  <2>3. S \subseteq 1..m
    BY <2>1
  <2>4. IsFiniteSet(S)
    BY <2>2, <2>3, FS_Subset
  <2>5. S \in SUBSET Nat
    BY <1>1, <2>1
  <2>. QED BY <2>1, <2>4, <2>5
<1>6. S = {i \in DOMAIN Carved :
              /\ Carved[i].conf >= opts.min /\ (Carved[i].key \in live => opts.stale)
              /\ \A j \in DOMAIN FromTree : FromTree[j].key = Carved[i].key => FromTree[j].conf < Carved[i].conf
              /\ \A j \in 1..i-1 : Carved[j].conf >= opts.min /\ (Carved[j].key \in live => opts.stale) =>
                    (Carved[j].key = Carved[i].key => Carved[j].conf < Carved[i].conf)}
  BY <1>1, <1>3 DEF Chosen, Ok, Beats
<1>7. Best(Carved) = best
  BY <1>6 DEF Best
<1>8. Enumerates(at, S)
  <2>. HIDE DEF S
  <2>. QED BY <1>5, AscendingEnumerates
<1>. HIDE DEF S
<1>9. Len(at) \in Nat /\ DOMAIN at = 1..Len(at)
  BY <1>8, SeqFacts DEF Enumerates
<1>. HIDE DEF at
<1>10. IsSeq(best) /\ Len(best) = Len(at) /\ \A i \in 1..Len(at) : best[i] = Reported(Carved[at[i]], "blocks")
  <2>1. best = [i \in 1..Len(at) |-> best[i]] /\ \A i \in 1..Len(at) : best[i] = Reported(Carved[at[i]], "blocks")
    BY <1>9
  <2>. HIDE DEF best
  <2>. QED BY <1>9, <2>1, MakesSeq
<1>11. Len(q) <= Len(at) /\ \A i \in 1..Len(q) : i \in 1..Len(at) /\ q[i] = at[i]
  <2>1. PICK T : T = Chosen(p, c)
    OBVIOUS
  <2>2. T \in SUBSET S
    <3>1. \A x \in 1..p : x \in 1..m
      BY <1>1
    <3>2. ASSUME NEW x \in Chosen(p, c) PROVE x \in Chosen(m, c)
      BY <3>1 DEF Chosen
    <3>. QED BY <2>1, <3>2 DEF S
  <2>3. ASSUME NEW x \in T, NEW y \in S \ T PROVE x < y
    <3>1. x \in 1..p
      BY <2>1 DEF Chosen
    <3>2. y \in 1..m
      BY <1>5
    <3>3. ~(y <= p)
      <4>. SUFFICES ASSUME y <= p PROVE FALSE
        OBVIOUS
      <4>1. y \in 1..p
        BY <1>1, <3>2
      <4>2. y \in Chosen(p, c)
        BY <4>1 DEF Chosen, S
      <4>. QED BY <2>1, <4>2
    <3>. QED BY <1>1, <3>1, <3>2, <3>3
  <2>4. Enumerates(q, T) /\ S \in SUBSET Nat
    BY <1>1, <1>5, <2>1
  <2>. QED BY ONLY <1>8, <2>2, <2>3, <2>4, FrontOf
<1>. HIDE DEF best
<1>12. \A i \in 1..Len(q) : i \in 1..Len(best) /\ FromBlocks[i] = best[i]
  BY <1>4, <1>10, <1>11 DEF Dealt
<1>13. IsPrefix(FromBlocks, best)
  <2>1. Len(q) \in Nat /\ Len(q) <= Len(best) /\ Len(q) <= Len(FromBlocks)
    BY <1>1, <1>4, <1>9, <1>10, <1>11
  <2>2. PICK u, v : u = SubSeq(FromBlocks, 1, Len(FromBlocks)) /\ v = SubSeq(best, 1, Len(FromBlocks))
    OBVIOUS
  <2>3. IsSeq(u) /\ Len(u) = Len(q) /\ \A i \in 1..Len(q) : u[i] = FromBlocks[i]
    BY <1>4, <2>1, <2>2, FirstFacts
  <2>4. IsSeq(v) /\ Len(v) = Len(q) /\ \A i \in 1..Len(q) : v[i] = best[i]
    BY <1>4, <1>10, <2>1, <2>2, FirstFacts
  <2>5. u = v
    BY <1>12, <2>3, <2>4, SameSeq
  <2>. QED BY <1>4, <1>10, <1>11, <2>2, <2>5 DEF IsPrefix
<1>14. ASSUME p = m PROVE FromBlocks = best
  <2>1. Enumerates(q, S)
    BY <1>1, <1>14 DEF S
  <2>2. q = at
    BY <1>5, <1>8, <2>1, EnumerationUnique
  <2>3. Len(FromBlocks) = Len(best)
    BY <1>4, <1>10, <2>2
  <2>. QED BY <1>4, <1>10, <1>12, <2>3, SameSeq
<1>. QED BY <1>7, <1>13, <1>14

---------------------------------------------------------------------------
(* The order in which the callback sees the batches. *)

Position     == Len(Together(found, num - 1)) + off - 1
SomeDealt    == \E p, c, q : Dealt(p, c, q)
NoneOfBlocks == \A i \in DOMAIN emitted : emitted[i].source # "blocks"
InFront      == IsPrefix(FromBlocks, Best(Carved))
AllOfThem    == FromBlocks = Best(Carved)

\* While the batches are emitted, all before the position has been dealt with.
BatchInv ==
    phase = "emit" =>
        /\ num \in 1..Len(tasks) + 1
        /\ num \in Tasks => off \in 1..Len(found[num]) + 1
        /\ num \notin Tasks => off = 1
        /\ \E c, q : Dealt(Position, c, q)

SeqInv == TaskInv /\ MissInv /\ Remembered /\ BatchInv /\ SameAsSequential

LEMMA ComparableNow == TaskInv => Comparable
BY CarvedIsGraded DEF TaskInv, GradeInv, Grades, RecInv, Places, Emissions, Sound, Comparable

LEMMA DealtIsInFront == Comparable /\ SomeDealt => InFront
BY DealtIsBest DEF SomeDealt, InFront

LEMMA NoneIsInFront == Comparable /\ NoneOfBlocks => InFront
BY DealtStarts, DealtIsInFront DEF SomeDealt, NoneOfBlocks

\* What is emitted is remembered.
LEMMA EmitRemembers ==
    ASSUME SeenInv, Remembered, Comparable, NEW f, f.conf \in Nat, NEW source, Emit(f, source)
    PROVE  Remembered'
<1>. DEFINE e == Reported(f, source)
<1>1. e.key = f.key /\ e.conf = f.conf
  BY DEF Reported
<1>2. CASE ~Wanted(f)
  BY <1>2 DEF Emit, Remembered
<1>3. CASE Wanted(f)
  <2>1. /\ seen' = [k \in DOMAIN seen \union {f.key} |-> IF k = f.key THEN f.conf ELSE seen[k]]
        /\ emitted' = Append(emitted, e) /\ ~Known(f)
    BY <1>3 DEF Emit, Wanted
  <2>. HIDE DEF e
  <2>2. /\ Len(emitted) \in Nat /\ DOMAIN emitted = 1..Len(emitted)
        /\ DOMAIN emitted' = 1..(Len(emitted) + 1) /\ emitted'[Len(emitted) + 1] = e
        /\ \A i \in DOMAIN emitted : emitted'[i] = emitted[i]
    BY <2>1, AppendIsSeq DEF Comparable
  <2>3. \A i \in DOMAIN emitted' : i \in DOMAIN emitted \/ i = Len(emitted) + 1
    BY <2>2
  <2>4. ASSUME NEW i \in DOMAIN emitted
        PROVE  emitted[i].key \in DOMAIN seen' /\ emitted[i].conf <= seen'[emitted[i].key]
    <3>1. emitted[i].key \in DOMAIN seen /\ emitted[i].conf <= seen[emitted[i].key] /\ emitted[i].conf \in Nat
      BY DEF Remembered, Comparable
    <3>2. CASE emitted[i].key # f.key
      BY <2>1, <3>1, <3>2
    <3>3. CASE emitted[i].key = f.key
      <4>1. seen'[f.key] = f.conf /\ f.key \in DOMAIN seen'
        BY <2>1
      <4>2. ~(f.conf <= emitted[i].conf)
        BY <2>1, <2>2, <3>3, KnownIs
      <4>. QED BY <3>1, <3>3, <4>1, <4>2
    <3>. QED BY <3>2, <3>3
  <2>5. e.key \in DOMAIN seen' /\ e.conf <= seen'[e.key]
    BY <1>1, <2>1
  <2>. QED BY <2>2, <2>3, <2>4, <2>5 DEF Remembered
<1>. QED BY <1>2, <1>3

\* A step that emits nothing leaves what has been said of the end.
LEMMA FrontStays ==
    ASSUME UNCHANGED <<fixed, live, emitted>>
    PROVE  (InFront' <=> InFront) /\ (AllOfThem' <=> AllOfThem)
<1>1. Carved' = Carved
  BY CarvedStays
<1>2. opts' = opts /\ live' = live /\ emitted' = emitted
  BY DEF fixed
<1>3. FromTree' = FromTree /\ FromBlocks' = FromBlocks
  BY <1>2 DEF FromTree, FromBlocks, TreeCount
<1>4. Best(Carved)' = Best(Carved)
  BY <1>1, <1>2, <1>3 DEF Best, Reported
<1>. QED BY <1>3, <1>4 DEF InFront, AllOfThem

LEMMA PositionStays ==
    ASSUME UNCHANGED <<fixed, live, emitted, carved>>, UNCHANGED <<phase, num, off>>, BatchInv
    PROVE  BatchInv'
<1>1. tasks' = tasks /\ found' = found /\ Tasks' = Tasks /\ Position' = Position
  BY DEF carved, Tasks, Position, Together
<1>2. \A c, q : Dealt(Position, c, q) => Dealt(Position, c, q)'
  <2>. PICK p : p = Position
    OBVIOUS
  <2>1. \A c, q : Dealt(p, c, q) => Dealt(p, c, q)'
    BY DealtStays
  <2>2. \A c, q : Dealt(Position, c, q)' <=> Dealt(p, c, q)'
    BY <1>1 DEF Dealt, Chosen
  <2>. QED BY <2>1, <2>2
<1>. QED BY <1>1, <1>2 DEF BatchInv

\* Where the next record of a batch lies among all that were carved.
LEMMA PositionIs ==
    ASSUME Batched, num \in Tasks, off \in 1..Len(found[num]) + 1, IsSeq(found[num])
    PROVE  /\ Position \in Nat /\ num + 1 \in 1..Len(tasks) + 1
           /\ off \in DOMAIN found[num] => /\ Position + 1 \in 1..Len(Carved)
                                           /\ Carved[Position + 1] = found[num][off]
           /\ off \notin DOMAIN found[num] => Position = Len(Together(found, num))
<1>. DEFINE n == Len(tasks)
            a == Len(Together(found, num - 1))
            k == Len(found[num])
<1>1. n \in Nat /\ num \in 1..n /\ num - 1 \in 0..n /\ AreSeqs(found, n) /\ Carved = Together(found, n)
  BY DEF Batched, AreSeqs
<1>2. IsSeq(Together(found, num - 1)) /\ Len(Together(found, num)) = a + k
  BY ONLY <1>1, TogetherFacts
<1>3. a \in Nat /\ k \in Nat /\ DOMAIN found[num] = 1..k
  BY <1>2, SeqFacts
<1>4. Position = a + off - 1
  BY DEF Position
<1>5. ASSUME off \in 1..k PROVE a + off \in 1..Len(Carved) /\ Carved[a + off] = found[num][off]
  BY <1>1, <1>5, TogetherPlace
<1>. HIDE DEF a, k
<1>6. off \in 1..k + 1
  BY DEF k
<1>7. Position \in Nat /\ Position + 1 = a + off /\ (off \notin 1..k => Position = a + k)
  BY <1>3, <1>4, <1>6
<1>8. num + 1 \in 1..n + 1
  BY <1>1
<1>. QED BY <1>2, <1>3, <1>5, <1>7, <1>8

LEMMA EmitBatchOrder ==
    ASSUME SeqInv, EmitBatch PROVE Remembered' /\ BatchInv' /\ SameAsSequential'
<1>0. PICK p, f : p = Position /\ f = found[num][off]
  OBVIOUS
<1>1. /\ UNCHANGED <<fixed, live, carved>> /\ phase = "emit" /\ num \in Tasks
      /\ result = "none" /\ TaskInv /\ SeenInv /\ Remembered
  BY DEF EmitBatch, SeqInv, MissInv, TaskInv, CarveInv, RecInv, Emissions
<1>2. Comparable /\ Batched
  BY <1>1, ComparableNow, CarvedIsFound
<1>3. off \in 1..Len(found[num]) + 1 /\ IsSeq(found[num]) /\ \E c, q : Dealt(Position, c, q)
  BY <1>1 DEF SeqInv, BatchInv, TaskInv, GradeInv, Grades, SoundSeq, Tasks
<1>4. PICK c, q : Dealt(p, c, q)
  BY <1>0, <1>3
<1>5. /\ p \in Nat /\ num + 1 \in 1..Len(tasks) + 1
      /\ off \in DOMAIN found[num] => p + 1 \in 1..Len(Carved) /\ Carved[p + 1] = f
      /\ off \notin DOMAIN found[num] => p = Len(Together(found, num))
  BY <1>0, <1>1, <1>2, <1>3, PositionIs
<1>6. Comparable'
  <2>1. TaskInv'
    BY <1>1, TaskStep DEF Next
  <2>2. (TaskInv => Comparable)'
    BY ComparableNow, PTL
  <2>. QED BY <2>1, <2>2
<1>7. found' = found /\ tasks' = tasks /\ Tasks' = Tasks /\ \A k : Together(found, k)' = Together(found, k)
  BY <1>1 DEF carved, Tasks, Together
<1>8. (Comparable /\ SomeDealt => InFront)'
  BY DealtIsInFront, PTL
<1>9. CASE off \in DOMAIN found[num] /\ off' = off + 1 /\ UNCHANGED num /\ Emit(found[num][off], "blocks")
  <2>0. Emit(f, "blocks")
    BY <1>0, <1>9 DEF Emit, Wanted, Known, Reported
  <2>1. p + 1 \in 1..Len(Carved) /\ Carved[p + 1] = f /\ f.conf \in Nat
    <3>1. p + 1 \in 1..Len(Carved) /\ Carved[p + 1] = f
      BY <1>5, <1>9
    <3>2. f.conf \in Nat
      BY <1>2, <3>1, SeqFacts DEF Comparable
    <3>. QED BY <3>1, <3>2
  <2>2. Remembered'
    BY <1>1, <1>2, <2>0, <2>1, EmitRemembers
  <2>. PICK x : x = p + 1
    OBVIOUS
  <2>3. PICK r : Dealt(x, c, r)'
    <3>1. CASE ~Wanted(f)
      <4>1. Dealt(x, c, q)
        BY <1>1, <1>2, <1>4, <2>1, <3>1, DealtPasses
      <4>2. UNCHANGED emitted
        BY <2>0, <3>1 DEF Emit
      <4>3. Dealt(x, c, q)'
        BY <1>1, <4>1, <4>2, DealtStays
      <4>. QED BY <4>3
    <3>2. CASE Wanted(f)
      <4>1. emitted' = Append(emitted, Reported(f, "blocks"))
        BY <2>0, <3>2 DEF Emit
      <4>2. Dealt(p + 1, c, Append(q, p + 1))'
        BY <1>1, <1>2, <1>4, <2>1, <3>2, <4>1, DealtEmits
      <4>. QED BY <4>2
    <3>. QED BY <3>1, <3>2
  <2>4. UNCHANGED <<phase, result>> \/ (phase' = "done" /\ result' = "stopped")
    BY <2>0 DEF Emit, End_
  <2>5. SameAsSequential'
    <3>1. SomeDealt'
      BY <2>3 DEF SomeDealt
    <3>2. InFront'
      BY <1>6, <1>8, <3>1
    <3>. QED BY <1>1, <2>4, <3>2 DEF SameAsSequential, InFront
  <2>6. BatchInv'
    <3>1. off + 1 \in 1..Len(found[num]) + 1
      BY <1>3, <1>9, SeqFacts
    <3>2. Position' = x
      <4>1. Position' = Len(Together(found, num - 1)) + (off + 1) - 1
        BY <1>7, <1>9 DEF Position
      <4>2. off \in Nat /\ p = Len(Together(found, num - 1)) + off - 1
        BY <1>0, <1>3 DEF Position
      <4>3. Len(Together(found, num - 1)) \in Nat
        <5>1. num - 1 \in 0..Len(tasks) /\ AreSeqs(found, Len(tasks))
          BY <1>1, <1>2 DEF Batched, AreSeqs
        <5>2. IsSeq(Together(found, num - 1))
          BY ONLY <5>1, TogetherFacts
        <5>. QED BY <5>2, SeqFacts
      <4>. QED BY <4>1, <4>2, <4>3
    <3>3. \E c2, q2 : Dealt(Position, c2, q2)'
      BY <2>3, <3>2 DEF Dealt, Chosen
    <3>4. num \in 1..Len(tasks) + 1
      BY <1>1 DEF SeqInv, BatchInv
    <3>. QED BY <1>1, <1>7, <1>9, <2>4, <3>1, <3>3, <3>4 DEF BatchInv
  <2>. QED BY <2>2, <2>5, <2>6
<1>10. CASE off \notin DOMAIN found[num] /\ num' = num + 1 /\ off' = 1 /\ UNCHANGED <<phase, seen, emitted, result>>
  <2>1. Remembered'
    BY <1>1, <1>10 DEF Remembered
  <2>2. SameAsSequential'
    BY <1>1, <1>10 DEF SameAsSequential
  <2>3. Position' = p
    <3>1. num' - 1 = num
      BY <1>1, <1>2, <1>10 DEF Batched
    <3>2. Position' = Len(Together(found, num)) + 1 - 1
      <4>1. Position' = Len(Together(found', num' - 1)) + off' - 1
        BY DEF Position, Together
      <4>. QED BY <1>7, <1>10, <3>1, <4>1
    <3>3. p = Len(Together(found, num)) /\ p \in Nat
      BY <1>5, <1>10
    <3>. QED BY <3>2, <3>3
  <2>4. Dealt(Position, c, q)'
    <3>1. Dealt(p, c, q)'
      BY <1>1, <1>4, <1>10, DealtStays
    <3>. QED BY <2>3, <3>1 DEF Dealt, Chosen
  <2>5. num' \in Tasks => 1 \in 1..Len(found[num']) + 1
    <3>. SUFFICES ASSUME num' \in Tasks PROVE 1 \in 1..Len(found[num']) + 1
      OBVIOUS
    <3>1. IsSeq(found[num'])
      BY <1>1 DEF SeqInv, TaskInv, GradeInv, Grades, SoundSeq, Tasks
    <3>2. Len(found[num']) \in Nat
      BY <3>1, SeqFacts
    <3>. QED BY <3>2
  <2>6. BatchInv'
    BY <1>5, <1>7, <1>10, <2>4, <2>5 DEF BatchInv
  <2>. QED BY <2>1, <2>2, <2>6
<1>. QED BY <1>9, <1>10 DEF EmitBatch

LEMMA BatchesHold == TaskInv /\ phase = "emit" => Batched
BY CarvedIsFound

\* The batches start to be emitted.
LEMMA BatchesStart ==
    ASSUME SeqInv, UNCHANGED <<fixed, live, emitted>>, phase \notin {"emit", "done"},
           phase' = "emit", num' = 1, off' = 1, TaskInv'
    PROVE  BatchInv'
<1>1. TaskInv /\ NoneOfBlocks
  BY DEF SeqInv, TaskInv, CarveInv, RecInv, Emissions, NoneOfBlocks
<1>2. PICK c : c = Len(emitted)
  OBVIOUS
<1>3. Dealt(0, c, <<>>)
  BY <1>1, <1>2, ComparableNow, DealtStarts DEF NoneOfBlocks
<1>4. Dealt(0, c, <<>>)'
  BY <1>3, DealtStays
<1>5. Batched'
  <2>1. (TaskInv /\ phase = "emit" => Batched)'
    BY BatchesHold, PTL
  <2>. QED BY <2>1
<1>6. AreSeqs(found', Len(tasks')) /\ Len(tasks') \in Nat /\ Tasks' = 1..Len(tasks')
  BY <1>5 DEF Batched, AreSeqs, IsSeq
<1>7. Position' = 0
  <2>1. Together(found', 0) = <<>>
    BY <1>6, TogetherFacts
  <2>2. Position' = Len(Together(found', 1 - 1)) + 1 - 1
    BY DEF Position, Together
  <2>. QED BY <2>1, <2>2
<1>8. 1 \in 1..Len(tasks') + 1
  BY <1>6
<1>9. 1 \in Tasks' => 1 \in 1..Len(found'[1]) + 1
  <2>. SUFFICES ASSUME 1 \in Tasks' PROVE 1 \in 1..Len(found'[1]) + 1
    OBVIOUS
  <2>1. IsSeq(found'[1])
    BY <1>6 DEF AreSeqs
  <2>2. Len(found'[1]) \in Nat
    BY <2>1, SeqFacts
  <2>. QED BY <2>2
<1>10. Dealt(Position, c, <<>>)'
  BY <1>4, <1>7 DEF Dealt, Chosen
<1>. QED BY <1>8, <1>9, <1>10 DEF BatchInv

\* A scan of the tree emits nothing of blocks.
LEMMA TreeScanOrder ==
    ASSUME SeqInv, Scanning, phase # "emit", UNCHANGED <<fixed, live>>, TaskInv',
           NEW c, NEW source, NEW node, NEW byte, CarveOne(c, source, node, byte), source # "blocks"
    PROVE  Remembered' /\ BatchInv' /\ SameAsSequential'
<1>1. TaskInv /\ SeenInv /\ Remembered /\ Comparable /\ NoneOfBlocks /\ phase # "done" /\ result = "none"
  BY ComparableNow DEF SeqInv, MissInv, TaskInv, CarveInv, RecInv, Emissions, NoneOfBlocks, Scanning
<1>2. PICK f : f = Graded(c, node, byte)
  OBVIOUS
<1>3. f.conf \in Nat
  BY <1>2, ConfidenceIsNat DEF Graded
<1>4. CASE c.plausible
  <2>1. Emit(f, source)
    BY <1>2, <1>4 DEF CarveOne, Emit, Wanted, Known, Reported
  <2>2. Remembered'
    BY <1>1, <1>3, <2>1, EmitRemembers
  <2>3. NoneOfBlocks'
    <3>1. CASE UNCHANGED emitted
      BY <1>1, <3>1 DEF NoneOfBlocks
    <3>2. CASE emitted' = Append(emitted, Reported(f, source))
      <4>1. PICK e : e = Reported(f, source)
        OBVIOUS
      <4>2. /\ e.source # "blocks" /\ Len(emitted) \in Nat /\ DOMAIN emitted = 1..Len(emitted)
            /\ DOMAIN emitted' = 1..(Len(emitted) + 1) /\ emitted'[Len(emitted) + 1] = e
            /\ \A i \in DOMAIN emitted : emitted'[i] = emitted[i]
        BY <1>1, <3>2, <4>1, AppendIsSeq DEF Comparable, Reported
      <4>3. \A i \in DOMAIN emitted' : i \in DOMAIN emitted \/ i = Len(emitted) + 1
        BY <4>2
      <4>. QED BY <1>1, <4>2, <4>3 DEF NoneOfBlocks
    <3>. QED BY <2>1, <3>1, <3>2 DEF Emit
  <2>4. UNCHANGED <<phase, result>> \/ (phase' = "done" /\ result' = "stopped")
    BY <2>1 DEF Emit, End_
  <2>5. InFront'
    <3>1. (Comparable /\ NoneOfBlocks => InFront)'
      BY NoneIsInFront, PTL
    <3>2. (TaskInv => Comparable)'
      BY ComparableNow, PTL
    <3>. QED BY <2>3, <3>1, <3>2
  <2>. QED BY <1>1, <2>2, <2>4, <2>5 DEF BatchInv, SameAsSequential, InFront
<1>5. CASE ~c.plausible
  BY <1>1, <1>5 DEF CarveOne, Remembered, BatchInv, SameAsSequential
<1>. QED BY <1>4, <1>5

LEMMA SeqStep == ASSUME SeqInv, [Next]_vars PROVE SeqInv'
<1>1. TaskInv' /\ MissInv'
  BY TaskStep, MissStep DEF SeqInv
<1>2. TaskInv /\ MissInv /\ Remembered /\ Comparable /\ ((phase = "done") <=> (result # "none"))
  BY ComparableNow DEF SeqInv, TaskInv, CarveInv, RecInv, Emissions
<1>3. phase \notin {"emit", "done"} => NoneOfBlocks
  BY <1>2 DEF TaskInv, CarveInv, RecInv, Emissions, NoneOfBlocks
<1>4. CASE UNCHANGED <<fixed, live, emitted, seen, carved, phase, num, off, result>>
  <2>1. Remembered' /\ BatchInv'
    BY <1>2, <1>4, PositionStays DEF Remembered, SeqInv
  <2>2. SameAsSequential'
    BY <1>4, FrontStays DEF SeqInv, SameAsSequential, InFront, AllOfThem, fixed
  <2>. QED BY <1>1, <2>1, <2>2 DEF SeqInv
<1>5. CASE UNCHANGED <<fixed, emitted, seen>> /\ phase' \notin {"emit", "done"}
  BY <1>1, <1>2, <1>5 DEF SeqInv, Remembered, BatchInv, SameAsSequential
<1>6. CASE /\ UNCHANGED <<fixed, live, emitted, seen>> /\ phase \notin {"emit", "done"} /\ phase' = "done"
           /\ result' = "ok" => "blocks" \notin opts.scan
  <2>1. InFront'
    BY <1>2, <1>3, <1>6, NoneIsInFront, FrontStays
  <2>2. opts' = opts
    BY <1>6 DEF fixed
  <2>. QED BY <1>1, <1>2, <1>6, <2>1, <2>2 DEF SeqInv, Remembered, BatchInv, SameAsSequential, InFront
<1>7. CASE UNCHANGED vars \/ Cancel
  <2>1. UNCHANGED <<fixed, live, emitted, seen, carved, phase, num, off, result>>
    BY <1>7 DEF vars, Cancel, place
  <2>. QED BY <1>4, <2>1
<1>8. CASE Begin \/ LiveNode \/ SlackNode \/ FreeNode \/ WalkBitmap \/ NoBlocks \/ CancelSeen
  <2>1. /\ UNCHANGED <<fixed, emitted, seen>> /\ phase \notin {"emit", "done"} /\ phase' # "emit"
        /\ phase' = "done" => live' = live /\ (result' = "ok" => "blocks" \notin opts.scan)
    BY <1>8 DEF Begin, LiveNode, SlackNode, FreeNode, WalkBitmap, NoBlocks, CancelSeen, Cancellable, End_
  <2>. QED BY <1>5, <1>6, <2>1
<1>9. CASE SplitRuns \/ Join
  <2>1. /\ UNCHANGED <<fixed, live, emitted, seen>> /\ phase \notin {"emit", "done"}
        /\ phase' \in {"carve", "emit"} /\ (phase' = "emit" => num' = 1 /\ off' = 1)
    BY <1>2, <1>9 DEF SplitRuns, Join, TaskInv, FoundInv, place
  <2>2. CASE phase' = "emit"
    <3>1. BatchInv'
      BY <1>1, <2>1, <2>2, BatchesStart
    <3>. QED BY <1>1, <1>2, <2>1, <2>2, <3>1 DEF SeqInv, Remembered, SameAsSequential
  <2>. QED BY <1>5, <2>1, <2>2
<1>10. CASE \E t \in Tasks : CarveBlock(t)
  <2>1. UNCHANGED <<fixed, emitted, seen>> /\ phase' \notin {"emit", "done"}
    BY <1>10 DEF CarveBlock
  <2>. QED BY <1>5, <2>1
<1>11. CASE SlackBytes \/ FreeRecords
  <2>1. /\ UNCHANGED <<fixed, live>> /\ Scanning /\ phase \notin {"emit", "done"}
        /\ \/ UNCHANGED <<phase, seen, emitted, result>>
           \/ \E c, node, byte : CarveOne(c, "slack", node, byte)
           \/ \E c, node, byte : CarveOne(c, "free", node, byte)
    BY <1>11 DEF SlackBytes, FreeRecords, Scanning
  <2>2. CASE UNCHANGED <<phase, seen, emitted, result>>
    BY <1>5, <2>1, <2>2
  <2>3. ASSUME NEW c, NEW node, NEW byte, CarveOne(c, "slack", node, byte) PROVE SeqInv'
    BY <1>1, <2>1, <2>3, TreeScanOrder DEF SeqInv
  <2>4. ASSUME NEW c, NEW node, NEW byte, CarveOne(c, "free", node, byte) PROVE SeqInv'
    BY <1>1, <2>1, <2>4, TreeScanOrder DEF SeqInv
  <2>. QED BY <2>1, <2>2, <2>3, <2>4
<1>12. CASE EmitBatch
  BY <1>1, <1>12, EmitBatchOrder DEF SeqInv
<1>13. CASE Finish
  <2>1. /\ UNCHANGED <<fixed, live, emitted, seen>> /\ phase = "emit" /\ num \notin Tasks /\ phase' = "done"
    BY <1>13 DEF Finish, End_
  <2>2. Batched
    BY <1>2, <2>1, CarvedIsFound
  <2>3. PICK c, q : Dealt(Position, c, q)
    BY <2>1 DEF SeqInv, BatchInv
  <2>4. Position = Len(Carved)
    <3>1. num = Len(tasks) + 1 /\ off = 1 /\ Len(tasks) \in Nat
      BY <2>1, <2>2 DEF SeqInv, BatchInv, Batched, AreSeqs
    <3>2. num - 1 = Len(tasks) /\ IsSeq(Carved)
      BY <1>2, <3>1 DEF Comparable
    <3>3. Position = Len(Carved) + 1 - 1
      BY <2>2, <3>1, <3>2 DEF Position, Batched
    <3>. QED BY <3>2, <3>3, SeqFacts
  <2>5. InFront /\ AllOfThem
    BY <1>2, <2>3, <2>4, DealtIsBest DEF InFront, AllOfThem
  <2>6. InFront' /\ AllOfThem'
    BY <2>1, <2>5, FrontStays
  <2>. QED BY <1>1, <1>2, <2>1, <2>6 DEF SeqInv, Remembered, BatchInv, SameAsSequential, InFront, AllOfThem
<1>. QED BY <1>7, <1>8, <1>9, <1>10, <1>11, <1>12, <1>13 DEF Next

\* Whatever the blocks hold and however the tasks interleave, the callback is given of
\* the blocks what one goroutine that goes through the free blocks in order would emit
\* after the records of the tree, in that order; a recovery that ends early, a first
\* part of it (scanUnallocatedNodes, carveBlockRange, deleted.go:467-553; emit, deleted.go:226).
THEOREM ParallelIsSequential == Spec => []SameAsSequential
<1>1. Init => SeqInv
  <2>. SUFFICES ASSUME Init PROVE SeqInv
    OBVIOUS
  <2>1. TaskInv /\ RecInv
    BY TaskInit, RecInit
  <2>2. seen = <<>> /\ DOMAIN seen = {} /\ emitted = <<>> /\ phase = "start" /\ result = "none" /\ unread = 0
    BY DEF Init
  <2>. QED BY <2>1, <2>2 DEF SeqInv, MissInv, SeenInv, SlackInv, Remembered, BatchInv, SameAsSequential
<1>2. SeqInv => SameAsSequential
  BY DEF SeqInv
<1>. QED BY <1>1, <1>2, SeqStep, PTL DEF Spec
=============================================================================
