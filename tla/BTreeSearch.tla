---------------------------- MODULE BTreeSearch ----------------------------
(***************************************************************************)
(* One keyed query over a B-tree and the walk it falls back to             *)
(* (btree_search.go, btree_walk.go): every record whose key belongs to the *)
(* parent `want` is handed to a callback, by descending the index to a leaf*)
(* and following the leaf chain; when that degrades, by an exhaustive walk,*)
(* which follows the leaf chain (classic HFS, and every attributes tree) or*)
(* recurses from the root (HFS+ catalog and extents).                      *)
(*                                                                         *)
(* The tree is whatever the volume holds, sound or damaged, and does not   *)
(* change.  A record is identified by its node and its place there.  Not   *)
(* modelled: the depth guard of findLeaf, which `visited' makes redundant  *)
(* on trees whose header does not under-report its depth by more than 4; a *)
(* header without a node size; the query for a fork's extents, which passes*)
(* over the records of the file's other fork.                              *)
(***************************************************************************)
EXTENDS Integers, Sequences, FiniteSets, FiniteSetsExt, SequencesExt

CONSTANTS Trees,      \* the trees a query may meet
          Parents,    \* the parents it may ask for
          MaxFaults,  \* bound on reads that fail although the node is there
          Garbled     \* a key that does not parse

(***************************************************************************)
(* A tree: chained, its fallback follows the leaf chain; the header fields *)
(* root, first (FirstLeafNode) and leafRecords; the nodes that can be read.*)
(* A node: its type, the keys of its records, the child pointers of an     *)
(* index node, its forward link, and whether its offset table is strictly  *)
(* ordered (orderedNodeRecords accepts it).  A key: the parent p, and n, 0 *)
(* for the empty name.  The field leaves is for the properties: the leaves,*)
(* in key order, that the tree was written with.                           *)
(***************************************************************************)
IsKey(k) == k = Garbled \/ (k.p \in Int /\ k.n \in Nat)

\* No leaf is node 0, which is the header's: a link there ends a chain.
IsTree(t) ==
    /\ t.leaves \in Seq(Nat \ {0})
    /\ \A num \in DOMAIN t.node :
          /\ Len(t.node[num].keys) \in Nat
          /\ \A i \in 1..Len(t.node[num].keys) : IsKey(t.node[num].keys[i])

ASSUME BTreeAssumption == Parents \subseteq Int /\ \A t \in Trees : IsTree(t)

VARIABLES tree, want,
          phase,      \* the step to take next
          cur, pos,   \* the node at hand and the next record of it
          visited,    \* nodes this descent, scan or walk has been to
          started,    \* the scan has reached its first key >= target
          todo,       \* nodes the walk has still to enter, next one first
          got,        \* records handed to the callback, in order
          err,        \* what ended the keyed search
          outcome,    \* what the caller gets: "ok", "stopped" or "error"
          anomaly,    \* an anomaly was noted
          faults

fixed == <<tree, want>>
place == <<cur, pos, visited, started, todo>>
told  == <<outcome, anomaly>>
vars  == <<fixed, place, told, phase, got, err, faults>>

Size(num)      == Len(tree.node[num].keys)
Key(num, i)    == tree.node[num].keys[i]
Has(num)       == num \in DOMAIN tree.node
Parses(num, i) == Key(num, i) # Garbled

\* The target carries an empty name: only the parent decides the comparison.
Below(k) == k.p < want
Above(k) == k.p > want \/ (k.p = want /\ k.n > 0)

ByChain == tree.chained

\* Mutant: only the record count is asked.
Empty_ByCount == ~tree.leafRecords

IsEmpty == tree.root = 0 \/ ~tree.leafRecords

Init ==
    /\ tree \in Trees /\ want \in Parents
    /\ phase = "start" /\ err = "none" /\ outcome = "none" /\ anomaly = FALSE
    /\ cur = 0 /\ pos = 1 /\ visited = {} /\ started = FALSE
    /\ todo = <<>> /\ got = <<>> /\ faults = 0

---------------------------------------------------------------------------
\* Reading a node may fail for good, or, the node being there, this once.
ReadOK(num) == Has(num) /\ UNCHANGED faults

ReadFails(num) ==
    \/ ~Has(num) /\ UNCHANGED faults
    \/ Has(num) /\ faults < MaxFaults /\ faults' = faults + 1

Finish(o) == phase' = "done" /\ outcome' = o /\ UNCHANGED anomaly

\* The keyed search ends with an error, to be classified by unwrapSearchErr.
EndSearch(e) == phase' = "unwrap" /\ err' = e /\ UNCHANGED told

\* The header, read anew for each search and each walk, may not come.
HeaderFails == faults < MaxFaults /\ faults' = faults + 1

\* Without a header there is no search, and nothing is noted.  isEmpty: a tree
\* without records is searched no further.
Begin ==
    /\ phase = "start"
    /\ \/ HeaderFails /\ phase' = "fallback" /\ err' = "header" /\ UNCHANGED <<told, cur>>
       \/ /\ UNCHANGED <<faults, err>>
          /\ IF IsEmpty THEN Finish("ok") /\ UNCHANGED cur
                        ELSE phase' = "descend" /\ cur' = tree.root /\ UNCHANGED told
    /\ UNCHANGED <<fixed, pos, visited, started, todo, got>>

\* The records descendIndex stops at: a key it cannot parse, or one above the
\* target.
StopsAt(num) == {i \in 1..Size(num) : ~Parses(num, i) \/ Above(Key(num, i))}

\* Mutant: the child after the last key <= target.
Child_Next(num) ==
    LET s == StopsAt(num)
    IN  tree.node[num].kids[IF s = {} THEN Size(num) ELSE Min(s)]

\* descendIndex: the child under the last key <= target, or the leftmost.
Child(num) ==
    LET s == StopsAt(num)
        i == IF s = {} THEN Size(num) ELSE Min(s) - 1
    IN  tree.node[num].kids[IF i = 0 THEN 1 ELSE i]

CanDescend(num) ==
    /\ tree.node[num].tidy /\ Size(num) > 0
    /\ StopsAt(num) # {} => Parses(num, Min(StopsAt(num)))

\* One iteration of findLeaf.
Descend ==
    /\ phase = "descend"
    /\ IF cur \in visited THEN EndSearch("degraded") /\ UNCHANGED <<place, faults>> ELSE
       \/ ReadFails(cur) /\ EndSearch("degraded") /\ UNCHANGED place
       \/ /\ ReadOK(cur)
          /\ \/ /\ tree.node[cur].type = "leaf"
                /\ phase' = "scan" /\ visited' = {}
                /\ UNCHANGED <<cur, pos, started, todo, told, err>>
             \/ /\ tree.node[cur].type = "index" /\ CanDescend(cur)
                /\ cur' = Child(cur) /\ visited' = visited \union {cur}
                /\ UNCHANGED <<pos, started, todo, told, phase, err>>
             \/ /\ tree.node[cur].type # "leaf" /\ ~(tree.node[cur].type = "index" /\ CanDescend(cur))
                /\ EndSearch("degraded") /\ UNCHANGED place
    /\ UNCHANGED <<fixed, got>>

\* Mutant: no landing check.
Landed_Anywhere == TRUE

\* checkLanding, on the first leaf of a scan only.
Landed ==
    visited # {} \/ Size(cur) = 0 \/
    (Parses(cur, 1) /\ (Above(Key(cur, 1)) => cur = tree.first))

\* What scanFrom requires of a node before it takes records from it.
Scannable(num) == tree.node[num].type = "leaf" /\ tree.node[num].tidy

\* scanFrom enters the next leaf.
ScanLeaf ==
    /\ phase = "scan"
    /\ IF cur = 0 THEN Finish("ok") /\ UNCHANGED <<place, err, faults>> ELSE
       IF cur \in visited THEN EndSearch("degraded") /\ UNCHANGED <<place, faults>> ELSE
       \/ ReadFails(cur) /\ EndSearch("degraded") /\ UNCHANGED place
       \/ /\ ReadOK(cur)
          /\ IF Scannable(cur) /\ Landed
             THEN /\ phase' = "records" /\ visited' = visited \union {cur} /\ pos' = 1
                  /\ UNCHANGED <<cur, started, todo, told, err>>
             ELSE EndSearch("degraded") /\ UNCHANGED place
    /\ UNCHANGED <<fixed, got>>

\* The callback takes a record; it may end the walk with an error of its own.
Deliver == got' = Append(got, <<cur, pos>>)

\* One record of a leaf under scan.
ScanRecord ==
    /\ phase = "records" /\ pos <= Size(cur)
    /\ IF ~Parses(cur, pos) THEN EndSearch("degraded") /\ UNCHANGED <<pos, started, got>> ELSE
       IF ~started /\ Below(Key(cur, pos))
       THEN pos' = pos + 1 /\ UNCHANGED <<phase, told, err, started, got>>
       ELSE /\ started' = TRUE
            /\ IF Key(cur, pos).p # want
               THEN Finish("ok") /\ UNCHANGED <<pos, got, err>>
               ELSE /\ Deliver
                    /\ \/ pos' = pos + 1 /\ UNCHANGED <<phase, told, err>>
                       \/ EndSearch("callback") /\ UNCHANGED pos
    /\ UNCHANGED <<fixed, cur, visited, todo, faults>>

ScanNext ==
    /\ phase = "records" /\ pos > Size(cur)
    /\ phase' = "scan" /\ cur' = tree.node[cur].next
    /\ UNCHANGED <<fixed, pos, visited, started, todo, got, err, told, faults>>

---------------------------------------------------------------------------
\* Mutant: whatever ended the search, fall back.
Degraded_Always == TRUE

\* unwrapSearchErr.
Degraded == err # "callback"

\* A callback's error is the caller's; anything else is noted and falls back.
Unwrap ==
    /\ phase = "unwrap"
    /\ IF Degraded
       THEN phase' = "fallback" /\ anomaly' = TRUE /\ UNCHANGED outcome
       ELSE Finish("stopped")
    /\ UNCHANGED <<fixed, place, got, err, faults>>

\* A walk starts from a header of its own: at the first leaf or at the root.
Fallback ==
    /\ phase = "fallback"
    /\ \/ HeaderFails /\ Finish("error") /\ UNCHANGED <<visited, todo>>
       \/ /\ phase' = "walk" /\ visited' = {}
          /\ todo' = <<IF ByChain THEN tree.first ELSE tree.root>>
          /\ UNCHANGED <<told, faults>>
    /\ UNCHANGED <<fixed, cur, pos, started, got, err>>

\* The children of an index node that its walk follows.
Kids(num) ==
    LET Readable(i) == Parses(num, i)
        at == SetToSortSeq({i \in 1..Size(num) : Readable(i)}, <)
    IN  [j \in 1..Len(at) |-> tree.node[num].kids[at[j]]]

\* Mutant: no record of the nodes the walk has been to.
Seen_Forgotten(num) == FALSE

\* The visited guard of a walk.
Seen(num) == num \in visited

\* What comes after a node: on a chain, the next; in the recursion, its children
\* and then its siblings.
Enter(num) ==
    IF ByChain THEN phase' = "leaf" /\ todo' = <<tree.node[num].next>>
    ELSE /\ todo' = (IF tree.node[num].type = "index" THEN Kids(num) ELSE <<>>) \o Tail(todo)
         /\ phase' = IF tree.node[num].type = "leaf" THEN "leaf" ELSE "walk"

\* walkNode, or one step of a leaf-chain walk.  A node already seen ends the
\* chain and is skipped by the recursion; node 0 ends the chain.
Walk ==
    /\ phase = "walk"
    /\ IF todo = <<>> \/ (ByChain /\ Head(todo) = 0)
       THEN Finish("ok") /\ UNCHANGED <<place, faults>> ELSE
       LET num == Head(todo) IN
       IF Seen(num)
       THEN /\ todo' = Tail(todo)
            /\ UNCHANGED <<cur, pos, visited, started, phase, told, faults>> ELSE
       \/ ReadFails(num) /\ Finish("error") /\ UNCHANGED place
       \/ /\ ReadOK(num)
          /\ visited' = visited \union {num}
          /\ Enter(num) /\ cur' = num /\ pos' = 1
          /\ UNCHANGED <<started, told>>
    /\ UNCHANGED <<fixed, got, err>>

\* One record of a walked node: keys that do not parse and other parents'
\* records are skipped.
WalkRecord ==
    /\ phase = "leaf" /\ pos <= Size(cur)
    /\ IF Parses(cur, pos) /\ Key(cur, pos).p = want
       THEN /\ Deliver
            /\ \/ pos' = pos + 1 /\ UNCHANGED <<phase, told>>
               \/ Finish("stopped") /\ UNCHANGED pos
       ELSE pos' = pos + 1 /\ UNCHANGED <<phase, told, got>>
    /\ UNCHANGED <<fixed, cur, visited, started, todo, err, faults>>

WalkNext ==
    /\ phase = "leaf" /\ pos > Size(cur)
    /\ phase' = "walk"
    /\ UNCHANGED <<fixed, place, told, got, err, faults>>

Next ==
    \/ Begin \/ Descend \/ ScanLeaf \/ ScanRecord \/ ScanNext
    \/ Unwrap \/ Fallback \/ Walk \/ WalkRecord \/ WalkNext

Spec     == Init /\ [][Next]_vars
FairSpec == Spec /\ WF_vars(Next)

---------------------------------------------------------------------------
(* Sound trees, and what a query over one should hand out *)

Leaf(i) == tree.leaves[i]
LeafAt  == 1..Len(tree.leaves)

Less(k, l) == k.p < l.p \/ (k.p = l.p /\ k.n < l.n)

\* The records of the parent asked for, wherever they can still be read.
WantedIn(num) ==
    {<<num, j>> : j \in {j \in 1..Size(num) : Parses(num, j) /\ Key(num, j).p = want}}

Wanted == UNION {WantedIn(Leaf(i)) : i \in {i \in LeafAt : Has(Leaf(i))}}

\* x comes before y in the tree.
Precedes(x, y) ==
    \E i, j \in LeafAt :
        Leaf(i) = x[1] /\ Leaf(j) = y[1] /\ (i < j \/ (i = j /\ x[2] < y[2]))

InOrder == \A i, j \in 1..Len(got) : i < j => Precedes(got[i], got[j])

\* The leaves are chained in key order from the header, every one can be read
\* and parsed, and no other node is a leaf.  Nothing is said of the index.
ChainLinked ==
    /\ tree.leafRecords /\ tree.root # 0 /\ LeafAt # {}
    /\ tree.first = Leaf(1)
    /\ {num \in DOMAIN tree.node : tree.node[num].type = "leaf"} = Range(tree.leaves)
    /\ \A i \in LeafAt :
          /\ Scannable(Leaf(i))
          /\ \A j \in 1..Size(Leaf(i)) : Parses(Leaf(i), j)
          /\ tree.node[Leaf(i)].next = IF i = Len(tree.leaves) THEN 0 ELSE Leaf(i + 1)
    /\ \A i, j \in LeafAt : \A a \in 1..Size(Leaf(i)), b \in 1..Size(Leaf(j)) :
          i < j \/ (i = j /\ a < b) => Less(Key(Leaf(i), a), Key(Leaf(j), b))

\* And, as in every tree the file system writes, no leaf is empty.
ChainSound == ChainLinked /\ \A i \in LeafAt : Size(Leaf(i)) > 0

Index == {num \in DOMAIN tree.node : tree.node[num].type = "index"}
Nodes == Index \union Range(tree.leaves)

\* The records of the index that point at a node.
Slots(kid) ==
    UNION {{<<num, i>> : i \in {i \in 1..Size(num) : tree.node[num].kids[i] = kid}} : num \in Index}

\* Every key of an index node is the first key of the child it points at, in
\* order; every node but the root has one parent; and all lie below the root.
IndexSound ==
    /\ tree.root \in Nodes
    /\ \A num \in Index :
          /\ tree.node[num].tidy /\ Size(num) > 0
          /\ \A i \in 1..Size(num) :
                LET kid == tree.node[num].kids[i]
                IN  kid \in Nodes /\ Parses(num, i) /\ Size(kid) > 0 /\ Key(num, i) = Key(kid, 1)
          /\ \A i, j \in 1..Size(num) : i < j => Less(Key(num, i), Key(num, j))
    /\ \A kid \in Nodes :
          IF kid = tree.root THEN Slots(kid) = {} ELSE \E e \in Slots(kid) : Slots(kid) = {e}
    /\ \A below \in SUBSET Nodes :
          tree.root \in below /\ (\A kid \in Nodes : (\E e \in Slots(kid) : e[1] \in below) => kid \in below)
          => below = Nodes

---------------------------------------------------------------------------
(* Properties *)

\* Whatever the index says, a query that trusts it, or falls back along the
\* leaf chain with every read succeeding, hands out the wanted records in key
\* order, each once, and all of them if it ends well.  This is what the landing
\* check is for (btree_search.go:218-231): without it a wrong index skips records
\* silently.
AnswerRight ==
    ChainSound /\ (anomaly => faults = 0) /\ (err \in {"degraded", "header"} => ByChain) =>
        /\ InOrder
        /\ \A i \in 1..Len(got) : got[i] \in Wanted
        /\ outcome = "ok" => Wanted \subseteq Range(got)

\* A tree that was never given a root, or holds no record.
Recordless == tree.root = 0 \/ ~tree.leafRecords

\* A sound tree raises no anomaly, and neither does one without records
\* (btree_search.go:68-77: false anomalies sent every lookup down the linear
\* fallback).
NoFalseAlarm == (Recordless \/ (ChainSound /\ IndexSound)) /\ faults = 0 => ~anomaly

\* After the callback ended the walk it is not called again: its error never
\* takes the fallback (btree_search.go:17-19, unwrapSearchErr).
StopIsFinal == [][ got' # got => err # "callback" /\ outcome # "stopped" ]_vars

\* A query over any tree ends, cycles of links or of child pointers included.
Terminates == <>(phase = "done")

============================================================================
