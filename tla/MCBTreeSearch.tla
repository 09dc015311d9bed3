--------------------------- MODULE MCBTreeSearch ---------------------------
(* Small trees for BTreeSearch: two sound ones, and what one or two places *)
(* of damage make of them.                                                 *)
EXTENDS BTreeSearch, TLC

K(p, n) == [p |-> p, n |-> n]
Node(type, keys, kids, next) ==
    [type |-> type, keys |-> keys, kids |-> kids, next |-> next, tidy |-> TRUE]

Header == Node("other", <<>>, <<>>, 0)
Leaf2  == Node("leaf", <<K(1, 0), K(1, 1)>>, <<1, 1>>, 3)
Leaf3  == Node("leaf", <<K(1, 2), K(2, 0)>>, <<1, 1>>, 4)
Leaf4  == Node("leaf", <<K(2, 1), K(3, 0)>>, <<1, 1>>, 0)

Tree(root, node) ==
    [chained |-> FALSE, root |-> root, first |-> 2, leafRecords |-> TRUE,
     leaves |-> <<2, 3, 4>>, node |-> node]

\* A root over three leaves.
Flat == Tree(1, 0 :> Header @@ 2 :> Leaf2 @@ 3 :> Leaf3 @@ 4 :> Leaf4 @@
                1 :> Node("index", <<K(1, 0), K(1, 2), K(2, 1)>>, <<2, 3, 4>>, 0))

\* Two levels of index above them.
Deep == Tree(5, 0 :> Header @@ 2 :> Leaf2 @@ 3 :> Leaf3 @@ 4 :> Leaf4 @@
                1 :> Node("index", <<K(1, 0), K(1, 2)>>, <<2, 3>>, 6) @@
                6 :> Node("index", <<K(2, 1)>>, <<4>>, 0) @@
                5 :> Node("index", <<K(1, 0), K(2, 1)>>, <<1, 6>>, 0))

MCKeys == {K(p, n) : p \in 1..3, n \in 0..1} \union {Garbled}
Links  == 0..5        \* 5 is beyond the nodes of Flat

\* One damaged place of a node, the forward link of an index node excepted:
\* nothing reads it unless the node turns into a leaf.
DamagedNodes(x) ==
    {[x EXCEPT !.keys[i] = k] : i \in DOMAIN x.keys, k \in MCKeys}
    \union (IF x.type = "leaf" THEN {[x EXCEPT !.next = l] : l \in Links}
                               ELSE {[x EXCEPT !.kids[i] = l] : i \in DOMAIN x.kids, l \in Links})
    \union {[x EXCEPT !.type = y] : y \in {"leaf", "index", "other"}}
    \union {[x EXCEPT !.tidy = FALSE], [x EXCEPT !.keys = <<>>]}

Broken(t, nums) ==
    UNION {{[t EXCEPT !.node[num] = x] : x \in DamagedNodes(t.node[num])} : num \in nums}
    \union {[t EXCEPT !.node = [m \in DOMAIN t.node \ {num} |-> t.node[m]]] : num \in nums}

IndexOf(t) == {num \in DOMAIN t.node : t.node[num].type = "index"}

\* Damage to the header or to any node.
Damaged(t) ==
    {[t EXCEPT !.root = l] : l \in Links} \union {[t EXCEPT !.first = l] : l \in Links}
    \union {[t EXCEPT !.leafRecords = FALSE]}
    \union Broken(t, DOMAIN t.node \ {0})

\* Damage to the index alone.
Misled(t) == {[t EXCEPT !.root = l] : l \in Links} \union Broken(t, IndexOf(t))

Chained(trees) == {[t EXCEPT !.chained = TRUE] : t \in trees}

\* Two damaged places of a flat index, or one on either level of a deep one.
Twice == UNION {Misled(t) : t \in Misled(Flat)}
         \union UNION {Broken(t, {5}) : t \in Broken(Deep, {1, 6})}

MCParents == 1..3
MCTrees   == Damaged(Flat) \union Damaged(Deep) \union Chained(Twice \union Misled(Deep))
============================================================================
