-------------------------- MODULE MCCatalogLookup --------------------------
(* A root with a folder, a file, a link to a directory and one to a file,   *)
(* and what one place of damage makes of it.                                *)
EXTENDS CatalogLookup, TLC

Record(parent, name, type, cnid, up, empty, link) ==
    [parent |-> parent, name |-> name, type |-> type, cnid |-> cnid, up |-> up, empty |-> empty,
     link |-> link]
Folder(parent, name, cnid)     == Record(parent, name, "folder", cnid, 0, FALSE, 0)
File(parent, name, cnid)       == Record(parent, name, "file", cnid, 0, FALSE, 0)
Empty(parent, name, cnid)      == Record(parent, name, "file", cnid, 0, TRUE, 0)
Stub(parent, name, cnid, link) == Record(parent, name, "file", cnid, 0, TRUE, link)
Thread(cnid, up, name)         == Record(cnid, name, "thread", 0, up, FALSE, 0)

Base == <<Folder(1, "r", 2),
          Thread(2, 1, "r"), Folder(2, "a", 3), File(2, "b", 4), Stub(2, "c", 6, 8),
          Thread(3, 2, "a"), File(3, "a", 5),
          Thread(4, 2, "b"), Thread(5, 3, "a"),
          Folder(7, "d", 8), Thread(8, 7, "d"), File(8, "b", 9)>>

Insert(s, i, x) == SubSeq(s, 1, i - 1) \o <<x>> \o SubSeq(s, i, Len(s))
Broken ==
    {Base} \union {[Base EXCEPT ![i].type = "bad"] : i \in DOMAIN Base}
    \union {[Base EXCEPT ![i].up = p] : i \in {6, 8, 9}, p \in {1, 3, 8}}
    \union {[Base EXCEPT ![i].empty = TRUE] : i \in {4, 7}}
    \union {[Base EXCEPT ![5].link = c] : c \in {4, 99}}
    \union {Insert(Base, 7, x) : x \in {File(3, "A", 4), Empty(3, "A", 4)}}
    \union {Insert(Base, 3, x) : x \in {File(2, "A", 10), File(2, "", 10), Empty(2, "A", 4)}}

\* A leaf that the index does not lead to, or that a search starts behind.
Leaves == {1..3, 3..5, 4..6, 7..9, 10..12}
Volume(recs, unsearched, unwalked, k) ==
    [recs |-> recs, searched |-> DOMAIN recs \ unsearched, walked |-> DOMAIN recs \ unwalked,
     classic |-> k[1], sensitive |-> k[2]]
MCVolumes ==
    {Volume(recs, {}, {}, k) :
       recs \in Broken, k \in {<<TRUE, FALSE>>, <<FALSE, TRUE>>, <<FALSE, FALSE>>}}
    \union {Volume(Base, l, {}, <<FALSE, FALSE>>) : l \in Leaves}
    \union {Volume(Base, {}, l, <<FALSE, FALSE>>) : l \in Leaves}
    \union {Volume(Base, l, l, <<FALSE, FALSE>>) : l \in Leaves}
    \union {Volume(Insert(Base, 7, x), {6, 8}, l, <<FALSE, FALSE>>) :
               x \in {File(3, "A", 4), Empty(3, "A", 4)}, l \in {{}, 3..5}}

Ask(kind, cnid, path) == [kind |-> kind, cnid |-> cnid, path |-> path]
MCCalls ==
    {Ask("open", c, <<>>) : c \in {2, 3, 4, 5, 6, 8, 11}}
    \union {Ask("path", 0, p) :
               p \in {<<>>, <<"a">>, <<"A">>, <<"-">>, <<"a", "a">>, <<"c", "b">>, <<"b", "a">>}}
    \union {Ask("list", c, <<>>) : c \in {2, 3, 4, 6}} \union {Ask("walk", 2, <<>>)}

\* "-" stands for a name of characters that folding ignores.
MCFold(n)    == CASE n = "A" -> "a" [] n = "-" -> "" [] OTHER -> n
Names        == <<"", "a", "b", "c", "d", "r">>
MCLess(m, n) == \E i, j \in DOMAIN Names : i < j /\ Names[i] = m /\ Names[j] = n
============================================================================
