----------------------------- MODULE MCRecovery -----------------------------
(* Nodes of 20 bytes with records of four.  Node 1 is the first leaf, node 2  *)
(* follows it, node 3 is free.  The identities: l is live in node 1; a and b  *)
(* are found with different grades, and b may be live too.  Blocks 0, 2 and 3 *)
(* are free, block 1 is in use.                                               *)
EXTENDS Recovery, TLC

Ext(start, count) == [start |-> start, count |-> count]
Rec(key, parentLive, known, exts) ==
    [key |-> key, len |-> 4, entry |-> TRUE, plausible |-> TRUE, told |-> TRUE,
     parentLive |-> parentLive, known |-> known, exts |-> exts]

Live   == Rec("l", TRUE, TRUE, <<Ext(1, 1)>>)
LiveB  == Rec("b", TRUE, TRUE, <<Ext(1, 1)>>)
Weak   == Rec("a", FALSE, FALSE, <<>>)
Strong == Rec("a", TRUE, TRUE, <<Ext(2, 1), Ext(3, 1)>>)
Untold == [Strong EXCEPT !.told = FALSE]
Reused == Rec("b", TRUE, TRUE, <<Ext(1, 2)>>)
Partly == Rec("b", TRUE, TRUE, <<Ext(2, 2), Ext(0, 2)>>)
TooFar == Rec("b", TRUE, FALSE, <<Ext(3, 2)>>)
Beyond == Rec("a", TRUE, TRUE, <<Ext(3, 14)>>)                 \* its end wraps to 1
Nameless == [LiveB EXCEPT !.plausible = FALSE]                 \* an entry, but not to be carved
Noise  == [Reused EXCEPT !.plausible = FALSE, !.entry = FALSE] \* a thread record

Node(leaf, offs, held, fwd) == [leaf |-> leaf, offs |-> offs, held |-> held, fwd |-> fwd]
One(c)  == Node(TRUE, <<2, 6>>, 2 :> c, 0)
None    == Node(TRUE, <<2>>, <<>>, 0)

\* Free space from 6 to 16: c and d lie in it, e across its end.
Slack(c, d, e, fwd) == Node(TRUE, <<2, 6>>, 2 :> Live @@ 6 :> c @@ 10 :> d @@ 14 :> e, fwd)
FirstLeaves == {Slack(c, Noise, Strong, fwd) : c \in {Weak, Reused}, fwd \in {0, 2}}
               \union {Slack(Reused, Strong, Weak, 2), Slack(Strong, Weak, Reused, 1)}

\* What a node can be like after damage: an offset beyond its end, free space
\* inside the descriptor or over the offsets, records out of order or repeated.
Held == 2 :> LiveB @@ 6 :> Weak @@ 10 :> Strong @@ 16 :> Reused
Damaged == {Node(TRUE, <<2, 21>>, Held, 0), Node(TRUE, <<2, 0>>, Held, 0),
            Node(TRUE, <<2, 18>>, Held, 0), Node(TRUE, <<6, 2, 2, 10>>, Held, 1),
            Node(FALSE, <<2, 5>>, Held, 9), Node(TRUE, <<2, 6>>, Held, 0), Bad}

FormerLeaves == {Bad, None, One(Strong), Node(FALSE, <<2, 6>>, 2 :> Strong, 0),
                 Node(TRUE, <<6, 2, 10>>, 2 :> Weak @@ 6 :> Reused, 0)}
Maps == {[bits |-> 8, used |-> {0, 1, 2}], [bits |-> 3, used |-> {0, 1}], [bits |-> 0, used |-> {}]}

Bitmap(total, used, lost) == [total |-> total, used |-> used, lost |-> lost]
Content(x, y, z) == 0 :> z @@ 1 :> <<One(Strong)>> @@ 2 :> x @@ 3 :> y
Empty == Content(<<>>, <<>>, <<>>)

\* The tree's two scans.
TreeVolumes ==
    [nodes : {<<x, y, z>> : x \in FirstLeaves, y \in Damaged, z \in FormerLeaves},
     first : {1}, map : Maps, content : {Empty}, bitmap : {Bitmap(4, {1}, {})}]
\* All three: identities met again, better or worse, in a free block.
Two(c, d)  == Node(TRUE, <<2, 6, 10>>, 2 :> c @@ 6 :> d, 0)
BlockOf    == {Bad, <<One(Weak)>>, <<One(Strong), One(Reused)>>, <<Two(Noise, Reused)>>}
BlockVolumes ==
    [nodes : {<<x, One(c), z>> : x \in {Slack(Weak, Noise, Strong, 2), None},
                                 c \in {Live, LiveB, Nameless}, z \in {Bad, One(Weak), One(Reused)}},
     first : {1}, map : {[bits |-> 8, used |-> {0, 1, 2}]},
     content : {Content(x, y, z) : x \in BlockOf, y \in {<<One(Strong)>>, <<One(TooFar)>>}, z \in BlockOf},
     bitmap : {Bitmap(4, {1}, {})}]
\* A byte of the bitmap that cannot be read.
LostVolumes ==
    [nodes : {<<Slack(c, d, Noise, 0)>> : c \in {Partly, Reused}, d \in {Strong, Untold, Beyond}},
     first : {0, 1}, map : {[bits |-> 0, used |-> {}]}, content : {Empty},
     bitmap : {Bitmap(4, {1}, {lost}) : lost \in {0, 1}}]
\* Every bitmap of five blocks, with two bits to a byte, and nothing to find.
BitmapVolumes ==
    [nodes : {<<>>}, first : {0}, map : {[bits |-> 0, used |-> {}]},
     content : {[block \in 0..4 |-> <<>>]}, bitmap : {Bitmap(5, used, {}) : used \in SUBSET (0..5)}]

MCVolumes == TreeVolumes \union BlockVolumes \union LostVolumes \union BitmapVolumes
MCOptions == [scan : {{"slack", "free"}, {"slack", "free", "blocks"}}, stale : BOOLEAN, min : {Low, Medium}]
============================================================================
