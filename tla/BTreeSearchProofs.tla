------------------------- MODULE BTreeSearchProofs -------------------------
(***************************************************************************)
(* For every tree and every parent: a callback that stopped a query is not *)
(* called again, and on a sound leaf chain, whatever the index says, the   *)
(* query hands out the wanted records in order, each once, and all of them *)
(* if it ends well; and a sound tree that can be read raises no anomaly.   *)
(* The invariant says how far a query has come: Got(i, p), that it has     *)
(* given what it should before record p of leaf i; and that a descent never*)
(* comes back to a node, since each has one parent.                        *)
(***************************************************************************)
EXTENDS BTreeSearch, WellFoundedInduction, TLAPS

IsSeq(s) == \E S : s \in Seq(S)

LEMMA AppendIsSeq ==
    ASSUME NEW s, IsSeq(s), NEW x
    PROVE  /\ IsSeq(Append(s, x)) /\ Len(s) \in Nat /\ DOMAIN s = 1..Len(s)
           /\ Len(Append(s, x)) = Len(s) + 1 /\ DOMAIN Append(s, x) = 1..(Len(s) + 1)
           /\ Append(s, x)[Len(s) + 1] = x
           /\ \A i \in DOMAIN s : Append(s, x)[i] = s[i]
<1>1. PICK S : s \in Seq(S)
  BY DEF IsSeq
<1>2. s \in Seq(S \union {x})
  BY <1>1
<1>3. Append(s, x) \in Seq(S \union {x})
  BY <1>2
<1>. QED BY <1>2, <1>3 DEF IsSeq

---------------------------------------------------------------------------
(* Sound chains. *)

Typed == tree \in Trees /\ want \in Parents

\* A record of a leaf, and whether it is wanted.
Sized(i) == 1..Size(Leaf(i))

LEMMA LeafTypes ==
    ASSUME Typed, ChainSound
    PROVE  /\ Len(tree.leaves) \in Nat /\ LeafAt # {} /\ want \in Int
           /\ \A i \in LeafAt : /\ Has(Leaf(i)) /\ tree.node[Leaf(i)].type = "leaf" /\ Leaf(i) # 0
                                /\ Size(Leaf(i)) \in Nat /\ Size(Leaf(i)) > 0
           /\ \A i \in LeafAt : \A b \in Sized(i) :
                 Key(Leaf(i), b).p \in Int /\ Key(Leaf(i), b).n \in Nat
<1>1. IsTree(tree) /\ want \in Int
  BY BTreeAssumption DEF Typed
<1>2. Len(tree.leaves) \in Nat /\ \A i \in LeafAt : Leaf(i) # 0 /\ Leaf(i) \in Range(tree.leaves)
  BY <1>1 DEF IsTree, LeafAt, Leaf, Range
<1>3. \A i \in LeafAt : Leaf(i) \in DOMAIN tree.node /\ tree.node[Leaf(i)].type = "leaf"
  BY <1>2 DEF ChainSound, ChainLinked
<1>4. \A i \in LeafAt : Size(Leaf(i)) \in Nat /\ Size(Leaf(i)) > 0
  BY <1>1, <1>3 DEF IsTree, Size, ChainSound
<1>5. \A i \in LeafAt : \A b \in Sized(i) : IsKey(Key(Leaf(i), b)) /\ Key(Leaf(i), b) # Garbled
  BY <1>1, <1>3 DEF IsTree, Sized, Size, Key, ChainSound, ChainLinked, Parses
<1>6. LeafAt # {}
  BY DEF ChainSound, ChainLinked
<1>. QED BY <1>1, <1>2, <1>3, <1>4, <1>5, <1>6 DEF IsKey, Has

\* Keys are in order from leaf to leaf, so no leaf comes twice.
LEMMA KeysOrdered ==
    ASSUME Typed, ChainSound, NEW i \in LeafAt, NEW j \in LeafAt, NEW a \in Sized(i), NEW b \in Sized(j),
           i < j \/ (i = j /\ a < b)
    PROVE  Less(Key(Leaf(i), a), Key(Leaf(j), b))
BY DEF ChainSound, ChainLinked, Sized

LEMMA LeavesDistinct ==
    ASSUME Typed, ChainSound, NEW i \in LeafAt, NEW j \in LeafAt, Leaf(i) = Leaf(j)
    PROVE  i = j
<1>1. i \in Nat /\ j \in Nat
  BY LeafTypes DEF LeafAt
<1>2. 1 \in Sized(i) /\ 1 \in Sized(j)
  BY LeafTypes DEF Sized
<1>3. ~Less(Key(Leaf(i), 1), Key(Leaf(i), 1))
  BY <1>2, LeafTypes DEF Less
<1>4. ~(i < j)
  BY <1>2, <1>3, KeysOrdered
<1>5. ~(j < i)
  BY <1>2, <1>3, KeysOrdered
<1>. QED BY <1>1, <1>4, <1>5

LEMMA WantedRecords ==
    ASSUME Typed, ChainSound, NEW x
    PROVE  x \in Wanted <=> \E i \in LeafAt : \E b \in Sized(i) :
                                x = <<Leaf(i), b>> /\ Key(Leaf(i), b).p = want
<1>1. \A i \in LeafAt : Has(Leaf(i)) /\ \A b \in Sized(i) : Parses(Leaf(i), b)
  BY LeafTypes DEF ChainSound, ChainLinked, Sized
<1>2. \A i \in LeafAt : WantedIn(Leaf(i)) = {<<Leaf(i), b>> : b \in {b \in Sized(i) : Key(Leaf(i), b).p = want}}
  BY <1>1 DEF WantedIn, Sized
<1>3. Wanted = UNION {WantedIn(Leaf(i)) : i \in LeafAt}
  BY <1>1 DEF Wanted
<1>. QED BY <1>2, <1>3

---------------------------------------------------------------------------
(* How far a query has come. *)

\* Record x of the chain comes before record p of leaf i.
Reached(x, i, p) == \E a \in LeafAt : x[1] = Leaf(a) /\ (a < i \/ (a = i /\ x[2] < p))

Sound == InOrder /\ \A k \in 1..Len(got) : got[k] \in Wanted

\* The query has handed out what is wanted before record p of leaf i.
Got(i, p) ==
    /\ IsSeq(got) /\ Sound
    /\ \A k \in 1..Len(got) : Reached(got[k], i, p)
    /\ \A x \in Wanted : Reached(x, i, p) => \E k \in 1..Len(got) : got[k] = x

\* Everything the properties read but `got' depends on the tree and the parent.
LEMMA FixedStays ==
    ASSUME UNCHANGED fixed
    PROVE  /\ Typed' = Typed /\ ChainSound' = ChainSound /\ LeafAt' = LeafAt /\ Wanted' = Wanted
           /\ \A i : Leaf(i)' = Leaf(i) /\ Sized(i)' = Sized(i)
           /\ \A x, i, p : Reached(x, i, p)' = Reached(x, i, p)
           /\ \A x, y : Precedes(x, y)' = Precedes(x, y)
<1>1. tree' = tree /\ want' = want
  BY DEF fixed
<1>2. Typed' = Typed /\ LeafAt' = LeafAt /\ \A i : Leaf(i)' = Leaf(i) /\ Sized(i)' = Sized(i)
  BY <1>1 DEF Typed, LeafAt, Leaf, Sized, Size
<1>3. Wanted' = Wanted
  BY <1>1 DEF Wanted, WantedIn, Leaf, LeafAt, Has, Size, Parses, Key
<1>4. ChainSound' = ChainSound
  BY <1>1 DEF ChainSound, ChainLinked, Leaf, LeafAt, Scannable, Size, Parses, Key
<1>5. \A x, i, p : Reached(x, i, p)' = Reached(x, i, p)
  BY <1>2 DEF Reached
<1>6. \A x, y : Precedes(x, y)' = Precedes(x, y)
  BY <1>2 DEF Precedes
<1>. QED BY <1>2, <1>3, <1>4, <1>5, <1>6

LEMMA GotStays ==
    ASSUME UNCHANGED fixed, UNCHANGED got
    PROVE  (\A i, p : Got(i, p)' = Got(i, p)) /\ Sound' = Sound
BY FixedStays DEF Got, Sound, InOrder

\* A wanted record is handed out in its turn.
LEMMA DeliverStep ==
    ASSUME Typed, ChainSound, UNCHANGED fixed, NEW i \in LeafAt, NEW p \in Sized(i),
           Key(Leaf(i), p).p = want, Got(i, p), got' = Append(got, <<Leaf(i), p>>)
    PROVE  Got(i, p + 1)'
<1> DEFINE new == <<Leaf(i), p>>
<1>0. i \in Nat /\ p \in Nat
  BY LeafTypes DEF LeafAt, Sized
<1>1. /\ IsSeq(got') /\ Len(got) \in Nat /\ Len(got') = Len(got) + 1 /\ got'[Len(got) + 1] = new
      /\ \A k \in 1..Len(got) : got'[k] = got[k]
  BY AppendIsSeq DEF Got
<1>2. new \in Wanted
  BY WantedRecords
<1>3. ASSUME NEW k \in 1..Len(got), NEW l \in 1..(Len(got) + 1), k < l PROVE Precedes(got'[k], got'[l])
  <2>1. CASE l \in 1..Len(got)
    BY <2>1, <1>1, <1>3 DEF Got, Sound, InOrder
  <2>2. CASE l = Len(got) + 1
    <3>1. PICK a \in LeafAt : got[k][1] = Leaf(a) /\ (a < i \/ (a = i /\ got[k][2] < p))
      BY DEF Got, Reached
    <3>. QED BY <3>1, <2>2, <1>1 DEF Precedes
  <2>. QED BY <2>1, <2>2, <1>1
<1>4. ASSUME NEW k \in 1..(Len(got) + 1) PROVE got'[k] \in Wanted /\ Reached(got'[k], i, p + 1)
  <2>1. CASE k \in 1..Len(got)
    <3>1. got[k] \in Wanted /\ Reached(got[k], i, p)
      BY <2>1 DEF Got, Sound
    <3>2. PICK c, b : c \in LeafAt /\ b \in Sized(c) /\ got[k] = <<Leaf(c), b>>
      BY <3>1, WantedRecords
    <3>3. b \in Int
      BY <3>2, LeafTypes DEF Sized
    <3>4. PICK a \in LeafAt : Leaf(c) = Leaf(a) /\ (a < i \/ (a = i /\ b < p))
      BY <3>1, <3>2 DEF Reached
    <3>5. a < i \/ (a = i /\ b < p + 1)
      BY <3>3, <3>4, <1>0
    <3>6. Reached(got[k], i, p + 1)
      BY <3>2, <3>4, <3>5 DEF Reached
    <3>. QED BY <3>1, <3>6, <2>1, <1>1
  <2>2. CASE k = Len(got) + 1
    BY <2>2, <1>0, <1>1, <1>2 DEF Reached
  <2>. QED BY <2>1, <2>2, <1>1
<1>5. ASSUME NEW x \in Wanted, Reached(x, i, p + 1) PROVE \E k \in 1..(Len(got) + 1) : got'[k] = x
  <2>1. PICK c, b : c \in LeafAt /\ b \in Sized(c) /\ x = <<Leaf(c), b>>
    BY WantedRecords
  <2>2. PICK a \in LeafAt : Leaf(c) = Leaf(a) /\ (a < i \/ (a = i /\ b < p + 1))
    BY <1>5, <2>1 DEF Reached
  <2>3. b \in Int
    BY <2>1, LeafTypes DEF Sized
  <2>4. CASE a = i /\ b = p
    <3>1. x = new
      BY <2>1, <2>2, <2>4
    <3>. QED BY <3>1, <1>1
  <2>5. CASE a < i \/ (a = i /\ b < p)
    <3>1. Reached(x, i, p)
      BY <2>1, <2>2, <2>5 DEF Reached
    <3>. QED BY <3>1, <1>1 DEF Got
  <2>. QED BY <2>2, <2>3, <2>4, <2>5, <1>0
<1>6. InOrder' /\ (\A k \in 1..Len(got') : got'[k] \in Wanted')
  <2>1. \A k, l \in 1..Len(got') : k < l => k \in 1..Len(got) /\ l \in 1..(Len(got) + 1)
    BY <1>1
  <2>2. \A x, y : Precedes(x, y)' <=> Precedes(x, y)
    BY FixedStays DEF Precedes
  <2>3. InOrder'
    BY <1>3, <2>1, <2>2 DEF InOrder
  <2>4. \A k \in 1..Len(got') : k \in 1..(Len(got) + 1)
    BY <1>1
  <2>. QED BY <1>4, <2>3, <2>4, FixedStays
<1>7. Sound' /\ IsSeq(got)'
  BY <1>1, <1>6 DEF Sound, IsSeq
<1>8. \A k \in 1..Len(got') : Reached(got[k], i, p + 1)'
  BY <1>1, <1>4, FixedStays DEF Reached
<1>9. \A x \in Wanted' : Reached(x, i, p + 1)' => \E k \in 1..Len(got') : got'[k] = x
  BY <1>1, <1>5, FixedStays
<1>. QED BY <1>7, <1>8, <1>9 DEF Got

\* A record of another parent is passed over.
LEMMA SkipStep ==
    ASSUME Typed, ChainSound, UNCHANGED <<fixed, got>>, NEW i \in LeafAt, NEW p \in Sized(i),
           Key(Leaf(i), p).p # want, Got(i, p)
    PROVE  Got(i, p + 1)'
<1>0. i \in Nat /\ p \in Nat
  BY LeafTypes DEF LeafAt, Sized
<1>1. ASSUME NEW x \in Wanted PROVE Reached(x, i, p + 1) <=> Reached(x, i, p)
  <2>1. PICK c, b : c \in LeafAt /\ b \in Sized(c) /\ x = <<Leaf(c), b>> /\ Key(Leaf(c), b).p = want
    BY WantedRecords
  <2>2. b \in Int /\ \A a \in LeafAt : Leaf(a) = Leaf(c) => a = c
    BY <2>1, LeafTypes, LeavesDistinct DEF Sized
  <2>3. ~(c = i /\ b = p)
    BY <2>1
  <2>. QED BY <2>1, <2>2, <2>3, <1>0 DEF Reached
<1>2. Got(i, p + 1)
  BY <1>1 DEF Got, Sound
<1>. QED BY <1>2, GotStays

\* At the end of a leaf the query is at the beginning of the next.
LEMMA LeafEnd ==
    ASSUME Typed, ChainSound, NEW i \in LeafAt, NEW p \in Nat, p > Size(Leaf(i)), Got(i, p)
    PROVE  Got(i + 1, 1)
<1>0. i \in Nat
  BY LeafTypes DEF LeafAt
<1>1. ASSUME NEW x \in Wanted PROVE Reached(x, i + 1, 1) <=> Reached(x, i, p)
  <2>1. PICK c, b : c \in LeafAt /\ b \in Sized(c) /\ x = <<Leaf(c), b>>
    BY WantedRecords
  <2>2. /\ b \in Int /\ b >= 1 /\ b <= Size(Leaf(c)) /\ Size(Leaf(c)) \in Nat /\ c \in Nat
        /\ \A a \in LeafAt : Leaf(a) = Leaf(c) => a = c
    BY <2>1, LeafTypes, LeavesDistinct DEF Sized, LeafAt
  <2>3. Reached(x, i + 1, 1) <=> c < i + 1
    BY <2>1, <2>2, <1>0 DEF Reached
  <2>4. Reached(x, i, p) <=> (c < i \/ c = i)
    BY <2>1, <2>2, <1>0 DEF Reached
  <2>. QED BY <2>2, <2>3, <2>4, <1>0
<1>. QED BY <1>1 DEF Got, Sound

Complete == Sound /\ Wanted \subseteq Range(got)

\* A query that stands behind every wanted record has answered.
LEMMA AllReached ==
    ASSUME NEW i, NEW p, Got(i, p), \A x \in Wanted : Reached(x, i, p)
    PROVE  Complete
<1>1. \A x \in Wanted : \E k \in 1..Len(got) : got[k] = x
  BY DEF Got
<1>2. DOMAIN got = 1..Len(got)
  BY AppendIsSeq DEF Got
<1>. QED BY <1>1, <1>2 DEF Complete, Range, Got

LEMMA ChainEnd ==
    ASSUME Typed, ChainSound, Got(Len(tree.leaves) + 1, 1)
    PROVE  Complete
<1>1. ASSUME NEW x \in Wanted PROVE Reached(x, Len(tree.leaves) + 1, 1)
  <2>1. PICK c, b : c \in LeafAt /\ b \in Sized(c) /\ x = <<Leaf(c), b>>
    BY WantedRecords
  <2>. QED BY <2>1, LeafTypes DEF Reached, LeafAt
<1>. QED BY <1>1, AllReached

\* Before a record above the parent stands every wanted one.
LEMMA BehindAll ==
    ASSUME Typed, ChainSound, NEW i \in LeafAt, NEW p \in Sized(i),
           Key(Leaf(i), p).p > want, Got(i, p)
    PROVE  Complete
<1>1. ASSUME NEW x \in Wanted PROVE Reached(x, i, p)
  <2>1. PICK c, b : c \in LeafAt /\ b \in Sized(c) /\ x = <<Leaf(c), b>> /\ Key(Leaf(c), b).p = want
    BY WantedRecords
  <2>2. ~(i < c \/ (i = c /\ p < b))
    <3>1. SUFFICES ASSUME i < c \/ (i = c /\ p < b) PROVE FALSE
      OBVIOUS
    <3>2. Less(Key(Leaf(i), p), Key(Leaf(c), b))
      BY <2>1, <3>1, KeysOrdered
    <3>. QED BY <3>2, <2>1, LeafTypes DEF Less
  <2>3. ~(i = c /\ p = b)
    BY <2>1, LeafTypes
  <2>4. i \in Nat /\ c \in Nat /\ p \in Int /\ b \in Int
    BY <2>1, LeafTypes DEF LeafAt, Sized
  <2>. QED BY <2>1, <2>2, <2>3, <2>4 DEF Reached
<1>. QED BY <1>1, AllReached

\* The landing check: a scan may begin on any leaf it accepts.
LEMMA LandingStep ==
    ASSUME Typed, ChainSound, NEW i \in LeafAt, got = <<>>, Landed, cur = Leaf(i), visited = {}
    PROVE  Got(i, 1)
<1>0. 1 \in Sized(i) /\ i \in Nat /\ Size(Leaf(i)) # 0
  BY LeafTypes DEF LeafAt, Sized
<1>1. ASSUME NEW x \in Wanted PROVE ~Reached(x, i, 1)
  <2>1. PICK c, b : c \in LeafAt /\ b \in Sized(c) /\ x = <<Leaf(c), b>> /\ Key(Leaf(c), b).p = want
    BY WantedRecords
  <2>2. b \in Nat /\ b >= 1 /\ c \in Nat /\ \A a \in LeafAt : Leaf(a) = Leaf(c) => a = c
    BY <2>1, LeafTypes, LeavesDistinct DEF Sized, LeafAt
  <2>3. ~(c < i)
    <3>1. SUFFICES ASSUME c < i PROVE FALSE
      OBVIOUS
    <3>2. Less(Key(Leaf(c), b), Key(Leaf(i), 1))
      BY <1>0, <2>1, <3>1, KeysOrdered
    <3>3. Above(Key(Leaf(i), 1))
      BY <1>0, <2>1, <3>2, LeafTypes DEF Less, Above
    <3>4. Leaf(i) = Leaf(1)
      BY <1>0, <3>3 DEF Landed, ChainSound, ChainLinked
    <3>5. i = 1
      BY <3>4, LeafTypes, LeavesDistinct DEF LeafAt
    <3>. QED BY <2>1, <2>2, <3>1, <3>5 DEF LeafAt
  <2>. QED BY <1>0, <2>1, <2>2, <2>3 DEF Reached
<1>2. IsSeq(got) /\ Len(got) = 0 /\ InOrder
  <2>1. got \in Seq({})
    OBVIOUS
  <2>. QED BY <2>1 DEF IsSeq, InOrder
<1>. QED BY <1>1, <1>2 DEF Got, Sound

\* A query that has handed out nothing stands before the first leaf.
LEMMA NothingYet ==
    ASSUME Typed, ChainSound, got = <<>>
    PROVE  Got(1, 1) /\ Sound /\ 1 \in LeafAt
<1>0. 1 \in LeafAt
  BY LeafTypes DEF LeafAt
<1>1. ASSUME NEW x \in Wanted PROVE ~Reached(x, 1, 1)
  <2>1. PICK c, b : c \in LeafAt /\ b \in Sized(c) /\ x = <<Leaf(c), b>>
    BY WantedRecords
  <2>. QED BY <2>1, LeafTypes DEF Reached, LeafAt, Sized
<1>2. IsSeq(got) /\ Len(got) = 0 /\ InOrder
  <2>1. got \in Seq({})
    OBVIOUS
  <2>. QED BY <2>1 DEF IsSeq, InOrder
<1>. QED BY <1>0, <1>1, <1>2 DEF Got, Sound

---------------------------------------------------------------------------
(* Which phase goes with which error and outcome, on any tree. *)

Searching == {"start", "descend", "scan", "records"}
Walking   == {"fallback", "walk", "leaf"}

Shape ==
    /\ Typed /\ faults \in Nat
    /\ phase \in Searching \union Walking \union {"unwrap", "done"}
    /\ err \in {"none", "degraded", "header", "callback"}
    /\ phase \in Searching => err = "none"
    /\ phase = "unwrap" => err \in {"degraded", "callback"}
    /\ phase \in Walking => err \in {"degraded", "header"}
    /\ phase # "done" => outcome = "none"

LEMMA ShapeInit == Init => Shape
BY DEF Init, Shape, Typed, Searching, Walking

LEMMA ShapeNext == Shape /\ [Next]_vars => Shape'
<1> SUFFICES ASSUME Shape, [Next]_vars PROVE Shape'
  OBVIOUS
<1>0. Typed' = Typed
  <2>1. UNCHANGED fixed
    BY DEF Next, vars, Begin, Descend, ScanLeaf, ScanRecord, ScanNext, Unwrap, Fallback, Walk, WalkRecord, WalkNext
  <2>. QED BY <2>1, FixedStays
<1> USE DEF Shape, Searching, Walking
<1>1. CASE Begin
  BY <1>0, <1>1 DEF Begin, HeaderFails, Finish, told
<1>2. CASE Descend
  BY <1>0, <1>2 DEF Descend, ReadFails, ReadOK, EndSearch, told
<1>3. CASE ScanLeaf
  BY <1>0, <1>3 DEF ScanLeaf, ReadFails, ReadOK, EndSearch, Finish, told
<1>4. CASE ScanRecord
  BY <1>0, <1>4 DEF ScanRecord, EndSearch, Finish, told
<1>5. CASE ScanNext
  BY <1>0, <1>5 DEF ScanNext, told
<1>6. CASE Unwrap
  BY <1>0, <1>6 DEF Unwrap, Degraded, Finish
<1>7. CASE Fallback
  BY <1>0, <1>7 DEF Fallback, HeaderFails, Finish, told
<1>8. CASE Walk
  <2>1. \A num : Enter(num) => phase' \in {"walk", "leaf"}
    BY DEF Enter
  <2>2. phase = "walk" /\ err' = err
    BY <1>8 DEF Walk
  <2>3. /\ phase' = "done" \/ (phase' \in {"walk", "leaf"} /\ outcome' = outcome)
        /\ faults' = faults \/ faults' = faults + 1
    BY <1>8, <2>1 DEF Walk, ReadFails, ReadOK, Finish, told
  <2>. QED BY <1>0, <2>2, <2>3
<1>9. CASE WalkRecord
  BY <1>0, <1>9 DEF WalkRecord, Finish, told
<1>10. CASE WalkNext
  BY <1>0, <1>10 DEF WalkNext, told
<1>11. CASE UNCHANGED vars
  BY <1>0, <1>11 DEF vars, told
<1>. QED BY <1>1, <1>2, <1>3, <1>4, <1>5, <1>6, <1>7, <1>8, <1>9, <1>10, <1>11 DEF Next

\* After the callback ended a query it is not called again, whatever the tree
\* and however many reads fail: unwrapSearchErr hands its error to the caller.
THEOREM StoppedIsStopped == Spec => StopIsFinal
<1>1. Shape /\ [Next]_vars => [got' # got => err # "callback" /\ outcome # "stopped"]_vars
  <2> SUFFICES ASSUME Shape, Next, got' # got PROVE err # "callback" /\ outcome # "stopped"
    OBVIOUS
  <2>1. phase \in {"records", "leaf"}
    BY DEF Next, Begin, Descend, ScanLeaf, ScanRecord, ScanNext, Unwrap, Fallback, Walk, WalkRecord, WalkNext
  <2>. QED BY <2>1 DEF Shape, Searching, Walking
<1>. QED BY <1>1, ShapeInit, ShapeNext, PTL DEF Spec, StopIsFinal

---------------------------------------------------------------------------
(* Where a query over a sound chain stands, phase by phase. *)

\* The link of leaf i, and of the header for i = 0.
Succ(i) == IF i = Len(tree.leaves) THEN 0 ELSE Leaf(i + 1)

\* The walk has been to no leaf after leaf i.
Behind(i) == \A v \in visited : \E a \in LeafAt : v = Leaf(a) /\ a <= i

\* A scan that has started is past a key that is not below the parent.
StartedAt(i, p) ==
    started => \E a \in LeafAt : \E b \in Sized(a) :
                  (a < i \/ (a = i /\ b < p)) /\ Key(Leaf(a), b).p >= want

AtStart == got = <<>> /\ ~started

AtScan ==
    \/ AtStart /\ visited = {} /\ \E i \in LeafAt : cur = Leaf(i)
    \/ \E i \in LeafAt :
          visited # {} /\ Behind(i) /\ cur = Succ(i) /\ Got(i + 1, 1) /\ StartedAt(i + 1, 1)

AtRecord ==
    \E i \in LeafAt, p \in Nat \ {0} :
        pos = p /\ cur = Leaf(i) /\ visited # {} /\ Behind(i) /\ Got(i, p) /\ StartedAt(i, p)

\* With no read failing only the first leaf of a scan can be refused.
AtUnwrap == Sound /\ (err = "degraded" /\ faults = 0 => got = <<>>)

AtWalk ==
    \E i \in 0..Len(tree.leaves) : todo = <<Succ(i)>> /\ Behind(i) /\ Got(i + 1, 1)

AtLeaf ==
    \E i \in LeafAt, p \in Nat \ {0} :
        pos = p /\ cur = Leaf(i) /\ todo = <<Succ(i)>> /\ Behind(i) /\ Got(i, p)

AtEnd == Sound /\ (outcome = "ok" => Complete)

Standing ==
    /\ phase \in {"start", "descend"} => AtStart
    /\ phase = "scan"     => AtScan
    /\ phase = "records"  => AtRecord
    /\ phase = "unwrap"   => AtUnwrap
    /\ phase = "fallback" => got = <<>>
    /\ phase = "walk"     => AtWalk
    /\ phase = "leaf"     => AtLeaf
    /\ phase = "done"     => AtEnd

\* What AnswerRight asks of the tree and of the reads.
Asked == ChainSound /\ (anomaly => faults = 0) /\ (err \in {"degraded", "header"} => ByChain)

LEMMA PlaceStays ==
    ASSUME UNCHANGED fixed
    PROVE  /\ ByChain' = ByChain /\ \A i : Succ(i)' = Succ(i)
           /\ UNCHANGED visited => \A i : Behind(i)' = Behind(i)
           /\ UNCHANGED started => \A i, p : StartedAt(i, p)' = StartedAt(i, p)
<1>1. tree' = tree /\ want' = want
  BY DEF fixed
<1>2. ByChain' = ByChain /\ \A i : Succ(i)' = Succ(i)
  BY <1>1 DEF ByChain, Succ, Leaf
<1>3. UNCHANGED visited => \A i : Behind(i)' = Behind(i)
  BY FixedStays DEF Behind
<1>4. UNCHANGED started => \A i, p : StartedAt(i, p)' = StartedAt(i, p)
  <2>1. \A a, b : Key(Leaf(a), b)' = Key(Leaf(a), b)
    BY <1>1 DEF Key, Leaf
  <2>. QED BY <2>1, <1>1, FixedStays DEF StartedAt
<1>. QED BY <1>2, <1>3, <1>4

LEMMA CompleteStays ==
    ASSUME UNCHANGED fixed, UNCHANGED got
    PROVE  Complete' = Complete
BY FixedStays, GotStays DEF Complete, Range

LEMMA SuccIsNext ==
    ASSUME Typed, ChainSound, NEW i \in 0..Len(tree.leaves)
    PROVE  /\ Succ(i) = 0 => i = Len(tree.leaves)
           /\ Succ(i) # 0 => /\ i + 1 \in LeafAt /\ Succ(i) = Leaf(i + 1)
                             /\ \A a \in LeafAt : a <= i => Leaf(a) # Succ(i)
<1>1. CASE i = Len(tree.leaves)
  BY <1>1 DEF Succ
<1>2. CASE i # Len(tree.leaves)
  <2>1. i + 1 \in LeafAt /\ Succ(i) = Leaf(i + 1)
    BY <1>2, LeafTypes DEF Succ, LeafAt
  <2>2. ASSUME NEW a \in LeafAt, a <= i PROVE Leaf(a) # Leaf(i + 1)
    BY <2>1, <2>2, LeafTypes, LeavesDistinct DEF LeafAt
  <2>. QED BY <2>1, <2>2, LeafTypes
<1>. QED BY <1>1, <1>2

\* The hypotheses of AnswerRight held before if they hold after a step.
LEMMA AskedBefore ==
    ASSUME Shape, Next, Asked'
    PROVE  Asked
<1>1. UNCHANGED fixed
  BY DEF Next, Begin, Descend, ScanLeaf, ScanRecord, ScanNext, Unwrap, Fallback, Walk, WalkRecord, WalkNext
<1>2. anomaly => anomaly'
  BY DEF Next, Begin, Descend, ScanLeaf, ScanRecord, ScanNext, Unwrap, Fallback, Walk, WalkRecord, WalkNext,
         Finish, EndSearch, told
<1>3. faults' = faults \/ faults' = faults + 1
  BY DEF Next, Begin, Descend, ScanLeaf, ScanRecord, ScanNext, Unwrap, Fallback, Walk, WalkRecord, WalkNext,
         HeaderFails, ReadOK, ReadFails
<1>4. err \in {"degraded", "header"} => err' = err
  BY DEF Next, Begin, Descend, ScanLeaf, ScanRecord, ScanNext, Unwrap, Fallback, Walk, WalkRecord, WalkNext,
         Shape, Searching
<1>5. ByChain' = ByChain /\ ChainSound' = ChainSound
  BY <1>1, PlaceStays, FixedStays
<1>6. faults' = 0 => faults = 0
  BY <1>3 DEF Shape
<1>. QED BY <1>2, <1>4, <1>5, <1>6 DEF Asked

LEMMA BeginStanding ==
    ASSUME Shape, Asked, Standing, Begin PROVE Standing'
<1>1. AtStart'
  BY DEF Begin, Standing, AtStart
<1>2. ~IsEmpty
  BY DEF IsEmpty, Asked, ChainSound, ChainLinked
<1>3. phase' \in {"descend", "fallback"}
  BY <1>2 DEF Begin
<1>. QED BY <1>1, <1>3 DEF Standing, AtStart

LEMMA DescendStanding ==
    ASSUME Shape, Asked, Standing, Descend PROVE Standing'
<1>1. AtStart' /\ phase = "descend" /\ UNCHANGED fixed
  BY DEF Descend, Standing, AtStart, EndSearch, place
<1>2. CASE phase' = "descend"
  BY <1>1, <1>2 DEF Standing
<1>3. CASE phase' = "unwrap"
  BY <1>1, <1>3, NothingYet, GotStays, FixedStays DEF Standing, AtUnwrap, AtStart, Asked, Shape
<1>4. CASE phase' = "scan"
  <2>1. visited' = {} /\ cur' = cur /\ Has(cur) /\ tree.node[cur].type = "leaf"
    BY <1>1, <1>4 DEF Descend, EndSearch, ReadOK
  <2>2. cur \in Range(tree.leaves)
    BY <2>1 DEF Has, Asked, ChainSound, ChainLinked
  <2>3. \E i \in LeafAt : cur = Leaf(i)
    <3>1. tree.leaves \in Seq(Nat \ {0})
      BY BTreeAssumption DEF Shape, Typed, IsTree
    <3>. QED BY <2>2, <3>1 DEF Range, LeafAt, Leaf
  <2>4. AtScan'
    BY <1>1, <2>1, <2>3, FixedStays DEF AtScan
  <2>. QED BY <1>4, <2>4 DEF Standing
<1>5. phase' \in {"descend", "unwrap", "scan"}
  BY <1>1 DEF Descend, EndSearch
<1>. QED BY <1>2, <1>3, <1>4, <1>5

LEMMA ScanLeafStanding ==
    ASSUME Shape, Asked, Standing, ScanLeaf PROVE Standing'
<1>1. AtScan /\ UNCHANGED <<fixed, got>> /\ Typed /\ ChainSound /\ faults \in Nat
  BY DEF ScanLeaf, Standing, Shape, Asked
<1>2. CASE \E i \in LeafAt : visited # {} /\ Behind(i) /\ cur = Succ(i) /\ Got(i + 1, 1) /\ StartedAt(i + 1, 1)
  <2>1. PICK i \in LeafAt : visited # {} /\ Behind(i) /\ cur = Succ(i) /\ Got(i + 1, 1) /\ StartedAt(i + 1, 1)
    BY <1>2
  <2>2. i \in 0..Len(tree.leaves)
    BY <1>1, LeafTypes DEF LeafAt
  <2>3. CASE cur = 0
    <3>1. i = Len(tree.leaves)
      BY <1>1, <2>1, <2>2, <2>3, SuccIsNext
    <3>2. Complete
      BY <1>1, <2>1, <3>1, ChainEnd
    <3>3. phase' = "done" /\ AtEnd'
      BY <1>1, <2>3, <3>2, CompleteStays, GotStays DEF ScanLeaf, Finish, AtEnd, Complete
    <3>. QED BY <3>3 DEF Standing
  <2>4. CASE cur # 0
    <3>1. /\ i + 1 \in LeafAt /\ cur = Leaf(i + 1)
          /\ \A a \in LeafAt : a <= i => Leaf(a) # cur
      BY <1>1, <2>1, <2>2, <2>4, SuccIsNext
    <3>2. cur \notin visited
      BY <2>1, <3>1 DEF Behind
    <3>3. Has(cur) /\ Scannable(cur) /\ Landed
      BY <1>1, <2>1, <3>1, LeafTypes DEF ChainSound, ChainLinked, Landed
    <3>4. CASE ReadFails(cur)
      <4>1. phase' = "unwrap" /\ faults' # 0
        BY <1>1, <2>4, <3>2, <3>3, <3>4 DEF ScanLeaf, ReadFails, ReadOK, EndSearch
      <4>. QED BY <1>1, <2>1, <4>1, GotStays DEF Standing, AtUnwrap, Got
    <3>5. CASE ReadOK(cur)
      <4>1. /\ phase' = "records" /\ visited' = visited \union {cur} /\ pos' = 1
            /\ UNCHANGED <<cur, started>>
        BY <1>1, <2>4, <3>2, <3>3, <3>5 DEF ScanLeaf, ReadFails, ReadOK, EndSearch
      <4>2. Behind(i + 1)'
        <5>1. \A v \in visited' : \E a \in LeafAt : v = Leaf(a) /\ a <= i + 1
          BY <2>1, <2>2, <3>1, <4>1, LeafTypes, <1>1 DEF Behind, LeafAt
        <5>. QED BY <5>1, <1>1, FixedStays DEF Behind
      <4>3. Got(i + 1, 1)' /\ StartedAt(i + 1, 1)'
        BY <1>1, <2>1, <4>1, GotStays, PlaceStays
      <4>4. AtRecord'
        BY <1>1, <3>1, <4>1, <4>2, <4>3, FixedStays DEF AtRecord
      <4>. QED BY <4>1, <4>4 DEF Standing
    <3>. QED BY <2>4, <3>2, <3>4, <3>5 DEF ScanLeaf
  <2>. QED BY <2>3, <2>4
<1>3. CASE AtStart /\ visited = {} /\ \E i \in LeafAt : cur = Leaf(i)
  <2>1. PICK i \in LeafAt : cur = Leaf(i)
    BY <1>3
  <2>2. cur # 0 /\ Has(cur) /\ Scannable(cur) /\ i \in 0..Len(tree.leaves)
    BY <1>1, <2>1, LeafTypes DEF ChainSound, ChainLinked, LeafAt
  <2>3. CASE phase' = "unwrap"
    BY <1>1, <1>3, <2>3, NothingYet, GotStays DEF Standing, AtUnwrap, AtStart
  <2>4. CASE phase' = "records"
    <3>1. /\ Landed /\ visited' = visited \union {cur} /\ pos' = 1
          /\ UNCHANGED <<cur, started>>
      BY <2>2, <2>4, <1>3 DEF ScanLeaf, EndSearch
    <3>2. Got(i, 1)
      BY <1>1, <1>3, <2>1, <3>1, LandingStep DEF AtStart
    <3>3. Behind(i)'
      <4>1. \A v \in visited' : \E a \in LeafAt : v = Leaf(a) /\ a <= i
        BY <1>3, <2>1, <2>2, <3>1
      <4>. QED BY <4>1, <1>1, FixedStays DEF Behind
    <3>4. Got(i, 1)' /\ StartedAt(i, 1)'
      BY <1>1, <1>3, <3>1, <3>2, GotStays DEF AtStart, StartedAt
    <3>5. AtRecord'
      BY <1>1, <2>1, <3>1, <3>3, <3>4, FixedStays DEF AtRecord
    <3>. QED BY <2>4, <3>5 DEF Standing
  <2>5. phase' \in {"unwrap", "records"}
    BY <1>3, <2>2 DEF ScanLeaf, EndSearch
  <2>. QED BY <2>3, <2>4, <2>5
<1>. QED BY <1>1, <1>2, <1>3 DEF AtScan

LEMMA ScanRecordStanding ==
    ASSUME Shape, Asked, Standing, ScanRecord PROVE Standing'
<1>1. AtRecord /\ UNCHANGED <<fixed, cur, visited, faults>> /\ pos <= Size(cur) /\ Typed /\ ChainSound
  BY DEF ScanRecord, Standing, Shape, Asked
<1>2. PICK i \in LeafAt, p \in Nat \ {0} :
        pos = p /\ cur = Leaf(i) /\ visited # {} /\ Behind(i) /\ Got(i, p) /\ StartedAt(i, p)
  BY <1>1 DEF AtRecord
<1>3. p \in Sized(i) /\ Parses(cur, pos) /\ i \in Nat
  BY <1>1, <1>2, LeafTypes DEF Sized, ChainSound, ChainLinked, LeafAt
<1> DEFINE key == Key(Leaf(i), p)
<1>4. key.p \in Int /\ want \in Int
  BY <1>1, <1>3, LeafTypes
<1>5. Key(cur, pos) = key
  BY <1>2
<1>6. CASE ~started /\ Below(key)
  <2>1. phase' = "records" /\ pos' = p + 1 /\ UNCHANGED <<got, started>>
    BY <1>2, <1>3, <1>5, <1>6 DEF ScanRecord, told
  <2>2. key.p # want
    BY <1>4, <1>6 DEF Below
  <2>3. Got(i, p + 1)'
    BY <1>1, <1>2, <1>3, <2>1, <2>2, SkipStep
  <2>4. StartedAt(i, p + 1)'
    BY <1>6, <2>1 DEF StartedAt
  <2>5. AtRecord'
    BY <1>1, <1>2, <2>1, <2>3, <2>4, FixedStays, PlaceStays DEF AtRecord
  <2>. QED BY <2>1, <2>5 DEF Standing
<1>7. CASE ~(~started /\ Below(key))
  <2>1. key.p >= want
    <3>1. CASE ~started
      BY <1>4, <1>7, <3>1 DEF Below
    <3>2. CASE started
      <4>1. PICK a, b : /\ a \in LeafAt /\ b \in Sized(a) /\ Key(Leaf(a), b).p >= want
                        /\ a < i \/ (a = i /\ b < p)
        BY <1>2, <3>2 DEF StartedAt
      <4>2. Less(Key(Leaf(a), b), key)
        BY <1>1, <1>3, <4>1, KeysOrdered
      <4>3. Key(Leaf(a), b).p \in Int
        BY <1>1, <4>1, LeafTypes
      <4>. QED BY <1>4, <4>1, <4>2, <4>3 DEF Less
    <3>. QED BY <3>1, <3>2
  <2>2. CASE key.p # want
    <3>1. key.p > want
      BY <1>4, <2>1, <2>2
    <3>2. Complete
      BY <1>1, <1>2, <1>3, <3>1, BehindAll
    <3>3. phase' = "done" /\ UNCHANGED got
      BY <1>3, <1>5, <1>7, <2>2 DEF ScanRecord, Finish
    <3>4. AtEnd'
      BY <1>1, <3>2, <3>3, CompleteStays, GotStays DEF AtEnd, Complete
    <3>. QED BY <3>3, <3>4 DEF Standing
  <2>3. CASE key.p = want
    <3>1. got' = Append(got, <<Leaf(i), p>>) /\ started'
      BY <1>2, <1>3, <1>5, <1>7, <2>3 DEF ScanRecord, Deliver
    <3>2. Got(i, p + 1)'
      BY <1>1, <1>2, <1>3, <2>3, <3>1, DeliverStep
    <3>3. CASE phase' = "unwrap"
      <4>1. err' = "callback"
        BY <1>3, <1>5, <1>7, <2>3, <3>3, <1>1 DEF ScanRecord, EndSearch
      <4>2. AtUnwrap'
        BY <3>2, <4>1 DEF AtUnwrap, Got
      <4>. QED BY <3>3, <4>2 DEF Standing
    <3>4. CASE phase' = phase /\ pos' = p + 1
      <4>1. StartedAt(i, p + 1)'
        <5>1. p < p + 1 /\ Key(Leaf(i), p)'.p >= want'
          BY <1>1, <1>4, <2>1 DEF fixed, Key, Leaf
        <5>. QED BY <1>1, <1>3, <5>1, FixedStays DEF StartedAt
      <4>2. AtRecord'
        BY <1>1, <1>2, <3>2, <3>4, <4>1, FixedStays, PlaceStays DEF AtRecord
      <4>. QED BY <3>4, <4>2 DEF Standing, ScanRecord
    <3>5. phase' = "unwrap" \/ (phase' = phase /\ pos' = p + 1)
      BY <1>2, <1>3, <1>5, <1>7, <2>3 DEF ScanRecord, EndSearch
    <3>. QED BY <3>3, <3>4, <3>5
  <2>. QED BY <2>2, <2>3
<1>. QED BY <1>6, <1>7

LEMMA ScanNextStanding ==
    ASSUME Shape, Asked, Standing, ScanNext PROVE Standing'
<1>1. /\ AtRecord /\ UNCHANGED <<fixed, visited, started, got>> /\ pos > Size(cur)
      /\ cur' = tree.node[cur].next /\ phase' = "scan" /\ Typed /\ ChainSound
  BY DEF ScanNext, Standing, Shape, Asked
<1>2. PICK i \in LeafAt, p \in Nat \ {0} :
        pos = p /\ cur = Leaf(i) /\ visited # {} /\ Behind(i) /\ Got(i, p) /\ StartedAt(i, p)
  BY <1>1 DEF AtRecord
<1>3. cur' = Succ(i)
  BY <1>1, <1>2 DEF ChainSound, ChainLinked, Succ
<1>4. Got(i + 1, 1)
  BY <1>1, <1>2, LeafEnd
<1>5. StartedAt(i + 1, 1)
  BY <1>1, <1>2, LeafTypes DEF StartedAt, LeafAt
<1>6. AtScan'
  BY <1>1, <1>2, <1>3, <1>4, <1>5, FixedStays, GotStays, PlaceStays DEF AtScan
<1>. QED BY <1>1, <1>6 DEF Standing

\* The fallback starts over, so nothing may have been handed out: Asked' says
\* that no read failed if an anomaly was noted.
LEMMA UnwrapStanding ==
    ASSUME Shape, Asked, Asked', Standing, Unwrap PROVE Standing'
<1>1. AtUnwrap /\ UNCHANGED <<fixed, got, err, faults>> /\ phase = "unwrap"
  BY DEF Unwrap, Standing, place
<1>2. CASE Degraded
  <2>1. phase' = "fallback" /\ anomaly' /\ faults = 0 /\ err = "degraded"
    BY <1>1, <1>2 DEF Unwrap, Asked, Degraded, Shape
  <2>2. got' = <<>>
    BY <1>1, <2>1 DEF AtUnwrap
  <2>. QED BY <2>1, <2>2 DEF Standing
<1>3. CASE ~Degraded
  <2>1. phase' = "done" /\ outcome' = "stopped"
    BY <1>3 DEF Unwrap, Finish
  <2>2. AtEnd'
    BY <1>1, <2>1, GotStays DEF AtEnd, AtUnwrap
  <2>. QED BY <2>1, <2>2 DEF Standing
<1>. QED BY <1>2, <1>3

LEMMA FallbackStanding ==
    ASSUME Shape, Asked, Standing, Fallback PROVE Standing'
<1>1. /\ phase = "fallback" /\ got = <<>> /\ UNCHANGED <<fixed, got>> /\ Typed /\ ChainSound
      /\ ByChain /\ Got(1, 1) /\ Sound /\ 1 \in LeafAt
  BY NothingYet DEF Fallback, Standing, Shape, Walking, Asked
<1>2. CASE phase' = "done"
  <2>1. outcome' = "error"
    BY <1>2 DEF Fallback, Finish
  <2>2. AtEnd'
    BY <1>1, <2>1, GotStays DEF AtEnd
  <2>. QED BY <1>2, <2>2 DEF Standing
<1>3. CASE phase' = "walk"
  <2>1. todo' = <<tree.first>> /\ visited' = {}
    BY <1>1, <1>3 DEF Fallback, Finish
  <2>2. Succ(0) = tree.first /\ 0 \in 0..Len(tree.leaves)
    BY <1>1, LeafTypes DEF Succ, ChainSound, ChainLinked, LeafAt
  <2>3. Behind(0)' /\ Got(0 + 1, 1)'
    BY <1>1, <2>1, GotStays DEF Behind
  <2>4. (0 \in 0..Len(tree.leaves))' /\ todo' = <<Succ(0)'>>
    BY <1>1, <2>1, <2>2, PlaceStays DEF fixed
  <2>5. AtWalk'
    BY <2>3, <2>4 DEF AtWalk
  <2>. QED BY <1>3, <2>5 DEF Standing
<1>. QED BY <1>2, <1>3 DEF Fallback, Finish

LEMMA WalkStanding ==
    ASSUME Shape, Asked, Standing, Walk PROVE Standing'
<1>1. /\ AtWalk /\ UNCHANGED <<fixed, got>> /\ Typed /\ ChainSound /\ ByChain
  BY DEF Walk, Standing, Shape, Walking, Asked
<1>2. PICK i \in 0..Len(tree.leaves) : todo = <<Succ(i)>> /\ Behind(i) /\ Got(i + 1, 1)
  BY <1>1 DEF AtWalk
<1>3. todo # <<>> /\ Head(todo) = Succ(i)
  BY <1>2
<1>4. CASE Succ(i) = 0
  <2>1. Complete
    BY <1>1, <1>2, <1>4, SuccIsNext, ChainEnd
  <2>2. phase' = "done"
    BY <1>1, <1>3, <1>4 DEF Walk, Finish
  <2>3. AtEnd'
    BY <1>1, <2>1, CompleteStays, GotStays DEF AtEnd, Complete
  <2>. QED BY <2>2, <2>3 DEF Standing
<1>5. CASE Succ(i) # 0
  <2> DEFINE num == Succ(i)
  <2>1. /\ i + 1 \in LeafAt /\ num = Leaf(i + 1)
        /\ \A a \in LeafAt : a <= i => Leaf(a) # num
    BY <1>1, <1>5, SuccIsNext
  <2>2. ~Seen(num) /\ Has(num)
    BY <1>1, <1>2, <2>1, LeafTypes DEF Seen, Behind
  <2>3. CASE ReadFails(num) /\ Finish("error")
    <3>1. phase' = "done" /\ outcome' = "error"
      BY <2>3 DEF Finish
    <3>2. AtEnd'
      BY <1>1, <1>2, <3>1, GotStays DEF AtEnd, Got
    <3>. QED BY <3>1, <3>2 DEF Standing
  <2>4. CASE visited' = visited \union {num} /\ Enter(num) /\ cur' = num /\ pos' = 1
    <3>1. phase' = "leaf" /\ todo' = <<tree.node[num].next>>
      BY <1>1, <2>4 DEF Enter
    <3>2. tree.node[num].next = Succ(i + 1)
      BY <1>1, <2>1 DEF ChainSound, ChainLinked, Succ
    <3>3. Behind(i + 1)'
      <4>1. \A v \in visited' : \E a \in LeafAt : v = Leaf(a) /\ a <= i + 1
        BY <1>1, <1>2, <2>1, <2>4, LeafTypes DEF Behind, LeafAt
      <4>. QED BY <4>1, <1>1, FixedStays DEF Behind
    <3>4. Got(i + 1, 1)' /\ todo' = <<Succ(i + 1)'>> /\ cur' = Leaf(i + 1)'
      BY <1>1, <1>2, <2>1, <2>4, <3>1, <3>2, GotStays, PlaceStays, FixedStays
    <3>5. AtLeaf'
      BY <1>1, <2>1, <2>4, <3>3, <3>4, FixedStays DEF AtLeaf
    <3>. QED BY <3>1, <3>5 DEF Standing
  <2>. QED BY <1>3, <1>5, <2>2, <2>3, <2>4 DEF Walk
<1>. QED BY <1>4, <1>5

LEMMA WalkRecordStanding ==
    ASSUME Shape, Asked, Standing, WalkRecord PROVE Standing'
<1>1. AtLeaf /\ UNCHANGED <<fixed, cur, visited, todo>> /\ pos <= Size(cur) /\ Typed /\ ChainSound
  BY DEF WalkRecord, Standing, Shape, Asked
<1>2. PICK i \in LeafAt, p \in Nat \ {0} :
        pos = p /\ cur = Leaf(i) /\ todo = <<Succ(i)>> /\ Behind(i) /\ Got(i, p)
  BY <1>1 DEF AtLeaf
<1>3. p \in Sized(i) /\ Parses(cur, pos)
  BY <1>1, <1>2, LeafTypes DEF Sized, ChainSound, ChainLinked
<1>4. ASSUME Got(i, p + 1)', phase' = phase, pos' = p + 1 PROVE Standing'
  <2>1. AtLeaf'
    BY <1>1, <1>2, <1>4, FixedStays, PlaceStays DEF AtLeaf
  <2>. QED BY <2>1, <1>4 DEF Standing, WalkRecord
<1>5. CASE Key(cur, pos).p = want
  <2>1. got' = Append(got, <<Leaf(i), p>>)
    BY <1>2, <1>3, <1>5 DEF WalkRecord, Deliver
  <2>2. Got(i, p + 1)'
    BY <1>1, <1>2, <1>3, <1>5, <2>1, DeliverStep
  <2>3. CASE phase' = "done"
    <3>1. outcome' = "stopped"
      BY <1>3, <1>5, <2>3, <1>1 DEF WalkRecord, Finish
    <3>2. AtEnd'
      BY <2>2, <3>1 DEF AtEnd, Got
    <3>. QED BY <2>3, <3>2 DEF Standing
  <2>4. phase' = "done" \/ (phase' = phase /\ pos' = p + 1)
    BY <1>2, <1>3, <1>5 DEF WalkRecord, Finish
  <2>. QED BY <1>4, <2>2, <2>3, <2>4
<1>6. CASE Key(cur, pos).p # want
  <2>1. got' = got /\ pos' = p + 1 /\ phase' = phase
    BY <1>2, <1>6 DEF WalkRecord
  <2>2. Got(i, p + 1)'
    BY <1>1, <1>2, <1>3, <1>6, <2>1, SkipStep
  <2>. QED BY <1>4, <2>1, <2>2
<1>. QED BY <1>5, <1>6

LEMMA WalkNextStanding ==
    ASSUME Shape, Asked, Standing, WalkNext PROVE Standing'
<1>1. /\ AtLeaf /\ UNCHANGED <<fixed, visited, todo, got>> /\ pos > Size(cur)
      /\ phase' = "walk" /\ Typed /\ ChainSound
  BY DEF WalkNext, Standing, Shape, Asked, place
<1>2. PICK i \in LeafAt, p \in Nat \ {0} :
        pos = p /\ cur = Leaf(i) /\ todo = <<Succ(i)>> /\ Behind(i) /\ Got(i, p)
  BY <1>1 DEF AtLeaf
<1>3. Got(i + 1, 1) /\ i \in 0..Len(tree.leaves)
  BY <1>1, <1>2, LeafEnd, LeafTypes DEF LeafAt
<1>4. Got(i + 1, 1)' /\ Behind(i)' /\ todo' = <<Succ(i)'>> /\ (i \in 0..Len(tree.leaves))'
  BY <1>1, <1>2, <1>3, GotStays, PlaceStays DEF fixed
<1>5. AtWalk'
  BY <1>4 DEF AtWalk
<1>. QED BY <1>1, <1>5 DEF Standing

---------------------------------------------------------------------------
AnswerInv == Shape /\ (Asked => Standing)

LEMMA AnswerInvInit == Init => AnswerInv
<1>1. Init => Standing
  BY DEF Init, Standing, AtStart
<1>. QED BY <1>1, ShapeInit DEF AnswerInv

LEMMA AnswerInvNext == AnswerInv /\ [Next]_vars => AnswerInv'
<1> SUFFICES ASSUME AnswerInv, [Next]_vars PROVE AnswerInv'
  OBVIOUS
<1>1. Shape'
  BY ShapeNext DEF AnswerInv
<1>2. ASSUME Next, Asked' PROVE Standing'
  <2>1. Shape /\ Asked /\ Standing
    BY <1>2, AskedBefore DEF AnswerInv
  <2>. QED BY <1>2, <2>1, BeginStanding, DescendStanding, ScanLeafStanding, ScanRecordStanding, ScanNextStanding,
              UnwrapStanding, FallbackStanding, WalkStanding, WalkRecordStanding, WalkNextStanding DEF Next
<1>3. ASSUME UNCHANGED vars, Asked' PROVE Standing'
  <2>1. /\ UNCHANGED fixed /\ UNCHANGED got /\ UNCHANGED visited /\ UNCHANGED started
        /\ UNCHANGED <<phase, cur, pos, todo, err, outcome, anomaly, faults>>
    BY <1>3 DEF vars, place, told
  <2>2. Asked
    BY <1>3, <2>1, FixedStays, PlaceStays DEF Asked
  <2>3. Standing
    BY <2>2 DEF AnswerInv
  <2>4. AtStart' = AtStart /\ AtUnwrap' = AtUnwrap /\ AtEnd' = AtEnd
    BY <2>1, GotStays, CompleteStays DEF AtStart, AtUnwrap, AtEnd
  <2>5. (AtScan => AtScan') /\ (AtRecord => AtRecord')
    BY <2>1, <2>4, FixedStays, GotStays, PlaceStays DEF AtScan, AtRecord
  <2>6. (AtWalk => AtWalk') /\ (AtLeaf => AtLeaf')
    BY <2>1, FixedStays, GotStays, PlaceStays DEF AtWalk, AtLeaf, fixed
  <2>. QED BY <2>1, <2>3, <2>4, <2>5, <2>6 DEF Standing
<1>. QED BY <1>1, <1>2, <1>3 DEF AnswerInv

\* Whatever the index says, and with the reads failing that Asked allows, a
\* query over a sound leaf chain hands out the wanted records in key order,
\* each once, and all of them if it ends well.
THEOREM AnswersAreRight == Spec => []AnswerRight
<1>1. AnswerInv => AnswerRight
  <2> SUFFICES ASSUME AnswerInv, Asked PROVE Sound /\ (outcome = "ok" => Complete)
    BY DEF AnswerRight, Asked, Sound, Complete
  <2>1. Shape /\ Standing /\ Typed /\ ChainSound
    BY DEF AnswerInv, Asked, Shape
  <2>2. Sound
    <3>1. CASE got = <<>>
      BY <2>1, <3>1, NothingYet
    <3>2. CASE got # <<>>
      BY <2>1, <3>2 DEF Standing, Shape, Searching, Walking, AtStart, AtScan, AtRecord, AtUnwrap, AtWalk, AtLeaf,
                        AtEnd, Got
    <3>. QED BY <3>1, <3>2
  <2>3. outcome = "ok" => Complete
    BY <2>1 DEF Standing, Shape, AtEnd
  <2>. QED BY <2>2, <2>3
<1>. QED BY <1>1, AnswerInvInit, AnswerInvNext, PTL DEF Spec


---------------------------------------------------------------------------
(* Sound trees raise no anomaly. *)

LEMMA LeastOf ==
    ASSUME NEW S \in SUBSET Nat, S # {}
    PROVE  Min(S) \in S /\ \A y \in S : Min(S) <= y
<1>1. PICK x \in S : \A y \in S : ~ (<<y, x>> \in OpToRel(<, Nat))
  BY NatLessThanWellFounded, WFMin
<1>2. \A y \in S : x <= y
  <2> SUFFICES ASSUME NEW y \in S, y < x PROVE FALSE
    OBVIOUS
  <2>1. <<y, x>> \in OpToRel(<, Nat)
    BY DEF OpToRel
  <2>. QED BY <2>1, <1>1
<1>. QED BY <1>2 DEF Min

TreeSound == ChainSound /\ IndexSound

LEMMA NodeTypes ==
    ASSUME Typed, TreeSound, NEW num \in Nodes
    PROVE  /\ Has(num) /\ Size(num) \in Nat /\ Size(num) > 0
           /\ tree.node[num].type = "index" \/ \E i \in LeafAt : num = Leaf(i)
           /\ \A i \in 1..Size(num) :
                 Parses(num, i) /\ Key(num, i).p \in Int /\ Key(num, i).n \in Nat
<1>1. IsTree(tree)
  BY BTreeAssumption DEF Typed
<1>2. CASE num \in Index
  <2>1. num \in DOMAIN tree.node /\ tree.node[num].type = "index" /\ Size(num) > 0
    BY <1>2 DEF TreeSound, IndexSound, Index
  <2>2. \A i \in 1..Size(num) : Parses(num, i)
    BY <1>2 DEF TreeSound, IndexSound
  <2>3. Size(num) \in Nat /\ \A i \in 1..Size(num) : IsKey(Key(num, i))
    BY <1>1, <2>1 DEF IsTree, Size, Key
  <2>. QED BY <2>1, <2>2, <2>3 DEF IsKey, Parses, Has
<1>3. CASE num \notin Index
  <2>1. num \in Range(tree.leaves)
    BY <1>3 DEF Nodes
  <2>2. PICK i \in LeafAt : num = Leaf(i)
    BY <1>1, <2>1 DEF IsTree, Range, LeafAt, Leaf
  <2>3. \A b \in Sized(i) : Parses(Leaf(i), b)
    BY DEF TreeSound, ChainSound, ChainLinked, Sized
  <2>. QED BY <2>2, <2>3, LeafTypes DEF Sized, TreeSound
<1>. QED BY <1>2, <1>3

\* The index points at a node from one place.
IsKid(num, kid) == num \in Index /\ \E i \in 1..Size(num) : tree.node[num].kids[i] = kid

LEMMA SlotsOfKid ==
    ASSUME NEW num, NEW kid, NEW i
    PROVE  <<num, i>> \in Slots(kid) <=> num \in Index /\ i \in 1..Size(num) /\ tree.node[num].kids[i] = kid
BY DEF Slots

LEMMA OneParent ==
    ASSUME Typed, TreeSound, NEW u, NEW v, NEW kid, IsKid(u, kid), IsKid(v, kid)
    PROVE  kid \in Nodes /\ kid # tree.root /\ u = v
<1>1. PICK i \in 1..Size(u) : tree.node[u].kids[i] = kid
  BY DEF IsKid
<1>2. PICK j \in 1..Size(v) : tree.node[v].kids[j] = kid
  BY DEF IsKid
<1>3. <<u, i>> \in Slots(kid) /\ <<v, j>> \in Slots(kid)
  BY <1>1, <1>2, SlotsOfKid DEF IsKid
<1>4. kid \in Nodes
  BY <1>1 DEF IsKid, TreeSound, IndexSound
<1>5. kid # tree.root /\ \E e \in Slots(kid) : Slots(kid) = {e}
  BY <1>3, <1>4 DEF TreeSound, IndexSound
<1>6. <<u, i>> = <<v, j>>
  BY <1>3, <1>5
<1>. QED BY <1>4, <1>5, <1>6

\* No first key of a node is below that of the root: every node lies below it.
AtOrAfter(k, l) == k = l \/ Less(l, k)

LEMMA RootIsFirst ==
    ASSUME Typed, TreeSound, NEW num \in Nodes
    PROVE  AtOrAfter(Key(num, 1), Key(tree.root, 1))
<1> DEFINE below == {n \in Nodes : AtOrAfter(Key(n, 1), Key(tree.root, 1))}
<1>1. tree.root \in below
  BY DEF TreeSound, IndexSound, AtOrAfter
<1>2. ASSUME NEW kid \in Nodes, NEW e \in Slots(kid), e[1] \in below PROVE kid \in below
  <2>0. PICK n \in Index : \E i \in 1..Size(n) : e = <<n, i>> /\ tree.node[n].kids[i] = kid
    BY DEF Slots
  <2>1. PICK i \in 1..Size(n) : e = <<n, i>> /\ tree.node[n].kids[i] = kid
    BY <2>0
  <2>2. n \in below
    BY <1>2, <2>1
  <2>3. Key(n, i) = Key(kid, 1)
    BY <2>1 DEF TreeSound, IndexSound
  <2>4. n \in Nodes /\ Size(n) \in Nat /\ Size(n) > 0 /\ tree.root \in Nodes
    BY NodeTypes DEF Nodes, TreeSound, IndexSound
  <2>5. i = 1 \/ Less(Key(n, 1), Key(n, i))
    <3>1. \A a, b \in 1..Size(n) : a < b => Less(Key(n, a), Key(n, b))
      BY DEF TreeSound, IndexSound
    <3>2. 1 \in 1..Size(n) /\ (i = 1 \/ 1 < i)
      BY <2>4
    <3>. QED BY <3>1, <3>2
  <2>6. \A m \in Nodes : Key(m, 1).p \in Int /\ Key(m, 1).n \in Nat
    <3> TAKE m \in Nodes
    <3>1. 1 \in 1..Size(m)
      BY NodeTypes
    <3>. QED BY <3>1, NodeTypes
  <2>7. Key(n, i).p \in Int /\ Key(n, i).n \in Nat
    BY <2>4, NodeTypes
  <2>. QED BY <2>2, <2>3, <2>4, <2>5, <2>6, <2>7 DEF AtOrAfter, Less
<1>3. below = Nodes
  <2>1. below \in SUBSET Nodes
    OBVIOUS
  <2>. HIDE DEF below
  <2>. QED BY <1>1, <1>2, <2>1 DEF TreeSound, IndexSound
<1>. QED BY <1>3

\* The leaf with the root's first key is the first of the chain.
LEMMA FirstLeaf ==
    ASSUME Typed, TreeSound, NEW i \in LeafAt, Key(Leaf(i), 1) = Key(tree.root, 1)
    PROVE  Leaf(i) = tree.first
<1>1. 1 \in LeafAt /\ i \in Nat /\ tree.first = Leaf(1) /\ 1 <= i
  BY LeafTypes DEF LeafAt, TreeSound, ChainSound, ChainLinked
<1>2. SUFFICES ASSUME i # 1 PROVE FALSE
  BY <1>1
<1>3. 1 \in Sized(1) /\ 1 \in Sized(i)
  BY <1>1, LeafTypes DEF Sized, TreeSound
<1>4. Less(Key(Leaf(1), 1), Key(Leaf(i), 1))
  BY <1>1, <1>2, <1>3, KeysOrdered DEF TreeSound
<1>5. Leaf(1) \in Nodes
  <2>1. IsTree(tree)
    BY BTreeAssumption DEF Typed
  <2>. QED BY <2>1, <1>1 DEF IsTree, Nodes, Range, Leaf, LeafAt
<1>6. AtOrAfter(Key(Leaf(1), 1), Key(Leaf(i), 1))
  BY <1>5, RootIsFirst
<1>7. /\ Key(Leaf(1), 1).p \in Int /\ Key(Leaf(1), 1).n \in Nat
      /\ Key(Leaf(i), 1).p \in Int /\ Key(Leaf(i), 1).n \in Nat
  BY <1>1, <1>3, LeafTypes DEF TreeSound
<1>. QED BY <1>4, <1>6, <1>7 DEF AtOrAfter, Less

---------------------------------------------------------------------------
\* A descent goes from parent to child and never back, and is in a node that
\* begins above the target only if it took the first child of every node.
Descending ==
    /\ cur \in Nodes /\ cur \notin visited /\ visited \subseteq Nodes
    /\ \A v \in visited \union {cur} : v = tree.root \/ \E u \in visited : IsKid(u, v)
    /\ Above(Key(cur, 1)) => Key(cur, 1) = Key(tree.root, 1)

\* The leaf a scan starts in passes the landing check.
Landing == cur \in Nodes /\ (Above(Key(cur, 1)) => cur = tree.first)

Quiet ==
    /\ ~anomaly /\ phase \notin Walking /\ err \in {"none", "callback"}
    /\ phase = "start" => visited = {}
    /\ phase = "descend" => Descending
    /\ phase = "scan" /\ visited = {} => Landing

Healthy == TreeSound /\ faults = 0

\* The child that descendIndex takes.
LEMMA ChildIsKid ==
    ASSUME Typed, TreeSound, NEW num \in Index
    PROVE  /\ CanDescend(num) /\ IsKid(num, Child(num)) /\ Child(num) \in Nodes
           /\ Above(Key(Child(num), 1)) => Above(Key(num, 1)) /\ Key(Child(num), 1) = Key(num, 1)
<1> DEFINE s == StopsAt(num)
           i == IF s = {} THEN Size(num) ELSE Min(s) - 1
           j == IF i = 0 THEN 1 ELSE i
<1>1. /\ num \in Nodes /\ Size(num) \in Nat /\ Size(num) > 0
      /\ \A a \in 1..Size(num) : Parses(num, a)
  BY NodeTypes DEF Nodes
<1>2. s \in SUBSET Nat /\ s \subseteq 1..Size(num) /\ \A a \in s : Above(Key(num, a))
  BY <1>1 DEF StopsAt
<1>3. s # {} => Min(s) \in s /\ \A y \in s : Min(s) <= y
  BY <1>2, LeastOf
<1>4. CanDescend(num)
  BY <1>1, <1>2, <1>3 DEF CanDescend, TreeSound, IndexSound
<1>. HIDE DEF s
<1>5. j \in 1..Size(num) /\ (j \in s => j = 1)
  <2>1. CASE s = {}
    BY <2>1, <1>1
  <2>2. CASE s # {}
    <3>1. Min(s) \in 1..Size(num)
      BY <2>2, <1>2, <1>3
    <3>2. CASE Min(s) = 1
      BY <3>2, <2>2, <1>1
    <3>3. CASE Min(s) # 1
      <4>1. j = Min(s) - 1 /\ j \in 1..Size(num)
        BY <3>1, <3>3, <2>2, <1>1
      <4>2. ~(Min(s) <= j)
        BY <4>1, <3>1
      <4>. QED BY <4>1, <4>2, <2>2, <1>3
    <3>. QED BY <3>2, <3>3
  <2>. QED BY <2>1, <2>2
<1>6. Child(num) = tree.node[num].kids[j]
  BY DEF Child, s
<1>. HIDE DEF j
<1>7. Child(num) \in Nodes /\ Key(num, j) = Key(Child(num), 1)
  BY <1>5, <1>6 DEF TreeSound, IndexSound
<1>8. Above(Key(Child(num), 1)) => j \in s
  BY <1>5, <1>7 DEF s, StopsAt
<1>. QED BY <1>4, <1>5, <1>6, <1>7, <1>8 DEF IsKid


LEMMA HealthyStays ==
    ASSUME UNCHANGED fixed
    PROVE  /\ TreeSound' = TreeSound /\ Nodes' = Nodes /\ Index' = Index
           /\ \A num, kid : IsKid(num, kid)' = IsKid(num, kid)
           /\ \A k : Above(k)' = Above(k)
           /\ \A num, i : Key(num, i)' = Key(num, i)
<1>1. tree' = tree /\ want' = want
  BY DEF fixed
<1>2. Index' = Index /\ Nodes' = Nodes
  BY <1>1 DEF Index, Nodes
<1>3. /\ \A num : Size(num)' = Size(num) /\ \A i : Key(num, i)' = Key(num, i) /\ Parses(num, i)' = Parses(num, i)
      /\ \A k : Above(k)' = Above(k)
  BY <1>1 DEF Size, Key, Parses, Above
<1>4. \A num, kid : IsKid(num, kid)' = IsKid(num, kid)
  BY <1>1, <1>2, <1>3 DEF IsKid
<1>5. \A kid : Slots(kid)' = Slots(kid)
  BY <1>1, <1>2, <1>3 DEF Slots
<1>6. IndexSound' = IndexSound
  BY <1>1, <1>2, <1>3, <1>5 DEF IndexSound
<1>. QED BY <1>2, <1>3, <1>4, <1>6, FixedStays DEF TreeSound

LEMMA DescendQuiet ==
    ASSUME Shape, Healthy, Quiet, Descend, faults' = 0 PROVE Quiet'
<1>0. Typed /\ TreeSound /\ faults = 0 /\ UNCHANGED fixed /\ phase = "descend"
  BY DEF Descend, Shape, Healthy
<1>1. Descending /\ ~anomaly /\ err = "none"
  BY <1>0 DEF Quiet, Shape, Searching
<1>2. Has(cur) /\ cur \notin visited
  BY <1>0, <1>1, NodeTypes DEF Descending
<1>3. ~ReadFails(cur)
  BY <1>0, <1>2 DEF ReadFails
<1>4. tree.node[cur].type = "leaf" \/ tree.node[cur].type = "index"
  BY <1>0, <1>1, NodeTypes, LeafTypes DEF Descending, TreeSound
<1>5. tree.node[cur].type = "index" => cur \in Index
  BY <1>2 DEF Has, Index
<1>6. CASE tree.node[cur].type = "leaf"
  <2>1. phase' = "scan" /\ visited' = {} /\ UNCHANGED <<cur, told, err>>
    BY <1>6, <1>2, <1>3 DEF Descend
  <2>2. PICK i \in LeafAt : cur = Leaf(i)
    BY <1>0, <1>1, <1>6, NodeTypes DEF Descending
  <2>3. Above(Key(cur, 1)) => cur = tree.first
    BY <1>0, <1>1, <2>2, FirstLeaf DEF Descending
  <2>4. cur \in Nodes
    BY <1>1 DEF Descending
  <2>5. Landing'
    BY <1>0, <2>1, <2>3, <2>4, HealthyStays DEF Landing, fixed
  <2>. QED BY <1>1, <2>1, <2>5 DEF Quiet, told, Walking
<1>7. CASE tree.node[cur].type = "index"
  <2>1. cur \in Index
    BY <1>5, <1>7
  <2>2. cur' = Child(cur) /\ visited' = visited \union {cur} /\ UNCHANGED <<told, phase, err>>
    BY <1>0, <1>7, <1>2, <1>3, <2>1, ChildIsKid DEF Descend
  <2>3. IsKid(cur, cur') /\ cur' \in Nodes /\ (Above(Key(cur', 1)) => Key(cur', 1) = Key(tree.root, 1))
    BY <1>0, <1>1, <2>1, <2>2, ChildIsKid DEF Descending
  <2>4. cur' \notin visited'
    <3> SUFFICES ASSUME cur' \in visited \union {cur} PROVE FALSE
      BY <2>2
    <3>1. PICK u \in visited : IsKid(u, cur')
      BY <1>0, <1>1, <2>3, OneParent DEF Descending
    <3>2. u = cur
      BY <1>0, <2>3, <3>1, OneParent
    <3>. QED BY <3>1, <3>2, <1>2
  <2>5. Descending'
    <3>1. tree' = tree
      BY <1>0 DEF fixed
    <3>2. visited' \subseteq Nodes
      BY <1>1, <2>2 DEF Descending
    <3>3. \A v \in visited' \union {cur'} : v = tree.root \/ \E u \in visited' : IsKid(u, v)
      BY <1>1, <2>2, <2>3 DEF Descending
    <3>4. (Above(Key(cur, 1)))' = Above(Key(cur', 1)) /\ (Key(cur, 1))' = Key(cur', 1) /\ (Key(tree.root, 1))' = Key(tree.root, 1)
      <4>. USE <1>0, <3>1 DEF fixed
      <4>. QED BY DEF Above, Key
    <3>. QED BY <1>0, <2>3, <2>4, <3>1, <3>2, <3>3, <3>4, HealthyStays DEF Descending
  <2>. QED BY <1>0, <1>1, <2>2, <2>5 DEF Quiet, told, Walking
<1>. QED BY <1>4, <1>6, <1>7

\* The leaf at hand in a scan is one that it has not been to.
LEMMA ScanIsFresh ==
    ASSUME Shape, Healthy, Quiet, Standing, phase = "scan", cur # 0
    PROVE  /\ cur \notin visited /\ Has(cur) /\ Scannable(cur) /\ Landed
<1>0. Typed /\ ChainSound /\ TreeSound
  BY DEF Shape, Healthy, TreeSound
<1>1. CASE visited = {}
  <2>1. \E i \in LeafAt : cur = Leaf(i)
    BY <1>1 DEF Standing, AtScan
  <2>2. Landing
    BY <1>1 DEF Quiet
  <2>3. 1 \in 1..Size(cur)
    BY <1>0, <2>2, NodeTypes DEF Landing
  <2>4. Parses(cur, 1)
    BY <1>0, <2>2, <2>3, NodeTypes DEF Landing
  <2>5. Scannable(cur) /\ Has(cur)
    BY <1>0, <2>1, LeafTypes DEF ChainSound, ChainLinked
  <2>. QED BY <1>1, <2>2, <2>4, <2>5 DEF Landing, Landed
<1>2. CASE visited # {}
  <2>1. PICK i \in LeafAt : Behind(i) /\ cur = Succ(i)
    BY <1>2 DEF Standing, AtScan
  <2>2. i \in 0..Len(tree.leaves)
    BY <1>0, LeafTypes DEF LeafAt
  <2>3. i + 1 \in LeafAt /\ cur = Leaf(i + 1) /\ \A a \in LeafAt : a <= i => Leaf(a) # cur
    BY <1>0, <2>1, <2>2, SuccIsNext
  <2>4. Scannable(cur) /\ Has(cur)
    BY <1>0, <2>3, LeafTypes DEF ChainSound, ChainLinked
  <2>. QED BY <1>2, <2>1, <2>3, <2>4 DEF Behind, Landed
<1>. QED BY <1>1, <1>2

LEMMA ScanLeafQuiet ==
    ASSUME Shape, Healthy, Quiet, Standing, ScanLeaf, faults' = 0 PROVE Quiet'
<1>0. faults = 0 /\ phase = "scan" /\ ~anomaly /\ err = "none"
  BY DEF ScanLeaf, Shape, Healthy, Quiet, Searching
<1>1. CASE cur = 0
  BY <1>0, <1>1 DEF ScanLeaf, Finish, Quiet, Walking
<1>2. CASE cur # 0
  <2>1. cur \notin visited /\ Has(cur) /\ Scannable(cur) /\ Landed
    BY <1>0, <1>2, ScanIsFresh
  <2>2. ~ReadFails(cur)
    BY <1>0, <2>1 DEF ReadFails
  <2>3. phase' = "records" /\ UNCHANGED <<told, err>>
    BY <1>2, <2>1, <2>2 DEF ScanLeaf
  <2>. QED BY <1>0, <2>3 DEF Quiet, told, Walking
<1>. QED BY <1>1, <1>2

LEMMA ScanRecordQuiet ==
    ASSUME Shape, Healthy, Quiet, Standing, ScanRecord PROVE Quiet'
<1>0. Typed /\ ChainSound /\ phase = "records" /\ ~anomaly /\ err = "none" /\ pos <= Size(cur)
  BY DEF ScanRecord, Shape, Healthy, Quiet, Searching, TreeSound
<1>1. PICK i \in LeafAt, p \in Nat \ {0} : pos = p /\ cur = Leaf(i)
  BY <1>0 DEF Standing, AtRecord
<1>2. Parses(cur, pos)
  <2>1. pos \in 1..Size(Leaf(i))
    BY <1>0, <1>1, LeafTypes
  <2>. QED BY <1>0, <1>1, <2>1 DEF ChainSound, ChainLinked
<1>3. anomaly' = anomaly /\ err' \in {"none", "callback"} /\ phase' \in {"records", "done", "unwrap"}
  BY <1>0, <1>2 DEF ScanRecord, Finish, EndSearch, told
<1>. QED BY <1>0, <1>3 DEF Quiet, Walking

LEMMA QuietNext ==
    ASSUME Shape, Healthy, Quiet, Standing, Next, faults' = 0 PROVE Quiet'
<1>1. CASE Begin
  <2>0. Typed /\ TreeSound /\ faults = 0 /\ UNCHANGED fixed /\ phase = "start" /\ visited = {} /\ err = "none"
    BY <1>1 DEF Begin, Shape, Healthy, Quiet, Searching
  <2>1. ~IsEmpty /\ ~HeaderFails
    BY <2>0 DEF IsEmpty, TreeSound, ChainSound, ChainLinked, HeaderFails
  <2>2. phase' = "descend" /\ cur' = tree.root /\ UNCHANGED <<told, visited, err>>
    BY <1>1, <2>1 DEF Begin
  <2>3. Descending'
    <3>1. tree' = tree /\ tree.root \in Nodes
      BY <2>0 DEF fixed, TreeSound, IndexSound
    <3>. QED BY <2>0, <2>2, <3>1, HealthyStays DEF Descending
  <2>. QED BY <2>0, <2>2, <2>3 DEF Quiet, told, Walking
<1>2. CASE Descend
  BY <1>2, DescendQuiet
<1>3. CASE ScanLeaf
  BY <1>3, ScanLeafQuiet
<1>4. CASE ScanRecord
  BY <1>4, ScanRecordQuiet
<1>5. CASE ScanNext
  <2>1. phase = "records" /\ phase' = "scan" /\ UNCHANGED <<told, err, visited>>
    BY <1>5 DEF ScanNext
  <2>2. visited # {}
    BY <2>1 DEF Standing, AtRecord
  <2>. QED BY <2>1, <2>2 DEF Quiet, told, Walking
<1>6. CASE Unwrap
  BY <1>6 DEF Unwrap, Quiet, Degraded, Finish, Walking, Shape
<1>7. CASE Fallback \/ Walk \/ WalkRecord \/ WalkNext
  BY <1>7 DEF Fallback, Walk, WalkRecord, WalkNext, Quiet, Walking
<1>. QED BY <1>1, <1>2, <1>3, <1>4, <1>5, <1>6, <1>7 DEF Next

\* In a tree without records the first step is the last.
Idle == Recordless /\ faults = 0 => phase \in {"start", "done"} /\ ~anomaly

LEMMA IdleNext == Shape /\ Idle /\ [Next]_vars => Idle'
<1> SUFFICES ASSUME Shape, Idle, [Next]_vars, Recordless', faults' = 0
             PROVE  phase' \in {"start", "done"} /\ ~anomaly'
  BY DEF Idle
<1>1. faults' = faults \/ faults' = faults + 1
  BY DEF Next, vars, Begin, Descend, ScanLeaf, ScanRecord, ScanNext, Unwrap, Fallback, Walk, WalkRecord, WalkNext,
         HeaderFails, ReadOK, ReadFails
<1>2. faults = 0 /\ UNCHANGED faults
  BY <1>1 DEF Shape
<1>3. UNCHANGED fixed
  BY DEF vars, Next, Begin, Descend, ScanLeaf, ScanRecord, ScanNext, Unwrap, Fallback, Walk, WalkRecord, WalkNext
<1>4. Recordless /\ phase \in {"start", "done"} /\ ~anomaly
  BY <1>2, <1>3 DEF Idle, Recordless, fixed
<1>5. CASE Begin
  BY <1>2, <1>4, <1>5 DEF Begin, IsEmpty, Recordless, HeaderFails, Finish, Shape
<1>6. CASE UNCHANGED vars
  BY <1>4, <1>6 DEF vars, told
<1>. QED
  BY <1>4, <1>5, <1>6
  DEF Next, Descend, ScanLeaf, ScanRecord, ScanNext, Unwrap, Fallback, Walk, WalkRecord, WalkNext

QuietInv == AnswerInv /\ Idle /\ (Healthy => Quiet)

\* A query over a sound tree, with no read failing, notes no anomaly: each
\* descent ends in the leaf where the parent's records begin or before them.
\* Nor does a query over a tree without records.
THEOREM SoundTreesAreQuiet == Spec => []NoFalseAlarm
<1>1. Init => QuietInv
  BY AnswerInvInit DEF Init, QuietInv, Quiet, Idle, Walking
<1>2. QuietInv /\ [Next]_vars => QuietInv'
  <2> SUFFICES ASSUME QuietInv, [Next]_vars, Healthy' PROVE Quiet'
    BY AnswerInvNext, IdleNext DEF QuietInv, AnswerInv
  <2>1. Shape
    BY DEF QuietInv, AnswerInv
  <2>2. CASE Next
    <3>1. UNCHANGED fixed
      BY <2>2 DEF Next, Begin, Descend, ScanLeaf, ScanRecord, ScanNext, Unwrap, Fallback, Walk, WalkRecord, WalkNext
    <3>2. faults' = faults \/ faults' = faults + 1
      BY <2>2 DEF Next, Begin, Descend, ScanLeaf, ScanRecord, ScanNext, Unwrap, Fallback, Walk, WalkRecord, WalkNext,
             HeaderFails, ReadOK, ReadFails
    <3>3. Healthy
      <4>1. faults' = 0 /\ TreeSound'
        BY DEF Healthy
      <4>2. faults = 0
        BY <2>1, <3>2, <4>1 DEF Shape
      <4>3. TreeSound
        BY <3>1, <4>1, HealthyStays
      <4>. QED BY <4>2, <4>3 DEF Healthy
    <3>4. Quiet /\ Asked
      BY <3>3 DEF QuietInv, Quiet, Asked, Healthy, TreeSound
    <3>. QED BY <2>1, <2>2, <3>3, <3>4, QuietNext DEF QuietInv, AnswerInv, Healthy
  <2>3. CASE UNCHANGED vars
    <3>1. UNCHANGED fixed /\ UNCHANGED <<phase, cur, visited, err, anomaly, faults>>
      BY <2>3 DEF vars, place, told
    <3>2. Healthy /\ tree' = tree
      BY <3>1, HealthyStays DEF Healthy, fixed
    <3>3. Quiet
      BY <3>2 DEF QuietInv
    <3>4. Descending' = Descending /\ Landing' = Landing
      BY <3>1, <3>2, HealthyStays DEF Descending, Landing
    <3>. QED BY <3>1, <3>3, <3>4 DEF Quiet
  <2>. QED BY <2>2, <2>3
<1>3. QuietInv => NoFalseAlarm
  BY DEF QuietInv, Idle, Healthy, TreeSound, Quiet, NoFalseAlarm
<1>. QED BY <1>1, <1>2, <1>3, PTL DEF Spec
============================================================================
