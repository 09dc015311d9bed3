--------------------------- MODULE DecmpfsProofs ---------------------------
(***************************************************************************)
(* For every volume, every codec and every chunk size.  However codecs are *)
(* registered and removed while the two registries are asked, one after the*)
(* other, a codec that is there all along is found, and the volume's takes *)
(* precedence.  However queries start over or fail, listings, walks and    *)
(* reads of attributes agree with the tree (CallInv), and a file opens as  *)
(* what was compressed (ContentsInv, which rests on both).                 *)
(***************************************************************************)
EXTENDS Decmpfs, SequenceTheorems, WellFoundedInduction, TLAPS

---------------------------------------------------------------------------
(* The codec. *)

\* What is kept of a registry is what is in it; when the process is asked, the
\* volume had nothing to keep.
CodecInv ==
    /\ codecs \in [Scopes -> Codecs \union {NoCodec}] /\ kept \in [Scopes -> Codecs \union {NoCodec}]
    /\ \A s \in Scopes : kept[s] # NoCodec => kept[s] = codecs[s]
    /\ stage = "global" => kept["volume"] = NoCodec
    /\ stage \notin {"fork", "decode"} => codec \notin Codecs
    /\ codec \in Codecs /\ kept["volume"] # NoCodec => codec = kept["volume"]
    /\ CodecRight

LEMMA CodecInit == AllInit => CodecInv
BY DecmpfsAssumption DEF AllInit, Init, DecodeInit, CodecInv, CodecRight, NoContent, Scopes

\* An open that ends, with any error but "unsupported", passes on the codec it had.
LEMMA DoneStep ==
    ASSUME CodecInv, NEW err, NEW bytes, Done(err, bytes), UNCHANGED <<codecs, kept>>,
           err = "unsupported" => kept = [s \in Scopes |-> NoCodec]
    PROVE  CodecInv'
<1>1. /\ stage' = "idle" /\ codec' = NoCodec
      /\ opened'.err = err /\ opened'.codec = codec /\ opened'.kept = kept
  BY DEF Done
<1>2. CodecRight'
  BY <1>1 DEF CodecInv, CodecRight
<1>. QED BY <1>1, <1>2, DecmpfsAssumption DEF CodecInv

\* A step to another stage, the codec unchanged.
LEMMA StageStep ==
    ASSUME CodecInv, UNCHANGED <<codecs, kept, codec, opened>>,
           stage' = "global" => kept["volume"] = NoCodec,
           stage' \notin {"fork", "decode"} => codec \notin Codecs
    PROVE  CodecInv'
BY DEF CodecInv, CodecRight

LEMMA FindStep == ASSUME CodecInv, Find PROVE CodecInv'
<1>1. stage = "find" /\ UNCHANGED <<codecs, kept>> /\ codec \notin Codecs
  BY DEF Find, CodecInv
<1>2. CASE \E e \in {"plain", "limit", "failed"} : Done(e, <<>>)
  BY <1>1, <1>2, DoneStep
<1>3. CASE codec' \in BuiltIn /\ Stage(Payload)
  BY <1>1, <1>3, DecmpfsAssumption DEF CodecInv, CodecRight, Stage, Payload
<1>4. CASE Stage("volume") /\ UNCHANGED codec
  BY <1>1, <1>4, StageStep DEF Stage
<1>. QED BY <1>2, <1>3, <1>4 DEF Find

LEMMA LookStep == ASSUME CodecInv, Look PROVE CodecInv'
<1>1. /\ stage \in {"volume", "global"} /\ UNCHANGED <<codecs, kept>> /\ codec \notin Codecs
      /\ Asked = stage
  BY DEF Look, CodecInv, Scopes, Asked, FirstScope
<1>2. CASE codecs[Asked] # NoCodec /\ codec' = codecs[Asked] /\ Stage(Payload)
  <2>1. stage' \in {"fork", "decode"} /\ UNCHANGED opened
    BY <1>2 DEF Stage, Payload
  <2>2. kept["volume"] # NoCodec => codec' = kept["volume"]
    BY <1>1, <1>2 DEF CodecInv, Scopes
  <2>. QED BY <1>1, <2>1, <2>2 DEF CodecInv, CodecRight
<1>3. CASE codecs[Asked] = NoCodec /\ stage = "volume" /\ Stage("global") /\ UNCHANGED codec
  <2>1. kept["volume"] = NoCodec
    BY <1>1, <1>3 DEF CodecInv, Scopes
  <2>. QED BY <1>1, <1>3, <2>1, StageStep DEF Stage
<1>4. CASE codecs[Asked] = NoCodec /\ stage = "global" /\ Done("unsupported", <<>>)
  <2>1. \A s \in Scopes : kept[s] = NoCodec
    BY <1>1, <1>4 DEF CodecInv, Scopes
  <2>2. kept = [s \in Scopes |-> NoCodec]
    BY <2>1 DEF CodecInv
  <2>. QED BY <1>1, <1>4, <2>2, DoneStep
<1>. QED BY <1>2, <1>3, <1>4 DEF Look

\* What follows the lookup, or precedes it.
LEMMA DecodeStep ==
    ASSUME CodecInv, ReadFork \/ DecodeInline \/ DecodeChunk \/ DecodeEnd \/ Hydrate PROVE CodecInv'
<1>1. UNCHANGED <<codecs, kept>>
  BY DEF ReadFork, DecodeInline, DecodeChunk, DecodeEnd, Hydrate
<1>2. CASE \E e, b : e # "unsupported" /\ Done(e, b)
  BY <1>1, <1>2, DoneStep
<1>3. CASE UNCHANGED <<codec, opened>> /\ stage' \in {stage, "decode"}
  BY <1>1, <1>3, StageStep DEF CodecInv
<1>4. CASE stage = "hydrate" /\ stage' = "find" /\ UNCHANGED <<codec, opened>>
  BY <1>1, <1>4, StageStep DEF CodecInv
<1>. QED BY <1>2, <1>3, <1>4 DEF ReadFork, DecodeInline, DecodeChunk, DecodeEnd, Hydrate, Stage

LEMMA RegisterStep ==
    ASSUME CodecInv, NEW s \in Scopes, NEW c \in Codecs \union {NoCodec}, Register(s, c) PROVE CodecInv'
<1>1. /\ codecs' = [codecs EXCEPT ![s] = c] /\ kept' = [kept EXCEPT ![s] = NoCodec]
      /\ UNCHANGED <<stage, codec, opened>>
  BY DEF Register
<1>2. codecs' \in [Scopes -> Codecs \union {NoCodec}] /\ kept' \in [Scopes -> Codecs \union {NoCodec}]
  BY <1>1 DEF CodecInv
<1>3. \A x \in Scopes : kept'[x] = NoCodec \/ (kept'[x] = kept[x] /\ codecs'[x] = codecs[x])
  BY <1>1 DEF CodecInv
<1>4. "volume" \in Scopes
  BY DEF Scopes
<1>. QED BY <1>1, <1>2, <1>3, <1>4 DEF CodecInv, CodecRight

LEMMA CodecStep == ASSUME CodecInv, [AllNext]_allVars PROVE CodecInv'
<1>1. CASE UNCHANGED decodeVars
  BY <1>1, StageStep DEF decodeVars, CodecInv
<1>2. CASE \E f \in DOMAIN vol.files : OpenContents(f)
  <2>1. /\ codecs' = codecs /\ kept' = codecs /\ opened' = NoContent /\ UNCHANGED codec
        /\ stage' \in {"hydrate", "find"} /\ stage = "idle"
    BY <1>2 DEF OpenContents
  <2>. QED BY <2>1, DecmpfsAssumption DEF CodecInv, CodecRight, NoContent
<1>. QED BY <1>1, <1>2, FindStep, LookStep, DecodeStep, RegisterStep
         DEF AllNext, OpenFile, UseAttributes, allVars

\* Whatever is registered or removed while a file is opened, in either registry
\* (lookupDecompressor, decmpfs.go:126-138).
THEOREM CodecIsRight == AllSpec => []CodecRight
<1>1. CodecInv => CodecRight
  BY DEF CodecInv
<1>. QED BY CodecInit, CodecStep, <1>1, PTL DEF AllSpec

---------------------------------------------------------------------------
(* Recursive definitions. *)

LEMMA Least ==
    ASSUME NEW T \in SUBSET Nat, T # {}
    PROVE  \E x \in T : \A y \in T : x <= y
<1>1. PICK x \in T : \A y \in T : ~ (<<y, x>> \in OpToRel(<,Nat))
  BY NatLessThanWellFounded, WFMin
<1>2. ASSUME NEW y \in T, y < x PROVE FALSE
  <2>1. <<y, x>> \in OpToRel(<,Nat)
    BY <1>2 DEF OpToRel
  <2>. QED BY <1>1, <2>1
<1>. QED BY <1>2

\* What a recursive definition with these steps defines.
Unfolds(f, n, base, step) == f[0] = base /\ \A i \in 1..n : f[i] = step[i][f[i-1]]

\* There is such a function.
LEMMA RecursionExists ==
    ASSUME NEW n \in Nat, NEW S, NEW base \in S, NEW step \in [1..n -> [S -> S]]
    PROVE  \E f \in [0..n -> S] : Unfolds(f, n, base, step)
<1>. DEFINE Good(k) == \E f \in [0..k -> S] : Unfolds(f, k, base, step)
            T == {k \in 0..n : ~Good(k)}
<1>. SUFFICES ASSUME T # {} PROVE FALSE
  <2>. HIDE DEF Good
  <2>1. n \in 0..n /\ n \notin T => Good(n)
    OBVIOUS
  <2>. QED BY <2>1 DEF Good
<1>1. PICK k \in T : \A y \in T : k <= y
  <2>. HIDE DEF Good
  <2>1. T \in SUBSET Nat
    OBVIOUS
  <2>. QED BY <2>1, Least
<1>2. k # 0
  <2>1. [i \in 0..0 |-> base] \in [0..0 -> S] /\ Unfolds([i \in 0..0 |-> base], 0, base, step)
    BY DEF Unfolds
  <2>2. Good(0)
    BY <2>1
  <2>. HIDE DEF Good
  <2>. QED BY <1>1, <2>2
<1>3. k \in 1..n /\ Good(k - 1)
  <2>. HIDE DEF Good
  <2>1. k \in 0..n /\ k - 1 \in 0..n
    BY <1>1, <1>2
  <2>2. k - 1 \notin T
    BY <1>1, <2>1
  <2>. QED BY <1>2, <2>1, <2>2
<1>4. PICK f \in [0..(k-1) -> S] : Unfolds(f, k - 1, base, step)
  BY <1>3
<1>. DEFINE x == step[k][f[k-1]]
            g == [i \in 0..k |-> IF i = k THEN x ELSE f[i]]
<1>5. f[k-1] \in S /\ x \in S
  <2>1. f[k-1] \in S
    BY <1>3
  <2>. QED BY <1>3, <2>1
<1>6. g \in [0..k -> S]
  BY <1>3, <1>5
<1>7. Unfolds(g, k, base, step)
  <2>1. g[0] = base
    BY <1>3, <1>4 DEF Unfolds
  <2>2. ASSUME NEW i \in 1..k PROVE g[i] = step[i][g[i-1]]
    <3>1. CASE i = k
      <4>1. g[i-1] = f[k-1]
        BY <1>3, <3>1
      <4>. QED BY <1>3, <3>1, <4>1
    <3>2. CASE i # k
      <4>1. i \in 1..k-1 /\ g[i] = f[i] /\ g[i-1] = f[i-1]
        BY <1>3, <3>2
      <4>. QED BY <1>4, <4>1 DEF Unfolds
    <3>. QED BY <3>1, <3>2
  <2>. QED BY <2>1, <2>2 DEF Unfolds
<1>8. Good(k)
  BY <1>6, <1>7
<1>. HIDE DEF Good
<1>. QED BY <1>1, <1>8

\* f and g unfold alike, up to n; they are alike, up to n.
UnfoldAlike(f, g, n) == f[0] = g[0] /\ \A i \in 1..n : f[i-1] = g[i-1] => f[i] = g[i]
Alike(f, g, n)       == \A i \in 0..n : f[i] = g[i]

\* Two definitions that unfold alike up to some point agree up to it.
LEMMA RecursionUnique ==
    ASSUME NEW n \in Nat, NEW f, NEW g, UnfoldAlike(f, g, n)
    PROVE  Alike(f, g, n)
<1>. DEFINE T == {i \in 0..n : f[i] # g[i]}
<1>. SUFFICES ASSUME T # {} PROVE FALSE
  BY DEF Alike
<1>1. PICK k \in T : \A y \in T : k <= y
  <2>1. T \in SUBSET Nat
    OBVIOUS
  <2>. QED BY <2>1, Least
<1>2. k \in 1..n /\ k - 1 \in 0..n /\ k - 1 \notin T
  BY <1>1 DEF UnfoldAlike
<1>. QED BY <1>1, <1>2 DEF UnfoldAlike

---------------------------------------------------------------------------
(* The records of a tree, and what the attributes of one are. *)

Total == Len(vol.recs)

LEMMA VolTypes ==
    ASSUME vol \in Volumes
    PROVE  /\ Total \in Nat /\ Recs = 1..Total
           /\ \A i \in Recs : IsRecord(Rec(i))
<1>1. vol.recs \in Seq(Range(vol.recs)) /\ \A r \in Range(vol.recs) : IsRecord(r)
  BY XAttrsAssumption
<1>2. \A i \in Recs : Rec(i) \in Range(vol.recs)
  BY DEF Recs, Rec, Range
<1>. QED BY <1>1, <1>2 DEF Recs, Total

\* The least of a set of records.
LEMMA LeastRecord ==
    ASSUME NEW S \in SUBSET Nat, S # {}
    PROVE  Min(S) \in S /\ \A y \in S : Min(S) <= y
<1>1. \E x \in S : \A y \in S : x <= y
  BY Least
<1>. QED BY <1>1 DEF Min

\* An attribute in a fork, before any extension.
Forked(i) == Attr(Rec(i), Rec(i).size, "fork", Rec(i).exts)

GrownOf(i) == [file : {Rec(i).file}, name : {Rec(i).name}, size : {Rec(i).size}, storage : {"fork"}, exts : Seq(Nat)]

LEMMA LongerIsGrown ==
    ASSUME vol \in Volumes, NEW i \in Recs, NEW k \in Recs, NEW a \in GrownOf(i)
    PROVE  Longer(a, Rec(k)) \in GrownOf(i)
<1>1. Rec(k).exts \in Seq(Nat)
  BY VolTypes DEF IsRecord
<1>2. a.exts \o Rec(k).exts \in Seq(Nat)
  BY <1>1 DEF GrownOf
<1>. QED BY <1>2 DEF Longer, GrownOf

LEMMA GrownUnfold ==
    ASSUME vol \in Volumes, NEW i \in Recs
    PROVE  /\ \A k \in 0..Total : Grown(i)[k] \in GrownOf(i)
           /\ \A k \in 0..i : Grown(i)[k] = Forked(i)
           /\ \A k \in (i + 1)..Total :
                 Grown(i)[k] = IF Extends(k, i) THEN Longer(Grown(i)[k - 1], Rec(k)) ELSE Grown(i)[k - 1]
<1>. DEFINE n == Total
            Next1(k, a) == IF k <= i THEN a ELSE IF Extends(k, i) THEN Longer(a, Rec(k)) ELSE a
            F(f) == [k \in 0..n |-> IF k <= i THEN Attr(Rec(i), Rec(i).size, "fork", Rec(i).exts)
                        ELSE IF Extends(k, i) THEN Longer(f[k - 1], Rec(k)) ELSE f[k - 1]]
            step == [k \in 1..n |-> [a \in GrownOf(i) |-> Next1(k, a)]]
<1>1. n \in Nat /\ i \in 1..n /\ Recs = 1..n
  BY VolTypes
<1>2. Forked(i) \in GrownOf(i)
  BY VolTypes DEF IsRecord, Forked, Attr, GrownOf
<1>3. \A k \in 1..n : \A a \in GrownOf(i) : Next1(k, a) \in GrownOf(i)
  BY <1>1, LongerIsGrown
<1>. HIDE DEF n, Next1
<1>4. step \in [1..n -> [GrownOf(i) -> GrownOf(i)]]
  BY <1>3
<1>5. PICK f \in [0..n -> GrownOf(i)] : Unfolds(f, n, Forked(i), step)
  <2>. HIDE DEF step
  <2>. QED BY <1>1, <1>2, <1>4, RecursionExists
<1>6. f[0] = Forked(i) /\ \A k \in 1..n : f[k] = Next1(k, f[k-1])
  <2>1. ASSUME NEW k \in 1..n PROVE step[k][f[k-1]] = Next1(k, f[k-1])
    <3>1. f[k-1] \in GrownOf(i)
      BY <1>1
    <3>. QED BY <3>1
  <2>. QED BY <1>5, <2>1 DEF Unfolds
<1>7. \A k \in 0..i : f[k] = Forked(i)
  <2>. DEFINE T == {k \in 0..i : f[k] # Forked(i)}
  <2>. SUFFICES ASSUME T # {} PROVE FALSE
    OBVIOUS
  <2>1. PICK k \in T : \A y \in T : k <= y
    <3>1. T \in SUBSET Nat
      BY <1>1
    <3>. QED BY <3>1, Least
  <2>2. k \in 1..n /\ k <= i /\ k - 1 \in 0..i /\ k - 1 \notin T
    BY <1>1, <1>6, <2>1
  <2>. QED BY <1>6, <2>1, <2>2 DEF Next1
<1>8. f = F(f)
  <2>1. \A k \in 0..n : f[k] = IF k <= i THEN Attr(Rec(i), Rec(i).size, "fork", Rec(i).exts)
                        ELSE IF Extends(k, i) THEN Longer(f[k - 1], Rec(k)) ELSE f[k - 1]
    <3> TAKE k \in 0..n
    <3>1. CASE k <= i
      <4>1. k \in 0..i
        BY <1>1, <3>1
      <4>. QED BY <4>1, <3>1, <1>7 DEF Forked
    <3>2. CASE ~(k <= i)
      <4>1. k \in 1..n
        BY <1>1, <3>2
      <4>. QED BY <4>1, <3>2, <1>6 DEF Next1
    <3>. QED BY <3>1, <3>2
  <2>2. f = [k \in 0..n |-> f[k]]
    BY <1>5
  <2>. QED BY <2>1, <2>2
<1>9. Grown(i) = CHOOSE g : g = F(g)
  BY DEF Grown, n, Total
<1>. DEFINE g == Grown(i)
<1>10. g = F(g)
  <2>. HIDE DEF F, g
  <2>. QED BY <1>8, <1>9 DEF g
<1>11. \A k \in 0..n : f[k] = g[k]
  <2>1. \A k \in 0..n : g[k] = IF k <= i THEN Attr(Rec(i), Rec(i).size, "fork", Rec(i).exts)
                        ELSE IF Extends(k, i) THEN Longer(g[k - 1], Rec(k)) ELSE g[k - 1]
    <3>. HIDE DEF g
    <3>. QED BY <1>10
  <2>. HIDE DEF g
  <2>2. f[0] = g[0]
    BY <1>1, <1>6, <2>1 DEF Forked
  <2>3. \A k \in 1..n : f[k-1] = g[k-1] => f[k] = g[k]
    <3> TAKE k \in 1..n
    <3>1. CASE k <= i
      <4>1. k \in 0..i /\ k \in 0..n
        BY <1>1, <3>1
      <4>. QED BY <4>1, <3>1, <1>7, <2>1 DEF Forked
    <3>2. CASE ~(k <= i)
      <4>1. k \in 0..n
        BY <1>1
      <4>. QED BY <4>1, <3>2, <1>6, <2>1 DEF Next1
    <3>. QED BY <3>1, <3>2
  <2>4. n \in Nat
    BY <1>1
  <2>. HIDE DEF F
  <2>7. UnfoldAlike(f, g, n)
    BY ONLY <2>2, <2>3 DEF UnfoldAlike
  <2>8. Alike(f, g, n)
    BY ONLY <2>7, <2>4, RecursionUnique
  <2>. QED BY ONLY <2>8 DEF Alike
<1>12. \A k \in 0..i : k \in 0..n
  BY <1>1
<1>13. \A k \in (i + 1)..n : k \in 0..n /\ k - 1 \in 0..n /\ ~(k <= i) /\ k \in 1..n
  BY <1>1
<1>14. \A k \in (i + 1)..n : g[k] = Next1(k, g[k-1])
  <2>. HIDE DEF g
  <2>. QED BY <1>6, <1>11, <1>13
<1>. HIDE DEF g
<1>15. \A k \in 0..n : g[k] \in GrownOf(i)
  BY <1>11
<1>16. \A k \in 0..i : g[k] = Forked(i)
  BY <1>7, <1>11, <1>12
<1>17. \A k \in (i + 1)..n : g[k] = IF Extends(k, i) THEN Longer(g[k - 1], Rec(k)) ELSE g[k - 1]
  BY <1>13, <1>14 DEF Next1
<1>. QED BY <1>15, <1>16, <1>17 DEF g, n

\* Records that are not its extensions leave it as it is.
LEMMA GrownRests ==
    ASSUME vol \in Volumes, NEW i \in Recs, NEW a \in i..Total, NEW b \in a..Total,
           \A k \in (a + 1)..b : ~Extends(k, i)
    PROVE  Grown(i)[b] = Grown(i)[a]
<1>. DEFINE T == {k \in a..b : Grown(i)[k] # Grown(i)[a]}
<1>0. Total \in Nat /\ i \in 1..Total
  BY VolTypes
<1>. SUFFICES ASSUME T # {} PROVE FALSE
  BY <1>0
<1>1. PICK k \in T : \A y \in T : k <= y
  <2>1. T \in SUBSET Nat
    BY <1>0
  <2>. QED BY <2>1, Least
<1>2. k \in (a + 1)..b /\ k - 1 \in a..b /\ k - 1 \notin T /\ k \in (i + 1)..Total
  BY <1>0, <1>1
<1>. QED BY <1>1, <1>2, GrownUnfold

Attributes == {Whole(i) : i \in Recs}

LEMMA TreeUnfold ==
    ASSUME vol \in Volumes
    PROVE  /\ \A k \in 0..Total : TreeUpTo[k] \in Seq(Attributes)
           /\ TreeUpTo[0] = <<>> /\ InTree = TreeUpTo[Total]
           /\ \A k \in 1..Total :
                 TreeUpTo[k] = IF k \in Heads THEN Append(TreeUpTo[k - 1], Whole(k)) ELSE TreeUpTo[k - 1]
<1>. DEFINE n == Total
            F(f) == [k \in 0..n |-> IF k = 0 THEN <<>>
                        ELSE IF k \in Heads THEN Append(f[k - 1], Whole(k)) ELSE f[k - 1]]
            S == Seq(Attributes)
            step == [k \in 1..n |-> [s \in S |-> IF k \in Heads THEN Append(s, Whole(k)) ELSE s]]
<1>1. n \in Nat /\ Recs = 1..n
  BY VolTypes
<1>2. <<>> \in S
  OBVIOUS
<1>3. step \in [1..n -> [S -> S]]
  <2>1. \A k \in 1..n : Whole(k) \in Attributes
    BY <1>1 DEF Attributes
  <2>2. \A k \in 1..n, s \in S : Append(s, Whole(k)) \in S
    BY <2>1
  <2>. HIDE DEF S
  <2>. QED BY <2>2
<1>. HIDE DEF n
<1>5. PICK f \in [0..n -> S] : Unfolds(f, n, <<>>, step)
  <2>. HIDE DEF step, S
  <2>. QED BY <1>1, <1>2, <1>3, RecursionExists
<1>6. f[0] = <<>> /\ \A k \in 1..n : f[k] = IF k \in Heads THEN Append(f[k - 1], Whole(k)) ELSE f[k - 1]
  <2>. HIDE DEF S
  <2>1. ASSUME NEW k \in 1..n PROVE step[k][f[k-1]] = IF k \in Heads THEN Append(f[k - 1], Whole(k)) ELSE f[k - 1]
    <3>1. f[k-1] \in S
      BY <1>1
    <3>. QED BY <3>1
  <2>. QED BY <1>5, <2>1 DEF Unfolds
<1>. HIDE DEF S
<1>8. f = F(f)
  <2>1. \A k \in 0..n : f[k] = IF k = 0 THEN <<>>
                        ELSE IF k \in Heads THEN Append(f[k - 1], Whole(k)) ELSE f[k - 1]
    <3>1. \A k \in 0..n : k = 0 \/ k \in 1..n
      BY <1>1
    <3>. QED BY <3>1, <1>6
  <2>2. f = [k \in 0..n |-> f[k]]
    BY <1>5
  <2>. QED BY <2>1, <2>2
<1>9. TreeUpTo = CHOOSE g : g = F(g)
  BY DEF TreeUpTo, n, Total
<1>. DEFINE g == TreeUpTo
<1>10. g = F(g)
  <2>. HIDE DEF F, g
  <2>. QED BY <1>8, <1>9 DEF g
<1>. HIDE DEF g
<1>11. \A k \in 0..n : g[k] = IF k = 0 THEN <<>>
                        ELSE IF k \in Heads THEN Append(g[k - 1], Whole(k)) ELSE g[k - 1]
  BY <1>10
<1>12. g[0] = <<>> /\ \A k \in 1..n : g[k] = IF k \in Heads THEN Append(g[k - 1], Whole(k)) ELSE g[k - 1]
  <2>1. 0 \in 0..n /\ \A k \in 1..n : k \in 0..n /\ k # 0
    BY <1>1
  <2>. QED BY <2>1, <1>11
<1>13. \A k \in 0..n : f[k] = g[k]
  <2>1. f[0] = g[0]
    BY <1>6, <1>12
  <2>2. \A k \in 1..n : f[k-1] = g[k-1] => f[k] = g[k]
    BY <1>6, <1>12
  <2>3. n \in Nat
    BY <1>1
  <2>. HIDE DEF F
  <2>7. UnfoldAlike(f, g, n)
    BY ONLY <2>1, <2>2 DEF UnfoldAlike
  <2>8. Alike(f, g, n)
    BY ONLY <2>7, <2>3, RecursionUnique
  <2>. QED BY ONLY <2>8 DEF Alike
<1>14. \A k \in 0..n : g[k] \in S
  BY <1>5, <1>13
<1>. QED BY <1>12, <1>14 DEF g, S, n, InTree, Total

\* What is in order of the first records is in order of more of them.
Starts(s, t) == Len(s) <= Len(t) /\ \A x \in 1..Len(s) : s[x] = t[x]

LEMMA TreeGrows ==
    ASSUME vol \in Volumes, NEW a \in 0..Total, NEW b \in a..Total
    PROVE  Starts(TreeUpTo[a], TreeUpTo[b])
<1>. DEFINE T == {k \in a..b : ~Starts(TreeUpTo[a], TreeUpTo[k])}
<1>0. Total \in Nat
  BY VolTypes
<1>. SUFFICES ASSUME T # {} PROVE FALSE
  BY <1>0
<1>1. PICK k \in T : \A y \in T : k <= y
  <2>1. T \in SUBSET Nat
    BY <1>0
  <2>. QED BY <2>1, Least
<1>2. \A j \in 0..Total : TreeUpTo[j] \in Seq(Attributes)
  BY TreeUnfold
<1>3. k # a
  <2>1. TreeUpTo[a] \in Seq(Attributes)
    BY <1>2
  <2>2. Starts(TreeUpTo[a], TreeUpTo[a])
    BY <2>1 DEF Starts
  <2>. QED BY <2>2, <1>1
<1>4. k \in 1..Total /\ k - 1 \in a..b /\ k - 1 \notin T /\ k - 1 \in 0..Total
  BY <1>0, <1>1, <1>3
<1>5. Starts(TreeUpTo[a], TreeUpTo[k - 1])
  BY <1>4
<1>6. TreeUpTo[k] = TreeUpTo[k - 1] \/ TreeUpTo[k] = Append(TreeUpTo[k - 1], Whole(k))
  BY <1>4, TreeUnfold
<1>7. Starts(TreeUpTo[a], TreeUpTo[k])
  <2>. DEFINE s == TreeUpTo[a]
              t == TreeUpTo[k - 1]
              w == Whole(k)
  <2>1. s \in Seq(Attributes) /\ t \in Seq(Attributes) /\ w \in Attributes
    BY <1>2, <1>4, VolTypes DEF Attributes
  <2>2. Starts(s, t)
    BY <1>5
  <2>. HIDE DEF s, t, w
  <2>3. Starts(s, Append(t, w))
    BY <2>1, <2>2 DEF Starts
  <2>. QED BY <2>2, <2>3, <1>6 DEF s, t, w
<1>. QED BY <1>1, <1>7

LEMMA TreePrefix ==
    ASSUME vol \in Volumes, NEW a \in 0..Total
    PROVE  IsPrefix(TreeUpTo[a], InTree)
<1>0. Total \in Nat
  BY VolTypes
<1>1. Starts(TreeUpTo[a], TreeUpTo[Total])
  <2>1. Total \in a..Total
    BY <1>0
  <2>. QED BY <2>1, TreeGrows
<1>2. TreeUpTo[a] \in Seq(Attributes) /\ TreeUpTo[Total] \in Seq(Attributes) /\ InTree = TreeUpTo[Total]
  <2>1. Total \in 0..Total
    BY <1>0
  <2>. QED BY <2>1, TreeUnfold
<1>. DEFINE s == TreeUpTo[a]
            t == TreeUpTo[Total]
<1>3. s \in Seq(Attributes) /\ t \in Seq(Attributes) /\ Starts(s, t)
  BY <1>1, <1>2
<1>. HIDE DEF s, t
<1>4. SubSeq(s, 1, Len(s)) = SubSeq(t, 1, Len(s))
  <2>1. Len(s) \in Nat /\ Len(s) <= Len(t) /\ Len(t) \in Nat
    BY <1>3 DEF Starts
  <2>2. \A x \in 1..Len(s) : SubSeq(s, 1, Len(s))[x] = s[x] /\ SubSeq(t, 1, Len(s))[x] = t[x]
    BY <1>3, <2>1
  <2>3. /\ SubSeq(s, 1, Len(s)) = [x \in 1..Len(s) |-> SubSeq(s, 1, Len(s))[x]]
        /\ SubSeq(t, 1, Len(s)) = [x \in 1..Len(s) |-> SubSeq(t, 1, Len(s))[x]]
    BY <1>3, <2>1
  <2>. QED BY <1>3, <2>2, <2>3 DEF Starts
<1>5. IsPrefix(s, t)
  BY <1>3, <1>4 DEF IsPrefix, Starts
<1>. QED BY <1>2, <1>5 DEF s, t

\* Without a head the attributes stay as they were.
LEMMA TreeRests ==
    ASSUME vol \in Volumes, NEW a \in 1..Total, a \notin Heads
    PROVE  TreeUpTo[a] = TreeUpTo[a - 1]
BY TreeUnfold

LEMMA VolStays ==
    ASSUME UNCHANGED vol
    PROVE  /\ WellKeyed' = WellKeyed /\ Heads' = Heads /\ Recs' = Recs /\ Total' = Total
           /\ InTree' = InTree /\ TreeUpTo' = TreeUpTo
           /\ \A i : /\ Rec(i)' = Rec(i) /\ Key(i)' = Key(i) /\ Whole(i)' = Whole(i) /\ Grown(i)' = Grown(i)
                     /\ \A k : Extends(k, i)' = Extends(k, i)
<1>1. /\ Heads' = Heads /\ Recs' = Recs /\ Total' = Total
      /\ \A i : Rec(i)' = Rec(i) /\ Key(i)' = Key(i)
  BY DEF Heads, Recs, Total, Rec, Key
<1>2. \A i : \A k : Extends(k, i)' = Extends(k, i)
  BY <1>1 DEF Extends
<1>3. WellKeyed' = WellKeyed
  BY <1>1 DEF WellKeyed
<1>4. ASSUME NEW i PROVE Grown(i)' = Grown(i)
  BY DEF Grown, Extends, Rec, Key
<1>5. ASSUME NEW i PROVE Whole(i)' = Whole(i)
  BY <1>1, <1>4 DEF Whole
<1>6. TreeUpTo' = TreeUpTo
  BY DEF TreeUpTo, Heads, Recs, Rec, Whole, Grown, Extends, Key
<1>7. InTree' = InTree
  BY <1>6 DEF InTree
<1>. QED BY <1>1, <1>2, <1>3, <1>4, <1>5, <1>6, <1>7

---------------------------------------------------------------------------
(* Where a call stands. *)

CallKinds == {"list", "read", "open", "walk", "decmpfs"}

\* A step of a call, or the start of one.
CallStep == (\E c : c.kind \in CallKinds /\ Begin(c)) \/ Work

CallTypes ==
    /\ vol \in Volumes /\ faults \in Nat /\ depth \in Nat /\ pos \in 1..(Total + 1)
    /\ phase \in {"idle", "list", "read", "walk"}
    /\ phase = "idle" <=> call = Idle
    /\ phase = "idle" => pos = 1 /\ table = <<>> /\ pending = None /\ out = <<>> /\ depth = 0
    /\ phase = "list" => call.kind \in {"list", "open", "read"}
    /\ phase = "read" => call.kind \in {"read", "open", "decmpfs"}
    /\ phase = "walk" => call.kind = "walk"
    /\ phase # "idle" => vol.based

\* As much of an attribute as its first k records hold.
SoFar(i, k) == IF Rec(i).type = "inline" THEN Whole(i) ELSE Grown(i)[k]

\* A listing has every attribute it has come to; what is left of a query that
\* started over is replaced when its head comes again.
ListInv ==
    phase = "list" =>
        /\ \A n \in DOMAIN table :
              \E i \in Heads : Rec(i).file = call.file /\ Rec(i).name = n /\ table[n].storage = Rec(i).type
        /\ \A i \in Heads : Rec(i).file = call.file /\ i < pos =>
              Rec(i).name \in DOMAIN table /\ table[Rec(i).name] = SoFar(i, pos - 1)

\* A walk holds back the last attribute, as far as it has come.
WalkInv ==
    phase = "walk" =>
        IF pending = None THEN out = TreeUpTo[pos - 1]
        ELSE \E i \in Heads : /\ i < pos /\ Rec(i).type = "fork" /\ pending = Grown(i)[pos - 1]
                              /\ out = TreeUpTo[i - 1] /\ TreeUpTo[pos - 1] = TreeUpTo[i]

\* What is read has not been found yet.
ReadInv == phase = "read" => \A i \in Given(call) : i < pos => ~Matches(Rec(i))

Own == {i \in Heads : Key(i) = <<call.file, call.name>>}

\* ReadXAttr asks OpenXAttr only if there is no inline attribute of the name,
\* and OpenXAttr asks ReadXAttr only if there is.
DepthInv ==
    /\ phase = "list" /\ call.kind = "open" => depth = 0
    /\ phase = "read" /\ call.kind = "read" => depth = 0
    /\ phase = "list" /\ call.kind = "read" => depth = 1 /\ \A i \in Own : Rec(i).type = "fork"
    /\ phase = "read" /\ call.kind = "open" => depth = 1 /\ \E i \in Own : Rec(i).type = "inline"

\* What readDecmpfsAttr says is so, unless a query failed.
FoundRight ==
    last.call.kind = "decmpfs" =>
        /\ last.err = "ok" => /\ PackedIn(vol, last.call.file) # {}
                              /\ last.value = Packed(vol, last.call.file)
        /\ last.err = "notfound" => ~vol.based \/ PackedIn(vol, last.call.file) = {} \/ faults > 0

CallInv ==
    /\ CallTypes /\ ReadInv /\ FoundRight /\ AttributesExact /\ ValueIsListed
    /\ WellKeyed => ListInv /\ WalkInv /\ DepthInv

---------------------------------------------------------------------------
\* The next record that a query gives.
LEMMA HereIsNext ==
    ASSUME CallTypes, More
    PROVE  /\ Here \in Given(call) /\ pos <= Here /\ Here \in 1..Total /\ Here \in Recs
           /\ pos \in Nat /\ Total \in Nat
           /\ \A k \in pos..(Here - 1) : k \notin Given(call)
<1>1. Total \in Nat /\ Recs = 1..Total /\ Given(call) \subseteq Recs
  BY VolTypes DEF CallTypes, Given, Recs
<1>2. Ahead \in SUBSET Nat /\ Ahead # {} /\ Ahead \subseteq Given(call)
  BY <1>1 DEF Ahead, More
<1>3. Here \in Ahead /\ \A y \in Ahead : Here <= y
  BY <1>2, LeastRecord DEF Here
<1>4. Here \in Given(call) /\ pos <= Here /\ Here \in 1..Total /\ pos \in Nat
  BY <1>1, <1>2, <1>3 DEF Ahead, CallTypes
<1>5. \A k \in pos..(Here - 1) : k \notin Given(call)
  <2> SUFFICES ASSUME NEW k \in pos..(Here - 1), k \in Given(call) PROVE FALSE
    OBVIOUS
  <2>1. k \in Ahead
    BY <1>4 DEF Ahead
  <2>. QED BY <2>1, <1>3, <1>4
<1>. QED BY <1>1, <1>4, <1>5

LEMMA NoneAhead ==
    ASSUME CallTypes, ~More
    PROVE  \A i \in Given(call) : i < pos
<1>1. Total \in Nat /\ Recs = 1..Total /\ Given(call) \subseteq Recs
  BY VolTypes DEF CallTypes, Given, Recs
<1>. QED BY <1>1 DEF More, Ahead, CallTypes

LEMMA HeadTypes ==
    ASSUME vol \in Volumes, NEW i \in Heads
    PROVE  i \in Recs /\ i \in 1..Total /\ Total \in Nat /\ Rec(i).type \in {"inline", "fork"} /\ ~Rec(i).short
BY VolTypes DEF Heads

LEMMA GrownFields ==
    ASSUME vol \in Volumes, NEW i \in Recs, NEW k \in 0..Total
    PROVE  /\ Grown(i)[k].storage = "fork" /\ Grown(i)[k].file = Rec(i).file /\ Grown(i)[k].name = Rec(i).name
           /\ Grown(i)[k] # None
<1>1. Grown(i)[k] \in GrownOf(i)
  BY GrownUnfold
<1>2. Grown(i)[k].storage = "fork" /\ Grown(i)[k].file = Rec(i).file /\ Grown(i)[k].name = Rec(i).name
  BY <1>1 DEF GrownOf
<1>3. None.storage = "none"
  BY DEF None
<1>. QED BY <1>2, <1>3

LEMMA SoFarFields ==
    ASSUME vol \in Volumes, NEW i \in Heads, NEW k \in 0..Total
    PROVE  SoFar(i, k).storage = Rec(i).type /\ SoFar(i, k).name = Rec(i).name /\ SoFar(i, k) # None
<1>1. CASE Rec(i).type = "inline"
  <2>1. Whole(i).storage = "inline" /\ Whole(i).name = Rec(i).name
    BY <1>1 DEF Whole, Attr
  <2>2. None.storage = "none"
    BY DEF None
  <2>. QED BY <1>1, <2>1, <2>2 DEF SoFar
<1>2. CASE Rec(i).type # "inline"
  BY <1>2, HeadTypes, GrownFields DEF SoFar
<1>. QED BY <1>1, <1>2

\* What a query passes over adds nothing to the attributes of its file.
LEMMA PassedOver ==
    ASSUME CallTypes, WellKeyed, More, phase # "walk", NEW i \in Heads, Rec(i).file = call.file, i < pos
    PROVE  SoFar(i, Here - 1) = SoFar(i, pos - 1)
<1>1. CASE Rec(i).type = "inline"
  BY <1>1 DEF SoFar
<1>2. CASE Rec(i).type # "inline"
  <2>1. vol \in Volumes /\ i \in Recs /\ i \in 1..Total /\ Total \in Nat
    BY HeadTypes DEF CallTypes
  <2>2. pos - 1 \in i..Total /\ Here - 1 \in (pos - 1)..Total
    BY <2>1, HereIsNext DEF CallTypes
  <2>3. \A k \in ((pos - 1) + 1)..(Here - 1) : ~Extends(k, i)
    <3> SUFFICES ASSUME NEW k \in ((pos - 1) + 1)..(Here - 1), Extends(k, i) PROVE FALSE
      OBVIOUS
    <3>1. k \in pos..(Here - 1) /\ k \in 1..Total
      BY HereIsNext DEF CallTypes
    <3>2. k \notin Given(call)
      BY <3>1, HereIsNext
    <3>3. Rec(k).file = call.file
      BY DEF Extends, Key
    <3>4. k \in Recs
      BY <3>1, <2>1, VolTypes
    <3>. QED BY <3>2, <3>3, <3>4 DEF Given, Recs, Rec
  <2>4. Grown(i)[Here - 1] = Grown(i)[pos - 1]
    BY <2>1, <2>2, <2>3, GrownRests
  <2>. QED BY <1>2, <2>4 DEF SoFar
<1>. QED BY <1>1, <1>2

\* An answer is right.
Good(c, err, attrs, value, failed) ==
    /\ c.kind = "decmpfs" =>
          /\ err = "ok" => PackedIn(vol, c.file) # {} /\ value = Packed(vol, c.file)
          /\ err = "notfound" => ~vol.based \/ PackedIn(vol, c.file) = {} \/ failed
    /\ vol.present /\ WellKeyed =>
          /\ c.kind = "list" /\ err = "ok" =>
                {attrs[n] : n \in DOMAIN attrs} = {Whole(i) : i \in {i \in Heads : Rec(i).file = c.file}}
          /\ c.kind = "walk" /\ err = "ok" => attrs = InTree
          /\ c.kind = "walk" /\ err = "stopped" => IsPrefix(attrs, InTree)
          /\ c.kind \in {"read", "open"} =>
                LET own == {i \in Heads : Key(i) = <<c.file, c.name>>}
                IN  /\ err = "ok" => \E i \in own : value = Whole(i)
                    /\ err = "notfound" => own = {}
                    /\ err # "exhausted"

LEMMA LastStays ==
    ASSUME CallInv, UNCHANGED <<vol, last>>, faults' = faults \/ faults' = faults + 1
    PROVE  AttributesExact' /\ ValueIsListed' /\ FoundRight'
<1>1. /\ WellKeyed' = WellKeyed /\ Heads' = Heads /\ InTree' = InTree
      /\ \A i : Rec(i)' = Rec(i) /\ Key(i)' = Key(i) /\ Whole(i)' = Whole(i)
  BY VolStays
<1>2. AttributesExact' /\ ValueIsListed'
  BY <1>1 DEF CallInv, AttributesExact, ValueIsListed
<1>3. FoundRight'
  BY DEF CallInv, CallTypes, FoundRight
<1>. QED BY <1>2, <1>3

\* A call ends with a right answer.
LEMMA ReplyStep ==
    ASSUME CallTypes, UNCHANGED vol, faults' = faults \/ faults' = faults + 1,
           NEW err, NEW attrs, NEW value, Reply(err, attrs, value),
           Good(call, err, attrs, value, faults' > 0)
    PROVE  CallInv'
<1>1. /\ last'.call = call /\ last'.err = err /\ last'.attrs = attrs /\ last'.value = value
      /\ call' = Idle /\ phase' = "idle" /\ depth' = 0 /\ pos' = 1
      /\ table' = <<>> /\ pending' = None /\ out' = <<>>
  BY DEF Reply, Clear
<1>2. CallTypes'
  <2>1. Total' = Total /\ Total \in Nat
    BY VolStays, VolTypes DEF CallTypes
  <2>. QED BY <1>1, <2>1 DEF CallTypes
<1>3. ReadInv' /\ ListInv' /\ WalkInv' /\ DepthInv'
  BY <1>1 DEF ReadInv, ListInv, WalkInv, DepthInv
<1>4. AttributesExact' /\ ValueIsListed'
  <2>1. /\ WellKeyed' = WellKeyed /\ Heads' = Heads /\ InTree' = InTree
        /\ \A i : Rec(i)' = Rec(i) /\ Key(i)' = Key(i) /\ Whole(i)' = Whole(i)
    BY VolStays
  <2>. QED BY <1>1, <2>1 DEF Good, AttributesExact, ValueIsListed
<1>5. FoundRight'
  BY <1>1 DEF Good, FoundRight
<1>. QED BY <1>2, <1>3, <1>4, <1>5 DEF CallInv

\* Another query of the same call.
LEMMA QueryStep ==
    ASSUME CallInv, UNCHANGED <<vol, faults, call, last>>, pos' = 1, depth' \in Nat,
           phase' \in {"list", "read"}, phase # "idle",
           phase' = "list" => call.kind \in {"list", "open", "read"} /\ table' = <<>>,
           phase' = "read" => call.kind \in {"read", "open", "decmpfs"},
           WellKeyed => DepthInv'
    PROVE  CallInv'
<1>0. Total' = Total /\ Total \in Nat /\ Heads' = Heads /\ Heads \subseteq 1..Total /\ WellKeyed' = WellKeyed
  BY VolStays, VolTypes DEF CallInv, CallTypes, Heads
<1>1. CallTypes'
  BY <1>0 DEF CallTypes, CallInv
<1>2. ReadInv'
  <2>1. Given(call)' \subseteq Recs' /\ Recs' = 1..Total
    BY VolStays, VolTypes DEF CallInv, CallTypes, Given, Recs
  <2>. QED BY <2>1, <1>0 DEF ReadInv
<1>3. ListInv'
  <2>1. \A i \in Heads' : ~(i < pos')
    BY <1>0
  <2>2. phase' = "list" => DOMAIN table' = {}
    OBVIOUS
  <2>. QED BY <2>1, <2>2 DEF ListInv
<1>4. WalkInv'
  BY DEF WalkInv
<1>. QED BY <1>0, <1>1, <1>2, <1>3, <1>4, LastStays DEF CallInv

LEMMA BeginStep ==
    ASSUME CallInv, NEW c, c.kind \in CallKinds, Begin(c) PROVE CallInv'
<1>0. call = Idle /\ UNCHANGED <<vol, faults>> /\ CallTypes
  BY DEF Begin, CallInv
<1>1. Total' = Total /\ Total \in Nat /\ Heads' = Heads /\ Heads \subseteq 1..Total /\ WellKeyed' = WellKeyed
  BY <1>0, VolStays, VolTypes DEF CallTypes, Heads
<1>2. CASE ~(HasTree(c) /\ vol.based)
  <2>2. /\ last'.call = c /\ UNCHANGED <<call, phase, pos, table, pending, out, depth>>
        /\ vol.present => c.kind = "decmpfs" \/ last'.err = "failed"
        /\ c.kind = "decmpfs" => ~vol.based /\ last'.err # "ok"
    BY <1>2 DEF Begin, HasTree, scan
  <2>3. AttributesExact' /\ ValueIsListed'
    BY <1>0, <2>2 DEF AttributesExact, ValueIsListed
  <2>4. FoundRight'
    BY <1>0, <2>2 DEF FoundRight
  <2>5. phase = "idle" /\ phase' = "idle"
    BY <1>0, <2>2 DEF CallTypes
  <2>6. CallTypes'
    BY <1>0, <1>1, <2>2 DEF CallTypes
  <2>. QED BY <2>3, <2>4, <2>5, <2>6 DEF CallInv, ReadInv, ListInv, WalkInv, DepthInv
<1>3. CASE HasTree(c) /\ vol.based
  <2>0. call' = c /\ last' = NoReply /\ UNCHANGED <<scan, depth>>
        /\ phase' = (CASE c.kind \in {"list", "open"} -> "list" [] c.kind = "walk" -> "walk" [] OTHER -> "read")
    BY <1>3 DEF Begin
  <2>1. /\ call' = c /\ last' = NoReply /\ UNCHANGED <<pos, table, pending, out, depth>>
        /\ c.kind \in {"list", "open"} => phase' = "list"
        /\ c.kind = "walk" => phase' = "walk"
        /\ c.kind \in {"read", "decmpfs"} => phase' = "read"
        /\ phase' \in {"list", "read", "walk"}
    BY <2>0 DEF scan, CallKinds
  <2>2. pos = 1 /\ table = <<>> /\ pending = None /\ out = <<>> /\ depth = 0
    BY <1>0 DEF CallTypes
  <2>3. CallTypes'
    <3>1. call' # Idle
      <4>1. Idle.kind = "idle" /\ "idle" \notin CallKinds
        BY DEF CallKinds, Idle
      <4>2. c # Idle
        BY <4>1
      <4>. QED BY <2>1, <4>2
    <3>2. phase' \in {"list", "read", "walk"} /\ vol'.based
      BY <1>0, <1>3, <2>1
    <3>3. /\ phase' = "list" => call'.kind \in {"list", "open", "read"}
          /\ phase' = "read" => call'.kind \in {"read", "open", "decmpfs"}
          /\ phase' = "walk" => call'.kind = "walk"
      BY <2>1 DEF CallKinds
    <3>. QED BY <1>0, <1>1, <2>1, <2>2, <3>1, <3>2, <3>3 DEF CallTypes
  <2>4. ReadInv'
    <3>1. Given(call)' \subseteq Recs' /\ Recs' = 1..Total
      BY <1>0, VolStays, VolTypes DEF CallTypes, Given, Recs
    <3>. QED BY <3>1, <1>1, <2>1, <2>2 DEF ReadInv
  <2>5. ListInv'
    <3>1. \A i \in Heads' : ~(i < pos')
      BY <1>1, <2>1, <2>2
    <3>2. DOMAIN table' = {}
      BY <2>1, <2>2
    <3>. QED BY <3>1, <3>2 DEF ListInv
  <2>6. WalkInv'
    <3>1. TreeUpTo'[pos' - 1] = <<>>
      BY <1>0, <2>1, <2>2, VolStays, TreeUnfold DEF CallTypes
    <3>. QED BY <2>1, <2>2, <3>1 DEF WalkInv, None
  <2>7. DepthInv'
    BY <2>1, <2>2 DEF DepthInv, CallKinds
  <2>8. AttributesExact' /\ ValueIsListed' /\ FoundRight'
    <3>1. last'.call.kind = "idle"
      BY <2>1 DEF NoReply, Idle
    <3>. QED BY <3>1 DEF AttributesExact, ValueIsListed, FoundRight
  <2>. QED BY <2>3, <2>4, <2>5, <2>6, <2>7, <2>8 DEF CallInv
<1>. QED BY <1>2, <1>3

LEMMA AgainStep == ASSUME CallInv, Again PROVE CallInv'
<1>0. /\ phase \in {"list", "read"} /\ faults' = faults + 1 /\ pos' = 1
      /\ UNCHANGED <<vol, call, phase, table, pending, out, depth, last>>
  BY DEF Again, Fault
<1>1. /\ Total' = Total /\ Total \in Nat /\ Heads' = Heads /\ Heads \subseteq 1..Total /\ WellKeyed' = WellKeyed
      /\ \A i : Rec(i)' = Rec(i) /\ Key(i)' = Key(i)
  BY <1>0, VolStays, VolTypes DEF CallTypes, CallInv, Heads
<1>2. CallTypes'
  BY <1>0, <1>1 DEF CallTypes, CallInv
<1>3. ReadInv'
  <2>1. Given(call)' \subseteq Recs' /\ Recs' = 1..Total
    BY <1>0, VolStays, VolTypes DEF CallInv, CallTypes, Given, Recs
  <2>. QED BY <2>1, <1>0, <1>1 DEF ReadInv
<1>4. WellKeyed => ListInv' /\ WalkInv' /\ DepthInv'
  <2> SUFFICES ASSUME WellKeyed PROVE ListInv' /\ WalkInv' /\ DepthInv'
    OBVIOUS
  <2>1. ListInv /\ DepthInv
    BY DEF CallInv
  <2>2. \A i \in Heads' : ~(i < pos')
    BY <1>0, <1>1
  <2>3. ListInv'
    BY <1>0, <1>1, <2>1, <2>2 DEF ListInv
  <2>4. Own' = Own
    BY <1>0, <1>1 DEF Own
  <2>. QED BY <1>0, <1>1, <2>1, <2>3, <2>4 DEF WalkInv, DepthInv
<1>. QED BY <1>0, <1>1, <1>2, <1>3, <1>4, LastStays DEF CallInv

LEMMA QueryFailsStep == ASSUME CallInv, QueryFails PROVE CallInv'
<1>0. CallTypes /\ UNCHANGED vol /\ faults' = faults + 1 /\ faults \in Nat
  BY DEF QueryFails, Fault, CallInv, CallTypes
<1>1. Good(call, "failed", <<>>, None, faults' > 0)
  BY DEF Good
<1>2. call.kind = "decmpfs" => Good(call, "notfound", <<>>, None, faults' > 0)
  BY <1>0 DEF Good
<1>3. Reply("failed", <<>>, None) \/ (call.kind = "decmpfs" /\ Reply("notfound", <<>>, None))
  BY DEF QueryFails, Error
<1>. QED BY <1>0, <1>1, <1>2, <1>3, ReplyStep

LEMMA SoFarRests ==
    ASSUME vol \in Volumes, NEW i \in Heads, NEW h \in (i + 1)..Total, ~Extends(h, i)
    PROVE  SoFar(i, h) = SoFar(i, h - 1)
BY GrownUnfold, HeadTypes DEF SoFar

\* The heads of its file that a listing has come to after the next record.
LEMMA HeadsReached ==
    ASSUME CallTypes, More, phase # "walk", NEW i \in Heads, Rec(i).file = call.file, i < Here + 1
    PROVE  i < pos \/ i = Here
<1>1. i \in Given(call) /\ i \in Nat
  BY HeadTypes DEF Given, Recs, Rec, Heads, CallTypes
<1>2. i \notin pos..(Here - 1)
  BY <1>1, HereIsNext
<1>. QED BY <1>1, <1>2, HereIsNext

\* One attribute of the table is brought up to the next record.
LEMMA PutStep ==
    ASSUME CallTypes, WellKeyed, ListInv, phase = "list", More, UNCHANGED <<vol, call, phase>>, pos' = Here + 1,
           NEW j \in Heads, Rec(j).file = call.file, j <= Here, table' = Put(SoFar(j, Here)),
           \A i \in Heads : Rec(i).file = call.file /\ i < Here + 1 /\ i # j =>
              i < pos /\ SoFar(i, Here) = SoFar(i, Here - 1)
    PROVE  ListInv'
<1>. DEFINE h == Here
            a == SoFar(j, h)
<1>0. /\ Heads' = Heads /\ vol \in Volumes
      /\ \A i : Rec(i)' = Rec(i) /\ Key(i)' = Key(i) /\ \A k : SoFar(i, k)' = SoFar(i, k)
  BY VolStays DEF CallTypes, SoFar
<1>1. h \in 1..Total /\ h \in 0..Total /\ pos' - 1 = h /\ pos' = h + 1
  BY HereIsNext
<1>2. a.name = Rec(j).name /\ a.storage = Rec(j).type
  BY <1>0, <1>1, SoFarFields
<1>3. table' = [n \in DOMAIN table \union {a.name} |-> IF n = a.name THEN a ELSE table[n]]
  BY DEF Put
<1>. HIDE DEF a, h
<1>4. ASSUME NEW n \in DOMAIN table'
      PROVE  \E i \in Heads : Rec(i).file = call.file /\ Rec(i).name = n /\ table'[n].storage = Rec(i).type
  <2>1. CASE n = a.name
    BY <1>2, <1>3, <2>1
  <2>2. CASE n # a.name
    BY <1>3, <2>2 DEF ListInv
  <2>. QED BY <2>1, <2>2
<1>5. ASSUME NEW i \in Heads, Rec(i).file = call.file, i < h + 1
      PROVE  Rec(i).name \in DOMAIN table' /\ table'[Rec(i).name] = SoFar(i, h)
  <2>1. CASE i = j
    BY <1>2, <1>3, <2>1 DEF a
  <2>2. CASE i # j
    <3>1. i < pos /\ SoFar(i, h) = SoFar(i, h - 1)
      BY <1>5, <2>2 DEF h
    <3>2. SoFar(i, h - 1) = SoFar(i, pos - 1)
      BY <1>5, <3>1, PassedOver DEF h
    <3>3. Rec(i).name # Rec(j).name
      BY <1>5, <2>2 DEF WellKeyed, Key
    <3>. QED BY <1>2, <1>3, <1>5, <3>1, <3>2, <3>3 DEF ListInv
  <2>. QED BY <2>1, <2>2
<1>. QED BY <1>0, <1>1, <1>4, <1>5 DEF ListInv

LEMMA ListRecordStep == ASSUME CallInv, ListRecord PROVE CallInv'
<1>. DEFINE h == Here
            r == Rec(h)
<1>0. /\ phase = "list" /\ More /\ pos' = h + 1 /\ CallTypes
      /\ UNCHANGED <<vol, call, phase, redone, pending, out, depth, last, faults>>
  BY DEF ListRecord, CallInv
<1>1. h \in 1..Total /\ h \in 0..Total /\ pos <= h /\ h \in Recs /\ pos \in Nat /\ Total \in Nat
  BY <1>0, HereIsNext
<1>2. Total' = Total /\ WellKeyed' = WellKeyed
  BY <1>0, VolStays
<1>3. CallTypes'
  BY <1>0, <1>1, <1>2 DEF CallTypes
<1>4. ReadInv' /\ WalkInv'
  BY <1>0 DEF ReadInv, WalkInv
<1>5. WellKeyed => DepthInv'
  <2>1. Own' = Own /\ \A i : Rec(i)' = Rec(i)
    BY <1>0, VolStays DEF Own
  <2>. QED BY <1>0, <2>1 DEF DepthInv, CallInv
<1>6. WellKeyed => ListInv'
  <2> SUFFICES ASSUME WellKeyed PROVE ListInv'
    OBVIOUS
  <2>0. ListInv /\ vol \in Volumes /\ IsRecord(r) /\ This = r /\ r.file = call.file
    <3>1. Rec(h) = vol.recs[h] /\ h \in Given(call) /\ call.kind # "walk"
      BY <1>0, HereIsNext DEF Rec, CallTypes
    <3>2. IsRecord(r)
      BY <1>0, <1>1, VolTypes DEF CallTypes
    <3>. QED BY <1>0, <3>1, <3>2 DEF CallInv, This, Given, CallTypes
  <2>1. \A i \in Heads : Rec(i).file = call.file /\ i < h + 1 => i < pos \/ i = h
    BY <1>0, HeadsReached
  <2>2. \A i \in Heads : i < pos => h \in (i + 1)..Total
    BY <1>1, HeadTypes, <2>0
  <2>. HIDE DEF h, r
  <2>3. CASE h \in Heads
    <3>1. r.type \in {"inline", "fork"} /\ ~r.short
      BY <2>3, <2>0, HeadTypes DEF r
    <3>2. table' = Put(SoFar(h, h))
      <4>1. CASE r.type = "inline"
        <5>1. table' = Put(Inline(r))
          BY <3>1, <4>1, <2>0 DEF ListRecord
        <5>2. Inline(r) = Whole(h)
          BY <4>1 DEF Inline, InlineSize, Whole, r
        <5>. QED BY <4>1, <5>1, <5>2 DEF SoFar, r
      <4>2. CASE r.type = "fork"
        <5>1. table' = Put(Fork(r))
          BY <3>1, <4>2, <2>0 DEF ListRecord, PutFork
        <5>2. h \in 0..h
          BY <1>1
        <5>3. Grown(h)[h] = Forked(h)
          BY <2>0, <1>1, <5>2, GrownUnfold
        <5>. QED BY <4>2, <5>1, <5>3 DEF SoFar, Forked, Fork, r
      <4>. QED BY <3>1, <4>1, <4>2
    <3>3. ASSUME NEW i \in Heads, Rec(i).file = call.file, i < h + 1, i # h
          PROVE  i < pos /\ SoFar(i, h) = SoFar(i, h - 1)
      <4>1. i < pos
        BY <3>3, <2>1
      <4>2. ~Extends(h, i)
        BY <3>1 DEF Extends, r
      <4>. QED BY <4>1, <4>2, <2>0, <2>2, SoFarRests
    <3>4. h <= h
      BY <1>1
    <3>. QED BY <1>0, <2>0, <2>3, <3>2, <3>3, <3>4, PutStep DEF h, r
  <2>4. CASE r.type = "extension" /\ ~r.short
    <3>1. PICK j \in Heads : j < h /\ Rec(j).type = "fork" /\ Key(j) = Key(h)
      BY <1>1, <2>4 DEF WellKeyed, r
    <3>2. Rec(j).file = call.file /\ Rec(j).name = r.name
      BY <3>1, <2>0 DEF Key, r
    <3>3. j < pos /\ h \in (j + 1)..Total /\ Extends(h, j)
      <4>1. j \in Nat
        BY <2>0, HeadTypes
      <4>2. j < pos
        BY <1>1, <2>1, <3>1, <3>2, <4>1
      <4>. QED BY <2>2, <2>4, <3>1, <4>2 DEF Extends, r
    <3>4. r.name \in DOMAIN table /\ table[r.name] = SoFar(j, h - 1)
      <4>1. SoFar(j, h - 1) = SoFar(j, pos - 1)
        BY <1>0, <3>2, <3>3, PassedOver DEF h
      <4>. QED BY <1>0, <2>0, <3>2, <3>3, <4>1 DEF ListInv
    <3>5. SoFar(j, h - 1) = Grown(j)[h - 1] /\ SoFar(j, h) = Longer(Grown(j)[h - 1], r)
      <4>1. j \in Recs
        BY <2>0, HeadTypes
      <4>. QED BY <3>1, <3>3, <2>0, <4>1, GrownUnfold DEF SoFar, r
    <3>6. table[r.name].storage = "fork"
      <4>1. h - 1 \in 0..Total
        BY <1>1
      <4>. QED BY <3>1, <3>4, <4>1, <2>0, SoFarFields
    <3>7. table' = Put(SoFar(j, h))
      BY <2>0, <2>4, <3>4, <3>5, <3>6 DEF ListRecord
    <3>8. ASSUME NEW i \in Heads, Rec(i).file = call.file, i < h + 1, i # j
          PROVE  i < pos /\ SoFar(i, h) = SoFar(i, h - 1)
      <4>1. h \notin Heads
        BY <2>4 DEF Heads, r
      <4>2. i < pos
        BY <3>8, <4>1, <2>1
      <4>3. ~Extends(h, i)
        BY <3>1, <3>8 DEF Extends, WellKeyed
      <4>. QED BY <4>2, <4>3, <2>0, <2>2, SoFarRests
    <3>9. j <= h
      BY <3>1, <2>0, <1>1, HeadTypes
    <3>. QED BY <1>0, <2>0, <3>2, <3>7, <3>8, <3>9, PutStep DEF h, r
  <2>5. CASE h \notin Heads /\ ~(r.type = "extension" /\ ~r.short)
    <3>1. table' = table
      <4>1. r.short \/ (~r.short /\ r.type = "other")
        BY <1>1, <2>0, <2>5 DEF Heads, IsRecord, r
      <4>2. CASE r.short
        BY <2>0, <4>2 DEF ListRecord
      <4>3. CASE ~r.short /\ r.type = "other"
        BY <2>0, <4>3 DEF ListRecord
      <4>. QED BY <4>1, <4>2, <4>3
    <3>2. ASSUME NEW i \in Heads, Rec(i).file = call.file, i < h + 1
          PROVE  i < pos /\ SoFar(i, h) = SoFar(i, pos - 1)
      <4>1. i < pos
        BY <3>2, <2>5, <2>1
      <4>2. ~Extends(h, i)
        BY <2>5 DEF Extends, r
      <4>3. SoFar(i, h) = SoFar(i, h - 1)
        BY <4>1, <4>2, <2>0, <2>2, SoFarRests
      <4>4. SoFar(i, h - 1) = SoFar(i, pos - 1)
        BY <1>0, <3>2, <4>1, PassedOver DEF h
      <4>. QED BY <4>1, <4>3, <4>4
    <3>3. /\ Heads' = Heads /\ pos' - 1 = h
          /\ \A i : Rec(i)' = Rec(i) /\ Key(i)' = Key(i) /\ \A k : SoFar(i, k)' = SoFar(i, k)
      BY <1>0, <1>1, VolStays DEF CallTypes, SoFar
    <3>. QED BY <1>0, <2>0, <3>1, <3>2, <3>3 DEF ListInv
  <2>. QED BY <2>3, <2>4, <2>5
<1>. QED BY <1>0, <1>2, <1>3, <1>4, <1>5, <1>6, LastStays DEF CallInv

\* At the end of a query every attribute of its file is whole.
LEMMA Completed ==
    ASSUME CallTypes, ~More, phase # "walk", NEW i \in Heads, Rec(i).file = call.file
    PROVE  i < pos /\ SoFar(i, pos - 1) = Whole(i)
<1>1. vol \in Volumes /\ i \in Recs /\ i \in 1..Total /\ Total \in Nat /\ pos \in 1..(Total + 1)
  BY HeadTypes DEF CallTypes
<1>2. i < pos
  <2>1. i \in Given(call)
    BY <1>1 DEF Given, Recs, Rec
  <2>. QED BY <2>1, NoneAhead
<1>3. CASE Rec(i).type = "inline"
  BY <1>2, <1>3 DEF SoFar
<1>4. CASE Rec(i).type # "inline"
  <2>1. pos - 1 \in i..Total /\ Total \in (pos - 1)..Total
    BY <1>1, <1>2
  <2>2. \A k \in ((pos - 1) + 1)..Total : ~Extends(k, i)
    <3> SUFFICES ASSUME NEW k \in ((pos - 1) + 1)..Total, Extends(k, i) PROVE FALSE
      OBVIOUS
    <3>1. k \in Recs /\ ~(k < pos)
      BY <1>1, VolTypes
    <3>2. Rec(k).file = call.file
      BY DEF Extends, Key
    <3>3. k \in Given(call)
      BY <3>1, <3>2 DEF Given, Recs, Rec
    <3>. QED BY <3>1, <3>3, NoneAhead
  <2>3. Grown(i)[Total] = Grown(i)[pos - 1]
    BY <1>1, <2>1, <2>2, GrownRests
  <2>. QED BY <1>2, <1>4, <2>3 DEF SoFar, Whole, Total
<1>. QED BY <1>3, <1>4

\* What a listing has at its end under a name.
LEMMA TableAtEnd ==
    ASSUME CallTypes, WellKeyed, ListInv, phase = "list", ~More
    PROVE  /\ \A n \in DOMAIN table : \E i \in Heads :
                 Rec(i).file = call.file /\ Rec(i).name = n /\ table[n] = Whole(i) /\ table[n].storage = Rec(i).type
           /\ \A i \in Heads : Rec(i).file = call.file => Rec(i).name \in DOMAIN table /\ table[Rec(i).name] = Whole(i)
<1>1. \A i \in Heads : Rec(i).file = call.file =>
          Rec(i).name \in DOMAIN table /\ table[Rec(i).name] = Whole(i)
  BY Completed DEF ListInv
<1>2. ASSUME NEW n \in DOMAIN table
      PROVE  \E i \in Heads : Rec(i).file = call.file /\ Rec(i).name = n /\ table[n] = Whole(i)
                              /\ table[n].storage = Rec(i).type
  <2>1. PICK i \in Heads : Rec(i).file = call.file /\ Rec(i).name = n /\ table[n].storage = Rec(i).type
    BY DEF ListInv
  <2>. QED BY <1>1, <2>1
<1>. QED BY <1>1, <1>2

LEMMA WholeIsSomething ==
    ASSUME vol \in Volumes, NEW i \in Heads PROVE Whole(i) # None
<1>1. CASE Rec(i).type = "inline"
  <2>1. Whole(i).storage = "inline"
    BY <1>1 DEF Whole, Attr
  <2>2. None.storage = "none"
    BY DEF None
  <2>. QED BY <2>1, <2>2
<1>2. CASE Rec(i).type # "inline"
  <2>1. Total \in 0..Total
    BY VolTypes
  <2>. QED BY <1>2, <2>1, HeadTypes, GrownFields DEF Whole, Total
<1>. QED BY <1>1, <1>2

LEMMA ListEndStep == ASSUME CallInv, ListEnd PROVE CallInv'
<1>0. /\ CallTypes /\ phase = "list" /\ ~More /\ UNCHANGED <<vol, faults>> /\ vol \in Volumes
      /\ call.kind \in {"list", "open", "read"}
      /\ WellKeyed => ListInv /\ DepthInv
  BY DEF ListEnd, CallInv, CallTypes
<1>1. WellKeyed => /\ \A n \in DOMAIN table : \E i \in Heads :
                         Rec(i).file = call.file /\ Rec(i).name = n /\ table[n] = Whole(i) /\ table[n].storage = Rec(i).type
                   /\ \A i \in Heads : Rec(i).file = call.file =>
                         Rec(i).name \in DOMAIN table /\ table[Rec(i).name] = Whole(i)
  BY <1>0, TableAtEnd
<1>2. CASE call.kind = "list"
  <2>1. Reply("ok", table, None)
    BY <1>2 DEF ListEnd
  <2>2. WellKeyed => {table[n] : n \in DOMAIN table} = {Whole(i) : i \in {i \in Heads : Rec(i).file = call.file}}
    BY <1>1
  <2>3. Good(call, "ok", table, None, faults' > 0)
    BY <1>2, <2>2 DEF Good
  <2>. QED BY <1>0, <2>1, <2>3, ReplyStep
<1>3. CASE call.kind # "list" /\ Lookup = None
  <2>1. Reply("notfound", <<>>, None)
    <3>1. Lookup.storage # "inline"
      BY <1>3 DEF None
    <3>. QED BY <1>3, <3>1 DEF ListEnd, Error
  <2>2. WellKeyed => Own = {}
    <3> SUFFICES ASSUME WellKeyed, NEW i \in Own PROVE FALSE
      OBVIOUS
    <3>1. i \in Heads /\ Rec(i).file = call.file /\ Rec(i).name = call.name
      BY DEF Own, Key
    <3>2. Lookup = Whole(i)
      BY <1>1, <3>1 DEF Lookup
    <3>. QED BY <1>0, <1>3, <3>1, <3>2, WholeIsSomething
  <2>3. Good(call, "notfound", <<>>, None, faults' > 0)
    BY <1>0, <1>3, <2>2 DEF Good, Own
  <2>. QED BY <1>0, <2>1, <2>3, ReplyStep
<1>4. CASE call.kind # "list" /\ Lookup # None
  <2>1. call.name \in DOMAIN table /\ Lookup = table[call.name]
    BY <1>4 DEF Lookup
  <2>2. WellKeyed => \E i \in Own : Lookup = Whole(i) /\ Lookup.storage = Rec(i).type
    BY <1>1, <2>1 DEF Own, Key
  <2>3. CASE Lookup.storage = "inline"
    <3>1. Deeper("read")
      BY <1>4, <2>3 DEF ListEnd
    <3>2. pos' = 1 /\ phase' = "read" /\ depth' = depth + 1 /\ UNCHANGED <<call, out, last>>
      BY <3>1 DEF Deeper, Query, Clear
    <3>3. WellKeyed => DepthInv'
      <4> SUFFICES ASSUME WellKeyed PROVE DepthInv'
        OBVIOUS
      <4>1. Own' = Own /\ \A i : Rec(i)' = Rec(i)
        BY <1>0, <3>2, VolStays DEF Own
      <4>2. \E i \in Own : Rec(i).type = "inline"
        BY <2>2, <2>3
      <4>3. call.kind = "open" /\ depth = 0
        BY <1>0, <1>4, <4>2 DEF DepthInv
      <4>. QED BY <3>2, <4>1, <4>2, <4>3 DEF DepthInv
    <3>. QED BY <1>0, <1>4, <3>2, <3>3, QueryStep DEF CallTypes
  <2>4. CASE Lookup.storage # "inline" /\ Lookup.exts = <<>>
    <3>1. Reply("missing", <<>>, None)
      BY <1>4, <2>4 DEF ListEnd, Error
    <3>2. Good(call, "missing", <<>>, None, faults' > 0)
      BY DEF Good
    <3>. QED BY <1>0, <3>1, <3>2, ReplyStep
  <2>5. CASE Lookup.storage # "inline" /\ Lookup.exts # <<>>
    <3>1. Reply("ok", <<>>, Lookup)
      BY <1>4, <2>5 DEF ListEnd
    <3>2. Good(call, "ok", <<>>, Lookup, faults' > 0)
      BY <1>0, <1>4, <2>2 DEF Good, Own
    <3>. QED BY <1>0, <3>1, <3>2, ReplyStep
  <2>. QED BY <2>3, <2>4, <2>5
<1>. QED BY <1>2, <1>3, <1>4

LEMMA ReadRecordStep == ASSUME CallInv, ReadRecord PROVE CallInv'
<1>. DEFINE h == Here
<1>0. /\ CallTypes /\ phase = "read" /\ More /\ UNCHANGED <<vol, faults>> /\ vol \in Volumes
      /\ call.kind \in {"read", "open", "decmpfs"} /\ ReadInv
  BY DEF ReadRecord, CallInv, CallTypes
<1>1. /\ h \in 1..Total /\ pos <= h /\ h \in Recs /\ pos \in Nat /\ Total \in Nat /\ h \in Given(call)
      /\ Rec(h).file = call.file /\ This = Rec(h)
  BY <1>0, HereIsNext DEF Given, Rec, This
<1>2. \A i \in Given(call) : i < h => ~Matches(Rec(i))
  <2> TAKE i \in Given(call)
  <2>1. i \in Nat
    BY <1>0, VolTypes DEF Given, Recs
  <2>2. i \notin pos..(h - 1)
    BY <1>0, HereIsNext
  <2>. QED BY <1>0, <1>1, <2>1, <2>2 DEF ReadInv
<1>. HIDE DEF h
<1>3. CASE Matches(Rec(h)) /\ call.kind = "decmpfs"
  <2>1. Reply("ok", <<>>, Rec(h).cmp)
    BY <1>1, <1>3 DEF ReadRecord
  <2>. DEFINE P == PackedIn(vol, call.file)
  <2>2. h \in P
    BY <1>1, <1>3 DEF PackedIn, Matches, Rec, Recs
  <2>3. P \in SUBSET Nat
    BY <1>0, VolTypes DEF PackedIn, Recs
  <2>4. ASSUME NEW i \in P PROVE h <= i
    <3>1. i \in Given(call) /\ Matches(Rec(i))
      BY <1>3 DEF PackedIn, Given, Matches, Rec
    <3>2. i \in Nat
      BY <2>3
    <3>. QED BY <1>1, <1>2, <3>1, <3>2
  <2>. HIDE DEF P
  <2>5. Min(P) = h
    <3>1. Min(P) \in P /\ \A y \in P : Min(P) <= y
      BY <2>2, <2>3, LeastRecord
    <3>2. Min(P) \in Nat
      BY <2>3, <3>1
    <3>3. h \in Nat
      BY <1>1
    <3>. QED BY <2>2, <2>4, <3>1, <3>2, <3>3
  <2>6. Good(call, "ok", <<>>, Rec(h).cmp, faults' > 0)
    BY <1>3, <2>2, <2>5 DEF Good, Packed, P, Rec
  <2>. QED BY <1>0, <2>1, <2>6, ReplyStep
<1>4. CASE Matches(Rec(h)) /\ call.kind # "decmpfs"
  <2>1. Reply("ok", <<>>, Inline(Rec(h))) \/ Reply("limit", <<>>, None)
    BY <1>1, <1>4 DEF ReadRecord, Error
  <2>2. h \in Heads /\ Rec(h).type = "inline" /\ Rec(h).name = call.name
    BY <1>1, <1>4 DEF Matches, Named, Heads
  <2>3. Inline(Rec(h)) = Whole(h)
    BY <2>2 DEF Inline, InlineSize, Whole
  <2>4. Good(call, "ok", <<>>, Inline(Rec(h)), faults' > 0)
    BY <1>0, <1>1, <1>4, <2>2, <2>3 DEF Good, Key
  <2>5. Good(call, "limit", <<>>, None, faults' > 0)
    BY <1>0, <1>4 DEF Good
  <2>. QED BY <1>0, <2>1, <2>4, <2>5, ReplyStep
<1>5. CASE ~Matches(Rec(h))
  <2>1. pos' = h + 1 /\ UNCHANGED <<call, phase, table, pending, out, depth, last>>
    BY <1>1, <1>5 DEF ReadRecord, h
  <2>2. /\ Total' = Total /\ WellKeyed' = WellKeyed /\ Own' = Own /\ \A i : Rec(i)' = Rec(i)
        /\ Given(call)' = Given(call) /\ \A r : Matches(r)' = Matches(r)
    BY <1>0, <2>1, VolStays DEF Own, Given, Matches
  <2>3. CallTypes'
    BY <1>0, <1>1, <2>1, <2>2 DEF CallTypes
  <2>4. ReadInv'
    <3>1. \A i \in Given(call) : i < h + 1 => i < h \/ i = h
      BY <1>0, <1>1, VolTypes DEF Given, Recs
    <3>2. \A i \in Given(call) : i < h + 1 => ~Matches(Rec(i))
      BY <1>2, <1>5, <3>1
    <3>. QED BY <2>1, <2>2, <3>2 DEF ReadInv
  <2>5. WellKeyed => DepthInv'
    BY <2>1, <2>2 DEF DepthInv, CallInv
  <2>6. ListInv' /\ WalkInv'
    BY <1>0, <2>1 DEF ListInv, WalkInv
  <2>. QED BY <1>0, <2>1, <2>2, <2>3, <2>4, <2>5, <2>6, LastStays DEF CallInv
<1>. QED BY <1>3, <1>4, <1>5

\* At the end of a read of a well-keyed tree there is no inline attribute of the name.
LEMMA NothingInline ==
    ASSUME CallInv, WellKeyed, phase = "read", ~More, call.kind # "decmpfs"
    PROVE  \A i \in Own : Rec(i).type = "fork"
<1> SUFFICES ASSUME NEW i \in Own, Rec(i).type # "fork" PROVE FALSE
  OBVIOUS
<1>1. i \in Heads /\ Rec(i).file = call.file /\ Rec(i).name = call.name
  BY DEF Own, Key
<1>2. i \in Recs /\ Rec(i).type = "inline" /\ ~Rec(i).short /\ Rec(i).start = 0
  BY <1>1, HeadTypes DEF CallInv, CallTypes, WellKeyed
<1>3. i \in Given(call)
  BY <1>1, <1>2 DEF Given, Recs, Rec
<1>. QED BY <1>1, <1>2, <1>3, NoneAhead DEF CallInv, ReadInv, Matches, Named

LEMMA ReadEndStep == ASSUME CallInv, ReadEnd PROVE CallInv'
<1>0. /\ CallTypes /\ phase = "read" /\ ~More /\ UNCHANGED <<vol, faults>>
      /\ call.kind \in {"read", "open", "decmpfs"} /\ ReadInv
  BY DEF ReadEnd, CallInv, CallTypes
<1>1. CASE call.kind = "decmpfs"
  <2>1. Reply("notfound", <<>>, None)
    BY <1>1 DEF ReadEnd, Error
  <2>2. PackedIn(vol, call.file) = {}
    <3> SUFFICES ASSUME NEW i \in PackedIn(vol, call.file) PROVE FALSE
      OBVIOUS
    <3>1. i \in Given(call) /\ Matches(Rec(i))
      BY <1>1 DEF PackedIn, Given, Matches, Rec
    <3>. QED BY <1>0, <3>1, NoneAhead DEF ReadInv
  <2>3. Good(call, "notfound", <<>>, None, faults' > 0)
    BY <1>1, <2>2 DEF Good
  <2>. QED BY <1>0, <2>1, <2>3, ReplyStep
<1>2. CASE call.kind # "decmpfs"
  <2>1. pos' = 1 /\ phase' = "list" /\ depth' = depth + 1 /\ table' = <<>> /\ UNCHANGED <<call, last>>
    BY <1>2 DEF ReadEnd, Deeper, Query, Clear
  <2>2. WellKeyed => DepthInv'
    <3> SUFFICES ASSUME WellKeyed PROVE DepthInv'
      OBVIOUS
    <3>1. Own' = Own /\ \A i : Rec(i)' = Rec(i)
      BY <1>0, <2>1, VolStays DEF Own
    <3>2. \A i \in Own : Rec(i).type = "fork"
      BY <1>0, <1>2, NothingInline
    <3>3. call.kind = "read" /\ depth = 0
      <4>1. \A i \in Own : Rec(i).type # "inline"
        BY <3>2
      <4>. QED BY <1>0, <1>2, <4>1 DEF CallInv, DepthInv
    <3>. QED BY <2>1, <3>1, <3>2, <3>3 DEF DepthInv
  <2>. QED BY <1>0, <1>2, <2>1, <2>2, QueryStep DEF CallTypes
<1>. QED BY <1>1, <1>2

\* Over a well-keyed tree the two never exhaust the stack.
LEMMA ExhaustedStep == ASSUME CallInv, Exhausted PROVE CallInv'
<1>0. CallTypes /\ UNCHANGED <<vol, faults>> /\ ~More /\ depth = MaxDepth /\ MaxDepth \in Nat \ {0}
  BY XAttrsAssumption DEF Exhausted, CallInv
<1>1. ~WellKeyed
  <2> SUFFICES ASSUME WellKeyed PROVE FALSE
    OBVIOUS
  <2>1. ListInv /\ DepthInv
    BY DEF CallInv
  <2>2. CASE phase = "read" /\ call.kind # "decmpfs"
    <3>1. \A i \in Own : Rec(i).type # "inline"
      BY <1>0, <2>2, NothingInline
    <3>. QED BY <1>0, <2>1, <2>2, <3>1 DEF DepthInv, CallTypes
  <2>3. CASE phase = "list" /\ call.kind # "list" /\ Lookup.storage = "inline"
    <3>1. call.kind = "read" /\ \A i \in Own : Rec(i).type = "fork"
      BY <1>0, <2>1, <2>3 DEF DepthInv, CallTypes
    <3>2. None.storage = "none"
      BY DEF None
    <3>3. call.name \in DOMAIN table /\ table[call.name].storage = "inline"
      BY <2>3, <3>2 DEF Lookup
    <3>4. PICK i \in Heads : Rec(i).file = call.file /\ Rec(i).name = call.name /\ Rec(i).type = "inline"
      BY <2>1, <2>3, <3>3 DEF ListInv
    <3>. QED BY <3>1, <3>4 DEF Own, Key
  <2>. QED BY <2>2, <2>3 DEF Exhausted
<1>2. Good(call, "exhausted", <<>>, None, faults' > 0)
  BY <1>1 DEF Good
<1>3. Reply("exhausted", <<>>, None)
  BY DEF Exhausted, Error
<1>. QED BY <1>0, <1>2, <1>3, ReplyStep

\* A walk takes every record in its turn.
LEMMA WalkHere ==
    ASSUME CallTypes, phase = "walk"
    PROVE  /\ More => Here = pos /\ pos \in 1..Total /\ pos \in Recs
           /\ ~More => pos = Total + 1
           /\ Total \in Nat /\ vol \in Volumes
<1>1. Given(call) = Recs /\ Recs = 1..Total /\ Total \in Nat /\ pos \in 1..(Total + 1) /\ vol \in Volumes
  BY VolTypes DEF CallTypes, Given, Recs
<1>2. ASSUME More PROVE Here = pos /\ pos \in 1..Total
  <2>1. Here \in 1..Total /\ pos <= Here /\ \A k \in pos..(Here - 1) : k \notin Given(call)
    BY <1>2, HereIsNext
  <2>2. pos \in Given(call)
    BY <1>1, <2>1
  <2>3. ~(pos \in pos..(Here - 1))
    BY <2>1, <2>2
  <2>. QED BY <1>1, <2>1, <2>3
<1>3. ASSUME ~More PROVE pos = Total + 1
  <2>1. \A i \in Given(call) : i < pos
    BY <1>3, NoneAhead
  <2>2. ~(pos \in Given(call))
    <3> SUFFICES ASSUME pos \in Given(call) PROVE FALSE
      OBVIOUS
    <3>1. pos < pos
      BY <2>1
    <3>. QED BY <3>1, <1>1
  <2>. QED BY <1>1, <2>2
<1>. QED BY <1>1, <1>2, <1>3

\* When the next head comes, or none, the attribute held back is whole.
LEMMA FlushedRight ==
    ASSUME CallTypes, WellKeyed, WalkInv, phase = "walk", ~More \/ pos \in Heads
    PROVE  Flushed = TreeUpTo[pos - 1]
<1>0. Total \in Nat /\ vol \in Volumes /\ pos \in 1..(Total + 1) /\ (More => pos \in 1..Total)
  BY WalkHere DEF CallTypes
<1>1. CASE pending = None
  BY <1>1 DEF WalkInv, Flushed
<1>2. CASE pending # None
  <2>1. PICK i \in Heads : /\ i < pos /\ Rec(i).type = "fork" /\ pending = Grown(i)[pos - 1]
                           /\ out = TreeUpTo[i - 1] /\ TreeUpTo[pos - 1] = TreeUpTo[i]
    BY <1>2 DEF WalkInv
  <2>2. i \in Recs /\ i \in 1..Total
    BY <1>0, HeadTypes
  <2>3. pos - 1 \in i..Total /\ Total \in (pos - 1)..Total
    BY <1>0, <2>1, <2>2
  <2>4. \A k \in ((pos - 1) + 1)..Total : ~Extends(k, i)
    <3> SUFFICES ASSUME NEW k \in ((pos - 1) + 1)..Total, Extends(k, i) PROVE FALSE
      OBVIOUS
    <3>1. pos \in Heads
      BY <1>0, WalkHere
    <3>2. Rec(k).type = "extension" /\ Key(k) = Key(i) /\ k \in Recs /\ pos \in Recs
      BY <1>0, <3>1, VolTypes, HeadTypes DEF Extends
    <3>3. k # pos
      BY <1>0, <3>1, <3>2, HeadTypes
    <3>4. pos < k
      BY <1>0, <3>3
    <3>5. Key(pos) = Key(i)
      BY <2>1, <2>2, <3>2, <3>4 DEF WellKeyed
    <3>6. pos = i
      BY <3>1, <3>5 DEF WellKeyed
    <3>. QED BY <1>0, <2>1, <3>6
  <2>5. pending = Whole(i)
    <3>1. Grown(i)[Total] = Grown(i)[pos - 1]
      BY <1>0, <2>2, <2>3, <2>4, GrownRests
    <3>. QED BY <2>1, <3>1 DEF Whole, Total
  <2>6. TreeUpTo[i] = Append(TreeUpTo[i - 1], Whole(i))
    BY <1>0, <2>2, TreeUnfold
  <2>. QED BY <1>2, <2>1, <2>5, <2>6 DEF Flushed
<1>. QED BY <1>1, <1>2

\* A step of a walk keeps what does not concern it.
LEMMA WalkedStep ==
    ASSUME CallInv, phase = "walk", More, UNCHANGED <<vol, faults>>, NEW p, NEW o, Walked(p, o),
           WellKeyed => WalkInv'
    PROVE  CallInv'
<1>1. CallTypes /\ pos' = pos + 1 /\ UNCHANGED <<call, phase, redone, table, depth, last>>
  BY WalkHere DEF Walked, CallInv
<1>2. Total' = Total /\ WellKeyed' = WellKeyed
  BY VolStays
<1>3. CallTypes'
  BY <1>1, <1>2, WalkHere DEF CallTypes
<1>4. ReadInv' /\ ListInv' /\ DepthInv'
  BY <1>1 DEF ReadInv, ListInv, DepthInv
<1>. QED BY <1>1, <1>2, <1>3, <1>4, LastStays DEF CallInv

\* A walk that is stopped has reported the first attributes of the tree.
LEMMA StoppedStep ==
    ASSUME CallInv, phase = "walk", UNCHANGED <<vol, faults>>, NEW o, NEW k \in 0..Total, WellKeyed => o = TreeUpTo[k],
           Reply("stopped", o, None)
    PROVE  CallInv'
<1>1. CallTypes /\ call.kind = "walk" /\ vol \in Volumes
  BY DEF CallInv, CallTypes
<1>2. WellKeyed => IsPrefix(o, InTree)
  BY <1>1, TreePrefix
<1>3. Good(call, "stopped", o, None, faults' > 0)
  BY <1>1, <1>2 DEF Good
<1>. QED BY <1>1, <1>3, ReplyStep

\* What a walk holds back, one record on.
LEMMA HoldsBack ==
    ASSUME CallTypes, WellKeyed, WalkInv, phase = "walk", More, pos \notin Heads, UNCHANGED <<vol, phase>>, pos' = pos + 1,
           out' = out, pending = None => pending' = None,
           pending # None =>
              pending' = IF Rec(pos).type = "extension" /\ ~Rec(pos).short /\ <<pending.file, pending.name>> = Key(pos)
                         THEN Longer(pending, Rec(pos)) ELSE pending
    PROVE  WalkInv'
<1>0. Total \in Nat /\ vol \in Volumes /\ pos \in 1..Total /\ pos - 1 \in 0..Total
  BY WalkHere
<1>1. TreeUpTo[pos] = TreeUpTo[pos - 1]
  BY <1>0, TreeRests
<1>2. /\ TreeUpTo' = TreeUpTo /\ Heads' = Heads /\ pos' - 1 = pos
      /\ \A i : Rec(i)' = Rec(i) /\ Grown(i)' = Grown(i)
  BY <1>0, VolStays
<1>3. CASE pending = None
  BY <1>1, <1>2, <1>3 DEF WalkInv, None
<1>4. CASE pending # None
  <2>1. PICK i \in Heads : /\ i < pos /\ Rec(i).type = "fork" /\ pending = Grown(i)[pos - 1]
                           /\ out = TreeUpTo[i - 1] /\ TreeUpTo[pos - 1] = TreeUpTo[i]
    BY <1>4 DEF WalkInv
  <2>2. i \in Recs /\ i \in 1..Total /\ pos \in (i + 1)..Total /\ pos \in 0..Total
    BY <1>0, <2>1, HeadTypes
  <2>3. <<pending.file, pending.name>> = Key(i)
    BY <1>0, <2>1, <2>2, GrownFields DEF Key
  <2>4. pending' = Grown(i)[pos]
    <3>1. Grown(i)[pos] = IF Extends(pos, i) THEN Longer(Grown(i)[pos - 1], Rec(pos)) ELSE Grown(i)[pos - 1]
      BY <1>0, <2>2, GrownUnfold
    <3>. QED BY <1>4, <2>1, <2>3, <3>1 DEF Extends
  <2>5. pending' # None
    BY <1>0, <2>2, <2>4, GrownFields
  <2>6. i < pos'
    BY <1>2, <2>1, <2>2, <1>0
  <2>7. pending' # None' /\ out' = TreeUpTo[i - 1] /\ TreeUpTo[pos] = TreeUpTo[i]
    BY <1>1, <2>1, <2>5 DEF None
  <2>. QED BY <1>2, <2>1, <2>4, <2>6, <2>7 DEF WalkInv
<1>. QED BY <1>3, <1>4

LEMMA WalkRecordStep == ASSUME CallInv, WalkRecord PROVE CallInv'
<1>. DEFINE r == Rec(pos)
<1>0. /\ CallTypes /\ phase = "walk" /\ More /\ UNCHANGED <<vol, faults>> /\ This = r
      /\ pos \in Recs /\ pos \in 1..Total /\ Total \in Nat /\ vol \in Volumes /\ pos \in 0..Total /\ pos - 1 \in 0..Total
      /\ IsRecord(r)
  <2>1. CallTypes /\ phase = "walk" /\ More /\ UNCHANGED <<vol, faults>>
    BY DEF WalkRecord, CallInv
  <2>2. Here = pos /\ pos \in Recs /\ pos \in 1..Total /\ Total \in Nat /\ vol \in Volumes
    BY <2>1, WalkHere
  <2>. QED BY <2>1, <2>2, VolTypes DEF This, Rec
<1>1. WellKeyed => WalkInv
  BY DEF CallInv
<1>2. WellKeyed => (r.type \in {"inline", "fork"} => pos \in Heads /\ ~r.short)
  BY <1>0 DEF WellKeyed, Heads
<1>3. \A q, o : Walked(q, o) => pending' = q /\ out' = o /\ phase' = phase /\ pos' = pos + 1
  BY <1>0, WalkHere DEF Walked
<1>. HIDE DEF r
<1>4. CASE r.type = "inline"
  <2>. DEFINE o == IF r.short THEN Flushed ELSE Append(Flushed, Inline(r))
  <2>1. Walked(None, o) \/ Reply("stopped", o, None)
    BY <1>0, <1>4 DEF WalkRecord
  <2>2. WellKeyed => o = TreeUpTo[pos]
    <3> SUFFICES ASSUME WellKeyed PROVE o = TreeUpTo[pos]
      OBVIOUS
    <3>1. pos \in Heads /\ ~r.short
      BY <1>2, <1>4
    <3>2. Flushed = TreeUpTo[pos - 1]
      BY <1>0, <1>1, <3>1, FlushedRight
    <3>3. Inline(r) = Whole(pos)
      BY <1>4 DEF Inline, InlineSize, Whole, r
    <3>4. TreeUpTo[pos] = Append(TreeUpTo[pos - 1], Whole(pos))
      BY <1>0, <3>1, TreeUnfold
    <3>. QED BY <3>1, <3>2, <3>3, <3>4
  <2>. HIDE DEF o
  <2>3. CASE Walked(None, o)
    <3>1. WellKeyed => WalkInv'
      <4> SUFFICES ASSUME WellKeyed PROVE WalkInv'
        OBVIOUS
      <4>1. TreeUpTo' = TreeUpTo /\ pos' - 1 = pos
        BY <1>0, <1>3, <2>3, VolStays
      <4>. QED BY <1>3, <2>2, <2>3, <4>1 DEF WalkInv, None
    <3>. QED BY <1>0, <2>3, <3>1, WalkedStep
  <2>4. CASE Reply("stopped", o, None)
    BY <1>0, <2>2, <2>4, StoppedStep
  <2>. QED BY <2>1, <2>3, <2>4
<1>5. CASE r.type = "fork"
  <2>. DEFINE q == IF r.short THEN None ELSE Fork(r)
  <2>1. Walked(q, Flushed) \/ Reply("stopped", Flushed, None)
    BY <1>0, <1>5 DEF WalkRecord
  <2>2. WellKeyed => Flushed = TreeUpTo[pos - 1]
    BY <1>0, <1>1, <1>2, <1>5, FlushedRight
  <2>3. WellKeyed => pos \in Heads /\ q = Grown(pos)[pos] /\ q # None
    <3>1. pos \in 0..pos
      BY <1>0
    <3>2. Grown(pos)[pos] = Forked(pos)
      BY <1>0, <3>1, GrownUnfold
    <3>3. Grown(pos)[pos] # None
      BY <1>0, GrownFields
    <3>. QED BY <1>2, <1>5, <3>2, <3>3 DEF Forked, Fork, r
  <2>. HIDE DEF q
  <2>4. CASE Walked(q, Flushed)
    <3>1. WellKeyed => WalkInv'
      <4> SUFFICES ASSUME WellKeyed PROVE WalkInv'
        OBVIOUS
      <4>1. /\ TreeUpTo' = TreeUpTo /\ pos' - 1 = pos /\ Heads' = Heads /\ pos < pos'
            /\ \A i : Rec(i)' = Rec(i) /\ Grown(i)' = Grown(i)
        BY <1>0, <1>3, <2>4, VolStays
      <4>2. pending' = Grown(pos)[pos] /\ pending' # None' /\ out' = TreeUpTo[pos - 1] /\ phase' = "walk"
        BY <1>0, <1>3, <2>2, <2>3, <2>4 DEF None
      <4>3. pos \in Heads /\ Rec(pos).type = "fork"
        BY <1>5, <2>3 DEF r
      <4>. QED BY <4>1, <4>2, <4>3 DEF WalkInv
    <3>. QED BY <1>0, <2>4, <3>1, WalkedStep
  <2>5. CASE Reply("stopped", Flushed, None)
    BY <1>0, <2>2, <2>5, StoppedStep
  <2>. QED BY <2>1, <2>4, <2>5
<1>6. CASE r.type \notin {"inline", "fork"}
  <2>. DEFINE q == IF r.type = "extension" /\ ~r.short /\ pending # None /\ <<pending.file, pending.name>> = <<r.file, r.name>>
                   THEN Longer(pending, r) ELSE pending
  <2>1. Walked(q, out)
    <3>1. CASE r.type = "extension"
      BY <1>0, <3>1 DEF WalkRecord, IsRecord
    <3>2. CASE r.type # "extension"
      BY <1>0, <1>6, <3>2 DEF WalkRecord
    <3>. QED BY <3>1, <3>2
  <2>2. pos \notin Heads
    BY <1>6 DEF Heads, r
  <2>3. WellKeyed => WalkInv'
    <3> SUFFICES ASSUME WellKeyed PROVE WalkInv'
      OBVIOUS
    <3>1. pending' = q /\ out' = out /\ phase' = phase /\ pos' = pos + 1
      BY <1>3, <2>1
    <3>2. pending = None => pending' = None
      BY <3>1
    <3>3. pending # None =>
              pending' = IF Rec(pos).type = "extension" /\ ~Rec(pos).short /\ <<pending.file, pending.name>> = Key(pos)
                         THEN Longer(pending, Rec(pos)) ELSE pending
      BY <3>1 DEF Key, r
    <3>. QED BY <1>0, <1>1, <2>2, <3>1, <3>2, <3>3, HoldsBack
  <2>. QED BY <1>0, <2>1, <2>3, WalkedStep
<1>. QED BY <1>4, <1>5, <1>6

LEMMA WalkEndStep == ASSUME CallInv, WalkEnd PROVE CallInv'
<1>0. CallTypes /\ phase = "walk" /\ ~More /\ UNCHANGED <<vol, faults>> /\ call.kind = "walk"
      /\ Reply("ok", Flushed, None) /\ (WellKeyed => WalkInv)
  BY DEF WalkEnd, CallInv, CallTypes
<1>1. WellKeyed => Flushed = InTree
  <2>1. pos - 1 = Total /\ InTree = TreeUpTo[Total]
    BY <1>0, WalkHere, TreeUnfold
  <2>. QED BY <1>0, <2>1, FlushedRight
<1>2. Good(call, "ok", Flushed, None, faults' > 0)
  BY <1>0, <1>1 DEF Good
<1>. QED BY <1>0, <1>2, ReplyStep

---------------------------------------------------------------------------
LEMMA CallInit == Init => CallInv
<1> SUFFICES ASSUME Init PROVE CallInv
  OBVIOUS
<1>1. CallTypes
  <2>1. vol \in Volumes /\ Total \in Nat
    BY VolTypes DEF Init
  <2>2. call = Idle /\ phase = "idle" /\ pos = 1 /\ table = <<>> /\ pending = None /\ out = <<>> /\ depth = 0
        /\ faults = 0
    BY DEF Init
  <2>3. 1 \in 1..(Total + 1)
    BY <2>1
  <2>. QED BY <2>1, <2>2, <2>3 DEF CallTypes
<1>2. last.call.kind = "idle" /\ phase = "idle"
  BY DEF Init, NoReply, Idle
<1>. QED BY <1>1, <1>2 DEF CallInv, ReadInv, ListInv, WalkInv, DepthInv, FoundRight, AttributesExact, ValueIsListed

LEMMA CallStepInv == ASSUME CallInv, CallStep PROVE CallInv'
BY BeginStep, AgainStep, QueryFailsStep, ListRecordStep, ListEndStep, ReadRecordStep, ReadEndStep, ExhaustedStep,
   WalkRecordStep, WalkEndStep DEF CallStep, Work

LEMMA CallStutter == ASSUME CallInv, UNCHANGED vars PROVE CallInv'
<1>0. UNCHANGED <<vol, call, phase, pos, redone, table, pending, out, depth, last, faults>>
  BY DEF vars, scan
<1>1. /\ Total' = Total /\ Recs' = Recs /\ Heads' = Heads /\ WellKeyed' = WellKeyed /\ TreeUpTo' = TreeUpTo
      /\ \A i : Rec(i)' = Rec(i) /\ Grown(i)' = Grown(i) /\ \A k : SoFar(i, k)' = SoFar(i, k)
  BY <1>0, VolStays DEF SoFar
<1>2. Own' = Own /\ Given(call)' = Given(call) /\ \A r : Matches(r)' = Matches(r)
  BY <1>0, VolStays DEF Own, Given, Matches
<1>3. CallTypes' /\ ReadInv' /\ (WellKeyed => DepthInv')
  BY <1>0, <1>1, <1>2 DEF CallInv, CallTypes, ReadInv, DepthInv
<1>4. WellKeyed => ListInv'
  BY <1>0, <1>1 DEF CallInv, ListInv
<1>5. WellKeyed => WalkInv'
  BY <1>0, <1>1 DEF CallInv, WalkInv
<1>. QED BY <1>0, <1>1, <1>3, <1>4, <1>5, LastStays DEF CallInv

LEMMA AskIsCall ==
    ASSUME NEW f, file' = f, Ask PROVE Begin([kind |-> "decmpfs", file |-> f, name |-> Decmpfs])
BY DEF Ask

LEMMA UsesCalls == ASSUME AllNext PROVE CallStep \/ UNCHANGED vars
<1>1. ASSUME NEW f, file' = f, Ask PROVE CallStep
  <2>1. [kind |-> "decmpfs", file |-> f, name |-> Decmpfs].kind \in CallKinds
    BY DEF CallKinds
  <2>. QED BY <1>1, <2>1, AskIsCall DEF CallStep
<1>2. CASE \E f \in DOMAIN vol.files : OpenContents(f)
  BY <1>1, <1>2 DEF OpenContents
<1>3. CASE Hydrate
  BY <1>1, <1>3 DEF Hydrate
<1>4. CASE Find \/ Look \/ ReadFork \/ DecodeInline \/ DecodeChunk \/ DecodeEnd
  BY <1>4 DEF Find, Look, ReadFork, DecodeInline, DecodeChunk, DecodeEnd
<1>5. CASE \E s \in Scopes, c \in Codecs \union {NoCodec} : Register(s, c)
  BY <1>5 DEF Register
<1>6. CASE UseAttributes
  BY <1>6, XAttrsAssumption DEF UseAttributes, Call, CallStep, CallKinds
<1>. QED BY <1>2, <1>3, <1>4, <1>5, <1>6 DEF AllNext, OpenFile

LEMMA CallInvariant == AllSpec => []CallInv
<1>1. AllInit => CallInv
  BY CallInit DEF AllInit
<1>2. ASSUME CallInv, [AllNext]_allVars PROVE CallInv'
  BY <1>2, UsesCalls, CallStepInv, CallStutter DEF allVars
<1>. QED BY <1>1, <1>2, PTL DEF AllSpec

\* Of a listing and of a walk, whatever query degrades or fails (ListXAttrs and
\* WalkXAttrs, xattr.go:77-164, 283-357).
THEOREM AttributesAreExact == AllSpec => []AttributesExact
<1>1. CallInv => AttributesExact
  BY DEF CallInv
<1>. QED BY CallInvariant, <1>1, PTL

\* Of ReadXAttr and OpenXAttr, which call one another (xattr.go:195-276).
THEOREM ValuesAreListed == AllSpec => []ValueIsListed
<1>1. CallInv => ValueIsListed
  BY DEF CallInv
<1>. QED BY CallInvariant, <1>1, PTL

---------------------------------------------------------------------------
(* Opening a compressed file. *)

DecmpfsOf(f) == [kind |-> "decmpfs", file |-> f, name |-> Decmpfs]

\* The codec in use reads what the header's form is.
CodecFits == \/ codec = header.form /\ header.form \in BuiltIn
             \/ codec \in Codecs /\ header.form \notin BuiltIn

\* The first n bytes of contents, by a codec.
BytesBy(c, content, n) == [i \in 1..n |-> <<c, content[i]>>]

\* The attribute that was found is the one on the volume, both times; of a sound
\* file the chunks decoded so far are the contents as far as they reach.
OpeningInv ==
    /\ stage \in {"idle", "hydrate", "find", "volume", "global", "fork", "decode"}
    /\ stage # "idle" => file \in DOMAIN vol.files
    /\ stage \in {"hydrate", "find"} =>
          call = DecmpfsOf(file) \/ (call = Idle /\ last.call = DecmpfsOf(file))
    /\ stage \in {"volume", "global", "fork", "decode"} =>
          PackedIn(vol, file) # {} /\ header = Packed(vol, file)
    /\ stage \in {"volume", "global"} => header.form \notin BuiltIn
    /\ record.compressed => PackedIn(vol, file) # {} /\ record.size = Packed(vol, file).size
    /\ stage \in {"fork", "decode"} => CodecFits
    /\ stage = "fork" => header.fork
    /\ stage # "decode" => chunk = 0 /\ data = <<>>

ChunksInv ==
    stage = "decode" /\ header.fork /\ vol.files[file].sound =>
        /\ chunk \in 0..Chunks(header.size)
        /\ data = BytesBy(codec, vol.files[file].content, Min({chunk * ChunkSize, header.size}))

ContentsInv == CallInv /\ CodecInv /\ OpeningInv /\ ChunksInv /\ ContentsExact

---------------------------------------------------------------------------
(* Numbers. *)

LEMMA LesserOf ==
    ASSUME NEW a \in Int, NEW b \in Int
    PROVE  Min({a, b}) = IF a <= b THEN a ELSE b
<1> DEFINE m == IF a <= b THEN a ELSE b
<1>1. m \in {a, b} /\ \A y \in {a, b} : m <= y
  OBVIOUS
<1>2. \A x \in {a, b} : (\A y \in {a, b} : x <= y) => x = m
  OBVIOUS
<1>. QED BY <1>1, <1>2 DEF Min

LEMMA NextChunk == ASSUME NEW a \in Nat, NEW b \in Nat PROVE (a + 1) * b = a * b + b /\ b * (a + 1) = a * b + b /\ b * a = a * b /\ a * b \in Nat
OBVIOUS

LEMMA ChunksCover ==
    ASSUME NEW n \in Nat
    PROVE  Chunks(n) \in Nat /\ Chunks(n) * ChunkSize >= n
<1>1. ChunkSize \in Nat /\ ChunkSize > 0
  BY DecmpfsAssumption
<1>. QED BY <1>1 DEF Chunks

LEMMA SoundFile ==
    ASSUME vol \in Volumes, NEW f \in DOMAIN vol.files, vol.files[f].sound
    PROVE  /\ vol.based /\ PackedIn(vol, f) # {} /\ vol.files[f].content \in Seq(Nat)
           /\ Packed(vol, f).size = Len(vol.files[f].content) /\ Packed(vol, f).size \in Nat
           /\ Packed(vol, f).fork =>
                 /\ vol.files[f].rsrc.size > 0 /\ TableGood(vol.files[f].rsrc, Packed(vol, f).size)
                 /\ \A i \in 1..Chunks(Packed(vol, f).size) :
                       Holds(vol.files[f].rsrc.chunks[i], Packed(vol, f),
                             SubSeq(vol.files[f].content, ChunkSize * (i - 1) + 1,
                                    Min({ChunkSize * i, Len(vol.files[f].content)})))
           /\ ~Packed(vol, f).fork => Holds(Packed(vol, f).raw, Packed(vol, f), vol.files[f].content)
<1>1. vol.files[f].content \in Seq(Nat) /\ Written(vol, f)
  BY SoundAssumption
<1>2. Len(vol.files[f].content) \in Nat
  BY <1>1
<1>. QED BY <1>1, <1>2 DEF Written

\* The call that a step of XAttrs makes progress with.
LEMMA WorkKeeps ==
    ASSUME CallTypes, Work
    PROVE  /\ UNCHANGED vol /\ faults' \in Nat /\ faults' >= faults /\ call # Idle
           /\ UNCHANGED call \/ (call' = Idle /\ last'.call = call)
<1>0. faults \in Nat /\ (phase = "idle" <=> call = Idle)
  BY DEF CallTypes
<1>1. phase \in {"list", "read", "walk"}
  BY DEF Work, Again, QueryFails, ListRecord, ListEnd, ReadRecord, ReadEnd, Exhausted, WalkRecord, WalkEnd
<1>2. UNCHANGED vol
  BY DEF Work, Again, QueryFails, ListRecord, ListEnd, ReadRecord, ReadEnd, Exhausted, WalkRecord, WalkEnd
<1>3. UNCHANGED faults \/ faults' = faults + 1
  BY DEF Work, Again, QueryFails, ListRecord, ListEnd, ReadRecord, ReadEnd, Exhausted, WalkRecord, WalkEnd, Fault
<1>4. ASSUME NEW err, NEW attrs, NEW value, Reply(err, attrs, value) PROVE call' = Idle /\ last'.call = call
  BY <1>4 DEF Reply
<1>5. ASSUME NEW err, Error(err) PROVE call' = Idle /\ last'.call = call
  BY <1>4, <1>5 DEF Error
<1>6. ASSUME NEW p, Deeper(p) PROVE UNCHANGED call
  BY <1>6 DEF Deeper, Query
<1>7. ASSUME NEW p, NEW o, Walked(p, o) PROVE UNCHANGED call
  BY <1>7 DEF Walked
<1>8. UNCHANGED call \/ (call' = Idle /\ last'.call = call)
  <2>1. CASE Again \/ ListRecord
    BY <2>1 DEF Again, ListRecord
  <2>2. CASE QueryFails
    BY <2>2, <1>5 DEF QueryFails
  <2>3. CASE ListEnd
    <3>1. CASE call.kind = "list"
      BY <1>4, <2>3, <3>1 DEF ListEnd
    <3>2. CASE call.kind # "list" /\ Lookup = None
      BY <1>5, <2>3, <3>2 DEF ListEnd, None
    <3>3. CASE call.kind # "list" /\ Lookup # None /\ Lookup.storage = "inline"
      BY <1>6, <2>3, <3>3 DEF ListEnd
    <3>4. CASE call.kind # "list" /\ Lookup # None /\ Lookup.storage # "inline"
      BY <1>4, <1>5, <2>3, <3>4 DEF ListEnd
    <3>. QED BY <3>1, <3>2, <3>3, <3>4
  <2>4. CASE ReadRecord
    BY <1>4, <1>5, <2>4 DEF ReadRecord
  <2>5. CASE ReadEnd
    BY <1>5, <1>6, <2>5 DEF ReadEnd
  <2>6. CASE Exhausted
    BY <1>5, <2>6 DEF Exhausted
  <2>7. CASE WalkRecord
    <3>1. CASE This.type = "inline"
      BY <1>4, <1>7, <2>7, <3>1 DEF WalkRecord
    <3>2. CASE This.type = "fork"
      BY <1>4, <1>7, <2>7, <3>2 DEF WalkRecord
    <3>3. CASE This.type = "extension"
      BY <1>7, <2>7, <3>3 DEF WalkRecord
    <3>4. CASE This.type \notin {"inline", "fork", "extension"}
      BY <1>7, <2>7, <3>4 DEF WalkRecord
    <3>. QED BY <3>1, <3>2, <3>3, <3>4
  <2>8. CASE WalkEnd
    BY <1>4, <2>8 DEF WalkEnd
  <2>. QED BY <2>1, <2>2, <2>3, <2>4, <2>5, <2>6, <2>7, <2>8 DEF Work
<1>. QED BY <1>0, <1>1, <1>2, <1>3, <1>8

\* The open comes to an end.
LEMMA Ended ==
    ASSUME OpeningInv, NEW err, NEW bytes, Done(err, bytes), UNCHANGED <<vol, faults>>,
           vol.files[file].sound =>
              /\ err \notin {"corrupt", "missing", "codec"} /\ (err = "plain" => faults > 0)
              /\ err = "ok" =>
                    bytes = BytesBy(codec, vol.files[file].content, Len(vol.files[file].content)),
           vol.files[file].sound => vol.files[file].content \in Seq(Nat),
           err = "ok" /\ record.compressed =>
              Len(bytes) = record.size \/ (codec \in Codecs /\ ~Packed(vol, file).fork)
    PROVE  OpeningInv' /\ ChunksInv' /\ ContentsExact'
<1>1. /\ opened'.file = file /\ opened'.err = err /\ opened'.data = bytes /\ opened'.codec = codec
      /\ opened'.record = record
      /\ stage' = "idle" /\ record'.compressed = FALSE /\ chunk' = 0 /\ data' = <<>>
  BY DEF Done, NoContent
<1>2. OpeningInv' /\ ChunksInv'
  BY <1>1 DEF OpeningInv, ChunksInv
<1>3. ASSUME vol.files[file].sound, err = "ok"
      PROVE  bytes = [i \in DOMAIN vol.files[file].content |-> <<codec, vol.files[file].content[i]>>]
  BY <1>3 DEF BytesBy
<1>4. ContentsExact'
  BY <1>1, <1>3 DEF ContentsExact
<1>. QED BY <1>2, <1>4

\* Before the first chunk.
LEMMA NoChunks ==
    ASSUME vol \in Volumes, NEW f \in DOMAIN vol.files, vol.files[f].sound, NEW c
    PROVE  /\ 0 \in 0..Chunks(Packed(vol, f).size)
           /\ <<>> = BytesBy(c, vol.files[f].content, Min({0 * ChunkSize, Packed(vol, f).size}))
<1>1. Packed(vol, f).size \in Nat
  BY SoundFile
<1>2. Chunks(Packed(vol, f).size) \in Nat /\ 0 * ChunkSize = 0
  BY <1>1, ChunksCover, DecmpfsAssumption
<1>3. Min({0 * ChunkSize, Packed(vol, f).size}) = 0
  <2>1. 0 * ChunkSize \in Int /\ 0 * ChunkSize = 0
    BY <1>2
  <2>2. Min({0 * ChunkSize, Packed(vol, f).size})
        = IF 0 * ChunkSize <= Packed(vol, f).size THEN 0 * ChunkSize ELSE Packed(vol, f).size
    BY ONLY <1>1, <2>1, LesserOf, Packed(vol, f).size \in Int
  <2>. QED BY <1>1, <2>1, <2>2
<1>4. BytesBy(c, vol.files[f].content, 0) = <<>>
  BY DEF BytesBy
<1>. QED BY <1>2, <1>3, <1>4

\* The open goes on.
LEMMA Staged ==
    ASSUME CallTypes, OpeningInv, ContentsExact, stage \in {"find", "volume", "global", "fork"}, NEW s, Stage(s),
           UNCHANGED <<vol, faults>>, s \in {"volume", "global", "fork", "decode"},
           PackedIn(vol, file) # {}, header' = Packed(vol, file),
           s \in {"volume", "global"} => header'.form \notin BuiltIn,
           s \in {"fork", "decode"} => CodecFits',
           s = "fork" => header'.fork
    PROVE  OpeningInv' /\ ChunksInv' /\ ContentsExact'
<1>1. stage' = s /\ UNCHANGED <<file, record, data, chunk, opened>> /\ chunk = 0 /\ data = <<>>
  BY DEF Stage, OpeningInv
<1>2. OpeningInv'
  BY <1>1 DEF OpeningInv
<1>3. ChunksInv'
  <2>1. vol \in Volumes /\ file \in DOMAIN vol.files
    BY DEF CallTypes, OpeningInv
  <2>. QED BY <1>1, <2>1, NoChunks DEF ChunksInv
<1>4. ContentsExact'
  BY <1>1 DEF ContentsExact
<1>. QED BY <1>2, <1>3, <1>4

Kept == OpeningInv' /\ ChunksInv' /\ ContentsExact'

\* The question is put, and perhaps answered at once.
LEMMA Asks ==
    ASSUME NEW f, file' = f, Ask
    PROVE  /\ call' = DecmpfsOf(f) \/ (call' = Idle /\ last'.call = DecmpfsOf(f))
           /\ UNCHANGED <<vol, faults>>
<1>1. Begin(DecmpfsOf(f))
  BY AskIsCall DEF DecmpfsOf
<1>. QED BY <1>1 DEF Begin

LEMMA OpenContentsKeeps == ASSUME ContentsInv, NEW f \in DOMAIN vol.files, OpenContents(f) PROVE Kept
<1>1. /\ file' = f /\ stage' \in {"hydrate", "find"} /\ record'.compressed = FALSE /\ opened' = NoContent
      /\ UNCHANGED <<chunk, data>> /\ stage = "idle" /\ Ask
  BY DEF OpenContents
<1>2. chunk = 0 /\ data = <<>>
  BY <1>1 DEF ContentsInv, OpeningInv
<1>3. OpeningInv' /\ ChunksInv'
  BY <1>1, <1>2, Asks DEF OpeningInv, ChunksInv
<1>4. ContentsExact'
  BY <1>1 DEF ContentsExact, NoContent
<1>. QED BY <1>3, <1>4 DEF Kept

\* What was found is the attribute on the volume.
LEMMA Answered ==
    ASSUME ContentsInv, stage \in {"hydrate", "find"}, call = Idle
    PROVE  /\ last.err = "ok" => PackedIn(vol, file) # {} /\ last.value = Packed(vol, file)
           /\ last.err = "notfound" => ~vol.based \/ PackedIn(vol, file) = {} \/ faults > 0
<1>1. call # DecmpfsOf(file)
  BY DEF Idle, DecmpfsOf
<1>2. last.call = DecmpfsOf(file)
  BY <1>1 DEF ContentsInv, OpeningInv
<1>3. last.call.kind = "decmpfs" /\ last.call.file = file
  BY <1>2 DEF DecmpfsOf
<1>. QED BY <1>3 DEF ContentsInv, CallInv, FoundRight

LEMMA HydrateKeeps == ASSUME ContentsInv, Hydrate PROVE Kept
<1>1. /\ stage = "hydrate" /\ call = Idle /\ stage' = "find" /\ file' = file /\ Ask
      /\ record' = IF last.err = "ok" THEN [size |-> last.value.size, compressed |-> TRUE] ELSE record
      /\ UNCHANGED <<header, codec, chunk, data, opened>>
  BY DEF Hydrate
<1>2. UNCHANGED <<vol, faults>> /\ (call' = DecmpfsOf(file) \/ (call' = Idle /\ last'.call = DecmpfsOf(file)))
  BY <1>1, Asks
<1>3. record'.compressed => PackedIn(vol, file) # {} /\ record'.size = Packed(vol, file).size
  <2>1. CASE last.err = "ok"
    BY <1>1, <2>1, Answered
  <2>2. CASE last.err # "ok"
    BY <1>1, <2>2 DEF ContentsInv, OpeningInv
  <2>. QED BY <2>1, <2>2
<1>4. OpeningInv' /\ ChunksInv'
  BY <1>1, <1>2, <1>3 DEF ContentsInv, OpeningInv, ChunksInv
<1>5. ContentsExact'
  BY <1>1, <1>2 DEF ContentsInv, ContentsExact
<1>. QED BY <1>4, <1>5 DEF Kept

LEMMA FindKeeps == ASSUME ContentsInv, Find PROVE Kept
<1>0. /\ stage = "find" /\ call = Idle /\ UNCHANGED <<vol, faults>> /\ CallTypes /\ OpeningInv /\ ContentsExact
      /\ file \in DOMAIN vol.files /\ vol \in Volumes
  BY DEF Find, vars, ContentsInv, CallInv, CallTypes, OpeningInv
<1>1. CASE last.err = "notfound" /\ Done("plain", <<>>)
  <2>1. vol.files[file].sound => faults > 0
    BY <1>0, <1>1, Answered, SoundFile
  <2>2. vol.files[file].sound => vol.files[file].content \in Seq(Nat)
    BY <1>0, SoundFile
  <2>. QED BY <1>0, <1>1, <2>1, <2>2, Ended DEF Kept
<1>2. CASE Done("limit", <<>>) \/ Done("failed", <<>>)
  <2>2. vol.files[file].sound => vol.files[file].content \in Seq(Nat)
    BY <1>0, SoundFile
  <2>3. CASE Done("limit", <<>>)
    BY <1>0, <2>2, <2>3, Ended DEF Kept
  <2>4. CASE Done("failed", <<>>)
    BY <1>0, <2>2, <2>4, Ended DEF Kept
  <2>. QED BY <1>2, <2>3, <2>4
<1>3. CASE last.err = "ok" /\ header' = last.value /\ last.value.form \in BuiltIn
           /\ codec' = last.value.form /\ Stage(Payload)
  <2>1. PackedIn(vol, file) # {} /\ header' = Packed(vol, file)
    BY <1>0, <1>3, Answered
  <2>2. Payload \in {"fork", "decode"} /\ (Payload = "fork" => header'.fork)
    BY DEF Payload
  <2>3. CodecFits'
    BY <1>3 DEF CodecFits
  <2>. QED BY <1>0, <1>3, <2>1, <2>2, <2>3, Staged DEF Kept
<1>4. CASE last.err = "ok" /\ header' = last.value /\ last.value.form \notin BuiltIn /\ Stage("volume")
  <2>1. PackedIn(vol, file) # {} /\ header' = Packed(vol, file)
    BY <1>0, <1>4, Answered
  <2>2. header'.form \notin BuiltIn
    BY <1>4 DEF BuiltIn
  <2>. QED BY <1>0, <1>4, <2>1, <2>2, Staged DEF Kept
<1>. QED BY <1>1, <1>2, <1>3, <1>4 DEF Find

LEMMA LookKeeps == ASSUME ContentsInv, Look PROVE Kept
<1>0. /\ stage \in {"volume", "global"} /\ UNCHANGED <<vol, faults>> /\ CallTypes /\ OpeningInv /\ ContentsExact
      /\ file \in DOMAIN vol.files /\ vol \in Volumes
      /\ PackedIn(vol, file) # {} /\ header = Packed(vol, file) /\ header.form \notin BuiltIn
  BY DEF Look, vars, ContentsInv, CallInv, CallTypes, OpeningInv, Scopes
<1>1. CASE codecs[Asked] # NoCodec /\ codec' = codecs[Asked] /\ UNCHANGED header /\ Stage(Payload)
  <2>1. Asked \in Scopes
    BY <1>0 DEF Asked, FirstScope, Scopes
  <2>2. codec' \in Codecs
    BY <1>1, <2>1 DEF ContentsInv, CodecInv
  <2>3. Payload \in {"fork", "decode"} /\ (Payload = "fork" => header'.fork)
    BY DEF Payload
  <2>4. CodecFits'
    BY <1>0, <1>1, <2>2 DEF CodecFits, BuiltIn
  <2>. QED BY <1>0, <1>1, <2>3, <2>4, Staged DEF Kept
<1>2. CASE Stage("global") /\ UNCHANGED <<codec, header>>
  BY <1>0, <1>2, Staged DEF Kept, BuiltIn
<1>3. CASE Done("unsupported", <<>>)
  <2>1. vol.files[file].sound => vol.files[file].content \in Seq(Nat)
    BY <1>0, SoundFile
  <2>. QED BY <1>0, <1>3, <2>1, Ended DEF Kept
<1>. QED BY <1>1, <1>2, <1>3 DEF Look

LEMMA ReadForkKeeps == ASSUME ContentsInv, ReadFork PROVE Kept
<1>0. /\ stage = "fork" /\ UNCHANGED <<vol, faults>> /\ CallTypes /\ OpeningInv /\ ContentsExact
      /\ file \in DOMAIN vol.files /\ vol \in Volumes
      /\ PackedIn(vol, file) # {} /\ header = Packed(vol, file) /\ header.fork /\ CodecFits
  BY DEF ReadFork, vars, ContentsInv, CallInv, CallTypes, OpeningInv
<1>1. vol.files[file].sound =>
        /\ vol.files[file].content \in Seq(Nat)
        /\ vol.files[file].rsrc.size # 0 /\ TableGood(vol.files[file].rsrc, header.size)
  BY <1>0, SoundFile
<1>2. CASE vol.files[file].rsrc.size = 0 /\ Done("missing", <<>>)
  BY <1>0, <1>1, <1>2, Ended DEF Kept
<1>3. CASE Done("limit", <<>>)
  BY <1>0, <1>1, <1>3, Ended DEF Kept
<1>4. CASE ~TableGood(vol.files[file].rsrc, header.size) /\ Done("corrupt", <<>>)
  BY <1>0, <1>1, <1>4, Ended DEF Kept
<1>5. CASE Stage("decode") /\ UNCHANGED <<header, codec>>
  <2>1. CodecFits'
    BY <1>0, <1>5 DEF CodecFits, BuiltIn
  <2>. QED BY <1>0, <1>5, <2>1, Staged DEF Kept
<1>6. CASE Done("failed", <<>>)
  BY <1>0, <1>1, <1>6, Ended DEF Kept
<1>. QED BY <1>2, <1>3, <1>4, <1>5, <1>6 DEF ReadFork

LEMMA SameReads == ASSUME CodecFits PROVE Reads(codec) = Reads(header.form)
<1>1. CASE codec = header.form
  BY <1>1
<1>2. CASE codec \in Codecs /\ header.form \notin BuiltIn
  <2>1. codec \notin {"raw", "zlib"} /\ header.form \notin {"raw", "zlib"}
    BY <1>2, DecmpfsAssumption DEF BuiltIn
  <2>2. Reads(codec) = {"lz"} /\ Reads(header.form) = {"lz"}
    BY <2>1 DEF Reads
  <2>. QED BY <2>2
<1>. QED BY <1>1, <1>2 DEF CodecFits

\* A stream that holds the bytes is decoded to them.
LEMMA DecodesTo ==
    ASSUME CodecFits, NEW stream, NEW bytes \in Seq(Nat), Holds(stream, header, bytes), NEW want \in Int
    PROVE  /\ Decoded(stream, want) # Outside
           /\ Decoded(stream, want).bytes = BytesBy(codec, bytes, Min({want, Len(bytes)}))
<1>1. stream.form \in Reads(codec) /\ stream.bytes = bytes
  BY SameReads DEF Holds
<1>2. Decoded(stream, want)
      = [form |-> "contents", bytes |-> [i \in 1..Min({want, Len(bytes)}) |-> <<codec, bytes[i]>>]]
  BY <1>1 DEF Decoded
<1>3. Decoded(stream, want).form = "contents" /\ Outside.form = "outside"
  BY <1>2 DEF Outside
<1>. QED BY <1>2, <1>3 DEF BytesBy

\* Where decoding stands.
LEMMA Decoding ==
    ASSUME ContentsInv, stage = "decode"
    PROVE  /\ CallTypes /\ OpeningInv /\ ContentsExact /\ file \in DOMAIN vol.files /\ vol \in Volumes
           /\ PackedIn(vol, file) # {} /\ header = Packed(vol, file) /\ CodecFits
           /\ vol.files[file].sound => vol.files[file].content \in Seq(Nat)
           /\ vol.files[file].sound =>
                 header.size = Len(vol.files[file].content) /\ header.size \in Nat
           /\ record.compressed => record.size = header.size
<1>1. /\ CallTypes /\ OpeningInv /\ ContentsExact /\ file \in DOMAIN vol.files /\ vol \in Volumes
      /\ PackedIn(vol, file) # {} /\ header = Packed(vol, file) /\ CodecFits
  BY DEF ContentsInv, CallInv, CallTypes, OpeningInv
<1>2. record.compressed => record.size = header.size
  BY <1>1 DEF OpeningInv
<1>. QED BY <1>1, <1>2, SoundFile

LEMMA DecodeInlineKeeps == ASSUME ContentsInv, DecodeInline PROVE Kept
<1>0. stage = "decode" /\ ~header.fork /\ UNCHANGED <<vol, faults>>
  BY DEF DecodeInline, vars
<1>1. /\ CallTypes /\ OpeningInv /\ file \in DOMAIN vol.files /\ vol \in Volumes
      /\ header = Packed(vol, file) /\ CodecFits
      /\ vol.files[file].sound => vol.files[file].content \in Seq(Nat)
      /\ vol.files[file].sound => header.size = Len(vol.files[file].content) /\ header.size \in Nat
      /\ record.compressed => record.size = header.size
  BY <1>0, Decoding
<1> DEFINE all == Decoded(header.raw, header.size)
           whole == BytesBy(codec, vol.files[file].content, Len(vol.files[file].content))
<1>2. vol.files[file].sound => all # Outside /\ all.bytes = whole /\ Len(all.bytes) = header.size
  <2> SUFFICES ASSUME vol.files[file].sound PROVE all # Outside /\ all.bytes = whole /\ Len(all.bytes) = header.size
    OBVIOUS
  <2>1. Holds(header.raw, header, vol.files[file].content)
    BY <1>0, <1>1, SoundFile
  <2>2. all # Outside
        /\ all.bytes = BytesBy(codec, vol.files[file].content, Min({header.size, Len(vol.files[file].content)}))
    BY <1>1, <2>1, DecodesTo
  <2>3. Min({header.size, Len(vol.files[file].content)}) = Len(vol.files[file].content)
    BY <1>1, LesserOf
  <2>4. all.bytes = whole
    BY <2>2, <2>3
  <2>5. Len(whole) = Len(vol.files[file].content)
    BY <1>1 DEF BytesBy
  <2>. QED BY <1>1, <2>2, <2>4, <2>5
<1> HIDE DEF all, whole
<1>3. IF all = Outside THEN Done(IF codec \in Codecs THEN "codec" ELSE "corrupt", <<>>)
      ELSE IF codec \notin Codecs /\ Len(all.bytes) # header.size THEN Done("corrupt", <<>>)
      ELSE Done("ok", all.bytes)
  BY DEF DecodeInline, all
<1>4. CASE all = Outside
  <2>1. PICK e \in {"codec", "corrupt"} : Done(e, <<>>)
    BY <1>3, <1>4
  <2>. QED BY <1>0, <1>1, <1>2, <1>4, <2>1, Ended DEF Kept
<1>5. CASE all # Outside /\ codec \notin Codecs /\ Len(all.bytes) # header.size
  <2>1. Done("corrupt", <<>>)
    BY <1>3, <1>5
  <2>. QED BY <1>0, <1>1, <1>2, <1>5, <2>1, Ended DEF Kept
<1>6. CASE all # Outside /\ ~(codec \notin Codecs /\ Len(all.bytes) # header.size)
  <2>1. Done("ok", all.bytes)
    BY <1>3, <1>6
  <2>2. record.compressed => Len(all.bytes) = record.size \/ (codec \in Codecs /\ ~Packed(vol, file).fork)
    BY <1>0, <1>1, <1>6
  <2>3. vol.files[file].sound =>
           all.bytes = BytesBy(codec, vol.files[file].content, Len(vol.files[file].content))
    BY <1>2 DEF whole
  <2>. QED BY <1>0, <1>1, <2>1, <2>2, <2>3, Ended DEF Kept
<1>. QED BY <1>4, <1>5, <1>6

LEMMA DecodeEndKeeps == ASSUME ContentsInv, DecodeEnd PROVE Kept
<1>0. /\ stage = "decode" /\ header.fork /\ UNCHANGED <<vol, faults>> /\ (chunk = Chunks(header.size) \/ Want <= 0)
      /\ IF Len(data) = header.size THEN Done("ok", data) ELSE Done("corrupt", <<>>)
  BY DEF DecodeEnd, vars
<1>1. /\ CallTypes /\ OpeningInv /\ file \in DOMAIN vol.files /\ vol \in Volumes
      /\ header = Packed(vol, file) /\ CodecFits
      /\ vol.files[file].sound => vol.files[file].content \in Seq(Nat)
      /\ vol.files[file].sound => header.size = Len(vol.files[file].content) /\ header.size \in Nat
      /\ record.compressed => record.size = header.size
  BY <1>0, Decoding
<1>2. ASSUME vol.files[file].sound
      PROVE  /\ Len(data) = header.size
             /\ data = BytesBy(codec, vol.files[file].content, Len(vol.files[file].content))
  <2> DEFINE m == Min({chunk * ChunkSize, header.size})
  <2>1. chunk \in 0..Chunks(header.size) /\ data = BytesBy(codec, vol.files[file].content, m)
    BY <1>0, <1>2 DEF ContentsInv, ChunksInv
  <2>2. header.size \in Nat /\ Chunks(header.size) \in Nat /\ Chunks(header.size) * ChunkSize >= header.size
        /\ ChunkSize \in Nat /\ ChunkSize > 0
    <3>1. header.size \in Nat
      BY <1>1, <1>2
    <3>2. ChunkSize \in Nat /\ ChunkSize > 0
      BY DecmpfsAssumption
    <3>. QED BY ONLY <3>1, <3>2, ChunksCover
  <2>3. chunk \in Nat /\ chunk * ChunkSize \in Nat
    BY <2>1, <2>2
  <2>4. m = IF chunk * ChunkSize <= header.size THEN chunk * ChunkSize ELSE header.size
    BY <2>2, <2>3, LesserOf
  <2>5. m \in Nat /\ m <= header.size
    BY <2>2, <2>3, <2>4
  <2> HIDE DEF m
  <2>6. Len(data) = m
    BY <2>1, <2>5 DEF BytesBy
  <2>7. m = header.size
    <3>1. CASE chunk = Chunks(header.size)
      BY <2>2, <2>3, <2>4, <3>1
    <3>2. CASE Want <= 0
      <4>1. Want = IF ChunkSize <= header.size - m THEN ChunkSize ELSE header.size - m
        BY <2>2, <2>5, <2>6, LesserOf DEF Want
      <4>. QED BY <2>2, <2>5, <3>2, <4>1
    <3>. QED BY <1>0, <3>1, <3>2
  <2>. QED BY <1>1, <1>2, <2>1, <2>6, <2>7
<1>3. CASE Len(data) = header.size
  BY <1>0, <1>1, <1>2, <1>3, Ended DEF Kept
<1>4. CASE Len(data) # header.size
  BY <1>0, <1>1, <1>2, <1>4, Ended DEF Kept
<1>. QED BY <1>3, <1>4

ByteOf(c) == {<<c, b>> : b \in Nat}

LEMMA BytesAre ==
    ASSUME NEW c, NEW content \in Seq(Nat), NEW n \in Nat, n <= Len(content)
    PROVE  LET x == BytesBy(c, content, n) IN
           x \in Seq(ByteOf(c)) /\ Len(x) = n /\ \A i \in 1..n : x[i] = <<c, content[i]>>
<1>1. \A i \in 1..n : content[i] \in Nat
  OBVIOUS
<1>2. \A i \in 1..n : <<c, content[i]>> \in ByteOf(c)
  BY <1>1 DEF ByteOf
<1> HIDE DEF ByteOf
<1>. QED BY <1>2 DEF BytesBy

LEMMA PartOf ==
    ASSUME NEW content \in Seq(Nat), NEW a \in Nat, NEW want \in Nat, a + want <= Len(content), NEW part,
           part = SubSeq(content, a + 1, a + want)
    PROVE  part \in Seq(Nat) /\ Len(part) = want /\ \A i \in 1..want : part[i] = content[a + i]
<1>1. \A i \in (a + 1)..(a + want) : content[i] \in Nat
  OBVIOUS
<1>2. /\ part \in Seq(Nat)
      /\ Len(part) = IF a + 1 <= a + want THEN (a + want) - (a + 1) + 1 ELSE 0
      /\ \A i \in 1..((a + want) - (a + 1) + 1) : part[i] = content[(a + 1) + i - 1]
  <2>1. a + 1 \in Int /\ a + want \in Int
    OBVIOUS
  <2>. QED BY ONLY <1>1, <2>1, SubSeqProperties, part = SubSeq(content, a + 1, a + want)
<1>3. (a + want) - (a + 1) + 1 = want /\ (want = 0 \/ a + 1 <= a + want)
  OBVIOUS
<1>4. Len(part) = want
  BY ONLY <1>2, <1>3, want \in Nat, a \in Nat
<1>5. ASSUME NEW i \in 1..want PROVE part[i] = content[a + i]
  <2>1. part[i] = content[(a + 1) + i - 1]
    BY ONLY <1>2, <1>3, <1>5
  <2>2. (a + 1) + i - 1 = a + i
    OBVIOUS
  <2>. QED BY ONLY <2>1, <2>2
<1>. QED BY <1>2, <1>4, <1>5

LEMMA BytesGlued ==
    ASSUME NEW c, NEW content \in Seq(Nat), NEW a \in Nat, NEW want \in Nat, a + want <= Len(content), NEW part,
           part = SubSeq(content, a + 1, a + want)
    PROVE  BytesBy(c, content, a) \o BytesBy(c, part, want) = BytesBy(c, content, a + want)
<1>1. part \in Seq(Nat) /\ Len(part) = want /\ \A i \in 1..want : part[i] = content[a + i]
  BY PartOf
<1> DEFINE x == BytesBy(c, content, a)
           y == BytesBy(c, part, want)
           z == BytesBy(c, content, a + want)
<1>2. x \in Seq(ByteOf(c)) /\ Len(x) = a /\ \A i \in 1..a : x[i] = <<c, content[i]>>
  <2>1. a \in Nat /\ a <= Len(content) /\ content \in Seq(Nat)
    OBVIOUS
  <2>. QED BY ONLY <2>1, BytesAre
<1>3. y \in Seq(ByteOf(c)) /\ Len(y) = want /\ \A i \in 1..want : y[i] = <<c, part[i]>>
  <2>1. want <= Len(part) /\ want \in Nat /\ part \in Seq(Nat)
    BY ONLY <1>1, want \in Nat
  <2>. QED BY ONLY <2>1, BytesAre
<1>4. z \in Seq(ByteOf(c)) /\ Len(z) = a + want /\ \A i \in 1..(a + want) : z[i] = <<c, content[i]>>
  <2>1. a + want \in Nat /\ a + want <= Len(content) /\ content \in Seq(Nat)
    OBVIOUS
  <2>. QED BY ONLY <2>1, BytesAre
<1> HIDE DEF x, y, z
<1>5. /\ x \o y \in Seq(ByteOf(c)) /\ Len(x \o y) = a + want
      /\ \A i \in 1..(a + want) : (x \o y)[i] = IF i <= a THEN x[i] ELSE y[i - a]
  BY ONLY <1>2, <1>3, ConcatProperties
<1>6. ASSUME NEW i \in 1..(a + want) PROVE (x \o y)[i] = z[i]
  <2>1. (x \o y)[i] = IF i <= a THEN x[i] ELSE y[i - a]
    BY ONLY <1>5, <1>6
  <2>2. z[i] = <<c, content[i]>>
    BY ONLY <1>4, <1>6
  <2>3. CASE i <= a
    <3>1. i \in 1..a
      BY ONLY <2>3, <1>6, a \in Nat, want \in Nat
    <3>. QED BY ONLY <1>2, <2>1, <2>2, <2>3, <3>1
  <2>4. CASE ~(i <= a)
    <3>1. i - a \in 1..want /\ a + (i - a) = i
      BY ONLY <2>4, <1>6, a \in Nat, want \in Nat
    <3>2. y[i - a] = <<c, part[i - a]>>
      BY ONLY <1>3, <3>1
    <3>3. part[i - a] = content[i]
      BY ONLY <1>1, <3>1
    <3>. QED BY ONLY <2>1, <2>2, <2>4, <3>2, <3>3
  <2>. QED BY <2>3, <2>4
<1>7. Len(x \o y) = Len(z) /\ \A i \in 1..Len(x \o y) : (x \o y)[i] = z[i]
  BY ONLY <1>4, <1>5, <1>6
<1>8. x \o y = z
  BY ONLY <1>4, <1>5, <1>7, SeqEqual
<1>. QED BY <1>8 DEF x, y, z

\* One more chunk of a sound file.
LEMMA NextBytes ==
    ASSUME NEW c, NEW content \in Seq(Nat), NEW a \in Nat,
           Min({ChunkSize, Len(content) - Min({a, Len(content)})}) > 0
    PROVE  LET m    == Min({a, Len(content)})
               b    == Min({a + ChunkSize, Len(content)})
               want == Min({ChunkSize, Len(content) - m})
               part == SubSeq(content, a + 1, b)
           IN  BytesBy(c, content, m) \o BytesBy(c, part, Min({want, Len(part)})) = BytesBy(c, content, b)
<1> DEFINE n    == Len(content)
           m    == Min({a, n})
           b    == Min({a + ChunkSize, n})
           want == Min({ChunkSize, n - m})
           part == SubSeq(content, a + 1, b)
<1>0. n \in Nat /\ want > 0
  OBVIOUS
<1>1. ChunkSize \in Nat /\ ChunkSize > 0
  BY DecmpfsAssumption
<1>2. m = IF a <= n THEN a ELSE n
  BY <1>0, LesserOf
<1>3. want = IF ChunkSize <= n - m THEN ChunkSize ELSE n - m
  <2>0. m \in Int
    <3> HIDE DEF n, m
    <3>. QED BY ONLY <1>0, <1>2, a \in Nat
  <2>1. n - m \in Int /\ ChunkSize \in Int
    <3> HIDE DEF n, m
    <3>. QED BY <1>0, <1>1, <2>0
  <2>2. Min({ChunkSize, n - m}) = IF ChunkSize <= n - m THEN ChunkSize ELSE n - m
    <3> HIDE DEF n, m
    <3>. QED BY ONLY <2>1, LesserOf
  <2>. QED BY <2>2
<1>4. b = IF a + ChunkSize <= n THEN a + ChunkSize ELSE n
  <2>1. a + ChunkSize \in Int /\ n \in Int
    BY <1>0, <1>1
  <2>2. Min({a + ChunkSize, n}) = IF a + ChunkSize <= n THEN a + ChunkSize ELSE n
    BY ONLY <2>1, LesserOf
  <2>. QED BY <2>2
<1>9. part = SubSeq(content, a + 1, b) /\ n = Len(content)
  OBVIOUS
<1> HIDE DEF n, m, b, want, part
<1>5. m = a /\ b = a + want /\ a + want <= n /\ want \in Nat
  BY ONLY <1>0, <1>1, <1>2, <1>3, <1>4, a \in Nat
<1>6. a + want <= Len(content) /\ part = SubSeq(content, a + 1, a + want)
  BY <1>5, <1>9
<1>7. Len(part) = want
  BY ONLY <1>5, <1>6, a \in Nat, content \in Seq(Nat), PartOf
<1>8. Min({want, want}) = want
  <2>1. want \in Int
    BY <1>5
  <2>. QED BY ONLY <2>1, LesserOf
<1>10. BytesBy(c, content, a) \o BytesBy(c, part, want) = BytesBy(c, content, a + want)
  BY ONLY <1>5, <1>6, a \in Nat, content \in Seq(Nat), BytesGlued
<1>. QED BY <1>5, <1>7, <1>8, <1>10 DEF n, m, b, want, part

\* A chunk of a sound file adds its bytes.
LEMMA SoundChunk ==
    ASSUME ContentsInv, stage = "decode", header.fork, vol.files[file].sound, chunk < Chunks(header.size), Want > 0
    PROVE  LET one == Decoded(vol.files[file].rsrc.chunks[chunk + 1], Want)
           IN  /\ one # Outside /\ chunk + 1 \in 0..Chunks(header.size)
               /\ data \o one.bytes = BytesBy(codec, vol.files[file].content,
                                              Min({(chunk + 1) * ChunkSize, header.size}))
<1> DEFINE content == vol.files[file].content
           n == header.size
           a == chunk * ChunkSize
           m == Min({a, n})
           b == Min({a + ChunkSize, n})
           part == SubSeq(content, a + 1, b)
           stream == vol.files[file].rsrc.chunks[chunk + 1]
<1>1. /\ vol \in Volumes /\ file \in DOMAIN vol.files /\ header = Packed(vol, file) /\ CodecFits
      /\ content \in Seq(Nat) /\ n = Len(content) /\ n \in Nat
  BY Decoding
<1>2. chunk \in 0..Chunks(n) /\ data = BytesBy(codec, content, m)
  BY DEF ContentsInv, ChunksInv
<1>3. Chunks(n) \in Nat /\ ChunkSize \in Nat /\ ChunkSize > 0
  <2>1. ChunkSize \in Nat /\ ChunkSize > 0
    BY DecmpfsAssumption
  <2>. QED BY <1>1, <2>1, ChunksCover
<1>4. chunk \in Nat /\ chunk + 1 \in 1..Chunks(n) /\ chunk + 1 \in 0..Chunks(n) /\ (chunk + 1) - 1 = chunk
  BY <1>2, <1>3
<1>5. a \in Nat /\ ChunkSize * chunk = a /\ ChunkSize * (chunk + 1) = a + ChunkSize
      /\ (chunk + 1) * ChunkSize = a + ChunkSize
  BY <1>3, <1>4, NextChunk
<1>6. Holds(stream, header, part)
  <2>1. Holds(stream, header, SubSeq(content, ChunkSize * ((chunk + 1) - 1) + 1,
                                     Min({ChunkSize * (chunk + 1), Len(content)})))
    BY <1>1, <1>4, SoundFile
  <2>. QED BY <1>1, <1>4, <1>5, <2>1
<1> HIDE DEF a
<1>7. m \in Int /\ b \in Int /\ m \in Nat /\ m <= n /\ a <= a + ChunkSize /\ (b <= n) /\ b \in Nat
  <2>1. m = IF a <= n THEN a ELSE n
    BY <1>1, <1>5, LesserOf
  <2>2. b = IF a + ChunkSize <= n THEN a + ChunkSize ELSE n
    <3>1. a + ChunkSize \in Int /\ n \in Int
      BY <1>1, <1>3, <1>5
    <3>. QED BY ONLY <3>1, LesserOf
  <2> HIDE DEF m, b
  <2>. QED BY <1>1, <1>3, <1>5, <2>1, <2>2
<1>8. Len(data) = m
  <2> HIDE DEF m
  <2>. QED BY <1>2, <1>7 DEF BytesBy
<1>9. Want = Min({ChunkSize, n - m}) /\ Want \in Int
  <2>1. Want = Min({ChunkSize, n - m})
    BY <1>8 DEF Want
  <2>2. n - m \in Int /\ ChunkSize \in Int
    <3> HIDE DEF m
    <3>. QED BY <1>1, <1>3, <1>7
  <2>3. Min({ChunkSize, n - m}) = IF ChunkSize <= n - m THEN ChunkSize ELSE n - m
    BY ONLY <2>2, LesserOf
  <2>. QED BY <2>1, <2>2, <2>3
<1>10. part \in Seq(Nat)
  <2>1. \A i \in (a + 1)..b : content[i] \in Nat
    <3> HIDE DEF b, content
    <3>. QED BY <1>1, <1>5, <1>7
  <2>2. a + 1 \in Int /\ b \in Int
    BY <1>5, <1>7
  <2> HIDE DEF content, b
  <2>. QED BY ONLY <2>1, <2>2, SubSeqProperties
<1>11. /\ Decoded(stream, Want) # Outside
       /\ Decoded(stream, Want).bytes = BytesBy(codec, part, Min({Want, Len(part)}))
  <2>1. CodecFits /\ Holds(stream, header, part) /\ part \in Seq(Nat) /\ Want \in Int
    BY <1>1, <1>6, <1>9, <1>10
  <2> HIDE DEF part, stream
  <2>. QED BY ONLY <2>1, DecodesTo
<1>12. BytesBy(codec, content, m) \o BytesBy(codec, part, Min({Want, Len(part)})) = BytesBy(codec, content, b)
  <2>1. content \in Seq(Nat) /\ a \in Nat /\ n = Len(content) /\ Want = Min({ChunkSize, Len(content) - Min({a, Len(content)})})
    BY <1>1, <1>5, <1>9
  <2>2. Min({ChunkSize, Len(content) - Min({a, Len(content)})}) > 0
    BY <2>1
  <2> HIDE DEF content
  <2>3. LET mm    == Min({a, Len(content)})
            bb    == Min({a + ChunkSize, Len(content)})
            want == Min({ChunkSize, Len(content) - mm})
            pp == SubSeq(content, a + 1, bb)
        IN  BytesBy(codec, content, mm) \o BytesBy(codec, pp, Min({want, Len(pp)})) = BytesBy(codec, content, bb)
    BY ONLY <2>1, <2>2, NextBytes
  <2> HIDE DEF n
  <2>. QED BY <2>1, <2>3
<1>13. data \o Decoded(stream, Want).bytes = BytesBy(codec, content, b)
  BY <1>2, <1>11, <1>12
<1>14. b = Min({(chunk + 1) * ChunkSize, n})
  BY <1>5
<1>. QED BY <1>4, <1>11, <1>13, <1>14

LEMMA DecodeChunkKeeps == ASSUME ContentsInv, DecodeChunk PROVE Kept
<1> DEFINE one == Decoded(vol.files[file].rsrc.chunks[chunk + 1], Want)
<1>0. /\ stage = "decode" /\ header.fork /\ UNCHANGED <<vol, faults, call, last>> /\ chunk < Chunks(header.size) /\ Want > 0
      /\ IF one = Outside THEN Done("corrupt", <<>>)
         ELSE /\ data' = data \o one.bytes /\ chunk' = chunk + 1
              /\ UNCHANGED <<stage, file, record, header, codec, opened>>
  BY DEF DecodeChunk, vars
<1>1. /\ CallTypes /\ OpeningInv /\ ContentsExact /\ file \in DOMAIN vol.files /\ vol \in Volumes
      /\ CodecFits /\ vol.files[file].sound => vol.files[file].content \in Seq(Nat)
  BY <1>0, Decoding
<1>2. vol.files[file].sound =>
         /\ one # Outside /\ chunk + 1 \in 0..Chunks(header.size)
         /\ data \o one.bytes = BytesBy(codec, vol.files[file].content, Min({(chunk + 1) * ChunkSize, header.size}))
  BY <1>0, SoundChunk
<1> HIDE DEF one
<1>3. CASE one = Outside
  <2>1. Done("corrupt", <<>>)
    BY <1>0, <1>3
  <2>2. vol.files[file].sound => vol.files[file].content \in Seq(Nat)
    BY <1>0, Decoding
  <2>. QED BY <1>0, <1>1, <1>2, <1>3, <2>1, <2>2, Ended DEF Kept
<1>4. CASE one # Outside
  <2>1. data' = data \o one.bytes /\ chunk' = chunk + 1 /\ UNCHANGED <<stage, file, record, header, codec, opened>>
    BY <1>0, <1>4
  <2>2. OpeningInv'
    BY <1>0, <1>1, <2>1 DEF OpeningInv, CodecFits, BuiltIn
  <2>3. ChunksInv'
    BY <1>0, <1>2, <2>1 DEF ChunksInv
  <2>4. ContentsExact'
    BY <1>0, <1>1, <2>1 DEF ContentsExact
  <2>. QED BY <2>2, <2>3, <2>4 DEF Kept
<1>. QED BY <1>3, <1>4

\* A step of another call, of another goroutine, or none.
LEMMA ElsewhereKeeps ==
    ASSUME ContentsInv, UNCHANGED <<vol, stage, file, record, header, codec, chunk, data, opened>>,
           faults \in Nat /\ faults' \in Nat /\ faults' >= faults,
           stage \in {"hydrate", "find"} =>
              UNCHANGED <<call, last>> \/ call' = DecmpfsOf(file) \/ (call' = Idle /\ last'.call = DecmpfsOf(file))
    PROVE  Kept
<1>1. OpeningInv'
  BY DEF ContentsInv, OpeningInv, CodecFits, BuiltIn
<1>2. ChunksInv'
  BY DEF ContentsInv, ChunksInv
<1>3. ContentsExact'
  BY DEF ContentsInv, ContentsExact
<1>. QED BY <1>1, <1>2, <1>3 DEF Kept

LEMMA ContentsStep == ASSUME ContentsInv, [AllNext]_allVars PROVE ContentsInv'
<1>1. CallInv'
  BY UsesCalls, CallStepInv, CallStutter DEF allVars, ContentsInv
<1>2. CodecInv'
  BY CodecStep DEF ContentsInv
<1>3. CallTypes /\ faults \in Nat
  BY DEF ContentsInv, CallInv, CallTypes
<1>4. Kept
  <2>1. CASE \E f \in DOMAIN vol.files : OpenContents(f)
    BY <2>1, OpenContentsKeeps
  <2>2. CASE Hydrate \/ Find \/ Look \/ ReadFork \/ DecodeInline \/ DecodeChunk \/ DecodeEnd
    BY <2>2, HydrateKeeps, FindKeeps, LookKeeps, ReadForkKeeps, DecodeInlineKeeps, DecodeChunkKeeps, DecodeEndKeeps
  <2>3. CASE \E s \in Scopes, c \in Codecs \union {NoCodec} : Register(s, c)
    BY <1>3, <2>3, ElsewhereKeeps DEF Register, vars
  <2>4. CASE Work /\ UNCHANGED decodeVars
    <3>1. stage \in {"hydrate", "find"} => call = DecmpfsOf(file)
      BY <1>3, <2>4, WorkKeeps DEF ContentsInv, OpeningInv
    <3>. QED BY <1>3, <2>4, <3>1, WorkKeeps, ElsewhereKeeps DEF decodeVars
  <2>5. CASE stage = "idle" /\ Call /\ UNCHANGED decodeVars
    BY <1>3, <2>5, ElsewhereKeeps DEF decodeVars, Call, Begin
  <2>6. CASE UNCHANGED allVars
    BY <1>3, <2>6, ElsewhereKeeps DEF allVars, vars, decodeVars
  <2>. QED BY <2>1, <2>2, <2>3, <2>4, <2>5, <2>6 DEF AllNext, OpenFile, UseAttributes
<1>. QED BY <1>1, <1>2, <1>4 DEF ContentsInv, Kept

LEMMA ContentsInit == AllInit => ContentsInv
<1> SUFFICES ASSUME AllInit PROVE ContentsInv
  OBVIOUS
<1>1. CallInv /\ CodecInv
  BY CallInit, CodecInit DEF AllInit
<1>2. OpeningInv /\ ChunksInv /\ ContentsExact
  BY DEF AllInit, DecodeInit, OpeningInv, ChunksInv, ContentsExact, NoContent
<1>. QED BY <1>1, <1>2 DEF ContentsInv

\* A sound compressed file opens as what was compressed, whatever the chunk size
\* and the codec, and however codecs are registered meanwhile (decmpfs.go:198-355).
THEOREM ContentsAreExact == AllSpec => []ContentsExact
<1>1. ContentsInv => ContentsExact
  BY DEF ContentsInv
<1>. QED BY ContentsInit, ContentsStep, <1>1, PTL DEF AllSpec
============================================================================
